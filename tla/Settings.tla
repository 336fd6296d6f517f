------------------------------ MODULE Settings ------------------------------
(***************************************************************************)
(* Where the Go tools take their configuration from: the process           *)
(* environment first, then the .env file at the root of the repository.    *)
(* A configuration s has                                                   *)
(*   environ   the variables exported, a function into strings,            *)
(*   root      whether a go.mod is found above the working directory,      *)
(*   file      "absent", "unreadable" or "read",                           *)
(*   lines     the assignments of the file, in order; what is neither an   *)
(*             assignment nor a comment, parseLine drops,                  *)
(*   testdata  whether the checkout named has a testdata directory.        *)
(***************************************************************************)
EXTENDS Naturals, Sequences

Empty == ""
Fault == "no value"   \* the second result of the Go functions is an error

PostgresKeys == <<"POSTGRES_USER", "POSTGRES_PASSWORD", "POSTGRES_HOST", "POSTGRES_PORT", "POSTGRES_DB">>

\* A key given twice has the value of its last line.
FromFile(s, key) ==
  LET here == {i \in DOMAIN s.lines : s.lines[i].key = key}
  IN IF ~ s.root \/ s.file = "unreadable" THEN Fault
     ELSE IF s.file = "absent" \/ here = {} THEN Empty
     ELSE s.lines[CHOOSE i \in here : \A j \in here : j <= i].value

\* A variable exported but empty counts as missing.
Lookup(s, key) ==
  IF key \in DOMAIN s.environ /\ s.environ[key] # Empty
    THEN s.environ[key] ELSE FromFile(s, key)

\* A whole URL wins; otherwise all five parts are needed.
Dsn(s) ==
  LET url == Lookup(s, "DATABASE_URL")
      parts == [i \in DOMAIN PostgresKeys |-> Lookup(s, PostgresKeys[i])]
  IN IF url # Empty THEN [fault |-> url = Fault, dsn |-> <<url>>]
     ELSE [fault |-> \E i \in DOMAIN parts : parts[i] \in {Fault, Empty}, dsn |-> parts]

Checkout(s) == Lookup(s, "CEL_EXPR_DIR")

\* The directory is looked for again on every call.
HasCorpus(s) == Checkout(s) \notin {Fault, Empty} /\ s.testdata
=============================================================================
