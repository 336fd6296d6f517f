-------------------------- MODULE InstallScripts --------------------------
(***************************************************************************)
(* The statements of the sql/ scripts that touch the registry, in file     *)
(* order, as the sequences Install runs. A row set is given whole, with    *)
(* the release each row first ships in; a release ships what has appeared  *)
(* by then. Consecutive INSERTs of one sort (rows, listings) are one.      *)
(***************************************************************************)
EXTENDS Naturals, Sequences

CONSTANTS
  AllRefs,         \* every row a statement could select
  Since,           \* the release a shipped row first appears in
  EnvRows,         \* 010: the env rows
  StdMacros,       \* 030: the standard macros
  StdOverloads,    \* 060: operators and accessors
  StdTypes,        \* 060: the type identifiers
  StdConversions,  \* 060: conversions and string functions, after the first sweep
  WktTypes,        \* 070: the google.protobuf types
  WktOverloads,    \* 070: their overloads
  WktNamed,        \* rows whose name is LIKE 'google.protobuf.%'
  ExtRows,         \* 1xx: per library, its groups of rows in file order
  Captured         \* 1xx: other rows that a library's claim by pattern matches

Shipped(rel, rows) == {r \in rows : Since[r] <= rel}

Stmt(rel, file, op, kind, env, refs) ==
  [rel |-> rel, file |-> file, op |-> op, kind |-> kind, env |-> env, refs |-> refs]

Code(rel, file) == Stmt(rel, file, "code", "overload", "standard", {})
Upsert(rel, file, rows) == Stmt(rel, file, "upsert", "overload", "standard", Shipped(rel, rows))
Insert(rel, file, rows) == Stmt(rel, file, "insert", "overload", "standard", Shipped(rel, rows))
Sweep(rel, file, kind, among) == Stmt(rel, file, "sweep", kind, "standard", among)
Claim(rel, file, env, rows) == Stmt(rel, file, "claim", "overload", env, rows)

InstallFile(rel) ==
  << Stmt(rel, "000_install", "version", "overload", "standard", {}),
     Code(rel, "000_install") >>

RegistryFile(rel) ==
  << Code(rel, "010_registry"),
     Stmt(rel, "010_registry", "repair", "overload", "standard", {}),
     Insert(rel, "010_registry", EnvRows) >>

ParseFile(rel) ==
  << Code(rel, "030_parse"),
     Upsert(rel, "030_parse", StdMacros),
     Sweep(rel, "030_parse", "macro", AllRefs) >>

StdlibFile(rel) ==
  << Code(rel, "060_stdlib"),
     Upsert(rel, "060_stdlib", StdOverloads),
     Insert(rel, "060_stdlib", StdTypes),
     Sweep(rel, "060_stdlib", "overload", AllRefs),
     Sweep(rel, "060_stdlib", "type", AllRefs),
     Upsert(rel, "060_stdlib", StdConversions),
     Sweep(rel, "060_stdlib", "overload", AllRefs) >>

WktFile(rel) ==
  << Code(rel, "070_wkt"),
     Upsert(rel, "070_wkt", WktTypes \cup WktOverloads),
     Sweep(rel, "070_wkt", "type", WktNamed),
     Sweep(rel, "070_wkt", "overload", AllRefs) >>

CoreScript(rel) ==
  InstallFile(rel) \o RegistryFile(rel) \o ParseFile(rel) \o StdlibFile(rel) \o WktFile(rel)

-----------------------------------------------------------------------------
(***************************************************************************)
(* The libraries. Each lists its rows in an environment of its own, group  *)
(* by group: for each group, whether the listing names the rows or selects *)
(* them by a pattern.                                                      *)
(***************************************************************************)
Library(file, env, byPattern) == [file |-> file, env |-> env, byPattern |-> byPattern]

Comprehensions == Library("100_ext_comprehensions", "two_var_comprehensions", <<TRUE>>)
Optionals == Library("110_ext_optionals", "optionals", <<FALSE, FALSE, FALSE, FALSE>>)
Strings == Library("120_ext_strings", "strings", <<FALSE>>)
Math == Library("130_ext_math", "math", <<TRUE>>)
Lists == Library("140_ext_lists", "lists", <<TRUE, FALSE>>)
Encoders == Library("150_ext_encoders", "encoders", <<FALSE>>)
Bindings == Library("160_ext_bindings", "bindings", <<FALSE>>)
Network == Library("170_ext_network", "network", <<FALSE>>)

ExtGroup(rel, lib, n) ==
  LET rows == ExtRows[lib.env][n]
      found == IF lib.byPattern[n] THEN Captured[lib.env] ELSE {}
  IN << Upsert(rel, lib.file, rows), Claim(rel, lib.file, lib.env, Shipped(rel, rows) \cup found) >>

ExtScript(rel, lib) ==
  LET body[n \in 0..Len(lib.byPattern)] ==
        IF n = 0 THEN << Code(rel, lib.file) >> ELSE body[n - 1] \o ExtGroup(rel, lib, n)
  IN body[Len(lib.byPattern)]
=============================================================================
