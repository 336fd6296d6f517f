------------------------------ MODULE Install ------------------------------
(***************************************************************************)
(* The installer and upgrader of cel4postgres.                             *)
(*                                                                         *)
(* An artifact of a release is a sequence of SQL statements, run over      *)
(* whatever schema is already there. The scripts open no transaction of    *)
(* their own (000_install.sql, lines 11-13): the caller runs them one      *)
(* transaction per file (psql -1 -f in a loop, README), one transaction    *)
(* around a bundle (psql -1, a -tx artifact, a migration tool, pg_tle), or *)
(* statement by statement (a bare psql -f). A failure rolls back to the    *)
(* last commit. Meanwhile a consumer of the library registers rows of its  *)
(* own in the same tables.                                                 *)
(*                                                                         *)
(* "db" is what is committed; "work" is what the installer's open          *)
(* transaction sees: its own changes and, statement by statement, whatever *)
(* others have committed (READ COMMITTED).                                 *)
(***************************************************************************)
EXTENDS Naturals, Sequences, FiniteSets

CONSTANTS
  Releases,      \* release numbers, in order of publication
  Files,         \* the sql/ scripts
  CoreFiles,     \* those of the core artifact, 000 to 070
  Exts,          \* the environments of the shipped extension libraries
  OwnEnvs,       \* environments a consumer creates
  Refs,          \* registry rows: a (kind, ref) pair each
  ConsumerRefs,  \* the rows a consumer registers; all others are shipped
  ExtRefs,       \* the rows the extension libraries ship
  Kind,          \* kind of a row: overload, type, macro or env
  Impl,          \* schema of its implementation: cel, own or null
  Partial,       \* rows of which no DO UPDATE sets every column
  ConsumerMay,   \* the env_item rows a consumer may insert
  Artifacts,     \* the published artifacts
  Body,          \* the statements of each
  Idle,          \* no artifact is being installed
  Modes,         \* transaction granularities in use
  MaxRuns,       \* bound: installer runs in a behaviour
  MaxCrashes     \* bound: failed runs in a behaviour

Envs == {"standard"} \cup Exts \cup OwnEnvs
Kinds == {"overload", "type", "macro", "env"}
Ops == {"code", "version", "repair", "upsert", "insert", "sweep", "claim"}
Items == Envs \X Refs

Statement ==
  [rel : Releases, file : Files, op : Ops, kind : Kinds, env : Envs,
   refs : SUBSET Refs]

ASSUME ReleaseAssumption == Releases \subseteq Nat \ {0}

ASSUME FileAssumption == CoreFiles \subseteq Files /\ "010_registry" \in CoreFiles

ASSUME EnvAssumption == "standard" \notin Exts \cup OwnEnvs

ASSUME RefAssumption ==
  /\ Kind \in [Refs -> Kinds]
  /\ Impl \in [Refs -> {"cel", "own", "null"}]
  /\ ConsumerRefs \subseteq Refs
  /\ ExtRefs \subseteq Refs \ ConsumerRefs
  /\ Partial \subseteq Refs

\* The rows of the core that an environment can show.
CoreRefs == {r \in Refs \ (ConsumerRefs \cup ExtRefs) : Kind[r] # "env"}

ASSUME ConsumerAssumption == ConsumerMay \subseteq Items

ASSUME ModeAssumption == Modes \subseteq {"statement", "file", "bundle"}

ASSUME ArtifactAssumption ==
  /\ Idle \notin Artifacts
  /\ DOMAIN Body = Artifacts
  /\ \A a \in Artifacts : Body[a] \in Seq(Statement) \ {<<>>}

\* How the scripts are written: a library's rows are listed, under the
\* library's environment, by the very next statement of the same file; only
\* the sweeps put anything into standard; no library lists a row of the core.
ASSUME ScriptAssumption ==
  \A a \in Artifacts : \A i \in 1..Len(Body[a]) :
    LET st == Body[a][i]
        nx == Body[a][i + 1]
        libs == st.refs \cap ExtRefs
    IN /\ st.op = "claim" => st.env \in Exts /\ st.refs \subseteq ExtRefs \cup ConsumerRefs
       /\ st.op \in {"upsert", "insert"} /\ libs # {} =>
            /\ i < Len(Body[a])
            /\ nx.op = "claim" /\ nx.file = st.file /\ libs \subseteq nx.refs

\* Statement j of artifact a, at or after i in the same file, sweeps row r.
SweptAt(a, i, j, r) ==
  /\ Body[a][j].op = "sweep" /\ Body[a][j].kind = Kind[r] /\ r \in Body[a][j].refs
  /\ \A k \in i..j : Body[a][k].file = Body[a][i].file

\* ... and every core row is swept later in the file that ships it.
ASSUME SweepAssumption ==
  /\ \A r \in CoreRefs : Impl[r] # "own"
  /\ \A a \in Artifacts : \A i \in 1..Len(Body[a]) :
       Body[a][i].op \in {"upsert", "insert"} =>
         \A r \in Body[a][i].refs \cap CoreRefs :
           \E j \in (i + 1)..Len(Body[a]) : SweptAt(a, i, j, r)

\* An artifact is of one release. The core's records it before anything
\* else and replaces the functions of every core file; a library's file
\* alone does neither. Sweeps take overloads, types and macros, and no
\* script ships a row under a consumer's name.
ASSUME UpgradeAssumption ==
  \A a \in Artifacts :
    LET core == Body[a][1].file \in CoreFiles IN
    /\ core => /\ Body[a][1].op = "version"
               /\ \A f \in CoreFiles : \E i \in 1..Len(Body[a]) :
                    Body[a][i].op = "code" /\ Body[a][i].file = f
    /\ \A i \in 1..Len(Body[a]) :
         LET st == Body[a][i] IN
         /\ st.rel = Body[a][1].rel
         /\ ~ core => st.op # "version" /\ st.file \notin CoreFiles
         /\ st.op = "sweep" => st.kind # "env"
         /\ st.op \in {"upsert", "insert"} => st.refs \cap ConsumerRefs = {}

VARIABLES
  db,       \* the committed registry
  work,     \* the registry the installer's transaction sees
  artifact, \* the artifact being installed, or Idle
  pc,       \* its next statement
  mode,     \* its transaction granularity
  owned,    \* history: the env_item rows the consumer has inserted
  early,    \* history: the rows it listed before they were committed
  bare,     \* history: the rows it committed while nothing listed them
  clean,    \* history: runs completed since the last failed one
  runs,     \* runs started
  crashes   \* runs that failed

vars == <<db, work, artifact, pc, mode, owned, early, bare, clean, runs, crashes>>

-----------------------------------------------------------------------------
(***************************************************************************)
(* The registry.                                                           *)
(*   versions : cel.schema_version in the order of applied_at              *)
(*   code     : the release each script's functions come from, 0 if none   *)
(*   gen      : the release that the columns of each row come from, 0 if   *)
(*              absent; a consumer's row has no release and counts as 1    *)
(*   rest     : the same for the columns of a Partial row that its         *)
(*              DO UPDATE leaves as they are                               *)
(*   items    : cel.env_item                                               *)
(***************************************************************************)
Generation == Releases \cup {0, 1}

Empty ==
  [versions |-> <<>>,
   code     |-> [f \in Files |-> 0],
   gen      |-> [r \in Refs |-> 0],
   rest     |-> [r \in Refs |-> 0],
   items    |-> {}]

\* cel.version(): the row applied last.
Version(d) == IF d.versions = <<>> THEN 0 ELSE d.versions[Len(d.versions)]

\* Variant: any environment may already list the row.
UnclaimedListed(d, r) == Impl[r] # "own"

\* Variant: a consumer's implementation counts as well.
UnclaimedForeign(d, r) == ~ \E e \in Envs : <<e, r>> \in d.items

\* cel._unclaimed: no env lists the row yet, and its implementation, if it
\* has one, lives in the cel schema.
Unclaimed(d, r) ==
  /\ ~ \E e \in Envs : <<e, r>> \in d.items
  /\ Impl[r] # "own"

-----------------------------------------------------------------------------
Init ==
  /\ db = Empty
  /\ work = db
  /\ artifact = Idle
  /\ pc = 1
  /\ mode \in Modes
  /\ owned = {} /\ early = {} /\ bare = {}
  /\ clean = 0
  /\ runs = 0
  /\ crashes = 0

\* Variant: off by one at the first statement.
BeginAtZero(a, m) ==
  /\ artifact = Idle
  /\ runs < MaxRuns
  /\ artifact' = a
  /\ pc' = 0
  /\ mode' = m
  /\ work' = db
  /\ runs' = runs + 1
  /\ UNCHANGED <<db, owned, early, bare, clean, crashes>>

\* Variant: releases are installed in any order.
BeginAnyRelease(a, m) ==
  /\ artifact = Idle
  /\ runs < MaxRuns
  /\ artifact' = a
  /\ pc' = 1
  /\ mode' = m
  /\ work' = db
  /\ runs' = runs + 1
  /\ UNCHANGED <<db, owned, early, bare, clean, crashes>>

\* Whoever runs the upgrade starts an artifact. Releases are installed in
\* order of publication ("upgrade through each"), an extension file alone
\* only over the core of its own release.
Begin(a, m) ==
  /\ artifact = Idle
  /\ runs < MaxRuns
  /\ IF Body[a][1].file \in CoreFiles
       THEN Body[a][1].rel >= Version(db)
       ELSE /\ Body[a][1].rel = Version(db)
            /\ \A f \in CoreFiles : db.code[f] = Version(db)
  /\ artifact' = a
  /\ pc' = 1
  /\ mode' = m
  /\ work' = db
  /\ runs' = runs + 1
  /\ UNCHANGED <<db, owned, early, bare, clean, crashes>>

\* The statement the installer is at, and whether it is the last one.
Current == Body[artifact][pc]
AtEnd == pc = Len(Body[artifact])

\* Variant: psql -f without -1.
CommitsEachStatement == mode \in {"statement", "file"} \/ AtEnd

\* Where a transaction ends after the current statement.
CommitsHere ==
  \/ mode = "statement"
  \/ AtEnd
  \/ mode = "file" /\ Body[artifact][pc + 1].file # Current.file

Running(op) == artifact # Idle /\ Current.op = op

\* The statement at pc leaves d behind; the transaction may end with it,
\* and the run with the script.
Executed(d) ==
  /\ work' = d
  /\ db' = IF CommitsHere THEN d ELSE db
  /\ IF AtEnd
       THEN artifact' = Idle /\ pc' = 1 /\ clean' = clean + 1
       ELSE artifact' = artifact /\ pc' = pc + 1 /\ clean' = clean
  /\ UNCHANGED <<mode, owned, early, bare, runs, crashes>>

\* CREATE OR REPLACE FUNCTION, for every function of a file.
RunCode ==
  /\ Running("code")
  /\ Executed([work EXCEPT !.code[Current.file] = Current.rel])

\* Variant: without ON CONFLICT DO NOTHING.
RunVersionAgain ==
  /\ Running("version")
  /\ Executed([work EXCEPT !.versions = Append(@, Current.rel)])

\* INSERT INTO cel.schema_version ... ON CONFLICT DO NOTHING.
RunVersion ==
  /\ Running("version")
  /\ LET v == Current.rel IN
     Executed([work EXCEPT !.versions =
       IF \E i \in 1..Len(@) : @[i] = v THEN @ ELSE Append(@, v)])

\* Variants: no repair; the repair of rows that any environment lists.
RunRepairNothing == Running("repair") /\ Executed(work)

RunRepairAnyEnv ==
  /\ Running("repair")
  /\ Executed([work EXCEPT !.items =
       {i \in @ : ~ (i[1] = "standard" /\ \E e \in Envs \ {"standard"} : <<e, i[2]>> \in @)}])

\* The DELETE of 010_registry.sql: standard loses what an extension
\* environment lists as well.
RunRepair ==
  /\ Running("repair")
  /\ Executed([work EXCEPT !.items =
       {i \in @ : ~ (i[1] = "standard" /\ \E e \in Exts : <<e, i[2]>> \in @)}])

\* The rows of the current statement that are not there yet.
Missing == {r \in Current.refs : work.gen[r] = 0}

\* d's columns c, with those of rows from the current release.
Renewed(c, rows) == [r \in Refs |-> IF r \in rows THEN Current.rel ELSE c[r]]

\* Variant: the rows keep their first content.
RunUpsertOnce ==
  /\ Running("upsert")
  /\ Executed([work EXCEPT !.gen = Renewed(@, Missing), !.rest = Renewed(@, Missing)])

\* INSERT ... ON CONFLICT DO UPDATE into overload, macro or type: a row that
\* is there keeps the columns that the DO UPDATE does not name.
RunUpsert ==
  /\ Running("upsert")
  /\ Executed([work EXCEPT !.gen = Renewed(@, Current.refs),
                            !.rest = Renewed(@, (Current.refs \ Partial) \cup Missing)])

\* INSERT ... ON CONFLICT DO NOTHING: the standard types and the env rows.
RunInsert ==
  /\ Running("insert")
  /\ Executed([work EXCEPT !.gen = Renewed(@, Missing), !.rest = Renewed(@, Missing)])

\* Variant: the sweep reads what was committed before its transaction.
RunSweepCommitted ==
  /\ Running("sweep")
  /\ LET st == Current
         swept == {r \in st.refs : Kind[r] = st.kind /\ db.gen[r] > 0 /\ Unclaimed(db, r)}
     IN Executed([work EXCEPT !.items = @ \cup ({"standard"} \X swept)])

\* INSERT INTO cel.env_item SELECT 'standard', ... WHERE cel._unclaimed(...).
RunSweep ==
  /\ Running("sweep")
  /\ LET st == Current
         swept == {r \in st.refs : Kind[r] = st.kind /\ work.gen[r] > 0 /\ Unclaimed(work, r)}
     IN Executed([work EXCEPT !.items = @ \cup ({"standard"} \X swept)])

\* An extension script lists its rows under its own environment.
RunClaim ==
  /\ Running("claim")
  /\ LET st == Current
         listed == {r \in st.refs : work.gen[r] > 0}
     IN Executed([work EXCEPT !.items = @ \cup ({st.env} \X listed)])

\* The run fails: the open transaction rolls back, the rest is not run.
Crash ==
  /\ artifact # Idle
  /\ crashes < MaxCrashes
  /\ work' = db
  /\ artifact' = Idle
  /\ pc' = 1
  /\ clean' = 0
  /\ crashes' = crashes + 1
  /\ UNCHANGED <<db, mode, owned, early, bare, runs>>

-----------------------------------------------------------------------------
(***************************************************************************)
(* The consumer. Its statements commit at once; one that touches a row the *)
(* installer's open transaction has changed waits for that transaction.    *)
(***************************************************************************)
\* INSERT INTO cel.overload / cel.type / cel.macro, and with E non-empty
\* the env_item rows in the same transaction.
Register(r, E) ==
  /\ db.gen[r] = 0
  /\ db.code["010_registry"] > 0
  /\ E \X {r} \subseteq ConsumerMay
  /\ db' = [db EXCEPT !.gen[r] = 1, !.rest[r] = 1, !.items = @ \cup (E \X {r})]
  /\ work' = [work EXCEPT !.gen[r] = 1, !.rest[r] = 1, !.items = @ \cup (E \X {r})]
  /\ owned' = owned \cup (E \X {r})
  /\ bare' = bare \cup {s \in {r} : \A e \in Envs : <<e, s>> \notin db'.items}
  /\ UNCHANGED <<artifact, pc, mode, early, clean, runs, crashes>>

\* INSERT INTO cel.env_item: the listing names its row, but no foreign key
\* asks that there is one.
Enable(e, r) ==
  /\ <<e, r>> \in ConsumerMay
  /\ <<e, r>> \notin db.items \cup work.items
  /\ db.code["010_registry"] > 0
  /\ db' = [db EXCEPT !.items = @ \cup {<<e, r>>}]
  /\ work' = [work EXCEPT !.items = @ \cup {<<e, r>>}]
  /\ owned' = owned \cup {<<e, r>>}
  /\ early' = early \cup {s \in {r} : db.gen[s] = 0}
  /\ UNCHANGED <<artifact, pc, mode, bare, clean, runs, crashes>>

-----------------------------------------------------------------------------
Installer ==
  \/ \E a \in Artifacts, m \in Modes : Begin(a, m)
  \/ RunCode
  \/ RunVersion
  \/ RunRepair
  \/ RunUpsert
  \/ RunInsert
  \/ RunSweep
  \/ RunClaim
  \/ Crash

Consumer ==
  \/ \E r \in ConsumerRefs, E \in SUBSET Envs : Register(r, E)
  \/ \E e \in Envs, r \in Refs : Enable(e, r)

Next == Installer \/ Consumer

Spec == Init /\ [][Next]_vars

-----------------------------------------------------------------------------
(***************************************************************************)
(* Properties.                                                             *)
(***************************************************************************)
Registry ==
  [versions : Seq(Releases), code : [Files -> Generation],
   gen : [Refs -> Generation], rest : [Refs -> Generation], items : SUBSET Items]

TypeOK ==
  /\ db \in Registry
  /\ work \in Registry
  /\ artifact \in Artifacts \cup {Idle}
  /\ pc \in Nat \ {0}
  /\ artifact # Idle => pc <= Len(Body[artifact])
  /\ mode \in Modes
  /\ owned \subseteq ConsumerMay /\ early \subseteq Refs /\ bare \subseteq ConsumerRefs
  /\ clean \in Nat /\ runs \in Nat /\ crashes \in Nat

ListedUnder(d, r) == {e \in Envs : <<e, r>> \in d.items}

\* Installing the libraries changes nothing for callers of standard: no row
\* of a library is ever visible there unless a consumer put it there, whatever
\* is interrupted, rerun or upgraded (upgrade-check.sh, the last expectation).
StandardExclusive ==
  \A r \in ExtRefs : <<"standard", r>> \in db.items => <<"standard", r>> \in owned

\* A library's row is committed together with its listing: a caller never
\* finds a library registered but in no environment, and no later sweep
\* takes the row for an unlisted one of the core.
NoOrphanExtension ==
  \A r \in ExtRefs : db.gen[r] > 0 => ListedUnder(db, r) \cap Exts # {}

\* The consumer got in the way of row r: it listed it before it was there, so
\* that the sweep passes over it, or under a library's environment, so that
\* the repair takes it out of standard.
Excused(r) == r \in early \/ \E e \in Exts : <<e, r>> \in owned

\* Whatever else a consumer curates meanwhile, a core row that is committed
\* is visible in standard: the sweep of 060 and 070 skips none it should have
\* taken, and no repair takes one out.
StandardComplete ==
  \A r \in CoreRefs : db.gen[r] > 0 => <<"standard", r>> \in db.items \/ Excused(r)

\* 060_stdlib.sql, line 789: "Everything above is visible in the standard
\* env." (Excused rows are not: FindEarly.cfg.)
EverythingVisible == \A r \in CoreRefs : db.gen[r] > 0 => <<"standard", r>> \in db.items

\* What a consumer enabled stays enabled through every reinstall, but for
\* what it put in standard and a library's environment lists as well: that
\* is what the repair of 010 removes, whoever listed it.
OwnedSurvive ==
  \A i \in owned :
    i \in db.items \/ (i[1] = "standard" /\ ListedUnder(db, i[2]) \cap Exts # {})

\* docs/INSTALL.md, line 170: the installer "leaves alone anything you
\* registered yourself". (The repair does not: FindCaptured.cfg and FindCurated.cfg.)
EverythingKept == owned \subseteq db.items

\* A claim of some artifact, by name or by pattern, lists row r under e.
Claims(e, r) ==
  \E a \in Artifacts : \E i \in 1..Len(Body[a]) :
    Body[a][i].op = "claim" /\ Body[a][i].env = e /\ r \in Body[a][i].refs

\* A consumer's row is visible where the consumer listed it, where a library's
\* claim reaches it, and otherwise at most in standard, if it names no
\* implementation of the consumer's own and was committed unlisted.
ConsumerConfined ==
  \A r \in ConsumerRefs : \A e \in ListedUnder(db, r) :
    \/ <<e, r>> \in owned
    \/ e = "standard" /\ Impl[r] # "own" /\ r \in bare
    \/ Claims(e, r)

\* scripts/upgrade-check.sh, line 164: "Nothing the upgrade did not ship into
\* standard may end up there: not the consumer's overload". (A consumer's
\* type or bare overload does: FindSwept.cfg.)
NothingForeign ==
  \A r \in ConsumerRefs : <<"standard", r>> \in db.items => <<"standard", r>> \in owned

\* cel.version() is the release every core function comes from.
CoreAtVersion(d) == \A f \in CoreFiles : d.code[f] = Version(d)

\* docs/INSTALL.md: "SELECT cel.version() reports the installed version".
\* However the scripts are run, once a run has completed since the last
\* failure the version is neither ahead of the functions of any core script
\* nor behind them. (In between it may be ahead: 000 commits it first.)
VersionSettled == artifact = Idle /\ clean >= 1 => CoreAtVersion(db)

\* Every function the artifact ships is at its release, and so are the rows of
\* its upserts, but for the columns a Partial row keeps; the rows of an INSERT
\* ... DO NOTHING are there, from whatever release brought them.
Resynced(d, a) ==
  \A i \in 1..Len(Body[a]) :
    LET st == Body[a][i] IN
    /\ st.op = "code" => d.code[st.file] = st.rel
    /\ st.op = "upsert" => /\ \A r \in st.refs : d.gen[r] = st.rel
                           /\ \A r \in st.refs \ Partial : d.rest[r] = st.rel
    /\ st.op = "insert" => \A r \in st.refs : d.gen[r] > 0

RunCompletes == artifact # Idle /\ artifact' = Idle /\ clean' = clean + 1

\* A run that completes has brought everything it ships to its release, as
\* far as its statements can (Resynced), also when earlier attempts at it
\* failed half-way and whatever release the schema was at.
ReplacesWhatItShips == [][RunCompletes => Resynced(db', artifact)]_vars

\* docs/INSTALL.md, line 170: the installer "replaces every function and every
\* registry row it ships": after a complete run of the whole release a shipped
\* row is of that release, column by column. (Neither the columns a DO UPDATE
\* leaves out nor the rows of a DO NOTHING are: FindPartial.cfg.)
RowsAtVersion ==
  artifact = Idle /\ clean >= 1 =>
    \A r \in Refs \ ConsumerRefs :
      db.gen[r] > 0 => db.gen[r] = Version(db) /\ db.rest[r] = Version(db)

\* Rows the consumer has a part in: its own, and those it listed.
Touched == ConsumerRefs \cup {i[2] : i \in owned}

\* d and c differ at most in the listings of such rows.
SameButTouched(d, c) ==
  /\ [d EXCEPT !.items = {}] = [c EXCEPT !.items = {}]
  /\ \A e \in Envs, r \in Refs \ Touched : <<e, r>> \in d.items <=> <<e, r>> \in c.items

\* docs/INSTALL.md: "The installer is idempotent". An artifact that is
\* installed already changes nothing when it completes again in one
\* transaction, but for where rows are listed that the consumer has a part in.
Idempotent ==
  [][RunCompletes /\ mode = "bundle" /\ Resynced(db, artifact)
       => SameButTouched(db', db)]_vars

\* A schema whose installation was cut short between two statements heals:
\* after two complete runs in a row no row of a library is left in standard
\* that the consumer has not put there. (One is not enough: its sweep runs
\* before the library lists the row.) One run is enough for a schema swept by
\* a release without cel._unclaimed.
HealsInTwoRuns ==
  clean >= 2 \/ (clean >= 1 /\ crashes = 0) => StandardExclusive
=============================================================================
