# Specifications of cel4postgres

TLA+ modules, TLC runs and TLAPS proofs for the program in `../src`: an
implementation of the Common Expression Language in SQL and PL/pgSQL, installed
into a PostgreSQL database as the schema `cel`. All paths below are relative to
`src/`; file names like `060` mean `sql/060_stdlib.sql`.

Contents: [the system](#the-system) · [modules](#modules) ·
[runs](#runs) · [bounds and fairness](#bounds-and-fairness) ·
[proofs](#proofs) · [disagreements found](#disagreements-found) ·
[not modelled](#not-modelled) · [plan](#plan)

## The system

There is no server process. The state is a handful of tables (the registry);
everything else is a function from an expression, a set of bindings and a
registry snapshot to a jsonb value. What can go wrong over time is in the
installer and in the sessions that share the registry; what can go wrong
within one call is in the order in which errors, unknowns and overloads are
looked at, and at the boundaries of PostgreSQL's arithmetic. Next to the
database there are two Go commands: `confreport` runs the upstream corpus
against an installation and against cel-go and publishes the comparison, and
`skipgen` generates the list of the cases it skips. Both work on a world others
change meanwhile: a connection, a schema, a checkout, files.

| Component | Source | State | Operations |
|---|---|---|---|
| Installer and artifacts | `000`, the statements at the end of each script, `scripts/build-release.sh`, `scripts/upgrade-check.sh` | `cel.schema_version`, the functions, the registry tables | install, reinstall, upgrade, fail half-way |
| Registry | `010` | `cel.env`, `overload`, `macro`, `type`, `env_item` | `_env_names`, `_env_flags`, `_env_macros`, `_unclaimed`; consumers INSERT |
| Values | `020` | none | constructors, `_equal`, `_compare`, `_map_find`, `_f2n` |
| Parser | `030`, macros in `100`, `110`, `140`, `160` | tokens, node ids, depth, macro table | `cel.parse`: precedence climbing, balancing, macro expansion |
| Checker | `040` | substitution, type map, reference map | unification, overload resolution, joins |
| Evaluator | `050` | bindings, absorbed unknowns | `_ev` by node kind, `_ev_dispatch`, `_ev_comp`, name resolution |
| Standard library | `060` | none | arithmetic, conversions, relations, strings, time |
| Well-known types | `070` | none | protobuf messages to values and back |
| Extension libraries | `100` to `170` | none | comprehensions, optionals, strings, math, lists, encoders, bindings, network |
| pg_tle wrapper | `scripts/pgtle-wrap.sh` | none | wraps an artifact |
| Conformance runner and report | `conformance/`, `internal/cmd/` | `skippedCases`, the counts and lists of a report, two committed documents | `confreport`: `Build`, `runCase`, write; `skipgen`: scan, write |
| Oracle and judgement | `internal/oracle/`, `conformance/oracle.go` | none | `RunCase`, `RunOracleCase`, `compareOracleType`, `compareResult` |
| Codec | `internal/codec/` | none | `FromExprValue`, `FromType`, `FromDecl`, `Equal` |
| Corpus and settings | `internal/corpus`, `dotenv`, `testdb`, `repo` | `.env`, the checkout named there | `Lookup`, `Files`, `Load`, `ContainsNulString` |
| CI, local database | `.github/`, `compose.yaml` | none | build, upgrade test, release |

How they interact. `cel.evaluate` is `cel.eval` of `cel.check` of `cel.parse`,
each given the same env argument, which `_env_names` turns into a set of
environments. The parser reads flags and macros of these; a macro is a function
from argument nodes to nodes, and all comprehension macros end in one node kind,
the fold. The checker and the evaluator read overloads; the checker leaves
overload ids in the node, the evaluator runs the functions registered for them.
Errors and unknowns are values that every call has to treat in the prescribed
order. The installer rewrites the functions and shares the tables with the
consumers. The conformance runner calls `cel.parse`, `cel.check` and `cel.eval`
one at a time over one connection; the codec turns the corpus's protobuf values
into the jsonb the database takes and judges the jsonb it answers; cel-go gets
the case as it is. `skipgen` writes the Go file `confreport` is compiled with.

What is hard, and the properties that make each part correct:

- *Installer.* The scripts open no transaction; each run may fail after any
  commit; a later script repairs or relies on what an earlier one left; the
  rule that decides what is swept into `standard` reads what others have
  written. Correct: environments of extension libraries never leak into
  `standard`, core rows never go missing, consumer rows are neither lost nor
  taken, rerunning changes nothing, the version tells the truth.
- *Environment resolution.* Cycles, dangling names, an aggregate without an
  order. Correct: the closure of the argument, whatever the order; flags
  decided by the environment the caller can predict; termination.
- *Parser.* A limit on depth next to a rebalancing of chains, macros that
  number nodes. Correct: unique node ids, one shape per expression, what
  parses can be evaluated.
- *Checker.* Candidates tried one after another on a shared substitution.
  Correct: a failed candidate leaves no trace, no cyclic substitution,
  joins independent of order.
- *Evaluator.* Errors and unknowns absorbed in `&&`, `||`, `?:` and folds, and
  strict everywhere else; local variables against qualified names. Correct:
  partial evaluation is sound, no dependence on order where there is none.
- *Numbers.* int and uint in unbounded numeric, double partly in numeric and
  partly in float8, which raises where IEEE does not. Correct: checked 64-bit
  arithmetic, IEEE rounding, numeric order across kinds, no exception.
- *Conformance tools.* The same count is kept in four places by three branches
  of two loops; a failing query and a rejected expression look alike at the
  call; each side has its own path to a verdict; the corpus moves under a
  generated list; two files are written one after the other. Correct: the
  numbers add up, nothing passes because something broke, equal answers are
  judged alike, what is skipped has to be, the two documents are of one run.
- *Codec.* Two encodings of one value, a comparison that is neither that of Go
  nor that of jsonb, a store that drops negative zeros and refuses U+0000.
  Correct: equal after the round trip exactly when equal in meaning; the type of
  a declaration fits the value bound to it.

## Modules

| Module | Stands for |
|---|---|
| `Install` | the registry, the installer with its transactions and failures, and a consumer |
| `InstallScripts` | the statements of each script that touch the registry, in order |
| `MCInstall` | two releases, two libraries and a consumer, as an instance |
| `InstallProofs` | theorems about it: what sweeps, claims and failures leave; versions, reruns and healing |
| `EnvUnion` | what an env argument stands for: a closure, in one step (abstract) |
| `EnvNames` | `cel._env_names`, the work list, and the merge of flags |
| `MCEnvNames`, `EnvNamesProofs` | its instance and its theorems |
| `Outcomes` | which of its arguments' errors and unknowns each kind of call takes |
| `Comprehension` | `cel._ev_comp` over the nodes of the macros |
| `MCComprehension`, `ComprehensionProofs` | its instance and its theorems |
| `Resolution`, `MCResolution`, `ResolutionProofs` | what a dotted chain means to the checker and to the evaluator; an instance; theorems |
| `Types` | types as terms; substitution, occurs check, generality |
| `Checker`, `MCChecker`, `CheckerProofs` | `cel._ck` on a growing expression, overload resolution, unification; an instance; theorems |
| `PgNumeric` | PostgreSQL's numeric and float8 at a small scale (external) |
| `Numbers`, `NumbersProofs` | the numeric operators, conversions and relations, and most of the math extension; theorems |
| `Settings` | where the Go tools take their configuration from |
| `Verdicts` | what cel-go may answer, and how the answers of both sides are judged |
| `Conformance`, `MCConformance` | `confreport` and `skipgen` step by step, with what happens around them; an instance |
| `ConformanceProofs` | theorems about it: the counts; verdicts, skips and documents |
| `Codec`, `MCCodec`, `CodecProofs` | `internal/codec`, what jsonb keeps, and the scan for NUL; an instance; theorems |

### Install

`db` is the committed registry, `work` what the installer's transaction sees.
Both are records: `versions` (`cel.schema_version`), `code` (per script, the
release its functions come from), `gen` (per row, the release its columns come
from), `rest` (the same for the columns that the row's DO UPDATE leaves as they
are, if it has such: `Partial`) and `items` (`cel.env_item`). `artifact`, `pc` and
`mode` are the run in progress; `clean`, `runs` and `crashes` are history, and so
is what the properties need to know of the consumer: what it has listed (`owned`),
which rows it listed before they were there (`early`), which of its own rows it
committed unlisted (`bare`).

| Action | Code |
|---|---|
| `Begin` | someone runs an artifact; `upgrade-check.sh` 93-109, 143-157 |
| `RunVersion` | `000:26`, INSERT … ON CONFLICT DO NOTHING |
| `RunCode` | the CREATE OR REPLACE FUNCTIONs of a file |
| `RunRepair` | the DELETE of `010:184-197` |
| `RunUpsert` | INSERT … ON CONFLICT DO UPDATE of overloads, macros, types; `060:769-773`, `070:709-711` and `130:531-536` do not set every column |
| `RunInsert` | INSERT … ON CONFLICT DO NOTHING: `010:199-221`, `060:775-788` |
| `RunSweep` | INSERT INTO env_item SELECT 'standard' … WHERE `_unclaimed` |
| `RunClaim` | an extension script lists its rows under its own environment |
| `Crash` | the run fails; the open transaction is rolled back |
| `Register`, `Enable` | a consumer's INSERTs; `upgrade-check.sh` 112-133 |

`CommitsHere` is where the transaction ends: after each statement (bare
`psql -f`), at the end of each file (the loop of `README.md` 145-151), or at the
end of the artifact (`psql -1`, the `-tx` artifacts, pg_tle). READ COMMITTED is
modelled by letting the consumer's rows appear in `work` at once; a consumer
that inserts a listing the installer has inserted waits for it, so the guard of
`Enable` looks at both.

The consumer may list any row under any environment. `cel.env_item.ref` has no
foreign key (`010:61-66`), so `Enable` does not ask whether the row is there: a
consumer that has read the notes of the next release can list its rows today. It
may list a library's row in `standard` and a core row under a library's
environment, and its own rows may be overloads with an implementation of their
own, or types and overloads without one. Nothing of this is assumed away; what
it costs is named in the properties:

- `Excused` rows are not swept or do not stay swept: listed before they were there,
  or under a library's environment (`StandardComplete`).
- A listing in `standard` goes when a library's environment lists the row too,
  whoever put it there (`OwnedSurvive`).
- A row of the consumer can also appear where a library's claim reaches it, and in
  `standard` if it was committed unlisted and has no implementation to tell whose
  it is (`ConsumerConfined`).
- A rerun may change where the rows are listed that the consumer has a part in, and
  nothing else (`SameButTouched`, in `Idempotent`).

How the scripts are written matters: `ScriptAssumption` and `SweepAssumption`
say that a library's rows are listed by the very next statement of the same file
and that a core row is swept later in the file that ships it. They are read off
the scripts, hold of `InstallScripts` (TLC evaluates them), and are what a new
script must respect. `UpgradeAssumption` says what the theorems about versions
need of the artifacts: all statements of one are of one release, an artifact
with core files has them all and starts with `000`, and no script writes a
consumer's name or sweeps environments. It holds of the release artifacts
`build-release.sh` puts together.

### EnvNames

`pending`, `seen` and `given` are the variables of `cel._env_names` and its
argument; `includes` are the `kind = 'env'` items. One action per branch of the
loop: `Skip`, `Unresolved`, `Visit`, and `Empty` and `Return` around it.
`Orders` is the array_agg without ORDER BY. `FlagFrom` is the `jsonb` merge
of `_env_flags` for one key. `EnvUnion` says the same in one step and without a
list; `ComputesUnion` is the refinement.

### Outcomes and Comprehension

An outcome is a bool, an int, a list, another value, an error that names the
node it comes from, or an unknown with a set of ids. `Outcomes` has one operator
per treatment: `Logical`, `Conditional`, `NotStrictlyFalse`, `Strict`,
`Singleton`. `Comprehension` has the four places of a fold (`InitOf`, `CondOf`,
`StepOf`, `ResultOf`) as `cel._mx_fold` assembles them and the control of
`cel._ev_comp`: `EvalRange`, `EvalInit`, `Fold`, `Leave`, `EvalResult`. What
predicate and transform come to on each element is chosen in `Init`, any mix.
The two-variable macros and `cel.bind` are the same folds;
`InsertStep` is the step of `transformMap` and `transformMapEntry`.
`Answer` is the reference: what a macro should come to, from the set of elements
and with an order only where the answer depends on one.

### Resolution

One chain such as `a.b.c`, somewhere inside nested comprehensions. The checker's
half starts with the whole chain as a name (`n` parts) and takes off one part at
a time; the evaluator's half starts from the node left by the checker, or from
the parsed one, and walks outwards over the frames.

| State or action | Code |
|---|---|
| `declared`, `bound`, `container` | declarations and registered types, the activation, the option |
| `scope` | the comprehensions around; `CheckFrames` and `EvalFrame` are what each pass makes of them |
| `ref`, `parts`, `dot`, `ctr` | the reference, and the node as `_attr_chain` reads it |
| `Qualified`, `Field` | the `select` branch of `_ck`, `_ck_qualified` |
| `IdentLocal`, `IdentGlobal`, `Undeclared` | the `ident` branch, `_ck_ident` |
| `Found`, `Outward` | `_resolve_chain`, one frame at a time |
| `TypeFound`, `NoAttribute` | `_type_or_enum` on the chain and on its operands |

`Meaning` is the reference, without a search: the innermost comprehension with
the first segment among its variables, else the longest declared prefix in the
nearest container. A declared variable may have the name of a registered type; to
the checker it then hides the type (`Global`, `040:1294`). The evaluator
knows no declarations: if that variable is not bound, it answers the type
(`050:366-370`), as cel-go does. `RunsAsResolved` names this case.

### Types and Checker

`m` is the substitution (`st -> 'map'`), `n` the next fresh variable. The
recursion is unfolded: `open` is the stack of nodes whose children are being
checked, `todo` what is left of an assignment. The expression is not an input: at
every place any node may come next, as long as there is room to complete it
(`Room`). Unification needs no backtracking within an assignment: the second
orientation is tried only when the occurs check has refused the first, before
anything is bound; so one stack and one saved substitution suffice.

A type carries the set of its parts, so that what the code computes by recursion
on types (`Subst`, `LessSpecific`) is a function on a finite set of them, and can
be reasoned about. The occurs check is a set of variables closed under bindings
that leaves one out: the code's recursion comes to the least such set. All
overloads of a function have one arity here; a candidate of another arity fails
in the code before anything is assigned (`_ck_assign_list`) and only uses up
numbers of fresh variables.

| Action | Code |
|---|---|
| `SubstituteRight`, `SubstituteLeft`, `WidenBinding` | `_ck_assign1:243-262`, `_ck_valid_sub` |
| `Accept`, `Descend`, `GiveUp`, `Succeed` | `_ck_assign1:264-320`, `_ck_assign_list` |
| `Argument`, `NullaryCall`, `Candidate`, `Logical` | the `call` branch, `_ck_resolve`, `_ck_instantiate` |
| `Element`, `Join`, `EndList` | the `list` branch, `_ck_join` |
| `Select` | the `select` branch, `_ck_sel_type` |
| `RangeTyped`, `Body`, `StepTyped`, `Result` | the `comp` branch, for the step of a collector and of a quantifier |
| `Finish` | the final substitution of `cel.check` |

`goal` and `facts` are history: the pairs of the assignment in progress, and of
those that succeeded.

### PgNumeric and Numbers

`Numbers` is one call with any operands. The width is small and the shape of the
boundaries is kept: `W` bits for 64, `P` significant bits for 53, `E` and `F`
for the exponents, `Base` and `Sig` for numeric's digits, `Dig` for the 15 decimal
digits of DBL_DIG. `PgNumeric` models the three facts about PostgreSQL on which
the code depends: a numeric quotient is rounded to a scale that shrinks as the
quotient grows (`select_div_scale`); a float8 operation or cast that overflows or
underflows raises; and the cast of a float8 to numeric prints it with 15
significant digits (`WholeOfNumeric`). `_f2n` (`020:468`) avoids that cast, `trunc`
(`130:134`) does not. `TinyNum / TinyDen` is the literal that stands for 2^-1075 in
`060:205` and `060:267`, in units of the least double: below a half, since
2.4703282292062327e-324 is cut after 17 digits. `RoundedLikeIeee` excepts exactly
the strip between the two. A double's
payload is a jsonb number and therefore has no negative zero (`DoubleVal`).
Powers are recursive functions (`Pow2`, `PowBase`), since the provers know
nothing of `^`. `WidthAssumption` is what the code takes for granted of 64-bit
integers and doubles: a double has fewer bits than an int (53 + 1 < 64) and
reaches far beyond one (1074 < 2045, in exponents).
`Rounding`, `Extreme`, `Magnitude`, the shifts and `Complement` are the math
extension (`130`), on the same numbers; so are `Signum` and `BitOp`.

### Settings, Verdicts and Conformance

`checkout`, `config`, `installed` and `linked` are the world: the cel-spec
checkout, the exported variables and `.env`, the stages the schema has, the
connection. `source`, `md` and `json` are the files in the repository. The
process has a position (`pc`, `fi`, `ci`), the skip list compiled into it, the
case in progress (`ast`, `value`, `got`, `outcome`) and the report. Its memory is
gone when it ends; the world and the files stay.

| Action | Code |
|---|---|
| `StartReport`, `Probe`, `ListFiles` | `confreport/main.go` `run`; `testdb.Connect`, `postgresVersion`, `InstalledStages` once per run, `corpus.Files` |
| `OpenFile`, `SkipFile`, `LoadFails`, `SkipCase`, `CloseFile` | the loops of `Build` |
| `Parse`, `Check`, `JudgeType`, `Eval` | `runCase`, one query each; the stage may be gone, the query may raise, the expression may be rejected |
| `Count`, `AskOracle`, `Compare` | the tally of one case; `RunOracleCase`, `oracle.RunCase`; the divergence |
| `WriteMarkdown`, `WriteSidecar` | the two `os.WriteFile` |
| `StartSkipgen`, `ListForSkips`, `Scan`, `WriteSkips` | `skipgen/main.go`, `GenerateSkippedCases` |
| `LoseConnection`, `Reinstall`, `MoveCheckout`, `Interrupt` | what others do, at any point; a write cut short leaves a torn file |

`Figures` are the numbers in the sentences of the report, computed where
`report_markdown.go` computes them. `Verdicts` has the two ways to a verdict side
by side; a value stands for a class of `codec.Equal`. `Settings` is the lookup of
one variable, the DSN and the corpus directory.

### Codec

Protobuf values, tagged values, protobuf types and rendered types are trees: a
node is something, its kind first, and made of other nodes; it comes with its
parts, all nodes below it. What the code computes by recursion is a function on
the parts. A conversion makes every node into something else (`Relabel`, with
`tagged`, `fromWellKnown`, `fromJSON`; `stored` for jsonb); what is in an `Any` is
the node itself, and what is below a `google.protobuf.Value` is marked as JSON.
A fault anywhere is a fault of the whole. `IsValue` and `IsDeclaredType` say what
protobuf lets a value and a type be. A case binds a variable, evaluates it and
compares: `Skip` (the NUL scan), `Convert`, `Ask` (the activation becomes jsonb:
`Storable` and `Stored` are external), `Compare`. `RefusedOnlyUnseen` excuses a
refusal if there is a message, a type name or an error anywhere in the binding; it
does not ask whether that is where the NUL was. `Meaning` is the reference, on
the protobuf side and without a comparison of its own: equality of meanings is
equality. `HasType` and `Inhabits` say the same of declarations on either side of
the conversion.

## Runs

| Run | Module | Shows |
|---|---|---|
| `install_txn` | `MCInstall` | with a transaction per file or per artifact, failed runs, and a consumer that lists a row of the next release, a library's row in `standard` and a core row under a library: `StandardExclusive` (no library row in standard that the consumer has not put there), `NoOrphanExtension` (none committed without its listing), `StandardComplete` (no core row missing but `Excused` ones), `VersionSettled`, `Idempotent`, `ReplacesWhatItShips` (functions, and the columns an upsert names) |
| `install_heal` | `MCInstall` | statement by statement: `HealsInTwoRuns` (a broken schema is repaired by two complete runs, one swept by an old release by one); with an overload of the consumer's that a claim matches and a type it lists nowhere, `OwnedSurvive` (what it listed stays, but for the repair) and `ConsumerConfined` (where its rows can appear) |
| `captured` | `MCInstall` | violation, see below |
| `env_names` | `MCEnvNames` | `NoDuplicates`, `FlagPrecedence`, and the refinement `ComputesUnion` with termination |
| `comprehension` | `MCComprehension` | `AnswerDeclared` (the fold comes to the reference), `StopsWhenDecided` (no element beyond the deciding one), `SoundWhenPartial` (what is answered with inputs missing stays the answer) |
| `numbers` | `Numbers` | `QuotientNearlyExact` (how far `/` and `%` agree), `RoundedLikeIeee` (but for the strip above the literal), `RelationsNumeric` (those of the exact numbers; a whole number that is no double may equal the double nearest to it), `ConversionsAgree`, `MathExact` (whole numbers, with what `round` and `trunc` get wrong; extremes across kinds; bits one by one) |
| `resolution` | `MCResolution` | `ChecksMeaning` (the checker's loop finds `Meaning` and rejects only what has none), `RunsAsResolved` (the evaluator finds again what the checker meant; the exceptions are spelled out), `UncheckedAgrees` (evaluation of the parse has the same meaning) |
| `checker` | `MCChecker` | `Acyclic` (no variable is bound into its own binding), `RejectsOnlyMisfits` (a failed assignment has no ground unifier), `NothingMore` (the substitution follows from the successful assignments: a failed candidate leaves nothing), `NothingLess` (what was assigned once is the same type to the end, whatever is bound and widened later; of types without wildcard, null and wrapper, for which assignability is no equality) |
| `conformance` | `MCConformance` | `ReportAddsUp` (the sentences of either document are consistent), `PassedOnEvidence` (no verdict Passed rests on an exception, a missing stage or a lost connection), `SameJudgement` (equal answers are no divergence), `SkipsAreForced` (with a current list nothing is skipped needlessly, nothing that cannot run is attempted; it says nothing of a list older than the checkout), `PublishedTogether` (after a run that ended well both documents are its own; between its two writes they are not, nor after an interruption there until the next good run), `Finishes` |
| `codec` | `MCCodec` | `SameMeaning` (equal after the round trip exactly when the meanings are), `RefusedOnlyUnseen` (the database refuses only what the NUL scan cannot see), `KeepsItsType` (a converted value is of its converted type) |
| `int_division` | `Numbers` | violation, see below |
| `int_bound` | `Numbers` | violation, see below |

Deadlock checking is off everywhere: an installer may be idle for good, nobody
need start another report, and the other modules are one call each, which ends.

Every property of a passing run has a mutant: a definition of the code with a
plausible mistake ("Variant" in the modules) under which TLC finds the property
violated. `PROJECT.json` lists them.

## Bounds and fairness

- `MCInstall`: two releases; two libraries, one that lists its rows in four
  groups (rows in two of them) and one that gains a macro in release 2; one row of each kind per
  script, `less` and `Duration` among them whose DO UPDATE is partial; three
  listings the consumer may insert, and in `install_heal` two rows of its own;
  up to three runs (four in `install_heal`) and one or two failures.
  Three runs are an install, an upgrade and a rerun, the longest sequence in
  which a statement can depend on what an earlier run left; the interaction of
  more rows is by pairs (swept or not, listed or not).
- `MCEnvNames`: three environments, one unknown name, up to four include items
  and three given names: self-includes, cycles of two and three, diamonds,
  dangling items.
- `MCComprehension`: up to three elements, two errors and two unknowns, so
  that merging, "first" and "last" are distinguishable on both sides of a
  deciding element; entry maps of one and of two keys, so that insertions clash.
  Partial evaluation is checked one element at a time: since every mix is an
  initial state, what holds of one more known element holds of all of them.
- `Numbers`: 6-bit integers; doubles of 4 bits with 5 bits behind the point, so
  that the bounds of int and uint are not representable, rounding to even and ties
  occur, and the greatest double exceeds every integer, as in 64 bits; digits in
  base 4; one decimal digit in the cast of `trunc`, so that fractions just below a
  whole number and whole numbers of two digits are lost; 29/64 for the literal, so
  that products fall below it, between it and the half, on the half and above.
- `MCResolution`: two segments and six names of up to three of them, so that each
  can be a prefix or a suffix of another; up to two declared and two bound; chains
  of up to three segments, containers of up to two; six places: none, a loop,
  two nested loops, `cel.bind`, and one inside the other. Two names suffice for
  a conflict, and two levels for one variable to hide another.
- `MCChecker`: six nodes, enough for a comprehension over an empty list whose
  variable is bound in its body and used twice more; int, null, a wrapper and
  a map and a message as leaves, dyn from lists of unlike elements; five functions, one with two
  unrelated candidates, one that takes its arguments apart, one that relates them,
  one without arguments. Unifiers are sought among int, dyn and a list; the
  theorems have them among any types.
- `MCConformance`: three files, one of them skipped as a whole, up to two cases
  each; every matcher, switch, kind of declaration and of binding is in one of
  seven corpora, each run once with nobody interfering. In an eighth scenario the
  checkout has two commits (the second loses two files and swaps which of two
  names is skipped), two processes run and two mishaps fall anywhere: two
  suffice to move a checkout or cut a write and then break the run that would
  repair it, two processes for one to find what the other left. Three
  installations (all stages, no eval, none), three configurations (`.env`
  complete, without a user, and variables exported but no testdata). The bounds
  are in `Scenarios`; the theorems hold for any.
- `MCCodec`: every kind of value alone, in lists, as map key and value, and one
  level deeper; all pairs are compared and each value is bound under every
  declaration. Nano = 4 and IntLimit = 16 put durations of a few seconds at both
  edges of int64: the seconds alone beyond it, with their nanoseconds within.

Two runs use fairness. `env_names`: weak fairness of the call's steps, since a
function call runs until it returns and nothing can suspend it. `conformance`:
weak fairness of the process's own steps, since a started process is scheduled
and every query and every call of cel-go returns or fails; there is no fairness
of starting one, nor of mishaps. (The code sets no statement timeout: should a
query hang, so does the report.) The installer needs none: no liveness is claimed
of it, since a run may fail any number of times.

## Proofs

TLAPS checks the following for all values of the constants, under the modules'
assumptions and the hypotheses named here. TLC checked each inductive invariant
on the runs first. Induction over numbers is done over sets: from the
well-foundedness of `<`, a nonempty set of numbers has a least element
(`LeastOf`), and a set with 0 and with k + 1 for each k < n has all numbers up to
n (`UpTo`). Each module of proofs begins with those of these facts it uses.

**`InstallProofs`.** `TypeCorrect`. Provided no one commits statement by
statement, `LibrariesStayOut` (`StandardExclusive`) and `LibrariesListed`
(`NoOrphanExtension`). Neither property is inductive: a sweep would take a
library's row that is registered but not listed. `LibraryInv` adds that such a
row exists only inside the transaction whose next statement lists it, so no
commit, rollback or sweep falls between. `OwnedKept` (`OwnedSurvive`) holds in
every mode and whatever a claim matches: only the repair removes anything, and
what it finds under a library's environment stays there, so what `OwnedInv`
excuses once is excused for good. `SweepMissesNothing`: `StandardComplete` for
whole files; `CompleteInv` says of the core rows that are not `Excused` that each
is in standard, or absent from `db` with its sweep ahead in the same file and
unlisted until then, and that no library lists it.

The other half is about versions, reruns and healing:

- `VersionSettles` (`VersionSettled`) and `CompleteRunReplaces`
  (`ReplacesWhatItShips`) hold in every mode and after any failures. `RunInv`
  says that what the statements before `pc` did is still in effect, that the
  version is that of the run as soon as the first statement has run, and that a
  core at one version stays so between runs.
- `CompleteRunReplaces` is no more than the scripts do: of a `Partial` row that
  was there only the columns its DO UPDATE names are promised.
- `ConsumersConfined` (`ConsumerConfined`) holds in every mode and for every kind
  of row. `ConfinedInv`: in both registries a consumer's row is where the property
  allows it, and one that was not committed `bare` is listed somewhere for good,
  since the repair leaves the listing it found the row by.
- `ReinstallChangesNothing` (`Idempotent`) needs whole-file commits and that a row
  is claimed for one library (`OneLibrary`). The transaction of a rerun sees what is
  committed at every statement, but for the listings of rows the consumer has a
  part in (`SameInv`), for a reason per statement: the repair finds no other row
  of a library in standard and no library lists a core row (`StandardInv`,
  `CompleteInv`), a sweep finds no other row that is not there already, a claim none
  that is not already with its library (`HomeInv`), the version is recorded
  (`RecordedInv`).
- `TwoRunsHeal` (`HealsInTwoRuns`) from any registry whose libraries are listed,
  however standard was swept (`HealInit`; the instance `MCInstall` starts from
  one that an old release swept), and `InstallHeals` from an empty one;
  rows the consumer lists in standard meanwhile are not counted.
  `FullArtifacts`: what is run are the all-in bundles of `build-release.sh`, each of
  which repairs, and claims what any library shipped up to its release. In `HealInv` every row of
  a library that is there is claimable by any later run; behind the first claims
  of a run such rows are listed; a run that starts with all of them listed is
  free of them in standard after its repair, and no sweep brings one back.

**`EnvNamesProofs`.** `TypeCorrect`; `NamesDistinct`; `ImplementsUnion`, the safety
part of the refinement. `ListInv` says that `pending` separates `seen` from a
closed set (`Frontier`) and that neither leaves the reach of the argument.
`PrecedenceHolds` (`FlagPrecedence`): `OrderInv` says that the argument's names are
taken off the list before anything an include has queued (`Taken`), so that they
come first in the answer (`GivenFirst`) and in the order of their first
occurrence (`GivenOrder`).

**`ComprehensionProofs`.** `TypeCorrect`; `FoldAnswers` (`AnswerDeclared`) and
`FoldStops` (`StopsWhenDecided`) for every macro and ranges of any length.
`FoldInv` gives the accumulator after n elements in closed form. For the
quantifiers (`QuantifierInv`): absorbed, all that is missing so far, the first
error, or the identity. For the macros that collect (`GatherInv`): what the
elements before the first odd one come to, then what that one left (`Collects`);
one step is `GatherMore`, the reference `GatherAnswer`. `PartialSound`
(`SoundWhenPartial`) is about the answers alone: `CollectedKept` says that what a
known element adds changes nothing before it.

**`ResolutionProofs`.** `ChecksMeaningHolds`, `RunsAsResolvedHolds`,
`UncheckedAgreesHolds`, for chains, containers and scopes of any length, and for any
declared and bound names, types among them. The
lists of candidates are first reduced to one notion, the name of the first m
segments read p deep in the container; the search for the first candidate and
the definition of `Meaning` then speak of the same thing. `Inv` (`InvHolds`) has
one clause per kind of node the evaluator may be given (`CheckedLocal`,
`CheckedGlobal`, `Parsed`): which reading it carries, that no longer one exists,
and that the frames already left had none.

**`ConformanceProofs`.** `TypeCorrect`, which includes that inside the loops the
file and the case exist; `StartsClean` adds that an idle or starting process
has nothing counted. `PublishedAddsUp`: `ReportAddsUp`, for any corpus and any
interruption. `Tallies` relates the places a case is counted in at every step:
the cases before `ci` are those passed, failed and skipped of the file, and the
case in progress is counted as soon as it is judged but can diverge only later
(`Pending`); the totals are those of the closed files; the cases in skipped
files are the pairs the report counts (`OneMoreFile`, by `FiniteSetTheorems`).
`BothPublished`: `PublishedTogether`; between the two writes the first document is
that of the figures in memory (`SidecarToCome`). `Evidenced`: `PassedOnEvidence`;
`Evidence` adds which calls an AST can have come through (`CallFits`), so no
exception can reach a verdict other than Failed. `AnswersDecide`: `SameJudgement`;
`VerdictInv` ties the outcome to the judgement of the answer it came from, and the
two ways to a verdict are compared case by case. It holds whatever either side
was configured with. (A case expects a value, a type or an error: the values of
`Cases` exclude the two that stand for an answer that is none.) `SkipsForced`:
`SkipsAreForced`; every list carries the number of moves it was generated after,
none is ahead of the checkout (`NotAhead`), and as long as the numbers agree what
skipgen has scanned, what is compiled in and what the report has skipped are
those of the checkout (`Current`).

**`NumbersProofs`.** All five properties of `Numbers`, for any width of integers
and any precision, range and base of numerics that the assumptions admit; 64, 53,
10000 and 15 among them, and any literal below a half. A behaviour is one call, so the invariant is plain:
`CallInv` says that the result, once there, is what the operation answers on its
operands. The work is in the arithmetic.

- `QuotientHolds` (`QuotientNearlyExact`): the scale of a numeric quotient leaves
  room for the rounding to be undone by `trunc` unless the quotient is longer
  than `Sig` digits (`QuotientWeight`, `RoundedQuotient`); that takes a dividend
  of 2 · Base^Sig (`CoarseOnlyFar`).
- `RoundedHolds` (`RoundedLikeIeee`): `Round` picks the binade it should
  (`ScaleAt`), is the nearest magnitude (`NearestAt`) and monotone across binades
  (`RoundMonotone`); the tests at both ends of the range in `_dbl_of_numeric`
  cut where rounding reaches infinity or zero (`RoundTop`, `RoundLow`), but for the
  strip between the literal and the half, where the cast raises (`StripAt`).
- `RelationsHold` (`RelationsNumeric`): widening is monotone, so the test against
  the bounds of a kind never contradicts the comparison it precedes
  (`WidenMonotone`, `CompareIs`). What the widened number compares to is then what
  the exact one does, unless the double is the nearest to it (`RoundClosest`,
  `WidenClosest`, `AgainstWhole`).
- `ConversionsHold` (`ConversionsAgree`): numbers of at most P bits are kept by
  rounding (`RoundExact`), and the bounds of a kind, widened, lie beyond them
  (`BoundsFar`).
- `MathHolds` (`MathExact`): ceil and floor from the uniqueness of quotient and
  rest; round from how far rounding may move the sum (`HalfAdded`); trunc from
  what the cast does below 10^15 and above (`CastBelow`, `CastAbove`, `TruncHolds`);
  shifts and
  complement bit by bit (`BitOfRest`, `MulBits`, `DivTwice`, `FlippedBits`); and, or
  and xor since a number of given bits exists (`BitsBuilt`) and numbers add up if
  their bits do (`SumOfBits`).

**`CheckerProofs`.** All five properties of `Checker`, for any signatures, any
leaves and any expression. Induction over types is over their finite sets of
parts: a set of types without variables or with them has one below which nothing
of the set lies, and recursive functions on parts satisfy their equations.

- `SpecAcyclic` (`Acyclic`). An assignment that fails goes back to `saved`, so
  `Cycles` says it of both. A variable is bound only to what it is not met from:
  a cycle through the new binding would have to leave the set that the occurs
  check has found closed (`BindAcyclic`).
- `SpecTypeOK` (`TypeOK`) from `StateOK`, which says what each kind of frame on the
  stack is waiting for and what the tasks still to do are over. That substitution
  comes to an end on an acyclic map, and to a type over the variables in use,
  is `SubstOver`.
- `SpecRejectsOnlyMisfits` and `SpecNothingMore`, from `ForwardsOK`. It is stated
  of every valuation of the variables by types, and of equality: where the pairs
  assigned so far are made equal, the bindings are obeyed; during an assignment,
  where its pairs are made equal and the bindings before it are obeyed, so are
  the present ones, and the tasks left hold. A task of widening holds if both its
  types are the variable's value; that is what makes replacing a binding sound.
- `SpecNothingLess` is the converse (`BackwardsOK`): what obeys the bindings and
  solves the tasks makes the pairs equal. It needs that whatever a widening
  puts in the place of a binding is already entailed by the tasks before it, and
  that with strict types acceptance is equality. Without the restriction it is
  false, see the observations.

**`CodecProofs`.** All three properties of `Codec`, for values, types and
declarations nested to any depth, from what `IsValue` and `IsDeclaredType` say of
the inputs and `LimitAssumption`. `CaseOK` says what a case holds at each stage, of
its inputs; the work is in the operators. Induction is on the parts of a tree
(`OnParts`): a set of trees has one of which no part is in the set. From it,
every function by recursion on parts satisfies its equation (`ResultStep`, once
for all six of them).

- `VerdictHolds` (`SameMeaning`). `Equal` finds the nodes that mean the same
  (`EqualMeans`), node by node from what is below. For entries of maps:
  if what fits an entry is what means the same, then a greedy match exists
  exactly when everything occurs on both sides equally often (`EntriesEqual`,
  which counts the places taken after every entry, `TallyStep`). For leaves: what
  is tagged and then stored means what the protobuf node meant (`StoredLabel`,
  `ValueLabelTagged`); a duration in range comes through two wrapped operations
  unharmed (`Int64Is`).
- `RefusalsHold` (`RefusedOnlyUnseen`): `NulIsSeen` finds the node that a refused
  string was made from.
- `TypesHold` (`KeepsItsType`): if every parameter of a declared type keeps what is
  in it through the conversion, the type does (`KeepsNode`, kind by kind); a
  message goes by the table of well-known messages (`MessageKept`).

Only model-checked: termination of `_env_names` and that a process finishes.
Both are liveness, which is out of TLAPS's reach.

## Disagreements found

Three are runs that TLC finds violated, with an entry in `PROJECT.json`:

- `captured`: the claim of math (`130:639-642`, and of lists, `140:400-406`)
  selects by LIKE; a consumer's overload of a `math.…` function is claimed by one run and
  deleted from `standard` by the repair of the next (`010:189`).
  `docs/INSTALL.md:170` says the installer leaves it alone.
- `int_division`: `trunc(a / b, 0)` is off by one for quotients of 17 digits and
  more (`060:84`, `060:159`), e.g. `9223372036854775807 / 2`.
- `int_bound`: the bounds of int are compared as float8 (`020:364`), where
  9223372036854775807 is 2^63; a double 2^63 is not beyond the bound, the int is
  widened, and the two are equal. `020:262-263` says that the test keeps them apart.
  (cel-go calls them equal too.) Equality of int and double is thus not transitive;
  `RelationsNumeric` and `RelationsHold` say how far it goes: only where the whole
  number is no double and the double is the nearest to it (`Blurred`).

Seven more are properties of the modules, each stating what a document or
comment says and violated under a configuration of its own; the exceptions they
make are part of what the passing runs and theorems state:

| Configuration | Property | What the code does | What it contradicts |
|---|---|---|---|
| `FindCurated` | `EverythingKept` | the repair (`010:189`) takes a library's row out of `standard` that a consumer listed there | `docs/INSTALL.md:170`, as `captured`; excepted in `OwnedSurvive` |
| `FindEarly` | `EverythingVisible` | without a foreign key (`010:61-66`) a consumer lists a row before its release is there; `_unclaimed` (`010:175`) is then false and no sweep ever takes it | `060:790`, "Everything above is visible in the standard env."; excepted in `StandardComplete` |
| `FindSwept` | `NothingForeign` | a consumer's type, or overload without implementation, that nothing lists is swept into `standard` (`060:790-799`) | `upgrade-check.sh:164-165`; excepted in `ConsumerConfined` |
| `FindPartial` | `RowsAtVersion` | DO UPDATE leaves `member` and `result_type` of the relations (`060:769-773`), `equal`, `convert` and `doc` of the protobuf types (`070:709-711`), `member` of the math extremes (`130:531-536`); DO NOTHING keeps the standard types and the env rows | `docs/INSTALL.md:169-170`, every row it ships is replaced; excepted in `ReplacesWhatItShips` |
| `FindUnderflow` | `NeverRaises` | an exact result in the strip from 2.4703282292062327e-324 up to 2^-1075, such as `((1 - 2^-52) * 2^-500) * ((1 + 2^-52) * 2^-575)`, passes the test (`060:205`, `060:267`) and the cast raises | `060:180-183`, the boundary is 2^-1075; excepted in `RoundedLikeIeee` |
| `FindRounding` | `RoundsHalfAway` | `floor(f + 0.5)` (`130:120`) rounds the sum before the floor: `math.round(0.49999999999999994)` is 1, `math.round(4503599627370497.0)` is one too large | `130:107`, half away from zero; excepted in `MathExact` |
| `FindTrunc` | `TruncCutsOff` | `trunc` goes through PostgreSQL's `float8::numeric` (`130:134`), which keeps 15 digits: `math.trunc(0.9999999999999999)` is 1, `math.trunc(1234567890123456.0)` ends in 0, and near the greatest double the way back raises | `020:463-464`, the cast identifies the double; `060:187-190` expects it to lose a 17th digit only; excepted in `MathExact` |

Observations from reading and modelling:

- `disable_macros` of a case is heeded by the oracle (`internal/oracle/case.go:40`)
  and not on the database's side, while `docs/CONFORMANCE.md:101` says a reference
  configured otherwise than the database measures something else.
  `SameJudgement` holds of such cases too, since it is about equal answers.
- Every generated skip list says that its entries reference descriptor-backed
  messages (`conformance/skiplist.go:88`); some are there for a NUL.
- The NUL scan (`corpus.go:190`) looks into strings, lists and maps, not into
  messages, type names or errors; `RefusedOnlyUnseen` lists these.
- A skip list older than the checkout skips what it should not and attempts what
  cannot run, until `skipgen` is run again; nothing in `confreport` compares the two.
- A run interrupted between its two writes leaves documents of two runs.
- A fault of the oracle's harness is judged Failed and shows as a divergence
  when the database passes.
- The report prints `corpus.Pin` whatever commit the checkout is at
  (`conformance/report.go:122`).
- Two cases of one section with one name share a key: skipping one skips both.
- A protobuf duration beyond int64 nanoseconds wraps (`codec.go:151`); `InRange`
  leaves it out. `compare.go:209` says ids of an unknown are sorted and
  deduplicated; those of an expectation are taken as the corpus lists them.
- A `skipped_cases.go` cut off while it is written does not compile, nor then
  does `skipgen`; only the version control restores it.
- In the file-by-file loop `cel.version()` is ahead of the functions from the
  first commit to the last; `VersionSettled` is what remains true.
- `060:254` ("1.0 / -0.0 is -Infinity"): no value has a negative zero, since
  jsonb keeps none, so the quotient is always Infinity.
- The note at `060:187-190` describes a conversion that `_f2n` has replaced.
- `050:155` gives the order of name candidates, but the lookups of type
  identifiers (`050:241`) and of message types (`050:645`, `040:1081`) take any
  registered candidate. It shows when one type's name ends in another's.
- A checked `a.b` on a declared `a` reads an undeclared `"a.b"` of the activation
  if there is one; a variable of the activation hides a type of its name; and a
  declared variable that has the name of a type and is not bound evaluates to the
  type. These are the exceptions in `RunsAsResolved`.
- Unchecked, a shorter bound variable wins over a longer type name
  (`050:396-418`); `UncheckedAgrees` is therefore about expressions without types.
- `040:278` says nothing but an identical wrapper or a wildcard accepts a wrapper.
  Where a variable is on the left, `_ck_assign1` swaps the sides (`040:255`), so an
  int does accept a variable bound to a wrapper. It needs a variable of an empty
  list, as in `[].all(x, [w, x, 1] == x)`.
- With null, wrappers or dyn about, a pair that was accepted need not stay
  assignable: a variable bound to what null fits is widened to what it does not,
  as in `[].all(x, [].all(y, [null, y] == [[w], x, [1], [y]]))`. `NothingLess` is
  therefore about types without these.
- `exists_one` over `[unknown, error]` answers the error, where `exists` answers
  unknown; `docs/CONFORMANCE.md:251` says comprehensions absorb unknowns as `&&`
  and `||` do. The reference for `exists_one` in `Comprehension` is the code's.
- Joining depends on the order: `[1, w]` is a list of wrappers, `[w, 1]` of dyn.

## Not modelled

The lexer, formatting, string, time, bytes and network functions, and the protobuf
conversions in SQL: pure data conversion with no control of interest
here. Of the Go tools: `oracle.Eval`, `EvalPartial`, `OverloadIDs` and
`shape.go`, which only serve unit tests; `HeadSHA`; the regular expression that
finds descriptor-backed cases (a case simply needs descriptors or not); wording
and layout of the report; base64 and the rendering of numbers. CI and the pg_tle wrapper: configuration; what they run is in `Install`.
CREATE FUNCTION statements are one step per file; the UPDATE that gives the
one-argument extremes of math their implementation (`130:539-542`) belongs to the
INSERT before it. Row contents are reduced to the
release they come from. Of name resolution: enum constants, namespaced function
names, message type names and `has()`. Of the checker: map and message literals,
two-variable comprehensions. Of the math extension: `sqrt`, the tests for NaN and infinity, extremes of a list, and the
argument checks of its macros.

## Plan

In order of importance; each with an instance, mutants and, where a proof is
within reach, theorems.

1. `Evaluator`: overload dispatch and `_ev` (`050:66-123`, `318-697`) as a machine
   over small expression trees, on top of `Resolution`, with message
   construction and the depth limit.
   Abstract specification: evaluation with inputs missing is consistent with
   evaluation once they are known. Theorem: monotonicity of the outcome rules.
2. `Checker`: map and message literals, `has()`, two iteration variables, joins
   against a definition free of order where there is one.
3. `Parser`: `_p_balance` (`030:475-517`), node numbering through macros
   (`1743-2078`, optional macros of `110`), depth and size limits. Properties:
   balancing keeps the order of operands and bounds depth; ids are unique.
4. `Sessions`: immutable parse and cached plans against registry changes, stored
   checked expressions against dispatch by id.
5. Extend `Numbers` by index functions (`060:514`), and state that int and uint
   results stay in range, which its properties only imply.
6. Lists and optionals (`110`, `140`) against reference definitions.

Run bounds to aim for: trees of up to five nodes (1), chains of up to eight operands (3), two sessions and one
registry change (4). A finding's run gives way when its disagreement is settled.
