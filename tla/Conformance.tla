---------------------------- MODULE Conformance ----------------------------
(***************************************************************************)
(* The conformance report (internal/cmd/confreport, conformance/report.go) *)
(* and the skip list it depends on (internal/cmd/skipgen,                  *)
(* conformance/skiplist.go): a run goes through the corpus case by case,   *)
(* asks the database in up to three calls and cel-go in one, counts, and   *)
(* writes two documents one after the other. Meanwhile the connection may  *)
(* be lost, the schema reinstalled, the corpus checkout moved, and the     *)
(* process interrupted.                                                    *)
(***************************************************************************)
EXTENDS Integers, Sequences, FiniteSets, Settings, Verdicts

CONSTANTS
  FileNames, Sections, CaseNames, Values, Types,
  SkippedFiles,    \* the corpus files not attempted at all
  FileEnvs,        \* the environments of the files that need more than standard
  RegisteredEnvs,  \* the environments the database has
  OracleEnvs,      \* the environments the oracle can configure
  Scenarios,       \* bounds: what the checkout may hold, the processes started, the mishaps
  Configurations,  \* what Settings calls s
  Installations    \* the sets of stages an installation may leave

Corpora == UNION {s.corpora : s \in Scenarios}

ASSUME CorpusAssumption ==
  \A c \in Corpora :
    /\ c.files \in Seq(FileNames)
    /\ c.tests \in [FileNames -> Seq(Cases(Sections, CaseNames, Values, Types))]

BoundTypes == [corpora : SUBSET Corpora, runs : Nat, mishaps : Nat]

ASSUME BoundAssumption == Scenarios \subseteq BoundTypes

Keys == FileNames \X Sections \X CaseNames

VARIABLES
  checkout,   \* the cel-spec checkout
  config,     \* the configuration of the process
  installed,  \* the stages the database has
  linked,     \* whether the connection is alive
  source,     \* skipped_cases.go
  md, json    \* the committed documents

world == <<checkout, config, installed, linked>>
documents == <<source, md, json>>

VARIABLES
  pc,         \* where the process is
  exit,       \* how the last one ended
  skips,      \* skippedCases, as compiled into it
  stages,     \* the stages it found
  files, fi,  \* the files it found, and the one it is at
  parsed, ci, \* the cases of that file, and the one it is at
  found       \* skipgen: the keys found so far

process == <<pc, exit, skips, stages, files, fi, parsed, ci, found>>

VARIABLES
  ast, value, got, outcome,  \* the case in progress
  totals, summary,           \* Totals, and the FileReport in progress
  lists                      \* the lists of the report

attempt == <<ast, value, got, outcome>>
report == <<totals, summary, lists>>

VARIABLES
  runs,    \* processes started
  bounds,  \* the scenario, with the mishaps that are left
  moves    \* history: how often the checkout has moved

vars == <<world, documents, process, attempt, report, runs, bounds, moves>>

-----------------------------------------------------------------------------
EnvFor(file) == IF file \in DOMAIN FileEnvs THEN FileEnvs[file] ELSE {"standard"}

\* The key joins the names with slashes; the names have none.
Key(file, tc) == <<file, tc.section, tc.name>>

skipped(file, tc) == file \in SkippedFiles \/ Key(file, tc) \in skips.keys

\* Variant: strings with NUL are not looked for.
SkipsOfVariant(file, tests) ==
  {Key(file, tests[i]) : i \in {j \in DOMAIN tests : tests[j].needs = "descriptors"}}

\* What GenerateSkippedCases takes from one file, for either reason.
SkipsOf(file, tests) ==
  IF file \in SkippedFiles THEN {}
  ELSE {Key(file, tests[i]) : i \in {j \in DOMAIN tests : tests[j].needs # "nothing"}}

SkipList(corpus) ==
  UNION {SkipsOf(corpus.files[i], corpus.tests[corpus.files[i]]) : i \in DOMAIN corpus.files}

File == files[fi]
Tc == parsed[ci]
Missing(file) == file \notin {checkout.files[i] : i \in DOMAIN checkout.files}

NoTotals == [files |-> 0, skippedFiles |-> 0, cases |-> 0, passed |-> 0, skipped |-> 0, failed |-> 0]
NoSummary == [cases |-> 0, passed |-> 0, skipped |-> 0, failed |-> 0]
NoLists == [files |-> <<>>, skippedFiles |-> <<>>, skippedCases |-> <<>>, failures |-> <<>>, divergences |-> <<>>]
NothingFound == [keys |-> {}, of |-> 0, whole |-> TRUE]
NoDocument == [run |-> 0, numbers |-> {}]

\* Writing cuts what was there first, so it may end with less than either.
Torn == [run |-> -1, numbers |-> {}]

-----------------------------------------------------------------------------
(***************************************************************************)
(* A process starts, looks around, and ends.                               *)
(***************************************************************************)
Forget == ast' = None /\ value' = "none" /\ got' = "none" /\ outcome' = HarnessFault

Gone ==
  /\ stages' = {} /\ files' = <<>> /\ fi' = 1 /\ parsed' = <<>> /\ ci' = 1 /\ found' = NothingFound
  /\ totals' = NoTotals /\ summary' = NoSummary /\ lists' = NoLists
  /\ Forget

\* The memory of a process goes with it.
Ends(how) == pc' = "idle" /\ exit' = how /\ Gone
Goes(next) == pc' = next /\ exit' = exit
Keeps == UNCHANGED <<stages, files, fi, parsed, ci, found, attempt, report>>

\* go run compiles the skip list of the moment, if it compiles. Connect needs a
\* DSN and a server that answers in time.
StartReport ==
  /\ pc = "idle" /\ runs < bounds.runs /\ source.whole
  /\ runs' = runs + 1
  /\ skips' = source
  /\ \E answers \in BOOLEAN :
       IF Dsn(config).fault \/ ~ answers
         THEN Ends("failed") /\ linked' = FALSE
         ELSE Goes("probe") /\ Keeps /\ linked' = TRUE
  /\ UNCHANGED <<checkout, config, installed, documents, bounds, moves>>

\* Variant: waits for a connection.
ProbeVariant ==
  /\ pc = "probe" /\ linked
  /\ stages' = installed
  /\ Goes("files")
  /\ UNCHANGED <<world, documents, skips, files, fi, parsed, ci, found, attempt, report, runs, bounds, moves>>

\* postgresVersion and InstalledStages: once per run.
Probe ==
  /\ pc = "probe"
  /\ IF linked
       THEN /\ stages' = installed
            /\ Goes("files")
            /\ UNCHANGED <<files, fi, parsed, ci, found, attempt, report>>
       ELSE Ends("failed")
  /\ UNCHANGED <<world, documents, skips, runs, bounds, moves>>

ListFiles ==
  /\ pc = "files"
  /\ IF HasCorpus(config)
       THEN /\ files' = checkout.files
            /\ totals' = [totals EXCEPT !.files = Len(checkout.files)]
            /\ Goes("file")
            /\ UNCHANGED <<stages, fi, parsed, ci, found, attempt, summary, lists>>
       ELSE Ends("failed")
  /\ UNCHANGED <<world, documents, skips, runs, bounds, moves>>

-----------------------------------------------------------------------------
(***************************************************************************)
(* The loops over files and cases of Build.                                *)
(***************************************************************************)
More == fi <= Len(files)
MoreCases == ci <= Len(parsed)

LoadFails ==
  /\ pc = "file" /\ More
  /\ Missing(File)
  /\ Ends("failed")
  /\ UNCHANGED <<world, documents, skips, runs, bounds, moves>>

SkipFile ==
  /\ pc = "file" /\ More /\ ~ Missing(File)
  /\ File \in SkippedFiles
  /\ LET cases == Len(checkout.tests[File])
     IN /\ totals' = [totals EXCEPT !.cases = @ + cases, !.skippedFiles = @ + 1, !.skipped = @ + cases]
        /\ lists' = [lists EXCEPT !.skippedFiles = Append(@, [name |-> File, cases |-> cases])]
  /\ fi' = fi + 1
  /\ UNCHANGED <<world, documents, pc, exit, skips, stages, files, parsed, ci, found, attempt, summary,
                 runs, bounds, moves>>

OpenFile ==
  /\ pc = "file" /\ More /\ ~ Missing(File)
  /\ File \notin SkippedFiles
  /\ parsed' = checkout.tests[File] /\ ci' = 1
  /\ totals' = [totals EXCEPT !.cases = @ + Len(checkout.tests[File])]
  /\ summary' = [NoSummary EXCEPT !.cases = Len(checkout.tests[File])]
  /\ Goes("case")
  /\ UNCHANGED <<world, documents, skips, stages, files, fi, found, attempt, lists, runs, bounds, moves>>

\* Neither the database nor cel-go sees a skipped case.
SkipCase ==
  /\ pc = "case" /\ MoreCases /\ skipped(File, Tc)
  /\ summary' = [summary EXCEPT !.skipped = @ + 1]
  /\ lists' = [lists EXCEPT !.skippedCases = Append(@, Key(File, Tc))]
  /\ ci' = ci + 1
  /\ UNCHANGED <<world, documents, pc, exit, skips, stages, files, fi, parsed, found, attempt, totals,
                 runs, bounds, moves>>

Attempt ==
  /\ pc = "case" /\ MoreCases /\ ~ skipped(File, Tc)
  /\ Goes("parse")
  /\ UNCHANGED <<world, documents, skips, stages, files, fi, parsed, ci, found, attempt, report, runs, bounds, moves>>

CloseFile ==
  /\ pc = "case" /\ ~ MoreCases
  /\ totals' = [totals EXCEPT !.passed = @ + summary.passed, !.skipped = @ + summary.skipped,
                              !.failed = @ + summary.failed]
  /\ lists' = [lists EXCEPT !.files = Append(@, [name |-> File, env |-> EnvFor(File), counts |-> summary])]
  /\ summary' = NoSummary
  /\ fi' = fi + 1 /\ parsed' = <<>> /\ ci' = 1
  /\ Goes("file")
  /\ UNCHANGED <<world, documents, skips, stages, files, found, attempt, runs, bounds, moves>>

-----------------------------------------------------------------------------
(***************************************************************************)
(* One attempted case: runCase.                                            *)
(***************************************************************************)
\* Variant: the status is not kept.
JudgedVariant(status) == got' = got /\ Goes("judged")

Judged(status) == got' = status /\ Goes("judged")
JudgedRefused == Judged(IF expectsError(Tc) THEN "Passed" ELSE "Failed")

\* A call that can be answered; it may still raise.
Answers(stage) == linked /\ stage \in installed /\ EnvFor(File) \subseteq RegisteredEnvs

\* Variant: an exception is an error like any other.
UnansweredVariant == JudgedRefused /\ UNCHANGED <<ast, value>>

Unanswered == Judged("Failed") /\ UNCHANGED <<ast, value>>

AfterCheck == IF Tc.check_only THEN "type" ELSE "eval"

Parse ==
  /\ pc = "parse"
  /\ \/ Unanswered
     \/ /\ "parse" \in stages /\ Answers("parse") /\ value' = value
        /\ \/ ast' = Parsed /\ got' = got /\ Goes(IF Tc.disable_check THEN AfterCheck ELSE "check")
           \/ ast' = Rejected /\ JudgedRefused
  /\ UNCHANGED <<world, documents, skips, stages, files, fi, parsed, ci, found, outcome, report, runs, bounds, moves>>

Check ==
  /\ pc = "check"
  /\ \/ Unanswered
     \/ /\ "check" \in stages /\ Tc.decls = "good" /\ Answers("check") /\ value' = value
        /\ \/ \E t \in Types : ast' = Checked(t) /\ got' = got /\ Goes(AfterCheck)
           \/ ast' = Rejected /\ JudgedRefused
  /\ UNCHANGED <<world, documents, skips, stages, files, fi, parsed, ci, found, outcome, report, runs, bounds, moves>>

JudgeType ==
  /\ pc = "type"
  /\ Judged(IF compareDeducedType(ast, Tc) THEN "Passed" ELSE "Failed")
  /\ UNCHANGED <<world, documents, skips, stages, files, fi, parsed, ci, found, ast, value, outcome, report,
                 runs, bounds, moves>>

Eval ==
  /\ pc = "eval"
  /\ \/ Unanswered
     \/ /\ "eval" \in stages /\ Tc.bindings # "bad" /\ Answers("eval") /\ ast' = ast
        /\ \E v \in Values : value' = v /\ Judged(JudgeValue(v, ast, Tc))
  /\ UNCHANGED <<world, documents, skips, stages, files, fi, parsed, ci, found, outcome, report, runs, bounds, moves>>

Count ==
  /\ pc = "judged"
  /\ IF got = "Failed"
       THEN /\ summary' = [summary EXCEPT !.failed = @ + 1]
            /\ lists' = [lists EXCEPT !.failures = Append(@, Key(File, Tc))]
       ELSE summary' = [summary EXCEPT !.passed = @ + 1] /\ lists' = lists
  /\ Goes("oracle")
  /\ UNCHANGED <<world, documents, skips, stages, files, fi, parsed, ci, found, attempt, totals, runs, bounds, moves>>

AskOracle ==
  /\ pc = "oracle"
  /\ outcome' \in OracleOutcomes(Tc, EnvFor(File) \subseteq OracleEnvs, Values, Types)
  /\ Goes("compare")
  /\ UNCHANGED <<world, documents, skips, stages, files, fi, parsed, ci, found, ast, value, got, report,
                 runs, bounds, moves>>

reference == JudgeOracle(outcome, Tc)

Compare ==
  /\ pc = "compare"
  /\ lists' = IF reference = got THEN lists
              ELSE [lists EXCEPT !.divergences =
                      Append(@, [key |-> Key(File, Tc), cel4postgres |-> got, cel_go |-> reference])]
  /\ ci' = ci + 1
  /\ Goes("case")
  /\ Forget
  /\ UNCHANGED <<world, documents, skips, stages, files, fi, parsed, found, totals, summary, runs, bounds, moves>>

-----------------------------------------------------------------------------
(***************************************************************************)
(* The two documents. Markdown and the sidecar give the same report; the   *)
(* numbers in the sentences of the first are computed here. The skipped    *)
(* files are sorted by name, the order in which they were met.             *)
(***************************************************************************)
CasesOf(entries) == UNION {{i} \X (1..entries[i].cases) : i \in DOMAIN entries}
\* Variant: counts the files.
InSkippedFilesVariant == Len(lists.skippedFiles)

InSkippedFiles == Cardinality(CasesOf(lists.skippedFiles))

Figures ==
  [cases |-> totals.cases, files |-> totals.files, passed |-> totals.passed, failed |-> totals.failed,
   attempted |-> totals.passed + totals.failed, attemptedFiles |-> totals.files - totals.skippedFiles,
   notAttempted |-> totals.skipped, inSkippedFiles |-> InSkippedFiles, named |-> Len(lists.skippedCases),
   failures |-> Len(lists.failures), divergences |-> Len(lists.divergences)]

Document == [run |-> runs, numbers |-> {Figures}]

WriteMarkdown ==
  /\ pc = "file" /\ ~ More
  /\ md' = Document
  /\ Goes("sidecar")
  /\ UNCHANGED <<world, source, json, skips, stages, files, fi, parsed, ci, found, attempt, report,
                 runs, bounds, moves>>

\* Variant: only a missing sidecar is written.
WriteSidecarVariant ==
  /\ pc = "sidecar"
  /\ json' = IF json = NoDocument THEN Document ELSE json
  /\ Ends("written")
  /\ UNCHANGED <<world, source, md, skips, runs, bounds, moves>>

WriteSidecar ==
  /\ pc = "sidecar"
  /\ json' = Document
  /\ Ends("written")
  /\ UNCHANGED <<world, source, md, skips, runs, bounds, moves>>

-----------------------------------------------------------------------------
(***************************************************************************)
(* skipgen: GenerateSkippedCases, and the file it is compiled from.        *)
(***************************************************************************)
StartSkipgen ==
  /\ pc = "idle" /\ runs < bounds.runs /\ source.whole
  /\ runs' = runs + 1
  /\ skips' = source
  /\ IF HasCorpus(config) THEN Goes("list") /\ Keeps ELSE Ends("failed")
  /\ UNCHANGED <<world, documents, bounds, moves>>

ListForSkips ==
  /\ pc = "list"
  /\ files' = checkout.files
  /\ found' = [found EXCEPT !.of = moves]
  /\ Goes("scan")
  /\ UNCHANGED <<world, documents, skips, stages, fi, parsed, ci, attempt, report, runs, bounds, moves>>

Scan ==
  /\ pc = "scan" /\ More
  /\ IF File \notin SkippedFiles /\ Missing(File)
       THEN Ends("failed")
       ELSE /\ found' = [found EXCEPT !.keys = @ \cup SkipsOf(File, checkout.tests[File])]
            /\ fi' = fi + 1
            /\ UNCHANGED <<pc, exit, stages, files, parsed, ci, attempt, report>>
  /\ UNCHANGED <<world, documents, skips, runs, bounds, moves>>

WriteSkips ==
  /\ pc = "scan" /\ ~ More
  /\ source' = found
  /\ Ends("generated")
  /\ UNCHANGED <<world, md, json, skips, runs, bounds, moves>>

-----------------------------------------------------------------------------
(***************************************************************************)
(* What others do meanwhile: each of these is a mishap.                    *)
(***************************************************************************)
LoseConnection ==
  /\ linked /\ pc # "idle"
  /\ linked' = FALSE
  /\ UNCHANGED <<checkout, config, installed, documents, process, attempt, report, runs, moves>>

Reinstall ==
  /\ installed' \in Installations \ {installed}
  /\ UNCHANGED <<checkout, config, linked, documents, process, attempt, report, runs, moves>>

MoveCheckout ==
  /\ checkout' \in bounds.corpora \ {checkout}
  /\ moves' = moves + 1
  /\ UNCHANGED <<config, installed, linked, documents, process, attempt, report, runs>>

\* An interrupted process, or a write that fails. In the middle of a write the
\* file is left torn, and a torn skipped_cases.go does not compile.
Interrupt ==
  /\ pc # "idle"
  /\ Ends("interrupted")
  /\ md' \in {md} \cup (IF pc = "file" /\ ~ More THEN {Torn} ELSE {})
  /\ json' \in {json} \cup (IF pc = "sidecar" THEN {Torn} ELSE {})
  /\ source' \in {source} \cup (IF pc = "scan" /\ ~ More THEN {[source EXCEPT !.whole = FALSE]} ELSE {})
  /\ UNCHANGED <<world, skips, runs, moves>>

Mishap ==
  /\ bounds.mishaps > 0 /\ bounds' = [bounds EXCEPT !.mishaps = @ - 1]
  /\ LoseConnection \/ Reinstall \/ MoveCheckout \/ Interrupt

-----------------------------------------------------------------------------
Init ==
  /\ bounds \in Scenarios /\ checkout \in bounds.corpora /\ config \in Configurations
  /\ installed \in Installations /\ linked = FALSE
  /\ \E c \in bounds.corpora :
       source = [keys |-> SkipList(c), of |-> IF c = checkout THEN 0 ELSE -1, whole |-> TRUE]
  /\ md = NoDocument /\ json = NoDocument
  /\ pc = "idle" /\ exit = "none" /\ skips = source /\ stages = {}
  /\ files = <<>> /\ fi = 1 /\ parsed = <<>> /\ ci = 1
  /\ found = NothingFound
  /\ ast = None /\ value = "none" /\ got = "none" /\ outcome = HarnessFault
  /\ totals = NoTotals /\ summary = NoSummary /\ lists = NoLists
  /\ runs = 0 /\ moves = 0

Step ==
  \/ Probe \/ ListFiles \/ LoadFails \/ SkipFile \/ OpenFile \/ SkipCase \/ Attempt \/ CloseFile
  \/ Parse \/ Check \/ JudgeType \/ Eval \/ Count \/ AskOracle \/ Compare
  \/ WriteMarkdown \/ WriteSidecar \/ ListForSkips \/ Scan \/ WriteSkips

Next == StartReport \/ StartSkipgen \/ Step \/ Mishap

Spec == Init /\ [][Next]_vars

\* A started process is scheduled, and every query and every call of cel-go
\* returns; nothing is claimed of when a process is started.
Fairness == WF_vars(Step)
FairSpec == Spec /\ Fairness

-----------------------------------------------------------------------------
(***************************************************************************)
(* Properties.                                                             *)
(***************************************************************************)
InCase == {"parse", "check", "type", "eval", "judged", "oracle", "compare"}
Controls == {"idle", "probe", "files", "file", "case", "sidecar", "list", "scan"} \cup InCase

SkipSets == [keys : SUBSET Keys, of : Int, whole : BOOLEAN]
Totals == [files : Nat, skippedFiles : Nat, cases : Nat, passed : Nat, skipped : Nat, failed : Nat]
Counts == [cases : Nat, passed : Nat, skipped : Nat, failed : Nat]
DivergenceRecords == [key : Keys, cel4postgres : Statuses, cel_go : Statuses]
ReportLists ==
  [files : Seq([name : FileNames, env : {EnvFor(f) : f \in FileNames}, counts : Counts]),
   skippedFiles : Seq([name : FileNames, cases : Nat]), skippedCases : Seq(Keys),
   failures : Seq(Keys), divergences : Seq(DivergenceRecords)]

WorldTypes ==
  /\ checkout \in Corpora /\ config \in Configurations
  /\ installed \in Installations /\ linked \in BOOLEAN
  /\ source \in SkipSets
  /\ runs \in Nat /\ moves \in Nat /\ bounds \in BoundTypes

ProcessTypes ==
  /\ pc \in Controls
  /\ stages \in Installations \cup {{}} /\ skips \in SkipSets /\ found \in SkipSets
  /\ files \in Seq(FileNames) /\ fi \in 1..(Len(files) + 1)
  /\ parsed \in Seq(Cases(Sections, CaseNames, Values, Types)) /\ ci \in 1..(Len(parsed) + 1)
  /\ pc \in InCase => MoreCases
  /\ pc \in InCase \cup {"case"} => More

ReportTypes ==
  /\ got \in Statuses \cup {"none"}
  /\ pc \in {"judged", "oracle", "compare"} => got \in {"Passed", "Failed"}
  /\ totals \in Totals /\ summary \in Counts /\ lists \in ReportLists

\* A process inside the loops is at a file and a case that exist, and works with
\* values of the kinds the codec knows.
TypeOK == WorldTypes /\ ProcessTypes /\ ReportTypes

\* The sentences of the report add up: every case of the corpus is attempted, in
\* a skipped file or skipped by name, and the lists have as many entries as the
\* totals say (report_markdown.go:44-55). The counts are kept in four places by
\* three branches of the loops.
AddsUp(n) ==
  /\ n.cases = n.attempted + n.notAttempted
  /\ n.notAttempted = n.inSkippedFiles + n.named
  /\ n.attempted = n.passed + n.failed
  /\ n.failures = n.failed
  /\ n.divergences <= n.attempted
  /\ n.attemptedFiles >= 0

ReportAddsUp == \A n \in md.numbers \cup json.numbers : AddsUp(n)

\* No exception, no missing function and no lost connection is ever taken for the
\* error a case expects (run.go:50-54): a case passes on what the database did
\* answer, whatever happened to it since its stages were probed.
PassedOnEvidence ==
  pc \in {"judged", "oracle", "compare"} /\ got = "Passed" =>
    /\ expectsError(Tc) => ast.state = "rejected" \/ value = "error"
    /\ ~ expectsError(Tc) => ast.state \in {"parsed", "checked"}
    /\ ~ expectsError(Tc) /\ ~ Tc.check_only => value = (IF Tc.matcher = "default" THEN "true" ELSE Tc.want)
    /\ hasTypedResult(Tc) => ast = Checked(Tc.type)

\* Both verdicts are reached the same way (oracle.go:13-17): where the database
\* and cel-go gave the same answer, there is no divergence, whatever each side
\* was configured with and however the expectation is written.
Observed ==
  CASE ast.state = "rejected" \/ value = "error" -> <<"error">>
    [] ast.state # "rejected" /\ value = "none" -> IF Tc.check_only THEN <<"type", ast.type>> ELSE <<"nothing">>
    [] OTHER -> <<"value", value, ast.type>>

ObservedByOracle ==
  CASE outcome.fault -> <<"fault">>
    [] ~ outcome.fault /\ outcome.err -> <<"error">>
    [] ~ outcome.fault /\ ~ outcome.err /\ Tc.check_only -> <<"type", outcome.type>>
    [] OTHER -> <<"value", outcome.value, outcome.type>>

SameJudgement ==
  pc = "compare" /\ Observed = ObservedByOracle => reference = got

\* With a list generated from the checkout as it still is, a run skips by name
\* only cases whose name stands for one that cannot run, and attempts none of
\* these (skiplist.go:37-41). Of a list that is not, it says nothing.
Fresh == skips.of = moves

SkipsAreForced ==
  Fresh /\ pc \in InCase \cup {"case", "file", "sidecar"} =>
    /\ \A i \in DOMAIN lists.skippedCases :
         \E j \in DOMAIN checkout.tests[lists.skippedCases[i][1]] :
           LET tc == checkout.tests[lists.skippedCases[i][1]][j]
           IN lists.skippedCases[i] = Key(lists.skippedCases[i][1], tc) /\ tc.needs # "nothing"
    /\ pc \in InCase => Tc.needs = "nothing"

\* After a run that ended well both documents are that run's, whatever an
\* interrupted one left (confreport/main.go:45-60). Between the two writes, and
\* after a process that ended there, nothing of the kind holds.
PublishedTogether ==
  pc = "idle" /\ exit = "written" => md = json /\ md.run = json.run /\ md.numbers # {}

\* A process that was started ends, however its cases come out.
Finishes == pc # "idle" ~> pc = "idle"
=============================================================================
