------------------------- MODULE ConformanceProofs -------------------------
(***************************************************************************)
(* Proofs about the conformance report and what its verdicts, its skips    *)
(* and its two documents rest on, for any corpus, any list of skipped      *)
(* files, any environments and any number of mishaps.                      *)
(***************************************************************************)
EXTENDS Conformance, FiniteSetTheorems, TLAPS

-----------------------------------------------------------------------------
(***************************************************************************)
(* Types.                                                                  *)
(***************************************************************************)
\* Between processes, and in one that has not yet listed the corpus, nothing is
\* left of an earlier one.
AtStart ==
  pc \in {"idle", "probe", "files", "list"} =>
    /\ files = <<>> /\ fi = 1 /\ parsed = <<>> /\ ci = 1 /\ found = NothingFound
    /\ totals = NoTotals /\ summary = NoSummary /\ lists = NoLists

LEMMA CheckoutTypes ==
  ASSUME WorldTypes
  PROVE  /\ checkout.files \in Seq(FileNames)
         /\ checkout.tests \in [FileNames -> Seq(Cases(Sections, CaseNames, Values, Types))]
  BY CorpusAssumption DEF WorldTypes

LEMMA AtFile ==
  ASSUME ProcessTypes, More
  PROVE  File \in FileNames
  BY DEF ProcessTypes, More, File

LEMMA AtCase ==
  ASSUME ProcessTypes, More, MoreCases
  PROVE  /\ Tc \in Cases(Sections, CaseNames, Values, Types)
         /\ Key(File, Tc) \in Keys
<1>1. Tc \in Cases(Sections, CaseNames, Values, Types)
  BY DEF ProcessTypes, MoreCases, Tc
<1>2. Tc.section \in Sections /\ Tc.name \in CaseNames
  BY <1>1 DEF Cases
<1>3. QED BY <1>1, <1>2, AtFile DEF Key, Keys

LEMMA SkipsOfTypes ==
  ASSUME NEW file \in FileNames, NEW tests \in Seq(Cases(Sections, CaseNames, Values, Types))
  PROVE  SkipsOf(file, tests) \subseteq Keys
<1>1. ASSUME NEW j \in DOMAIN tests
      PROVE  tests[j].section \in Sections /\ tests[j].name \in CaseNames
  <2>1. tests[j] \in Cases(Sections, CaseNames, Values, Types)
    OBVIOUS
  <2>2. QED BY <2>1 DEF Cases
<1>2. ASSUME NEW j \in DOMAIN tests PROVE Key(file, tests[j]) \in Keys
  BY <1>1 DEF Key, Keys
<1>3. QED BY <1>2 DEF SkipsOf

\* Counting one more, and adding one entry to a list, keep the types.
LEMMA TotalsTypes ==
  ASSUME NEW t \in Totals, NEW n \in Nat, NEW c \in Counts
  PROVE  /\ [t EXCEPT !.cases = @ + n] \in Totals
         /\ [t EXCEPT !.cases = @ + n, !.skippedFiles = @ + 1, !.skipped = @ + n] \in Totals
         /\ [t EXCEPT !.passed = @ + c.passed, !.skipped = @ + c.skipped, !.failed = @ + c.failed] \in Totals
<1>1. /\ t.cases + n \in Nat /\ t.skippedFiles + 1 \in Nat /\ t.skipped + n \in Nat
      /\ t.passed + c.passed \in Nat /\ t.skipped + c.skipped \in Nat /\ t.failed + c.failed \in Nat
  BY DEF Totals, Counts
<1>2. [t EXCEPT !.cases = @ + n] \in Totals
  BY <1>1 DEF Totals
<1>3. [t EXCEPT !.cases = @ + n, !.skippedFiles = @ + 1, !.skipped = @ + n] \in Totals
  BY <1>1 DEF Totals
<1>4. [t EXCEPT !.passed = @ + c.passed, !.skipped = @ + c.skipped, !.failed = @ + c.failed] \in Totals
  BY <1>1 DEF Totals
<1>5. QED BY <1>2, <1>3, <1>4

LEMMA CountsTypes ==
  ASSUME NEW c \in Counts, NEW n \in Nat
  PROVE  /\ NoSummary \in Counts
         /\ [NoSummary EXCEPT !.cases = n] \in Counts
         /\ [c EXCEPT !.passed = @ + 1] \in Counts
         /\ [c EXCEPT !.skipped = @ + 1] \in Counts
         /\ [c EXCEPT !.failed = @ + 1] \in Counts
<1>1. c.passed + 1 \in Nat /\ c.skipped + 1 \in Nat /\ c.failed + 1 \in Nat
  BY DEF Counts
<1>2. QED BY <1>1 DEF Counts, NoSummary

LEMMA ListTypes ==
  ASSUME NEW l \in ReportLists
  PROVE  /\ \A k \in Keys : [l EXCEPT !.failures = Append(@, k)] \in ReportLists
         /\ \A k \in Keys : [l EXCEPT !.skippedCases = Append(@, k)] \in ReportLists
         /\ \A d \in DivergenceRecords : [l EXCEPT !.divergences = Append(@, d)] \in ReportLists
<1>1. ASSUME NEW k \in Keys
      PROVE  Append(l.failures, k) \in Seq(Keys) /\ Append(l.skippedCases, k) \in Seq(Keys)
  BY DEF ReportLists
<1>2. ASSUME NEW d \in DivergenceRecords
      PROVE  Append(l.divergences, d) \in Seq(DivergenceRecords)
  BY DEF ReportLists
<1>3. QED BY <1>1, <1>2 DEF ReportLists

LEMMA FileListTypes ==
  ASSUME NEW l \in ReportLists, NEW f \in FileNames
  PROVE  /\ \A n \in Nat :
              [l EXCEPT !.skippedFiles = Append(@, [name |-> f, cases |-> n])] \in ReportLists
         /\ \A c \in Counts :
              [l EXCEPT !.files = Append(@, [name |-> f, env |-> EnvFor(f), counts |-> c])] \in ReportLists
<1> DEFINE FileReports == [name : FileNames, env : {EnvFor(g) : g \in FileNames}, counts : Counts]
           SkippedReports == [name : FileNames, cases : Nat]
<1>1. ASSUME NEW n \in Nat
      PROVE  Append(l.skippedFiles, [name |-> f, cases |-> n]) \in Seq(SkippedReports)
  <2>1. [name |-> f, cases |-> n] \in SkippedReports
    OBVIOUS
  <2>2. QED BY <2>1 DEF ReportLists
<1>2. ASSUME NEW c \in Counts
      PROVE  Append(l.files, [name |-> f, env |-> EnvFor(f), counts |-> c]) \in Seq(FileReports)
  <2>1. [name |-> f, env |-> EnvFor(f), counts |-> c] \in FileReports
    OBVIOUS
  <2>2. QED BY <2>1 DEF ReportLists
<1>3. QED BY <1>1, <1>2 DEF ReportLists

\* A process that is gone leaves nothing of a wrong type.
LEMMA EndsTypes ==
  ASSUME TypeOK, NEW how, Ends(how), skips' \in SkipSets
  PROVE  ProcessTypes' /\ ReportTypes'
<1>1. ProcessTypes'
  BY DEF Ends, Gone, ProcessTypes, Controls, InCase, NothingFound, SkipSets, More, MoreCases
<1>2. NoLists \in ReportLists
  BY DEF NoLists, ReportLists
<1>3. ReportTypes'
  BY <1>2 DEF Ends, Gone, Forget, ReportTypes, Totals, NoTotals, Counts, NoSummary
<1>4. QED BY <1>1, <1>3

\* A step inside the attempt at a case that only judges it or goes on.
LEMMA CaseStepTypes ==
  ASSUME TypeOK, More, MoreCases, pc' \in InCase,
         got' \in Statuses \cup {"none"},
         pc' \in {"judged", "oracle", "compare"} => got' \in {"Passed", "Failed"},
         UNCHANGED <<world, documents, skips, stages, files, fi, parsed, ci, found, report, runs, bounds, moves>>
  PROVE  TypeOK'
<1>1. WorldTypes'
  BY DEF TypeOK, WorldTypes, world, documents
<1>2. ProcessTypes'
  BY DEF TypeOK, ProcessTypes, Controls, More, MoreCases
<1>3. ReportTypes'
  BY DEF TypeOK, ReportTypes, report
<1>4. QED BY <1>1, <1>2, <1>3 DEF TypeOK

LEMMA InitTypes == Init => TypeOK
<1> SUFFICES ASSUME Init PROVE TypeOK
  OBVIOUS
<1>1. \A c \in Corpora : SkipList(c) \in SUBSET Keys
  <2>1. SUFFICES ASSUME NEW c \in Corpora, NEW i \in DOMAIN c.files
                 PROVE  SkipsOf(c.files[i], c.tests[c.files[i]]) \subseteq Keys
    BY DEF SkipList
  <2>2. c.files[i] \in FileNames
    BY CorpusAssumption, <2>1
  <2>3. c.tests[c.files[i]] \in Seq(Cases(Sections, CaseNames, Values, Types))
    BY CorpusAssumption, <2>1, <2>2
  <2>4. QED BY <2>2, <2>3, SkipsOfTypes
<1>2. bounds \in BoundTypes /\ bounds.corpora \subseteq Corpora
  BY BoundAssumption DEF Init, BoundTypes
<1>3. source \in SkipSets
  BY <1>1, <1>2 DEF Init, SkipSets
<1>4. WorldTypes
  BY <1>2, <1>3 DEF Init, WorldTypes
<1>5. ProcessTypes
  BY <1>3 DEF Init, ProcessTypes, Controls, InCase, More, MoreCases, NothingFound, SkipSets
<1>6. NoLists \in ReportLists
  BY DEF NoLists, ReportLists
<1>7. ReportTypes
  BY <1>6 DEF Init, ReportTypes, Totals, Counts, NoTotals, NoSummary
<1>8. QED BY <1>4, <1>5, <1>7 DEF TypeOK

\* What is left untouched keeps its type.
LEMMA SameWorldTypes ==
  ASSUME WorldTypes, UNCHANGED <<world, source, bounds, moves>>, runs' \in Nat
  PROVE  WorldTypes'
  BY DEF WorldTypes, world

LEMMA SameReportTypes ==
  ASSUME ReportTypes, UNCHANGED <<got, report>>,
         pc' \in {"judged", "oracle", "compare"} => pc \in {"judged", "oracle", "compare"}
  PROVE  ReportTypes'
  BY DEF ReportTypes, report

LEMMA CommandTypes ==
  ASSUME TypeOK, AtStart, StartReport \/ StartSkipgen \/ Probe \/ ListFiles \/ LoadFails \/ WriteMarkdown
                 \/ WriteSidecar \/ ListForSkips \/ Scan \/ WriteSkips
  PROVE  TypeOK'
<1> USE DEF TypeOK
<1>1. CASE StartReport
  <2>1. skips' \in SkipSets /\ WorldTypes'
    <3>1. runs' \in Nat
      BY <1>1 DEF StartReport, WorldTypes
    <3>2. linked' \in BOOLEAN
      BY <1>1 DEF StartReport
    <3>3. QED BY <1>1, <3>1, <3>2 DEF StartReport, WorldTypes, documents
  <2>2. CASE \E how : Ends(how)
    BY <2>1, <2>2, EndsTypes
  <2>3. CASE Goes("probe") /\ Keeps
    <3>1. ProcessTypes'
      BY <2>1, <2>3 DEF Goes, Keeps, ProcessTypes, Controls, InCase, More, MoreCases
    <3>2. ReportTypes'
      BY <2>3, SameReportTypes DEF Goes, Keeps, attempt
    <3>3. QED BY <2>1, <3>1, <3>2
  <2>4. QED BY <1>1, <2>2, <2>3 DEF StartReport
<1>2. CASE StartSkipgen
  <2>1. skips' \in SkipSets /\ WorldTypes'
    BY <1>2 DEF StartSkipgen, WorldTypes, documents, world
  <2>2. CASE \E how : Ends(how)
    BY <2>1, <2>2, EndsTypes
  <2>3. CASE Goes("list") /\ Keeps
    <3>1. ProcessTypes'
      BY <2>1, <2>3 DEF Goes, Keeps, ProcessTypes, Controls, InCase, More, MoreCases
    <3>2. ReportTypes'
      BY <2>3, SameReportTypes DEF Goes, Keeps, attempt
    <3>3. QED BY <2>1, <3>1, <3>2
  <2>4. QED BY <1>2, <2>2, <2>3 DEF StartSkipgen
<1>3. CASE Probe
  <2>1. skips' \in SkipSets /\ WorldTypes'
    BY <1>3 DEF Probe, WorldTypes, ProcessTypes, documents, world
  <2>2. CASE linked
    <3>1. ProcessTypes'
      BY <1>3, <2>1, <2>2 DEF Probe, Goes, WorldTypes, ProcessTypes, Controls, InCase, More, MoreCases
    <3>2. ReportTypes'
      BY <1>3, <2>2, SameReportTypes DEF Probe, Goes, attempt
    <3>3. QED BY <2>1, <3>1, <3>2
  <2>3. QED BY <1>3, <2>1, <2>2, EndsTypes DEF Probe
<1>4. CASE ListFiles
  <2>1. skips' \in SkipSets /\ WorldTypes'
    BY <1>4 DEF ListFiles, WorldTypes, ProcessTypes, documents, world
  <2>2. CASE HasCorpus(config)
    <3>1. checkout.files \in Seq(FileNames) /\ fi' = 1 /\ files' = checkout.files
      BY <1>4, <2>2, CheckoutTypes DEF ListFiles, AtStart
    <3>2. fi' \in 1..(Len(files') + 1)
      BY <3>1
    <3>3. ProcessTypes'
      BY <1>4, <2>1, <2>2, <3>1, <3>2
      DEF ListFiles, Goes, ProcessTypes, Controls, InCase, More, MoreCases
    <3>4. ReportTypes'
      BY <1>4, <2>2, <3>1 DEF ListFiles, Goes, attempt, ReportTypes, Totals
    <3>5. QED BY <2>1, <3>3, <3>4
  <2>3. QED BY <1>4, <2>1, <2>2, EndsTypes DEF ListFiles
<1>5. CASE LoadFails
  <2>1. skips' \in SkipSets /\ WorldTypes'
    BY <1>5 DEF LoadFails, WorldTypes, ProcessTypes, documents, world
  <2>2. QED BY <1>5, <2>1, EndsTypes DEF LoadFails
<1>6. CASE WriteMarkdown
  <2>1. WorldTypes'
    BY <1>6, SameWorldTypes DEF WriteMarkdown, WorldTypes
  <2>2. ProcessTypes'
    BY <1>6 DEF WriteMarkdown, Goes, ProcessTypes, Controls, InCase, More, MoreCases
  <2>3. ReportTypes'
    BY <1>6, SameReportTypes DEF WriteMarkdown, Goes, attempt
  <2>4. QED BY <2>1, <2>2, <2>3
<1>7. CASE WriteSidecar
  <2>1. skips' \in SkipSets /\ WorldTypes'
    BY <1>7 DEF WriteSidecar, WorldTypes, ProcessTypes, world
  <2>2. QED BY <1>7, <2>1, EndsTypes DEF WriteSidecar
<1>8. CASE ListForSkips
  <2>1. skips' \in SkipSets /\ WorldTypes'
    BY <1>8 DEF ListForSkips, WorldTypes, ProcessTypes, documents, world
  <2>2. checkout.files \in Seq(FileNames) /\ fi' = 1 /\ files' = checkout.files
    BY <1>8, CheckoutTypes DEF ListForSkips, AtStart
  <2>3. found' \in SkipSets
    <3>1. moves \in Int /\ found \in SkipSets
      BY DEF WorldTypes, ProcessTypes
    <3>2. QED BY <1>8, <3>1 DEF ListForSkips, SkipSets
  <2>4. fi' \in 1..(Len(files') + 1)
    BY <2>2
  <2>5. ProcessTypes'
    BY <1>8, <2>1, <2>2, <2>3, <2>4
    DEF ListForSkips, Goes, ProcessTypes, Controls, InCase, More, MoreCases
  <2>6. ReportTypes'
    BY <1>8, SameReportTypes DEF ListForSkips, Goes, attempt
  <2>7. QED BY <2>1, <2>5, <2>6
<1>9. CASE Scan
  <2>1. skips' \in SkipSets /\ WorldTypes'
    BY <1>9 DEF Scan, WorldTypes, ProcessTypes, documents, world
  <2>2. CASE File \notin SkippedFiles /\ Missing(File)
    BY <1>9, <2>1, <2>2, EndsTypes DEF Scan
  <2>3. CASE ~(File \notin SkippedFiles /\ Missing(File))
    <3>1. SkipsOf(File, checkout.tests[File]) \subseteq Keys
      BY <1>9, CheckoutTypes, AtFile, SkipsOfTypes DEF Scan
    <3>2. found' \in SkipSets
      BY <1>9, <2>3, <3>1 DEF Scan, ProcessTypes, SkipSets
    <3>3. fi' \in 1..(Len(files') + 1)
      BY <1>9, <2>3 DEF Scan, More, ProcessTypes
    <3>4. ProcessTypes'
      BY <1>9, <2>1, <2>3, <3>2, <3>3 DEF Scan, ProcessTypes, Controls, InCase, More, MoreCases
    <3>5. ReportTypes'
      BY <1>9, <2>3, SameReportTypes DEF Scan, attempt
    <3>6. QED BY <2>1, <3>4, <3>5
  <2>4. QED BY <2>2, <2>3
<1>10. CASE WriteSkips
  <2>1. skips' \in SkipSets /\ WorldTypes'
    BY <1>10 DEF WriteSkips, WorldTypes, ProcessTypes, world
  <2>2. QED BY <1>10, <2>1, EndsTypes DEF WriteSkips
<1>11. QED
  BY <1>1, <1>2, <1>3, <1>4, <1>5, <1>6, <1>7, <1>8, <1>9, <1>10

LEMMA LoopTypes ==
  ASSUME TypeOK, SkipFile \/ OpenFile \/ SkipCase \/ CloseFile \/ Count \/ Compare
  PROVE  TypeOK'
<1> USE DEF TypeOK
<1>1. CASE SkipFile
  <2>1. WorldTypes'
    BY <1>1, SameWorldTypes DEF SkipFile, WorldTypes, documents
  <2>2. File \in FileNames /\ Len(checkout.tests[File]) \in Nat
    BY <1>1, AtFile, CheckoutTypes DEF SkipFile
  <2>3. ProcessTypes'
    BY <1>1 DEF SkipFile, ProcessTypes, Controls, InCase, More, MoreCases
  <2>4. totals' \in Totals /\ UNCHANGED <<summary, got, pc>>
    BY <1>1, <2>2, TotalsTypes, CountsTypes DEF SkipFile, ReportTypes, attempt
  <2>5. lists' \in ReportLists
    BY <1>1, <2>2, FileListTypes DEF SkipFile, ReportTypes
  <2>6. QED BY <2>1, <2>3, <2>4, <2>5 DEF ReportTypes
<1>2. CASE OpenFile
  <2>1. WorldTypes'
    BY <1>2, SameWorldTypes DEF OpenFile, WorldTypes, documents
  <2>2. File \in FileNames /\ checkout.tests[File] \in Seq(Cases(Sections, CaseNames, Values, Types))
    BY <1>2, AtFile, CheckoutTypes DEF OpenFile
  <2>3. ProcessTypes'
    BY <1>2, <2>2 DEF OpenFile, Goes, ProcessTypes, Controls, InCase, More, MoreCases
  <2>4. Len(checkout.tests[File]) \in Nat
    BY <2>2
  <2>5. totals' \in Totals /\ summary' \in Counts
    BY <1>2, <2>4, TotalsTypes, CountsTypes DEF OpenFile, ReportTypes
  <2>6. QED BY <1>2, <2>1, <2>3, <2>5 DEF OpenFile, Goes, ReportTypes, attempt
<1>3. CASE SkipCase
  <2>1. WorldTypes'
    BY <1>3, SameWorldTypes DEF SkipCase, WorldTypes, documents
  <2>2. More
    BY <1>3 DEF SkipCase, ProcessTypes
  <2>3. Key(File, Tc) \in Keys
    BY <1>3, <2>2, AtCase DEF SkipCase
  <2>4. ProcessTypes'
    BY <1>3, <2>2 DEF SkipCase, ProcessTypes, Controls, InCase, More, MoreCases
  <2>5. summary' \in Counts /\ lists' \in ReportLists
    BY <1>3, <2>3, CountsTypes, ListTypes DEF SkipCase, ReportTypes
  <2>6. QED BY <1>3, <2>1, <2>4, <2>5 DEF SkipCase, ReportTypes, attempt
<1>4. CASE CloseFile
  <2>1. WorldTypes'
    BY <1>4, SameWorldTypes DEF CloseFile, WorldTypes, documents
  <2>2. More
    BY <1>4 DEF CloseFile, ProcessTypes
  <2>3. File \in FileNames
    BY <2>2, AtFile
  <2>4. ProcessTypes'
    BY <1>4, <2>2 DEF CloseFile, Goes, ProcessTypes, Controls, InCase, More, MoreCases
  <2>5. totals' \in Totals /\ summary' \in Counts
    BY <1>4, TotalsTypes, CountsTypes DEF CloseFile, ReportTypes
  <2>6. lists' \in ReportLists
    BY <1>4, <2>3, FileListTypes DEF CloseFile, ReportTypes
  <2>7. QED BY <1>4, <2>1, <2>4, <2>5, <2>6 DEF CloseFile, Goes, ReportTypes, attempt
<1>5. CASE Count
  <2>1. WorldTypes'
    BY <1>5, SameWorldTypes DEF Count, WorldTypes, documents
  <2>2. Key(File, Tc) \in Keys
    BY <1>5, AtCase DEF Count, ProcessTypes, InCase
  <2>3. ProcessTypes'
    BY <1>5 DEF Count, Goes, ProcessTypes, Controls, InCase, More, MoreCases
  <2>4. summary' \in Counts /\ lists' \in ReportLists
    BY <1>5, <2>2, CountsTypes, ListTypes DEF Count, ReportTypes
  <2>5. QED BY <1>5, <2>1, <2>3, <2>4 DEF Count, Goes, ReportTypes, attempt
<1>6. CASE Compare
  <2>1. WorldTypes'
    BY <1>6, SameWorldTypes DEF Compare, WorldTypes, documents
  <2>2. Key(File, Tc) \in Keys
    BY <1>6, AtCase DEF Compare, ProcessTypes, InCase
  <2>3. got \in Statuses /\ reference \in Statuses
    BY <1>6 DEF Compare, ReportTypes, Statuses, reference, JudgeOracle
  <2>4. ProcessTypes'
    BY <1>6 DEF Compare, Goes, ProcessTypes, Controls, InCase, More, MoreCases
  <2>5. [key |-> Key(File, Tc), cel4postgres |-> got, cel_go |-> reference] \in DivergenceRecords
    BY <2>2, <2>3 DEF DivergenceRecords
  <2>6. lists' \in ReportLists
    BY <1>6, <2>5, ListTypes DEF Compare, ReportTypes
  <2>7. QED BY <1>6, <2>1, <2>4, <2>6 DEF Compare, Goes, Forget, ReportTypes
<1>7. QED BY <1>1, <1>2, <1>3, <1>4, <1>5, <1>6

LEMMA CaseTypes ==
  ASSUME TypeOK, Attempt \/ Parse \/ Check \/ JudgeType \/ Eval \/ AskOracle
  PROVE  TypeOK'
<1>1. More /\ MoreCases
  BY DEF TypeOK, ProcessTypes, InCase, Attempt, Parse, Check, JudgeType, Eval, AskOracle
<1>2. got \in Statuses \cup {"none"} /\ {"Passed", "Failed"} \subseteq Statuses
  BY DEF TypeOK, ReportTypes, Statuses
<1>3. CASE Attempt
  BY <1>1, <1>2, <1>3, CaseStepTypes DEF Attempt, Goes, InCase, attempt
<1>4. CASE Parse
  <2>1. pc' \in InCase /\ got' \in Statuses \cup {"none"}
        /\ (pc' \in {"judged", "oracle", "compare"} => got' \in {"Passed", "Failed"})
    BY <1>2, <1>4 DEF Parse, Unanswered, JudgedRefused, Judged, Goes, AfterCheck, InCase
  <2>2. QED BY <1>1, <1>4, <2>1, CaseStepTypes DEF Parse
<1>5. CASE Check
  <2>1. pc' \in InCase /\ got' \in Statuses \cup {"none"}
        /\ (pc' \in {"judged", "oracle", "compare"} => got' \in {"Passed", "Failed"})
    BY <1>2, <1>5 DEF Check, Unanswered, JudgedRefused, Judged, Goes, AfterCheck, InCase
  <2>2. QED BY <1>1, <1>5, <2>1, CaseStepTypes DEF Check
<1>6. CASE JudgeType
  BY <1>1, <1>2, <1>6, CaseStepTypes DEF JudgeType, Judged, Goes, InCase
<1>7. CASE Eval
  <2>1. pc' \in InCase /\ got' \in {"Passed", "Failed"}
    BY <1>7 DEF Eval, Unanswered, Judged, JudgeValue, Goes, InCase
  <2>2. QED BY <1>1, <1>2, <1>7, <2>1, CaseStepTypes DEF Eval
<1>8. CASE AskOracle
  <2>1. got' \in {"Passed", "Failed"} /\ pc' \in InCase
    BY <1>8 DEF AskOracle, Goes, InCase, TypeOK, ReportTypes
  <2>2. QED BY <1>1, <1>2, <1>8, <2>1, CaseStepTypes DEF AskOracle
<1>9. QED BY <1>3, <1>4, <1>5, <1>6, <1>7, <1>8

LEMMA MishapTypes ==
  ASSUME TypeOK, Mishap
  PROVE  TypeOK'
<1> USE DEF TypeOK
<1>1. bounds' \in BoundTypes /\ bounds.corpora \subseteq Corpora
  BY DEF Mishap, WorldTypes, BoundTypes
<1>2. CASE UNCHANGED <<process, attempt, report>>
  <2>1. ProcessTypes'
    BY <1>2 DEF process, ProcessTypes, More, MoreCases
  <2>2. ReportTypes'
    BY <1>2, SameReportTypes DEF process, attempt
  <2>3. CASE LoseConnection
    BY <1>1, <2>1, <2>2, <2>3 DEF LoseConnection, WorldTypes, documents
  <2>4. CASE Reinstall
    BY <1>1, <2>1, <2>2, <2>4 DEF Reinstall, WorldTypes, documents
  <2>5. CASE MoveCheckout
    <3>1. moves' \in Nat /\ checkout' \in Corpora
      BY <1>1, <2>5 DEF MoveCheckout, WorldTypes
    <3>2. QED BY <1>1, <2>1, <2>2, <2>5, <3>1 DEF MoveCheckout, WorldTypes, documents
  <2>6. CASE Interrupt
    <3>1. source' \in SkipSets
      BY <2>6 DEF Interrupt, WorldTypes, SkipSets
    <3>2. QED BY <1>1, <2>1, <2>2, <2>6, <3>1 DEF Interrupt, WorldTypes, world
  <2>7. QED BY <2>3, <2>4, <2>5, <2>6 DEF Mishap
<1>3. CASE Interrupt
  <2>1. source' \in SkipSets
    BY <1>3 DEF Interrupt, WorldTypes, SkipSets
  <2>2. WorldTypes'
    BY <1>1, <1>3, <2>1 DEF Interrupt, WorldTypes, world
  <2>3. skips' \in SkipSets
    BY <1>3 DEF Interrupt, ProcessTypes
  <2>4. QED BY <1>3, <2>2, <2>3, EndsTypes DEF Interrupt
<1>4. QED BY <1>2, <1>3 DEF Mishap, LoseConnection, Reinstall, MoveCheckout

LEMMA StartStep ==
  ASSUME AtStart, [Next]_vars
  PROVE  AtStart'
<1>1. ASSUME NEW how, Ends(how) PROVE AtStart'
  BY <1>1 DEF Ends, Gone, AtStart
<1>2. CASE StartReport
  BY <1>1, <1>2 DEF StartReport, Goes, Keeps, attempt, report, AtStart
<1>3. CASE StartSkipgen
  BY <1>1, <1>3 DEF StartSkipgen, Goes, Keeps, attempt, report, AtStart
<1>4. CASE Probe
  BY <1>1, <1>4 DEF Probe, Goes, attempt, report, AtStart
<1>5. CASE ListFiles \/ LoadFails \/ SkipFile \/ OpenFile \/ SkipCase \/ Attempt \/ CloseFile
  BY <1>1, <1>5 DEF ListFiles, LoadFails, SkipFile, OpenFile, SkipCase, Attempt, CloseFile, Goes, AtStart
<1>6. CASE Parse \/ Check \/ JudgeType \/ Eval
  BY <1>6 DEF Parse, Check, JudgeType, Eval, Unanswered, Judged, JudgedRefused, AfterCheck, Goes, AtStart
<1>7. CASE Count \/ AskOracle \/ Compare
  BY <1>7 DEF Count, AskOracle, Compare, Goes, AtStart
<1>8. CASE WriteMarkdown \/ WriteSidecar \/ ListForSkips \/ Scan \/ WriteSkips
  BY <1>1, <1>8 DEF WriteMarkdown, WriteSidecar, ListForSkips, Scan, WriteSkips, Goes, AtStart
<1>9. CASE Mishap
  BY <1>1, <1>9 DEF Mishap, LoseConnection, Reinstall, MoveCheckout, Interrupt, process, report, AtStart
<1>10. CASE UNCHANGED vars
  BY <1>10 DEF vars, process, report, AtStart
<1>11. QED
  BY <1>2, <1>3, <1>4, <1>5, <1>6, <1>7, <1>8, <1>9, <1>10 DEF Next, Step

LEMMA StutterTypes ==
  ASSUME TypeOK, UNCHANGED vars
  PROVE  TypeOK'
<1>1. WorldTypes'
  BY DEF TypeOK, vars, world, documents, WorldTypes
<1>2. ProcessTypes'
  BY DEF TypeOK, vars, process, ProcessTypes, More, MoreCases
<1>3. ReportTypes'
  BY DEF TypeOK, vars, process, attempt, report, ReportTypes
<1>4. QED BY <1>1, <1>2, <1>3 DEF TypeOK

LEMMA StepTypes ==
  ASSUME TypeOK, AtStart, [Next]_vars
  PROVE  TypeOK' /\ AtStart'
<1>1. CASE Mishap
  BY <1>1, MishapTypes, StartStep
<1>2. CASE Attempt \/ Parse \/ Check \/ JudgeType \/ Eval \/ AskOracle
  BY <1>2, CaseTypes, StartStep
<1>3. CASE SkipFile \/ OpenFile \/ SkipCase \/ CloseFile \/ Count \/ Compare
  BY <1>3, LoopTypes, StartStep
<1>4. CASE StartReport \/ StartSkipgen \/ Probe \/ ListFiles \/ LoadFails \/ WriteMarkdown
           \/ WriteSidecar \/ ListForSkips \/ Scan \/ WriteSkips
  BY <1>4, CommandTypes, StartStep
<1>5. CASE UNCHANGED vars
  BY <1>5, StutterTypes, StartStep
<1>6. QED BY <1>1, <1>2, <1>3, <1>4, <1>5 DEF Next, Step

\* A process begins with clean counts and lists, whatever the last one left.
THEOREM StartsClean == Spec => [](TypeOK /\ AtStart)
<1>1. Init => TypeOK /\ AtStart
  BY InitTypes DEF Init, AtStart
<1>2. TypeOK /\ AtStart /\ [Next]_vars => TypeOK' /\ AtStart'
  BY StepTypes
<1>3. QED BY <1>1, <1>2, PTL DEF Spec

\* Nothing that happens to the connection, the schema, the checkout or the
\* process leaves a process at a file or case that does not exist, or its counts
\* and lists malformed.
THEOREM TypeCorrect == Spec => []TypeOK
  BY StartsClean, PTL

-----------------------------------------------------------------------------
(***************************************************************************)
(* The counts. Tallies relates the four places they are kept in at every   *)
(* step of a report; a case is counted before cel-go is asked about it, so *)
(* that one divergence may still be to come.                               *)
(***************************************************************************)
Pending == IF pc \in {"oracle", "compare"} THEN 1 ELSE 0

Listed == Len(files)
Loaded == Len(parsed)
Failures == Len(lists.failures)
Named == Len(lists.skippedCases)
Divergences == Len(lists.divergences)

CaseTallies ==
  /\ totals.cases = totals.passed + totals.skipped + totals.failed + summary.cases
  /\ summary.cases = Loaded
  /\ summary.passed + summary.skipped + summary.failed + 1 = ci + Pending

ListTallies ==
  /\ Failures = totals.failed + summary.failed
  /\ IsFiniteSet(CasesOf(lists.skippedFiles))
  /\ totals.skipped + summary.skipped = InSkippedFiles + Named
  /\ Divergences + Pending
       <= totals.passed + totals.failed + summary.passed + summary.failed

FileTallies ==
  /\ totals.skippedFiles < fi
  /\ pc \in {"file", "case", "sidecar"} \cup InCase => totals.files = Listed
  /\ pc \notin {"case"} \cup InCase => ci = 1 /\ parsed = <<>> /\ summary = NoSummary

Tallies == CaseTallies /\ ListTallies /\ FileTallies

\* Entering one more skipped file adds its cases to the sum over the list.
LEMMA OneMoreFile ==
  ASSUME NEW e \in Seq([name : FileNames, cases : Nat]), IsFiniteSet(CasesOf(e)),
         NEW x \in [name : FileNames, cases : Nat]
  PROVE  /\ IsFiniteSet(CasesOf(Append(e, x)))
         /\ Cardinality(CasesOf(Append(e, x))) = Cardinality(CasesOf(e)) + x.cases
<1> DEFINE n == Len(e) + 1
           new == {n} \X (1..x.cases)
<1>1. /\ DOMAIN Append(e, x) = DOMAIN e \cup {n} /\ n \notin DOMAIN e
      /\ Append(e, x)[n] = x
      /\ \A i \in DOMAIN e : Append(e, x)[i] = e[i]
  OBVIOUS
<1>2. CasesOf(Append(e, x)) = CasesOf(e) \cup new
  <2>1. ASSUME NEW i \in DOMAIN e
        PROVE  {i} \X (1..Append(e, x)[i].cases) = {i} \X (1..e[i].cases)
    BY <1>1
  <2>2. {n} \X (1..Append(e, x)[n].cases) = new
    BY <1>1
  <2> HIDE DEF new, n
  <2>3. {{i} \X (1..Append(e, x)[i].cases) : i \in DOMAIN e \cup {n}}
          = {{i} \X (1..e[i].cases) : i \in DOMAIN e} \cup {new}
    BY <2>1, <2>2
  <2>4. QED BY <1>1, <2>3 DEF CasesOf
<1>3. CasesOf(e) \cap new = {}
  <2>1. ASSUME NEW p \in CasesOf(e), p \in new PROVE FALSE
    <3>1. PICK i \in DOMAIN e : p \in {i} \X (1..e[i].cases)
      BY <2>1 DEF CasesOf
    <3>2. p[1] = i /\ p[1] = n
      BY <2>1, <3>1
    <3>3. QED BY <1>1, <3>1, <3>2
  <2>2. QED BY <2>1
<1>4. IsFiniteSet(new) /\ Cardinality(new) = x.cases
  <2>1. x.cases \in Nat /\ n \in Nat
    OBVIOUS
  <2>2. IsFiniteSet(1..x.cases) /\ Cardinality(1..x.cases) = x.cases
    BY <2>1, FS_Interval
  <2>3. IsFiniteSet({n}) /\ Cardinality({n}) = 1
    BY FS_Singleton
  <2>4. IsFiniteSet(new) /\ Cardinality(new) = Cardinality({n}) * Cardinality(1..x.cases)
    BY <2>2, <2>3, FS_Product
  <2>5. QED BY <2>1, <2>2, <2>3, <2>4
<1>5. Cardinality(CasesOf(e)) \in Nat /\ x.cases \in Nat
  BY FS_CardinalityType
<1> HIDE DEF new, n
<1>6. /\ IsFiniteSet(CasesOf(e) \cup new)
      /\ Cardinality(CasesOf(e) \cup new) = Cardinality(CasesOf(e)) + Cardinality(new) - Cardinality({})
  <2>1. Cardinality(CasesOf(e) \cap new) = Cardinality({})
    BY <1>3
  <2>2. /\ IsFiniteSet(CasesOf(e) \cup new)
        /\ Cardinality(CasesOf(e) \cup new)
             = Cardinality(CasesOf(e)) + Cardinality(new) - Cardinality(CasesOf(e) \cap new)
    <3>1. IsFiniteSet(CasesOf(e)) /\ IsFiniteSet(new)
      BY <1>4
    <3> HIDE DEF CasesOf
    <3>2. QED BY ONLY <3>1, FS_Union
  <2>3. QED BY <2>1, <2>2
<1>7. Cardinality({}) = 0
  BY FS_EmptySet
<1>8. QED BY <1>2, <1>4, <1>5, <1>6, <1>7

\* The counts as numbers.
Numeric ==
  /\ totals.files \in Nat /\ totals.skippedFiles \in Nat /\ totals.cases \in Nat
  /\ totals.passed \in Nat /\ totals.skipped \in Nat /\ totals.failed \in Nat
  /\ summary.cases \in Nat /\ summary.passed \in Nat
  /\ summary.skipped \in Nat /\ summary.failed \in Nat
  /\ fi \in Nat /\ ci \in Nat /\ fi <= Listed + 1 /\ ci <= Loaded + 1
  /\ Listed \in Nat /\ Loaded \in Nat
  /\ Failures \in Nat /\ Named \in Nat
  /\ Divergences \in Nat

LEMMA CountsAreNumbers ==
  ASSUME TypeOK
  PROVE  Numeric
<1>1. totals \in Totals /\ summary \in Counts
  BY DEF TypeOK, ReportTypes
<1>2. /\ lists.failures \in Seq(Keys) /\ lists.skippedCases \in Seq(Keys)
      /\ lists.divergences \in Seq(DivergenceRecords)
  BY DEF TypeOK, ReportTypes, ReportLists
<1>3. /\ totals.files \in Nat /\ totals.skippedFiles \in Nat /\ totals.cases \in Nat
      /\ totals.passed \in Nat /\ totals.skipped \in Nat /\ totals.failed \in Nat
  BY <1>1 DEF Totals
<1>4. /\ summary.cases \in Nat /\ summary.passed \in Nat
      /\ summary.skipped \in Nat /\ summary.failed \in Nat
  BY <1>1 DEF Counts
<1>5. /\ files \in Seq(FileNames) /\ fi \in 1..(Len(files) + 1)
      /\ parsed \in Seq(Cases(Sections, CaseNames, Values, Types)) /\ ci \in 1..(Len(parsed) + 1)
  BY DEF TypeOK, ProcessTypes
<1>6. Len(files) \in Nat /\ Len(parsed) \in Nat
  BY <1>5
<1>7. fi \in Nat /\ ci \in Nat /\ fi <= Len(files) + 1 /\ ci <= Len(parsed) + 1
  BY <1>5, <1>6
<1>8. /\ Len(lists.failures) \in Nat /\ Len(lists.skippedCases) \in Nat
      /\ Len(lists.divergences) \in Nat
  BY <1>2
<1>9. QED BY <1>3, <1>4, <1>6, <1>7, <1>8 DEF Numeric, Listed, Loaded, Failures, Named, Divergences

LEMMA NoTallies ==
  ASSUME NEW a, NEW e, a = NoLists, e = CasesOf(a.skippedFiles)
  PROVE  IsFiniteSet(e) /\ Cardinality(e) = 0
<1>1. e = {}
  BY DEF NoLists, CasesOf
<1>2. QED BY <1>1, FS_EmptySet

LEMMA EndsTallies ==
  ASSUME NEW how, Ends(how)
  PROVE  Tallies'
<1>1. /\ pc' = "idle" /\ fi' = 1 /\ ci' = 1 /\ files' = <<>> /\ parsed' = <<>>
      /\ totals' = NoTotals /\ summary' = NoSummary /\ lists' = NoLists
  BY DEF Ends, Gone
<1>2. IsFiniteSet(CasesOf(lists.skippedFiles))' /\ InSkippedFiles' = 0
  BY <1>1, NoTallies DEF InSkippedFiles, CasesOf
<1>3. Pending' = 0
  BY <1>1 DEF Pending
<1>4. CaseTallies'
  BY <1>1, <1>3 DEF CaseTallies, Loaded, NoTotals, NoSummary
<1>5. ListTallies'
  BY <1>1, <1>2, <1>3 DEF ListTallies, Failures, Named, Divergences, NoTotals, NoSummary, NoLists
<1>6. FileTallies'
  BY <1>1 DEF FileTallies, NoTotals, InCase
<1>7. QED BY <1>4, <1>5, <1>6 DEF Tallies

\* A step that neither counts nor moves on.
LEMMA QuietTallies ==
  ASSUME Tallies, UNCHANGED <<files, fi, parsed, ci, report>>,
         Pending' = Pending,
         pc' \in {"file", "case", "sidecar"} \cup InCase => pc \in {"file", "case", "sidecar"} \cup InCase,
         pc' \notin {"case"} \cup InCase => pc \notin {"case"} \cup InCase
  PROVE  Tallies'
<1>1. CaseTallies'
  BY DEF Tallies, CaseTallies, Loaded, report
<1>2. InSkippedFiles' = InSkippedFiles /\ CasesOf(lists.skippedFiles)' = CasesOf(lists.skippedFiles)
  BY DEF report, InSkippedFiles, CasesOf
<1>3. ListTallies'
  BY <1>2 DEF Tallies, ListTallies, Failures, Named, Divergences, report
<1>4. FileTallies'
  BY DEF Tallies, FileTallies, Listed, report
<1>5. QED BY <1>1, <1>3, <1>4 DEF Tallies

LEMMA CountingTallies ==
  ASSUME TypeOK, AtStart, Tallies,
         ListFiles \/ SkipFile \/ OpenFile \/ SkipCase \/ CloseFile \/ Count \/ Compare
  PROVE  Tallies'
<1> USE DEF Tallies
<1>0. Numeric
  BY CountsAreNumbers
<1>00. InSkippedFiles \in Nat
  BY FS_CardinalityType DEF InSkippedFiles, ListTallies
<1>1. CASE ListFiles
  <2>1. CASE HasCorpus(config)
    <3>1. Pending' = Pending
      BY <1>1, <2>1 DEF ListFiles, Goes, Pending
    <3>2. CaseTallies'
      BY <1>1, <2>1, <3>1 DEF ListFiles, Loaded, CaseTallies, ReportTypes, TypeOK, Totals
    <3>3. ListTallies'
      BY <1>1, <2>1, <3>1
      DEF ListFiles, ListTallies, Failures, Named, Divergences, InSkippedFiles, CasesOf, ReportTypes, TypeOK, Totals
    <3>4. FileTallies'
      BY <1>1, <2>1 DEF ListFiles, Goes, FileTallies, Listed, InCase, ReportTypes, TypeOK, Totals
    <3>5. QED BY <3>2, <3>3, <3>4
  <2>2. QED BY <1>1, <2>1, EndsTallies DEF ListFiles
<1>2. CASE SkipFile
  <2> DEFINE n == Len(checkout.tests[File])
             entry == [name |-> File, cases |-> n]
  <2>1. File \in FileNames /\ n \in Nat
    BY <1>2, AtFile, CheckoutTypes DEF SkipFile, TypeOK
  <2>2. n \in Nat /\ Pending = 0 /\ Pending' = 0
        /\ UNCHANGED <<summary, pc, Loaded, ci, Listed>> /\ fi' = fi + 1
    BY <1>2, <2>1 DEF SkipFile, Pending, Listed, Loaded
  <2>3. /\ totals'.cases = totals.cases + n /\ totals'.skipped = totals.skipped + n
        /\ totals'.skippedFiles = totals.skippedFiles + 1
        /\ totals'.passed = totals.passed /\ totals'.failed = totals.failed /\ totals'.files = totals.files
    BY <1>2 DEF SkipFile, TypeOK, ReportTypes, Totals
  <2>4. lists' = [lists EXCEPT !.skippedFiles = Append(@, entry)]
    BY <1>2 DEF SkipFile
  <2>5. lists'.skippedFiles = Append(lists.skippedFiles, entry)
    BY <2>4 DEF TypeOK, ReportTypes, ReportLists
  <2>6. UNCHANGED <<Failures, Named, Divergences>>
    BY <2>4 DEF TypeOK, ReportTypes, ReportLists, Failures, Named, Divergences
  <2>7. entry \in [name : FileNames, cases : Nat] /\ entry.cases = n
    BY <2>1
  <2>8. lists.skippedFiles \in Seq([name : FileNames, cases : Nat])
    BY DEF TypeOK, ReportTypes, ReportLists
  <2> HIDE DEF n, entry
  <2>9. IsFiniteSet(CasesOf(lists'.skippedFiles))
        /\ Cardinality(CasesOf(lists'.skippedFiles)) = InSkippedFiles + n
    BY <2>5, <2>7, <2>8, OneMoreFile DEF InSkippedFiles, ListTallies
  <2>10. IsFiniteSet(CasesOf(lists.skippedFiles))' /\ InSkippedFiles' = InSkippedFiles + n
    BY <2>9 DEF InSkippedFiles, CasesOf
  <2>11. CaseTallies'
    BY <1>0, <2>2, <2>3 DEF CaseTallies, Numeric
  <2>12. ListTallies'
    <3>1. totals.skipped + summary.skipped = InSkippedFiles + Named
      BY DEF ListTallies
    <3>2. totals'.skipped + summary'.skipped = InSkippedFiles' + Named'
      BY <1>0, <1>00, <2>2, <2>3, <2>6, <2>10, <3>1 DEF Numeric
    <3>3. QED BY <1>0, <2>2, <2>3, <2>6, <2>10, <3>2 DEF ListTallies, Numeric
  <2>13. FileTallies'
    <3>1. totals'.skippedFiles < fi'
      BY <1>0, <2>2, <2>3 DEF FileTallies, Numeric
    <3>2. QED BY <1>2, <2>2, <2>3, <3>1 DEF SkipFile, FileTallies
  <2>14. QED BY <2>11, <2>12, <2>13
<1>3. CASE OpenFile
  <2> DEFINE n == Len(checkout.tests[File])
  <2>1. n \in Nat
    BY <1>3, AtFile, CheckoutTypes DEF OpenFile, TypeOK
  <2>2. /\ Pending = 0 /\ Pending' = 0 /\ summary = NoSummary
        /\ pc' = "case" /\ ci' = 1 /\ Loaded' = n
        /\ UNCHANGED <<lists, Failures, Named, Divergences, Listed, fi>>
    BY <1>3 DEF OpenFile, Pending, Goes, FileTallies, InCase, Listed, Loaded, Failures, Named, Divergences
  <2>3. /\ totals'.cases = totals.cases + n /\ totals'.skipped = totals.skipped
        /\ totals'.skippedFiles = totals.skippedFiles
        /\ totals'.passed = totals.passed /\ totals'.failed = totals.failed /\ totals'.files = totals.files
    BY <1>3 DEF OpenFile, TypeOK, ReportTypes, Totals
  <2>4. /\ summary'.cases = n /\ summary'.passed = 0 /\ summary'.skipped = 0 /\ summary'.failed = 0
        /\ summary.cases = 0 /\ summary.passed = 0 /\ summary.skipped = 0 /\ summary.failed = 0
    BY <1>3, <2>2 DEF OpenFile, NoSummary
  <2> HIDE DEF n
  <2>5. CaseTallies'
    BY <1>0, <2>1, <2>2, <2>3, <2>4 DEF CaseTallies, Numeric
  <2>6. InSkippedFiles' = InSkippedFiles /\ CasesOf(lists.skippedFiles)' = CasesOf(lists.skippedFiles)
    BY <2>2 DEF InSkippedFiles, CasesOf
  <2>7. ListTallies'
    BY <1>0, <1>00, <2>1, <2>2, <2>3, <2>4, <2>6 DEF ListTallies, Numeric
  <2>8. FileTallies'
    BY <1>0, <1>3, <2>2, <2>3 DEF OpenFile, FileTallies, Numeric
  <2>9. QED BY <2>5, <2>7, <2>8
<1>4. CASE SkipCase
  <2>1. /\ Pending = 0 /\ Pending' = 0 /\ ci' = ci + 1
        /\ UNCHANGED <<pc, totals, Listed, fi, parsed, Loaded>>
    BY <1>4 DEF SkipCase, Pending, Loaded, Listed
  <2>2. /\ summary'.skipped = summary.skipped + 1 /\ summary'.cases = summary.cases
        /\ summary'.passed = summary.passed /\ summary'.failed = summary.failed
    BY <1>4 DEF SkipCase, TypeOK, ReportTypes, Counts
  <2>3. /\ Named' = Named + 1 /\ UNCHANGED <<Failures, Divergences>>
        /\ lists'.skippedFiles = lists.skippedFiles
    BY <1>4 DEF SkipCase, TypeOK, ReportTypes, ReportLists, Failures, Named, Divergences
  <2>4. CaseTallies'
    BY <1>0, <2>1, <2>2 DEF CaseTallies, Numeric
  <2>5. InSkippedFiles' = InSkippedFiles /\ CasesOf(lists.skippedFiles)' = CasesOf(lists.skippedFiles)
    BY <2>3 DEF InSkippedFiles, CasesOf
  <2>7. ListTallies'
    <3>1. totals.skipped + summary.skipped = InSkippedFiles + Named
      BY DEF ListTallies
    <3>2. totals'.skipped + summary'.skipped = InSkippedFiles' + Named'
      BY <1>0, <1>00, <2>1, <2>2, <2>3, <2>5, <3>1 DEF Numeric
    <3>3. QED BY <1>0, <2>1, <2>2, <2>3, <2>5, <3>2 DEF ListTallies, Numeric
  <2>8. FileTallies'
    BY <1>0, <1>4, <2>1 DEF SkipCase, FileTallies, Numeric
  <2>9. QED BY <2>4, <2>7, <2>8
<1>5. CASE CloseFile
  <2>1. /\ Pending = 0 /\ Pending' = 0 /\ ci = Loaded + 1
        /\ Loaded' = 0 /\ ci' = 1 /\ fi' = fi + 1 /\ Listed' = Listed
    BY <1>0, <1>5 DEF CloseFile, Pending, Goes, MoreCases, Loaded, Listed, Numeric
  <2>2. /\ totals'.cases = totals.cases /\ totals'.skipped = totals.skipped + summary.skipped
        /\ totals'.skippedFiles = totals.skippedFiles
        /\ totals'.passed = totals.passed + summary.passed
        /\ totals'.failed = totals.failed + summary.failed /\ totals'.files = totals.files
    BY <1>5 DEF CloseFile, TypeOK, ReportTypes, Totals
  <2>3. summary'.cases = 0 /\ summary'.passed = 0 /\ summary'.skipped = 0 /\ summary'.failed = 0
    BY <1>5 DEF CloseFile, NoSummary
  <2>4. /\ lists'.skippedFiles = lists.skippedFiles
        /\ UNCHANGED <<Failures, Named, Divergences>>
    BY <1>5 DEF CloseFile, TypeOK, ReportTypes, ReportLists, Failures, Named, Divergences
  <2>5. CaseTallies'
    BY <1>0, <2>1, <2>2, <2>3 DEF CaseTallies, Numeric
  <2>6. InSkippedFiles' = InSkippedFiles /\ CasesOf(lists.skippedFiles)' = CasesOf(lists.skippedFiles)
    BY <2>4 DEF InSkippedFiles, CasesOf
  <2>7. ListTallies'
    <3>1. totals.skipped + summary.skipped = InSkippedFiles + Named
      BY DEF ListTallies
    <3>2. totals'.skipped + summary'.skipped = InSkippedFiles' + Named'
      BY <1>0, <1>00, <2>2, <2>3, <2>4, <2>6, <3>1 DEF Numeric
    <3>3. totals'.failed + summary'.failed = totals.failed + summary.failed
          /\ totals'.passed + summary'.passed = totals.passed + summary.passed
      BY <1>0, <2>2, <2>3 DEF Numeric
    <3>4. QED BY <1>0, <2>1, <2>2, <2>3, <2>4, <2>6, <3>2, <3>3 DEF ListTallies, Numeric
  <2>8. FileTallies'
    <3>1. totals.skippedFiles < fi /\ totals.files = Listed
      BY <1>5 DEF CloseFile, FileTallies
    <3>2. pc' = "file" /\ ci' = 1 /\ parsed' = <<>> /\ summary' = NoSummary
      BY <1>5 DEF CloseFile, Goes
    <3>3. QED BY <1>0, <2>1, <2>2, <3>1, <3>2 DEF FileTallies, Numeric
  <2>9. QED BY <2>5, <2>7, <2>8
<1>6. CASE Count
  <2>1. /\ Pending = 0 /\ Pending' = 1 /\ pc' = "oracle"
        /\ UNCHANGED <<totals, Listed, fi, parsed, Loaded, ci>>
    BY <1>6 DEF Count, Pending, Goes, Loaded, Listed
  <2>2. /\ lists'.skippedFiles = lists.skippedFiles /\ UNCHANGED <<Named, Divergences>>
    BY <1>6 DEF Count, TypeOK, ReportTypes, ReportLists, Named, Divergences
  <2>3. /\ summary'.cases = summary.cases /\ summary'.skipped = summary.skipped
        /\ \/ /\ summary'.failed = summary.failed + 1 /\ summary'.passed = summary.passed
              /\ Failures' = Failures + 1
           \/ /\ summary'.failed = summary.failed /\ summary'.passed = summary.passed + 1
              /\ Failures' = Failures
    <3>1. CASE got = "Failed"
      <4>1. Failures' = Failures + 1
        BY <1>6, <3>1 DEF Count, TypeOK, ReportTypes, ReportLists, Failures
      <4>2. QED BY <1>6, <3>1, <4>1 DEF Count, TypeOK, ReportTypes, Counts
    <3>2. CASE got # "Failed"
      <4>1. Failures' = Failures
        BY <1>6, <3>2 DEF Count, Failures
      <4>2. QED BY <1>6, <3>2, <4>1 DEF Count, TypeOK, ReportTypes, Counts
    <3>3. QED BY <3>1, <3>2
  <2>4. CaseTallies'
    BY <1>0, <2>1, <2>3 DEF CaseTallies, Numeric
  <2>5. InSkippedFiles' = InSkippedFiles /\ CasesOf(lists.skippedFiles)' = CasesOf(lists.skippedFiles)
    BY <2>2 DEF InSkippedFiles, CasesOf
  <2>6. ListTallies'
    BY <1>0, <1>00, <2>1, <2>2, <2>3, <2>5 DEF ListTallies, Numeric
  <2>7. FileTallies'
    BY <1>0, <1>6, <2>1 DEF Count, FileTallies, InCase, Numeric
  <2>8. QED BY <2>4, <2>6, <2>7
<1>7. CASE Compare
  <2>1. /\ Pending = 1 /\ Pending' = 0 /\ pc' = "case" /\ ci' = ci + 1
        /\ UNCHANGED <<totals, summary, Listed, fi, parsed, Loaded>>
    BY <1>7 DEF Compare, Pending, Goes, Loaded, Listed
  <2>2. /\ lists'.skippedFiles = lists.skippedFiles /\ UNCHANGED <<Failures, Named>>
    BY <1>7 DEF Compare, TypeOK, ReportTypes, ReportLists, Failures, Named
  <2>3. Divergences' = Divergences \/ Divergences' = Divergences + 1
    <3>1. CASE reference = got
      BY <1>7, <3>1 DEF Compare, Divergences
    <3>2. CASE reference # got
      BY <1>7, <3>2 DEF Compare, TypeOK, ReportTypes, ReportLists, Divergences
    <3>3. QED BY <3>1, <3>2
  <2>4. CaseTallies'
    BY <1>0, <2>1 DEF CaseTallies, Numeric
  <2>5. InSkippedFiles' = InSkippedFiles /\ CasesOf(lists.skippedFiles)' = CasesOf(lists.skippedFiles)
    BY <2>2 DEF InSkippedFiles, CasesOf
  <2>6. ListTallies'
    BY <1>0, <1>00, <2>1, <2>2, <2>3, <2>5 DEF ListTallies, Numeric
  <2>7. FileTallies'
    BY <1>0, <1>7, <2>1 DEF Compare, FileTallies, InCase, Numeric
  <2>8. QED BY <2>4, <2>6, <2>7
<1>8. QED BY <1>1, <1>2, <1>3, <1>4, <1>5, <1>6, <1>7

LEMMA TalliesStep ==
  ASSUME TypeOK, AtStart, Tallies, [Next]_vars
  PROVE  Tallies'
<1>1. ASSUME NEW how, Ends(how) PROVE Tallies'
  BY <1>1, EndsTallies
<1>2. CASE ListFiles \/ SkipFile \/ OpenFile \/ SkipCase \/ CloseFile \/ Count \/ Compare
  BY <1>2, CountingTallies
<1>3. CASE StartReport
  <2>1. CASE Goes("probe") /\ Keeps
    BY <1>3, <2>1, QuietTallies DEF StartReport, Goes, Keeps, Pending, InCase
  <2>2. QED BY <1>1, <1>3, <2>1 DEF StartReport
<1>4. CASE StartSkipgen
  <2>1. CASE Goes("list") /\ Keeps
    BY <1>4, <2>1, QuietTallies DEF StartSkipgen, Goes, Keeps, Pending, InCase
  <2>2. QED BY <1>1, <1>4, <2>1 DEF StartSkipgen
<1>5. CASE Probe
  <2>1. CASE linked
    BY <1>5, <2>1, QuietTallies DEF Probe, Goes, Pending, InCase
  <2>2. QED BY <1>1, <1>5, <2>1 DEF Probe
<1>6. CASE LoadFails \/ WriteSidecar \/ WriteSkips
  BY <1>1, <1>6 DEF LoadFails, WriteSidecar, WriteSkips
<1>7. CASE Attempt \/ WriteMarkdown
  BY <1>7, QuietTallies DEF Attempt, WriteMarkdown, Goes, Pending, InCase
<1>8. CASE Parse \/ Check \/ JudgeType \/ Eval
  <2>1. pc \in {"parse", "check", "type", "eval"} /\ pc' \in {"check", "type", "eval", "judged"}
    BY <1>8 DEF Parse, Check, JudgeType, Eval, Unanswered, Judged, JudgedRefused, AfterCheck, Goes
  <2>2. UNCHANGED <<files, fi, parsed, ci, report>>
    BY <1>8 DEF Parse, Check, JudgeType, Eval
  <2>3. QED BY <2>1, <2>2, QuietTallies DEF Pending, InCase
<1>9. CASE AskOracle
  BY <1>9, QuietTallies DEF AskOracle, Goes, Pending, InCase
<1>10. CASE ListForSkips \/ (Scan /\ ~(File \notin SkippedFiles /\ Missing(File)))
  <2>1. /\ Pending = 0 /\ Pending' = 0 /\ pc' = "scan" /\ pc \in {"list", "scan"}
        /\ UNCHANGED <<parsed, ci, report>> /\ (fi' = fi \/ fi' = fi + 1)
    BY <1>10 DEF ListForSkips, Scan, Goes, Pending
  <2>2. fi \in Nat /\ totals.skippedFiles \in Nat /\ totals.skippedFiles < fi
    BY CountsAreNumbers DEF Numeric, Tallies, FileTallies
  <2>3. totals'.skippedFiles < fi'
    BY <2>1, <2>2 DEF report
  <2>4. FileTallies'
    BY <2>1, <2>3 DEF Tallies, FileTallies, InCase, report
  <2>5. CaseTallies'
    BY <2>1 DEF Tallies, CaseTallies, Loaded, report
  <2>6. InSkippedFiles' = InSkippedFiles /\ CasesOf(lists.skippedFiles)' = CasesOf(lists.skippedFiles)
    BY <2>1 DEF report, InSkippedFiles, CasesOf
  <2>7. ListTallies'
    BY <2>1, <2>6 DEF Tallies, ListTallies, Failures, Named, Divergences, report
  <2>8. QED BY <2>4, <2>5, <2>7 DEF Tallies
<1>11. CASE Scan /\ File \notin SkippedFiles /\ Missing(File)
  BY <1>1, <1>11 DEF Scan
<1>12. CASE Mishap
  <2>1. CASE UNCHANGED <<process, report>>
    BY <2>1, QuietTallies DEF process, Pending
  <2>2. QED BY <1>1, <1>12, <2>1 DEF Mishap, LoseConnection, Reinstall, MoveCheckout, Interrupt
<1>13. CASE UNCHANGED vars
  BY <1>13, QuietTallies DEF vars, process, Pending
<1>14. QED
  BY <1>2, <1>3, <1>4, <1>5, <1>6, <1>7, <1>8, <1>9, <1>10, <1>11, <1>12, <1>13 DEF Next, Step

\* Whenever no case is open the figures of the report add up.
LEMMA FiguresAddUp ==
  ASSUME TypeOK, Tallies, pc \in {"file", "sidecar"}
  PROVE  AddsUp(Figures)
<1>0. Numeric
  BY CountsAreNumbers
<1>1. InSkippedFiles \in Nat
  BY FS_CardinalityType DEF InSkippedFiles, Tallies, ListTallies
<1>2. Pending = 0 /\ summary = NoSummary /\ totals.files = Listed /\ totals.skippedFiles < fi
  BY DEF Pending, Tallies, FileTallies, InCase
<1>3. summary.cases = 0 /\ summary.passed = 0 /\ summary.skipped = 0 /\ summary.failed = 0
  BY <1>2 DEF NoSummary
<1>4. totals.cases = totals.passed + totals.skipped + totals.failed
  BY <1>0, <1>3 DEF Tallies, CaseTallies, Numeric
<1>5. totals.skipped = InSkippedFiles + Named
  BY <1>0, <1>1, <1>3 DEF Tallies, ListTallies, Numeric
<1>6. Failures = totals.failed
  BY <1>0, <1>3 DEF Tallies, ListTallies, Numeric
<1>7. Divergences <= totals.passed + totals.failed
  BY <1>0, <1>2, <1>3 DEF Tallies, ListTallies, Numeric
<1>8. totals.files - totals.skippedFiles >= 0
  BY <1>0, <1>2 DEF Numeric
<1>9. totals.cases = (totals.passed + totals.failed) + totals.skipped
  BY <1>0, <1>4 DEF Numeric
<1>10. QED
  BY <1>5, <1>6, <1>7, <1>8, <1>9 DEF AddsUp, Figures, Failures, Named, Divergences

LEMMA AddsUpStep ==
  ASSUME TypeOK, Tallies, ReportAddsUp, [Next]_vars
  PROVE  ReportAddsUp'
<1>1. CASE UNCHANGED <<md, json>>
  BY <1>1 DEF ReportAddsUp, AddsUp
<1>2. CASE WriteMarkdown
  <2>1. md'.numbers = {Figures} /\ json' = json
    BY <1>2 DEF WriteMarkdown, Document
  <2>2. AddsUp(Figures)
    BY <1>2, FiguresAddUp DEF WriteMarkdown
  <2>3. QED BY <2>1, <2>2 DEF ReportAddsUp, AddsUp
<1>3. CASE WriteSidecar
  <2>1. json'.numbers = {Figures} /\ md' = md
    BY <1>3 DEF WriteSidecar, Document
  <2>2. AddsUp(Figures)
    BY <1>3, FiguresAddUp DEF WriteSidecar
  <2>3. QED BY <2>1, <2>2 DEF ReportAddsUp, AddsUp
<1>4. CASE Interrupt
  <2>1. md' \in {md, Torn} /\ json' \in {json, Torn}
    BY <1>4 DEF Interrupt
  <2>2. Torn.numbers = {}
    BY DEF Torn
  <2>3. QED BY <2>1, <2>2 DEF ReportAddsUp, AddsUp
<1>5. CASE StartReport \/ StartSkipgen \/ Probe \/ ListFiles \/ LoadFails \/ SkipFile \/ OpenFile
           \/ SkipCase \/ Attempt \/ CloseFile
  BY <1>1, <1>5 DEF StartReport, StartSkipgen, Probe, ListFiles, LoadFails, SkipFile, OpenFile, SkipCase,
     Attempt, CloseFile, documents
<1>6. CASE Parse \/ Check \/ JudgeType \/ Eval \/ Count \/ AskOracle \/ Compare
  BY <1>1, <1>6 DEF Parse, Check, JudgeType, Eval, Count, AskOracle, Compare, documents
<1>7. CASE ListForSkips \/ Scan \/ WriteSkips
  BY <1>1, <1>7 DEF ListForSkips, Scan, WriteSkips, documents
<1>8. CASE LoseConnection \/ Reinstall \/ MoveCheckout
  BY <1>1, <1>8 DEF LoseConnection, Reinstall, MoveCheckout, documents
<1>9. CASE UNCHANGED vars
  BY <1>1, <1>9 DEF vars, documents
<1>10. QED
  BY <1>2, <1>3, <1>4, <1>5, <1>6, <1>7, <1>8, <1>9 DEF Next, Step, Mishap

\* Every published report adds up, whatever happened while it was made: each
\* case is attempted, in a skipped file or skipped by name, and the lists have as
\* many entries as the totals say.
THEOREM PublishedAddsUp == Spec => []ReportAddsUp
<1>1. Init => TypeOK /\ AtStart
  BY InitTypes DEF Init, AtStart
<1>2. Init => Tallies
  <2> SUFFICES ASSUME Init PROVE Tallies
    OBVIOUS
  <2>1. Pending = 0
    BY DEF Init, Pending
  <2>2. IsFiniteSet(CasesOf(lists.skippedFiles)) /\ InSkippedFiles = 0
    BY NoTallies DEF Init, InSkippedFiles
  <2>3. CaseTallies
    BY <2>1 DEF Init, CaseTallies, Loaded, NoTotals, NoSummary
  <2>4. ListTallies
    BY <2>1, <2>2 DEF Init, ListTallies, Failures, Named, Divergences, NoTotals, NoSummary, NoLists
  <2>5. FileTallies
    BY DEF Init, FileTallies, NoTotals, InCase
  <2>6. QED BY <2>3, <2>4, <2>5 DEF Tallies
<1>3. Init => ReportAddsUp
  BY DEF Init, ReportAddsUp, NoDocument
<1>4. TypeOK /\ AtStart /\ Tallies /\ ReportAddsUp /\ [Next]_vars
        => TypeOK' /\ AtStart' /\ Tallies' /\ ReportAddsUp'
  BY StepTypes, TalliesStep, AddsUpStep
<1>5. QED BY <1>1, <1>2, <1>3, <1>4, PTL DEF Spec

-----------------------------------------------------------------------------
(***************************************************************************)
(* The two documents.                                                      *)
(***************************************************************************)
\* Between the two writes the first document is that of the figures in memory.
SidecarToCome == pc = "sidecar" => md = Document

LEMMA PublishStep ==
  ASSUME SidecarToCome, PublishedTogether, [Next]_vars
  PROVE  SidecarToCome' /\ PublishedTogether'
<1>1. ASSUME NEW how, Ends(how), how # "written"
      PROVE  SidecarToCome' /\ PublishedTogether'
  BY <1>1 DEF Ends, SidecarToCome, PublishedTogether
<1>2. CASE StartReport \/ StartSkipgen \/ Probe \/ ListFiles \/ LoadFails
  BY <1>1, <1>2 DEF StartReport, StartSkipgen, Probe, ListFiles, LoadFails, Goes, SidecarToCome, PublishedTogether
<1>3. CASE SkipFile \/ OpenFile \/ SkipCase \/ Attempt \/ CloseFile
  BY <1>3 DEF SkipFile, OpenFile, SkipCase, Attempt, CloseFile, Goes, SidecarToCome, PublishedTogether
<1>4. CASE Parse \/ Check \/ JudgeType \/ Eval
  BY <1>4 DEF Parse, Check, JudgeType, Eval, Unanswered, Judged, JudgedRefused, AfterCheck, Goes,
     SidecarToCome, PublishedTogether
<1>5. CASE Count \/ AskOracle \/ Compare
  BY <1>5 DEF Count, AskOracle, Compare, Goes, SidecarToCome, PublishedTogether
<1>6. CASE WriteMarkdown
  <2>1. pc' = "sidecar" /\ md' = Document /\ UNCHANGED <<totals, lists, runs>>
    BY <1>6 DEF WriteMarkdown, Goes, report
  <2>2. Document' = Document
    BY <2>1 DEF Document, Figures, InSkippedFiles, CasesOf
  <2>3. QED BY <2>1, <2>2 DEF SidecarToCome, PublishedTogether
<1>7. CASE WriteSidecar
  <2>1. pc' = "idle" /\ json' = Document /\ md' = md /\ md = Document
    BY <1>7 DEF WriteSidecar, Ends, SidecarToCome
  <2>2. md'.numbers # {} /\ md'.run = json'.run
    BY <2>1 DEF Document
  <2>3. QED BY <2>1, <2>2 DEF SidecarToCome, PublishedTogether
<1>8. CASE ListForSkips \/ Scan \/ WriteSkips
  BY <1>1, <1>8 DEF ListForSkips, Scan, WriteSkips, Goes, SidecarToCome, PublishedTogether
<1>9. CASE Interrupt
  BY <1>1, <1>9 DEF Interrupt
<1>10. CASE LoseConnection \/ Reinstall \/ MoveCheckout \/ UNCHANGED vars
  <2>1. UNCHANGED <<pc, exit, md, json, totals, lists, runs>>
    BY <1>10 DEF LoseConnection, Reinstall, MoveCheckout, vars, documents, process, report
  <2>2. Document' = Document
    BY <2>1 DEF Document, Figures, InSkippedFiles, CasesOf
  <2>3. QED BY <2>1, <2>2 DEF SidecarToCome, PublishedTogether
<1>11. QED
  BY <1>2, <1>3, <1>4, <1>5, <1>6, <1>7, <1>8, <1>9, <1>10 DEF Next, Step, Mishap

\* After a run that ended well both documents are of that run, whatever an earlier
\* one left half written.
THEOREM BothPublished == Spec => []PublishedTogether
<1>1. Init => SidecarToCome /\ PublishedTogether
  BY DEF Init, SidecarToCome, PublishedTogether
<1>2. SidecarToCome /\ PublishedTogether /\ [Next]_vars => SidecarToCome' /\ PublishedTogether'
  BY PublishStep
<1>3. QED BY <1>1, <1>2, PTL DEF Spec

-----------------------------------------------------------------------------
(***************************************************************************)
(* The verdict of the database's side.                                     *)
(***************************************************************************)
AstShape == ast \in {None, Parsed, Rejected} \/ \E t \in Types : ast = Checked(t)

\* The call that comes next fits what the calls before it left.
CallFits ==
  /\ pc = "type" => Tc.check_only /\ ast.state \in {"parsed", "checked"}
  /\ pc = "eval" => ~ Tc.check_only /\ ast.state \in {"parsed", "checked"}

Evidence == AstShape /\ CallFits /\ PassedOnEvidence

LEMMA StillEvidence ==
  ASSUME Evidence, UNCHANGED <<pc, ast, value, got, parsed, ci>>
  PROVE  Evidence'
<1>1. Tc' = Tc
  BY DEF Tc
<1>2. AstShape'
  BY DEF Evidence, AstShape
<1>3. CallFits'
  BY <1>1 DEF Evidence, CallFits
<1>4. PassedOnEvidence'
  BY <1>1 DEF Evidence, PassedOnEvidence, expectsError, hasTypedResult
<1>5. QED BY <1>2, <1>3, <1>4 DEF Evidence

LEMMA NoVerdict ==
  ASSUME AstShape', pc' \notin {"type", "eval", "judged", "oracle", "compare"}
  PROVE  Evidence'
  BY DEF Evidence, CallFits, PassedOnEvidence

LEMMA EvidenceStep ==
  ASSUME TypeOK, Evidence, [Next]_vars
  PROVE  Evidence'
<1>1. ASSUME NEW how, Ends(how) PROVE Evidence'
  BY <1>1, NoVerdict DEF Ends, Gone, Forget, AstShape
<1>2. CASE StartReport \/ StartSkipgen \/ Probe \/ ListFiles \/ LoadFails
  <2>1. CASE \E how : Ends(how)
    BY <1>1, <2>1
  <2>2. CASE ast' = ast /\ pc' \in {"probe", "list", "files", "file"}
    BY <2>2, NoVerdict DEF Evidence, AstShape
  <2>3. QED
    BY <1>2, <2>1, <2>2 DEF StartReport, StartSkipgen, Probe, ListFiles, LoadFails, Goes, Keeps, attempt
<1>3. CASE SkipFile \/ OpenFile \/ SkipCase \/ Attempt \/ CloseFile
  <2>1. ast' = ast /\ pc' \in {"file", "case", "parse"}
    BY <1>3 DEF SkipFile, OpenFile, SkipCase, Attempt, CloseFile, Goes, attempt
  <2>2. QED BY <2>1, NoVerdict DEF Evidence, AstShape
<1>4. CASE Parse \/ Check \/ JudgeType \/ Eval
  <2>1. Tc' = Tc /\ (~ expectsError(Tc))' = (~ expectsError(Tc)) /\ hasTypedResult(Tc)' = hasTypedResult(Tc)
    BY <1>4 DEF Parse, Check, JudgeType, Eval, Tc, expectsError, hasTypedResult
  <2>2. Tc.matcher \in Matchers
    <3>1. More /\ MoreCases
      BY <1>4 DEF TypeOK, ProcessTypes, InCase, Parse, Check, JudgeType, Eval
    <3>2. QED BY <3>1, AtCase DEF TypeOK, Cases
  <2>3. CASE Unanswered
    <3>1. UNCHANGED <<ast, value>> /\ got' = "Failed" /\ pc' = "judged"
      BY <2>3 DEF Unanswered, Judged, Goes
    <3>2. QED BY <3>1 DEF Evidence, AstShape, CallFits, PassedOnEvidence
  <2>4. CASE ast' = Rejected /\ JudgedRefused
    <3>1. pc' = "judged" /\ got' = IF expectsError(Tc) THEN "Passed" ELSE "Failed"
      BY <2>4 DEF JudgedRefused, Judged, Goes
    <3>2. PassedOnEvidence'
      BY <2>1, <2>4, <3>1 DEF PassedOnEvidence, Rejected, hasTypedResult, expectsError
    <3>3. QED BY <2>4, <3>1, <3>2 DEF Evidence, AstShape, CallFits
  <2>5. CASE /\ ast' = Parsed \/ \E t \in Types : ast' = Checked(t)
             /\ pc' \in {"check", AfterCheck}
    <3>1. ast'.state \in {"parsed", "checked"}
      BY <2>5 DEF Parsed, Checked
    <3>2. AstShape'
      BY <2>5 DEF AstShape
    <3>3. CallFits'
      BY <2>1, <2>5, <3>1 DEF CallFits, AfterCheck
    <3>4. QED BY <2>5, <3>2, <3>3 DEF Evidence, PassedOnEvidence, AfterCheck
  <2>6. CASE JudgeType
    <3>1. pc' = "judged" /\ ast' = ast /\ Tc.check_only /\ ast.state \in {"parsed", "checked"}
      BY <2>6 DEF JudgeType, Judged, Goes, Evidence, CallFits
    <3>2. got' = "Passed" => hasTypedResult(Tc) /\ ast.state = "checked" /\ ast.type = Tc.type
      BY <2>6 DEF JudgeType, Judged, compareDeducedType
    <3>3. ast.state = "checked" /\ ast.type = Tc.type => ast = Checked(Tc.type)
      BY DEF Evidence, AstShape, Checked, None, Parsed, Rejected
    <3>4. PassedOnEvidence'
      BY <2>1, <3>1, <3>2, <3>3 DEF PassedOnEvidence, hasTypedResult, expectsError, Checked
    <3>5. QED BY <3>1, <3>4 DEF Evidence, AstShape, CallFits
  <2>7. CASE Eval /\ ~ Unanswered
    <3>1. PICK v \in Values : value' = v /\ got' = JudgeValue(v, ast, Tc)
      BY <2>7 DEF Eval, Judged
    <3>2. pc' = "judged" /\ ast' = ast /\ ~ Tc.check_only /\ ast.state \in {"parsed", "checked"}
      BY <2>7 DEF Eval, Judged, Goes, Evidence, CallFits
    <3>3. got' = "Passed" => compareResult(v, Tc) /\ (hasTypedResult(Tc) => compareDeducedType(ast, Tc))
      BY <3>1 DEF JudgeValue
    <3>4. compareResult(v, Tc) =>
            /\ expectsError(Tc) => v = "error"
            /\ ~ expectsError(Tc) => v = (IF Tc.matcher = "default" THEN "true" ELSE Tc.want)
      BY <2>2 DEF compareResult, expectsError, Matchers
    <3>5. compareDeducedType(ast, Tc) => ast = Checked(Tc.type)
      BY DEF compareDeducedType, Evidence, AstShape, Checked, None, Parsed, Rejected
    <3>6. PassedOnEvidence'
      BY <2>1, <3>1, <3>2, <3>3, <3>4, <3>5 DEF PassedOnEvidence, hasTypedResult, expectsError
    <3>7. QED BY <3>2, <3>6 DEF Evidence, AstShape, CallFits
  <2>8. QED
    BY <1>4, <2>3, <2>4, <2>5, <2>6, <2>7 DEF Parse, Check, Eval, Goes, AfterCheck
<1>5. CASE Count \/ AskOracle
  <2>1. /\ UNCHANGED <<ast, value, got, parsed, ci>> /\ pc \in {"judged", "oracle"}
        /\ pc' \in {"oracle", "compare"}
    BY <1>5 DEF Count, AskOracle, Goes, attempt
  <2>2. Tc' = Tc
    BY <2>1 DEF Tc
  <2>3. PassedOnEvidence'
    BY <2>1, <2>2 DEF Evidence, PassedOnEvidence, expectsError, hasTypedResult
  <2>4. QED BY <2>1, <2>3 DEF Evidence, AstShape, CallFits
<1>6. CASE Compare
  BY <1>6, NoVerdict DEF Compare, Goes, Forget, AstShape
<1>7. CASE WriteMarkdown \/ WriteSidecar \/ ListForSkips \/ WriteSkips
  <2>1. CASE \E how : Ends(how)
    BY <1>1, <2>1
  <2>2. CASE ast' = ast /\ pc' \in {"sidecar", "scan"}
    BY <2>2, NoVerdict DEF Evidence, AstShape
  <2>3. QED
    BY <1>7, <2>1, <2>2 DEF WriteMarkdown, WriteSidecar, ListForSkips, WriteSkips, Goes, attempt
<1>8. CASE Scan
  <2>1. CASE File \notin SkippedFiles /\ Missing(File)
    BY <1>1, <1>8, <2>1 DEF Scan
  <2>2. CASE ~(File \notin SkippedFiles /\ Missing(File))
    BY <1>8, <2>2, NoVerdict DEF Scan, attempt, Evidence, AstShape
  <2>3. QED BY <2>1, <2>2
<1>9. CASE Interrupt
  BY <1>1, <1>9 DEF Interrupt
<1>10. CASE LoseConnection \/ Reinstall \/ MoveCheckout \/ UNCHANGED vars
  BY <1>10, StillEvidence DEF LoseConnection, Reinstall, MoveCheckout, vars, process, attempt
<1>11. QED
  BY <1>2, <1>3, <1>4, <1>5, <1>6, <1>7, <1>8, <1>9, <1>10 DEF Next, Step, Mishap

\* A case passes on what the database answered: no lost connection, missing
\* function or exception is ever taken for the error that the case expects.
THEOREM Evidenced == Spec => []PassedOnEvidence
<1>1. Init => Evidence
  BY DEF Init, Evidence, AstShape, CallFits, PassedOnEvidence
<1>2. TypeOK /\ Evidence /\ [Next]_vars => Evidence'
  BY EvidenceStep
<1>3. Evidence => PassedOnEvidence
  BY DEF Evidence
<1>4. QED BY <1>1, <1>2, <1>3, TypeCorrect, PTL DEF Spec

-----------------------------------------------------------------------------
(***************************************************************************)
(* The two sides of a case.                                                *)
(***************************************************************************)
\* Nothing is left of an earlier case, and each verdict is one of four: that of
\* a refused expression, of a call that was not answered, of a type, of a value.
Unstarted == ast = None /\ value = "none"

ByRefusal == /\ ast = Rejected /\ value = "none"
             /\ got = IF expectsError(Tc) THEN "Passed" ELSE "Failed"
ByFault == /\ got = "Failed" /\ value = "none" /\ ast.state # "rejected"
           /\ Tc.check_only => ast \in {None, Parsed}
ByType == /\ Tc.check_only /\ value = "none" /\ ast.state # "rejected"
          /\ got = IF compareDeducedType(ast, Tc) THEN "Passed" ELSE "Failed"
ByValue == ~ Tc.check_only /\ ast.state # "rejected" /\ got = JudgeValue(value, ast, Tc)

Verdict == ByRefusal \/ ByFault \/ ByType \/ ByValue

VerdictInv ==
  /\ pc \notin InCase \ {"parse"} => Unstarted
  /\ pc = "check" => ast = Parsed /\ value = "none"
  /\ pc \in {"type", "eval"} => value = "none"
  /\ pc \in {"judged", "oracle", "compare"} => Verdict

LEMMA NotStarted ==
  ASSUME Unstarted', pc' \notin InCase \ {"parse"}
  PROVE  VerdictInv'
  BY DEF VerdictInv, InCase

LEMMA VerdictStep ==
  ASSUME TypeOK, Evidence, VerdictInv, [Next]_vars
  PROVE  VerdictInv'
<1>1. ASSUME NEW how, Ends(how) PROVE VerdictInv'
  BY <1>1, NotStarted DEF Ends, Gone, Forget, Unstarted, InCase
<1>2. CASE /\ UNCHANGED <<ast, value>>
           /\ pc \notin InCase \ {"parse"} /\ pc' \notin InCase \ {"parse"}
  BY <1>2, NotStarted DEF VerdictInv, Unstarted
<1>3. CASE UNCHANGED <<pc, ast, value, got, parsed, ci>>
  <2>1. Tc' = Tc
    BY <1>3 DEF Tc
  <2>2. Unstarted' = Unstarted /\ Verdict' = Verdict
    BY <1>3, <2>1 DEF Unstarted, Verdict, ByRefusal, ByFault, ByType, ByValue, expectsError
  <2>3. QED BY <1>3, <2>2 DEF VerdictInv
<1>4. CASE StartReport \/ StartSkipgen \/ Probe \/ ListFiles \/ LoadFails
  BY <1>1, <1>2, <1>4 DEF StartReport, StartSkipgen, Probe, ListFiles, LoadFails, Goes, Keeps, attempt, InCase
<1>5. CASE SkipFile \/ OpenFile \/ SkipCase \/ Attempt \/ CloseFile
  BY <1>2, <1>5 DEF SkipFile, OpenFile, SkipCase, Attempt, CloseFile, Goes, attempt, InCase
<1>6. CASE WriteMarkdown \/ WriteSidecar \/ ListForSkips \/ Scan \/ WriteSkips
  BY <1>1, <1>2, <1>6 DEF WriteMarkdown, WriteSidecar, ListForSkips, Scan, WriteSkips, Goes, attempt, InCase
<1>7. CASE Parse \/ Check \/ JudgeType \/ Eval
  <2>1. Tc' = Tc /\ expectsError(Tc)' = expectsError(Tc)
    BY <1>7 DEF Parse, Check, JudgeType, Eval, Tc, expectsError
  <2>2. value = "none" /\ (pc = "parse" => ast = None) /\ (pc = "check" => ast = Parsed)
    BY <1>7 DEF Parse, Check, JudgeType, Eval, VerdictInv, Unstarted, InCase
  <2>3. /\ pc = "type" => Tc.check_only /\ ast.state # "rejected"
        /\ pc = "eval" => ~ Tc.check_only /\ ast.state # "rejected"
    BY DEF Evidence, CallFits
  <2>4. ASSUME pc' = "judged", Verdict' PROVE VerdictInv'
    BY <2>4 DEF VerdictInv, InCase
  <2>5. CASE Unanswered /\ pc \in {"parse", "check", "eval"}
    <3>1. got' = "Failed" /\ pc' = "judged" /\ UNCHANGED <<ast, value>>
      BY <2>5 DEF Unanswered, Judged, Goes
    <3>2. ast.state # "rejected" /\ (Tc.check_only => ast \in {None, Parsed})
      BY <2>2, <2>3, <2>5 DEF None, Parsed
    <3>3. ByFault'
      BY <2>1, <2>2, <3>1, <3>2 DEF ByFault
    <3>4. QED BY <2>4, <3>1, <3>3 DEF Verdict
  <2>6. CASE ast' = Rejected /\ JudgedRefused /\ value' = value
    <3>1. pc' = "judged" /\ ByRefusal'
      BY <2>1, <2>2, <2>6 DEF JudgedRefused, Judged, Goes, ByRefusal
    <3>2. QED BY <2>4, <3>1 DEF Verdict
  <2>7. CASE /\ value' = value
             /\ (ast' = Parsed /\ pc' = "check") \/ pc' = AfterCheck
    BY <2>2, <2>7 DEF VerdictInv, AfterCheck, InCase
  <2>8. CASE JudgeType
    <3>1. /\ pc = "type" /\ pc' = "judged" /\ UNCHANGED <<ast, value>>
          /\ got' = IF compareDeducedType(ast, Tc) THEN "Passed" ELSE "Failed"
      BY <2>8 DEF JudgeType, Judged, Goes
    <3>2. ByType'
      BY <2>1, <2>2, <2>3, <3>1 DEF ByType
    <3>3. QED BY <2>4, <3>1, <3>2 DEF Verdict
  <2>9. CASE Eval /\ ~ Unanswered
    <3>1. /\ pc = "eval" /\ pc' = "judged" /\ ast' = ast
          /\ got' = JudgeValue(value', ast, Tc)
      BY <2>9 DEF Eval, Judged, Goes
    <3>2. ByValue'
      BY <2>1, <2>3, <3>1 DEF ByValue
    <3>3. QED BY <2>4, <3>1, <3>2 DEF Verdict
  <2>10. QED
    BY <1>7, <2>5, <2>6, <2>7, <2>8, <2>9 DEF Parse, Check, Eval, Goes
<1>8. CASE Count \/ AskOracle
  <2>1. /\ UNCHANGED <<ast, value, got, parsed, ci>>
        /\ pc \in {"judged", "oracle"} /\ pc' \in {"oracle", "compare"}
    BY <1>8 DEF Count, AskOracle, Goes, attempt
  <2>2. Tc' = Tc
    BY <2>1 DEF Tc
  <2>3. Verdict' = Verdict
    BY <2>1, <2>2 DEF Verdict, ByRefusal, ByFault, ByType, ByValue, expectsError
  <2>4. QED BY <2>1, <2>3 DEF VerdictInv, InCase
<1>9. CASE Compare
  BY <1>9, NotStarted DEF Compare, Goes, Forget, Unstarted, InCase
<1>10. CASE Interrupt
  BY <1>1, <1>10 DEF Interrupt
<1>11. CASE LoseConnection \/ Reinstall \/ MoveCheckout \/ UNCHANGED vars
  BY <1>3, <1>11 DEF LoseConnection, Reinstall, MoveCheckout, vars, process, attempt
<1>12. QED
  BY <1>4, <1>5, <1>6, <1>7, <1>8, <1>9, <1>10, <1>11 DEF Next, Step, Mishap

\* Equal answers get equal verdicts, whichever of the four the verdict is.
LEMMA JudgedAlike ==
  ASSUME TypeOK, Evidence, VerdictInv
  PROVE  SameJudgement
<1> SUFFICES ASSUME pc = "compare", Observed = ObservedByOracle
             PROVE  reference = got
  BY DEF SameJudgement
<1>1. Verdict /\ AstShape
  BY DEF VerdictInv, Evidence
<1>2. Tc.matcher \in Matchers /\ Tc.want # "error" /\ Tc.check_only \in BOOLEAN
  <2>1. More /\ MoreCases
    BY DEF TypeOK, ProcessTypes, InCase
  <2>2. QED BY <2>1, AtCase DEF TypeOK, Cases, Unconvertible
<1>3. compareResult("error", Tc) = expectsError(Tc)
  BY <1>2 DEF compareResult, expectsError, Matchers
<1>4. ast.state = "checked" \/ ast.type = "none"
  BY <1>1 DEF AstShape, Checked, None, Parsed, Rejected
<1>5. CASE ast.state = "rejected" \/ value = "error"
  <2>1. Observed = <<"error">>
    BY <1>5 DEF Observed
  <2>2. ~ outcome.fault /\ outcome.err
    BY <2>1 DEF ObservedByOracle
  <2>3. reference = IF expectsError(Tc) THEN "Passed" ELSE "Failed"
    BY <2>2 DEF reference, JudgeOracle
  <2>4. CASE ByRefusal
    BY <2>3, <2>4 DEF ByRefusal
  <2>5. CASE ByValue
    <3>1. value = "error"
      BY <1>5, <2>5 DEF ByValue
    <3>2. expectsError(Tc) => ~ hasTypedResult(Tc)
      BY DEF expectsError, hasTypedResult
    <3>3. QED BY <1>3, <2>3, <2>5, <3>1, <3>2 DEF ByValue, JudgeValue
  <2>6. QED BY <1>1, <1>5, <2>4, <2>5 DEF Verdict, ByFault, ByType
<1>6. CASE ast.state # "rejected" /\ value = "none"
  <2>1. Observed = IF Tc.check_only THEN <<"type", ast.type>> ELSE <<"nothing">>
    BY <1>6 DEF Observed
  <2>2. /\ ~ outcome.fault /\ ~ outcome.err /\ Tc.check_only /\ outcome.type = ast.type
    BY <2>1 DEF ObservedByOracle
  <2>3. reference = IF compareOracleType(outcome, Tc) THEN "Passed" ELSE "Failed"
    BY <2>2 DEF reference, JudgeOracle
  <2>4. CASE ByFault
    <3>1. outcome.type = "none"
      BY <2>2, <2>4 DEF ByFault, None, Parsed
    <3>2. QED BY <2>3, <2>4, <3>1 DEF ByFault, compareOracleType, Unconvertible
  <2>5. CASE ByType
    <3>1. compareOracleType(outcome, Tc) = compareDeducedType(ast, Tc)
      BY <1>4, <2>2 DEF compareOracleType, compareDeducedType, Unconvertible
    <3>2. QED BY <2>3, <2>5, <3>1 DEF ByType
  <2>6. QED BY <1>1, <1>6, <2>2, <2>4, <2>5 DEF Verdict, ByRefusal, ByValue, Rejected
<1>7. CASE ast.state # "rejected" /\ value \notin {"error", "none"}
  <2>1. Observed = <<"value", value, ast.type>>
    BY <1>7 DEF Observed
  <2>2. /\ ~ outcome.fault /\ ~ outcome.err /\ ~ Tc.check_only
        /\ outcome.value = value /\ outcome.type = ast.type
    BY <2>1 DEF ObservedByOracle
  <2>3. ByValue
    BY <1>1, <1>7 DEF Verdict, ByRefusal, ByFault, ByType
  <2>4. hasTypedResult(Tc) => compareOracleType(outcome, Tc) = compareDeducedType(ast, Tc)
    BY <1>4, <2>2 DEF compareOracleType, compareDeducedType, Unconvertible
  <2>5. compareResult(value, Tc) => value \notin Unconvertible
    BY <1>2, <1>7 DEF compareResult, Matchers, Unconvertible
  <2>6. QED BY <2>2, <2>3, <2>4, <2>5 DEF ByValue, JudgeValue, reference, JudgeOracle
<1>8. QED BY <1>5, <1>6, <1>7

\* Where the database and cel-go gave the same answer to a case, both verdicts
\* are the same, whatever the two were configured with.
THEOREM AnswersDecide == Spec => []SameJudgement
<1>1. Init => Evidence /\ VerdictInv
  BY DEF Init, Evidence, AstShape, CallFits, PassedOnEvidence, VerdictInv, Unstarted, InCase
<1>2. TypeOK /\ Evidence /\ VerdictInv /\ [Next]_vars => Evidence' /\ VerdictInv'
  BY EvidenceStep, VerdictStep
<1>3. TypeOK /\ Evidence /\ VerdictInv => SameJudgement
  BY JudgedAlike
<1>4. QED BY <1>1, <1>2, <1>3, TypeCorrect, PTL DEF Spec

-----------------------------------------------------------------------------
(***************************************************************************)
(* The skip list. Each list carries the number of moves after which it was *)
(* generated; as long as that is the number of moves so far, the checkout  *)
(* is the one it was generated from.                                       *)
(***************************************************************************)
NotAhead == source.of <= moves /\ skips.of <= moves /\ found.of <= moves

ListsCurrent ==
  /\ source.of = moves => source.keys = SkipList(checkout)
  /\ Fresh => skips.keys = SkipList(checkout)

\* skipgen, in the middle of the corpus.
Scanned == UNION {SkipsOf(files[i], checkout.tests[files[i]]) : i \in 1..(fi - 1)}

ScanCurrent ==
  pc = "scan" /\ found.of = moves =>
    /\ files = checkout.files
    /\ found.keys = Scanned

\* A report, in the middle of the corpus.
ReportCurrent ==
  Fresh =>
    /\ pc \in {"file", "case", "sidecar"} \cup InCase => files = checkout.files
    /\ pc \in {"case"} \cup InCase => parsed = checkout.tests[File] /\ File \notin SkippedFiles
    /\ pc \in InCase => Key(File, Tc) \notin skips.keys

ForcedBy(k) ==
  \E j \in DOMAIN checkout.tests[k[1]] :
    k = Key(k[1], checkout.tests[k[1]][j]) /\ checkout.tests[k[1]][j].needs # "nothing"

NamedForced == Fresh => \A i \in DOMAIN lists.skippedCases : ForcedBy(lists.skippedCases[i])

Current == NotAhead /\ ListsCurrent /\ ScanCurrent /\ ReportCurrent /\ NamedForced

\* Every key of the list comes from a case that needs more than JSON, and the
\* key of every such case is in the list.
LEMMA SkipListIsForced ==
  ASSUME WorldTypes, NEW k \in SkipList(checkout)
  PROVE  ForcedBy(k)
<1>1. PICK i \in DOMAIN checkout.files :
        k \in SkipsOf(checkout.files[i], checkout.tests[checkout.files[i]])
  BY DEF SkipList
<1> DEFINE f == checkout.files[i]
<1>2. PICK j \in DOMAIN checkout.tests[f] :
        k = Key(f, checkout.tests[f][j]) /\ checkout.tests[f][j].needs # "nothing"
  BY <1>1 DEF SkipsOf
<1>3. k[1] = f
  BY <1>2 DEF Key
<1>4. QED BY <1>2, <1>3 DEF ForcedBy

LEMMA NeedyAreListed ==
  ASSUME NEW i \in DOMAIN checkout.files, checkout.files[i] \notin SkippedFiles,
         NEW j \in DOMAIN checkout.tests[checkout.files[i]],
         checkout.tests[checkout.files[i]][j].needs # "nothing"
  PROVE  Key(checkout.files[i], checkout.tests[checkout.files[i]][j]) \in SkipList(checkout)
<1>1. Key(checkout.files[i], checkout.tests[checkout.files[i]][j])
        \in SkipsOf(checkout.files[i], checkout.tests[checkout.files[i]])
  BY DEF SkipsOf
<1>2. QED BY <1>1 DEF SkipList

\* What the invariant says of the property.
LEMMA CurrentForces ==
  ASSUME TypeOK, Current
  PROVE  SkipsAreForced
<1> SUFFICES ASSUME Fresh PROVE /\ \A i \in DOMAIN lists.skippedCases : ForcedBy(lists.skippedCases[i])
                                /\ pc \in InCase => Tc.needs = "nothing"
  BY DEF SkipsAreForced, ForcedBy
<1>1. \A i \in DOMAIN lists.skippedCases : ForcedBy(lists.skippedCases[i])
  BY DEF Current, NamedForced
<1>2. ASSUME pc \in InCase, Tc.needs # "nothing" PROVE FALSE
  <2>1. files = checkout.files /\ parsed = checkout.tests[File] /\ File \notin SkippedFiles
    BY <1>2 DEF Current, ReportCurrent
  <2>2. fi \in DOMAIN checkout.files /\ ci \in DOMAIN parsed
    BY <1>2, <2>1 DEF TypeOK, ProcessTypes, More, MoreCases
  <2>3. Key(File, Tc) \in SkipList(checkout)
    BY <1>2, <2>1, <2>2, NeedyAreListed DEF File, Tc
  <2>4. QED BY <1>2, <2>3 DEF Current, ReportCurrent, ListsCurrent
<1>3. QED BY <1>1, <1>2

LEMMA OfNumbers ==
  ASSUME TypeOK
  PROVE  source.of \in Int /\ skips.of \in Int /\ found.of \in Int /\ moves \in Nat
<1>1. source \in SkipSets /\ skips \in SkipSets /\ found \in SkipSets /\ moves \in Nat
  BY DEF TypeOK, WorldTypes, ProcessTypes
<1>2. QED BY <1>1 DEF SkipSets

\* The end of a process leaves the list it wrote, or the one there was.
LEMMA EndsCurrent ==
  ASSUME TypeOK, Current, NEW how, Ends(how), UNCHANGED <<checkout, moves>>,
         source'.of <= moves, source'.of = moves => source'.keys = SkipList(checkout),
         skips' = skips \/ skips' = source
  PROVE  Current'
<1>1. pc' = "idle" /\ found' = NothingFound /\ lists' = NoLists
  BY DEF Ends, Gone
<1>2. NotAhead'
  BY <1>1, OfNumbers DEF Current, NotAhead, NothingFound
<1>3. SkipList(checkout)' = SkipList(checkout)
  BY DEF SkipList, SkipsOf, Key
<1>4. ListsCurrent'
  BY <1>3 DEF Current, ListsCurrent, Fresh
<1>5. ScanCurrent' /\ ReportCurrent' /\ NamedForced'
  BY <1>1 DEF ScanCurrent, ReportCurrent, NamedForced, NoLists, InCase
<1>6. QED BY <1>2, <1>4, <1>5 DEF Current

\* A step that leaves the checkout and the lists alone.
LEMMA ListsStay ==
  ASSUME Current, UNCHANGED <<checkout, source, skips, moves>>
  PROVE  /\ ListsCurrent' /\ Fresh' = Fresh
         /\ found'.of = found.of => NotAhead'
         /\ \A k : ForcedBy(k)' = ForcedBy(k)
         /\ pc' # "scan" => ScanCurrent'
         /\ lists'.skippedCases = lists.skippedCases => NamedForced'
<1>1. SkipList(checkout)' = SkipList(checkout)
  BY DEF SkipList, SkipsOf, Key
<1>2. Fresh' = Fresh
  BY DEF Fresh
<1>3. ListsCurrent'
  BY <1>1, <1>2 DEF Current, ListsCurrent
<1>4. found'.of = found.of => NotAhead'
  BY DEF Current, NotAhead
<1>5. ASSUME NEW k PROVE ForcedBy(k)' = ForcedBy(k)
  BY DEF ForcedBy, Key
<1>6. lists'.skippedCases = lists.skippedCases => NamedForced'
  BY <1>2, <1>5 DEF Current, NamedForced
<1>7. pc' # "scan" => ScanCurrent'
  BY DEF ScanCurrent
<1>8. QED BY <1>2, <1>3, <1>4, <1>5, <1>6, <1>7

\* A step inside the attempt at a case.
LEMMA InsideCurrent ==
  ASSUME Current, pc \in InCase, pc' \in InCase,
         UNCHANGED <<world, documents, skips, files, fi, parsed, ci, found, moves>>,
         lists'.skippedCases = lists.skippedCases
  PROVE  Current'
<1>1. UNCHANGED <<checkout, source, skips, moves>>
  BY DEF world, documents
<1>2. UNCHANGED <<File, Tc>>
  BY DEF File, Tc
<1>3. ReportCurrent'
  BY <1>1, <1>2, ListsStay DEF Current, ReportCurrent, Key, InCase
<1>4. QED BY <1>1, <1>3, ListsStay DEF Current, InCase

LEMMA ReportCurrentStep ==
  ASSUME TypeOK, Current, ListFiles \/ SkipFile \/ OpenFile \/ SkipCase \/ Attempt \/ CloseFile
                          \/ Compare \/ WriteMarkdown
  PROVE  Current'
<1>1. UNCHANGED <<checkout, source, skips, moves>>
  BY DEF ListFiles, SkipFile, OpenFile, SkipCase, Attempt, CloseFile, Compare, WriteMarkdown, world, documents
<1>2. UNCHANGED <<Fresh, checkout>> /\ ListsCurrent'
  BY <1>1, ListsStay
<1>3. CASE ListFiles
  <2>1. CASE HasCorpus(config)
    <3>1. pc' = "file" /\ files' = checkout.files /\ UNCHANGED <<lists, found>>
      BY <1>3, <2>1 DEF ListFiles, Goes
    <3>2. ReportCurrent'
      BY <1>2, <3>1 DEF ReportCurrent, InCase
    <3>3. QED BY <1>1, <3>1, <3>2, ListsStay DEF Current
  <2>2. CASE ~ HasCorpus(config)
    BY <1>1, <1>3, <2>2, EndsCurrent DEF ListFiles, Current, NotAhead, ListsCurrent
  <2>3. QED BY <2>1, <2>2
<1>4. CASE SkipFile \/ CloseFile
  <2>1. pc \in {"file", "case"} /\ pc' = "file" /\ UNCHANGED <<files, found>>
    BY <1>4 DEF SkipFile, CloseFile, Goes
  <2>2. lists'.skippedCases = lists.skippedCases
    BY <1>4 DEF SkipFile, CloseFile, TypeOK, ReportTypes, ReportLists
  <2>3. ReportCurrent'
    BY <1>2, <2>1 DEF Current, ReportCurrent, InCase
  <2>4. QED BY <1>1, <2>1, <2>2, <2>3, ListsStay DEF Current
<1>5. CASE OpenFile
  <2>1. /\ pc = "file" /\ pc' = "case" /\ UNCHANGED <<files, fi, found, lists>>
        /\ parsed' = checkout.tests[File] /\ File \notin SkippedFiles
    BY <1>5 DEF OpenFile, Goes
  <2>2. File' = File
    BY <2>1 DEF File
  <2>3. ReportCurrent'
    BY <1>2, <2>1, <2>2 DEF Current, ReportCurrent, InCase
  <2>4. QED BY <1>1, <2>1, <2>3, ListsStay DEF Current
<1>6. CASE SkipCase
  <2>1. pc = "case" /\ UNCHANGED <<pc, files, fi, parsed, found>> /\ skipped(File, Tc)
    BY <1>6 DEF SkipCase
  <2>2. File' = File
    BY <2>1 DEF File
  <2>3. ReportCurrent'
    BY <1>2, <2>1, <2>2 DEF Current, ReportCurrent, InCase
  <2>4. lists'.skippedCases = Append(lists.skippedCases, Key(File, Tc))
        /\ lists.skippedCases \in Seq(Keys)
    BY <1>6 DEF SkipCase, TypeOK, ReportTypes, ReportLists
  <2>5. Fresh => ForcedBy(Key(File, Tc))
    <3>1. Fresh => File \notin SkippedFiles /\ skips.keys = SkipList(checkout)
      BY <2>1 DEF Current, ReportCurrent, ListsCurrent
    <3>2. Fresh => Key(File, Tc) \in SkipList(checkout)
      BY <2>1, <3>1 DEF skipped
    <3>3. QED BY <3>2, SkipListIsForced DEF TypeOK
  <2>6. Fresh => \A i \in DOMAIN lists.skippedCases : ForcedBy(lists.skippedCases[i])
    BY DEF Current, NamedForced
  <2>7. Key(File, Tc) \in Keys
    BY <1>6, <2>1, AtCase DEF SkipCase, TypeOK, ProcessTypes
  <2>8. ASSUME Fresh PROVE \A i \in DOMAIN lists'.skippedCases : ForcedBy(lists'.skippedCases[i])
    BY <2>4, <2>5, <2>6, <2>7, <2>8
  <2>9. \A k : ForcedBy(k)' = ForcedBy(k)
    BY <1>1, ListsStay
  <2>10. NamedForced'
    BY <1>2, <2>8, <2>9 DEF NamedForced
  <2>11. QED BY <1>1, <2>1, <2>3, <2>10, ListsStay DEF Current
<1>7. CASE Attempt
  <2>1. /\ pc = "case" /\ pc' \in InCase /\ UNCHANGED <<files, fi, parsed, ci, found, lists>>
        /\ ~ skipped(File, Tc)
    BY <1>7 DEF Attempt, Goes, InCase, report
  <2>2. File' = File /\ Tc' = Tc /\ Key(File, Tc)' = Key(File, Tc) /\ skips' = skips
    BY <1>1, <2>1 DEF File, Tc, Key
  <2>3. ReportCurrent'
    BY <1>2, <2>1, <2>2 DEF Current, ReportCurrent, skipped
  <2>4. QED BY <1>1, <2>1, <2>3, ListsStay DEF Current, InCase
<1>8. CASE Compare
  <2>1. pc \in InCase /\ pc' = "case" /\ UNCHANGED <<files, fi, parsed, found>>
    BY <1>8 DEF Compare, Goes, InCase
  <2>2. lists'.skippedCases = lists.skippedCases
    BY <1>8 DEF Compare, TypeOK, ReportTypes, ReportLists
  <2>3. File' = File
    BY <2>1 DEF File
  <2>4. ReportCurrent'
    BY <1>2, <2>1, <2>3 DEF Current, ReportCurrent, InCase
  <2>5. QED BY <1>1, <2>1, <2>2, <2>4, ListsStay DEF Current
<1>9. CASE WriteMarkdown
  <2>1. pc = "file" /\ pc' = "sidecar" /\ UNCHANGED <<files, found, lists>>
    BY <1>9 DEF WriteMarkdown, Goes, report
  <2>2. ReportCurrent'
    BY <1>2, <2>1 DEF Current, ReportCurrent, InCase
  <2>3. QED BY <1>1, <2>1, <2>2, ListsStay DEF Current
<1>10. QED BY <1>3, <1>4, <1>5, <1>6, <1>7, <1>8, <1>9

LEMMA SkipgenCurrentStep ==
  ASSUME TypeOK, AtStart, Current, StartReport \/ StartSkipgen \/ ListForSkips \/ Scan \/ WriteSkips
  PROVE  Current'
<1>1. SkipList(checkout)' = SkipList(checkout) /\ UNCHANGED <<checkout, moves>>
  <2>1. UNCHANGED <<checkout, moves>>
    BY DEF StartReport, StartSkipgen, ListForSkips, Scan, WriteSkips, world
  <2>2. QED BY ONLY <2>1 DEF SkipList, SkipsOf, Key
<1>2. CASE StartReport \/ StartSkipgen
  <2>1. skips' = source /\ source' = source
    BY <1>2 DEF StartReport, StartSkipgen, documents
  <2>2. CASE \E how : Ends(how)
    BY <1>1, <2>1, <2>2, EndsCurrent DEF Current, NotAhead, ListsCurrent
  <2>3. CASE Keeps /\ pc' \in {"probe", "list"} /\ pc = "idle"
    <3>1. lists' = NoLists /\ found' = found
      BY <2>3 DEF Keeps, AtStart, report
    <3>2. NotAhead' /\ ListsCurrent'
      BY <1>1, <2>1, <3>1 DEF Current, NotAhead, ListsCurrent, Fresh
    <3>3. ScanCurrent' /\ ReportCurrent' /\ NamedForced'
      BY <2>3, <3>1 DEF ScanCurrent, ReportCurrent, NamedForced, NoLists, InCase
    <3>4. QED BY <3>2, <3>3 DEF Current
  <2>4. QED BY <1>2, <2>2, <2>3 DEF StartReport, StartSkipgen, Goes
<1>3. CASE ListForSkips
  <2>1. /\ pc' = "scan" /\ files' = checkout.files /\ fi' = 1
        /\ UNCHANGED <<checkout, source, skips, moves, lists>>
    BY <1>3 DEF ListForSkips, Goes, AtStart, world, documents, report
  <2>2. found'.of = moves /\ found'.keys = {}
    BY <1>3 DEF ListForSkips, AtStart, NothingFound
  <2>3. ScanCurrent'
    <3>1. UNION {SkipsOf(files'[i], checkout'.tests[files'[i]]) : i \in 1..(fi' - 1)} = {}
      BY <2>1
    <3>2. QED BY <2>1, <2>2, <3>1 DEF ScanCurrent, Scanned, SkipsOf, Key
  <2>4. NotAhead'
    BY <2>1, <2>2, OfNumbers DEF Current, NotAhead
  <2>5. ReportCurrent'
    BY <2>1 DEF ReportCurrent, InCase
  <2>6. QED BY <2>1, <2>3, <2>4, <2>5, ListsStay DEF Current
<1>4. CASE Scan
  <2>1. CASE File \notin SkippedFiles /\ Missing(File)
    BY <1>1, <1>4, <2>1, EndsCurrent DEF Scan, documents, Current, NotAhead, ListsCurrent
  <2>2. CASE ~(File \notin SkippedFiles /\ Missing(File))
    <3>1. /\ pc = "scan" /\ pc' = "scan" /\ UNCHANGED <<checkout, source, skips, moves, lists, files>>
          /\ fi' = fi + 1 /\ fi \in 1..Len(files)
      BY <1>4, <2>2 DEF Scan, More, TypeOK, ProcessTypes, world, documents, report
    <3>2. found'.of = found.of /\ found'.keys = found.keys \cup SkipsOf(File, checkout.tests[File])
      BY <1>4, <2>2 DEF Scan, TypeOK, ProcessTypes, SkipSets
    <3>3. ScanCurrent'
      <4> DEFINE of(i) == SkipsOf(files[i], checkout.tests[files[i]])
                 upTo(n) == UNION {of(i) : i \in 1..n}
      <4>1. 1..(fi' - 1) = (1..(fi - 1)) \cup {fi}
        BY <3>1
      <4>2. upTo(fi' - 1) = upTo(fi - 1) \cup of(fi)
        <5> HIDE DEF of
        <5>1. \A n, k : k \in upTo(n) <=> \E i \in 1..n : k \in of(i)
          OBVIOUS
        <5> HIDE DEF upTo
        <5>2. \A k : k \in upTo(fi' - 1) <=> k \in upTo(fi - 1) \/ k \in of(fi)
          BY <4>1, <5>1
        <5>3. QED BY <5>2
      <4>3. ASSUME found.of = moves
            PROVE  files = checkout.files /\ found'.keys = upTo(fi' - 1)
        BY <3>1, <3>2, <4>2, <4>3 DEF Current, ScanCurrent, Scanned, File
      <4>4. ASSUME found.of = moves
            PROVE  found'.keys = UNION {SkipsOf(files[i], checkout.tests[files[i]]) : i \in 1..(fi' - 1)}
        BY <4>3, <4>4
      <4>5. Scanned' = UNION {SkipsOf(files'[i], checkout'.tests[files'[i]]) : i \in 1..(fi' - 1)}
        BY ONLY DEF Scanned, SkipsOf, Key
      <4>6. Scanned' = UNION {SkipsOf(files[i], checkout.tests[files[i]]) : i \in 1..(fi' - 1)}
        BY ONLY <3>1, <4>5
      <4>7. QED BY ONLY <3>1, <3>2, <4>3, <4>4, <4>6 DEF ScanCurrent
    <3>4. ReportCurrent'
      BY <3>1 DEF ReportCurrent, InCase
    <3>5. QED BY <3>1, <3>2, <3>3, <3>4, ListsStay DEF Current
  <2>3. QED BY <2>1, <2>2
<1>5. CASE WriteSkips
  <2>1. source' = found /\ pc = "scan" /\ ~ More
    BY <1>5 DEF WriteSkips
  <2>2. ASSUME found.of = moves PROVE found.keys = SkipList(checkout)
    <3>1. files = checkout.files
      BY <2>1, <2>2 DEF Current, ScanCurrent
    <3>2. 1..(fi - 1) = DOMAIN files
      BY <2>1 DEF TypeOK, ProcessTypes, More
    <3>3. found.keys = UNION {SkipsOf(files[i], checkout.tests[files[i]]) : i \in 1..(fi - 1)}
      BY <2>1, <2>2 DEF Current, ScanCurrent, Scanned
    <3>4. QED BY <3>1, <3>2, <3>3 DEF SkipList
  <2>3. QED BY <1>1, <1>5, <2>1, <2>2, EndsCurrent DEF WriteSkips, Current, NotAhead
<1>6. QED BY <1>2, <1>3, <1>4, <1>5

LEMMA CurrentStep ==
  ASSUME TypeOK, AtStart, Current, [Next]_vars
  PROVE  Current'
<1>1. CASE ListFiles \/ SkipFile \/ OpenFile \/ SkipCase \/ Attempt \/ CloseFile \/ Compare \/ WriteMarkdown
  BY <1>1, ReportCurrentStep
<1>2. CASE StartReport \/ StartSkipgen \/ ListForSkips \/ Scan \/ WriteSkips
  BY <1>2, SkipgenCurrentStep
<1>3. ASSUME NEW how, Ends(how), UNCHANGED <<checkout, source, skips, moves>> PROVE Current'
  BY <1>3, EndsCurrent DEF Current, NotAhead, ListsCurrent
<1>4. CASE LoadFails \/ WriteSidecar
  BY <1>3, <1>4 DEF LoadFails, WriteSidecar, world, documents
<1>5. CASE Parse \/ Check \/ JudgeType \/ Eval \/ Count \/ AskOracle
  <2>1. pc \in InCase /\ pc' \in InCase
    BY <1>5 DEF Parse, Check, JudgeType, Eval, Count, AskOracle, Unanswered, Judged, JudgedRefused,
       AfterCheck, Goes, InCase
  <2>2. UNCHANGED <<world, documents, skips, files, fi, parsed, ci, found, moves>>
    BY <1>5 DEF Parse, Check, JudgeType, Eval, Count, AskOracle
  <2>3. lists'.skippedCases = lists.skippedCases
    BY <1>5 DEF Parse, Check, JudgeType, Eval, Count, AskOracle, report, TypeOK, ReportTypes, ReportLists
  <2>4. QED BY <2>1, <2>2, <2>3, InsideCurrent
<1>6. CASE UNCHANGED <<checkout, source, skips, moves, process, lists>>
  <2>1. UNCHANGED <<File, Tc, found>>
    BY <1>6 DEF process, File, Tc
  <2>2. ReportCurrent'
    BY <1>6, <2>1, ListsStay DEF process, Current, ReportCurrent, Key
  <2>3. ScanCurrent'
    BY <1>6 DEF process, Current, ScanCurrent, Scanned, SkipsOf, Key
  <2>4. QED BY <1>6, <2>1, <2>2, <2>3, ListsStay DEF Current
<1>7. CASE Probe
  <2>1. CASE linked
    <3>1. pc' = "files" /\ UNCHANGED <<checkout, source, skips, moves, found, lists>>
      BY <1>7, <2>1 DEF Probe, Goes, world, documents, report
    <3>2. ReportCurrent'
      BY <3>1 DEF ReportCurrent, InCase
    <3>3. QED BY <3>1, <3>2, ListsStay DEF Current
  <2>2. CASE ~ linked
    BY <1>3, <1>7, <2>2 DEF Probe, world, documents
  <2>3. QED BY <2>1, <2>2
<1>8. CASE MoveCheckout
  <2>1. moves' = moves + 1 /\ UNCHANGED <<source, skips, found>>
    BY <1>8 DEF MoveCheckout, documents, process
  <2>2. /\ source'.of < moves' /\ skips'.of < moves' /\ found'.of < moves'
        /\ source'.of # moves' /\ skips'.of # moves' /\ found'.of # moves'
        /\ NotAhead'
    BY <2>1, OfNumbers DEF Current, NotAhead
  <2>3. QED
    BY <2>2 DEF Current, ListsCurrent, ScanCurrent, ReportCurrent, NamedForced, Fresh
<1>9. CASE Interrupt
  <2>1. source'.keys = source.keys /\ source'.of = source.of
    BY <1>9 DEF Interrupt, TypeOK, WorldTypes, SkipSets
  <2>2. UNCHANGED <<checkout, moves, skips>> /\ Ends("interrupted")
    BY <1>9 DEF Interrupt, world
  <2>3. QED BY <2>1, <2>2, EndsCurrent DEF Current, NotAhead, ListsCurrent
<1>10. CASE LoseConnection \/ Reinstall \/ UNCHANGED vars
  BY <1>6, <1>10 DEF LoseConnection, Reinstall, vars, world, documents, process, report
<1>11. QED
  BY <1>1, <1>2, <1>4, <1>5, <1>7, <1>8, <1>9, <1>10 DEF Next, Step, Mishap

\* With a list generated from the checkout as it still is, a report skips by name
\* only what cannot be run, and attempts nothing that cannot.
THEOREM SkipsForced == Spec => []SkipsAreForced
<1>1. Init => TypeOK /\ AtStart
  BY InitTypes DEF Init, AtStart
<1>2. Init => Current
  <2> SUFFICES ASSUME Init PROVE Current
    OBVIOUS
  <2>1. PICK c \in bounds.corpora :
          source = [keys |-> SkipList(c), of |-> IF c = checkout THEN 0 ELSE -1, whole |-> TRUE]
    BY DEF Init
  <2>2. skips = source /\ moves = 0 /\ source.of \in {0, -1} /\ source.keys = SkipList(c)
        /\ (source.of = 0 => c = checkout)
    BY <2>1 DEF Init
  <2>3. pc = "idle" /\ found = NothingFound /\ lists = NoLists
    BY DEF Init
  <2>4. NotAhead /\ ListsCurrent
    BY <2>2, <2>3 DEF NotAhead, ListsCurrent, Fresh, NothingFound
  <2>5. ScanCurrent /\ ReportCurrent /\ NamedForced
    BY <2>3 DEF ScanCurrent, ReportCurrent, NamedForced, NoLists, InCase
  <2>6. QED BY <2>4, <2>5 DEF Current
<1>3. TypeOK /\ AtStart /\ Current /\ [Next]_vars => TypeOK' /\ AtStart' /\ Current'
  BY StepTypes, CurrentStep
<1>4. TypeOK /\ Current => SkipsAreForced
  BY CurrentForces
<1>5. QED BY <1>1, <1>2, <1>3, <1>4, PTL DEF Spec
=============================================================================
