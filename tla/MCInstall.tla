----------------------------- MODULE MCInstall -----------------------------
(***************************************************************************)
(* Small instances of Install: two releases of the core with two libraries *)
(* (one that exists since release 1 and lists its rows in two groups, one  *)
(* that gains a row in release 2), and a consumer.                         *)
(***************************************************************************)
EXTENDS Install

CONSTANTS
  Shipping,       \* which artifacts are run: full, core or ext
  WithCaptured,   \* the consumer names a function like math's
  Consumers       \* the consumer's rows

MCFiles == {"000_install", "010_registry", "030_parse", "060_stdlib", "070_wkt",
            "110_ext_optionals", "130_ext_math"}
MCCoreFiles == {"000_install", "010_registry", "030_parse", "060_stdlib", "070_wkt"}
MCExts == {"optionals", "math"}

MCExtRefs == {"optional_type", "optional_of", "least"}
MCShipped == {"has", "less", "int", "to_int", "Duration"} \cup MCExtRefs
MCRefs == MCShipped \cup Consumers

MCKind ==
  [r \in MCRefs |->
     CASE r \in {"has", "least"} -> "macro"
       [] r \in {"int", "Duration", "optional_type", "consumer_type"} -> "type"
       [] OTHER -> "overload"]

MCImpl ==
  [r \in MCRefs |->
     CASE MCKind[r] = "type" -> "null"
       [] r \in Consumers -> "own"
       [] OTHER -> "cel"]

\* The type to_int converts to and the least macro are new in release 2.
MCSince == [r \in MCRefs |-> IF r \in {"to_int", "least"} THEN 2 ELSE 1]

\* The relations' upsert leaves result_type and member, the protobuf types'
\* their hooks and doc.
MCPartial == {"less", "Duration"}

\* What the consumer may list: a row that release 2 will ship, before it is
\* there or after; a core row under a library's environment; a library's row
\* in standard; its own overload in standard and under its own name. It also
\* registers a type that it lists nowhere.
TxnMay == {<<"consumer", "to_int">>, <<"standard", "optional_of">>, <<"math", "less">>}
HealMay == {<<"standard", "optional_of">>, <<"standard", "math_square">>, <<"consumer", "math_square">>}
CapturedMay == {<<"standard", "math_square">>}
CuratedMay == {<<"standard", "optional_of">>}
EarlyMay == {<<"consumer", "to_int">>}
NothingMay == {}

Scripts ==
  INSTANCE InstallScripts WITH
    AllRefs <- MCRefs, Since <- MCSince, EnvRows <- {},
    StdMacros <- {"has"}, StdOverloads <- {"less"}, StdTypes <- {"int"},
    StdConversions <- {"to_int"},
    WktTypes <- {"Duration"}, WktOverloads <- {}, WktNamed <- {"Duration"},
    ExtRows <- [e \in MCExts |->
      IF e = "math" THEN <<{"least"}>> ELSE <<{"optional_type"}, {"optional_of"}, {}, {}>>],
    Captured <- [e \in MCExts |->
      IF e = "math" THEN WithCaptured ELSE {}]

\* Artifacts are named <<release, "full" | "core" | library>>.
MCArtifacts ==
  Releases \X ((Shipping \cap {"full", "core"}) \cup (IF "ext" \in Shipping THEN MCExts ELSE {}))

\* One element per release; tuples, which TLC evaluates once.
CoreScripts == <<Scripts!CoreScript(1), Scripts!CoreScript(2)>>
OptionalsScripts == <<Scripts!ExtScript(1, Scripts!Optionals), Scripts!ExtScript(2, Scripts!Optionals)>>
MathScripts == <<Scripts!ExtScript(1, Scripts!Math), Scripts!ExtScript(2, Scripts!Math)>>

MCBody ==
  [a \in MCArtifacts |->
     CASE a[2] = "core" -> CoreScripts[a[1]]
       [] a[2] = "full" -> CoreScripts[a[1]] \o OptionalsScripts[a[1]] \o MathScripts[a[1]]
       [] a[2] = "optionals" -> OptionalsScripts[a[1]]
       [] a[2] = "math" -> MathScripts[a[1]]]

-----------------------------------------------------------------------------
\* The schema a release without the cel._unclaimed guard left behind: release
\* 1 installed, and then swept into standard whole (010_registry.sql, 184-188).
SweptSchema ==
  LET rows == {r \in MCShipped : MCSince[r] = 1} IN
  [versions |-> <<1>>,
   code     |-> [f \in MCFiles |-> 1],
   gen      |-> [r \in MCRefs |-> IF r \in rows THEN 1 ELSE 0],
   rest     |-> [r \in MCRefs |-> IF r \in rows THEN 1 ELSE 0],
   items    |-> ({"standard"} \X rows)
                  \cup ({"optionals"} \X {"optional_type", "optional_of"})]

SweptInit ==
  /\ db = SweptSchema
  /\ work = db
  /\ artifact = Idle /\ pc = 1 /\ mode \in Modes
  /\ owned = {} /\ early = {} /\ bare = {} /\ clean = 0 /\ runs = 0 /\ crashes = 0

HealSpec == (Init \/ SweptInit) /\ [][Next]_vars
=============================================================================
