------------------------------ MODULE Verdicts ------------------------------
(***************************************************************************)
(* How the outcome of one conformance case is judged, on the side of the   *)
(* database (conformance/run.go) and on the side of cel-go                 *)
(* (conformance/oracle.go, internal/oracle/case.go). Values stand for      *)
(* classes of codec.Equal, types for their rendered JSON; "message" is     *)
(* what the codec cannot convert, "none" what is missing.                  *)
(***************************************************************************)

Statuses == {"Passed", "Skipped", "Failed"}
Stages == {"parse", "check", "eval"}
Unconvertible == {"none", "message"}

\* A conformance case: what it needs beyond JSON, its switches, its
\* declarations and bindings, and the result matcher. The value it wants is a
\* proto Value, which has no error.
Matchers == {"value", "eval_error", "typed_result", "default", "unknown"}
Cases(Sections, CaseNames, Values, Types) ==
  [section : Sections, name : CaseNames,
   needs : {"nothing", "descriptors", "nul"},
   disable_check : BOOLEAN, check_only : BOOLEAN, disable_macros : BOOLEAN,
   decls : {"good", "bad"}, bindings : {"values", "error_or_unknown", "bad"},
   matcher : Matchers, want : (Values \ {"error", "unknown"}) \cup Unconvertible,
   type : Types \cup Unconvertible]

expectsError(tc) == tc.matcher = "eval_error"
hasTypedResult(tc) == tc.matcher = "typed_result"

\* An AST as the stages leave it: parsed, checked with the type of its root, or
\* the errors that came in its place.
None == [state |-> "none", type |-> "none"]
Parsed == [state |-> "parsed", type |-> "none"]
Rejected == [state |-> "rejected", type |-> "none"]
Checked(t) == [state |-> "checked", type |-> t]

compareResult(got, tc) ==
  CASE tc.matcher \in {"value", "typed_result"} -> tc.want \notin Unconvertible /\ got = tc.want
    [] tc.matcher = "eval_error" -> got = "error"
    [] tc.matcher = "default" -> got = "true"
    [] OTHER -> FALSE

\* A type the checker did not leave in the AST compares with nothing.
compareDeducedType(ast, tc) ==
  /\ hasTypedResult(tc) /\ tc.type \notin Unconvertible
  /\ ast.state = "checked" /\ ast.type = tc.type

\* Variant: only looks whether there is a type.
compareOracleTypeVariant(outcome, tc) ==
  hasTypedResult(tc) /\ tc.type \notin Unconvertible /\ outcome.type \notin Unconvertible

compareOracleType(outcome, tc) ==
  /\ hasTypedResult(tc) /\ tc.type \notin Unconvertible
  /\ outcome.type \notin Unconvertible /\ outcome.type = tc.type

JudgeValue(got, ast, tc) ==
  IF compareResult(got, tc) /\ (hasTypedResult(tc) => compareDeducedType(ast, tc))
    THEN "Passed" ELSE "Failed"

-----------------------------------------------------------------------------
(***************************************************************************)
(* An outcome of cel-go: fault is a failure of the harness, err an         *)
(* expression refused or evaluated to an error.                            *)
(***************************************************************************)
Outcome(fault, err, type, value) == [fault |-> fault, err |-> err, type |-> type, value |-> value]
HarnessFault == Outcome(TRUE, FALSE, "none", "none")

\* What oracle.RunCase may return for a case, in the order the code looks: the
\* configuration, parse and check, the type alone, plan, bindings, evaluation.
OracleOutcomes(tc, configured, Values, Types) ==
  LET types == IF tc.disable_check THEN {"none"} ELSE Types
      refused == {Outcome(FALSE, TRUE, "none", "none")}
      planned == {Outcome(FALSE, TRUE, t, "none") : t \in types}
      evaluated == planned
        \cup {Outcome(FALSE, FALSE, t, v) : t \in types, v \in (Values \cup {"message"}) \ {"error", "unknown"}}
  IN IF ~ configured \/ tc.decls = "bad" THEN {HarnessFault}
     ELSE IF tc.check_only THEN refused \cup {Outcome(FALSE, FALSE, t, "none") : t \in types}
     ELSE IF tc.bindings # "values" THEN refused \cup planned \cup {HarnessFault}
     ELSE refused \cup evaluated \cup {HarnessFault}

JudgeOracle(outcome, tc) ==
  CASE outcome.fault -> "Failed"
    [] ~ outcome.fault /\ outcome.err -> IF expectsError(tc) THEN "Passed" ELSE "Failed"
    [] ~ outcome.fault /\ ~ outcome.err /\ tc.check_only ->
         IF compareOracleType(outcome, tc) THEN "Passed" ELSE "Failed"
    [] OTHER ->
         IF /\ outcome.value \notin Unconvertible /\ compareResult(outcome.value, tc)
            /\ hasTypedResult(tc) => compareOracleType(outcome, tc)
           THEN "Passed" ELSE "Failed"
=============================================================================
