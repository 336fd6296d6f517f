------------------------------ MODULE EnvUnion ------------------------------
(***************************************************************************)
(* What an env argument of the API stands for: the least set of            *)
(* environments that has the named ones and, with each of them, the ones   *)
(* it includes. An argument that reaches an unknown name is an error, and  *)
(* so is an empty one. Everything is settled in one step.                  *)
(***************************************************************************)
CONSTANTS
  Known,    \* the rows of cel.env
  Unknown   \* names an argument or a kind='env' item can have without a row

VARIABLES
  includes, \* kind='env' items: the names each known environment includes
  named,    \* the names in the argument
  outcome,  \* "running", "returned" or "raised"
  visible   \* the answer

vars == <<includes, named, outcome, visible>>

Names == Known \cup Unknown

Closed(S) == \A e \in S \cap Known : includes[e] \subseteq S

\* The names reached from the argument.
Reach == {n \in Names : \A S \in SUBSET Names : named \subseteq S /\ Closed(S) => n \in S}

Init ==
  /\ includes \in [Known -> SUBSET Names]
  /\ named \in SUBSET Names
  /\ outcome = "running"
  /\ visible = {}

Return ==
  /\ outcome = "running"
  /\ named # {} /\ Reach \subseteq Known
  /\ outcome' = "returned"
  /\ visible' = Reach
  /\ UNCHANGED <<includes, named>>

Raise ==
  /\ outcome = "running"
  /\ named = {} \/ ~ Reach \subseteq Known
  /\ outcome' = "raised"
  /\ UNCHANGED <<includes, named, visible>>

Next == Return \/ Raise

Spec == Init /\ [][Next]_vars /\ WF_vars(Next)
=============================================================================
