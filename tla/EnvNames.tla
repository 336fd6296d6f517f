------------------------------ MODULE EnvNames ------------------------------
(***************************************************************************)
(* cel._env_names, the work list behind every env argument, and what the   *)
(* parser takes from its answer: the merged flags and the macros in sight. *)
(* One behaviour is one call, under the snapshot of its statement. The     *)
(* rows an environment includes come back in no particular order (the      *)
(* array_agg has no ORDER BY), and they may include each other in cycles   *)
(* or name an environment that does not exist (env_item.ref references     *)
(* nothing).                                                               *)
(***************************************************************************)
EXTENDS Naturals, Sequences, FiniteSets

CONSTANTS
  Known,    \* the rows of cel.env
  Unknown,  \* other names
  Graphs,   \* the include relations considered
  Setters,  \* the environments whose flags have the key under consideration
  MaxGiven  \* bound: names in an argument

Names == Known \cup Unknown

ASSUME NamesAssumption == IsFiniteSet(Names) /\ Known \cap Unknown = {}

ASSUME GraphAssumption == Graphs \subseteq [Known -> SUBSET Names]

ASSUME SetterAssumption == Setters \subseteq Known

VARIABLES
  includes, \* the kind='env' items
  given,    \* the argument, split and trimmed
  pending,  \* work list
  seen,     \* names taken off it, in order
  outcome   \* "running", "returned" or "raised"

vars == <<includes, given, pending, seen, outcome>>

-----------------------------------------------------------------------------
Among(s) == {s[i] : i \in 1..Len(s)}

\* The orders in which an aggregate can return the rows of S.
Orders(S) ==
  {p \in [1..Cardinality(S) -> S] : \A x \in S : \E i \in 1..Cardinality(S) : p[i] = x}

Arguments == UNION {[1..n -> Names] : n \in 0..MaxGiven}

Init ==
  /\ includes \in Graphs
  /\ given \in Arguments
  /\ pending = given
  /\ seen = <<>>
  /\ outcome = "running"

\* Nothing is left once blanks are dropped.
Empty ==
  /\ outcome = "running"
  /\ given = <<>>
  /\ outcome' = "raised"
  /\ UNCHANGED <<includes, given, pending, seen>>

\* CONTINUE WHEN current = ANY (seen).
Skip ==
  /\ outcome = "running" /\ pending # <<>> /\ Head(pending) \in Among(seen)
  /\ pending' = Tail(pending)
  /\ UNCHANGED <<includes, given, seen, outcome>>

\* Variants of the visit: included names go first; a name is taken as often
\* as it comes; only the argument's own includes are followed.
VisitDepthFirst ==
  /\ outcome = "running" /\ pending # <<>> /\ Head(pending) \notin Among(seen)
  /\ Head(pending) \in Known
  /\ seen' = Append(seen, Head(pending))
  /\ \E extra \in Orders(includes[Head(pending)]) : pending' = extra \o Tail(pending)
  /\ UNCHANGED <<includes, given, outcome>>

VisitAgain ==
  /\ outcome = "running" /\ pending # <<>>
  /\ Head(pending) \in Known
  /\ seen' = Append(seen, Head(pending))
  /\ \E extra \in Orders(includes[Head(pending)]) : pending' = Tail(pending) \o extra
  /\ UNCHANGED <<includes, given, outcome>>

VisitOneLevel ==
  /\ outcome = "running" /\ pending # <<>> /\ Head(pending) \notin Among(seen)
  /\ Head(pending) \in Known
  /\ seen' = Append(seen, Head(pending))
  /\ \E extra \in Orders(includes[Head(pending)]) :
       pending' = Tail(pending) \o (IF Head(pending) \in Among(given) THEN extra ELSE <<>>)
  /\ UNCHANGED <<includes, given, outcome>>

\* A known name: it is seen, and what it includes queues behind the rest.
Visit ==
  /\ outcome = "running" /\ pending # <<>> /\ Head(pending) \notin Among(seen)
  /\ Head(pending) \in Known
  /\ seen' = Append(seen, Head(pending))
  /\ \E extra \in Orders(includes[Head(pending)]) : pending' = Tail(pending) \o extra
  /\ UNCHANGED <<includes, given, outcome>>

\* RAISE 'unknown env'.
Unresolved ==
  /\ outcome = "running" /\ pending # <<>> /\ Head(pending) \notin Among(seen)
  /\ Head(pending) \notin Known
  /\ outcome' = "raised"
  /\ UNCHANGED <<includes, given, pending, seen>>

Return ==
  /\ outcome = "running" /\ pending = <<>> /\ given # <<>>
  /\ outcome' = "returned"
  /\ UNCHANGED <<includes, given, pending, seen>>

Next == Empty \/ Skip \/ Visit \/ Unresolved \/ Return

Spec == Init /\ [][Next]_vars

FairSpec == Spec /\ WF_vars(Next)

-----------------------------------------------------------------------------
\* cel._env_flags: of the environments that set the key, the one whose name
\* comes last in the answer decides.
FlagFrom(list) ==
  LET at == {i \in 1..Len(list) : list[i] \in Setters}
  IN {list[i] : i \in {j \in at : \A k \in at : k <= j}}

-----------------------------------------------------------------------------
(***************************************************************************)
(* Properties.                                                             *)
(***************************************************************************)
TypeOK ==
  /\ includes \in Graphs
  /\ given \in Seq(Names)
  /\ pending \in Seq(Names)
  /\ seen \in Seq(Known)
  /\ outcome \in {"running", "returned", "raised"}

\* The answer lists no environment twice: the flags of one are counted once.
NoDuplicates == \A i, j \in 1..Len(seen) : seen[i] = seen[j] => i = j

\* Which environment decides a flag, in terms of what the caller wrote: an
\* included one before any of the caller's own, whatever the row order; and
\* of the caller's own the one that is first named last.
FlagPrecedence ==
  outcome = "returned" =>
    LET own == {i \in 1..Len(given) : given[i] \in Setters}
        first == {i \in own : \A j \in own : given[j] = given[i] => i <= j}
        included == (Among(seen) \cap Setters) \ Among(given)
    IN FlagFrom(seen) \subseteq
         IF included # {} THEN included
         ELSE {given[i] : i \in {j \in first : \A k \in first : k <= j}}

Union ==
  INSTANCE EnvUnion WITH
    named <- Among(given),
    visible <- IF outcome = "returned" THEN Among(seen) ELSE {}

\* The work list computes the least closed set, for every include relation,
\* cyclic or dangling, and in every row order; it raises exactly when an
\* unknown name is in reach; and cyclic includes do not keep it going.
ComputesUnion == Union!Spec
=============================================================================
