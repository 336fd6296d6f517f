---------------------------- MODULE MCResolution ----------------------------
(***************************************************************************)
(* Two segments; up to MaxGlobals names declared as a variable, registered *)
(* as a type, or both, and up to MaxBound bound; chains of up to three     *)
(* segments in containers of up to two; two nested comprehensions and      *)
(* cel.bind.                                                               *)
(***************************************************************************)
EXTENDS Resolution, FiniteSets

CONSTANTS
  a, b,       \* the segments
  MaxGlobals, \* bound: declared names
  MaxBound    \* bound: names in the activation

MCNames == {<<a>>, <<b>>, <<a, b>>, <<b, a>>, <<a, b, a>>, <<b, a, b>>}

MCGlobals ==
  {g \in [vars : SUBSET MCNames, types : SUBSET MCNames] :
     Cardinality(g.vars \cup g.types) <= MaxGlobals}

MCActivations == {s \in SUBSET MCNames : Cardinality(s) <= MaxBound}

MCContainers == {<<>>, <<a>>, <<b, a>>}
MCChains == {<<a>>, <<a, b>>, <<b, a>>, <<a, b, a>>}

Loop(iters) == [accu |-> Hidden, iters |-> iters, at |-> "loop"]
Bind(v) == [accu |-> v, iters |-> {}, at |-> "result"]

MCScopes ==
  { <<>>, <<Loop({a})>>, <<Bind(a)>>, <<Loop({a}), Loop({a, b})>>, <<Loop({a}), Bind(b)>>,
    <<Bind(a), Loop({b})>> }
=============================================================================
