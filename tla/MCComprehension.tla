-------------------------- MODULE MCComprehension --------------------------
(***************************************************************************)
(* Every mix of two errors, two unknowns, both bools and a value of a      *)
(* wrong type over ranges of up to MaxLen elements.                        *)
(***************************************************************************)
EXTENDS Comprehension

MCPredicates ==
  Bools \cup {Other, Error(1), Error(2), Unknown({1}), Unknown({2})}
MCTransforms == {Other, Error(3), Unknown({3})}
MCEntries == {Map({1}), Map({1, 2})}
MCStrays == {Other, Error(1), Unknown({1})}
=============================================================================
