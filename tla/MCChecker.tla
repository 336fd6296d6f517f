----------------------------- MODULE MCChecker -----------------------------
(***************************************************************************)
(* Signatures of the standard library, one with two candidates that share  *)
(* nothing, one that relates its arguments, one that takes them apart, one *)
(* without arguments.                                                      *)
(***************************************************************************)
EXTENDS Checker

A == Param(-1)
B == Param(-2)

Signature(args, result) == [args |-> args, result |-> result]

MCFunctions == {"_+_", "_==_", "_[_]", "_&&_", "optional.none"}

MCOverloads ==
  [f \in MCFunctions |->
     CASE f = "_+_" -> << Signature(<<IntType, IntType>>, IntType), Signature(<<List(A), List(A)>>, List(A)) >>
       [] f = "_==_" -> << Signature(<<A, A>>, BoolType) >>
       [] f = "_[_]" -> << Signature(<<List(A), IntType>>, A), Signature(<<Map(A, B), A>>, B) >>
       [] f = "optional.none" -> << Signature(<<>>, Term("optional", <<A>>)) >>
       [] f = "_&&_" -> <<>>]

MCLeaves == {IntType, NullType, Plain("struct"), Wrapper(IntType), Map(IntType, BoolType)}

MCGrounds == {IntType, DynType, List(IntType)}
=============================================================================
