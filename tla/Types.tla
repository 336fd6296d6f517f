------------------------------- MODULE Types -------------------------------
(***************************************************************************)
(* The types of the checker and what 040_check.sql computes of them under  *)
(* a substitution. A type is a term: its kind (of messages there is one,   *)
(* "struct", and of opaque types one, "optional"), its parameters and, for *)
(* a type variable, its number. With a term come its parts, all terms      *)
(* below it: what the code computes by recursion on a type is a function   *)
(* on them. A substitution is a function on type variables.                *)
(***************************************************************************)
EXTENDS Integers, Sequences, FiniteSets

Parts(t) == {t} \cup t.parts

Term(kind, params) ==
  [k |-> kind, n |-> 0, ps |-> params,
   parts |-> UNION {Parts(params[i]) : i \in DOMAIN params}]
Plain(kind) == Term(kind, <<>>)
List(t) == Term("list", <<t>>)
Map(t, u) == Term("map", <<t, u>>)
Wrapper(t) == Term("wrapper", <<t>>)

\* The variables of a signature have negative numbers.
Param(i) == [k |-> "param", n |-> i, ps |-> <<>>, parts |-> {}]

DynType == Plain("dyn")
NullType == Plain("null")
BoolType == Plain("bool")
IntType == Plain("int")
NoType == Plain("none")

IsParam(t) == t.k = "param"
IsDyn(t) == t.k \in {"dyn", "any"}
DynOrErr(t) == IsDyn(t) \/ t.k = "error"
Composite(t) == t.k \in {"list", "map", "optional"}

\* The variables that occur in a type as it stands.
Occurring(t) == {u \in Parts(t) : IsParam(u)}

\* cel._ck_nullable: the opaque type and the message are among them.
Nullable(t) == t.k \in {"optional", "struct", "any", "duration", "timestamp", "wrapper", "null"}

\* The params of a type of each kind; what is wrapped is a primitive.
ParamsOf(t) ==
  CASE t.k \in {"list", "optional"} -> Len(t.ps) = 1
    [] t.k = "map" -> Len(t.ps) = 2
    [] t.k = "wrapper" -> Len(t.ps) = 1 /\ t.ps[1] = Plain(t.ps[1].k) /\ ~ IsParam(t.ps[1])
    [] t.k = "type" -> Len(t.ps) <= 1
    [] OTHER -> t.ps = <<>>

\* Well made by the constructors above.
WellMade(t) ==
  IF IsParam(t) THEN t.n \in Int /\ t = Param(t.n)
  ELSE /\ t.k # "none" /\ t = Term(t.k, t.ps)
       /\ t.ps \in Seq(t.parts) /\ IsFiniteSet(t.parts) /\ t \notin t.parts
       /\ ParamsOf(t)

IsType(t) == \A u \in Parts(t) : WellMade(u)

\* Without variables.
Ground(t) == IsType(t) /\ Occurring(t) = {}

(***************************************************************************)
(* cel._ck_subst, cel._ck_not_ref_in, cel._ck_less_specific.               *)
(***************************************************************************)
\* All that following bindings from t can come to.
Below(m, t) == Parts(t) \cup UNION {Parts(m[p]) : p \in DOMAIN m}

Subst(m, t, todyn) ==
  LET sub[u \in Below(m, t)] ==
        IF IsParam(u)
          THEN IF u \in DOMAIN m THEN sub[m[u]] ELSE IF todyn THEN DynType ELSE u
          ELSE Term(u.k, [i \in DOMAIN u.ps |-> sub[u.ps[i]]])
  IN sub[t]

\* Variant: bindings are not followed.
NotRefInHere(m, t, w) == t \notin Occurring(w)

\* The variables met from w on: its own, and those of what these are bound to.
Meets(m, w, S) ==
  /\ Occurring(w) \subseteq S
  /\ \A p \in S \cap DOMAIN m : Occurring(m[p]) \subseteq S

\* Variant: an unbound variable counts as a reference.
NotRefInUnbound(m, t, w) ==
  Occurring(w) \subseteq DOMAIN m /\ \E S \in SUBSET (DOMAIN m \ {t}) : Meets(m, w, S)

\* The occurs check: t is not met from w.
NotRefIn(m, t, w) ==
  \E S \in SUBSET ({u \in Below(m, w) : IsParam(u)} \ {t}) : Meets(m, w, S)

LessSpecific(t1, t2) ==
  LET less[u1 \in Parts(t1), u2 \in Parts(t2)] ==
        \/ IsDyn(u1) \/ IsParam(u1)
        \/ /\ ~ IsDyn(u2) /\ ~ IsParam(u2)
           /\ u1.k = u2.k
           /\ IF Composite(u1)
                THEN Len(u1.ps) = Len(u2.ps) /\ \A i \in DOMAIN u1.ps : less[u1.ps[i], u2.ps[i]]
                ELSE u1.k = "type" \/ u1 = u2
  IN less[t1, t2]

MostGeneral(t1, t2) == IF LessSpecific(t1, t2) THEN t1 ELSE t2

\* What cel._ck_assign1 accepts at once, of two types that are no variables.
Accepts(t1, t2) ==
  \/ DynOrErr(t1) \/ DynOrErr(t2)
  \/ t1.k = "null" /\ Nullable(t2)
  \/ t2.k = "null" /\ Nullable(t1)
  \/ t2.k = "wrapper" /\ t1 \in {t2, t2.ps[1]}
  \/ t1.k = t2.k /\ ~ Composite(t1) /\ t1.k # "wrapper"
=============================================================================
