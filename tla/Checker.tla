------------------------------ MODULE Checker ------------------------------
(***************************************************************************)
(* The type checker of 040_check.sql: cel._ck walking an expression, cel.- *)
(* _ck_resolve trying the overloads of a call one after another on the one *)
(* substitution of the check, and cel._ck_assign1 unifying. The recursion  *)
(* is unfolded: open is the nodes being checked, todo what is left of the  *)
(* assignment in progress. The expression is not given but grows as it is  *)
(* walked, up to Nodes nodes.                                              *)
(*                                                                         *)
(* A comprehension is what the macros make of it, a collector (the step    *)
(* accu + [e] on an empty list) or a quantifier (accu && e on a bool).     *)
(***************************************************************************)
EXTENDS Types

CONSTANTS
  Leaves,    \* the types of literals and of declared variables
  Functions, \* function names, "_+_" and "_&&_" among them
  Overloads, \* per function, its signatures in declaration order
  Grounds,   \* types without variables, for the properties
  Nodes      \* bound: nodes of an expression

Arity(f) == IF f = "_&&_" THEN 2 ELSE Len(Overloads[f][1].args)

Listed(s) == {s[i] : i \in DOMAIN s}
IsSeq(s) == s \in Seq(Listed(s))

SignatureTypes(sig) == Listed(sig.args) \cup {sig.result}
SignatureParams(sig) == UNION {Occurring(t) : t \in SignatureTypes(sig)}

\* Of one arity, over variables of its own.
SignatureOK(sig, f) ==
  /\ IsSeq(sig.args) /\ Len(sig.args) = Arity(f)
  /\ \A t \in SignatureTypes(sig) : IsType(t)
  /\ \A p \in SignatureParams(sig) : p.n < 0

ASSUME CheckerAssumption ==
  /\ {"_+_", "_&&_"} \subseteq Functions /\ Arity("_+_") = 2
  /\ \A f \in Functions \ {"_&&_"} :
       /\ IsSeq(Overloads[f]) /\ Overloads[f] # <<>>
       /\ \A j \in DOMAIN Overloads[f] : SignatureOK(Overloads[f][j], f)
  /\ \A t \in Leaves \cup Grounds : Ground(t)
  /\ Nodes \in Nat

VARIABLES
  pc,    \* "node", "typed", "assign", "assigned", "done" or "failed"
  open,  \* the nodes being checked, outermost first
  typ,   \* the type a node has come to
  m,     \* the substitution
  n,     \* the number of the next fresh variable
  todo,  \* what is left of the assignment in progress
  saved, \* the substitution before it
  ok,    \* how it went
  left,  \* nodes the expression may still have
  goal,  \* history: the pairs of the assignment in progress
  facts  \* history: the pairs of all assignments that succeeded

vars == <<pc, open, typ, m, n, todo, saved, ok, left, goal, facts>>

-----------------------------------------------------------------------------
Init ==
  /\ pc = "node" /\ open = <<>> /\ typ = NoType
  /\ m = <<>> /\ n = 0
  /\ todo = <<>> /\ saved = <<>> /\ ok = TRUE
  /\ left = Nodes
  /\ goal = {} /\ facts = {}

Top == open[Len(open)]
Pop == SubSeq(open, 1, Len(open) - 1)
InNode(kind) == open # <<>> /\ Top.node = kind
Become(frame) == open' = Pop \o <<frame>>

Returns(t) == typ' = t /\ pc' = "typed"

(***************************************************************************)
(* Assignments: cel._ck_assign_list of two lists of types.                 *)
(***************************************************************************)
Assign(t1, t2) == [do |-> "assign", t1 |-> t1, t2 |-> t2, old |-> NoType]
Widen(t, p, old) == [do |-> "widen", t1 |-> t, t2 |-> p, old |-> old]

Start(l1, l2) ==
  /\ pc' = "assign"
  /\ todo' = [i \in DOMAIN l1 |-> Assign(l1[i], l2[i])]
  /\ saved' = m
  /\ goal' = {<<l1[i], l2[i]>> : i \in DOMAIN l1}

Idle == UNCHANGED <<todo, saved, ok, goal, facts>>

Task == todo[1]
Assigning == pc = "assign" /\ todo # <<>> /\ Task.do = "assign"
NoVariables == ~ IsParam(Task.t1) /\ ~ IsParam(Task.t2)

Continue(tasks) ==
  /\ todo' = tasks \o Tail(todo)
  /\ UNCHANGED <<pc, open, typ, n, saved, ok, left, goal, facts>>

Bind(p, t) == [q \in DOMAIN m \cup {p} |-> IF q \in DOMAIN m THEN m[q] ELSE t]

\* cel._ck_valid_sub: the variable p in place of t. It fails, and has not
\* found a binding, only where the occurs check refuses.
CanSubstitute(t, p) == t = p \/ p \in DOMAIN m \/ NotRefIn(m, p, t)

\* Variant: a bound variable is only widened.
SubstituteUnchecked(t, p) ==
  IF t = p \/ (p \in DOMAIN m /\ m[p] = t) THEN m' = m /\ Continue(<<>>)
  ELSE IF p \in DOMAIN m
    THEN m' = m /\ Continue(<<Widen(t, p, m[p])>>)
  ELSE m' = Bind(p, t) /\ Continue(<<>>)

Substitute(t, p) ==
  IF t = p \/ (p \in DOMAIN m /\ m[p] = t) THEN m' = m /\ Continue(<<>>)
  ELSE IF p \in DOMAIN m
    THEN m' = m /\ Continue(<<Assign(t, m[p]), Widen(t, p, m[p])>>)
  ELSE m' = Bind(p, t) /\ Continue(<<>>)

SubstituteRight ==
  /\ Assigning
  /\ IsParam(Task.t2) /\ CanSubstitute(Task.t1, Task.t2)
  /\ Substitute(Task.t1, Task.t2)

SubstituteLeft ==
  /\ Assigning
  /\ ~ (IsParam(Task.t2) /\ CanSubstitute(Task.t1, Task.t2))
  /\ IsParam(Task.t1) /\ CanSubstitute(Task.t2, Task.t1)
  /\ Substitute(Task.t2, Task.t1)

\* After the bound type has been assigned: the variable is bound to the
\* more general of the two.
WidenBinding ==
  /\ pc = "assign" /\ todo # <<>> /\ Task.do = "widen"
  /\ LET t == MostGeneral(Task.t1, Task.old)
     IN m' = IF NotRefIn(m, Task.t2, t) THEN [m EXCEPT ![Task.t2] = t] ELSE m
  /\ Continue(<<>>)

Accept ==
  /\ Assigning /\ NoVariables
  /\ Accepts(Task.t1, Task.t2)
  /\ m' = m /\ Continue(<<>>)

Alike(t1, t2) ==
  Composite(t1) /\ t1.k = t2.k /\ Len(t1.ps) = Len(t2.ps)

Descend ==
  /\ Assigning /\ NoVariables
  /\ ~ Accepts(Task.t1, Task.t2) /\ Alike(Task.t1, Task.t2)
  /\ m' = m
  /\ Continue([i \in DOMAIN Task.t1.ps |-> Assign(Task.t1.ps[i], Task.t2.ps[i])])

Misfits ==
  IF NoVariables THEN ~ Accepts(Task.t1, Task.t2) /\ ~ Alike(Task.t1, Task.t2)
  ELSE /\ IsParam(Task.t2) => ~ CanSubstitute(Task.t1, Task.t2)
       /\ IsParam(Task.t1) => ~ CanSubstitute(Task.t2, Task.t1)

\* Variant: the bindings made so far are kept.
GiveUpHere ==
  /\ Assigning /\ Misfits
  /\ pc' = "assigned" /\ ok' = FALSE
  /\ todo' = <<>> /\ m' = m
  /\ UNCHANGED <<open, typ, n, saved, left, goal, facts>>

\* One pair does not fit: the substitution is the caller's again.
GiveUp ==
  /\ Assigning /\ Misfits
  /\ pc' = "assigned" /\ ok' = FALSE
  /\ todo' = <<>> /\ m' = saved
  /\ UNCHANGED <<open, typ, n, saved, left, goal, facts>>

Succeed ==
  /\ pc = "assign" /\ todo = <<>>
  /\ pc' = "assigned" /\ ok' = TRUE
  /\ facts' = facts \cup goal
  /\ UNCHANGED <<open, typ, m, n, todo, saved, left, goal>>

(***************************************************************************)
(* Calls: cel._ck_instantiate and cel._ck_resolve.                         *)
(***************************************************************************)
\* The variables of a signature, made fresh.
Fresh(sig, k) ==
  LET ps == SignatureParams(sig)
  IN [p \in ps |-> Param(k + Cardinality({q \in ps : q.n > p.n}))]

Instance(sig, k) ==
  [args |-> [i \in DOMAIN sig.args |-> Subst(Fresh(sig, k), sig.args[i], FALSE)],
   result |-> Subst(Fresh(sig, k), sig.result, FALSE)]

CallFrame(f, args) ==
  [node |-> "call", fn |-> f, args |-> args, cand |-> 0, result |-> NoType, type |-> NoType]

\* The frame, in the nodes below, tries its next candidate.
Try(below, frame) ==
  LET sig == Overloads[frame.fn][frame.cand + 1]
      inst == Instance(sig, n)
  IN /\ open' = below \o <<[frame EXCEPT !.cand = @ + 1, !.result = inst.result]>>
     /\ n' = n + Cardinality(SignatureParams(sig))
     /\ Start(frame.args, inst.args)

\* The arguments are typed. The logical operators have a rule of their own.
Resolve(below, frame) ==
  IF frame.fn = "_&&_"
    THEN /\ open' = below \o <<frame>> /\ n' = n
         /\ Start(frame.args, [i \in DOMAIN frame.args |-> BoolType])
    ELSE Try(below, frame)

Argument ==
  /\ pc = "typed" /\ InNode("call")
  /\ LET frame == [Top EXCEPT !.args = Append(@, typ)]
     IN IF Len(frame.args) < Arity(frame.fn)
          THEN Become(frame) /\ pc' = "node" /\ n' = n /\ UNCHANGED <<todo, saved, goal>>
          ELSE Resolve(Pop, frame)
  /\ UNCHANGED <<typ, m, ok, left, facts>>

\* The result of a candidate that fits, next to those before it.
Matched(frame) ==
  IF ~ ok THEN frame.type
  ELSE LET t == Subst(m, frame.result, FALSE)
       IN IF frame.type = NoType \/ frame.type = t THEN t
          ELSE IF IsDyn(frame.type) THEN frame.type ELSE DynType

Candidate ==
  /\ pc = "assigned" /\ InNode("call") /\ Top.fn # "_&&_"
  /\ LET frame == [Top EXCEPT !.type = Matched(Top)]
     IN IF frame.cand < Len(Overloads[frame.fn])
          THEN Try(Pop, frame) /\ UNCHANGED <<typ, ok, facts>>
        ELSE IF frame.type = NoType
          THEN pc' = "failed" /\ UNCHANGED <<open, typ, n>> /\ Idle
        ELSE open' = Pop /\ Returns(frame.type) /\ n' = n /\ Idle
  /\ UNCHANGED <<m, left>>

Logical ==
  /\ pc = "assigned" /\ InNode("call") /\ Top.fn = "_&&_"
  /\ IF ok THEN open' = Pop /\ Returns(BoolType)
     ELSE pc' = "failed" /\ UNCHANGED <<open, typ>>
  /\ UNCHANGED <<m, n, left>> /\ Idle

-----------------------------------------------------------------------------
(***************************************************************************)
(* Nodes: cel._ck.                                                         *)
(***************************************************************************)
\* The children a node needs before it can come to a type, and those that
\* the open nodes still need: an expression is only begun with room to end.
Needs(f) ==
  CASE f.node = "call" -> Arity(f.fn) - Len(f.args)
    [] f.node = "comp" -> IF f.at = "range" THEN 2 ELSE IF f.at = "step" THEN 1 ELSE 0
    [] f.node = "select" -> 1
    [] f.node = "list" -> 0

Owed ==
  LET sum[i \in 0..Len(open)] ==
        IF i = 0 THEN 0
        ELSE sum[i - 1] + (IF i < Len(open) /\ open[i].node = "list" THEN 0
                           ELSE Needs(open[i]) - (IF i < Len(open) THEN 1 ELSE 0))
  IN sum[Len(open)]

Room(children) ==
  /\ pc = "node" /\ left > 0
  /\ (open = <<>> \/ InNode("list") => left >= 1 + Owed + children)
  /\ (open # <<>> /\ ~ InNode("list") => left >= Owed + children)

Enter(frame) ==
  /\ Room(Needs(frame))
  /\ open' = Append(open, frame)
  /\ left' = left - 1
  /\ UNCHANGED <<pc, typ, m, n>> /\ Idle

Locals == {open[i].var : i \in {j \in DOMAIN open : open[j].node = "comp" /\ open[j].at = "step"}}

Leaf ==
  /\ Room(0)
  /\ \E t \in Leaves \cup Locals : Returns(t)
  /\ left' = left - 1
  /\ UNCHANGED <<open, m, n>> /\ Idle

EnterCall == \E f \in Functions : Arity(f) > 0 /\ Enter(CallFrame(f, <<>>))

\* Without arguments, the candidates are tried at once.
NullaryCall ==
  /\ Room(0)
  /\ \E f \in Functions : Arity(f) = 0 /\ Try(open, CallFrame(f, <<>>))
  /\ left' = left - 1
  /\ UNCHANGED <<typ, m, ok, facts>>

EnterList == Enter([node |-> "list", type |-> NoType])
EnterSelect == Enter([node |-> "select"])
EnterComp ==
  \E c \in BOOLEAN :
    Enter([node |-> "comp", collects |-> c, at |-> "range", var |-> NoType, accu |-> NoType])

\* cel._ck_join of an element with those before it.
Element ==
  /\ pc = "typed" /\ InNode("list")
  /\ IF Top.type = NoType
       THEN Become([Top EXCEPT !.type = typ]) /\ pc' = "node" /\ UNCHANGED <<todo, saved, goal>>
       ELSE open' = open /\ Start(<<Top.type>>, <<typ>>)
  /\ UNCHANGED <<typ, m, n, ok, left, facts>>

JoinedType(prev, cur) ==
  IF ~ ok THEN DynType
  ELSE IF prev.k = "null" /\ Nullable(cur) /\ cur.k # "null" THEN cur
  ELSE IF cur.k = "null" /\ Nullable(prev) /\ prev.k # "null" THEN prev
  ELSE MostGeneral(prev, cur)

Join ==
  /\ pc = "assigned" /\ InNode("list")
  /\ Become([Top EXCEPT !.type = JoinedType(@, typ)])
  /\ pc' = "node"
  /\ UNCHANGED <<typ, m, n, left>> /\ Idle

\* Variant: an empty list takes no variable of its own.
EndListShared ==
  /\ pc = "node" /\ InNode("list")
  /\ open' = Pop
  /\ Returns(List(IF Top.type = NoType THEN Param(n) ELSE Top.type))
  /\ n' = n
  /\ UNCHANGED <<m, left>> /\ Idle

\* An empty list is a list of a fresh variable.
EndList ==
  /\ pc = "node" /\ InNode("list")
  /\ open' = Pop
  /\ IF Top.type = NoType
       THEN Returns(List(Param(n))) /\ n' = n + 1
       ELSE Returns(List(Top.type)) /\ n' = n
  /\ UNCHANGED <<m, left>> /\ Idle

\* cel._ck_sel_type and the range of a comprehension: a type that is not
\* known yet becomes dyn.
BindsDyn(t) ==
  IF IsParam(t)
    THEN m' = Bind(t, DynType) /\ facts' = facts \cup {<<DynType, t>>}
    ELSE UNCHANGED <<m, facts>>

\* The value of a map, of whatever keys; of an optional one it is optional.
Select ==
  /\ pc = "typed" /\ InNode("select")
  /\ LET t == Subst(m, typ, FALSE)
         opt == t.k = "optional"
         of == IF opt THEN t.ps[1] ELSE t
         value == IF of.k = "map" THEN of.ps[2] ELSE DynType
     IN IF of.k \in {"map", "wrapper"} \/ DynOrErr(of) \/ IsParam(of)
          THEN open' = Pop /\ BindsDyn(of) /\ Returns(IF opt THEN Term("optional", <<value>>) ELSE value)
          ELSE pc' = "failed" /\ UNCHANGED <<open, typ, m, facts>>
  /\ UNCHANGED <<n, todo, saved, ok, goal, left>>

\* The range is typed, and the initial accumulator of the macro.
RangeTyped ==
  /\ pc = "typed" /\ InNode("comp") /\ Top.at = "range"
  /\ LET t == Subst(m, typ, FALSE)
         var == IF t.k \in {"list", "map"} THEN t.ps[1] ELSE DynType
         accu == IF Top.collects THEN List(Param(n)) ELSE BoolType
     IN IF t.k \in {"list", "map"} \/ DynOrErr(t) \/ IsParam(t)
          THEN /\ Become([Top EXCEPT !.at = "step", !.var = var, !.accu = accu])
               /\ pc' = "node"
               /\ n' = IF Top.collects THEN n + 1 ELSE n
               /\ BindsDyn(t)
          ELSE pc' = "failed" /\ UNCHANGED <<open, n, m, facts>>
  /\ UNCHANGED <<typ, todo, saved, ok, goal, left>>

\* The macro's step around the body: accu + [e], or accu && e.
Body ==
  /\ pc = "typed" /\ InNode("comp") /\ Top.at = "step"
  /\ Resolve(Pop \o <<[Top EXCEPT !.at = "result"]>>,
             IF Top.collects THEN CallFrame("_+_", <<Top.accu, List(typ)>>)
             ELSE CallFrame("_&&_", <<Top.accu, typ>>))
  /\ UNCHANGED <<typ, m, ok, left, facts>>

\* The step's type is assigned to the accumulator's, which is the result.
StepTyped ==
  /\ pc = "typed" /\ InNode("comp") /\ Top.at = "result"
  /\ Start(<<Top.accu>>, <<typ>>)
  /\ UNCHANGED <<open, typ, m, n, ok, left, facts>>

Result ==
  /\ pc = "assigned" /\ InNode("comp")
  /\ IF ok THEN open' = Pop /\ Returns(Subst(m, Top.accu, FALSE))
     ELSE pc' = "failed" /\ UNCHANGED <<open, typ>>
  /\ UNCHANGED <<m, n, left>> /\ Idle

\* cel.check: what is still unknown is dyn.
Finish ==
  /\ pc = "typed" /\ open = <<>>
  /\ pc' = "done" /\ typ' = Subst(m, typ, TRUE)
  /\ UNCHANGED <<open, m, n, left>> /\ Idle

Next ==
  \/ Leaf \/ EnterCall \/ NullaryCall \/ EnterList \/ EnterSelect \/ EnterComp
  \/ Argument \/ Candidate \/ Logical
  \/ Element \/ Join \/ EndList \/ Select
  \/ RangeTyped \/ Body \/ StepTyped \/ Result \/ Finish
  \/ SubstituteRight \/ SubstituteLeft \/ WidenBinding \/ Accept \/ Descend
  \/ GiveUp \/ Succeed

Spec == Init /\ [][Next]_vars

-----------------------------------------------------------------------------
(***************************************************************************)
(* Properties.                                                             *)
(***************************************************************************)
\* A type over the first k variables. In use: over those handed out.
Over(t, k) == IsType(t) /\ \A p \in Occurring(t) : p.n \in 0..(k - 1)
InUse(t) == Over(t, n)

TypeOK ==
  /\ pc \in {"node", "typed", "assign", "assigned", "done", "failed"}
  /\ n \in Nat /\ left \in 0..Nodes /\ ok \in BOOLEAN
  /\ pc \in {"typed", "done"} => InUse(typ)
  /\ \A f \in {m, saved} : \A p \in DOMAIN f : IsParam(p) /\ InUse(p) /\ InUse(f[p])
  /\ \A q \in goal \cup facts : InUse(q[1]) /\ InUse(q[2])
  /\ pc \in {"assigned", "done"} => todo = <<>>
  /\ pc = "done" => open = <<>> /\ Occurring(typ) = {}

\* No variable is bound, directly or through others, to a type it occurs
\* in: cel._ck_subst and the occurs check, which follow bindings, return.
NoCycle(f) ==
  \A S \in SUBSET DOMAIN f : S # {} => \E p \in S : Occurring(f[p]) \cap S = {}

Acyclic == NoCycle(m)

(***************************************************************************)
(* Against substitutions of types for the variables: what was assigned, as *)
(* pairs to be made equal, and the bindings.                               *)
(***************************************************************************)
Variables(pairs) == UNION {Occurring(q[1]) \cup Occurring(q[2]) : q \in pairs}
BindingsOf(f) == {<<p, f[p]>> : p \in DOMAIN f}
Bindings == BindingsOf(m)

Unifies(s, pairs) == \A q \in pairs : Subst(s, q[1], FALSE) = Subst(s, q[2], FALSE)

\* An assignment fails only if no types for the variables still unbound make
\* the pairs equal.
RejectsOnlyMisfits ==
  pc = "assigned" /\ ~ ok =>
    LET pairs == {<<Subst(m, q[1], FALSE), Subst(m, q[2], FALSE)>> : q \in goal}
    IN \A s \in [Variables(pairs) -> Grounds] : ~ Unifies(s, pairs)

\* The substitution says no more than the assignments that succeeded: a
\* candidate that failed, or an occurs check, leaves nothing behind.
NothingMore ==
  pc = "assigned" =>
    \A s \in [Variables(facts \cup Bindings) -> Grounds] : Unifies(s, facts) => Unifies(s, Bindings)

\* Without a wildcard, null, a wrapper or the type of types, which are
\* assignable to what they do not equal.
Strict(t) == \A u \in Parts(t) : ~ DynOrErr(u) /\ u.k \notin {"null", "wrapper", "type"}
StrictPairs(pairs) == \A q \in pairs : Strict(q[1]) /\ Strict(q[2])

\* The substitution says no less: what was assigned once is the same type to
\* the end of the check, however the variables are bound and widened later.
NothingLess ==
  pc # "assign" /\ StrictPairs(facts) =>
    \A q \in facts : Subst(m, q[1], FALSE) = Subst(m, q[2], FALSE)
=============================================================================
