----------------------------- MODULE Resolution -----------------------------
(***************************************************************************)
(* What a dotted chain a.b.c means: as the checker resolves it, rewriting  *)
(* the node (040_check.sql), and as the evaluator then looks the rewritten *)
(* node up, or the parsed one when nothing has been checked                *)
(* (050_eval.sql). One behaviour is one chain, at one place inside nested  *)
(* comprehensions. The two passes keep different scopes and search them in *)
(* different orders.                                                       *)
(*                                                                         *)
(* A dotted name is a sequence of segments.                                *)
(***************************************************************************)
EXTENDS Integers, Sequences

CONSTANTS
  Segments,    \* identifiers
  Hidden,      \* the accumulator variable of the standard macros
  Globals,     \* the sets of declared names considered: variables and types
  Activations, \* the sets of names considered that the activation binds
  Containers,  \* the containers considered, the empty one included
  Chains,      \* the chains considered
  Scopes       \* the places considered: the comprehensions around, outermost first

Dotted == Seq(Segments) \ {<<>>}

\* A comprehension as its variables, seen from its loop or from its result;
\* cel.bind has its variable for an accumulator, and its body for a result.
Comprehension ==
  [accu : Segments \cup {Hidden}, iters : SUBSET Segments, at : {"loop", "result"}]

ASSUME HiddenAssumption == Hidden \notin Segments

ASSUME ResolutionAssumption ==
  /\ Globals \subseteq [vars : SUBSET Dotted, types : SUBSET Dotted]
  /\ Activations \subseteq SUBSET Dotted
  /\ Containers \subseteq Seq(Segments)
  /\ Chains \subseteq Dotted
  /\ Scopes \subseteq Seq(Comprehension)

VARIABLES
  chain,     \* the chain
  absolute,  \* it has a leading dot
  scope,     \* the comprehensions around it
  declared,  \* the declared variables and the registered types
  bound,     \* the names the activation binds
  container, \* the container
  pc,        \* "check", "eval", "types", "done" or "rejected"
  n,         \* checker: the parts of the chain still read as one name
  ref,       \* checker: the reference it leaves, none before that
  parts,     \* evaluator: the parts of the node's chain, dotted names each
  dot,       \* evaluator: the node has a leading dot
  ctr,       \* evaluator: the container in use
  frame,     \* evaluator: the frame it is at, 0 for the activation
  got        \* evaluator: what is found, and the fields still to select

inputs == <<chain, absolute, scope, declared, bound, container>>
vars == <<inputs, pc, n, ref, parts, dot, ctr, frame, got>>

-----------------------------------------------------------------------------
(***************************************************************************)
(* Names and scopes.                                                       *)
(***************************************************************************)
None == [root |-> <<"none">>, fields |-> <<>>]
Local(level, role) == <<"local", level, role>>
Var(name) == <<"var", name>>
Type(name) == <<"type", name>>

\* What a global name is to the checker: a declaration replaces the type of
\* its name (globals || decls).
Global(name) == IF name \in declared.types \ declared.vars THEN Type(name) ELSE Var(name)

\* Variant: the least qualified name first.
CandidatesFromRoot(name, abs, c) ==
  IF abs \/ c = <<>> THEN <<name>>
  ELSE [k \in 1..(Len(c) + 1) |-> SubSeq(c, 1, k - 1) \o name]

\* cel._name_candidates: container a.b tries a.b.name, a.name, name.
Candidates(name, abs, c) ==
  IF abs \/ c = <<>> THEN <<name>>
  ELSE [k \in 1..(Len(c) + 1) |-> SubSeq(c, 1, Len(c) + 1 - k) \o name]

First(cands, S) ==
  LET hits == {k \in 1..Len(cands) : cands[k] \in S}
  IN IF hits = {} THEN <<>> ELSE cands[CHOOSE k \in hits : \A j \in hits : k <= j]

\* The checker's frames for the k-th comprehension: the accumulator's, then
\* that of the iteration variables, which is gone in the result.
OwnFrames(s, k) ==
  <<[v \in {s[k].accu} |-> Local(k, "accu")]>>
    \o (IF s[k].at = "result" THEN <<>> ELSE <<[v \in s[k].iters |-> Local(k, "iter")]>>)

CheckFrames(s) ==
  LET own == [k \in 1..Len(s) |-> OwnFrames(s, k)]
      body[k \in 0..Len(s)] == IF k = 0 THEN <<>> ELSE body[k - 1] \o own[k]
  IN body[Len(s)]

\* The evaluator's: one per comprehension, in which an iteration variable
\* overwrites an accumulator of its name.
EvalFrame(k) ==
  LET c == scope[k]
      iters == IF c.at = "loop" THEN c.iters ELSE {}
  IN [v \in iters \cup {c.accu} |-> IF v \in iters THEN Local(k, "iter") ELSE Local(k, "accu")]

\* cel._ck_local, innermost first.
CheckLocal(v) ==
  LET fs == CheckFrames(scope)
      hits == {k \in 1..Len(fs) : v \in DOMAIN fs[k]}
  IN IF hits = {} THEN <<"none">> ELSE fs[CHOOSE k \in hits : \A j \in hits : j <= k][v]

-----------------------------------------------------------------------------
Init ==
  /\ chain \in Chains
  /\ absolute \in BOOLEAN
  /\ scope \in Scopes
  /\ declared \in Globals
  /\ bound \in Activations
  /\ container \in Containers
  /\ \/ \* cel.check, then cel.eval of its result
        /\ pc = "check"
        /\ parts = <<>> /\ dot = FALSE /\ ctr = <<>> /\ frame = 0
     \/ \* cel.eval of the parse, with the container among its options
        /\ pc = "eval"
        /\ parts = [k \in 1..Len(chain) |-> <<chain[k]>>]
        /\ dot = absolute /\ ctr = container
        /\ frame = IF absolute THEN 0 ELSE Len(scope)
  /\ n = Len(chain)
  /\ ref = None
  /\ got = None

(***************************************************************************)
(* The checker.                                                            *)
(***************************************************************************)
\* The reference replaces the first n parts by an identifier of that name;
\* cel.eval takes it from there, in no container and with fields selected.
\* root is what the checker means by it.
Rewritten(root, name, dotted) ==
  /\ ref' = [root |-> root, fields |-> SubSeq(chain, n + 1, Len(chain))]
  /\ parts' = <<name>> \o [k \in 1..(Len(chain) - n) |-> <<chain[n + k]>>]
  /\ dot' = dotted
  /\ ctr' = <<>>
  /\ frame' = IF dotted THEN 0 ELSE Len(scope)
  /\ pc' = "eval"
  /\ UNCHANGED <<inputs, n, got>>

\* The global the first n parts name, if any; a leading dot is kept where a
\* local variable would be in the way.
GlobalRef ==
  Global(First(Candidates(SubSeq(chain, 1, n), absolute, container),
               declared.vars \cup declared.types))

Shadowed == CheckLocal(chain[1]) # <<"none">>

\* Variant: the leading dot is dropped.
AsGlobalPlain ==
  /\ GlobalRef[2] # <<>>
  /\ Rewritten(GlobalRef, GlobalRef[2], FALSE)

AsGlobal ==
  /\ GlobalRef[2] # <<>>
  /\ Rewritten(GlobalRef, GlobalRef[2], Shadowed)

\* cel._ck_qualified on a chain of several parts; failing that, the last
\* part is a field of the rest.
Qualified ==
  /\ pc = "check" /\ n > 1
  /\ Shadowed => absolute
  /\ AsGlobal

Field ==
  /\ pc = "check" /\ n > 1
  /\ (Shadowed /\ ~ absolute) \/ GlobalRef[2] = <<>>
  /\ n' = n - 1
  /\ UNCHANGED <<inputs, pc, ref, parts, dot, ctr, frame, got>>

\* cel._ck_ident: a local variable unless there is a leading dot, then the
\* globals, else an undeclared reference.
IdentLocal ==
  /\ pc = "check" /\ n = 1
  /\ Shadowed /\ ~ absolute
  /\ Rewritten(CheckLocal(chain[1]), <<chain[1]>>, FALSE)

IdentGlobal ==
  /\ pc = "check" /\ n = 1
  /\ Shadowed => absolute
  /\ AsGlobal

Undeclared ==
  /\ pc = "check" /\ n = 1
  /\ Shadowed => absolute
  /\ GlobalRef[2] = <<>>
  /\ pc' = "rejected"
  /\ UNCHANGED <<inputs, n, ref, parts, dot, ctr, frame, got>>

-----------------------------------------------------------------------------
(***************************************************************************)
(* The evaluator.                                                          *)
(***************************************************************************)
\* The first k parts as one name.
Joined(k) ==
  LET body[j \in 0..k] == IF j = 0 THEN <<>> ELSE body[j - 1] \o parts[j]
  IN body[k]

\* The names a frame binds, and what a name stands for.
FrameNames(f) == IF f = 0 THEN bound ELSE {<<v>> : v \in DOMAIN EvalFrame(f)}
InFrame(f, name) == IF f = 0 THEN Var(name) ELSE EvalFrame(f)[name[1]]

Hits(f) == {k \in 1..Len(parts) : First(Candidates(Joined(k), dot, ctr), FrameNames(f)) # <<>>}

Greatest(S) == CHOOSE k \in S : \A j \in S : j <= k

\* The fields of the chain after the first k of the node's parts.
FieldsAfter(k) ==
  LET left == Len(parts) - k IN SubSeq(chain, Len(chain) - left + 1, Len(chain))

\* Variant: a name is searched in the activation first.
OuterFound ==
  /\ pc = "eval" /\ Hits(frame) # {}
  /\ LET f == IF Hits(0) # {} THEN 0 ELSE frame
         k == Greatest(Hits(f))
         name == First(Candidates(Joined(k), dot, ctr), FrameNames(f))
     IN got' = [root |-> InFrame(f, name), fields |-> FieldsAfter(k)]
  /\ pc' = "done"
  /\ UNCHANGED <<inputs, n, ref, parts, dot, ctr, frame>>

\* cel._resolve_chain, one frame: the longest name it binds, the nearest
\* candidate of that length.
Found ==
  /\ pc = "eval" /\ Hits(frame) # {}
  /\ LET k == Greatest(Hits(frame))
         name == First(Candidates(Joined(k), dot, ctr), FrameNames(frame))
     IN got' = [root |-> InFrame(frame, name), fields |-> FieldsAfter(k)]
  /\ pc' = "done"
  /\ UNCHANGED <<inputs, n, ref, parts, dot, ctr, frame>>

\* Nothing of the chain is bound here: the next frame outwards.
Outward ==
  /\ pc = "eval" /\ Hits(frame) = {}
  /\ IF frame > 0
       THEN frame' = frame - 1 /\ pc' = pc
       ELSE frame' = frame /\ pc' = "types"
  /\ UNCHANGED <<inputs, n, ref, parts, dot, ctr, got>>

\* cel._type_or_enum: any candidate that is registered, as there is no order
\* on the rows; first for the chain, then for what it selects from.
TypeNames(k) ==
  LET cands == Candidates(Joined(k), dot, ctr)
  IN {cands[j] : j \in 1..Len(cands)} \cap declared.types

TypeFound ==
  /\ pc = "types"
  /\ \E k \in 1..Len(parts) :
       /\ TypeNames(k) # {} /\ \A j \in (k + 1)..Len(parts) : TypeNames(j) = {}
       /\ \E name \in TypeNames(k) : got' = [root |-> Type(name), fields |-> FieldsAfter(k)]
  /\ pc' = "done"
  /\ UNCHANGED <<inputs, n, ref, parts, dot, ctr, frame>>

NoAttribute ==
  /\ pc = "types"
  /\ \A k \in 1..Len(parts) : TypeNames(k) = {}
  /\ pc' = "done"
  /\ UNCHANGED <<inputs, n, ref, parts, dot, ctr, frame, got>>

Next ==
  \/ Qualified \/ Field \/ IdentLocal \/ IdentGlobal \/ Undeclared
  \/ Found \/ Outward \/ TypeFound \/ NoAttribute

Spec == Init /\ [][Next]_vars

-----------------------------------------------------------------------------
(***************************************************************************)
(* Properties.                                                             *)
(***************************************************************************)
\* The meaning of the chain, without a search: the innermost comprehension
\* that has its first segment for a variable, unless there is a leading dot;
\* else the longest prefix that is declared, in the nearest container.
Visible(c) == {c.accu} \cup (IF c.at = "loop" THEN c.iters ELSE {})

Meaning(names) ==
  LET around == {k \in 1..Len(scope) : chain[1] \in Visible(scope[k])}
      level == Greatest(around)
      depth == IF absolute THEN 0 ELSE Len(container)
      readings == {r \in (0..depth) \X (1..Len(chain)) :
                     SubSeq(container, 1, r[1]) \o SubSeq(chain, 1, r[2]) \in names}
      best == CHOOSE r \in readings : \A q \in readings :
                q[2] < r[2] \/ (q[2] = r[2] /\ q[1] <= r[1])
      name == SubSeq(container, 1, best[1]) \o SubSeq(chain, 1, best[2])
  IN IF ~ absolute /\ around # {}
       THEN [root |-> Local(level, IF scope[level].at = "loop" /\ chain[1] \in scope[level].iters
                                     THEN "iter" ELSE "accu"),
             fields |-> Tail(chain)]
     ELSE IF readings = {} THEN None
     ELSE [root |-> Global(name),
           fields |-> SubSeq(chain, best[2] + 1, Len(chain))]

\* The checker finds that meaning, and rejects a chain only if it has none.
ChecksMeaning ==
  /\ ref # None => ref = Meaning(declared.vars \cup declared.types)
  /\ pc = "rejected" => Meaning(declared.vars \cup declared.types) = None

\* b reads the reference a as a longer name.
Extends(b, a) ==
  \E k \in 1..Len(a.fields) :
    /\ b.root = Var(a.root[2] \o SubSeq(a.fields, 1, k))
    /\ b.fields = SubSeq(a.fields, k + 1, Len(a.fields))

\* A checked expression runs as resolved: in the frames of the evaluator the
\* rewritten chain is the variable, at the nesting level, or the type the
\* checker meant, although names are searched anew. What the activation
\* binds beyond the declarations can only lengthen the name, or hide a type;
\* a declared variable without a value is an error and never another one,
\* unless it has the name of a type: then it is that type.
RunsAsResolved ==
  pc = "done" /\ ref # None =>
    \/ got = ref
    \/ ref.root[1] # "local" /\ Extends(got, ref) /\ got.root[2] \in bound \ declared.vars
    \/ ref.root[1] = "var" /\ ref.root[2] \notin bound \cup declared.types /\ got = None
    \/ /\ ref.root[1] = "var" /\ ref.root[2] \in declared.types \ bound
       /\ got = [root |-> Type(ref.root[2]), fields |-> ref.fields]
    \/ /\ ref.root[1] = "type" /\ ref.root[2] \in bound
       /\ got = [root |-> Var(ref.root[2]), fields |-> ref.fields]

\* Without types in play, evaluation of the parse finds the same meaning in
\* the names the activation binds: checking changes no answer.
UncheckedAgrees ==
  pc = "done" /\ ref = None /\ declared.types = {} => got = Meaning(bound)
=============================================================================
