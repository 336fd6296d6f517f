--------------------------- MODULE InstallProofs ---------------------------
(***************************************************************************)
(* Proofs about the installer, for any set of releases, files, libraries,  *)
(* rows and artifacts that meet the assumptions of Install: what one step  *)
(* does, field by field; what sweeps, claims and failures leave; then what *)
(* a complete run leaves behind, when it changes nothing, and how many     *)
(* runs repair a schema.                                                   *)
(***************************************************************************)
EXTENDS Install, TLAPS

\* What the proof of TypeOK uses of one statement.
LEMMA CurrentStatement ==
  ASSUME TypeOK, artifact # Idle
  PROVE  /\ artifact \in Artifacts
         /\ Body[artifact] \in Seq(Statement)
         /\ Len(Body[artifact]) \in Nat
         /\ pc \in 1..Len(Body[artifact])
         /\ Current \in Statement
  BY ArtifactAssumption DEF TypeOK, Current

LEMMA StatementFields ==
  ASSUME NEW st \in Statement
  PROVE  /\ st.rel \in Releases /\ st.file \in Files /\ st.env \in Envs
         /\ st.refs \subseteq Refs
  BY DEF Statement

-----------------------------------------------------------------------------
(***************************************************************************)
(* One step, by the fields of the registry it changes.                     *)
(***************************************************************************)
Listed(d, r) == \E e \in Exts : <<e, r>> \in d.items

\* The registry after the statement at pc.
CodeAfter(f) == IF Current.op = "code" /\ f = Current.file THEN Current.rel ELSE work.code[f]

VersionsAfter ==
  IF Current.op = "version" /\ ~ \E i \in 1..Len(work.versions) : work.versions[i] = Current.rel
    THEN Append(work.versions, Current.rel) ELSE work.versions

Written(r) ==
  /\ r \in Current.refs
  /\ Current.op = "upsert" \/ (Current.op = "insert" /\ work.gen[r] = 0)

GenAfter(r) == IF Written(r) THEN Current.rel ELSE work.gen[r]

RestAfter(r) ==
  IF Written(r) /\ (r \notin Partial \/ work.gen[r] = 0) THEN Current.rel ELSE work.rest[r]

Swept(e, r) ==
  /\ Current.op = "sweep" /\ e = "standard"
  /\ r \in Current.refs /\ Kind[r] = Current.kind /\ work.gen[r] > 0 /\ Unclaimed(work, r)

Claimed(e, r) ==
  Current.op = "claim" /\ e = Current.env /\ r \in Current.refs /\ work.gen[r] > 0

Repaired(e, r) == Current.op = "repair" /\ e = "standard" /\ Listed(work, r)

ItemAfter(e, r) ==
  \/ <<e, r>> \in work.items /\ ~ Repaired(e, r)
  \/ Swept(e, r)
  \/ Claimed(e, r)

After(d) ==
  /\ d \in Registry
  /\ \A f \in Files : d.code[f] = CodeAfter(f)
  /\ d.versions = VersionsAfter
  /\ \A r \in Refs : d.gen[r] = GenAfter(r) /\ d.rest[r] = RestAfter(r)
  /\ \A e \in Envs, r \in Refs : <<e, r>> \in d.items <=> ItemAfter(e, r)

Statements ==
  RunCode \/ RunVersion \/ RunRepair \/ RunUpsert \/ RunInsert \/ RunSweep \/ RunClaim

\* Whatever statement runs, it leaves such a registry behind.
LEMMA StatementEffect ==
  ASSUME TypeOK, Statements
  PROVE  /\ artifact # Idle
         /\ \E d : After(d) /\ Executed(d)
<1> USE DEF Registry
<1>0. /\ artifact # Idle
      /\ Current \in Statement
      /\ work \in Registry
  <2>1. artifact # Idle
    BY DEF Statements, RunCode, RunVersion, RunRepair, RunUpsert, RunInsert, RunSweep,
           RunClaim, Running
  <2>2. QED BY <2>1, CurrentStatement DEF TypeOK
<1>t. /\ Current.rel \in Releases /\ Current.rel \in Generation
      /\ Current.file \in Files /\ Current.env \in Envs /\ Current.refs \subseteq Refs
  BY <1>0, StatementFields DEF Generation
<1>r. \A c \in [Refs -> Generation], rows \in SUBSET Refs :
        /\ Renewed(c, rows) \in [Refs -> Generation]
        /\ \A r \in Refs : Renewed(c, rows)[r] = IF r \in rows THEN Current.rel ELSE c[r]
  BY <1>t DEF Renewed
<1>m. Missing \subseteq Refs /\ (\A r \in Refs : r \in Missing <=> r \in Current.refs /\ work.gen[r] = 0)
  BY <1>t DEF Missing
<1>1. CASE RunCode
  <2> DEFINE d == [work EXCEPT !.code[Current.file] = Current.rel]
  <2>1. Executed(d) /\ Current.op = "code"
    BY <1>1 DEF RunCode, Running
  <2>2. d \in Registry /\ (\A f \in Files : d.code[f] = CodeAfter(f))
    BY <1>0, <1>t, <2>1 DEF CodeAfter
  <2>3. /\ d.versions = work.versions /\ d.gen = work.gen /\ d.rest = work.rest
        /\ d.items = work.items
    BY <1>0
  <2> HIDE DEF d
  <2>4. After(d)
    BY <2>1, <2>2, <2>3
       DEF After, VersionsAfter, GenAfter, RestAfter, Written, ItemAfter, Repaired, Swept, Claimed
  <2>5. QED BY <1>0, <2>1, <2>4
<1>2. CASE RunVersion
  <2> DEFINE vs == IF \E i \in 1..Len(work.versions) : work.versions[i] = Current.rel
                     THEN work.versions ELSE Append(work.versions, Current.rel)
             d == [work EXCEPT !.versions = vs]
  <2>1. Executed(d) /\ Current.op = "version"
    BY <1>2 DEF RunVersion, Running
  <2>2. vs \in Seq(Releases) /\ vs = VersionsAfter
    BY <1>0, <1>t, <2>1 DEF VersionsAfter
  <2> HIDE DEF vs
  <2>3. d \in Registry /\ d.versions = vs
        /\ d.code = work.code /\ d.gen = work.gen /\ d.rest = work.rest /\ d.items = work.items
    BY <1>0, <2>2
  <2> HIDE DEF d
  <2>4. After(d)
    BY <2>1, <2>2, <2>3
       DEF After, CodeAfter, GenAfter, RestAfter, Written, ItemAfter, Repaired, Swept, Claimed
  <2>5. QED BY <1>0, <2>1, <2>4
<1>3. CASE RunRepair
  <2> DEFINE kept == {i \in work.items :
               ~ (i[1] = "standard" /\ \E e \in Exts : <<e, i[2]>> \in work.items)}
             d == [work EXCEPT !.items = kept]
  <2>1. Executed(d) /\ Current.op = "repair"
    BY <1>3 DEF RunRepair, Running
  <2>2. d \in Registry /\ d.items = kept
        /\ d.code = work.code /\ d.gen = work.gen /\ d.rest = work.rest
        /\ d.versions = work.versions
    BY <1>0
  <2>3. \A e \in Envs, r \in Refs : <<e, r>> \in kept <=> ItemAfter(e, r)
    BY <2>1 DEF ItemAfter, Repaired, Swept, Claimed, Listed
  <2> HIDE DEF kept, d
  <2>4. After(d)
    BY <2>1, <2>2, <2>3 DEF After, CodeAfter, VersionsAfter, GenAfter, RestAfter, Written
  <2>5. QED BY <1>0, <2>1, <2>4
<1>4. CASE RunUpsert
  <2> DEFINE g == Renewed(work.gen, Current.refs)
             h == Renewed(work.rest, (Current.refs \ Partial) \cup Missing)
             d == [work EXCEPT !.gen = g, !.rest = h]
  <2>1. Executed(d) /\ Current.op = "upsert"
    BY <1>4 DEF RunUpsert, Running
  <2>2. /\ g \in [Refs -> Generation] /\ (\A r \in Refs : g[r] = GenAfter(r))
        /\ h \in [Refs -> Generation] /\ (\A r \in Refs : h[r] = RestAfter(r))
    <3>1. work.gen \in [Refs -> Generation] /\ work.rest \in [Refs -> Generation]
          /\ (Current.refs \ Partial) \cup Missing \in SUBSET Refs /\ Current.refs \in SUBSET Refs
      BY <1>0, <1>t, <1>m
    <3>2. /\ g \in [Refs -> Generation] /\ h \in [Refs -> Generation]
          /\ \A r \in Refs : /\ g[r] = IF r \in Current.refs THEN Current.rel ELSE work.gen[r]
                             /\ h[r] = IF r \in (Current.refs \ Partial) \cup Missing
                                         THEN Current.rel ELSE work.rest[r]
      BY <1>r, <3>1
    <3> HIDE DEF g, h
    <3>3. QED BY <1>m, <2>1, <3>2 DEF GenAfter, RestAfter, Written
  <2> HIDE DEF g, h
  <2>3. d \in Registry /\ d.gen = g /\ d.rest = h
        /\ d.code = work.code /\ d.items = work.items /\ d.versions = work.versions
    BY <1>0, <2>2
  <2> HIDE DEF d
  <2>4. After(d)
    BY <2>1, <2>2, <2>3
       DEF After, CodeAfter, VersionsAfter, ItemAfter, Repaired, Swept, Claimed
  <2>5. QED BY <1>0, <2>1, <2>4
<1>5. CASE RunInsert
  <2> DEFINE g == Renewed(work.gen, Missing)
             h == Renewed(work.rest, Missing)
             d == [work EXCEPT !.gen = g, !.rest = h]
  <2>1. Executed(d) /\ Current.op = "insert"
    BY <1>5 DEF RunInsert, Running
  <2>2. /\ g \in [Refs -> Generation] /\ (\A r \in Refs : g[r] = GenAfter(r))
        /\ h \in [Refs -> Generation] /\ (\A r \in Refs : h[r] = RestAfter(r))
    <3>1. work.gen \in [Refs -> Generation] /\ work.rest \in [Refs -> Generation]
          /\ Missing \in SUBSET Refs
      BY <1>0, <1>m
    <3>2. /\ g \in [Refs -> Generation] /\ h \in [Refs -> Generation]
          /\ \A r \in Refs : /\ g[r] = IF r \in Missing THEN Current.rel ELSE work.gen[r]
                             /\ h[r] = IF r \in Missing THEN Current.rel ELSE work.rest[r]
      BY <1>r, <3>1
    <3> HIDE DEF g, h
    <3>3. QED BY <1>m, <2>1, <3>2 DEF GenAfter, RestAfter, Written
  <2> HIDE DEF g, h
  <2>3. d \in Registry /\ d.gen = g /\ d.rest = h
        /\ d.code = work.code /\ d.items = work.items /\ d.versions = work.versions
    BY <1>0, <2>2
  <2> HIDE DEF d
  <2>4. After(d)
    BY <2>1, <2>2, <2>3
       DEF After, CodeAfter, VersionsAfter, ItemAfter, Repaired, Swept, Claimed
  <2>5. QED BY <1>0, <2>1, <2>4
<1>6. CASE RunSweep
  <2> DEFINE swept == {r \in Current.refs : Kind[r] = Current.kind /\ work.gen[r] > 0
                                             /\ Unclaimed(work, r)}
             new == {"standard"} \X swept
             d == [work EXCEPT !.items = @ \cup new]
  <2>1. Executed(d) /\ Current.op = "sweep"
    BY <1>6 DEF RunSweep, Running
  <2>2. new \subseteq Items
    BY <1>t DEF Items, Envs
  <2>3. \A e \in Envs, r \in Refs : <<e, r>> \in new <=> Swept(e, r)
    BY <2>1 DEF Swept
  <2> HIDE DEF new
  <2>4. d \in Registry /\ d.items = work.items \cup new
        /\ d.code = work.code /\ d.gen = work.gen /\ d.rest = work.rest
        /\ d.versions = work.versions
    BY <1>0, <2>2
  <2> HIDE DEF d
  <2>5. After(d)
    BY <2>1, <2>3, <2>4
       DEF After, CodeAfter, VersionsAfter, GenAfter, RestAfter, Written, ItemAfter, Repaired,
           Claimed
  <2>6. QED BY <1>0, <2>1, <2>5
<1>7. CASE RunClaim
  <2> DEFINE listed == {r \in Current.refs : work.gen[r] > 0}
             new == {Current.env} \X listed
             d == [work EXCEPT !.items = @ \cup new]
  <2>1. Executed(d) /\ Current.op = "claim"
    BY <1>7 DEF RunClaim, Running
  <2>2. new \subseteq Items
    BY <1>t DEF Items
  <2>3. \A e \in Envs, r \in Refs : <<e, r>> \in new <=> Claimed(e, r)
    BY <2>1 DEF Claimed
  <2> HIDE DEF new
  <2>4. d \in Registry /\ d.items = work.items \cup new
        /\ d.code = work.code /\ d.gen = work.gen /\ d.rest = work.rest
        /\ d.versions = work.versions
    BY <1>0, <2>2
  <2> HIDE DEF d
  <2>5. After(d)
    BY <2>1, <2>3, <2>4
       DEF After, CodeAfter, VersionsAfter, GenAfter, RestAfter, Written, ItemAfter, Repaired,
           Swept
  <2>6. QED BY <1>0, <2>1, <2>5
<1>8. QED BY <1>1, <1>2, <1>3, <1>4, <1>5, <1>6, <1>7 DEF Statements

\* A consumer only adds listings, which count as early when the row is not
\* there, and rows of its own, which count as bare when nothing lists them.
Added(new) ==
  /\ new \subseteq ConsumerMay
  /\ db' \in Registry /\ work' \in Registry
  /\ db'.items = db.items \cup new /\ work'.items = work.items \cup new
  /\ owned' = owned \cup new
  /\ early \subseteq early' /\ early' \subseteq Refs
  /\ bare \subseteq bare' /\ bare' \subseteq ConsumerRefs
  /\ \A r \in early' \ early : \E e \in Envs : <<e, r>> \in new
  /\ \A e \in Envs, r \in Refs \ ConsumerRefs :
       <<e, r>> \in new => db.gen[r] # 0 \/ r \in early'
  /\ db'.versions = db.versions /\ work'.versions = work.versions
  /\ db'.code = db.code /\ work'.code = work.code
  /\ \A r \in Refs \ ConsumerRefs :
       /\ db'.gen[r] = db.gen[r] /\ work'.gen[r] = work.gen[r]
       /\ db'.rest[r] = db.rest[r] /\ work'.rest[r] = work.rest[r]
  /\ \A r \in ConsumerRefs :
       \/ db'.gen[r] = db.gen[r] /\ work'.gen[r] = work.gen[r]
       \/ r \in bare'
       \/ \E e \in Envs : <<e, r>> \in db'.items
  /\ db = work => db' = work'
  /\ db.gen = work.gen /\ db.rest = work.rest => db'.gen = work'.gen /\ db'.rest = work'.rest
  /\ UNCHANGED <<artifact, pc, mode, clean, runs, crashes>>

LEMMA ConsumerEffect ==
  ASSUME TypeOK, Consumer
  PROVE  \E new : Added(new)
<1> USE DEF Registry
<1>1. ASSUME NEW r \in ConsumerRefs, NEW E \in SUBSET Envs, Register(r, E)
      PROVE  \E new : Added(new)
  <2> DEFINE new == E \X {r}
  <2>1. new \subseteq ConsumerMay /\ new \subseteq Items
    BY <1>1, ConsumerAssumption DEF Register
  <2>2. /\ db' = [db EXCEPT !.gen[r] = 1, !.rest[r] = 1, !.items = @ \cup new]
        /\ work' = [work EXCEPT !.gen[r] = 1, !.rest[r] = 1, !.items = @ \cup new]
        /\ owned' = owned \cup new
        /\ bare' = bare \cup {s \in {r} : \A e \in Envs : <<e, s>> \notin db'.items}
        /\ UNCHANGED <<artifact, pc, mode, early, clean, runs, crashes>>
    BY <1>1 DEF Register
  <2>3. \A e \in Envs, s \in Refs \ ConsumerRefs : <<e, s>> \notin new
    OBVIOUS
  <2> HIDE DEF new
  <2>4. db' \in Registry /\ work' \in Registry
    BY <2>1, <2>2 DEF TypeOK, Generation
  <2>5. /\ db'.items = db.items \cup new /\ work'.items = work.items \cup new
        /\ db'.versions = db.versions /\ work'.versions = work.versions
        /\ db'.code = db.code /\ work'.code = work.code
        /\ db'.gen = [db.gen EXCEPT ![r] = 1] /\ work'.gen = [work.gen EXCEPT ![r] = 1]
        /\ db'.rest = [db.rest EXCEPT ![r] = 1] /\ work'.rest = [work.rest EXCEPT ![r] = 1]
    BY <2>2 DEF TypeOK
  <2>6. r \in Refs /\ \A s \in Refs : s # r =>
          /\ db'.gen[s] = db.gen[s] /\ work'.gen[s] = work.gen[s]
          /\ db'.rest[s] = db.rest[s] /\ work'.rest[s] = work.rest[s]
    BY <2>5, RefAssumption DEF TypeOK
  <2>7. r \in bare' \/ \E e \in Envs : <<e, r>> \in db'.items
    BY <2>2
  <2>8. db = work => db' = work'
    BY <2>2
  <2>9. early' \subseteq Refs /\ bare' \subseteq ConsumerRefs
    BY <2>2 DEF TypeOK
  <2>10. Added(new)
    BY <2>1, <2>2, <2>3, <2>4, <2>5, <2>6, <2>7, <2>8, <2>9, RefAssumption DEF Added
  <2>11. QED BY <2>10
<1>2. ASSUME NEW e \in Envs, NEW r \in Refs, Enable(e, r) PROVE \E new : Added(new)
  <2> DEFINE new == {<<e, r>>}
  <2>1. new \subseteq ConsumerMay /\ new \subseteq Items
    BY <1>2, ConsumerAssumption DEF Enable
  <2>2. /\ db' = [db EXCEPT !.items = @ \cup new]
        /\ work' = [work EXCEPT !.items = @ \cup new]
        /\ owned' = owned \cup new
        /\ early' = early \cup {s \in {r} : db.gen[s] = 0}
        /\ UNCHANGED <<artifact, pc, mode, bare, clean, runs, crashes>>
    BY <1>2 DEF Enable
  <2>3. /\ \A s \in early' \ early : s = r
        /\ \A x \in Envs, s \in Refs : <<x, s>> \in new => s = r
        /\ <<e, r>> \in new
        /\ db.gen[r] # 0 \/ r \in early'
    BY <2>2
  <2> HIDE DEF new
  <2>4. db' \in Registry /\ work' \in Registry
    BY <2>1, <2>2 DEF TypeOK
  <2>5. /\ db'.items = db.items \cup new /\ work'.items = work.items \cup new
        /\ db'.versions = db.versions /\ work'.versions = work.versions
        /\ db'.code = db.code /\ work'.code = work.code
        /\ db'.gen = db.gen /\ work'.gen = work.gen
        /\ db'.rest = db.rest /\ work'.rest = work.rest
    BY <2>2 DEF TypeOK
  <2>6. early' \subseteq Refs /\ bare' \subseteq ConsumerRefs
    BY <2>2 DEF TypeOK
  <2>7. Added(new)
    BY <2>1, <2>2, <2>3, <2>4, <2>5, <2>6 DEF Added
  <2>8. QED BY <2>7
<1>3. QED BY <1>1, <1>2 DEF Consumer

-----------------------------------------------------------------------------
\* Whatever a statement leaves behind, Executed keeps the types.
LEMMA ExecutedType ==
  ASSUME TypeOK, artifact # Idle, NEW d \in Registry, Executed(d)
  PROVE  TypeOK'
<1>1. db' \in Registry /\ work' \in Registry
  BY DEF Executed, TypeOK
<1>2. CASE AtEnd
  BY <1>1, <1>2 DEF Executed, TypeOK
<1>3. CASE ~AtEnd
  BY <1>1, <1>3, CurrentStatement DEF Executed, TypeOK, AtEnd
<1>4. QED BY <1>2, <1>3

\* TypeOK is inductive: no statement, crash or registration leaves the registry
\* malformed.
LEMMA TypeKept == TypeOK /\ [Next]_vars => TypeOK'
<1> SUFFICES ASSUME TypeOK, [Next]_vars PROVE TypeOK'
  OBVIOUS
<1>1. ASSUME NEW a \in Artifacts, NEW m \in Modes, Begin(a, m) PROVE TypeOK'
  <2>1. Body[a] \in Seq(Statement) /\ Body[a] # <<>>
    BY ArtifactAssumption
  <2>2. Len(Body[a]) \in Nat \ {0}
    BY <2>1
  <2>3. QED BY <1>1, <2>2 DEF Begin, TypeOK
<1>2. CASE Statements
  BY <1>2, StatementEffect, ExecutedType DEF After
<1>3. CASE Crash
  BY <1>3 DEF Crash, TypeOK
<1>4. CASE Consumer
  <2>1. PICK new : Added(new)
    BY <1>4, ConsumerEffect
  <2>2. QED BY <2>1 DEF Added, TypeOK
<1>5. CASE UNCHANGED vars
  BY <1>5 DEF vars, TypeOK, Current, AtEnd
<1>6. QED BY <1>1, <1>2, <1>3, <1>4, <1>5 DEF Next, Installer, Statements

\* The registry, the installer's position and the history keep their types.
THEOREM TypeCorrect == Spec => []TypeOK
<1>1. Init => TypeOK
  BY DEF Init, TypeOK, Empty, Registry, Generation
<1>2. QED BY <1>1, TypeKept, PTL DEF Spec


-----------------------------------------------------------------------------
(***************************************************************************)
(* The libraries stay out of standard. The state between a library's rows  *)
(* and their listing is the dangerous one: a sweep that saw it would take  *)
(* the rows for unlisted ones of the core. The invariant says that an      *)
(* unlisted library row exists only inside the transaction that is about   *)
(* to list it, so that no commit, rollback or sweep ever falls between.    *)
(***************************************************************************)
AboutToList(r) ==
  /\ artifact # Idle
  /\ Current.op = "claim" /\ Current.env \in Exts /\ r \in Current.refs

LibraryInv ==
  \A r \in ExtRefs :
    /\ <<"standard", r>> \in work.items => <<"standard", r>> \in owned
    /\ <<"standard", r>> \in db.items => <<"standard", r>> \in owned
    /\ db.gen[r] > 0 => Listed(db, r)
    /\ work.gen[r] > 0 => Listed(work, r) \/ AboutToList(r)

\* The script at hand, as ScriptAssumption describes it.
LEMMA CurrentScript ==
  ASSUME TypeOK, artifact # Idle
  PROVE  /\ Current.op = "claim" => /\ Current.env \in Exts
                                    /\ Current.refs \subseteq ExtRefs \cup ConsumerRefs
         /\ Current.op \in {"upsert", "insert"} /\ Current.refs \cap ExtRefs # {} =>
              /\ pc < Len(Body[artifact])
              /\ Body[artifact][pc + 1].op = "claim"
              /\ Body[artifact][pc + 1].env \in Exts
              /\ Body[artifact][pc + 1].file = Current.file
              /\ Current.refs \cap ExtRefs \subseteq Body[artifact][pc + 1].refs
<1>1. /\ artifact \in Artifacts
      /\ pc \in 1..Len(Body[artifact])
      /\ Len(Body[artifact]) \in Nat
  BY CurrentStatement
<1>2. pc < Len(Body[artifact]) => pc + 1 \in 1..Len(Body[artifact])
  BY <1>1
<1>3. QED BY <1>1, <1>2, ScriptAssumption DEF Current

\* A row just written is about to be listed, in the same transaction.
LEMMA WrittenThenListed ==
  ASSUME TypeOK, artifact # Idle, NEW d, After(d), Executed(d), NEW r \in ExtRefs, Written(r)
  PROVE  /\ ~ AtEnd /\ AboutToList(r)'
         /\ mode # "statement" => db' = db
<1>1. Current.op \in {"upsert", "insert"} /\ r \in Current.refs \cap ExtRefs
  BY DEF Written
<1>2. /\ pc < Len(Body[artifact])
      /\ Body[artifact][pc + 1].op = "claim" /\ Body[artifact][pc + 1].env \in Exts
      /\ Body[artifact][pc + 1].file = Current.file
      /\ r \in Body[artifact][pc + 1].refs
  BY <1>1, CurrentScript
<1>3. ~ AtEnd /\ (mode # "statement" => ~ CommitsHere)
  BY <1>2, CurrentStatement DEF AtEnd, CommitsHere
<1>4. artifact' = artifact /\ pc' = pc + 1
  BY <1>3 DEF Executed
<1>5. QED BY <1>2, <1>3, <1>4 DEF AboutToList, Current, Executed

\* A statement that finds a row listed or lists it leaves it listed.
LEMMA ListedAfter ==
  ASSUME TypeOK, artifact # Idle, NEW d, After(d), NEW r \in ExtRefs, ~ Written(r),
         d.gen[r] > 0, Listed(work, r) \/ AboutToList(r)
  PROVE  Listed(d, r)
<1>1. r \in Refs /\ d.gen[r] = work.gen[r]
  BY RefAssumption DEF After, GenAfter
<1>2. CASE Listed(work, r)
  <2>1. PICK e \in Exts : <<e, r>> \in work.items
    BY <1>2 DEF Listed
  <2>2. e \in Envs /\ ~ Repaired(e, r)
    BY EnvAssumption DEF Envs, Repaired
  <2>3. QED BY <1>1, <2>1, <2>2 DEF After, ItemAfter, Listed
<1>3. CASE AboutToList(r)
  <2>1. Current.env \in Exts /\ Current.env \in Envs /\ Claimed(Current.env, r)
    BY <1>1, <1>3 DEF AboutToList, Claimed, Envs
  <2>2. QED BY <1>1, <2>1 DEF After, ItemAfter, Listed
<1>4. QED BY <1>2, <1>3

\* A consumer's statement takes no listing away and moves no program counter.
LEMMA ConsumerLists ==
  ASSUME NEW new, Added(new), NEW r \in ExtRefs
  PROVE  /\ db'.gen[r] = db.gen[r] /\ work'.gen[r] = work.gen[r]
         /\ Listed(db, r) => Listed(db', r)
         /\ Listed(work, r) => Listed(work', r)
         /\ AboutToList(r)' <=> AboutToList(r)
<1>1. r \in Refs \ ConsumerRefs
  BY RefAssumption
<1>2. AboutToList(r)' <=> AboutToList(r)
  BY DEF Added, AboutToList, Current
<1>3. QED BY <1>1, <1>2 DEF Added, Listed

\* A library's rows are listed in time, in every behaviour whose runs use a
\* transaction per file or per bundle.
LEMMA LibraryStatement ==
  ASSUME "statement" \notin Modes, TypeOK, LibraryInv, Statements
  PROVE  LibraryInv'
<1>1. artifact # Idle
  BY StatementEffect
<1>2. PICK d : After(d) /\ Executed(d)
  BY StatementEffect
<1>3. /\ work' = d /\ (db' = d \/ db' = db) /\ owned' = owned
      /\ mode # "statement"
  BY <1>2 DEF Executed, TypeOK
<1>4. SUFFICES ASSUME NEW r \in ExtRefs
      PROVE  /\ <<"standard", r>> \in d.items => <<"standard", r>> \in owned
             /\ db'.gen[r] > 0 => Listed(db', r)
             /\ d.gen[r] > 0 => Listed(d, r) \/ AboutToList(r)'
  BY <1>3 DEF LibraryInv, Listed
<1>5. r \in Refs /\ "standard" \in Envs
  BY RefAssumption DEF Envs
<1>6. <<"standard", r>> \in d.items => <<"standard", r>> \in owned
  <2>1. ~ Swept("standard", r)
    BY DEF Swept, LibraryInv, AboutToList, Listed, Unclaimed, Envs
  <2>2. ~ Claimed("standard", r)
    BY <1>1, CurrentScript, EnvAssumption DEF Claimed
  <2>3. QED BY <1>2, <1>5, <2>1, <2>2 DEF After, ItemAfter, LibraryInv
<1>7. CASE Written(r)
  <2>1. AboutToList(r)' /\ db' = db
    BY <1>1, <1>2, <1>3, <1>7, WrittenThenListed
  <2>2. QED BY <1>6, <2>1 DEF LibraryInv, Listed
<1>8. CASE ~ Written(r)
  <2>1. d.gen[r] = work.gen[r]
    BY <1>2, <1>5, <1>8 DEF After, GenAfter
  <2>2. d.gen[r] > 0 => Listed(d, r)
    BY <1>1, <1>2, <1>8, <2>1, ListedAfter DEF LibraryInv
  <2>3. QED BY <1>3, <1>6, <2>2 DEF LibraryInv, Listed
<1>9. QED BY <1>7, <1>8

\* ... for every step of such a behaviour.
THEOREM ListedInTime ==
  ASSUME "statement" \notin Modes
  PROVE  Spec => []LibraryInv
<1>1. Init => LibraryInv
  BY RefAssumption DEF Init, LibraryInv, Empty
<1>2. TypeOK /\ LibraryInv /\ [Next]_vars => LibraryInv'
  <2> SUFFICES ASSUME TypeOK, LibraryInv, [Next]_vars PROVE LibraryInv'
    OBVIOUS
  <2>1. ASSUME NEW a \in Artifacts, NEW m \in Modes, Begin(a, m) PROVE LibraryInv'
    BY <2>1 DEF Begin, LibraryInv, Listed
  <2>2. CASE Statements
    BY <2>2, LibraryStatement
  <2>3. CASE Crash
    BY <2>3 DEF Crash, LibraryInv, Listed
  <2>4. CASE Consumer
    <3>1. PICK new : Added(new)
      BY <2>4, ConsumerEffect
    <3>2. /\ db'.items = db.items \cup new /\ work'.items = work.items \cup new
          /\ owned' = owned \cup new
      BY <3>1 DEF Added
    <3>3. QED BY <3>1, <3>2, ConsumerLists DEF LibraryInv
  <2>5. CASE UNCHANGED vars
    BY <2>5 DEF vars, LibraryInv, Listed, AboutToList, Current
  <2>6. QED BY <2>1, <2>2, <2>3, <2>4, <2>5 DEF Next, Installer, Statements
<1>3. QED BY <1>1, <1>2, TypeCorrect, PTL DEF Spec

\* The libraries stay out of standard: no sweep takes a library's row.
THEOREM LibrariesStayOut ==
  ASSUME "statement" \notin Modes
  PROVE  Spec => []StandardExclusive
<1>1. LibraryInv => StandardExclusive
  BY DEF LibraryInv, StandardExclusive
<1>2. QED BY <1>1, ListedInTime, PTL

\* No row of a library is ever committed without its listing: a failure
\* between the two statements takes the row with it.
THEOREM LibrariesListed ==
  ASSUME "statement" \notin Modes
  PROVE  Spec => []NoOrphanExtension
<1>1. LibraryInv => NoOrphanExtension
  BY DEF LibraryInv, NoOrphanExtension, ListedUnder, Listed, Envs
<1>2. QED BY <1>1, ListedInTime, PTL

-----------------------------------------------------------------------------
(***************************************************************************)
(* What a consumer enabled stays enabled. Only the repair of 010 removes   *)
(* anything, and only from standard: what a library's environment lists as *)
(* well. Nothing ever takes a row out of a library's environment again, so *)
(* whatever is gone from standard is listed there for good.                *)
(***************************************************************************)
KeptIn(d) ==
  \A e \in Envs, r \in Refs :
    <<e, r>> \in owned => <<e, r>> \in d.items \/ (e = "standard" /\ Listed(d, r))

OwnedInv == KeptIn(db) /\ KeptIn(work)

LEMMA KeptAfter ==
  ASSUME TypeOK, artifact # Idle, KeptIn(work), NEW d, After(d)
  PROVE  KeptIn(d)
<1> SUFFICES ASSUME NEW e \in Envs, NEW r \in Refs, <<e, r>> \in owned
             PROVE  <<e, r>> \in d.items \/ (e = "standard" /\ Listed(d, r))
  BY DEF KeptIn
<1>1. <<e, r>> \in work.items \/ (e = "standard" /\ Listed(work, r))
  BY DEF KeptIn
<1>2. Listed(work, r) => Listed(d, r)
  <2> SUFFICES ASSUME NEW x \in Exts, <<x, r>> \in work.items PROVE <<x, r>> \in d.items
    BY DEF Listed
  <2>1. x \in Envs /\ ~ Repaired(x, r)
    BY EnvAssumption DEF Envs, Repaired
  <2>2. QED BY <2>1 DEF After, ItemAfter
<1>3. <<e, r>> \in work.items /\ ~ Repaired(e, r) => <<e, r>> \in d.items
  BY DEF After, ItemAfter
<1>4. QED BY <1>1, <1>2, <1>3 DEF Repaired

\* Everything a consumer enabled stays enabled, at any transaction
\* granularity and whatever a library claims, except in standard, and there
\* only as long as a library's environment lists the row.
THEOREM OwnedKept == Spec => []OwnedSurvive
<1>1. Init => OwnedInv
  BY DEF Init, OwnedInv, KeptIn
<1>2. TypeOK /\ OwnedInv /\ [Next]_vars => OwnedInv'
  <2> SUFFICES ASSUME TypeOK, OwnedInv, [Next]_vars PROVE OwnedInv'
    OBVIOUS
  <2>1. ASSUME NEW a \in Artifacts, NEW m \in Modes, Begin(a, m) PROVE OwnedInv'
    BY <2>1 DEF Begin, OwnedInv, KeptIn, Listed
  <2>2. CASE Statements
    <3>1. artifact # Idle
      BY <2>2, StatementEffect
    <3>2. PICK d : After(d) /\ Executed(d)
      BY <2>2, StatementEffect
    <3>3. KeptIn(d) /\ KeptIn(db)
      BY <3>1, <3>2, KeptAfter DEF OwnedInv
    <3>4. work' = d /\ (db' = d \/ db' = db) /\ owned' = owned
      BY <3>2 DEF Executed
    <3>5. QED BY <3>3, <3>4 DEF OwnedInv, KeptIn, Listed
  <2>3. CASE Crash
    BY <2>3 DEF Crash, OwnedInv, KeptIn, Listed
  <2>4. CASE Consumer
    <3>1. PICK new : Added(new)
      BY <2>4, ConsumerEffect
    <3>2. /\ db'.items = db.items \cup new /\ work'.items = work.items \cup new
          /\ owned' = owned \cup new
      BY <3>1 DEF Added
    <3>3. QED BY <3>2 DEF OwnedInv, KeptIn, Listed
  <2>5. CASE UNCHANGED vars
    BY <2>5 DEF vars, OwnedInv, KeptIn, Listed
  <2>6. QED BY <2>1, <2>2, <2>3, <2>4, <2>5 DEF Next, Installer, Statements
<1>3. TypeOK /\ OwnedInv => OwnedSurvive
  <2> SUFFICES ASSUME TypeOK, OwnedInv, NEW i \in owned
               PROVE  i \in db.items \/ (i[1] = "standard" /\ ListedUnder(db, i[2]) \cap Exts # {})
    BY DEF OwnedSurvive
  <2>1. i \in Envs \X Refs
    BY ConsumerAssumption DEF TypeOK, Items
  <2>2. i = <<i[1], i[2]>> /\ i[1] \in Envs /\ i[2] \in Refs
    BY <2>1
  <2>3. Listed(db, i[2]) => ListedUnder(db, i[2]) \cap Exts # {}
    BY DEF Listed, ListedUnder, Envs
  <2>4. QED BY <2>2, <2>3 DEF OwnedInv, KeptIn
<1>4. QED BY <1>1, <1>2, <1>3, TypeCorrect, PTL DEF Spec

-----------------------------------------------------------------------------
(***************************************************************************)
(* The sweep misses nothing. Take a core row that no consumer lists before *)
(* it is committed, nor under a library's environment. While it is not yet *)
(* in standard it exists only inside the transaction of the file that      *)
(* ships it, listed nowhere and with its sweep still ahead; from then on   *)
(* no repair can touch it.                                                 *)
(***************************************************************************)
Unlisted(d, r) == \A e \in Envs : <<e, r>> \notin d.items

SweepAhead(r) ==
  /\ artifact # Idle
  /\ \E j \in pc..Len(Body[artifact]) : SweptAt(artifact, pc, j, r)

Pending(r) == SweepAhead(r) /\ Unlisted(work, r) /\ db.gen[r] = 0

CompleteInv ==
  \A r \in CoreRefs : ~ Excused(r) =>
    /\ db.gen[r] > 0 => <<"standard", r>> \in db.items /\ work.gen[r] > 0
    /\ db.gen[r] = 0 => Unlisted(db, r)
    /\ work.gen[r] = 0 => Unlisted(work, r)
    /\ work.gen[r] > 0 => <<"standard", r>> \in work.items \/ Pending(r)
    /\ ~ Listed(db, r) /\ ~ Listed(work, r)

\* Row r is still swept after the current statement, in the same file.
SweptLater(r) ==
  \E j \in (pc + 1)..Len(Body[artifact]) : SweptAt(artifact, pc, j, r)

\* The sweep that is still ahead is either the current statement or later.
LEMMA SweepNowOrLater ==
  ASSUME TypeOK, NEW r \in CoreRefs, SweepAhead(r)
  PROVE  \/ Current.op = "sweep" /\ Current.kind = Kind[r] /\ r \in Current.refs
         \/ SweptLater(r)
<1>1. PICK j \in pc..Len(Body[artifact]) : SweptAt(artifact, pc, j, r)
  BY DEF SweepAhead
<1>2. artifact # Idle /\ pc \in Nat /\ Len(Body[artifact]) \in Nat
  BY CurrentStatement DEF SweepAhead
<1>3. CASE j = pc
  BY <1>1, <1>3 DEF SweptAt, Current
<1>4. CASE j # pc
  BY <1>1, <1>2, <1>4 DEF SweptLater
<1>5. QED BY <1>3, <1>4

\* A pending sweep keeps the transaction open and is ahead of the next
\* statement.
LEMMA LaterIsAhead ==
  ASSUME "statement" \notin Modes, TypeOK, artifact # Idle, NEW r \in CoreRefs,
         SweptLater(r), NEW d, Executed(d)
  PROVE  /\ db' = db /\ work' = d /\ artifact' = artifact
         /\ SweepAhead(r)'
<1>1. PICK j \in (pc + 1)..Len(Body[artifact]) : SweptAt(artifact, pc, j, r)
  BY DEF SweptLater
<1>2. pc \in 1..Len(Body[artifact]) /\ Len(Body[artifact]) \in Nat
  BY CurrentStatement
<1>3. pc + 1 \in pc..j /\ pc \in pc..j
  BY <1>1, <1>2
<1>4. Body[artifact][pc + 1].file = Current.file
  BY <1>1, <1>3 DEF SweptAt, Current
<1>5. ~ AtEnd /\ ~ CommitsHere
  BY <1>1, <1>2, <1>4 DEF AtEnd, CommitsHere, TypeOK
<1>6. db' = db /\ work' = d /\ artifact' = artifact /\ pc' = pc + 1
  BY <1>5 DEF Executed
<1>7. \A k \in (pc + 1)..j : k \in pc..j
  BY <1>1, <1>2
<1>8. SweptAt(artifact, pc + 1, j, r)
  BY <1>1, <1>3, <1>7 DEF SweptAt
<1>9. QED BY <1>1, <1>6, <1>8 DEF SweepAhead

LEMMA RowCounts ==
  ASSUME NEW d \in Registry, NEW r \in Refs
  PROVE  d.gen[r] \in Nat /\ d.rest[r] \in Nat
<1>1. /\ d.gen \in [Refs -> Generation] /\ d.rest \in [Refs -> Generation]
      /\ Generation \subseteq Nat
  BY ReleaseAssumption DEF Registry, Generation
<1>2. QED BY <1>1

\* What a statement leaves of a core row that the consumer did not touch.
LEMMA SweptAfter ==
  ASSUME TypeOK, CompleteInv, artifact # Idle, NEW d, After(d),
         NEW r \in CoreRefs, ~ Excused(r)
  PROVE  /\ db.gen[r] > 0 => d.gen[r] > 0
         /\ d.gen[r] = 0 => Unlisted(d, r)
         /\ d.gen[r] > 0 => \/ <<"standard", r>> \in d.items
                            \/ SweptLater(r) /\ Unlisted(d, r) /\ db.gen[r] = 0
         /\ ~ Listed(d, r)
<1>0. /\ r \in Refs /\ r \notin ExtRefs /\ r \notin ConsumerRefs /\ "standard" \in Envs
      /\ Exts \subseteq Envs /\ Impl[r] # "own"
  BY SweepAssumption DEF CoreRefs, Envs
<1>1. /\ work.gen[r] \in Nat /\ d.gen[r] \in Nat /\ db.gen[r] \in Nat
      /\ Current.rel \in Nat /\ Current.rel > 0
  <2>1. d \in Registry /\ work \in Registry /\ db \in Registry
    BY DEF After, TypeOK
  <2>2. Current.rel \in Nat /\ Current.rel # 0
    BY CurrentStatement, StatementFields, ReleaseAssumption
  <2>3. QED BY <1>0, <2>1, <2>2, RowCounts
<1>2. d.gen[r] = GenAfter(r) /\ (\A e \in Envs : <<e, r>> \in d.items <=> ItemAfter(e, r))
  BY <1>0 DEF After
<1>3. \A e \in Envs : ~ Claimed(e, r) /\ ~ Repaired(e, r)
  BY <1>0, CurrentScript DEF Claimed, Repaired, CompleteInv
<1>4. \A e \in Envs : <<e, r>> \in d.items <=> <<e, r>> \in work.items \/ Swept(e, r)
  BY <1>2, <1>3 DEF ItemAfter
<1>5. ~ Listed(d, r)
  BY <1>0, <1>4, EnvAssumption DEF CompleteInv, Listed, Swept
<1>6. CASE Written(r)
  <2>1. d.gen[r] > 0 /\ \A e \in Envs : ~ Swept(e, r)
    BY <1>1, <1>2, <1>6 DEF GenAfter, Written, Swept
  <2>2. SweptLater(r)
    BY <1>6, CurrentStatement, SweepAssumption DEF SweptLater, Current, Written
  <2>3. CASE <<"standard", r>> \in work.items
    BY <1>0, <1>1, <1>4, <1>5, <2>1, <2>3
  <2>4. CASE <<"standard", r>> \notin work.items
    <3>1. db.gen[r] = 0 /\ Unlisted(work, r)
      BY <1>1, <2>4 DEF CompleteInv, Pending
    <3>2. QED BY <1>1, <1>4, <1>5, <2>1, <2>2, <3>1 DEF Unlisted
  <2>5. QED BY <2>3, <2>4
<1>7. CASE ~ Written(r)
  <2>1. d.gen[r] = work.gen[r]
    BY <1>2, <1>7 DEF GenAfter
  <2>2. CASE work.gen[r] = 0
    <3>0. ~ (work.gen[r] > 0)
      BY <2>2
    <3>1. Unlisted(work, r) /\ \A e \in Envs : ~ Swept(e, r)
      BY <2>2, <3>0 DEF CompleteInv, Swept
    <3>2. Unlisted(d, r)
      BY <1>4, <3>1 DEF Unlisted
    <3>3. ~ (db.gen[r] > 0) /\ ~ (d.gen[r] > 0)
      BY <2>1, <3>0 DEF CompleteInv
    <3>4. QED BY <1>5, <3>2, <3>3
  <2>3. CASE <<"standard", r>> \in work.items /\ work.gen[r] > 0
    BY <1>0, <1>1, <1>4, <1>5, <2>1, <2>3
  <2>4. CASE work.gen[r] > 0 /\ Pending(r)
    <3>1. Unclaimed(work, r) /\ SweepAhead(r)
      BY <1>0, <2>4 DEF Pending, Unlisted, Unclaimed
    <3>2. CASE Swept("standard", r)
      BY <1>0, <1>1, <1>4, <1>5, <2>1, <2>4, <3>2
    <3>3. CASE ~ Swept("standard", r)
      <4>1. SweptLater(r)
        BY <2>4, <3>1, <3>3, SweepNowOrLater DEF Swept
      <4>2. Unlisted(d, r)
        BY <1>4, <2>4, <3>3 DEF Unlisted, Pending, Swept
      <4>3. QED BY <1>1, <1>5, <2>1, <2>4, <4>1, <4>2 DEF Pending
    <3>4. QED BY <3>2, <3>3
  <2>5. QED BY <1>1, <2>2, <2>3, <2>4 DEF CompleteInv
<1>8. QED BY <1>6, <1>7

LEMMA CompleteStatement ==
  ASSUME "statement" \notin Modes, TypeOK, CompleteInv, Statements
  PROVE  CompleteInv'
<1>1. artifact # Idle
  BY StatementEffect
<1>2. PICK d : After(d) /\ Executed(d)
  BY StatementEffect
<1>3. /\ work' = d /\ (db' = d \/ db' = db) /\ owned' = owned /\ early' = early
  BY <1>2 DEF Executed
<1>4. SUFFICES ASSUME NEW r \in CoreRefs, ~ Excused(r)
      PROVE  /\ db'.gen[r] > 0 => <<"standard", r>> \in db'.items /\ d.gen[r] > 0
             /\ db'.gen[r] = 0 => Unlisted(db', r)
             /\ d.gen[r] = 0 => Unlisted(d, r)
             /\ d.gen[r] > 0 => <<"standard", r>> \in d.items \/ Pending(r)'
             /\ ~ Listed(db', r) /\ ~ Listed(d, r)
  BY <1>3 DEF CompleteInv, Excused, Unlisted, Listed
<1>5. /\ db.gen[r] > 0 => d.gen[r] > 0
      /\ d.gen[r] = 0 => Unlisted(d, r)
      /\ d.gen[r] > 0 => \/ <<"standard", r>> \in d.items
                         \/ SweptLater(r) /\ Unlisted(d, r) /\ db.gen[r] = 0
      /\ ~ Listed(d, r)
  BY <1>1, <1>2, <1>4, SweptAfter
<1>6. d.gen[r] \in Nat /\ db.gen[r] \in Nat
  BY <1>2, RowCounts DEF After, TypeOK, CoreRefs
<1>7. CASE SweptLater(r) /\ Unlisted(d, r) /\ db.gen[r] = 0
  <2>1. db' = db /\ SweepAhead(r)'
    BY <1>1, <1>2, <1>7, LaterIsAhead
  <2>2. Pending(r)'
    BY <1>3, <1>7, <2>1 DEF Pending, Unlisted
  <2>3. QED BY <1>4, <1>5, <1>6, <1>7, <2>1, <2>2 DEF CompleteInv
<1>8. CASE d.gen[r] > 0 /\ <<"standard", r>> \in d.items
  BY <1>3, <1>4, <1>5, <1>6, <1>8 DEF CompleteInv
<1>9. CASE d.gen[r] = 0
  <2>1. db.gen[r] = 0 /\ ~ (db.gen[r] > 0) /\ ~ (d.gen[r] > 0)
    BY <1>5, <1>6, <1>9
  <2>2. Unlisted(d, r) /\ Unlisted(db, r) /\ ~ Listed(db, r)
    BY <1>4, <1>5, <1>9, <2>1 DEF CompleteInv
  <2>3. CASE db' = d
    BY <1>5, <2>1, <2>2, <2>3
  <2>4. CASE db' = db
    BY <1>5, <2>1, <2>2, <2>4 DEF Unlisted, Listed
  <2>5. QED BY <1>3, <2>3, <2>4
<1>10. QED BY <1>5, <1>6, <1>7, <1>8, <1>9

\* What a consumer lists is none of the rows the invariant speaks of, unless
\* it is committed already.
LEMMA CompleteConsumer ==
  ASSUME TypeOK, CompleteInv, Consumer
  PROVE  CompleteInv'
<1>1. PICK new : Added(new)
  BY ConsumerEffect
<1>2. /\ db'.items = db.items \cup new /\ work'.items = work.items \cup new
      /\ owned' = owned \cup new /\ early \subseteq early'
      /\ artifact' = artifact /\ pc' = pc
  BY <1>1 DEF Added
<1>3. SUFFICES ASSUME NEW r \in CoreRefs, ~ Excused(r)'
      PROVE  /\ db'.gen[r] > 0 => <<"standard", r>> \in db'.items /\ work'.gen[r] > 0
             /\ db'.gen[r] = 0 => Unlisted(db', r)
             /\ work'.gen[r] = 0 => Unlisted(work', r)
             /\ work'.gen[r] > 0 => <<"standard", r>> \in work'.items \/ Pending(r)'
             /\ ~ Listed(db', r) /\ ~ Listed(work', r)
  BY DEF CompleteInv, Unlisted, Listed
<1>4. /\ ~ Excused(r) /\ r \notin early'
      /\ \A e \in Exts : <<e, r>> \notin new
  BY <1>2, <1>3 DEF Excused
<1>5. /\ r \in Refs \ ConsumerRefs
      /\ db'.gen[r] = db.gen[r] /\ work'.gen[r] = work.gen[r]
  BY <1>1 DEF Added, CoreRefs
<1>6. (\E e \in Envs : <<e, r>> \in new) => db.gen[r] # 0
  BY <1>1, <1>4, <1>5 DEF Added
<1>7. SweepAhead(r)' <=> SweepAhead(r)
  BY <1>2 DEF SweepAhead
<1>8. db.gen[r] \in Nat /\ work.gen[r] \in Nat
  BY <1>5, RowCounts DEF TypeOK
<1>9. ~ Listed(db', r) /\ ~ Listed(work', r)
  BY <1>2, <1>4 DEF CompleteInv, Listed
<1>10. CASE \A e \in Envs : <<e, r>> \notin new
  <2>1. /\ \A e \in Envs : /\ <<e, r>> \in db'.items <=> <<e, r>> \in db.items
                           /\ <<e, r>> \in work'.items <=> <<e, r>> \in work.items
    BY <1>2, <1>10
  <2>2. "standard" \in Envs
    BY DEF Envs
  <2>3. QED BY <1>4, <1>5, <1>7, <1>9, <2>1, <2>2 DEF CompleteInv, Pending, Unlisted
<1>11. CASE db.gen[r] # 0
  <2>1. db.gen[r] > 0 /\ work.gen[r] > 0 /\ <<"standard", r>> \in db.items
        /\ <<"standard", r>> \in work.items
    BY <1>4, <1>8, <1>11 DEF CompleteInv, Pending
  <2>2. QED BY <1>2, <1>5, <1>9, <2>1
<1>12. QED BY <1>6, <1>10, <1>11

\* A core row is in standard or still to be swept in the open transaction,
\* when runs use a transaction per file or per bundle.
THEOREM SweptInTime ==
  ASSUME "statement" \notin Modes
  PROVE  Spec => []CompleteInv
<1>1. Init => CompleteInv
  <2> SUFFICES ASSUME Init PROVE CompleteInv
    OBVIOUS
  <2>1. /\ db.items = {} /\ work.items = {}
        /\ \A r \in Refs : db.gen[r] = 0 /\ work.gen[r] = 0
    BY DEF Init, Empty
  <2>2. QED BY <2>1 DEF CompleteInv, Unlisted, Listed, CoreRefs
<1>2. TypeOK /\ CompleteInv /\ [Next]_vars => CompleteInv'
  <2> SUFFICES ASSUME TypeOK, CompleteInv, [Next]_vars PROVE CompleteInv'
    OBVIOUS
  <2>0. \A r \in CoreRefs : db.gen[r] \in Nat
    BY RowCounts DEF TypeOK, CoreRefs
  <2>1. ASSUME NEW a \in Artifacts, NEW m \in Modes, Begin(a, m) PROVE CompleteInv'
    BY <2>1, <2>0 DEF Begin, CompleteInv, Excused, Unlisted, Listed
  <2>2. CASE Statements
    BY <2>2, CompleteStatement
  <2>3. CASE Crash
    BY <2>3, <2>0 DEF Crash, CompleteInv, Excused, Unlisted, Listed
  <2>4. CASE Consumer
    BY <2>4, CompleteConsumer
  <2>5. CASE UNCHANGED vars
    BY <2>5 DEF vars, CompleteInv, Excused, Pending, SweepAhead, Unlisted, Listed
  <2>6. QED BY <2>1, <2>2, <2>3, <2>4, <2>5 DEF Next, Installer, Statements
<1>3. QED BY <1>1, <1>2, TypeCorrect, PTL DEF Spec

\* Every committed core row is visible in standard, except those a consumer
\* listed before they were committed (the sweep passes over them) or under a
\* library's environment (the repair takes them out).
THEOREM SweepMissesNothing ==
  ASSUME "statement" \notin Modes
  PROVE  Spec => []StandardComplete
<1>1. CompleteInv => StandardComplete
  BY DEF CompleteInv, StandardComplete
<1>2. QED BY <1>1, SweptInTime, PTL

-----------------------------------------------------------------------------
(***************************************************************************)
(* The version and the functions. While a core artifact runs, the version  *)
(* is its release from the first statement on and every statement done so  *)
(* far is in effect; a library's file finds a settled core and leaves it   *)
(* so. The newest version is the highest, which is why a release that is   *)
(* recorded already and is still allowed to run is the newest one.         *)
(***************************************************************************)
Rel(a) == Body[a][1].rel
IsCore(a) == Body[a][1].file \in CoreFiles

Highest(d) == \A i \in 1..Len(d.versions) : d.versions[i] <= Version(d)

\* Statement i of artifact a is in effect in d.
InEffect(d, a, i) ==
  LET st == Body[a][i] IN
  /\ st.op = "code" => d.code[st.file] = Rel(a)
  /\ st.op = "upsert" => /\ \A r \in st.refs : d.gen[r] = Rel(a)
                         /\ \A r \in st.refs \ Partial : d.rest[r] = Rel(a)
  /\ st.op = "insert" => \A r \in st.refs : d.gen[r] > 0

RunInv ==
  /\ Highest(db) /\ Highest(work)
  /\ artifact = Idle /\ clean >= 1 => CoreAtVersion(db)
  /\ artifact # Idle =>
       /\ Version(work) <= Rel(artifact)
       /\ pc > 1 \/ ~ IsCore(artifact) => Version(work) = Rel(artifact)
       /\ ~ IsCore(artifact) => CoreAtVersion(work)
       /\ \A i \in 1..(pc - 1) : InEffect(work, artifact, i)

\* The artifact at hand, as UpgradeAssumption describes it.
LEMMA CurrentUpgrade ==
  ASSUME TypeOK, artifact # Idle
  PROVE  /\ Current.rel = Rel(artifact) /\ Rel(artifact) \in Nat /\ Rel(artifact) > 0
         /\ Rel(artifact) \in Releases
         /\ IsCore(artifact) /\ pc = 1 => Current.op = "version"
         /\ ~ IsCore(artifact) => Current.op # "version" /\ Current.file \notin CoreFiles
         /\ Current.op = "sweep" => Current.kind # "env"
         /\ Current.op \in {"upsert", "insert"} => Current.refs \cap ConsumerRefs = {}
<1>1. artifact \in Artifacts /\ pc \in 1..Len(Body[artifact]) /\ Current \in Statement
  BY CurrentStatement
<1>2. Current.rel \in Releases
  BY <1>1, StatementFields
<1>3. Current.rel = Rel(artifact)
  BY <1>1, UpgradeAssumption DEF Current, Rel
<1>4. /\ IsCore(artifact) /\ pc = 1 => Current.op = "version"
      /\ ~ IsCore(artifact) => Current.op # "version" /\ Current.file \notin CoreFiles
  BY <1>1, UpgradeAssumption DEF Current, IsCore
<1>5. /\ Current.op = "sweep" => Current.kind # "env"
      /\ Current.op \in {"upsert", "insert"} => Current.refs \cap ConsumerRefs = {}
  BY <1>1, UpgradeAssumption DEF Current
<1>6. Rel(artifact) \in Nat /\ Rel(artifact) > 0 /\ Rel(artifact) \in Releases
  <2>1. Rel(artifact) \in Releases
    BY <1>2, <1>3
  <2>2. Rel(artifact) \in Nat /\ Rel(artifact) # 0
    BY <2>1, ReleaseAssumption
  <2>3. QED BY <2>1, <2>2
<1>7. QED BY <1>3, <1>4, <1>5, <1>6

LEMMA VersionType ==
  ASSUME NEW d \in Registry
  PROVE  /\ Version(d) \in Nat
         /\ d.versions \in Seq(Releases) /\ Len(d.versions) \in Nat
         /\ \A i \in 1..Len(d.versions) : d.versions[i] \in Nat
<1>1. d.versions \in Seq(Releases) /\ Releases \subseteq Nat
  BY ReleaseAssumption DEF Registry
<1>2. Len(d.versions) \in Nat /\ (\A i \in 1..Len(d.versions) : d.versions[i] \in Releases)
  BY <1>1
<1>3. d.versions = <<>> => Version(d) = 0
  BY DEF Version
<1>4. d.versions # <<>> => Version(d) \in Nat
  <2> SUFFICES ASSUME d.versions # <<>> PROVE Version(d) \in Nat
    OBVIOUS
  <2>1. Len(d.versions) \in 1..Len(d.versions)
    BY <1>1, <1>2
  <2>2. d.versions[Len(d.versions)] \in Nat
    BY <1>1, <1>2, <2>1
  <2>3. Version(d) = d.versions[Len(d.versions)]
    BY DEF Version
  <2>4. QED BY <2>2, <2>3
<1>5. Version(d) \in Nat
  BY <1>3, <1>4
<1>6. \A i \in 1..Len(d.versions) : d.versions[i] \in Nat
  BY <1>1, <1>2
<1>7. QED BY <1>1, <1>2, <1>5, <1>6

\* The version after a statement.
LEMMA VersionAfter ==
  ASSUME TypeOK, RunInv, artifact # Idle, NEW d, After(d)
  PROVE  Highest(d) /\ Version(d) = Rel(artifact)
<1>0. /\ work \in Registry /\ Version(work) \in Nat /\ Len(work.versions) \in Nat
      /\ work.versions \in Seq(Releases)
      /\ \A i \in 1..Len(work.versions) : work.versions[i] \in Nat
  BY VersionType DEF TypeOK
<1>1. Rel(artifact) \in Nat /\ Current.rel = Rel(artifact) /\ Rel(artifact) > 0
      /\ Rel(artifact) \in Releases
  BY CurrentUpgrade
<1>2. Highest(work) /\ Version(work) <= Rel(artifact)
  BY DEF RunInv
<1>3. CASE d.versions = work.versions
  <2>1. Version(d) = Version(work) /\ Highest(d)
    BY <1>2, <1>3 DEF Version, Highest
  <2>2. CASE Current.op # "version"
    <3>1. pc > 1 \/ ~ IsCore(artifact)
      BY <2>2, CurrentUpgrade, CurrentStatement
    <3>2. QED BY <2>1, <3>1 DEF RunInv
  <2>3. CASE Current.op = "version"
    <3>1. Len(VersionsAfter) = Len(work.versions)
      BY <1>3 DEF After
    <3>2. Len(Append(work.versions, Current.rel)) = Len(work.versions) + 1
      BY <1>0, <1>1
    <3>3. \E i \in 1..Len(work.versions) : work.versions[i] = Current.rel
      BY <1>0, <2>3, <3>1, <3>2 DEF VersionsAfter
    <3>4. Current.rel <= Version(work)
      BY <1>2, <3>3 DEF Highest
    <3>5. QED BY <1>0, <1>1, <1>2, <2>1, <3>4
  <2>4. QED BY <2>2, <2>3
<1>4. CASE d.versions # work.versions
  <2>1. d.versions = Append(work.versions, Rel(artifact))
    BY <1>1, <1>4 DEF After, VersionsAfter
  <2>2. /\ Len(d.versions) = Len(work.versions) + 1
        /\ d.versions[Len(work.versions) + 1] = Rel(artifact)
        /\ \A i \in 1..Len(work.versions) : d.versions[i] = work.versions[i]
    BY <1>0, <1>1, <2>1
  <2>3. d.versions # <<>>
    BY <1>0, <2>2
  <2>4. Version(d) = Rel(artifact)
    BY <2>2, <2>3 DEF Version
  <2>5. ASSUME NEW i \in 1..Len(d.versions) PROVE d.versions[i] <= Rel(artifact)
    <3>1. CASE i \in 1..Len(work.versions)
      <4>1. d.versions[i] = work.versions[i] /\ work.versions[i] <= Version(work)
        BY <1>2, <2>2, <3>1 DEF Highest
      <4>2. QED BY <1>0, <1>1, <1>2, <3>1, <4>1
    <3>2. CASE i \notin 1..Len(work.versions)
      <4>1. i = Len(work.versions) + 1
        BY <1>0, <2>2, <3>2
      <4>2. QED BY <1>1, <2>2, <4>1
    <3>3. QED BY <3>1, <3>2
  <2>6. QED BY <2>4, <2>5 DEF Highest
<1>5. QED BY <1>3, <1>4

\* What was in effect stays so, and the statement itself comes into effect.
LEMMA EffectAfter ==
  ASSUME TypeOK, RunInv, artifact # Idle, NEW d, After(d), NEW i \in 1..pc
  PROVE  InEffect(d, artifact, i)
<1> DEFINE st == Body[artifact][i]
<1>0. /\ artifact \in Artifacts /\ pc \in 1..Len(Body[artifact]) /\ Len(Body[artifact]) \in Nat
      /\ Current.rel = Rel(artifact) /\ Rel(artifact) > 0
  BY CurrentStatement, CurrentUpgrade
<1>1. i \in 1..Len(Body[artifact])
  BY <1>0
<1>2. st \in Statement
  BY <1>0, <1>1, ArtifactAssumption
<1>3. st.file \in Files /\ st.refs \subseteq Refs
  BY <1>2, StatementFields
<1>4. /\ d.code[st.file] = CodeAfter(st.file)
      /\ \A r \in st.refs : d.gen[r] = GenAfter(r) /\ d.rest[r] = RestAfter(r)
  BY <1>3 DEF After
<1>5. CASE i = pc
  <2>1. st = Current
    BY <1>5 DEF Current
  <2>2. \A r \in st.refs : work.gen[r] \in Nat
    <3>1. work.gen \in [Refs -> Generation] /\ Generation \subseteq Nat
      BY ReleaseAssumption DEF TypeOK, Registry, Generation
    <3> HIDE DEF st
    <3>2. QED BY <1>3, <3>1
  <2>3. \A r \in st.refs : work.gen[r] = 0 \/ work.gen[r] > 0
    BY <2>2
  <2> HIDE DEF st
  <2>4. st.op = "insert" => \A r \in st.refs : d.gen[r] > 0
    BY <1>0, <1>4, <2>1, <2>3 DEF GenAfter, Written
  <2>5. QED BY <1>0, <1>4, <2>1, <2>4
               DEF InEffect, CodeAfter, GenAfter, RestAfter, Written, st
<1>6. CASE i # pc
  <2>1. i \in 1..(pc - 1)
    BY <1>0, <1>6
  <2>2. InEffect(work, artifact, i)
    BY <2>1 DEF RunInv
  <2>3. QED BY <1>0, <1>4, <2>2 DEF InEffect, CodeAfter, GenAfter, RestAfter, Written
<1>7. QED BY <1>5, <1>6

\* A library's file leaves the core alone.
LEMMA CoreAfter ==
  ASSUME TypeOK, RunInv, artifact # Idle, NEW d, After(d), ~ IsCore(artifact)
  PROVE  CoreAtVersion(d)
<1>1. Version(d) = Rel(artifact) /\ Version(work) = Rel(artifact)
  BY VersionAfter DEF RunInv
<1>2. \A f \in CoreFiles : d.code[f] = work.code[f]
  BY CurrentUpgrade, FileAssumption DEF After, CodeAfter
<1>3. QED BY <1>1, <1>2 DEF CoreAtVersion, RunInv

\* At the end of a run everything the artifact ships is in effect, and the
\* core is at the version.
LEMMA RunEnds ==
  ASSUME TypeOK, RunInv, artifact # Idle, AtEnd, NEW d, After(d)
  PROVE  Resynced(d, artifact) /\ CoreAtVersion(d)
<1>1. /\ artifact \in Artifacts /\ pc = Len(Body[artifact])
      /\ \A i \in 1..Len(Body[artifact]) : Body[artifact][i].rel = Rel(artifact)
  BY CurrentStatement, UpgradeAssumption DEF AtEnd, Rel
<1>2. \A i \in 1..Len(Body[artifact]) : InEffect(d, artifact, i)
  BY <1>1, EffectAfter
<1>3. Resynced(d, artifact)
  BY <1>1, <1>2 DEF Resynced, InEffect
<1>4. CASE IsCore(artifact)
  <2>1. \A f \in CoreFiles : \E i \in 1..Len(Body[artifact]) :
          Body[artifact][i].op = "code" /\ Body[artifact][i].file = f
    BY <1>1, <1>4, UpgradeAssumption DEF IsCore
  <2>2. \A f \in CoreFiles : d.code[f] = Rel(artifact)
    BY <1>2, <2>1 DEF InEffect
  <2>3. QED BY <1>3, <2>2, VersionAfter DEF CoreAtVersion
<1>5. CASE ~ IsCore(artifact)
  BY <1>3, <1>5, CoreAfter
<1>6. QED BY <1>4, <1>5

LEMMA RunInvInit == Init => RunInv
BY DEF Init, RunInv, Empty, Highest

LEMMA RunInvNext == TypeOK /\ RunInv /\ [Next]_vars => RunInv'
<1> SUFFICES ASSUME TypeOK, RunInv, [Next]_vars PROVE RunInv'
  OBVIOUS
<1>1. ASSUME NEW a \in Artifacts, NEW m \in Modes, Begin(a, m) PROVE RunInv'
  <2>1. /\ db' = db /\ work' = db /\ artifact' = a /\ pc' = 1 /\ a # Idle
    BY <1>1, ArtifactAssumption DEF Begin
  <2>2. Rel(a) \in Nat /\ Version(db) \in Nat
    <3>1. Body[a][1] \in Statement
      <4>1. Body[a] \in Seq(Statement) /\ Body[a] # <<>>
        BY ArtifactAssumption
      <4>2. 1 \in 1..Len(Body[a])
        BY <4>1
      <4>3. QED BY <4>1, <4>2
    <3>2. QED BY <3>1, StatementFields, ReleaseAssumption, VersionType DEF Rel, TypeOK
  <2>3. /\ Version(db) <= Rel(a)
        /\ ~ IsCore(a) => Version(db) = Rel(a) /\ CoreAtVersion(db)
    BY <1>1, <2>2 DEF Begin, Rel, IsCore, CoreAtVersion
  <2>4. \A i \in 1..(pc' - 1) : FALSE
    BY <2>1
  <2>5. /\ Version(work') = Version(db) /\ CoreAtVersion(work') <=> CoreAtVersion(db)
        /\ Highest(work') <=> Highest(db)
    BY <2>1 DEF Version, CoreAtVersion, Highest
  <2>6. QED BY <2>1, <2>3, <2>4, <2>5 DEF RunInv
<1>2. CASE Statements
  <2>1. artifact # Idle
    BY <1>2, StatementEffect
  <2>2. PICK d : After(d) /\ Executed(d)
    BY <1>2, StatementEffect
  <2>3. Highest(d) /\ Version(d) = Rel(artifact) /\ Rel(artifact) \in Nat
    BY <2>1, <2>2, VersionAfter, CurrentUpgrade
  <2>4. /\ work' = d /\ (db' = d \/ db' = db)
    BY <2>2 DEF Executed
  <2>5. Highest(db') /\ Highest(work')
    BY <2>3, <2>4 DEF RunInv
  <2>6. CASE AtEnd
    <3>1. artifact' = Idle /\ db' = d
      BY <2>2, <2>6 DEF Executed, CommitsHere
    <3>2. CoreAtVersion(d)
      BY <2>1, <2>2, <2>6, RunEnds
    <3>3. CoreAtVersion(db')
      BY <3>1, <3>2
    <3>4. QED BY <2>5, <3>1, <3>3 DEF RunInv, Highest, CoreAtVersion, Version
  <2>7. CASE ~ AtEnd
    <3>1. artifact' = artifact /\ pc' = pc + 1 /\ pc \in Nat
      BY <2>1, <2>2, <2>7 DEF Executed, TypeOK
    <3>2. \A i \in 1..(pc' - 1) : InEffect(d, artifact, i)
      <4>1. pc' - 1 = pc
        BY <3>1
      <4>2. QED BY <2>1, <2>2, <4>1, EffectAfter
    <3>3. ~ IsCore(artifact) => CoreAtVersion(d)
      BY <2>1, <2>2, CoreAfter
    <3>4. QED BY <2>1, <2>3, <2>4, <2>5, <3>1, <3>2, <3>3
                 DEF RunInv, Highest, CoreAtVersion, Version, InEffect, Rel, IsCore
  <2>8. QED BY <2>6, <2>7
<1>3. CASE Crash
  BY <1>3 DEF Crash, RunInv, Highest, Version
<1>4. CASE Consumer
  <2>1. PICK new : Added(new)
    BY <1>4, ConsumerEffect
  <2>2. /\ Version(db') = Version(db) /\ Version(work') = Version(work)
        /\ Highest(db') /\ Highest(work')
    BY <2>1 DEF Added, Version, Highest, RunInv
  <2>3. CoreAtVersion(db') <=> CoreAtVersion(db)
    BY <2>1, <2>2 DEF Added, CoreAtVersion
  <2>4. CoreAtVersion(work') <=> CoreAtVersion(work)
    BY <2>1, <2>2 DEF Added, CoreAtVersion
  <2>5. artifact # Idle => \A i \in 1..(pc - 1) : InEffect(work', artifact, i)
    <3> SUFFICES ASSUME artifact # Idle, NEW i \in 1..(pc - 1)
                 PROVE  InEffect(work', artifact, i)
      OBVIOUS
    <3>1. artifact \in Artifacts /\ i \in 1..Len(Body[artifact])
      BY CurrentStatement
    <3>2. Body[artifact][i] \in Statement
      BY <3>1, ArtifactAssumption
    <3>3. /\ Body[artifact][i].refs \subseteq Refs
          /\ Body[artifact][i].op \in {"upsert", "insert"} =>
               Body[artifact][i].refs \cap ConsumerRefs = {}
      BY <3>1, <3>2, StatementFields, UpgradeAssumption
    <3>4. InEffect(work, artifact, i)
      BY DEF RunInv
    <3>5. QED BY <2>1, <3>3, <3>4 DEF InEffect, Added
  <2>6. UNCHANGED <<artifact, pc, clean>>
    BY <2>1 DEF Added
  <2>7. QED BY <2>2, <2>3, <2>4, <2>5, <2>6
               DEF RunInv, Highest, CoreAtVersion, Version, InEffect, Rel, IsCore
<1>5. CASE UNCHANGED vars
  BY <1>5 DEF vars, RunInv, Highest, CoreAtVersion, Version, InEffect, Rel, IsCore
<1>6. QED BY <1>1, <1>2, <1>3, <1>4, <1>5 DEF Next, Installer, Statements

\* However the scripts are run, once a run has completed since the last
\* failure cel.version() is the release of every core function.
THEOREM VersionSettles == Spec => []VersionSettled
<1>1. RunInv => VersionSettled
  BY DEF RunInv, VersionSettled
<1>2. QED BY <1>1, RunInvInit, RunInvNext, TypeCorrect, PTL DEF Spec

\* A run completes with a statement.
LEMMA RunCompletesBy ==
  ASSUME TypeOK, Next, RunCompletes
  PROVE  Statements
<1>1. /\ artifact # Idle /\ artifact' = Idle /\ clean' = clean + 1 /\ clean \in Nat
  BY DEF RunCompletes, TypeOK
<1>2. ~ Consumer
  BY <1>1 DEF Consumer, Register, Enable
<1>3. ~ Crash
  BY <1>1 DEF Crash
<1>4. ~ \E a \in Artifacts, m \in Modes : Begin(a, m)
  BY <1>1 DEF Begin
<1>5. QED BY <1>2, <1>3, <1>4 DEF Next, Installer, Statements

\* A run that completes has replaced every function its artifact ships, every
\* column its upserts name and every row they were the first to insert,
\* whatever earlier runs left behind (docs/INSTALL.md).
THEOREM CompleteRunReplaces == Spec => ReplacesWhatItShips
<1>1. TypeOK /\ RunInv /\ [Next]_vars => [RunCompletes => Resynced(db', artifact)]_vars
  <2> SUFFICES ASSUME TypeOK, RunInv, Next, RunCompletes PROVE Resynced(db', artifact)
    OBVIOUS
  <2>1. Statements
    BY RunCompletesBy
  <2>2. PICK d : After(d) /\ Executed(d)
    BY <2>1, StatementEffect
  <2>3. AtEnd /\ artifact # Idle /\ db' = d
    BY <2>2 DEF RunCompletes, Executed, CommitsHere
  <2>4. QED BY <2>2, <2>3, RunEnds
<1>2. QED BY <1>1, RunInvInit, RunInvNext, TypeCorrect, PTL DEF Spec, ReplacesWhatItShips

-----------------------------------------------------------------------------
(***************************************************************************)
(* Confinement. A consumer's row shows up where the consumer did not list  *)
(* it in two ways only: a library's claim reaches it, or a sweep takes it  *)
(* for an unlisted row of the core. The second needs that the row, when it *)
(* was committed, was listed nowhere: what is listed once stays listed     *)
(* somewhere (the repair leaves the listing it found the row by).          *)
(***************************************************************************)
Somewhere(d, r) == \E e \in Envs : <<e, r>> \in d.items

AllowedIn(d) ==
  \A r \in ConsumerRefs, e \in Envs : <<e, r>> \in d.items =>
    \/ <<e, r>> \in owned
    \/ Claims(e, r)
    \/ e = "standard" /\ Impl[r] # "own" /\ r \in bare

ConfinedInv ==
  /\ AllowedIn(db) /\ AllowedIn(work)
  /\ \A r \in ConsumerRefs :
       /\ db.gen[r] > 0 => r \in bare \/ Somewhere(db, r)
       /\ work.gen[r] > 0 => r \in bare \/ Somewhere(work, r)
       /\ Somewhere(db, r) => Somewhere(work, r)

\* A listed row stays listed somewhere.
LEMMA SomewhereAfter ==
  ASSUME TypeOK, artifact # Idle, NEW d, After(d), NEW r \in Refs, Somewhere(work, r)
  PROVE  Somewhere(d, r)
<1>1. CASE Listed(work, r)
  <2>1. PICK x \in Exts : <<x, r>> \in work.items
    BY <1>1 DEF Listed
  <2>2. x \in Envs /\ ~ Repaired(x, r)
    BY EnvAssumption DEF Envs, Repaired
  <2>3. QED BY <2>1, <2>2 DEF After, ItemAfter, Somewhere
<1>2. CASE ~ Listed(work, r)
  <2>1. PICK e \in Envs : <<e, r>> \in work.items
    BY DEF Somewhere
  <2>2. <<e, r>> \in d.items
    BY <1>2, <2>1 DEF After, ItemAfter, Repaired
  <2>3. QED BY <2>2 DEF Somewhere
<1>3. QED BY <1>1, <1>2

\* A claim lists what it claims; a sweep takes an unlisted row, which is bare.
LEMMA AllowedAfter ==
  ASSUME TypeOK, artifact # Idle, ConfinedInv, NEW d, After(d)
  PROVE  AllowedIn(d)
<1> SUFFICES ASSUME NEW r \in ConsumerRefs, NEW e \in Envs, <<e, r>> \in d.items
             PROVE  \/ <<e, r>> \in owned
                    \/ Claims(e, r)
                    \/ e = "standard" /\ Impl[r] # "own" /\ r \in bare
  BY DEF AllowedIn
<1>1. r \in Refs /\ ItemAfter(e, r)
  BY RefAssumption DEF After
<1>2. CASE <<e, r>> \in work.items
  BY <1>2 DEF ConfinedInv, AllowedIn
<1>3. CASE Swept(e, r)
  BY <1>3 DEF Swept, Unclaimed, ConfinedInv, Somewhere
<1>4. CASE Claimed(e, r)
  <2>1. /\ artifact \in Artifacts /\ pc \in 1..Len(Body[artifact])
        /\ Body[artifact][pc].op = "claim" /\ Body[artifact][pc].env = e
        /\ r \in Body[artifact][pc].refs
    BY <1>4, CurrentStatement DEF Claimed, Current
  <2>2. Claims(e, r)
    BY <2>1 DEF Claims
  <2>3. QED BY <2>2
<1>5. QED BY <1>1, <1>2, <1>3, <1>4 DEF ItemAfter

LEMMA ConfinedStatement ==
  ASSUME TypeOK, ConfinedInv, Statements
  PROVE  ConfinedInv'
<1>1. artifact # Idle
  BY StatementEffect
<1>2. PICK d : After(d) /\ Executed(d)
  BY StatementEffect
<1>3. AllowedIn(d)
  BY <1>1, <1>2, AllowedAfter
<1>4. /\ work' = d /\ (db' = d \/ db' = db) /\ owned' = owned /\ bare' = bare
  BY <1>2 DEF Executed
<1>5. ASSUME NEW r \in ConsumerRefs
      PROVE  /\ d.gen[r] > 0 => r \in bare \/ Somewhere(d, r)
             /\ Somewhere(work, r) => Somewhere(d, r)
  <2>1. r \in Refs
    BY RefAssumption
  <2>2. d.gen[r] = work.gen[r]
    BY <1>1, <1>2, <2>1, CurrentUpgrade DEF After, GenAfter, Written
  <2>3. Somewhere(work, r) => Somewhere(d, r)
    BY <1>1, <1>2, <2>1, SomewhereAfter
  <2>4. QED BY <2>2, <2>3 DEF ConfinedInv
<1>6. AllowedIn(db)' /\ AllowedIn(work)'
  BY <1>3, <1>4 DEF ConfinedInv, AllowedIn, Claims
<1>7. \A r \in ConsumerRefs :
        /\ db'.gen[r] > 0 => r \in bare' \/ Somewhere(db, r)'
        /\ work'.gen[r] > 0 => r \in bare' \/ Somewhere(work, r)'
        /\ Somewhere(db, r)' => Somewhere(work, r)'
  <2>1. CASE db' = d
    BY <1>4, <1>5, <2>1 DEF Somewhere
  <2>2. CASE db' = db
    BY <1>4, <1>5, <2>2 DEF Somewhere, ConfinedInv
  <2>3. QED BY <1>4, <2>1, <2>2
<1>8. QED BY <1>6, <1>7 DEF ConfinedInv

LEMMA ConfinedConsumer ==
  ASSUME TypeOK, ConfinedInv, Consumer
  PROVE  ConfinedInv'
<1>1. PICK new : Added(new)
  BY ConsumerEffect
<1>2. /\ db'.items = db.items \cup new /\ work'.items = work.items \cup new
      /\ owned' = owned \cup new /\ bare \subseteq bare'
  BY <1>1 DEF Added
<1>3. ASSUME NEW r \in ConsumerRefs, NEW e \in Envs,
             <<e, r>> \in db'.items \/ <<e, r>> \in work'.items
      PROVE  \/ <<e, r>> \in owned'
             \/ Claims(e, r)
             \/ e = "standard" /\ Impl[r] # "own" /\ r \in bare'
  <2>1. CASE <<e, r>> \in new
    BY <1>2, <2>1
  <2>2. CASE <<e, r>> \in db.items \/ <<e, r>> \in work.items
    BY <1>2, <2>2 DEF ConfinedInv, AllowedIn
  <2>3. QED BY <1>2, <1>3, <2>1, <2>2
<1>4. ASSUME NEW r \in ConsumerRefs
      PROVE  /\ Somewhere(db', r) => Somewhere(work', r)
             /\ Somewhere(db, r) => Somewhere(db', r)
             /\ Somewhere(work, r) => Somewhere(work', r)
  BY <1>2 DEF ConfinedInv, Somewhere
<1>5. ASSUME NEW r \in ConsumerRefs
      PROVE  /\ db'.gen[r] > 0 => r \in bare' \/ Somewhere(db', r)
             /\ work'.gen[r] > 0 => r \in bare' \/ Somewhere(work', r)
  <2>1. CASE db'.gen[r] = db.gen[r] /\ work'.gen[r] = work.gen[r]
    BY <1>2, <1>4, <2>1 DEF ConfinedInv
  <2>2. CASE r \in bare' \/ \E e \in Envs : <<e, r>> \in db'.items
    BY <1>4, <2>2 DEF Somewhere
  <2>3. QED BY <1>1, <2>1, <2>2 DEF Added
<1>6. QED BY <1>3, <1>4, <1>5 DEF ConfinedInv, AllowedIn, Claims, Somewhere

\* At any transaction granularity a consumer's row is visible where the
\* consumer listed it, where a library's claim reaches it, and otherwise at
\* most in standard, when it names no implementation of the consumer's own
\* and was committed while nothing listed it (cel._unclaimed).
THEOREM ConsumersConfined == Spec => []ConsumerConfined
<1>1. Init => ConfinedInv
  <2> SUFFICES ASSUME Init PROVE ConfinedInv
    OBVIOUS
  <2>1. /\ db.items = {} /\ work.items = {}
        /\ \A r \in Refs : db.gen[r] = 0 /\ work.gen[r] = 0
    BY DEF Init, Empty
  <2>2. QED BY <2>1, RefAssumption DEF ConfinedInv, AllowedIn, Somewhere
<1>2. TypeOK /\ ConfinedInv /\ [Next]_vars => ConfinedInv'
  <2> SUFFICES ASSUME TypeOK, ConfinedInv, [Next]_vars PROVE ConfinedInv'
    OBVIOUS
  <2>1. ASSUME NEW a \in Artifacts, NEW m \in Modes, Begin(a, m) PROVE ConfinedInv'
    BY <2>1 DEF Begin, ConfinedInv, AllowedIn, Claims, Somewhere
  <2>2. CASE Statements
    BY <2>2, ConfinedStatement
  <2>3. CASE Crash
    <3>1. db' = db /\ work' = db /\ owned' = owned /\ bare' = bare
      BY <2>3 DEF Crash
    <3>2. AllowedIn(db)' /\ AllowedIn(work)'
      BY <3>1 DEF ConfinedInv, AllowedIn, Claims
    <3>3. QED BY <3>1, <3>2 DEF ConfinedInv, Somewhere
  <2>4. CASE Consumer
    BY <2>4, ConfinedConsumer
  <2>5. CASE UNCHANGED vars
    <3>1. db' = db /\ work' = work /\ owned' = owned /\ bare' = bare
      BY <2>5 DEF vars
    <3>2. AllowedIn(db)' /\ AllowedIn(work)'
      BY <3>1 DEF ConfinedInv, AllowedIn, Claims
    <3>3. QED BY <3>1, <3>2 DEF ConfinedInv, Somewhere
  <2>6. QED BY <2>1, <2>2, <2>3, <2>4, <2>5 DEF Next, Installer, Statements
<1>3. ConfinedInv => ConsumerConfined
  BY DEF ConfinedInv, AllowedIn, ConsumerConfined, ListedUnder
<1>4. QED BY <1>1, <1>2, <1>3, TypeCorrect, PTL DEF Spec

-----------------------------------------------------------------------------
(***************************************************************************)
(* Idempotence: an artifact that is installed already changes nothing, but *)
(* for the listings of rows that a consumer has a part in.                 *)
(* Each kind of statement needs a fact about the schema it finds:          *)
(*   - recording the version: whatever core function is there came with    *)
(*     its release recorded (RecordedInv);                                 *)
(*   - the repair: what is in standard is the core's or the consumer's     *)
(*     (StandardInv), and no library lists a row of the core (CompleteInv);*)
(*   - a sweep: core rows are swept already, library rows are listed;      *)
(*   - a claim: a library's row is listed under its library (HomeInv).     *)
(***************************************************************************)
\* Every claim of a row is under the same environment.
OneLibrary ==
  \A a, b \in Artifacts : \A i \in 1..Len(Body[a]), j \in 1..Len(Body[b]) :
    /\ Body[a][i].op = "claim" /\ Body[b][j].op = "claim"
    /\ Body[a][i].refs \cap Body[b][j].refs # {}
    => Body[a][i].env = Body[b][j].env

HomeInv ==
  \A r \in ExtRefs, e \in Exts :
    Claims(e, r) => /\ db.gen[r] > 0 => <<e, r>> \in db.items
                    /\ work.gen[r] > 0 => <<e, r>> \in work.items \/ AboutToList(r)

StandardInv ==
  \A r \in Refs :
    <<"standard", r>> \in db.items \cup work.items =>
      r \in CoreRefs \cup ConsumerRefs \/ <<"standard", r>> \in owned

EarlyInv == \A r \in early : \E e \in Envs : <<e, r>> \in owned

Recorded(d) ==
  \A f \in CoreFiles : d.code[f] > 0 => \E i \in 1..Len(d.versions) : d.versions[i] = d.code[f]

RecordedInv == Recorded(db) /\ Recorded(work)

\* Rows of libraries once the statement is done.
LEMMA HomeKept ==
  ASSUME "statement" \notin Modes, OneLibrary, TypeOK, HomeInv, Statements
  PROVE  HomeInv'
<1>1. artifact # Idle
  BY StatementEffect
<1>2. PICK d : After(d) /\ Executed(d)
  BY StatementEffect
<1>3. SUFFICES ASSUME NEW r \in ExtRefs, NEW e \in Exts, Claims(e, r)
      PROVE  /\ db'.gen[r] > 0 => <<e, r>> \in db'.items
             /\ d.gen[r] > 0 => <<e, r>> \in d.items \/ AboutToList(r)'
  BY <1>2 DEF Executed, HomeInv, Claims
<1>4. r \in Refs /\ e \in Envs /\ e # "standard"
  BY RefAssumption, EnvAssumption DEF Envs
<1>5. db.gen[r] > 0 => <<e, r>> \in db.items
  BY <1>3 DEF HomeInv
<1>6. CASE Written(r)
  <2>1. AboutToList(r)' /\ db' = db
    BY <1>1, <1>2, <1>6, WrittenThenListed DEF TypeOK
  <2>2. QED BY <1>5, <2>1
<1>7. CASE ~ Written(r)
  <2>1. d.gen[r] = work.gen[r]
    BY <1>2, <1>4, <1>7 DEF After, GenAfter
  <2>2. d.gen[r] > 0 => <<e, r>> \in d.items
    <3> SUFFICES ASSUME d.gen[r] > 0 PROVE ItemAfter(e, r)
      BY <1>2, <1>4 DEF After
    <3>1. CASE <<e, r>> \in work.items
      BY <1>4, <3>1 DEF ItemAfter, Repaired
    <3>2. CASE AboutToList(r)
      <4>0. artifact \in Artifacts /\ pc \in 1..Len(Body[artifact])
        BY <1>1, CurrentStatement
      <4>1. Current.op = "claim" /\ r \in Current.refs
        BY <3>2 DEF AboutToList
      <4>a. PICK a \in Artifacts : \E i \in 1..Len(Body[a]) :
              Body[a][i].op = "claim" /\ Body[a][i].env = e /\ r \in Body[a][i].refs
        BY <1>3 DEF Claims
      <4>2. PICK i \in 1..Len(Body[a]) :
              Body[a][i].op = "claim" /\ Body[a][i].env = e /\ r \in Body[a][i].refs
        BY <4>a
      <4>3. Current.env = e
        BY <4>0, <4>1, <4>2 DEF OneLibrary, Current
      <4>4. QED BY <2>1, <4>1, <4>3 DEF ItemAfter, Claimed
    <3>3. QED BY <1>3, <2>1, <3>1, <3>2 DEF HomeInv
  <2>3. db' = db \/ db' = d
    BY <1>2 DEF Executed
  <2>4. QED BY <1>5, <2>2, <2>3
<1>8. QED BY <1>6, <1>7

\* No sweep puts a library's row into standard.
LEMMA SweptIsCore ==
  ASSUME TypeOK, LibraryInv, artifact # Idle,
         NEW e \in Envs, NEW r \in Refs, Swept(e, r)
  PROVE  r \in CoreRefs \cup ConsumerRefs
<1>1. r \notin ExtRefs
  BY DEF Swept, LibraryInv, AboutToList, Listed, Unclaimed, Envs
<1>2. Kind[r] # "env"
  BY CurrentUpgrade DEF Swept
<1>3. QED BY <1>1, <1>2 DEF CoreRefs

LEMMA StandardKept ==
  ASSUME TypeOK, LibraryInv, StandardInv, Statements
  PROVE  StandardInv'
<1>1. artifact # Idle
  BY StatementEffect
<1>2. PICK d : After(d) /\ Executed(d)
  BY StatementEffect
<1>3. "standard" \in Envs
  BY DEF Envs
<1>4. ASSUME NEW r \in Refs, <<"standard", r>> \in d.items
      PROVE  r \in CoreRefs \cup ConsumerRefs \/ <<"standard", r>> \in owned
  <2>1. ItemAfter("standard", r)
    BY <1>2, <1>3, <1>4 DEF After
  <2>2. ~ Claimed("standard", r)
    BY <1>1, CurrentScript, EnvAssumption DEF Claimed
  <2>3. Swept("standard", r) => r \in CoreRefs \cup ConsumerRefs
    BY <1>1, <1>3, SweptIsCore
  <2>4. QED BY <2>1, <2>2, <2>3 DEF ItemAfter, StandardInv
<1>5. work' = d /\ db' \in {db, d} /\ owned' = owned
  BY <1>2 DEF Executed
<1>6. QED BY <1>4, <1>5 DEF StandardInv

LEMMA RecordedKept ==
  ASSUME TypeOK, RunInv, RecordedInv, Statements
  PROVE  RecordedInv'
<1>1. artifact # Idle
  BY StatementEffect
<1>2. PICK d : After(d) /\ Executed(d)
  BY StatementEffect
<1>3. d \in Registry /\ work \in Registry
  BY <1>2 DEF After, TypeOK
<1>4. /\ d.versions \in Seq(Releases) /\ Len(d.versions) \in Nat
      /\ work.versions \in Seq(Releases) /\ Len(work.versions) \in Nat
  BY <1>3, VersionType
<1>5. \A i \in 1..Len(work.versions) : i \in 1..Len(d.versions) /\ d.versions[i] = work.versions[i]
  <2>1. CASE d.versions = work.versions
    BY <2>1
  <2>2. CASE d.versions # work.versions
    <3>1. d.versions = Append(work.versions, Current.rel) /\ Current.rel \in Releases
      BY <1>1, <1>2, <2>2, CurrentUpgrade DEF After, VersionsAfter
    <3>2. QED BY <1>4, <3>1
  <2>3. QED BY <2>1, <2>2
<1>6. Recorded(d)
  <2> SUFFICES ASSUME NEW f \in CoreFiles, d.code[f] > 0
               PROVE  \E i \in 1..Len(d.versions) : d.versions[i] = d.code[f]
    BY DEF Recorded
  <2>1. d.code[f] = CodeAfter(f)
    BY <1>2, FileAssumption DEF After
  <2>2. CASE d.code[f] = work.code[f]
    BY <1>5, <2>2 DEF RecordedInv, Recorded
  <2>3. CASE d.code[f] # work.code[f]
    <3>1. d.code[f] = Rel(artifact) /\ Version(d) = Rel(artifact) /\ Rel(artifact) > 0
      BY <1>1, <1>2, <2>1, <2>3, CurrentUpgrade, VersionAfter DEF CodeAfter
    <3>2. d.versions # <<>>
      BY <1>1, <3>1, CurrentUpgrade DEF Version
    <3>3. Len(d.versions) \in 1..Len(d.versions)
      BY <1>4, <3>2
    <3>4. QED BY <3>1, <3>2, <3>3 DEF Version
  <2>4. QED BY <2>2, <2>3
<1>7. work' = d /\ db' \in {db, d}
  BY <1>2 DEF Executed
<1>8. QED BY <1>6, <1>7 DEF RecordedInv, Recorded

FoundInv == HomeInv /\ StandardInv /\ EarlyInv /\ RecordedInv

LEMMA FoundInit == Init => FoundInv
<1> SUFFICES ASSUME Init PROVE FoundInv
  OBVIOUS
<1>1. /\ db.items = {} /\ work.items = {} /\ early = {}
      /\ \A r \in Refs : db.gen[r] = 0 /\ work.gen[r] = 0
      /\ \A f \in Files : db.code[f] = 0 /\ work.code[f] = 0
  BY DEF Init, Empty
<1>2. HomeInv
  BY <1>1, RefAssumption DEF HomeInv
<1>3. StandardInv /\ EarlyInv
  BY <1>1 DEF StandardInv, EarlyInv
<1>4. RecordedInv
  BY <1>1, FileAssumption DEF RecordedInv, Recorded
<1>5. QED BY <1>2, <1>3, <1>4 DEF FoundInv

LEMMA FoundNext ==
  ASSUME "statement" \notin Modes, OneLibrary,
         TypeOK, RunInv, LibraryInv, FoundInv, [Next]_vars
  PROVE  FoundInv'
<1>1. ASSUME NEW a \in Artifacts, NEW m \in Modes, Begin(a, m) PROVE FoundInv'
  <2>1. db' = db /\ work' = db /\ owned' = owned /\ early' = early
    BY <1>1 DEF Begin
  <2>2. HomeInv'
    BY <2>1 DEF FoundInv, HomeInv, Claims
  <2>3. QED BY <2>1, <2>2 DEF FoundInv, StandardInv, EarlyInv, RecordedInv, Recorded
<1>2. CASE Statements
  <2>1. HomeInv' /\ StandardInv' /\ RecordedInv'
    BY <1>2, HomeKept, StandardKept, RecordedKept DEF FoundInv
  <2>2. owned' = owned /\ early' = early
    BY <1>2, StatementEffect DEF Executed
  <2>3. QED BY <2>1, <2>2 DEF FoundInv, EarlyInv
<1>3. CASE Crash
  <2>1. db' = db /\ work' = db /\ owned' = owned /\ early' = early
    BY <1>3 DEF Crash
  <2>2. HomeInv'
    BY <2>1 DEF FoundInv, HomeInv, Claims
  <2>3. QED BY <2>1, <2>2 DEF FoundInv, StandardInv, EarlyInv, RecordedInv, Recorded
<1>4. CASE Consumer
  <2>1. PICK new : Added(new)
    BY <1>4, ConsumerEffect
  <2>2. HomeInv'
    <3>1. db.items \subseteq db'.items /\ work.items \subseteq work'.items
      BY <2>1 DEF Added
    <3>2. QED BY <2>1, <3>1, ConsumerLists DEF FoundInv, HomeInv, Claims
  <2>3. StandardInv'
    BY <2>1 DEF Added, FoundInv, StandardInv
  <2>4. EarlyInv'
    BY <2>1 DEF Added, FoundInv, EarlyInv
  <2>5. RecordedInv'
    BY <2>1 DEF Added, FoundInv, RecordedInv, Recorded
  <2>6. QED BY <2>2, <2>3, <2>4, <2>5 DEF FoundInv
<1>5. CASE UNCHANGED vars
  <2>1. /\ db' = db /\ work' = work /\ owned' = owned /\ early' = early
        /\ artifact' = artifact /\ pc' = pc
    BY <1>5 DEF vars
  <2>2. HomeInv'
    BY <2>1 DEF FoundInv, HomeInv, Claims, AboutToList, Current
  <2>3. QED BY <2>1, <2>2 DEF FoundInv, StandardInv, EarlyInv, RecordedInv, Recorded
<1>6. QED BY <1>1, <1>2, <1>3, <1>4, <1>5 DEF Next, Installer, Statements

\* SameButTouched, field by field.
LEMMA SameFields ==
  ASSUME NEW d \in Registry, NEW c \in Registry
  PROVE  SameButTouched(d, c) <=>
           /\ d.versions = c.versions /\ d.code = c.code
           /\ d.gen = c.gen /\ d.rest = c.rest
           /\ \A e \in Envs, r \in Refs \ Touched : <<e, r>> \in d.items <=> <<e, r>> \in c.items
<1>1. [d EXCEPT !.items = {}] = [c EXCEPT !.items = {}] <=>
        d.versions = c.versions /\ d.code = c.code /\ d.gen = c.gen /\ d.rest = c.rest
  BY DEF Registry
<1>2. QED BY <1>1 DEF SameButTouched

\* A row that the consumer has no part in.
LEMMA Untouched ==
  ASSUME FoundInv, NEW r \in Refs \ Touched
  PROVE  r \notin ConsumerRefs /\ ~ Excused(r) /\ (\A e \in Envs : <<e, r>> \notin owned)
<1>1. r \notin ConsumerRefs /\ \A i \in owned : i[2] # r
  BY DEF Touched
<1>2. \A e : <<e, r>> \notin owned
  <2>1. \A e : <<e, r>>[2] = r
    OBVIOUS
  <2>2. QED BY <1>1, <2>1
<1>3. r \notin early
  BY <1>2 DEF FoundInv, EarlyInv
<1>4. QED BY <1>1, <1>2, <1>3 DEF Excused

\* A statement of an artifact that is in effect already leaves the registry
\* as it finds it.
LEMMA NothingChanges ==
  ASSUME TypeOK, RunInv, LibraryInv, CompleteInv, FoundInv,
         artifact # Idle, SameButTouched(work, db), Resynced(db, artifact), NEW d, After(d)
  PROVE  SameButTouched(d, db)
<1>0. /\ artifact \in Artifacts /\ pc \in 1..Len(Body[artifact])
      /\ Current = Body[artifact][pc] /\ Current \in Statement
      /\ d \in Registry /\ work \in Registry /\ db \in Registry
  BY CurrentStatement DEF Current, After, TypeOK
<1>s. /\ work.versions = db.versions /\ work.code = db.code
      /\ work.gen = db.gen /\ work.rest = db.rest
      /\ \A e \in Envs, r \in Refs \ Touched :
           <<e, r>> \in work.items <=> <<e, r>> \in db.items
  BY <1>0, SameFields
<1>1. /\ Current.file \in Files /\ Current.env \in Envs /\ Current.refs \subseteq Refs
      /\ Current.rel \in Nat /\ Current.rel # 0
  BY <1>0, StatementFields, ReleaseAssumption
<1>2. /\ Current.op = "code" => work.code[Current.file] = Current.rel
      /\ Current.op = "upsert" =>
           /\ \A r \in Current.refs : work.gen[r] = Current.rel
           /\ \A r \in Current.refs \ Partial : work.rest[r] = Current.rel
      /\ Current.op = "insert" => \A r \in Current.refs : work.gen[r] > 0
  BY <1>0, <1>s DEF Resynced
<1>3. d.code = work.code
  <2>1. \A f \in Files : d.code[f] = work.code[f]
    BY <1>2 DEF After, CodeAfter
  <2>2. d.code \in [Files -> Generation] /\ work.code \in [Files -> Generation]
    BY <1>0 DEF Registry
  <2>3. QED BY <2>1, <2>2
<1>4. d.gen = work.gen /\ d.rest = work.rest
  <2>1. /\ d.gen \in [Refs -> Generation] /\ work.gen \in [Refs -> Generation]
        /\ d.rest \in [Refs -> Generation] /\ work.rest \in [Refs -> Generation]
    BY <1>0 DEF Registry
  <2>2. \A r \in Refs : d.gen[r] = work.gen[r] /\ d.rest[r] = work.rest[r]
    BY <1>1, <1>2 DEF After, GenAfter, RestAfter, Written
  <2>3. QED BY <2>1, <2>2
<1>5. d.versions = work.versions
  <2>1. CASE Current.op # "version"
    BY <2>1 DEF After, VersionsAfter
  <2>2. CASE Current.op = "version"
    <3>1. IsCore(artifact) /\ Current.rel = Rel(artifact) /\ Rel(artifact) > 0
      BY <2>2, CurrentUpgrade
    <3>2. "010_registry" \in CoreFiles
      BY FileAssumption
    <3>3. PICK i \in 1..Len(Body[artifact]) :
            Body[artifact][i].op = "code" /\ Body[artifact][i].file = "010_registry"
      BY <1>0, <3>1, <3>2, UpgradeAssumption DEF IsCore
    <3>4. Body[artifact][i].rel = Rel(artifact)
      BY <1>0, UpgradeAssumption DEF Rel
    <3>5. work.code["010_registry"] = Current.rel
      BY <1>s, <3>1, <3>3, <3>4 DEF Resynced
    <3>6. \E j \in 1..Len(work.versions) : work.versions[j] = Current.rel
      BY <3>1, <3>2, <3>5 DEF FoundInv, RecordedInv, Recorded
    <3>7. QED BY <3>6 DEF After, VersionsAfter
  <2>3. QED BY <2>1, <2>2
<1>6. ASSUME NEW e \in Envs, NEW r \in Refs \ Touched
      PROVE  <<e, r>> \in d.items <=> <<e, r>> \in work.items
  <2>0. r \notin ConsumerRefs /\ ~ Excused(r) /\ (\A x \in Envs : <<x, r>> \notin owned)
        /\ "standard" \in Envs
    BY Untouched DEF Envs
  <2>1. <<e, r>> \in work.items => ~ Repaired(e, r)
    <3>1. SUFFICES ASSUME <<"standard", r>> \in work.items, Listed(work, r)
                   PROVE  FALSE
      BY DEF Repaired
    <3>2. r \in CoreRefs
      BY <2>0, <3>1 DEF FoundInv, StandardInv
    <3>3. QED BY <2>0, <3>1, <3>2 DEF CompleteInv
  <2>2. ~ Swept(e, r)
    <3>1. SUFFICES ASSUME Swept(e, r) PROVE FALSE
      OBVIOUS
    <3>2. r \in CoreRefs
      BY <2>0, <3>1, SweptIsCore
    <3>3. db.gen[r] > 0
      BY <1>s, <3>1 DEF Swept
    <3>4. <<"standard", r>> \in db.items
      BY <2>0, <3>2, <3>3 DEF CompleteInv
    <3>5. <<"standard", r>> \in work.items
      BY <1>s, <2>0, <3>4
    <3>6. QED BY <2>0, <3>1, <3>5 DEF Swept, Unclaimed
  <2>3. Claimed(e, r) => <<e, r>> \in work.items
    <3>1. SUFFICES ASSUME Claimed(e, r) PROVE <<e, r>> \in work.items
      OBVIOUS
    <3>2. r \in ExtRefs /\ e \in Exts
      BY <2>0, <3>1, CurrentScript DEF Claimed
    <3>3. Claims(e, r)
      BY <1>0, <3>1 DEF Claims, Claimed
    <3>4. db.gen[r] > 0
      BY <1>s, <3>1 DEF Claimed
    <3>5. <<e, r>> \in db.items
      BY <3>2, <3>3, <3>4 DEF FoundInv, HomeInv
    <3>6. QED BY <1>s, <3>5
  <2>4. <<e, r>> \in d.items <=> ItemAfter(e, r)
    BY DEF After
  <2>5. QED BY <2>1, <2>2, <2>3, <2>4 DEF ItemAfter
<1>7. QED BY <1>0, <1>s, <1>3, <1>4, <1>5, <1>6, SameFields

SameInv ==
  artifact # Idle /\ mode = "bundle" /\ Resynced(db, artifact) => SameButTouched(work, db)

\* What an artifact ships is not the consumer's to change.
LEMMA ShippedKept ==
  ASSUME TypeOK, artifact # Idle, NEW new, Added(new), Resynced(db', artifact)
  PROVE  Resynced(db, artifact)
<1>1. artifact \in Artifacts
  BY CurrentStatement
<1>2. \A i \in 1..Len(Body[artifact]) :
        /\ Body[artifact][i].refs \subseteq Refs
        /\ Body[artifact][i].op \in {"upsert", "insert"} =>
             Body[artifact][i].refs \cap ConsumerRefs = {}
  <2> SUFFICES ASSUME NEW i \in 1..Len(Body[artifact])
               PROVE  /\ Body[artifact][i].refs \subseteq Refs
                      /\ Body[artifact][i].op \in {"upsert", "insert"} =>
                           Body[artifact][i].refs \cap ConsumerRefs = {}
    OBVIOUS
  <2>1. Body[artifact][i] \in Statement
    BY <1>1, ArtifactAssumption
  <2>2. Body[artifact][i].refs \subseteq Refs
    BY <2>1, StatementFields
  <2>3. QED BY <1>1, <2>2, UpgradeAssumption
<1>3. QED BY <1>2 DEF Resynced, Added

\* What the consumer does to both registries leaves them alike.
LEMMA SameKept ==
  ASSUME TypeOK, NEW new, Added(new), SameButTouched(work, db)
  PROVE  SameButTouched(work, db)'
<1>1. /\ work \in Registry /\ db \in Registry /\ work' \in Registry /\ db' \in Registry
  BY DEF TypeOK, Added
<1>2. /\ work.versions = db.versions /\ work.code = db.code
      /\ work.gen = db.gen /\ work.rest = db.rest
      /\ \A e \in Envs, r \in Refs \ Touched :
           <<e, r>> \in work.items <=> <<e, r>> \in db.items
  BY <1>1, SameFields
<1>3. /\ work'.versions = db'.versions /\ work'.code = db'.code
      /\ work'.gen = db'.gen /\ work'.rest = db'.rest
  BY <1>2 DEF Added
<1>4. Touched \subseteq Touched'
  BY DEF Touched, Added
<1>5. \A e \in Envs, r \in Refs \ Touched' :
        <<e, r>> \in work'.items <=> <<e, r>> \in db'.items
  BY <1>2, <1>4 DEF Added
<1>6. [work' EXCEPT !.items = {}] = [db' EXCEPT !.items = {}]
  BY <1>1, <1>3 DEF Registry
<1>7. QED BY <1>5, <1>6 DEF SameButTouched

\* An artifact that is installed already changes nothing when it completes
\* again in one transaction, whatever consumers commit meanwhile, but for the
\* listings of the rows they have a part in.
THEOREM ReinstallChangesNothing ==
  ASSUME "statement" \notin Modes, OneLibrary
  PROVE  Spec => Idempotent
<1> DEFINE Others == TypeOK /\ RunInv /\ LibraryInv /\ CompleteInv
<1>1. Spec => []RunInv
  BY RunInvInit, RunInvNext, TypeCorrect, PTL DEF Spec
<1>2. Spec => []Others
  BY <1>1, TypeCorrect, ListedInTime, SweptInTime, PTL
<1>3. Others /\ FoundInv /\ [Next]_vars => FoundInv'
  BY FoundNext
<1>4. Init => SameInv
  BY DEF Init, SameInv
<1>5. Others /\ FoundInv /\ SameInv /\ [Next]_vars => SameInv'
  <2> SUFFICES ASSUME Others, FoundInv, SameInv, [Next]_vars,
                      artifact' # Idle, mode' = "bundle", Resynced(db', artifact')
               PROVE  SameButTouched(work, db)'
    BY DEF SameInv, Resynced
  <2>1. ASSUME NEW a \in Artifacts, NEW m \in Modes, Begin(a, m)
        PROVE  SameButTouched(work, db)'
    <3>1. work' = db'
      BY <2>1 DEF Begin
    <3>2. QED BY <3>1 DEF SameButTouched
  <2>2. CASE Statements
    <3>1. artifact # Idle
      BY <2>2, StatementEffect
    <3>2. PICK d : After(d) /\ Executed(d)
      BY <2>2, StatementEffect
    <3>3. ~ AtEnd /\ mode = "bundle" /\ artifact' = artifact
      BY <3>2 DEF Executed
    <3>4. db' = db /\ work' = d /\ owned' = owned
      BY <3>2, <3>3 DEF Executed, CommitsHere
    <3>5. SameButTouched(work, db) /\ Resynced(db, artifact)
      BY <3>1, <3>3, <3>4 DEF SameInv, Resynced
    <3>6. SameButTouched(d, db)
      BY <3>1, <3>2, <3>5, NothingChanges
    <3>7. QED BY <3>4, <3>6 DEF SameButTouched, Touched
  <2>3. CASE Crash
    BY <2>3 DEF Crash
  <2>4. CASE Consumer
    <3>1. PICK new : Added(new)
      BY <2>4, ConsumerEffect
    <3>2. artifact' = artifact /\ mode' = mode
      BY <3>1 DEF Added
    <3>3. Resynced(db', artifact)
      BY <3>2
    <3>4. Resynced(db, artifact)
      BY <3>1, <3>2, <3>3, ShippedKept
    <3>5. SameButTouched(work, db)
      BY <3>2, <3>4 DEF SameInv
    <3>6. QED BY <3>1, <3>5, SameKept
  <2>5. CASE UNCHANGED vars
    <3>1. /\ db' = db /\ work' = work /\ owned' = owned /\ artifact' = artifact /\ mode' = mode
      BY <2>5 DEF vars
    <3>2. SameButTouched(work, db)
      BY <3>1 DEF SameInv, Resynced
    <3>3. QED BY <3>1, <3>2 DEF SameButTouched, Touched
  <2>6. QED BY <2>1, <2>2, <2>3, <2>4, <2>5 DEF Next, Installer, Statements
<1>6. Others /\ FoundInv /\ SameInv /\ [Next]_vars =>
        [RunCompletes /\ mode = "bundle" /\ Resynced(db, artifact)
           => SameButTouched(db', db)]_vars
  <2> SUFFICES ASSUME Others, FoundInv, SameInv, Next,
                      RunCompletes, mode = "bundle", Resynced(db, artifact)
               PROVE  SameButTouched(db', db)
    OBVIOUS
  <2>1. Statements
    BY RunCompletesBy
  <2>2. PICK d : After(d) /\ Executed(d)
    BY <2>1, StatementEffect
  <2>3. artifact # Idle /\ SameButTouched(work, db) /\ AtEnd /\ db' = d
    BY <2>2 DEF RunCompletes, SameInv, Executed, CommitsHere
  <2>4. QED BY <2>2, <2>3, NothingChanges
<1>7. QED BY <1>2, <1>3, <1>4, <1>5, <1>6, FoundInit, PTL DEF Spec, Idempotent

-----------------------------------------------------------------------------
(***************************************************************************)
(* Healing. A run that is cut short between a library's row and its        *)
(* listing leaves an orphan, which a later sweep puts into standard. The   *)
(* next complete run lists every orphan (it claims whatever any earlier    *)
(* release shipped), and from then on there are none: a sweep finds none,  *)
(* and the repair of the run after that clears standard.                   *)
(***************************************************************************)
ClaimedBy(b, r) ==
  \E j \in 1..Len(Body[b]) : Body[b][j].op = "claim" /\ r \in Body[b][j].refs

\* Every artifact is a full one: it repairs, and it claims whatever a library
\* shipped up to its release.
FullArtifacts ==
  /\ \A a \in Artifacts : \E i \in 1..Len(Body[a]) : Body[a][i].op = "repair"
  /\ \A a, b \in Artifacts : Rel(a) <= Rel(b) =>
       \A i \in 1..Len(Body[a]) : Body[a][i].op \in {"upsert", "insert"} =>
         \A r \in Body[a][i].refs \cap ExtRefs : ClaimedBy(b, r)

\* What is there of the libraries will be claimed by any run still allowed,
\* and standard shows no row that is not there unless a consumer listed it.
Claimable(d) ==
  \A r \in ExtRefs :
    /\ d.gen[r] > 0 => \A b \in Artifacts : Version(d) <= Rel(b) => ClaimedBy(b, r)
    /\ <<"standard", r>> \in d.items => d.gen[r] > 0 \/ <<"standard", r>> \in owned

NoLibraryIn(d) ==
  \A r \in ExtRefs : <<"standard", r>> \in d.items => <<"standard", r>> \in owned

\* No orphans since the last complete run, or since ever.
Orderly == crashes = 0 \/ clean >= 1

NoOrphans ==
  \A r \in ExtRefs :
    /\ work.gen[r] > 0 => Listed(work, r) \/ AboutToList(r)
    /\ db.gen[r] > 0 => Listed(db, r) \/ (mode = "statement" /\ AboutToList(r))

\* Whatever a claim behind pc found is listed.
ClaimsDone ==
  \A i \in 1..(pc - 1) : Body[artifact][i].op = "claim" =>
    \A r \in Body[artifact][i].refs \cap ExtRefs :
      work.gen[r] > 0 => Listed(work, r) \/ AboutToList(r)

HealInv ==
  /\ Claimable(db) /\ Claimable(work)
  /\ mode = "statement" /\ artifact # Idle => db = work
  /\ Orderly => NoOrphans
  /\ clean >= 2 \/ (clean >= 1 /\ crashes = 0) => NoLibraryIn(db) /\ NoLibraryIn(work)
  /\ artifact # Idle =>
       /\ Orderly /\ (\E i \in 1..(pc - 1) : Body[artifact][i].op = "repair") => NoLibraryIn(work)
       /\ ClaimsDone

\* The schema a run may start from: what is there of the libraries is listed,
\* though standard may show it as well, as a release whose sweep did not ask
\* left it behind (010_registry.sql, 184-188).
HealInit ==
  /\ db \in Registry /\ work = db
  /\ Highest(db) /\ Claimable(db)
  /\ \A r \in ExtRefs : db.gen[r] > 0 => Listed(db, r)
  /\ artifact = Idle /\ pc = 1 /\ mode \in Modes
  /\ owned = {} /\ early = {} /\ bare = {}
  /\ clean = 0 /\ runs = 0 /\ crashes = 0

LEMMA ClaimableAfter ==
  ASSUME FullArtifacts, TypeOK, RunInv, artifact # Idle, Claimable(work), NEW d, After(d)
  PROVE  Claimable(d)
<1>0. /\ artifact \in Artifacts /\ pc \in 1..Len(Body[artifact]) /\ Rel(artifact) \in Nat
      /\ Version(d) = Rel(artifact) /\ Version(work) <= Rel(artifact)
      /\ Version(work) \in Nat
  <2>1. Version(d) = Rel(artifact)
    BY VersionAfter
  <2>2. Version(work) \in Nat
    BY VersionType DEF TypeOK
  <2>3. QED BY <2>1, <2>2, CurrentStatement, CurrentUpgrade DEF RunInv
<1> SUFFICES ASSUME NEW r \in ExtRefs
             PROVE  /\ d.gen[r] > 0 => \A b \in Artifacts : Version(d) <= Rel(b) => ClaimedBy(b, r)
                    /\ <<"standard", r>> \in d.items =>
                         d.gen[r] > 0 \/ <<"standard", r>> \in owned
  BY DEF Claimable
<1>1. r \in Refs /\ "standard" \in Envs
  BY RefAssumption DEF Envs
<1>2. d.gen[r] = GenAfter(r) /\ (<<"standard", r>> \in d.items <=> ItemAfter("standard", r))
  BY <1>1 DEF After
<1>3. ASSUME NEW b \in Artifacts, Version(d) <= Rel(b), d.gen[r] > 0 PROVE ClaimedBy(b, r)
  <2>1. CASE Written(r)
    <3>1. /\ Body[artifact][pc].op \in {"upsert", "insert"}
          /\ r \in Body[artifact][pc].refs \cap ExtRefs
      BY <2>1 DEF Written, Current
    <3>2. QED BY <1>0, <1>3, <3>1 DEF FullArtifacts
  <2>2. CASE ~ Written(r)
    <3>1. Rel(b) \in Nat
      <4>1. Body[b] \in Seq(Statement) /\ Body[b] # <<>>
        BY ArtifactAssumption
      <4>2. Body[b][1] \in Statement
        BY <4>1
      <4>3. QED BY <4>2, StatementFields, ReleaseAssumption DEF Rel
    <3>2. Version(work) <= Rel(b)
      BY <1>0, <1>3, <3>1
    <3>3. work.gen[r] > 0
      BY <1>2, <1>3, <2>2 DEF GenAfter
    <3>4. QED BY <3>2, <3>3 DEF Claimable
  <2>3. QED BY <2>1, <2>2
<1>4. ASSUME <<"standard", r>> \in d.items, <<"standard", r>> \notin owned
      PROVE  d.gen[r] > 0
  <2>1. work.gen[r] > 0
    <3>1. ~ Claimed("standard", r)
      BY CurrentScript, EnvAssumption DEF Claimed
    <3>2. QED BY <1>2, <1>4, <3>1 DEF ItemAfter, Swept, Claimable
  <2>2. QED BY <1>2, <2>1, CurrentUpgrade DEF GenAfter
<1>5. QED BY <1>3, <1>4

\* Without orphans a sweep takes no row of a library.
LEMMA NothingSwept ==
  ASSUME TypeOK, artifact # Idle, NoOrphans, NEW r \in ExtRefs
  PROVE  ~ Swept("standard", r)
BY DEF NoOrphans, Swept, Unclaimed, AboutToList, Listed, Envs

LEMMA NoLibraryAfter ==
  ASSUME TypeOK, artifact # Idle, NoOrphans, Claimable(work), NEW d, After(d),
         NoLibraryIn(work) \/ Current.op = "repair"
  PROVE  NoLibraryIn(d)
<1> SUFFICES ASSUME NEW r \in ExtRefs, <<"standard", r>> \in d.items,
                    <<"standard", r>> \notin owned
             PROVE  FALSE
  BY DEF NoLibraryIn
<1>1. ItemAfter("standard", r)
  BY RefAssumption DEF After, Envs
<1>2. ~ Claimed("standard", r)
  BY CurrentScript, EnvAssumption DEF Claimed
<1>3. <<"standard", r>> \in work.items /\ ~ Repaired("standard", r)
  BY <1>1, <1>2, NothingSwept DEF ItemAfter
<1>4. Current.op = "repair"
  BY <1>3 DEF NoLibraryIn
<1>5. Listed(work, r)
  BY <1>3, <1>4 DEF Claimable, NoOrphans, AboutToList
<1>6. QED BY <1>3, <1>4, <1>5 DEF Repaired

\* At the end of a run every row of a library is listed, whatever the run
\* found.
LEMMA RunLists ==
  ASSUME FullArtifacts, TypeOK, RunInv, artifact # Idle, Claimable(work), ClaimsDone, AtEnd,
         NEW d, After(d), Executed(d), NEW r \in ExtRefs, d.gen[r] > 0
  PROVE  Listed(d, r)
<1>1. /\ artifact \in Artifacts /\ pc \in 1..Len(Body[artifact]) /\ pc = Len(Body[artifact])
      /\ Rel(artifact) \in Nat
  BY CurrentStatement, CurrentUpgrade DEF AtEnd
<1>2. Version(d) <= Rel(artifact)
  BY <1>1, VersionAfter
<1>3. ClaimedBy(artifact, r)
  BY <1>1, <1>2, ClaimableAfter DEF Claimable
<1>4. PICK j \in 1..Len(Body[artifact]) :
        Body[artifact][j].op = "claim" /\ r \in Body[artifact][j].refs
  BY <1>3 DEF ClaimedBy
<1>5. ~ Written(r)
  BY WrittenThenListed
<1>6. Listed(work, r) \/ AboutToList(r)
  <2>1. CASE j = pc
    BY <1>4, <2>1, CurrentScript DEF AboutToList, Current
  <2>2. CASE j # pc
    <3>1. j \in 1..(pc - 1)
      BY <1>1, <2>2
    <3>2. work.gen[r] > 0
      BY <1>5, RefAssumption DEF After, GenAfter
    <3>3. QED BY <1>4, <3>1, <3>2 DEF ClaimsDone
  <2>3. QED BY <2>1, <2>2
<1>7. QED BY <1>5, <1>6, ListedAfter

LEMMA HealStatement ==
  ASSUME FullArtifacts, TypeOK, RunInv, HealInv, Statements
  PROVE  HealInv'
<1>1. artifact # Idle
  BY StatementEffect
<1>2. PICK d : After(d) /\ Executed(d)
  BY StatementEffect
<1>3. /\ work' = d /\ (db' = d \/ db' = db)
      /\ crashes' = crashes /\ mode' = mode /\ owned' = owned /\ clean \in Nat
      /\ clean' = clean \/ clean' = clean + 1
  BY <1>2 DEF Executed, TypeOK
<1>4. Claimable(d) /\ Claimable(db) /\ Claimable(work)
  BY <1>1, <1>2, ClaimableAfter DEF HealInv
<1>5. mode = "statement" => db' = d
  BY <1>2 DEF Executed, CommitsHere
<1>6. ASSUME Orderly, NEW r \in ExtRefs, d.gen[r] > 0
      PROVE  Listed(d, r) \/ AboutToList(r)'
  <2>1. CASE Written(r)
    BY <1>1, <1>2, <2>1, WrittenThenListed
  <2>2. CASE ~ Written(r)
    <3>1. work.gen[r] > 0
      BY <1>2, <1>6, <2>2, RefAssumption DEF After, GenAfter
    <3>2. Listed(work, r) \/ AboutToList(r)
      BY <1>6, <3>1 DEF HealInv, NoOrphans
    <3>3. QED BY <1>1, <1>2, <1>6, <2>2, <3>2, ListedAfter
  <2>3. QED BY <2>1, <2>2
<1>7. ASSUME Orderly, NEW r \in ExtRefs, db'.gen[r] > 0
      PROVE  Listed(db', r) \/ (mode = "statement" /\ AboutToList(r)')
  <2>1. CASE mode = "statement"
    BY <1>5, <1>6, <1>7, <2>1
  <2>2. CASE mode # "statement"
    <3>1. CASE db' = db
      BY <1>7, <2>2, <3>1 DEF HealInv, NoOrphans
    <3>2. CASE db' = d /\ db' # db
      <4>1. ~ Written(r)
        BY <1>1, <1>2, <2>2, <3>2, WrittenThenListed
      <4>2. work.gen[r] > 0
        BY <1>2, <1>7, <3>2, <4>1, RefAssumption DEF After, GenAfter
      <4>3. Listed(work, r) \/ AboutToList(r)
        BY <1>7, <4>2 DEF HealInv, NoOrphans
      <4>4. QED BY <1>1, <1>2, <1>7, <3>2, <4>1, <4>3, ListedAfter
    <3>3. QED BY <1>3, <3>1, <3>2
  <2>3. QED BY <2>1, <2>2
<1>8. Orderly => NoOrphans'
  BY <1>3, <1>6, <1>7 DEF NoOrphans, Listed
<1>9. Orderly /\ (NoLibraryIn(work) \/ Current.op = "repair") => NoLibraryIn(d)
  BY <1>1, <1>2, <1>4, NoLibraryAfter DEF HealInv
<1>10. CASE AtEnd
  <2>1. artifact' = Idle /\ db' = d /\ clean' = clean + 1
    BY <1>2, <1>10 DEF Executed, CommitsHere
  <2>2. ClaimsDone
    BY <1>1 DEF HealInv
  <2>3. \A r \in ExtRefs : d.gen[r] > 0 => Listed(d, r)
    BY <1>1, <1>2, <1>4, <1>10, <2>2, RunLists
  <2>4. NoOrphans'
    BY <1>3, <2>1, <2>3 DEF NoOrphans, Listed
  <2>5. Orderly => NoLibraryIn(d)
    <3>1. artifact \in Artifacts /\ pc = Len(Body[artifact]) /\ pc \in Nat
      BY <1>1, <1>10, CurrentStatement DEF AtEnd
    <3>2. PICK i \in 1..Len(Body[artifact]) : Body[artifact][i].op = "repair"
      BY <3>1 DEF FullArtifacts
    <3>3. CASE i = pc
      BY <1>9, <3>2, <3>3 DEF Current
    <3>4. CASE i # pc
      <4>1. i \in 1..(pc - 1)
        BY <3>1, <3>4
      <4>2. Orderly => NoLibraryIn(work)
        BY <1>1, <3>2, <4>1 DEF HealInv
      <4>3. QED BY <1>9, <4>2
    <3>5. QED BY <3>3, <3>4
  <2>6. clean' >= 2 \/ (clean' >= 1 /\ crashes' = 0) => Orderly
    BY <1>3, <2>1 DEF Orderly
  <2>7. NoLibraryIn(d) => NoLibraryIn(db') /\ NoLibraryIn(work')
    BY <1>3, <2>1
  <2>8. Claimable(db') /\ Claimable(work')
    BY <1>3, <1>4, <2>1
  <2>9. QED BY <1>3, <2>1, <2>4, <2>5, <2>6, <2>7, <2>8
               DEF HealInv, Claimable, NoLibraryIn, Version, ClaimedBy, Rel
<1>11. CASE ~ AtEnd
  <2>1. artifact' = artifact /\ pc' = pc + 1 /\ clean' = clean /\ pc \in Nat
    BY <1>1, <1>2, <1>11 DEF Executed, TypeOK
  <2>2. Orderly' <=> Orderly
    BY <1>3, <2>1 DEF Orderly
  <2>3. ClaimsDone'
    <3> SUFFICES ASSUME NEW i \in 1..pc, Body[artifact][i].op = "claim",
                        NEW r \in Body[artifact][i].refs \cap ExtRefs, d.gen[r] > 0
                 PROVE  Listed(d, r) \/ AboutToList(r)'
      <4>1. pc' - 1 = pc
        BY <2>1
      <4>2. QED BY <1>3, <2>1, <4>1 DEF ClaimsDone, Listed
    <3>1. CASE Written(r)
      BY <1>1, <1>2, <3>1, WrittenThenListed
    <3>2. CASE ~ Written(r)
      <4>1. work.gen[r] > 0
        BY <1>2, <3>2, RefAssumption DEF After, GenAfter
      <4>2. CASE i = pc
        BY <1>1, <1>2, <3>2, <4>2, ListedAfter, CurrentScript DEF AboutToList, Current
      <4>3. CASE i # pc
        <5>1. i \in 1..(pc - 1) /\ ClaimsDone
          BY <1>1, <2>1, <4>3 DEF HealInv
        <5>2. Listed(work, r) \/ AboutToList(r)
          BY <4>1, <5>1 DEF ClaimsDone
        <5>3. QED BY <1>1, <1>2, <3>2, <5>2, ListedAfter
      <4>4. QED BY <4>2, <4>3
    <3>3. QED BY <3>1, <3>2
  <2>4. Orderly /\ (\E i \in 1..(pc' - 1) : Body[artifact][i].op = "repair") => NoLibraryIn(d)
    <3> SUFFICES ASSUME Orderly, NEW i \in 1..pc, Body[artifact][i].op = "repair"
                 PROVE  NoLibraryIn(d)
      BY <2>1
    <3>1. CASE i = pc
      BY <1>9, <3>1 DEF Current
    <3>2. CASE i # pc
      <4>1. i \in 1..(pc - 1)
        BY <2>1, <3>2
      <4>2. NoLibraryIn(work)
        BY <1>1, <4>1 DEF HealInv
      <4>3. QED BY <1>9, <4>2
    <3>3. QED BY <3>1, <3>2
  <2>5. clean >= 2 \/ (clean >= 1 /\ crashes = 0) => NoLibraryIn(d) /\ NoLibraryIn(db)
    <3> SUFFICES ASSUME clean >= 2 \/ (clean >= 1 /\ crashes = 0)
                 PROVE  NoLibraryIn(d) /\ NoLibraryIn(db)
      OBVIOUS
    <3>1. NoLibraryIn(db) /\ NoLibraryIn(work)
      BY DEF HealInv
    <3>2. Orderly
      BY <1>3 DEF Orderly
    <3>3. QED BY <1>9, <3>1, <3>2
  <2>6. /\ Claimable(db') /\ Claimable(work')
        /\ NoLibraryIn(d) => NoLibraryIn(work')
        /\ NoLibraryIn(d) /\ NoLibraryIn(db) => NoLibraryIn(db')
    BY <1>3, <1>4
  <2>7. QED BY <1>3, <1>5, <1>8, <2>1, <2>2, <2>3, <2>4, <2>5, <2>6
               DEF HealInv, Claimable, NoLibraryIn, Version, ClaimedBy, Rel
<1>12. QED BY <1>10, <1>11

LEMMA HealNext ==
  ASSUME FullArtifacts, TypeOK, RunInv, HealInv, [Next]_vars
  PROVE  HealInv'
<1>1. ASSUME NEW a \in Artifacts, NEW m \in Modes, Begin(a, m) PROVE HealInv'
  <2>1. /\ artifact = Idle /\ artifact' = a /\ pc' = 1 /\ work' = db /\ db' = db
        /\ clean' = clean /\ crashes' = crashes /\ owned' = owned
    BY <1>1 DEF Begin
  <2>2. \A i \in 1..(pc' - 1) : FALSE
    BY <2>1
  <2>3. ClaimsDone'
    BY <2>2 DEF ClaimsDone
  <2>4. Orderly => NoOrphans'
    BY <2>1 DEF HealInv, NoOrphans, AboutToList, Listed
  <2>5. Claimable(db') /\ Claimable(work')
    BY <2>1 DEF HealInv
  <2>6. NoLibraryIn(db) => NoLibraryIn(db') /\ NoLibraryIn(work')
    BY <2>1
  <2>7. QED BY <2>1, <2>2, <2>3, <2>4, <2>5, <2>6
               DEF HealInv, Orderly, Claimable, NoLibraryIn, Version, ClaimedBy, Rel
<1>2. CASE Statements
  BY <1>2, HealStatement
<1>3. CASE Crash
  <2>1. /\ artifact' = Idle /\ work' = db /\ db' = db /\ clean' = 0 /\ crashes' = crashes + 1
        /\ crashes \in Nat /\ owned' = owned
    BY <1>3 DEF Crash, TypeOK
  <2>2. ~ Orderly' /\ ~ (clean' >= 1)
    BY <2>1 DEF Orderly
  <2>3. Claimable(db') /\ Claimable(work')
    BY <2>1 DEF HealInv
  <2>4. ~ (clean' >= 2)
    BY <2>1
  <2>5. QED BY <2>1, <2>2, <2>3, <2>4 DEF HealInv, Claimable, Version, ClaimedBy, Rel
<1>4. CASE Consumer
  <2>1. PICK new : Added(new)
    BY <1>4, ConsumerEffect
  <2>2. /\ UNCHANGED <<artifact, pc, mode, clean, crashes>>
        /\ db = work => db' = work'
        /\ Version(db') = Version(db) /\ Version(work') = Version(work)
    BY <2>1 DEF Added, Version
  <2>3. ASSUME NEW r \in ExtRefs
        PROVE  /\ db'.gen[r] = db.gen[r] /\ work'.gen[r] = work.gen[r]
               /\ <<"standard", r>> \in db'.items =>
                    <<"standard", r>> \in db.items \/ <<"standard", r>> \in owned'
               /\ <<"standard", r>> \in work'.items =>
                    <<"standard", r>> \in work.items \/ <<"standard", r>> \in owned'
               /\ <<"standard", r>> \in owned => <<"standard", r>> \in owned'
               /\ Listed(db, r) => Listed(db', r)
               /\ Listed(work, r) => Listed(work', r)
               /\ AboutToList(r)' <=> AboutToList(r)
    <3>1. /\ db'.items = db.items \cup new /\ work'.items = work.items \cup new
          /\ owned' = owned \cup new
      BY <2>1 DEF Added
    <3>2. QED BY <2>1, <3>1, ConsumerLists
  <2>4. Claimable(db)' /\ Claimable(work)'
    BY <2>2, <2>3 DEF HealInv, Claimable
  <2>5. NoOrphans => NoOrphans'
    BY <2>2, <2>3 DEF NoOrphans
  <2>6. /\ NoLibraryIn(db) => NoLibraryIn(db)'
        /\ NoLibraryIn(work) => NoLibraryIn(work)'
    BY <2>3 DEF NoLibraryIn
  <2>7. artifact # Idle /\ ClaimsDone => ClaimsDone'
    BY <2>2, <2>3 DEF ClaimsDone
  <2>8. QED BY <2>2, <2>4, <2>5, <2>6, <2>7
               DEF HealInv, Orderly, Claimable, NoLibraryIn, Version, ClaimedBy, Rel
<1>5. CASE UNCHANGED vars
  BY <1>5 DEF vars, HealInv, Orderly, Claimable, NoLibraryIn, NoOrphans, ClaimsDone, AboutToList,
              Current, Listed, Version, ClaimedBy, Rel
<1>6. QED BY <1>1, <1>2, <1>3, <1>4, <1>5 DEF Next, Installer, Statements

\* From any schema whose libraries are listed, at any transaction granularity
\* and with any number of failed runs: after two complete runs in a row, or
\* one if none has failed, no library's row is left in standard that the
\* consumer has not put there.
THEOREM TwoRunsHeal ==
  ASSUME FullArtifacts
  PROVE  HealInit /\ [][Next]_vars => []HealsInTwoRuns
<1>1. HealInit => TypeOK /\ RunInv /\ HealInv
  <2> SUFFICES ASSUME HealInit PROVE TypeOK /\ RunInv /\ HealInv
    OBVIOUS
  <2>1. TypeOK
    BY DEF HealInit, TypeOK
  <2>2. RunInv
    BY DEF HealInit, RunInv, Highest, Version
  <2>3. NoOrphans
    BY DEF HealInit, NoOrphans, Listed
  <2>4. Claimable(work)
    BY DEF HealInit
  <2>5. QED BY <2>1, <2>2, <2>3, <2>4 DEF HealInit, HealInv
<1>2. TypeOK /\ RunInv /\ HealInv /\ [Next]_vars => HealInv'
  BY HealNext
<1>3. HealInv => HealsInTwoRuns
  BY DEF HealInv, HealsInTwoRuns, NoLibraryIn, StandardExclusive
<1>4. QED BY <1>1, <1>2, <1>3, TypeKept, RunInvNext, PTL

\* An installation from nothing is such a schema.
THEOREM InstallHeals ==
  ASSUME FullArtifacts
  PROVE  Spec => []HealsInTwoRuns
<1>1. Init => HealInit
  <2> SUFFICES ASSUME Init PROVE HealInit
    OBVIOUS
  <2>1. db \in Registry
    BY DEF Init, Empty, Registry, Generation
  <2>2. /\ \A r \in ExtRefs : ~ (db.gen[r] > 0) /\ <<"standard", r>> \notin db.items
        /\ Highest(db)
    BY RefAssumption DEF Init, Empty, Highest
  <2>3. QED BY <2>1, <2>2 DEF Init, HealInit, Claimable
<1>2. QED BY <1>1, TwoRunsHeal, PTL DEF Spec
=============================================================================
