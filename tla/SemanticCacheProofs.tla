------------------------ MODULE SemanticCacheProofs ------------------------
(***************************************************************************)
(* For any number of requests, mutations, generations and restarts: a hit  *)
(* is never older than the content its request found on arrival.           *)
(*                                                                         *)
(* The argument.  A generation that is not yet drawn, or drawn by a SET    *)
(* that has not reached Redis, is unused, so installing one empties the    *)
(* cache.  The current generation "serves" version f when neither its      *)
(* entry nor a store on its way to it is older than f; that is stable as   *)
(* long as f is not newer than the content.  The coherence word is trusted *)
(* when it is clean, or is about to be: a rotation installed its generation*)
(* and the word still is its ticket.  Trusted and with no mutation between *)
(* its two dirty marks, the generation serves the committed content.       *)
(***************************************************************************)
EXTENDS SemanticCache, FiniteSetTheorems, TLAPS

GuardSteps == {"beginDirty", "await", "dropDirty", "dropCount"}
Guards == {w \in Writers : pc[w] \in GuardSteps}
RotationSteps == {"rotate", "ticket", "set", "publish"}

\* The current generation holds, and will be given, nothing older than f.
Serves(f) ==
  epoch # NoValue =>
    /\ entries[epoch] # NoValue => entries[epoch] >= f
    /\ \A s \in stores : s.epoch = epoch => s.version >= f

\* Readers will, or may soon, be sent to the current generation.
Trusted == Clean \/ \E q \in Requests : pc[q] = "publish" /\ coherence = ticket

\* No mutation is between its first and its second dirty mark.
Settled == \A w \in Writers : pc[w] \notin {"await", "dropDirty"}

\* Generations still to be installed are unused: no entry, no store and no
\* lookup carries one.
Unused(g) ==
  /\ epoch # g
  /\ entries[g] = NoValue
  /\ \A s \in stores : s.epoch # g
  /\ \A r \in Readers : lookupEpoch[r] # g

FreshGenerations ==
  /\ \A g \in lateSets : g <= drawn
  /\ \A g \in Generations : g > drawn \/ g \in lateSets => Unused(g)

\* Nothing is newer than the committed content.
NothingNewer ==
  /\ \A g \in Generations : entries[g] # NoValue => entries[g] <= db
  /\ \A s \in stores : s.version <= db
  /\ \A r \in Readers : floor[r] <= db

\* What each request knows at its step: a writer is never at a reader's step and
\* a reader never at a writer's, a lookup that missed has its generation, and the
\* ticket a rotation holds is not newer than the coherence word.
RequestsKnow ==
  /\ \A r \in Readers :
       /\ pc[r] \in {"idle", "active", "safe", "repair", "recheck", "lock", "eval", "render",
                     "origin", "deliver"} \cup RotationSteps
       /\ pc[r] = "render" => lookupEpoch[r] # NoValue
       /\ hit[r] # NoValue => pc[r] = "deliver"
  /\ \A w \in Writers : pc[w] \in {"idle", "lock", "complete"} \cup GuardSteps \cup RotationSteps
  /\ \A q \in Requests : pc[q] \in {"set", "publish"} => ticket <= coherence

\* A repository task runs only while its handler awaits it.
TasksAwaited == \A w \in Writers : task[w] = "queued" => pc[w] = "await"

\* The generation serves the content when it is trusted and mutations are
\* settled; it serves what a reader found on arrival once that reader has
\* passed its check of the active mutations and the word is trusted, and in any
\* case when the reader is about to look up.
ServesContent == Settled /\ Trusted => Serves(db)

ServesReaders ==
  \A r \in Readers :
    /\ Trusted /\ pc[r] \in {"safe", "repair", "recheck", "lock"} \cup RotationSteps =>
         Serves(floor[r])
    /\ pc[r] = "eval" => Serves(floor[r])

\* The part of the invariant that cancellation cannot disturb.
BaseInv ==
  /\ TypeOK
  /\ GuardsCounted
  /\ LockHeldByRotation
  /\ FreshGenerations
  /\ NothingNewer
  /\ RequestsKnow

\* The inductive invariant.
CacheInv == BaseInv /\ TasksAwaited /\ ServesContent /\ ServesReaders /\ NoStaleHit

\* A guard that is alive is counted.
LEMMA GuardIsCounted ==
  ASSUME TypeOK, GuardsCounted
  PROVE  /\ IsFiniteSet(Guards)
         /\ activeMutations = Cardinality(Guards)
         /\ \A w \in Writers : pc[w] \in GuardSteps => activeMutations >= 1
<1>1. Guards \subseteq Writers /\ IsFiniteSet(Writers)
  BY CacheAssumption DEF Guards
<1>2. IsFiniteSet(Guards)
  BY <1>1, FS_Subset
<1>3. activeMutations = Cardinality(Guards)
  BY DEF GuardsCounted, Guards, GuardSteps
<1>4. ASSUME NEW w \in Writers, pc[w] \in GuardSteps PROVE activeMutations >= 1
  <2>1. Guards # {}
    BY <1>4 DEF Guards
  <2>2. Cardinality(Guards) # 0 /\ Cardinality(Guards) \in Nat
    BY <1>2, <2>1, FS_EmptySet, FS_CardinalityType
  <2> QED
    BY <1>3, <2>2
<1> QED
  BY <1>2, <1>3, <1>4

\* The counter follows the guards through each step.
LEMMA GuardsKept ==
  ASSUME BaseInv, [Next]_vars PROVE GuardsCounted'
<1> USE CacheAssumption DEF BaseInv
<1>1. IsFiniteSet(Guards) /\ activeMutations = Cardinality(Guards)
  BY GuardIsCounted
<1>2. SUFFICES activeMutations' = Cardinality(Guards')
  BY DEF GuardsCounted, Guards, GuardSteps
<1>3. ASSUME NEW w \in Writers, BeginMutation(w) PROVE activeMutations' = Cardinality(Guards')
  <2>1. Guards' = Guards \cup {w} /\ w \notin Guards
    BY <1>3 DEF BeginMutation, Goto, TypeOK, Guards, GuardSteps, Requests
  <2> QED
    BY <1>1, <1>3, <2>1, FS_AddElement DEF BeginMutation
<1>4. ASSUME NEW w \in Writers, DropCount(w) PROVE activeMutations' = Cardinality(Guards')
  <2>1. Guards' = Guards \ {w} /\ w \in Guards
    BY <1>4 DEF DropCount, Goto, TypeOK, Guards, GuardSteps, Requests
  <2> QED
    BY <1>1, <1>4, <2>1, FS_RemoveElement DEF DropCount
<1>5. CASE Crash
  <2>1. Guards' = {}
    BY <1>5 DEF Crash, Guards, GuardSteps, Requests
  <2> QED
    BY <1>5, <2>1, FS_EmptySet DEF Crash
<1>6. ASSUME Guards' = Guards, activeMutations' = activeMutations
      PROVE  activeMutations' = Cardinality(Guards')
  BY <1>1, <1>6
<1> USE DEF Goto, TypeOK, Guards, GuardSteps, Requests, processVars
<1>7. ASSUME NEW r \in Readers, Arrive(r) \/ ReaderStep(r)
      PROVE  Guards' = Guards /\ activeMutations' = activeMutations
  BY <1>7 DEF Arrive, ReaderStep, CheckActive, CheckSafe, Lookup, LookupFails, Render, Respond
<1>8. ASSUME NEW w \in Writers, WriterStep(w) \/ DisconnectAwaiting(w), ~DropCount(w)
      PROVE  Guards' = Guards /\ activeMutations' = activeMutations
  BY <1>8 DEF WriterStep, DisconnectAwaiting, BeginDirty, RunTask, AwaitTask, DropDirty,
              CompleteMutation
<1>9. ASSUME NEW q \in Requests, LockGenerationChange(q) \/ RotationStep(q) \/ Disconnect(q)
      PROVE  Guards' = Guards /\ activeMutations' = activeMutations
  BY <1>9 DEF LockGenerationChange, RotationStep, RotateCheck, ReadTicket, SetGeneration,
              SetFails, PublishGeneration, Disconnect, AfterFailure, AfterSuccess
<1>10. CASE RedisStep \/ UNCHANGED vars
  BY <1>6, <1>10 DEF RedisStep, ApplyStore, LoseStore, ApplyLateSet, Expire, EvictEpoch, vars
<1> QED
  BY <1>3, <1>4, <1>5, <1>6, <1>7, <1>8, <1>9, <1>10 DEF Next

\* A rotation ends at a step of its request and gives the lock up.
LEMMA RotationEnds ==
  ASSUME TypeOK, NEW q \in Requests
  PROVE  /\ AfterFailure(q) \in {"origin", "idle"} /\ AfterSuccess(q) \in {"eval", "idle"}
         /\ Release(q) => changing' \in Requests \cup {Nobody} /\ ticket' \in Nat
  BY DEF AfterFailure, AfterSuccess, Release, TypeOK

\* Each step keeps the types.
LEMMA TypesKept ==
  ASSUME BaseInv, [Next]_vars PROVE TypeOK'
<1>0. \A w \in Writers : pc[w] \in GuardSteps => activeMutations >= 1
  BY GuardIsCounted DEF BaseInv
<1> USE CacheAssumption DEF BaseInv, TypeOK, Goto, Requests, Steps, Generations, redisVars,
        processVars, taskVars, clientVars, boundVars
<1>1. ASSUME NEW r \in Readers, Arrive(r) \/ CheckActive(r) \/ CheckSafe(r) \/ LookupFails(r)
      PROVE  TypeOK'
  <2>1. CASE Arrive(r)
    BY <2>1 DEF Arrive
  <2>2. CASE CheckActive(r)
    BY <2>2 DEF CheckActive
  <2>3. CASE CheckSafe(r)
    BY <2>3 DEF CheckSafe
  <2>4. CASE LookupFails(r)
    BY <2>4 DEF LookupFails
  <2> QED
    BY <1>1, <2>1, <2>2, <2>3, <2>4
<1>2. ASSUME NEW r \in Readers, Lookup(r) PROVE TypeOK'
  <2>1. epoch' \in Generations \cup {NoValue} /\ drawn' \in 0..MaxGenerations
    BY <1>2 DEF Lookup
  <2>2. pc' \in [Requests -> Steps]
    BY <1>2 DEF Lookup
  <2>3. lookupEpoch' \in [Readers -> Generations \cup {NoValue}]
    <3>1. \/ UNCHANGED lookupEpoch
          \/ \E g \in Generations : lookupEpoch' = [lookupEpoch EXCEPT ![r] = g]
      BY <1>2 DEF Lookup
    <3> QED
      BY <3>1
  <2>4. hit' \in [Readers -> Nat \cup {NoValue}]
    BY <1>2 DEF Lookup
  <2> QED
    BY <1>2, <2>1, <2>2, <2>3, <2>4 DEF Lookup
<1>3. ASSUME NEW r \in Readers, Render(r) PROVE TypeOK'
  <2>1. lookupEpoch[r] \in Generations
    BY <1>3 DEF RequestsKnow, Render
  <2> QED
    BY <1>3, <2>1 DEF Render, Forget
<1>4. ASSUME NEW r \in Readers, Respond(r) PROVE TypeOK'
  BY <1>4 DEF Respond, Forget
<1>5. ASSUME NEW w \in Writers, BeginMutation(w) PROVE TypeOK'
  BY <1>5 DEF BeginMutation
<1>6. ASSUME NEW w \in Writers, BeginDirty(w) \/ DropDirty(w) PROVE TypeOK'
  <2>1. MarkedDirty(coherence) \in Nat
    BY DEF MarkedDirty
  <2> QED
    BY <1>6, <2>1 DEF BeginDirty, DropDirty
<1>7. ASSUME NEW w \in Writers, RunTask(w) \/ AwaitTask(w) \/ CompleteMutation(w) PROVE TypeOK'
  <2>1. CASE RunTask(w)
    BY <2>1 DEF RunTask
  <2>2. CASE AwaitTask(w)
    BY <2>2 DEF AwaitTask
  <2>3. CASE CompleteMutation(w)
    BY <2>3 DEF CompleteMutation
  <2> QED
    BY <1>7, <2>1, <2>2, <2>3
<1>8. ASSUME NEW w \in Writers, DropCount(w) PROVE TypeOK'
  <2>1. activeMutations - 1 \in Nat
    BY <1>0, <1>8 DEF DropCount, GuardSteps
  <2> QED
    BY <1>8, <2>1 DEF DropCount
<1>9. ASSUME NEW w \in Writers, DisconnectAwaiting(w) PROVE TypeOK'
  BY <1>9 DEF DisconnectAwaiting
<1>10. ASSUME NEW q \in Requests, LockGenerationChange(q) \/ RotateCheck(q) \/ ReadTicket(q)
       PROVE  TypeOK'
  <2>1. CASE LockGenerationChange(q)
    BY <2>1 DEF LockGenerationChange
  <2>2. CASE RotateCheck(q)
    BY <2>2, RotationEnds DEF RotateCheck
  <2>3. CASE ReadTicket(q)
    BY <2>3, RotationEnds DEF ReadTicket
  <2> QED
    BY <1>10, <2>1, <2>2, <2>3
<1>11. ASSUME NEW q \in Requests, SetGeneration(q) \/ SetFails(q) \/ PublishGeneration(q)
       PROVE  TypeOK'
  <2>1. CASE SetGeneration(q)
    BY <2>1 DEF SetGeneration
  <2>2. CASE SetFails(q)
    <3>1. pc' \in [Requests -> Steps]
      BY <2>2, RotationEnds DEF SetFails
    <3>2. drawn' \in 0..MaxGenerations /\ lateSets' \in SUBSET Generations
      <4>1. CASE UNCHANGED <<lateSets, drawn>>
        BY <4>1
      <4>2. CASE drawn < MaxGenerations /\ drawn' = drawn + 1 /\ lateSets' = lateSets \cup {drawn'}
        <5>1. drawn' \in Generations
          BY <4>2
        <5> QED
          BY <4>2, <5>1
      <4> QED
        BY <2>2, <4>1, <4>2 DEF SetFails
    <3>3. Release(q)
      BY <2>2 DEF SetFails
    <3>4. changing' \in Requests \cup {Nobody} /\ ticket' \in Nat
      BY <3>3, RotationEnds
    <3> QED
      BY <2>2, <3>1, <3>2, <3>4 DEF SetFails
  <2>3. CASE PublishGeneration(q)
    <3>1. pc' \in [Requests -> Steps]
      BY <2>3, RotationEnds DEF PublishGeneration
    <3>2. changing' \in Requests \cup {Nobody} /\ ticket' \in Nat /\ coherence' \in Nat
      BY <2>3, RotationEnds DEF PublishGeneration
    <3> QED
      BY <2>3, <3>1, <3>2 DEF PublishGeneration
  <2> QED
    BY <1>11, <2>1, <2>2, <2>3
<1>12. ASSUME NEW q \in Requests, Disconnect(q) PROVE TypeOK'
  BY <1>12 DEF Disconnect, Release, Forget
<1>13. CASE RedisStep
  BY <1>13 DEF RedisStep, ApplyStore, LoseStore, ApplyLateSet, Expire, EvictEpoch
<1>14. CASE Crash
  BY <1>14 DEF Crash
<1>15. CASE UNCHANGED vars
  BY <1>15 DEF vars
<1> QED
  BY <1>1, <1>2, <1>3, <1>4, <1>5, <1>6, <1>7, <1>8, <1>9, <1>10, <1>11, <1>12, <1>13, <1>14,
     <1>15 DEF Next, ReaderStep, WriterStep, RotationStep

\* generation_change is held exactly while a rotation runs, however it ends.
LEMMA LockKept ==
  ASSUME BaseInv, [Next]_vars PROVE LockHeldByRotation'
<1> USE CacheAssumption DEF BaseInv, TypeOK, LockHeldByRotation, Goto, Requests, processVars
<1>1. ASSUME NEW r \in Readers, Arrive(r) \/ ReaderStep(r) PROVE LockHeldByRotation'
  BY <1>1 DEF Arrive, ReaderStep, CheckActive, CheckSafe, Lookup, LookupFails, Render, Respond
<1>2. ASSUME NEW w \in Writers, BeginMutation(w) \/ WriterStep(w) \/ DisconnectAwaiting(w)
      PROVE  LockHeldByRotation'
  BY <1>2 DEF BeginMutation, WriterStep, DisconnectAwaiting, BeginDirty, RunTask, AwaitTask,
              DropDirty, DropCount, CompleteMutation
<1>3. ASSUME NEW q \in Requests, LockGenerationChange(q) \/ RotateCheck(q) \/ ReadTicket(q)
      PROVE  LockHeldByRotation'
  BY <1>3 DEF LockGenerationChange, RotateCheck, ReadTicket, Release, AfterFailure, AfterSuccess
<1>4. ASSUME NEW q \in Requests, SetGeneration(q) \/ SetFails(q) \/ PublishGeneration(q)
      PROVE  LockHeldByRotation'
  BY <1>4 DEF SetGeneration, SetFails, PublishGeneration, Release, AfterFailure, AfterSuccess
<1>5. ASSUME NEW q \in Requests, Disconnect(q) PROVE LockHeldByRotation'
  BY <1>5 DEF Disconnect, Release
<1>6. CASE RedisStep \/ UNCHANGED vars
  BY <1>6 DEF RedisStep, ApplyStore, LoseStore, ApplyLateSet, Expire, EvictEpoch, vars
<1>7. CASE Crash
  BY <1>7 DEF Crash
<1> QED
  BY <1>1, <1>2, <1>3, <1>4, <1>5, <1>6, <1>7 DEF Next, RotationStep

\* A generation is used only once it was drawn and its SET reached Redis.
LEMMA FreshKept ==
  ASSUME BaseInv, [Next]_vars PROVE FreshGenerations'
<1> USE CacheAssumption DEF BaseInv, TypeOK, FreshGenerations, Unused, Generations, redisVars
<1>1. ASSUME UNCHANGED <<redisVars, drawn>>,
             \A r \in Readers : lookupEpoch'[r] \in {lookupEpoch[r], NoValue}
      PROVE  FreshGenerations'
  BY <1>1
<1>2. ASSUME NEW r \in Readers, Arrive(r) \/ CheckActive(r) \/ CheckSafe(r) \/ LookupFails(r)
      PROVE  UNCHANGED <<redisVars, drawn, lookupEpoch>>
  BY <1>2 DEF Arrive, CheckActive, CheckSafe, LookupFails
<1>3. ASSUME NEW q \in Requests, Respond(q) \/ Disconnect(q)
      PROVE  /\ UNCHANGED <<redisVars, drawn>>
             /\ \A r \in Readers : lookupEpoch'[r] \in {lookupEpoch[r], NoValue}
  BY <1>3 DEF Respond, Disconnect, Forget
<1>4. ASSUME NEW w \in Writers, BeginMutation(w) \/ WriterStep(w) \/ DisconnectAwaiting(w)
      PROVE  UNCHANGED <<redisVars, drawn, lookupEpoch>>
  BY <1>4 DEF BeginMutation, WriterStep, DisconnectAwaiting, BeginDirty, RunTask, AwaitTask,
              DropDirty, DropCount, CompleteMutation
<1>5. ASSUME NEW q \in Requests,
             LockGenerationChange(q) \/ RotateCheck(q) \/ ReadTicket(q) \/ PublishGeneration(q)
      PROVE  UNCHANGED <<redisVars, drawn, lookupEpoch>>
  BY <1>5 DEF LockGenerationChange, RotateCheck, ReadTicket, PublishGeneration
<1>6. ASSUME NEW r \in Readers, Lookup(r) PROVE FreshGenerations'
  <2>1. CASE UNCHANGED <<epoch, drawn>>
    <3>1. \A x \in Readers : lookupEpoch'[x] \in {lookupEpoch[x], epoch}
      BY <1>6, <2>1 DEF Lookup
    <3> QED
      BY <1>6, <2>1, <3>1 DEF Lookup
  <2>2. CASE drawn' = drawn + 1 /\ epoch' = drawn'
             /\ lookupEpoch' = [lookupEpoch EXCEPT ![r] = drawn']
    BY <1>6, <2>2 DEF Lookup
  <2> QED
    BY <1>6, <2>1, <2>2 DEF Lookup
<1>7. ASSUME NEW r \in Readers, Render(r) PROVE FreshGenerations'
  <2>1. \A x \in Readers : lookupEpoch'[x] \in {lookupEpoch[x], NoValue}
    BY <1>7 DEF Render, Forget
  <2>2. \A s \in stores' : s \in stores \/ s.epoch = lookupEpoch[r]
    BY <1>7 DEF Render
  <2>3. lookupEpoch[r] \in Generations
    BY <1>7 DEF Render, RequestsKnow
  <2>4. ASSUME NEW g \in Generations, g > drawn \/ g \in lateSets PROVE Unused(g)'
    <3>1. Unused(g) /\ lookupEpoch[r] # g /\ g # NoValue
      BY <2>4
    <3>2. \A s \in stores' : s.epoch # g
      BY <2>2, <3>1
    <3> QED
      BY <1>7, <2>1, <3>1, <3>2 DEF Render
  <2> QED
    BY <1>7, <2>4 DEF Render
<1>8. ASSUME NEW q \in Requests, SetGeneration(q) PROVE FreshGenerations'
  BY <1>8 DEF SetGeneration
<1>9. ASSUME NEW q \in Requests, SetFails(q) PROVE FreshGenerations'
  <2>1. UNCHANGED <<epoch, entries, stores, lookupEpoch>>
    BY <1>9 DEF SetFails
  <2>2. \/ UNCHANGED <<lateSets, drawn>>
        \/ drawn' = drawn + 1 /\ lateSets' = lateSets \cup {drawn + 1}
    BY <1>9 DEF SetFails
  <2>3. ASSUME NEW g \in Generations, g > drawn' \/ g \in lateSets' PROVE Unused(g)'
    <3>1. g > drawn \/ g \in lateSets
      BY <2>2, <2>3
    <3> QED
      BY <2>1, <3>1
  <2>4. \A g \in lateSets' : g <= drawn'
    <3>1. drawn \in Int /\ \A g \in lateSets : g \in Int /\ g <= drawn
      OBVIOUS
    <3>2. CASE UNCHANGED <<lateSets, drawn>>
      BY <3>1, <3>2
    <3>3. CASE drawn' = drawn + 1 /\ lateSets' = lateSets \cup {drawn + 1}
      <4>1. ASSUME NEW g \in lateSets' PROVE g <= drawn'
        <5>1. g \in lateSets \/ g = drawn + 1
          BY <3>3
        <5> QED
          BY <3>1, <3>3, <5>1
      <4> QED
        BY <4>1
    <3> QED
      BY <2>2, <3>2, <3>3
  <2> QED
    BY <2>3, <2>4
<1>10. CASE RedisStep
  <2>1. ASSUME NEW s \in stores, ApplyStore(s) PROVE FreshGenerations'
    <3>1. \A g \in Generations : entries'[g] = entries[g] \/ g = s.epoch
      BY <2>1 DEF ApplyStore
    <3> QED
      BY <2>1, <3>1 DEF ApplyStore
  <2>2. ASSUME NEW s \in stores, LoseStore(s) PROVE FreshGenerations'
    BY <2>2 DEF LoseStore
  <2>3. ASSUME NEW g \in Generations, ApplyLateSet(g) PROVE FreshGenerations'
    BY <2>3 DEF ApplyLateSet
  <2>4. ASSUME NEW g \in Generations, Expire(g) PROVE FreshGenerations'
    BY <2>4 DEF Expire
  <2>5. CASE EvictEpoch
    BY <2>5 DEF EvictEpoch
  <2> QED
    BY <1>10, <2>1, <2>2, <2>3, <2>4, <2>5 DEF RedisStep
<1>11. CASE Crash
  BY <1>11 DEF Crash
<1>12. CASE UNCHANGED vars
  BY <1>1, <1>12 DEF vars
<1> QED
  BY <1>1, <1>2, <1>3, <1>4, <1>5, <1>6, <1>7, <1>8, <1>9, <1>10, <1>11, <1>12
     DEF Next, ReaderStep, RotationStep, Requests

\* The version only advances, and nothing is rendered from a later one.
LEMMA NothingNewerKept ==
  ASSUME BaseInv, [Next]_vars PROVE NothingNewer' /\ db' \in Nat /\ db' >= db
<1> USE CacheAssumption DEF BaseInv, TypeOK, NothingNewer, redisVars, clientVars
<1>1. ASSUME db' \in Nat, db' >= db, UNCHANGED <<entries, stores>>,
             \A r \in Readers : floor'[r] \in {floor[r], 0, db}
      PROVE  NothingNewer'
  BY <1>1
<1>2. ASSUME NEW q \in Requests, Respond(q) \/ Disconnect(q)
      PROVE  UNCHANGED <<db, entries, stores>> /\ \A r \in Readers : floor'[r] \in {floor[r], 0, db}
  BY <1>2 DEF Respond, Disconnect, Forget
<1>3. ASSUME NEW r \in Readers, Arrive(r)
      PROVE  UNCHANGED <<db, entries, stores>> /\ \A x \in Readers : floor'[x] \in {floor[x], 0, db}
  BY <1>3 DEF Arrive
<1>4. ASSUME NEW r \in Readers, CheckActive(r) \/ CheckSafe(r) \/ Lookup(r) \/ LookupFails(r)
      PROVE  UNCHANGED <<db, entries, stores, floor>>
  BY <1>4 DEF CheckActive, CheckSafe, Lookup, LookupFails
<1>5. ASSUME NEW r \in Readers, Render(r) PROVE NothingNewer' /\ db' = db
  <2>1. \A x \in Readers : floor'[x] \in {floor[x], 0, db}
    BY <1>5 DEF Render, Forget
  <2>2. \A s \in stores' : s \in stores \/ s.version = db
    BY <1>5 DEF Render
  <2> QED
    BY <1>5, <2>1, <2>2 DEF Render
<1>6. ASSUME NEW w \in Writers, RunTask(w)
      PROVE  UNCHANGED <<entries, stores, floor>> /\ db' \in Nat /\ db' >= db
  BY <1>6 DEF RunTask
<1>7. ASSUME NEW w \in Writers, BeginMutation(w) \/ WriterStep(w) \/ DisconnectAwaiting(w),
             ~RunTask(w)
      PROVE  UNCHANGED <<db, entries, stores, floor>>
  BY <1>7 DEF BeginMutation, WriterStep, DisconnectAwaiting, BeginDirty, AwaitTask,
              DropDirty, DropCount, CompleteMutation
<1>8. ASSUME NEW q \in Requests, LockGenerationChange(q) \/ RotationStep(q)
      PROVE  UNCHANGED <<db, entries, stores, floor>>
  BY <1>8 DEF LockGenerationChange, RotationStep, RotateCheck, ReadTicket, SetGeneration,
              SetFails, PublishGeneration
<1>9. CASE RedisStep
  <2>1. ASSUME NEW s \in stores, ApplyStore(s) PROVE NothingNewer' /\ db' = db
    <3>1. \A g \in Generations : entries'[g] \in {entries[g], s.version}
      BY <2>1 DEF ApplyStore
    <3> QED
      BY <2>1, <3>1 DEF ApplyStore
  <2>2. ASSUME NEW s \in stores, LoseStore(s) PROVE NothingNewer' /\ db' = db
    BY <2>2 DEF LoseStore
  <2>3. ASSUME NEW g \in Generations, ApplyLateSet(g) PROVE NothingNewer' /\ db' = db
    BY <2>3 DEF ApplyLateSet
  <2>4. ASSUME NEW g \in Generations, Expire(g) PROVE NothingNewer' /\ db' = db
    BY <2>4 DEF Expire
  <2>5. CASE EvictEpoch
    BY <2>5 DEF EvictEpoch
  <2> QED
    BY <1>9, <2>1, <2>2, <2>3, <2>4, <2>5 DEF RedisStep
<1>10. CASE Crash
  BY <1>10 DEF Crash
<1>11. CASE UNCHANGED vars
  BY <1>11 DEF vars
<1> QED
  BY <1>1, <1>2, <1>3, <1>4, <1>5, <1>6, <1>7, <1>8, <1>9, <1>10, <1>11
     DEF Next, ReaderStep, WriterStep, Requests

\* Marking dirty moves the word forward, past every ticket, and leaves it dirty.
LEMMA MarkingAdvances ==
  ASSUME NEW c \in Nat
  PROVE  MarkedDirty(c) \in Nat /\ MarkedDirty(c) > c /\ MarkedDirty(c) % 2 = 1
  BY DEF MarkedDirty

\* Each step leaves requests where they know what they did.
LEMMA RequestsKnowKept ==
  ASSUME BaseInv, [Next]_vars PROVE RequestsKnow'
<1> USE CacheAssumption
        DEF BaseInv, TypeOK, RequestsKnow, Goto, Requests, processVars, clientVars, RotationSteps,
            GuardSteps
<1>1. ASSUME NEW r \in Readers, Arrive(r) \/ CheckActive(r) \/ CheckSafe(r) \/ LookupFails(r)
      PROVE  RequestsKnow'
  <2>1. CASE Arrive(r)
    BY <2>1 DEF Arrive
  <2>2. CASE CheckActive(r)
    BY <2>2 DEF CheckActive
  <2>3. CASE CheckSafe(r)
    BY <2>3 DEF CheckSafe
  <2>4. CASE LookupFails(r)
    BY <2>4 DEF LookupFails
  <2> QED
    BY <1>1, <2>1, <2>2, <2>3, <2>4
<1>2. ASSUME NEW r \in Readers, Lookup(r) PROVE RequestsKnow'
  <2>1. drawn + 1 # NoValue
    BY DEF Generations
  <2> QED
    BY <1>2, <2>1 DEF Lookup
<1>3. ASSUME NEW r \in Readers, Render(r) \/ Respond(r) PROVE RequestsKnow'
  BY <1>3 DEF Render, Respond, Forget
<1>4. ASSUME NEW w \in Writers, BeginMutation(w) \/ DropCount(w) \/ CompleteMutation(w)
      PROVE  RequestsKnow'
  BY <1>4 DEF BeginMutation, DropCount, CompleteMutation
<1>5. ASSUME NEW w \in Writers, BeginDirty(w) \/ DropDirty(w) PROVE RequestsKnow'
  <2>1. MarkedDirty(coherence) \in Nat /\ MarkedDirty(coherence) > coherence
    BY MarkingAdvances
  <2>2. \A q \in Requests : pc'[q] \in {"set", "publish"} =>
          pc[q] \in {"set", "publish"} /\ ticket' = ticket /\ coherence' = MarkedDirty(coherence)
    BY <1>5 DEF BeginDirty, DropDirty
  <2>3. \A q \in Requests : pc'[q] \in {"set", "publish"} => ticket' <= coherence'
    BY <2>1, <2>2
  <2> QED
    BY <1>5, <2>3 DEF BeginDirty, DropDirty
<1>6. ASSUME NEW w \in Writers, RunTask(w) \/ AwaitTask(w) \/ DisconnectAwaiting(w)
      PROVE  RequestsKnow'
  BY <1>6 DEF RunTask, AwaitTask, DisconnectAwaiting
<1>7. ASSUME NEW q \in Requests, LockGenerationChange(q) \/ RotateCheck(q) PROVE RequestsKnow'
  BY <1>7 DEF LockGenerationChange, RotateCheck, Release, AfterFailure, LockHeldByRotation
<1>8. ASSUME NEW q \in Requests, ReadTicket(q) PROVE RequestsKnow'
  BY <1>8 DEF ReadTicket, Release, AfterSuccess, LockHeldByRotation
<1>9. ASSUME NEW q \in Requests, SetGeneration(q) \/ SetFails(q) PROVE RequestsKnow'
  BY <1>9 DEF SetGeneration, SetFails, Release, AfterFailure, LockHeldByRotation
<1>10. ASSUME NEW q \in Requests, PublishGeneration(q) PROVE RequestsKnow'
  BY <1>10 DEF PublishGeneration, Release, AfterSuccess, LockHeldByRotation
<1>11. ASSUME NEW q \in Requests, Disconnect(q) PROVE RequestsKnow'
  BY <1>11 DEF Disconnect, Release, Forget, LockHeldByRotation
<1>12. CASE RedisStep \/ UNCHANGED vars
  BY <1>12 DEF RedisStep, ApplyStore, LoseStore, ApplyLateSet, Expire, EvictEpoch, vars
<1>13. CASE Crash
  BY <1>13 DEF Crash
<1> QED
  BY <1>1, <1>2, <1>3, <1>4, <1>5, <1>6, <1>7, <1>8, <1>9, <1>10, <1>11, <1>12, <1>13
     DEF Next, ReaderStep, WriterStep, RotationStep

\* The initial state satisfies the base of the invariant.
LEMMA InitBase == Init => BaseInv
<1> SUFFICES ASSUME Init PROVE BaseInv
  OBVIOUS
<1> USE CacheAssumption DEF Init, Requests
<1>1. TypeOK
  BY DEF TypeOK, Steps, Generations
<1>2. GuardsCounted
  <2>1. {w \in Writers : pc[w] \in {"beginDirty", "await", "dropDirty", "dropCount"}} = {}
    OBVIOUS
  <2> QED
    BY <2>1, FS_EmptySet DEF GuardsCounted
<1>3. LockHeldByRotation
  BY DEF LockHeldByRotation
<1>4. FreshGenerations
  BY DEF FreshGenerations, Unused, Generations
<1>5. NothingNewer
  BY DEF NothingNewer
<1>6. RequestsKnow
  BY DEF RequestsKnow
<1> QED
  BY <1>1, <1>2, <1>3, <1>4, <1>5, <1>6 DEF BaseInv

\* The base of the invariant is inductive.
LEMMA StepBase ==
  ASSUME BaseInv, [Next]_vars PROVE BaseInv'
  BY GuardsKept, TypesKept, LockKept, FreshKept, NothingNewerKept, RequestsKnowKept DEF BaseInv

\* The counter of active mutations is exact and generation_change is held by a
\* rotation and by nothing else, whether or not a client's disconnect may drop a
\* handler that awaits its repository task.
THEOREM NothingLeaks == Spec => [](TypeOK /\ GuardsCounted /\ LockHeldByRotation)
<1>1. Init => BaseInv
  BY InitBase
<1>2. BaseInv /\ [Next]_vars => BaseInv'
  BY StepBase
<1>3. BaseInv => TypeOK /\ GuardsCounted /\ LockHeldByRotation
  BY DEF BaseInv
<1> QED
  BY <1>1, <1>2, <1>3, PTL DEF Spec

---------------------------------------------------------------------------
(* What the current generation serves. *)

WaitingSteps == {"safe", "repair", "recheck", "lock"} \cup RotationSteps

\* An installed generation is empty: it serves every version.
LEMMA InstallServes ==
  ASSUME BaseInv, NEW q \in Requests, SetGeneration(q), NEW f \in Nat
  PROVE  Serves(f)'
<1>1. drawn + 1 \in Generations /\ drawn + 1 > drawn
  BY CacheAssumption DEF BaseInv, TypeOK, SetGeneration, Generations
<1>2. Unused(drawn + 1)
  BY <1>1 DEF BaseInv, FreshGenerations
<1> QED
  BY <1>2 DEF SetGeneration, Unused, Serves

\* What the generation serves it goes on serving, whichever generation becomes
\* current and whatever is rendered meanwhile.
LEMMA ServesStable ==
  ASSUME BaseInv, [Next]_vars, NEW f \in Nat, f <= db, Serves(f)
  PROVE  Serves(f)'
<1> USE CacheAssumption DEF BaseInv, TypeOK, Serves, redisVars
<1>1. ASSUME UNCHANGED redisVars PROVE Serves(f)'
  BY <1>1
<1>2. ASSUME NEW r \in Readers, Lookup(r) PROVE Serves(f)'
  <2>1. CASE UNCHANGED epoch
    BY <1>2, <2>1 DEF Lookup
  <2>2. CASE drawn < MaxGenerations /\ epoch' = drawn + 1
    <3>1. Unused(drawn + 1)
      BY <2>2 DEF FreshGenerations, Generations
    <3> QED
      BY <1>2, <2>2, <3>1 DEF Lookup, Unused
  <2> QED
    BY <1>2, <2>1, <2>2 DEF Lookup
<1>3. ASSUME NEW r \in Readers, Render(r) PROVE Serves(f)'
  <2>1. \A s \in stores' : s \in stores \/ s.version = db
    BY <1>3 DEF Render
  <2> QED
    BY <1>3, <2>1 DEF Render
<1>4. ASSUME NEW q \in Requests, SetGeneration(q) PROVE Serves(f)'
  BY <1>4, InstallServes
<1>5. ASSUME NEW q \in Requests, SetFails(q) PROVE Serves(f)'
  BY <1>5 DEF SetFails
<1>6. CASE RedisStep
  <2>1. ASSUME NEW s \in stores, ApplyStore(s) PROVE Serves(f)'
    <3>1. CASE epoch = s.epoch
      BY <2>1, <3>1 DEF ApplyStore
    <3>2. CASE epoch # s.epoch
      BY <2>1, <3>2 DEF ApplyStore
    <3> QED
      BY <3>1, <3>2
  <2>2. ASSUME NEW s \in stores, LoseStore(s) PROVE Serves(f)'
    BY <2>2 DEF LoseStore
  <2>3. ASSUME NEW g \in Generations, ApplyLateSet(g) PROVE Serves(f)'
    <3>1. Unused(g)
      BY <2>3 DEF ApplyLateSet, FreshGenerations
    <3> QED
      BY <2>3, <3>1 DEF ApplyLateSet, Unused
  <2>4. ASSUME NEW g \in Generations, Expire(g) PROVE Serves(f)'
    BY <2>4 DEF Expire
  <2>5. CASE EvictEpoch
    BY <2>5 DEF EvictEpoch
  <2> QED
    BY <1>6, <2>1, <2>2, <2>3, <2>4, <2>5 DEF RedisStep
<1>7. ASSUME NEW r \in Readers,
             Arrive(r) \/ CheckActive(r) \/ CheckSafe(r) \/ LookupFails(r) \/ Respond(r)
      PROVE  UNCHANGED redisVars
  BY <1>7 DEF Arrive, CheckActive, CheckSafe, LookupFails, Respond
<1>8. ASSUME NEW w \in Writers, BeginMutation(w) \/ WriterStep(w) \/ DisconnectAwaiting(w)
      PROVE  UNCHANGED redisVars
  BY <1>8 DEF BeginMutation, WriterStep, DisconnectAwaiting, BeginDirty, RunTask, AwaitTask,
              DropDirty, DropCount, CompleteMutation
<1>9. ASSUME NEW q \in Requests, LockGenerationChange(q) \/ RotateCheck(q) \/ ReadTicket(q)
                                 \/ PublishGeneration(q) \/ Disconnect(q)
      PROVE  UNCHANGED redisVars
  BY <1>9 DEF LockGenerationChange, RotateCheck, ReadTicket, PublishGeneration, Disconnect
<1>10. CASE Crash \/ UNCHANGED vars
  BY <1>10 DEF Crash, vars
<1> QED
  BY <1>1, <1>2, <1>3, <1>4, <1>5, <1>6, <1>7, <1>8, <1>9, <1>10 DEF Next, ReaderStep, RotationStep

\* The coherence word becomes trusted only when a rotation installs its
\* generation: publishing it merely turns its ticket into a clean word, and a
\* mutation's dirty marks, or a restart, withdraw the trust.
LEMMA TrustIsEarned ==
  ASSUME BaseInv, [Next]_vars, Trusted', \A q \in Requests : ~SetGeneration(q)
  PROVE  /\ Trusted
         /\ \A w \in Writers : ~BeginDirty(w) /\ ~DropDirty(w)
         /\ ~Crash
<1> USE CacheAssumption DEF BaseInv, TypeOK, Trusted, Clean, Goto, Requests, processVars
<1>1. ASSUME NEW w \in Writers, BeginDirty(w) \/ DropDirty(w) PROVE FALSE
  <2>1. /\ MarkedDirty(coherence) \in Nat
        /\ MarkedDirty(coherence) > coherence
        /\ MarkedDirty(coherence) % 2 = 1
    BY MarkingAdvances
  <2>2. coherence' = MarkedDirty(coherence) /\ ticket' = ticket
    BY <1>1 DEF BeginDirty, DropDirty
  <2>3. PICK q \in Requests : pc'[q] = "publish" /\ coherence' = ticket'
    BY <2>1, <2>2
  <2>4. pc[q] = "publish"
    BY <1>1, <2>3 DEF BeginDirty, DropDirty
  <2>5. ticket <= coherence
    BY <2>4 DEF RequestsKnow
  <2> QED
    BY <2>1, <2>2, <2>3, <2>5
<1>2. ASSUME Crash PROVE FALSE
  BY <1>2 DEF Crash
<1>3. ASSUME UNCHANGED <<coherence, ticket>>,
             \A q \in Requests : pc'[q] = "publish" => pc[q] = "publish"
      PROVE  Trusted
  BY <1>3
<1>4. ASSUME NEW r \in Readers, Arrive(r) \/ ReaderStep(r)
      PROVE  /\ UNCHANGED <<coherence, ticket>>
             /\ \A q \in Requests : pc'[q] = "publish" => pc[q] = "publish"
  BY <1>4 DEF Arrive, ReaderStep, CheckActive, CheckSafe, Lookup, LookupFails, Render, Respond
<1>5. ASSUME NEW w \in Writers, BeginMutation(w) \/ WriterStep(w) \/ DisconnectAwaiting(w),
             ~BeginDirty(w), ~DropDirty(w)
      PROVE  /\ UNCHANGED <<coherence, ticket>>
             /\ \A q \in Requests : pc'[q] = "publish" => pc[q] = "publish"
  BY <1>5 DEF BeginMutation, WriterStep, DisconnectAwaiting, RunTask, AwaitTask, DropCount,
              CompleteMutation
<1>6. ASSUME NEW q \in Requests, LockGenerationChange(q) \/ RotateCheck(q) \/ ReadTicket(q)
                                 \/ SetFails(q) \/ Disconnect(q)
      PROVE  Trusted
  <2>1. coherence' = coherence
    BY <1>6 DEF LockGenerationChange, RotateCheck, ReadTicket, SetFails, Disconnect
  <2>2. SUFFICES ASSUME NEW p \in Requests, pc'[p] = "publish", coherence' = ticket' PROVE Trusted
    BY <2>1
  <2>3. p # q /\ pc[p] = "publish"
    BY <1>6, <2>2 DEF LockGenerationChange, RotateCheck, ReadTicket, SetFails, Disconnect,
                      AfterFailure, AfterSuccess
  <2>4. changing = p
    BY <2>3 DEF LockHeldByRotation
  <2>5. ~ReadTicket(q) /\ ~RotateCheck(q) /\ ~SetFails(q)
    BY <2>3, <2>4 DEF LockHeldByRotation, ReadTicket, RotateCheck, SetFails
  <2>6. ticket' = ticket
    BY <1>6, <2>3, <2>4, <2>5 DEF LockGenerationChange, Disconnect, Release
  <2> QED
    BY <2>1, <2>2, <2>3, <2>6
<1>7. ASSUME NEW q \in Requests, PublishGeneration(q) PROVE Trusted
  <2>1. CASE coherence = ticket
    BY <1>7, <2>1 DEF PublishGeneration
  <2>2. CASE coherence # ticket
    <3>1. \A p \in Requests : pc'[p] # "publish"
      BY <1>7, <2>2 DEF PublishGeneration, LockHeldByRotation
    <3> QED
      BY <1>7, <2>2, <3>1 DEF PublishGeneration
  <2> QED
    BY <2>1, <2>2
<1>8. ASSUME RedisStep \/ UNCHANGED vars PROVE Trusted
  BY <1>8 DEF RedisStep, ApplyStore, LoseStore, ApplyLateSet, Expire, EvictEpoch, vars
<1> QED
  BY <1>1, <1>2, <1>3, <1>4, <1>5, <1>6, <1>7, <1>8 DEF Next, RotationStep

\* While mutations are settled nothing is committed, and they become settled by a
\* dirty mark or a restart only.
LEMMA SettledKept ==
  ASSUME BaseInv, TasksAwaited, [Next]_vars,
         \A w \in Writers : ~DropDirty(w), ~Crash, Settled'
  PROVE  Settled /\ db' = db
<1> USE CacheAssumption DEF BaseInv, TypeOK, Settled, Goto, Requests
<1>1. ASSUME NEW r \in Readers, Arrive(r) \/ ReaderStep(r) PROVE Settled /\ db' = db
  BY <1>1 DEF Arrive, ReaderStep, CheckActive, CheckSafe, Lookup, LookupFails, Render, Respond
<1>2. ASSUME NEW w \in Writers, RunTask(w) PROVE FALSE
  BY <1>2 DEF RunTask, TasksAwaited
<1>3. ASSUME NEW w \in Writers, BeginMutation(w) \/ WriterStep(w) \/ DisconnectAwaiting(w)
      PROVE  Settled /\ db' = db
  BY <1>2, <1>3 DEF BeginMutation, WriterStep, DisconnectAwaiting, BeginDirty, AwaitTask,
                    DropCount, CompleteMutation
<1>4. ASSUME NEW q \in Requests, LockGenerationChange(q) \/ RotationStep(q) \/ Disconnect(q)
      PROVE  Settled /\ db' = db
  BY <1>4 DEF LockGenerationChange, RotationStep, RotateCheck, ReadTicket, SetGeneration,
              SetFails, PublishGeneration, Disconnect
<1>5. CASE RedisStep \/ UNCHANGED vars
  BY <1>5 DEF RedisStep, ApplyStore, LoseStore, ApplyLateSet, Expire, EvictEpoch, vars
<1> QED
  BY <1>1, <1>3, <1>4, <1>5 DEF Next

\* A handler that is not dropped while it awaits its task is there when it ends.
LEMMA TasksAwaitedKept ==
  ASSUME ~DropsAwaitedTask, BaseInv, TasksAwaited, [Next]_vars PROVE TasksAwaited'
<1> USE CacheAssumption DEF BaseInv, TypeOK, TasksAwaited, Goto, Requests, taskVars
<1>1. ASSUME NEW r \in Readers, Arrive(r) \/ ReaderStep(r) PROVE TasksAwaited'
  BY <1>1 DEF Arrive, ReaderStep, CheckActive, CheckSafe, Lookup, LookupFails, Render, Respond
<1>2. ASSUME NEW w \in Writers, BeginMutation(w) \/ WriterStep(w) \/ DisconnectAwaiting(w)
      PROVE  TasksAwaited'
  BY <1>2 DEF BeginMutation, WriterStep, DisconnectAwaiting, BeginDirty, RunTask, AwaitTask,
              DropDirty, DropCount, CompleteMutation
<1>3. ASSUME NEW q \in Requests, LockGenerationChange(q) \/ RotationStep(q) \/ Disconnect(q)
      PROVE  TasksAwaited'
  BY <1>3 DEF LockGenerationChange, RotationStep, RotateCheck, ReadTicket, SetGeneration,
              SetFails, PublishGeneration, Disconnect
<1>4. CASE RedisStep \/ UNCHANGED vars
  BY <1>4 DEF RedisStep, ApplyStore, LoseStore, ApplyLateSet, Expire, EvictEpoch, vars
<1>5. CASE Crash
  BY <1>5 DEF Crash
<1> QED
  BY <1>1, <1>2, <1>3, <1>4, <1>5 DEF Next

\* How a reader comes to wait for the word, and to look up: it waits only after
\* it saw no active mutation, it looks up only from there and trusting, and a hit
\* is the entry of the current generation.
ReaderMoved(r) ==
  /\ pc'[r] \in WaitingSteps =>
       /\ floor'[r] = floor[r]
       /\ pc[r] \in WaitingSteps \/ (CheckActive(r) /\ activeMutations = 0)
  /\ pc'[r] = "eval" =>
       /\ floor'[r] = floor[r]
       /\ pc[r] = "eval" \/ (pc[r] \in WaitingSteps /\ Trusted)
  /\ hit'[r] # NoValue =>
       /\ floor'[r] = floor[r]
       /\ \/ hit'[r] = hit[r]
          \/ /\ pc[r] = "eval" /\ epoch # NoValue /\ entries[epoch] # NoValue
             /\ hit'[r] = entries[epoch]

\* Every step moves every reader so.
LEMMA ReaderMoves ==
  ASSUME BaseInv, [Next]_vars, NEW r \in Readers PROVE ReaderMoved(r)
<1> USE CacheAssumption
        DEF BaseInv, TypeOK, RequestsKnow, Goto, Requests, clientVars, WaitingSteps, RotationSteps,
            ReaderMoved
<1>1. ASSUME UNCHANGED <<floor, hit>>, pc'[r] = pc[r] PROVE ReaderMoved(r)
  BY <1>1
<1>2. ASSUME NEW x \in Readers, x # r, Arrive(x) \/ ReaderStep(x) PROVE ReaderMoved(r)
  BY <1>2 DEF Arrive, ReaderStep, CheckActive, CheckSafe, Lookup, LookupFails, Render, Respond,
              Forget
<1>3. ASSUME Arrive(r) \/ LookupFails(r) PROVE ReaderMoved(r)
  BY <1>3 DEF Arrive, LookupFails
<1>4. ASSUME CheckActive(r) PROVE ReaderMoved(r)
  BY <1>4 DEF CheckActive
<1>5. ASSUME CheckSafe(r) PROVE ReaderMoved(r)
  BY <1>5 DEF CheckSafe, Trusted
<1>6. ASSUME Lookup(r) PROVE ReaderMoved(r)
  BY <1>6 DEF Lookup
<1>7. ASSUME Render(r) \/ Respond(r) PROVE ReaderMoved(r)
  BY <1>7 DEF Render, Respond, Forget
<1>8. ASSUME NEW w \in Writers, BeginMutation(w) \/ WriterStep(w) \/ DisconnectAwaiting(w)
      PROVE  UNCHANGED <<floor, hit>> /\ pc'[r] = pc[r]
  BY <1>8 DEF BeginMutation, WriterStep, DisconnectAwaiting, BeginDirty, RunTask, AwaitTask,
              DropDirty, DropCount, CompleteMutation
<1>9. ASSUME NEW q \in Requests, LockGenerationChange(q) \/ RotateCheck(q) \/ SetGeneration(q)
                                 \/ SetFails(q)
      PROVE  ReaderMoved(r)
  BY <1>9 DEF LockGenerationChange, RotateCheck, SetGeneration, SetFails, AfterFailure
<1>10. ASSUME NEW q \in Requests, ReadTicket(q) PROVE ReaderMoved(r)
  BY <1>10 DEF ReadTicket, AfterSuccess, Trusted
<1>11. ASSUME NEW q \in Requests, PublishGeneration(q) PROVE ReaderMoved(r)
  BY <1>11 DEF PublishGeneration, AfterSuccess, Trusted
<1>12. ASSUME NEW q \in Requests, Disconnect(q) PROVE ReaderMoved(r)
  BY <1>12 DEF Disconnect, Forget
<1>13. CASE RedisStep \/ UNCHANGED vars
  BY <1>1, <1>13 DEF RedisStep, ApplyStore, LoseStore, ApplyLateSet, Expire, EvictEpoch, vars
<1>14. CASE Crash
  BY <1>14 DEF Crash
<1> QED
  BY <1>1, <1>2, <1>3, <1>4, <1>5, <1>6, <1>7, <1>8, <1>9, <1>10, <1>11, <1>12, <1>13, <1>14
     DEF Next, ReaderStep, RotationStep

\* The invariant is inductive where handlers are not dropped while they await.
LEMMA StepCache ==
  ASSUME ~DropsAwaitedTask, CacheInv, [Next]_vars PROVE CacheInv'
<1> USE DEF CacheInv
<1>1. BaseInv' /\ TasksAwaited'
  BY StepBase, TasksAwaitedKept
<1>2. /\ db \in Nat /\ db' \in Nat
      /\ \A r \in Readers : floor[r] \in Nat /\ floor'[r] \in Nat /\ floor[r] <= db
      /\ \A g \in Generations : entries[g] = NoValue \/ entries[g] \in Nat
      /\ \A s \in stores : s.version \in Nat
  BY <1>1 DEF BaseInv, TypeOK, NothingNewer
<1>3. ServesContent'
  <2>1. SUFFICES ASSUME Settled', Trusted' PROVE Serves(db)'
    BY DEF ServesContent
  <2>2. CASE \E q \in Requests : SetGeneration(q)
    <3>1. PICK q \in Requests : SetGeneration(q)
      BY <2>2
    <3>2. db' = db
      BY <3>1 DEF SetGeneration
    <3>3. ASSUME NEW f \in Nat PROVE Serves(f)'
      BY <3>1, <3>3, InstallServes
    <3> QED
      BY <1>2, <3>2, <3>3 DEF Serves
  <2>3. CASE \A q \in Requests : ~SetGeneration(q)
    <3>1. Trusted /\ ~Crash /\ \A w \in Writers : ~DropDirty(w)
      BY <2>1, <2>3, TrustIsEarned
    <3>2. Settled /\ db' = db
      BY <2>1, <3>1, SettledKept
    <3>3. Serves(db)
      BY <3>1, <3>2 DEF ServesContent
    <3>4. ASSUME NEW f \in Nat, f <= db, Serves(f) PROVE Serves(f)'
      BY <3>4, ServesStable
    <3> QED
      BY <1>2, <3>2, <3>3, <3>4 DEF Serves
  <2> QED
    BY <2>2, <2>3
<1>4. ASSUME NEW r \in Readers, Serves(floor[r]), floor'[r] = floor[r]
      PROVE  Serves(floor[r])'
  <2>1. ASSUME NEW f \in Nat, f <= db, Serves(f) PROVE Serves(f)'
    BY <2>1, ServesStable
  <2>2. floor[r] \in Nat /\ floor[r] <= db
    BY <1>2
  <2> QED
    BY <1>4, <2>1, <2>2 DEF Serves
<1>5. ServesReaders'
  <2>1. ASSUME NEW r \in Readers, Trusted', pc'[r] \in WaitingSteps PROVE Serves(floor[r])'
    <3>1. /\ floor'[r] = floor[r]
          /\ pc[r] \in WaitingSteps \/ (CheckActive(r) /\ activeMutations = 0)
      BY <2>1, ReaderMoves DEF ReaderMoved
    <3>2. CASE \E q \in Requests : SetGeneration(q)
      <4>1. PICK q \in Requests : SetGeneration(q)
        BY <3>2
      <4>2. ASSUME NEW f \in Nat PROVE Serves(f)'
        BY <4>1, <4>2, InstallServes
      <4> QED
        BY <1>2, <3>1, <4>2 DEF Serves
    <3>3. CASE \A q \in Requests : ~SetGeneration(q)
      <4>1. Trusted
        BY <2>1, <3>3, TrustIsEarned
      <4>2. CASE pc[r] \in WaitingSteps
        <5>1. Serves(floor[r])
          BY <4>1, <4>2 DEF ServesReaders, WaitingSteps
        <5> QED
          BY <1>4, <3>1, <5>1
      <4>3. CASE activeMutations = 0
        <5>1. Settled
          BY <4>3, GuardIsCounted DEF Settled, GuardSteps, BaseInv
        <5>2. Serves(db)
          BY <4>1, <5>1 DEF ServesContent
        <5>3. Serves(floor[r])
          BY <1>2, <5>2 DEF Serves, BaseInv, TypeOK
        <5> QED
          BY <1>4, <3>1, <5>3
      <4> QED
        BY <3>1, <4>2, <4>3
    <3> QED
      BY <3>2, <3>3
  <2>2. ASSUME NEW r \in Readers, pc'[r] = "eval" PROVE Serves(floor[r])'
    <3>1. /\ floor'[r] = floor[r]
          /\ pc[r] = "eval" \/ (pc[r] \in WaitingSteps /\ Trusted)
      BY <2>2, ReaderMoves DEF ReaderMoved
    <3>2. Serves(floor[r])
      BY <3>1 DEF ServesReaders, WaitingSteps
    <3> QED
      BY <1>4, <3>1, <3>2
  <2> QED
    BY <2>1, <2>2 DEF ServesReaders, WaitingSteps
<1>6. NoStaleHit'
  <2>1. SUFFICES ASSUME NEW r \in Readers, hit'[r] # NoValue PROVE hit'[r] >= floor'[r]
    BY DEF NoStaleHit
  <2>2. /\ floor'[r] = floor[r]
        /\ \/ hit'[r] = hit[r]
           \/ /\ pc[r] = "eval" /\ epoch # NoValue /\ entries[epoch] # NoValue
              /\ hit'[r] = entries[epoch]
    BY <2>1, ReaderMoves DEF ReaderMoved
  <2>3. CASE hit'[r] = hit[r]
    BY <2>1, <2>2, <2>3 DEF NoStaleHit
  <2>4. CASE pc[r] = "eval" /\ epoch # NoValue /\ entries[epoch] # NoValue
             /\ hit'[r] = entries[epoch]
    <3>1. Serves(floor[r])
      BY <2>4 DEF ServesReaders
    <3> QED
      BY <2>2, <2>4, <3>1 DEF Serves
  <2> QED
    BY <2>2, <2>3, <2>4
<1> QED
  BY <1>1, <1>3, <1>5, <1>6

\* The initial state satisfies the invariant: the word starts dirty.
LEMMA InitCache == Init => CacheInv
<1> SUFFICES ASSUME Init PROVE CacheInv
  OBVIOUS
<1>1. BaseInv
  BY InitBase
<1>2. TasksAwaited /\ NoStaleHit
  BY DEF Init, TasksAwaited, NoStaleHit
<1>3. ServesContent /\ ServesReaders
  BY DEF Init, ServesContent, ServesReaders, Serves
<1> QED
  BY <1>1, <1>2, <1>3 DEF CacheInv

\* The invariant makes the cache coherent when no mutation is in flight and the
\* word is clean.
LEMMA CacheInvCoherent ==
  ASSUME CacheInv PROVE CacheCoherent
<1> USE DEF CacheInv
<1>1. ASSUME Clean, activeMutations = 0, epoch # NoValue
      PROVE  /\ entries[epoch] # NoValue => entries[epoch] = db
             /\ \A s \in stores : s.epoch = epoch => s.version = db
  <2>1. Settled
    BY <1>1, GuardIsCounted DEF Settled, GuardSteps, BaseInv
  <2>2. Serves(db)
    BY <1>1, <2>1 DEF ServesContent, Trusted
  <2>3. epoch \in Generations
    BY <1>1 DEF BaseInv, TypeOK
  <2>4. entries[epoch] # NoValue => entries[epoch] \in Nat /\ entries[epoch] <= db
    BY <2>3 DEF BaseInv, TypeOK, NothingNewer
  <2>5. \A s \in stores : s.version \in Nat /\ s.version <= db
    BY DEF BaseInv, TypeOK, NothingNewer
  <2>6. db \in Nat
    BY DEF BaseInv, TypeOK
  <2> QED
    BY <1>1, <2>2, <2>4, <2>5, <2>6 DEF Serves
<1>2. \A s \in stores : s.epoch # NoValue
  BY CacheAssumption DEF BaseInv, TypeOK, Generations
<1> QED
  BY <1>1, <1>2 DEF CacheCoherent, CoherentWhenClean, BaseInv

\* Where a handler is not dropped while its repository task runs, no reader is
\* ever served a response older than the content it found on arrival, and the
\* cache is coherent whenever the process says so.
THEOREM CacheNeverStale ==
  ASSUME ~DropsAwaitedTask PROVE Spec => [](NoStaleHit /\ CacheCoherent)
<1>1. Init => CacheInv
  BY InitCache
<1>2. CacheInv /\ [Next]_vars => CacheInv'
  BY StepCache
<1>3. CacheInv => NoStaleHit /\ CacheCoherent
  BY CacheInvCoherent DEF CacheInv
<1> QED
  BY <1>1, <1>2, <1>3, PTL DEF Spec

\* No reader is served a response older than the content it found on arrival.
THEOREM NothingStaleServed ==
  ASSUME ~DropsAwaitedTask PROVE Spec => []NoStaleHit
BY CacheNeverStale, PTL

\* Whenever the process takes the cache for clean, Redis holds nothing of the
\* published generation that is older than the database.
THEOREM CacheStaysCoherent ==
  ASSUME ~DropsAwaitedTask PROVE Spec => []CacheCoherent
BY CacheNeverStale, PTL
=============================================================================
