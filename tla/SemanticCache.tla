--------------------------- MODULE SemanticCache ---------------------------
(***************************************************************************)
(* The coherence protocol between the canonical SQLite content and the     *)
(* Redis response cache of one server process (cache.rs, with the          *)
(* middleware and the mutation guard of main.rs).                          *)
(*                                                                         *)
(* Content is a version number, which every committed mutation advances; a *)
(* cached response is the version it was rendered from, for one route.     *)
(* Readers are GET requests through semantic_cache_middleware, writers are *)
(* handlers that hold a CacheMutationGuard.  Every read or write of an     *)
(* atomic, every Redis command and every lock is a step of its own.        *)
(***************************************************************************)
EXTENDS Integers, FiniteSets

CONSTANTS
  Readers, Writers,  \* concurrent requests
  Nobody,            \* no holder of generation_change
  NoValue,           \* an absent key
  MaxMutations,      \* bound: mutations begun
  MaxGenerations,    \* bound: generations drawn
  SpareGenerations,  \* of these, the ones only a rotation may draw
  MaxCrashes,        \* bound: process restarts
  DropsAwaitedTask   \* may a client disconnect drop a handler that awaits
                     \* its repository task?

Requests == Readers \cup Writers
Generations == 1..MaxGenerations
Versions == 0..MaxMutations

ASSUME CacheAssumption ==
  /\ Readers \cap Writers = {}
  /\ IsFiniteSet(Writers)
  /\ Nobody \notin Requests
  /\ NoValue \notin Int
  /\ MaxMutations \in Nat
  /\ MaxGenerations \in Nat
  /\ SpareGenerations \in Nat
  /\ MaxCrashes \in Nat
  /\ DropsAwaitedTask \in BOOLEAN

VARIABLES
  db,               \* version of the committed content
  epoch,            \* Redis: the epoch key
  entries,          \* Redis: the response stored under each generation
  lateSets,         \* SET commands given up by the client and not yet applied
  stores,           \* STORE_SCRIPT calls in flight
  drawn,            \* generations drawn so far: fresh_generation never repeats
  coherence,        \* (invalidation sequence << 1) | dirty
  activeMutations,
  changing,         \* holder of generation_change
  ticket,           \* the ticket its holder read in rotate_until_safe
  pc,               \* per request: its next step
  lookupEpoch,      \* per reader: epoch its lookup returned
  task,             \* per writer: its spawn_blocking repository task
  cancelled,        \* writers whose handler future was dropped
  mutations, crashes,
  floor,            \* per reader: content version when its request arrived
  hit               \* per reader: version served from the cache, or NoValue

redisVars == <<epoch, entries, lateSets, stores>>
processVars == <<coherence, activeMutations, changing, ticket>>
taskVars == <<task, cancelled>>
clientVars == <<floor, hit>>
boundVars == <<mutations, crashes>>
vars == <<db, redisVars, drawn, processVars, pc, lookupEpoch, taskVars,
          boundVars, clientVars>>

Steps == {"idle", "active", "safe", "repair", "recheck", "lock", "rotate", "ticket", "set",
          "publish", "eval", "render", "origin", "deliver", "beginDirty", "await",
          "dropDirty", "dropCount", "complete"}

TypeOK ==
  /\ db \in Nat
  /\ epoch \in Generations \cup {NoValue}
  /\ entries \in [Generations -> Nat \cup {NoValue}]
  /\ lateSets \in SUBSET Generations
  /\ stores \in SUBSET [epoch : Generations, version : Nat]
  /\ drawn \in 0..MaxGenerations
  /\ coherence \in Nat
  /\ activeMutations \in Nat
  /\ changing \in Requests \cup {Nobody}
  /\ pc \in [Requests -> Steps]
  /\ ticket \in Nat
  /\ lookupEpoch \in [Readers -> Generations \cup {NoValue}]
  /\ task \in [Writers -> {"none", "queued", "finished"}]
  /\ cancelled \in SUBSET Writers
  /\ mutations \in 0..MaxMutations
  /\ crashes \in 0..MaxCrashes
  /\ floor \in [Readers -> Nat]
  /\ hit \in [Readers -> Nat \cup {NoValue}]

\* SemanticCache::connect starts dirty: what Redis holds is from another process.
Init ==
  /\ db = 0
  /\ epoch = NoValue
  /\ entries = [g \in Generations |-> NoValue]
  /\ lateSets = {}
  /\ stores = {}
  /\ drawn = 0
  /\ coherence = 1
  /\ activeMutations = 0
  /\ changing = Nobody
  /\ pc = [q \in Requests |-> "idle"]
  /\ ticket = 0
  /\ lookupEpoch = [r \in Readers |-> NoValue]
  /\ task = [w \in Writers |-> "none"]
  /\ cancelled = {}
  /\ mutations = 0
  /\ crashes = 0
  /\ floor = [r \in Readers |-> 0]
  /\ hit = [r \in Readers |-> NoValue]

Goto(q, step) == pc' = [pc EXCEPT ![q] = step]

\* mark_coherence_dirty: the next sequence number, with the dirty bit.
MarkedDirty(c) == 2 * (c \div 2 + 1) + 1
Clean == coherence % 2 = 0

\* Where a request goes when its repair or its rotation failed or succeeded.
AfterFailure(q) == IF q \in Readers THEN "origin" ELSE "idle"
AfterSuccess(q) == IF q \in Readers THEN "eval" ELSE "idle"
Release(q) ==
  /\ changing' = IF changing = q THEN Nobody ELSE changing
  /\ ticket' = IF changing = q THEN 0 ELSE ticket

\* A reader is done: the locals of its future go out of scope.
Forget(q) ==
  /\ lookupEpoch' = [r \in Readers |-> IF r = q THEN NoValue ELSE lookupEpoch[r]]
  /\ floor' = [r \in Readers |-> IF r = q THEN 0 ELSE floor[r]]
  /\ hit' = [r \in Readers |-> IF r = q THEN NoValue ELSE hit[r]]

---------------------------------------------------------------------------
(* A cacheable GET: lookup, then the entry or the origin. *)

Arrive(r) ==
  /\ pc[r] = "idle"
  /\ Goto(r, "active")
  /\ floor' = [floor EXCEPT ![r] = db]
  /\ UNCHANGED <<db, redisVars, drawn, processVars, lookupEpoch, taskVars,
                 boundVars, hit>>

\* ensure_no_active_mutations at the start of lookup and of repair_coherence
CheckActive(r) ==
  /\ pc[r] \in {"active", "repair"}
  /\ Goto(r, IF activeMutations # 0 THEN "origin"
             ELSE IF pc[r] = "active" THEN "safe" ELSE "recheck")
  /\ UNCHANGED <<db, redisVars, drawn, processVars, lookupEpoch, taskVars,
                 boundVars, clientVars>>

\* reads_safe in lookup and, again, in repair_coherence
CheckSafe(r) ==
  /\ pc[r] \in {"safe", "recheck"}
  /\ Goto(r, IF Clean THEN "eval" ELSE IF pc[r] = "safe" THEN "repair" ELSE "lock")
  /\ UNCHANGED <<db, redisVars, drawn, processVars, lookupEpoch, taskVars,
                 boundVars, clientVars>>

\* LOOKUP_SCRIPT: a missing epoch key is created with a fresh generation; the
\* entry of the current generation is a hit.
Lookup(r) ==
  /\ pc[r] = "eval"
  /\ \/ /\ epoch # NoValue
        /\ entries[epoch] # NoValue
        /\ hit' = [hit EXCEPT ![r] = entries[epoch]]
        /\ Goto(r, "deliver")
        /\ UNCHANGED <<epoch, drawn, lookupEpoch>>
     \/ /\ epoch # NoValue
        /\ entries[epoch] = NoValue
        /\ lookupEpoch' = [lookupEpoch EXCEPT ![r] = epoch]
        /\ Goto(r, "render")
        /\ UNCHANGED <<epoch, drawn, hit>>
     \/ /\ epoch = NoValue
        /\ drawn + SpareGenerations < MaxGenerations
        /\ drawn' = drawn + 1
        /\ epoch' = drawn'
        /\ lookupEpoch' = [lookupEpoch EXCEPT ![r] = drawn']
        /\ Goto(r, "render")
        /\ UNCHANGED hit
  /\ UNCHANGED <<db, entries, lateSets, stores, processVars, taskVars, boundVars,
                 floor>>

\* The command fails or times out: the authoritative origin is served.
LookupFails(r) ==
  /\ pc[r] = "eval"
  /\ Goto(r, "origin")
  /\ UNCHANGED <<db, redisVars, drawn, processVars, lookupEpoch, taskVars,
                 boundVars, clientVars>>

\* The origin renders the content and a background task stores the response
\* under the generation the lookup returned.
Render(r) ==
  /\ pc[r] = "render"
  /\ Goto(r, "idle")
  /\ stores' = stores \cup {[epoch |-> lookupEpoch[r], version |-> db]}
  /\ Forget(r)
  /\ UNCHANGED <<db, epoch, entries, lateSets, drawn, processVars, taskVars,
                 boundVars>>

\* The response leaves: the cached one, or the origin's without a lookup result
\* and then nothing is stored.
Respond(r) ==
  /\ pc[r] \in {"origin", "deliver"}
  /\ Goto(r, "idle")
  /\ Forget(r)
  /\ UNCHANGED <<db, redisVars, drawn, processVars, taskVars, boundVars>>

---------------------------------------------------------------------------
(* rotate_until_safe, under generation_change: by the repair of a reader and by *)
(* complete_mutation of a writer.                                            *)

LockGenerationChange(q) ==
  /\ pc[q] = "lock"
  /\ changing = Nobody
  /\ changing' = q
  /\ Goto(q, "rotate")
  /\ UNCHANGED <<db, redisVars, drawn, coherence, activeMutations, ticket,
                 lookupEpoch, taskVars, boundVars, clientVars>>

\* ensure_no_active_mutations under the lock
RotateCheck(q) ==
  /\ pc[q] = "rotate"
  /\ \/ /\ activeMutations # 0
        /\ Goto(q, AfterFailure(q))
        /\ Release(q)
     \/ /\ activeMutations = 0
        /\ Goto(q, "ticket")
        /\ UNCHANGED <<changing, ticket>>
  /\ UNCHANGED <<db, redisVars, drawn, coherence, activeMutations, lookupEpoch,
                 taskVars, boundVars, clientVars>>

ReadTicket(q) ==
  /\ pc[q] = "ticket"
  /\ \/ /\ Clean
        /\ Goto(q, AfterSuccess(q))
        /\ Release(q)
     \/ /\ ~Clean
        /\ ticket' = coherence
        /\ Goto(q, "set")
        /\ UNCHANGED changing
  /\ UNCHANGED <<db, redisVars, drawn, coherence, activeMutations, lookupEpoch,
                 taskVars, boundVars, clientVars>>

\* SET epoch to a fresh generation, acknowledged by Redis.
SetGeneration(q) ==
  /\ pc[q] = "set"
  /\ drawn < MaxGenerations
  /\ drawn' = drawn + 1
  /\ epoch' = drawn'
  /\ Goto(q, "publish")
  /\ UNCHANGED <<db, entries, lateSets, stores, processVars, lookupEpoch,
                 taskVars, boundVars, clientVars>>

\* Mutant: the error path keeps generation_change.
SetFailsKeepsLock(q) ==
  /\ pc[q] = "set"
  /\ Goto(q, AfterFailure(q))
  /\ UNCHANGED <<db, redisVars, drawn, processVars, lookupEpoch, taskVars,
                 boundVars, clientVars>>

\* No connection, an error or a timeout: the command never reaches Redis, or
\* reaches it later.
SetFails(q) ==
  /\ pc[q] = "set"
  /\ \/ UNCHANGED <<lateSets, drawn>>
     \/ /\ drawn + SpareGenerations < MaxGenerations
        /\ drawn' = drawn + 1
        /\ lateSets' = lateSets \cup {drawn'}
  /\ Goto(q, AfterFailure(q))
  /\ Release(q)
  /\ UNCHANGED <<db, epoch, entries, stores, coherence, activeMutations,
                 lookupEpoch, taskVars, boundVars, clientVars>>

\* Mutant: a plain store instead of the compare-exchange.
PublishUnconditionally(q) ==
  /\ pc[q] = "publish"
  /\ coherence' = ticket + 1
  /\ Goto(q, AfterSuccess(q))
  /\ Release(q)
  /\ UNCHANGED <<db, redisVars, drawn, activeMutations, lookupEpoch, taskVars,
                 boundVars, clientVars>>

\* publish_coherence_generation: compare-exchange of the ticket.
PublishGeneration(q) ==
  /\ pc[q] = "publish"
  /\ \/ /\ coherence = ticket
        /\ coherence' = ticket + 1
        /\ Goto(q, AfterSuccess(q))
        /\ Release(q)
     \/ /\ coherence # ticket
        /\ Goto(q, "rotate")
        /\ ticket' = 0
        /\ UNCHANGED <<coherence, changing>>
  /\ UNCHANGED <<db, redisVars, drawn, activeMutations, lookupEpoch, taskVars,
                 boundVars, clientVars>>

---------------------------------------------------------------------------
(* A mutation: the guard, the repository task, complete_mutation. *)

\* Mutant: the guard is not counted.
BeginUncounted(w) ==
  /\ pc[w] = "idle"
  /\ task[w] = "none"
  /\ mutations < MaxMutations
  /\ mutations' = mutations + 1
  /\ Goto(w, "beginDirty")
  /\ UNCHANGED <<db, redisVars, drawn, processVars, lookupEpoch, taskVars, crashes,
                 clientVars>>

\* begin_mutation counts first and marks dirty second.
BeginMutation(w) ==
  /\ pc[w] = "idle"
  /\ task[w] = "none"
  /\ mutations < MaxMutations
  /\ mutations' = mutations + 1
  /\ activeMutations' = activeMutations + 1
  /\ Goto(w, "beginDirty")
  /\ UNCHANGED <<db, redisVars, drawn, coherence, changing, ticket, lookupEpoch,
                 taskVars, crashes, clientVars>>

BeginDirty(w) ==
  /\ pc[w] = "beginDirty"
  /\ coherence' = MarkedDirty(coherence)
  /\ task' = [task EXCEPT ![w] = "queued"]
  /\ Goto(w, "await")
  /\ UNCHANGED <<db, redisVars, drawn, activeMutations, changing, ticket,
                 lookupEpoch, cancelled, boundVars, clientVars>>

\* The blocking task commits, or is refused by the repository.  It runs on
\* whether or not its handler still waits for it.
RunTask(w) ==
  /\ task[w] = "queued"
  /\ db' \in {db, db + 1}
  /\ task' = [task EXCEPT ![w] = IF pc[w] = "await" THEN "finished" ELSE "none"]
  /\ UNCHANGED <<redisVars, drawn, processVars, pc, lookupEpoch, cancelled,
                 boundVars, clientVars>>

AwaitTask(w) ==
  /\ pc[w] = "await"
  /\ task[w] = "finished"
  /\ task' = [task EXCEPT ![w] = "none"]
  /\ Goto(w, "dropDirty")
  /\ UNCHANGED <<db, redisVars, drawn, processVars, lookupEpoch, cancelled,
                 boundVars, clientVars>>

\* Mutant: the guard marks dirty only when it is taken.
DropLeavesCoherence(w) ==
  /\ pc[w] = "dropDirty"
  /\ Goto(w, "dropCount")
  /\ UNCHANGED <<db, redisVars, drawn, processVars, lookupEpoch, taskVars,
                 boundVars, clientVars>>

\* CacheMutationGuard::drop marks dirty first and counts down second.
DropDirty(w) ==
  /\ pc[w] = "dropDirty"
  /\ coherence' = MarkedDirty(coherence)
  /\ Goto(w, "dropCount")
  /\ UNCHANGED <<db, redisVars, drawn, activeMutations, changing, ticket,
                 lookupEpoch, taskVars, boundVars, clientVars>>

DropCount(w) ==
  /\ pc[w] = "dropCount"
  /\ activeMutations' = activeMutations - 1
  /\ Goto(w, IF w \in cancelled THEN "idle" ELSE "complete")
  /\ cancelled' = cancelled \ {w}
  /\ UNCHANGED <<db, redisVars, drawn, coherence, changing, ticket, lookupEpoch,
                 task, boundVars, clientVars>>

\* complete_mutation leaves the rotation to the last mutation in flight.
CompleteMutation(w) ==
  /\ pc[w] = "complete"
  /\ Goto(w, IF activeMutations # 0 THEN "idle" ELSE "lock")
  /\ UNCHANGED <<db, redisVars, drawn, processVars, lookupEpoch, taskVars,
                 boundVars, clientVars>>

---------------------------------------------------------------------------
(* Redis and the process. *)

\* STORE_SCRIPT: only under the generation that is still current.
ApplyStore(s) ==
  /\ s \in stores
  /\ stores' = stores \ {s}
  /\ entries' = IF epoch = s.epoch THEN [entries EXCEPT ![s.epoch] = s.version]
                                   ELSE entries
  /\ UNCHANGED <<db, epoch, lateSets, drawn, processVars, pc, lookupEpoch,
                 taskVars, boundVars, clientVars>>

\* No fill slot, a response that is not cached, or a command that fails.
LoseStore(s) ==
  /\ s \in stores
  /\ stores' = stores \ {s}
  /\ UNCHANGED <<db, epoch, entries, lateSets, drawn, processVars, pc,
                 lookupEpoch, taskVars, boundVars, clientVars>>

\* A SET that its client had given up arrives after all.
ApplyLateSet(g) ==
  /\ g \in lateSets
  /\ lateSets' = lateSets \ {g}
  /\ epoch' = g
  /\ UNCHANGED <<db, entries, stores, drawn, processVars, pc, lookupEpoch,
                 taskVars, boundVars, clientVars>>

\* Expiry of an entry, eviction of the epoch key.
Expire(g) ==
  /\ entries[g] # NoValue
  /\ entries' = [entries EXCEPT ![g] = NoValue]
  /\ UNCHANGED <<db, epoch, lateSets, stores, drawn, processVars, pc,
                 lookupEpoch, taskVars, boundVars, clientVars>>

EvictEpoch ==
  /\ epoch # NoValue
  /\ epoch' = NoValue
  /\ UNCHANGED <<db, entries, lateSets, stores, drawn, processVars, pc,
                 lookupEpoch, taskVars, boundVars, clientVars>>

\* Mutant: a dropped future leaves generation_change locked.
DisconnectKeepsLock(q) ==
  /\ pc[q] \in {"lock", "set", "eval", "render", "origin", "deliver"}
  /\ Goto(q, "idle")
  /\ Forget(q)
  /\ UNCHANGED <<db, redisVars, drawn, processVars, taskVars, boundVars>>

\* A client disconnects: the future is dropped where it awaits, its lock and
\* its mutation guard with it.  Readers and rotations await Redis or the lock.
Disconnect(q) ==
  /\ pc[q] \in {"lock", "set", "eval", "render", "origin", "deliver"}
  /\ Goto(q, "idle")
  /\ Release(q)
  /\ Forget(q)
  /\ UNCHANGED <<db, redisVars, drawn, coherence, activeMutations, taskVars,
                 boundVars>>

\* The handler is dropped while it awaits its repository task, which goes on.
DisconnectAwaiting(w) ==
  /\ DropsAwaitedTask
  /\ pc[w] = "await"
  /\ cancelled' = cancelled \cup {w}
  /\ task' = [task EXCEPT ![w] = IF @ = "finished" THEN "none" ELSE @]
  /\ Goto(w, "dropDirty")
  /\ UNCHANGED <<db, redisVars, drawn, processVars, lookupEpoch, boundVars,
                 clientVars>>

\* The process dies and starts again; Redis and commands on their way to it
\* stay.  A task that has not committed is rolled back.
Crash ==
  /\ crashes < MaxCrashes
  /\ crashes' = crashes + 1
  /\ coherence' = 1
  /\ activeMutations' = 0
  /\ changing' = Nobody
  /\ ticket' = 0
  /\ pc' = [q \in Requests |-> "idle"]
  /\ lookupEpoch' = [r \in Readers |-> NoValue]
  /\ task' = [w \in Writers |-> "none"]
  /\ cancelled' = {}
  /\ floor' = [r \in Readers |-> 0]
  /\ hit' = [r \in Readers |-> NoValue]
  /\ UNCHANGED <<db, redisVars, drawn, mutations>>

ReaderStep(r) ==
  \/ CheckActive(r) \/ CheckSafe(r) \/ Lookup(r) \/ LookupFails(r)
  \/ Render(r) \/ Respond(r)

RotationStep(q) ==
  \/ RotateCheck(q) \/ ReadTicket(q) \/ SetGeneration(q) \/ SetFails(q)
  \/ PublishGeneration(q)

WriterStep(w) ==
  \/ BeginDirty(w) \/ RunTask(w) \/ AwaitTask(w)
  \/ DropDirty(w) \/ DropCount(w) \/ CompleteMutation(w)

RedisStep ==
  \/ \E s \in stores : ApplyStore(s) \/ LoseStore(s)
  \/ \E g \in Generations : ApplyLateSet(g) \/ Expire(g)
  \/ EvictEpoch

Next ==
  \/ \E r \in Readers : Arrive(r) \/ ReaderStep(r)
  \/ \E w \in Writers : BeginMutation(w) \/ WriterStep(w) \/ DisconnectAwaiting(w)
  \/ \E q \in Requests : LockGenerationChange(q) \/ RotationStep(q) \/ Disconnect(q)
  \/ RedisStep
  \/ Crash

Spec == Init /\ [][Next]_vars

\* The runtime polls every request that can run, every Redis command ends (it
\* has a response timeout), and generation_change is a FIFO lock.
Fairness ==
  /\ \A r \in Readers : WF_vars(ReaderStep(r))
  /\ \A w \in Writers : WF_vars(WriterStep(w))
  /\ \A q \in Requests :
       WF_vars(RotationStep(q)) /\ SF_vars(LockGenerationChange(q))

FairSpec == Spec /\ Fairness

---------------------------------------------------------------------------
(* Properties. *)

\* A response served from the cache is never older than the content committed
\* when its request arrived: after a mutation has been acknowledged, or merely
\* committed, no later request is answered with the page from before it.
NoStaleHit == \A r \in Readers : hit[r] # NoValue => hit[r] >= floor[r]

\* When no mutation is in flight and the process considers the cache coherent,
\* what the current generation holds, and every store on its way to it, was
\* rendered from the committed content.
CoherentWhenClean ==
  Clean /\ activeMutations = 0 =>
    /\ epoch # NoValue /\ entries[epoch] # NoValue => entries[epoch] = db
    /\ \A s \in stores : s.epoch = epoch => s.version = db

\* The count of active mutations is the number of guards alive: cancellation
\* and errors can neither leak a guard nor release one twice.
GuardsCounted ==
  activeMutations =
    Cardinality({w \in Writers :
      pc[w] \in {"beginDirty", "await", "dropDirty", "dropCount"}})

\* The lock that orders rotations is always held by a request that is rotating
\* (never left behind by a dropped future).
LockHeldByRotation ==
  \A q \in Requests :
    changing = q <=> pc[q] \in {"rotate", "ticket", "set", "publish"}

\* Every request ends once mutations stop: no reader waits for ever for the lock
\* or in the rotation loop, whatever Redis does, and no mutation hangs behind
\* one.  A rotation goes round its loop again only when a mutation has begun or
\* ended since it read its ticket; the generations set aside for rotations are
\* as many as MaxMutations can make them draw, so no bound ends the loop.
EveryRequestEnds == \A q \in Requests : pc[q] # "idle" ~> pc[q] = "idle"

\* The cache is coherent whenever the process says so, and the count and the
\* lock that say so are right: dropped futures and errors leak neither.
CacheCoherent == CoherentWhenClean /\ GuardsCounted /\ LockHeldByRotation
============================================================================
