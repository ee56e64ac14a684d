--------------------------- MODULE ServicesProofs ---------------------------
(***************************************************************************)
(* The services of a server for any number of authors, requests, jobs,     *)
(* browsers and servers: each keeps the limits it promises.  A step of     *)
(* Services is a step of one service and leaves the others alone, so each  *)
(* part below has an inductive invariant of its own.                       *)
(***************************************************************************)
EXTENDS Services, FiniteSetTheorems, WellFoundedInduction, TLAPS

SummaryStep == SummaryCallsNext \/ EditingNext \/ SummaryInstantPasses

SignInStep ==
  \/ AccessKeyNext
  \/ ExternalNext
  \/ SignInInstantPasses
  \/ \E s \in Servers : \E binding \in {bindings[s]} \cup 1..2 : RestartServer(s, binding)

\* Whatever service a behaviour follows, its step is one of every service or
\* leaves that service as it is.
LEMMA ServiceSteps ==
  ASSUME [Next]_servicesVars
  PROVE  /\ [SummaryStep]_summaryVars
         /\ [LinkNext]_linkVars
         /\ [RunnerNext]_runnerVars
         /\ [SignInStep]_signInVars
         /\ [McpNext]_mcpVars
         /\ [TreeNext]_treeVars
         /\ [ReleasesNext]_releaseVars
<1>1. CASE UNCHANGED servicesVars
  BY <1>1 DEF servicesVars
<1>2. CASE FollowLimiter \/ FollowSummaries
  BY <1>2 DEF FollowLimiter, FollowSummaries, SummaryStep
<1>3. CASE FollowRedis
  BY <1>3 DEF FollowRedis
<1>4. CASE FollowRunner
  BY <1>4 DEF FollowRunner
<1>5. CASE FollowAccessKey \/ FollowExternal
  BY <1>5 DEF FollowAccessKey, FollowExternal, SignInStep
<1>6. CASE FollowMcp
  BY <1>6 DEF FollowMcp
<1>7. CASE FollowTree
  BY <1>7 DEF FollowTree
<1>8. CASE FollowReleases
  BY <1>8 DEF FollowReleases
<1>9. CASE FollowAssets
  BY <1>9 DEF FollowAssets
<1> QED
  BY <1>1, <1>2, <1>3, <1>4, <1>5, <1>6, <1>7, <1>8, <1>9 DEF Next

---------------------------------------------------------------------------
(* Summaries. *)

Waiting == {a \in Authors : calls[a].phase = "waiting"}

\* The inductive invariant of the summaries.
SummariesInv ==
  /\ slots \in Int
  /\ calls \in [Authors -> {NoCall} \cup [phase : {"admitted", "waiting"}, text : Texts]]
  /\ editor \in Texts
  /\ SlotsAccounted

\* Before the first request all permits are free and nothing is stored.
LEMMA InitSummaries == SummariesInit => SummariesInv
<1> SUFFICES ASSUME SummariesInit PROVE SummariesInv
  OBVIOUS
<1> USE SummariesAssumption DEF SummariesInit
<1>1. {a \in Authors : calls[a].phase = "waiting"} = {}
  BY DEF NoCall
<1>2. Cardinality({}) = 0
  BY FS_EmptySet
<1>3. SlotsAccounted
  BY <1>1, <1>2 DEF SlotsAccounted
<1> QED
  BY <1>3 DEF SummariesInv

\* A call that begins to wait takes a permit, one that ends gives it back.
LEMMA WaitingCounted ==
  ASSUME NEW a \in Authors
  PROVE  /\ a \notin Waiting => Cardinality(Waiting \cup {a}) = Cardinality(Waiting) + 1
         /\ a \in Waiting => Cardinality(Waiting \ {a}) = Cardinality(Waiting) - 1
         /\ Cardinality(Waiting) \in Nat
<1>1. IsFiniteSet(Waiting)
  BY SummariesAssumption, FS_Subset DEF Waiting
<1> QED
  BY <1>1, FS_AddElement, FS_RemoveElement, FS_CardinalityType

\* Each step of a request or of the editor keeps the invariant.
LEMMA StepSummaries ==
  ASSUME SummariesInv, [SummaryStep]_summaryVars PROVE SummariesInv'
<1> USE SummariesAssumption DEF SummariesInv, SlotsAccounted, NoCall
<1>1. ASSUME NEW a \in Authors, AdmitSummary(a) PROVE SummariesInv'
  <2>1. calls' \in [Authors -> {NoCall} \cup [phase : {"admitted", "waiting"}, text : Texts]]
    BY <1>1 DEF AdmitSummary
  <2>2. Waiting' = Waiting
    BY <1>1 DEF AdmitSummary, Waiting
  <2> QED
    BY <1>1, <2>1, <2>2 DEF AdmitSummary, Waiting
<1>2. ASSUME NEW a \in Authors, NEW valid \in BOOLEAN, Generate(a, valid) PROVE SummariesInv'
  <2>1. calls' \in [Authors -> {NoCall} \cup [phase : {"admitted", "waiting"}, text : Texts]]
    BY <1>2 DEF Generate
  <2>2. CASE valid /\ slots > 0
    <3>1. a \notin Waiting /\ Waiting' = Waiting \cup {a}
      BY <1>2, <2>2 DEF Generate, Waiting
    <3>2. Cardinality(Waiting') = Cardinality(Waiting) + 1 /\ Cardinality(Waiting) \in Nat
      BY <3>1, WaitingCounted
    <3> QED
      BY <1>2, <2>1, <2>2, <3>2 DEF Generate, Waiting
  <2>3. CASE ~(valid /\ slots > 0)
    <3>1. Waiting' = Waiting
      BY <1>2, <2>3 DEF Generate, Waiting
    <3> QED
      BY <1>2, <2>1, <2>3, <3>1 DEF Generate, Waiting
  <2> QED
    BY <2>2, <2>3
<1>3. ASSUME NEW a \in Authors, calls[a].phase = "waiting",
             calls' = [calls EXCEPT ![a] = NoCall], slots' = slots + 1,
             UNCHANGED <<editor, stored>>
      PROVE SummariesInv'
  <2>1. calls' \in [Authors -> {NoCall} \cup [phase : {"admitted", "waiting"}, text : Texts]]
    BY <1>3
  <2>2. a \in Waiting /\ Waiting' = Waiting \ {a}
    BY <1>3 DEF Waiting
  <2>3. Cardinality(Waiting') = Cardinality(Waiting) - 1 /\ Cardinality(Waiting) \in Nat
    BY <2>2, WaitingCounted
  <2> QED
    BY <1>3, <2>1, <2>3 DEF Waiting
<1>4. ASSUME EditingNext \/ SummaryInstantPasses \/ UNCHANGED summaryVars PROVE SummariesInv'
  <2>1. UNCHANGED <<slots, calls>> /\ editor' \in Texts
    BY <1>4 DEF EditingNext, Edit, UseCandidate, SaveRevision, SummaryInstantPasses, summaryVars
  <2> QED
    BY <2>1
<1> QED
  BY <1>1, <1>2, <1>3, <1>4 DEF SummaryStep, SummaryCallsNext, ProviderAnswers, CallFails

\* Late answers, timeouts and disconnects in any order: no permit of
\* AiSummaryService is lost or given back twice.
THEOREM SummarySlotsKept == Spec => []SlotsAccounted
<1>1. Init => SummariesInv
  BY InitSummaries DEF Init
<1>2. SummariesInv /\ [Next]_servicesVars => SummariesInv'
  BY ServiceSteps, StepSummaries
<1>3. SummariesInv => SlotsAccounted
  BY DEF SummariesInv
<1> QED
  BY <1>1, <1>2, <1>3, PTL DEF Spec

---------------------------------------------------------------------------
(* The connection to Redis. *)

CallerStates ==
  [phase : {"idle", "trying", "leading", "opening", "answered", "dropped"}]
    \cup [phase : {"sent"}, manager : Nat, generation : Nat]
    \cup [phase : {"failed"}, generation : Nat]

LinkTypes ==
  /\ redis \in [up : BOOLEAN, era : Nat]
  /\ slot \in [manager : Nat \cup {NoManager}, generation : Nat]
  /\ caller \in [Callers -> CallerStates]

\* The manager in the slot is of this era or an earlier one; during an outage,
\* which began this era, of an earlier one.
SlotOfItsTime ==
  slot.manager # NoManager =>
    slot.manager <= redis.era /\ (~redis.up => slot.manager < redis.era)

\* A lease has the generation of its manager; one that has failed under the
\* generation of the slot tells that the slot's manager is of an earlier era.
LeasesKnow ==
  \A c \in Callers :
    /\ At(c, "sent") =>
         /\ caller[c].generation <= slot.generation
         /\ caller[c].generation = slot.generation /\ slot.manager # NoManager =>
              caller[c].manager = slot.manager
    /\ At(c, "failed") =>
         /\ caller[c].generation <= slot.generation
         /\ caller[c].generation = slot.generation => slot.manager # redis.era

\* The inductive invariant of the connection.
LinkInv == LinkTypes /\ OneConnectionAttempt /\ SlotOfItsTime /\ LeasesKnow

\* At start there is no manager and nobody asks for one.
LEMMA InitLink == LinkInit => LinkInv
  BY LinkAssumption
     DEF LinkInit, LinkInv, LinkTypes, CallerStates, OneConnectionAttempt, SlotOfItsTime,
         LeasesKnow, At, IdleCaller

\* Each step keeps the types.
LEMMA LinkTypesKept ==
  ASSUME LinkTypes, [LinkNext]_linkVars PROVE LinkTypes'
<1> USE DEF LinkTypes, CallerStates, Moves, IdleCaller, Leased, At
<1>1. ASSUME NEW c \in Callers, AskManager(c) PROVE LinkTypes'
  BY <1>1 DEF AskManager
<1>2. ASSUME NEW c \in Callers, BeginAttempt(c) PROVE LinkTypes'
  BY <1>2 DEF BeginAttempt
<1>3. ASSUME NEW c \in Callers, LookAgain(c) PROVE LinkTypes'
  BY <1>3 DEF LookAgain
<1>4. ASSUME NEW c \in Callers, InstallManager(c) PROVE LinkTypes'
  BY <1>4 DEF InstallManager
<1>5. ASSUME NEW c \in Callers, OpenFails(c) PROVE LinkTypes'
  BY <1>5 DEF OpenFails
<1>6. ASSUME NEW c \in Callers, CommandAnswered(c) PROVE LinkTypes'
  BY <1>6 DEF CommandAnswered
<1>7. ASSUME NEW c \in Callers, CommandFails(c) PROVE LinkTypes'
  BY <1>7 DEF CommandFails
<1>8. ASSUME NEW c \in Callers, RecordSuccess(c) PROVE LinkTypes'
  BY <1>8 DEF RecordSuccess
<1>9. ASSUME NEW c \in Callers, DropManager(c) PROVE LinkTypes'
  BY <1>9 DEF DropManager
<1>10. ASSUME NEW c \in Callers, OpenBreaker(c) PROVE LinkTypes'
  BY <1>10 DEF OpenBreaker
<1>11. ASSUME NEW c \in Callers, CancelCaller(c) PROVE LinkTypes'
  BY <1>11 DEF CancelCaller
<1>12. CASE RedisFails \/ RedisReturns
  <2>1. redis' \in [up : BOOLEAN, era : Nat]
    <3>1. CASE RedisFails
      BY <3>1 DEF RedisFails
    <3>2. CASE RedisReturns
      <4>1. redis' = [up |-> TRUE, era |-> redis.era] /\ redis.era \in Nat
        BY <3>2 DEF RedisReturns
      <4> QED
        BY <4>1
    <3> QED
      BY <1>12, <3>1, <3>2
  <2> QED
    BY <1>12, <2>1 DEF RedisFails, RedisReturns
<1>13. CASE PauseElapses \/ UNCHANGED linkVars
  BY <1>13 DEF PauseElapses, linkVars
<1> QED
  BY <1>1, <1>2, <1>3, <1>4, <1>5, <1>6, <1>7, <1>8, <1>9, <1>10, <1>11, <1>12, <1>13
     DEF LinkNext, CallerStep

\* The gate lets one request at a time go on to open a connection, and the
\* guard of a leader that ends or is cancelled goes with it.
LEMMA OneAttemptKept ==
  ASSUME LinkTypes, OneConnectionAttempt, [LinkNext]_linkVars PROVE OneConnectionAttempt'
<1> USE LinkAssumption DEF LinkTypes, OneConnectionAttempt, Moves, IdleCaller, Leased, At
<1>1. ASSUME NEW c \in Callers, AskManager(c) PROVE OneConnectionAttempt'
  BY <1>1 DEF AskManager
<1>2. ASSUME NEW c \in Callers, BeginAttempt(c) PROVE OneConnectionAttempt'
  BY <1>2 DEF BeginAttempt
<1>3. ASSUME NEW c \in Callers, LookAgain(c) PROVE OneConnectionAttempt'
  BY <1>3 DEF LookAgain
<1>4. ASSUME NEW c \in Callers, InstallManager(c) PROVE OneConnectionAttempt'
  BY <1>4 DEF InstallManager
<1>5. ASSUME NEW c \in Callers, OpenFails(c) PROVE OneConnectionAttempt'
  BY <1>5 DEF OpenFails
<1>6. ASSUME NEW c \in Callers,
             CommandAnswered(c) \/ CommandFails(c) \/ RecordSuccess(c)
      PROVE OneConnectionAttempt'
  BY <1>6 DEF CommandAnswered, CommandFails, RecordSuccess
<1>7. ASSUME NEW c \in Callers, DropManager(c) \/ OpenBreaker(c) PROVE OneConnectionAttempt'
  BY <1>7 DEF DropManager, OpenBreaker
<1>8. ASSUME NEW c \in Callers, CancelCaller(c) PROVE OneConnectionAttempt'
  BY <1>8 DEF CancelCaller
<1>9. CASE PauseElapses \/ RedisFails \/ RedisReturns \/ UNCHANGED linkVars
  BY <1>9 DEF PauseElapses, RedisFails, RedisReturns, linkVars
<1> QED
  BY <1>1, <1>2, <1>3, <1>4, <1>5, <1>6, <1>7, <1>8, <1>9 DEF LinkNext, CallerStep

\* Managers and leases stay of their time: a new manager has a generation no
\* lease has, and an outage makes every manager one of an earlier era.
LEMMA LeasesKept ==
  ASSUME LinkTypes, SlotOfItsTime, LeasesKnow, [LinkNext]_linkVars
  PROVE  SlotOfItsTime' /\ LeasesKnow'
<1> USE LinkAssumption
    DEF LinkTypes, CallerStates, SlotOfItsTime, LeasesKnow, Moves, IdleCaller, Leased, At
<1> DEFINE Goal == SlotOfItsTime' /\ LeasesKnow'
<1>1. ASSUME NEW c \in Callers, AskManager(c) \/ BeginAttempt(c) \/ LookAgain(c) PROVE Goal
  BY <1>1 DEF AskManager, BeginAttempt, LookAgain
<1>2. ASSUME NEW c \in Callers, InstallManager(c) PROVE Goal
  BY <1>2 DEF InstallManager, ManagerOpens
<1>3. ASSUME NEW c \in Callers, OpenFails(c) \/ CancelCaller(c) PROVE Goal
  BY <1>3 DEF OpenFails, CancelCaller
<1>4. ASSUME NEW c \in Callers, CommandAnswered(c) \/ RecordSuccess(c) PROVE Goal
  BY <1>4 DEF CommandAnswered, RecordSuccess
<1>5. ASSUME NEW c \in Callers, CommandFails(c) PROVE Goal
  BY <1>5 DEF CommandFails
<1>6. ASSUME NEW c \in Callers, DropManager(c) \/ OpenBreaker(c) PROVE Goal
  BY <1>6 DEF DropManager, OpenBreaker
<1>7. CASE RedisFails \/ RedisReturns
  BY <1>7 DEF RedisFails, RedisReturns
<1>8. CASE PauseElapses \/ UNCHANGED linkVars
  BY <1>8 DEF PauseElapses, linkVars
<1> QED
  BY <1>1, <1>2, <1>3, <1>4, <1>5, <1>6, <1>7, <1>8 DEF LinkNext, CallerStep

\* The manager of the current era leaves the slot in no step: drop_manager
\* compares generations, and a lease of this generation has not failed.
LEMMA FreshStays ==
  ASSUME LinkInv, [LinkNext]_linkVars
  PROVE  redis.up /\ slot.manager = redis.era => slot'.manager # NoManager
<1> USE LinkAssumption DEF LinkInv, LinkTypes, LeasesKnow, At
<1>1. ASSUME NEW c \in Callers, InstallManager(c) PROVE slot'.manager # NoManager
  BY <1>1 DEF InstallManager
<1>2. ASSUME NEW c \in Callers, DropManager(c), slot.manager = redis.era
      PROVE slot'.manager # NoManager
  BY <1>2 DEF DropManager
<1>3. CASE UNCHANGED slot
  BY <1>3
<1> QED
  BY <1>1, <1>2, <1>3
     DEF LinkNext, CallerStep, AskManager, BeginAttempt, LookAgain, OpenFails,
         CommandAnswered, CommandFails, RecordSuccess, OpenBreaker, CancelCaller,
         PauseElapses, RedisFails, RedisReturns, linkVars

\* For any number of requests, outages and cancellations: one request at a
\* time opens a connection, and no late error takes away a connection opened
\* since the last outage.
THEOREM ConnectionIsShared == Spec => ConnectionShared
<1>1. Init => LinkInv
  BY InitLink DEF Init
<1>2. LinkInv /\ [Next]_servicesVars => LinkInv'
  BY ServiceSteps, LinkTypesKept, OneAttemptKept, LeasesKept DEF LinkInv
<1>3. LinkInv => OneConnectionAttempt
  BY DEF LinkInv
<1>4. LinkInv /\ [Next]_servicesVars =>
        [redis.up /\ slot.manager = redis.era => slot'.manager # NoManager]_linkVars
  BY ServiceSteps, FreshStays
<1> QED
  BY <1>1, <1>2, <1>3, <1>4, PTL DEF Spec, ConnectionShared, FreshManagerKept

---------------------------------------------------------------------------
(* The code runner. *)

RunDigests == {p.digest : p \in CandidateProfiles}
QueuedRuns == [request : Nat, digest : RunDigests, expires : Int]
RunExpectations == [request : Nat, digest : RunDigests, maximumExpiry : Int]
RunAnswers ==
  [state : {"queued"}, job : RunJobs, request : Nat, digest : RunDigests, expires : Int]
    \cup [state : {"terminal"}, job : RunJobs, request : Nat, digest : RunDigests]
HandlerStates ==
  {NoCallYet}
    \cup [phase : {"preparing", "asked"}, expected : RunExpectations]
    \cup [phase : {"storing"}, answer : RunAnswers]

RunnerTypes ==
  /\ now \in Nat
  /\ profiles \subseteq CandidateProfiles
  /\ \E n \in Nat : issued \in [1..n -> Int]
  /\ jobs \in [RunJobs -> {NoRun} \cup QueuedRuns]
  /\ handling \in [RunHandlers -> HandlerStates]

\* No run outlasts the expiry its request was sent with: neither a tracked job,
\* nor what an answer is held against, nor an answer that is to be stored.
ExpiriesBounded ==
  /\ \A j \in RunJobs : jobs[j] # NoRun =>
       jobs[j].request \in DOMAIN issued /\ jobs[j].expires <= issued[jobs[j].request]
  /\ \A c \in RunHandlers :
       /\ handling[c].phase \in {"preparing", "asked"} =>
            LET expected == handling[c].expected IN
            expected.request \in DOMAIN issued /\ expected.maximumExpiry <= issued[expected.request]
       /\ handling[c].phase = "storing" =>
            LET told == handling[c].answer IN
            told.state = "queued" =>
              told.request \in DOMAIN issued /\ told.expires <= issued[told.request]

\* The inductive invariant of the code runner's client.
RunnerInv == RunnerTypes /\ ExpiriesBounded /\ RefusedOnlyWhenFull

\* A server that starts tracks nothing.
LEMMA InitRunner == RunnerInit => RunnerInv
<1> SUFFICES ASSUME RunnerInit PROVE RunnerInv
  OBVIOUS
<1> USE DEF RunnerInit
<1>1. issued \in [1..0 -> Int]
  OBVIOUS
<1>2. RunnerTypes
  BY <1>1 DEF RunnerTypes, HandlerStates
<1>3. ExpiriesBounded
  BY DEF ExpiriesBounded, NoCallYet
<1> QED
  BY <1>2, <1>3 DEF RunnerInv, RefusedOnlyWhenFull

\* A submission takes the next request number and keeps the expiries issued.
LEMMA IssuedGrows ==
  ASSUME RunnerTypes, NEW c \in RunHandlers, NEW p \in profiles, SubmitRun(c, p)
  PROVE  /\ \E n \in Nat : issued' \in [1..n -> Int]
         /\ \A r \in DOMAIN issued : r \in DOMAIN issued' /\ issued'[r] = issued[r]
         /\ Prepared(p) \in RunExpectations
         /\ Prepared(p).request \in DOMAIN issued'
         /\ Prepared(p).maximumExpiry = issued'[Prepared(p).request]
<1> USE RunnerAssumption
<1>1. PICK n \in Nat : issued \in [1..n -> Int]
  BY DEF RunnerTypes
<1>2. Cardinality(DOMAIN issued) = n
  <2>1. DOMAIN issued = 1..n
    BY <1>1
  <2> QED
    BY <2>1, FS_Interval
<1>3. /\ Prepared(p).request = n + 1
      /\ Prepared(p).maximumExpiry = now + JobTtl
      /\ now + JobTtl \in Int
      /\ Prepared(p) \in RunExpectations
  BY <1>2 DEF Prepared, RunExpectations, RunDigests, RunnerTypes
<1>4. issued' = [r \in 1..(n + 1) |-> IF r = n + 1 THEN now + JobTtl ELSE issued[r]]
  BY <1>3 DEF SubmitRun
<1>5. issued' \in [1..(n + 1) -> Int]
  BY <1>1, <1>3, <1>4
<1> QED
  BY <1>1, <1>3, <1>4, <1>5

\* What a broker may answer.
LEMMA AnswersTyped ==
  ASSUME RunnerTypes, NEW told \in BrokerAnswers
  PROVE  told \in RunAnswers
<1>1. DOMAIN issued \subseteq Nat
  BY DEF RunnerTypes
<1>2. {p.digest : p \in profiles} \subseteq RunDigests
  BY DEF RunnerTypes, RunDigests
<1>3. 1..(MaxNow + JobTtl) \subseteq Int
  OBVIOUS
<1> QED
  BY <1>1, <1>2, <1>3 DEF BrokerAnswers, RunAnswers

\* A handler goes on; the others stay.
LEMMA HandlerGoesOn ==
  ASSUME handling \in [RunHandlers -> HandlerStates],
         NEW c \in RunHandlers, NEW there \in HandlerStates, GoesOn(c, there)
  PROVE  /\ handling' \in [RunHandlers -> HandlerStates]
         /\ handling'[c] = there
         /\ \A d \in RunHandlers : d # c => handling'[d] = handling[d]
  BY DEF GoesOn

\* The expiry a handler knows of is bounded by what was issued.
HandlerBounded(state) ==
  /\ state.phase \in {"preparing", "asked"} =>
       /\ state.expected.request \in DOMAIN issued
       /\ state.expected.maximumExpiry <= issued[state.expected.request]
  /\ state.phase = "storing" =>
       (state.answer.state = "queued" =>
          /\ state.answer.request \in DOMAIN issued
          /\ state.answer.expires <= issued[state.answer.request])

\* A valid answer is bounded by what it was held against.
LEMMA AnswerBounded ==
  ASSUME NEW told \in RunAnswers, NEW expected \in RunExpectations,
         ValidAnswer(told, expected),
         expected.request \in DOMAIN issued,
         expected.maximumExpiry <= issued[expected.request],
         issued[expected.request] \in Int
  PROVE  HandlerBounded([phase |-> "storing", answer |-> told])
<1> SUFFICES ASSUME told.state = "queued"
             PROVE  /\ told.request \in DOMAIN issued
                    /\ told.expires <= issued[told.request]
  BY DEF HandlerBounded
<1>1. told.request = expected.request /\ told.expires <= expected.maximumExpiry
  BY DEF ValidAnswer, Expected
<1>2. told.expires \in Int /\ expected.maximumExpiry \in Int
  BY DEF RunAnswers, RunExpectations
<1> QED
  BY <1>1, <1>2

\* Each step of a handler keeps the types and the expiries.
LEMMA RunnerKept ==
  ASSUME RunnerTypes, ExpiriesBounded, [RunnerNext]_runnerVars
  PROVE  RunnerTypes' /\ ExpiriesBounded'
<1> DEFINE Goal == RunnerTypes' /\ ExpiriesBounded'
<1> USE DEF GoesOn, Ends
<1>1. ASSUME NEW c \in RunHandlers, NEW p \in profiles, SubmitRun(c, p) PROVE Goal
  <2>1. handling' = [handling EXCEPT ![c] = [phase |-> "preparing", expected |-> Prepared(p)]]
    BY <1>1 DEF SubmitRun
  <2> DEFINE there == [phase |-> "preparing", expected |-> Prepared(p)]
  <2>2. there \in HandlerStates
    BY <1>1, IssuedGrows DEF HandlerStates
  <2>3. /\ handling' \in [RunHandlers -> HandlerStates]
        /\ handling'[c] = there
        /\ \A d \in RunHandlers : d # c => handling'[d] = handling[d]
    BY <2>1, <2>2, HandlerGoesOn DEF RunnerTypes
  <2>4. /\ there.phase = "preparing"
        /\ there.expected.request \in DOMAIN issued'
        /\ there.expected.maximumExpiry = issued'[there.expected.request]
        /\ there.expected.maximumExpiry \in Int
    BY <1>1, IssuedGrows DEF RunExpectations
  <2>5. /\ \E n \in Nat : issued' \in [1..n -> Int]
        /\ \A r \in DOMAIN issued : r \in DOMAIN issued' /\ issued'[r] = issued[r]
    BY <1>1, IssuedGrows
  <2>6. UNCHANGED <<now, profiles, jobs>>
    BY <1>1 DEF SubmitRun
  <2> HIDE DEF there
  <2>7. RunnerTypes'
    BY <2>3, <2>5, <2>6 DEF RunnerTypes
  <2>8. ExpiriesBounded'
    BY <2>3, <2>4, <2>5, <2>6, SMTT(30) DEF ExpiriesBounded
  <2> QED
    BY <2>7, <2>8
<1>2. ASSUME NEW c \in RunHandlers, NEW reported \in BrokerProfiles, RunnerReadiness(c, reported)
      PROVE Goal
  <2>1. RunnerTypes'
    BY <1>2 DEF RunnerReadiness, RunnerTypes, HandlerStates, NoCallYet
  <2>2. ExpiriesBounded'
    BY <1>2 DEF RunnerReadiness, RunnerTypes, HandlerStates, NoCallYet, ExpiriesBounded
  <2> QED
    BY <2>1, <2>2
<1>3. ASSUME NEW c \in RunHandlers, NEW job \in RunJobs, PollRun(c, job) PROVE Goal
  <2>1. RunnerTypes'
    BY <1>3 DEF PollRun, RunnerTypes, HandlerStates, RunExpectations, QueuedRuns
  <2>2. ExpiriesBounded'
    BY <1>3 DEF PollRun, RunnerTypes, ExpiriesBounded
  <2> QED
    BY <2>1, <2>2
<1>4. ASSUME NEW c \in RunHandlers, NEW told \in BrokerAnswers, BrokerAnswered(c, told)
      PROVE Goal
  <2>1. told \in RunAnswers
    BY AnswersTyped
  <2>2. handling[c].expected \in RunExpectations /\ handling[c].phase = "asked"
    BY <1>4 DEF BrokerAnswered, RunnerTypes, HandlerStates, NoCallYet
  <2>3. PICK there \in HandlerStates : GoesOn(c, there) /\ HandlerBounded(there)
    <3>1. CASE ValidAnswer(told, handling[c].expected)
      <4>1. [phase |-> "storing", answer |-> told] \in HandlerStates
        BY <2>1 DEF HandlerStates
      <4>2. /\ handling[c].expected.request \in DOMAIN issued
            /\ handling[c].expected.maximumExpiry <= issued[handling[c].expected.request]
            /\ issued[handling[c].expected.request] \in Int
        BY <2>2 DEF ExpiriesBounded, RunnerTypes
      <4>3. HandlerBounded([phase |-> "storing", answer |-> told])
        BY <2>1, <2>2, <3>1, <4>2, AnswerBounded
      <4> QED
        BY <1>4, <3>1, <4>1, <4>3 DEF BrokerAnswered
    <3>2. CASE ~ValidAnswer(told, handling[c].expected)
      <4>1. NoCallYet \in HandlerStates /\ HandlerBounded(NoCallYet)
        BY DEF HandlerStates, HandlerBounded, NoCallYet
      <4> QED
        BY <1>4, <3>2, <4>1 DEF BrokerAnswered
    <3> QED
      BY <3>1, <3>2
  <2>4. /\ handling' \in [RunHandlers -> HandlerStates]
        /\ handling'[c] = there
        /\ \A d \in RunHandlers : d # c => handling'[d] = handling[d]
    BY <2>3, HandlerGoesOn DEF RunnerTypes
  <2>5. UNCHANGED <<now, profiles, issued, jobs>>
    BY <1>4 DEF BrokerAnswered
  <2>6. RunnerTypes'
    BY <2>4, <2>5 DEF RunnerTypes
  <2>7. ExpiriesBounded'
    BY <2>3, <2>4, <2>5 DEF ExpiriesBounded, HandlerBounded
  <2> QED
    BY <2>6, <2>7
<1>5. ASSUME NEW c \in RunHandlers, BrokerLost(c) PROVE Goal
  BY <1>5 DEF BrokerLost, RunnerTypes, HandlerStates, ExpiriesBounded, NoCallYet
<1>6. ASSUME NEW c \in RunHandlers, StoreRunnerResult(c) PROVE Goal
  <2> DEFINE told == handling[c].answer
  <2>1. told \in RunAnswers
    BY <1>6 DEF StoreRunnerResult, RunnerTypes, HandlerStates, NoCallYet
  <2>2. handling' \in [RunHandlers -> HandlerStates]
    BY <1>6 DEF StoreRunnerResult, RunnerTypes, HandlerStates
  <2>3. UnexpiredJobs(jobs) \in [RunJobs -> {NoRun} \cup QueuedRuns]
    BY DEF UnexpiredJobs, RunnerTypes
  <2>4. told.state = "queued" =>
          [request |-> told.request, digest |-> told.digest, expires |-> told.expires]
            \in QueuedRuns
    BY <2>1 DEF RunAnswers, QueuedRuns
  <2>5. told.job \in RunJobs /\ told.state \in {"queued", "terminal"}
    BY <2>1 DEF RunAnswers
  <2> HIDE DEF told
  <2>6. /\ jobs' \in [RunJobs -> {NoRun} \cup QueuedRuns]
        /\ \A j \in RunJobs : jobs'[j] # NoRun =>
             \/ jobs'[j] = jobs[j]
             \/ /\ told.state = "queued"
                /\ jobs'[j] = [request |-> told.request, digest |-> told.digest,
                               expires |-> told.expires]
    <3>1. CASE told.state = "terminal"
      <4>1. jobs' = [jobs EXCEPT ![told.job] = NoRun]
        BY <1>6, <3>1 DEF StoreRunnerResult, told
      <4> QED
        BY <4>1, <2>5 DEF RunnerTypes
    <3>2. CASE told.state = "queued"
      <4>1. \/ jobs' = UnexpiredJobs(jobs)
            \/ jobs' = [UnexpiredJobs(jobs) EXCEPT ![told.job] =
                 [request |-> told.request, digest |-> told.digest,
                  expires |-> told.expires]]
        BY <1>6, <3>2 DEF StoreRunnerResult, told
      <4>2. \A j \in RunJobs : UnexpiredJobs(jobs)[j] \in {NoRun, jobs[j]}
        BY DEF UnexpiredJobs
      <4> QED
        BY <2>3, <2>4, <2>5, <3>2, <4>1, <4>2
    <3> QED
      BY <2>5, <3>1, <3>2
  <2>7. RunnerTypes'
    BY <1>6, <2>2, <2>6 DEF StoreRunnerResult, RunnerTypes
  <2>8. ExpiriesBounded'
    <3>1. told.state = "queued" =>
            told.request \in DOMAIN issued /\ told.expires <= issued[told.request]
      BY <1>6 DEF StoreRunnerResult, ExpiriesBounded, told
    <3>2. issued' = issued /\ handling' = [handling EXCEPT ![c] = NoCallYet]
      BY <1>6 DEF StoreRunnerResult
    <3> QED
      BY <2>6, <3>1, <3>2 DEF RunnerTypes, ExpiriesBounded, NoCallYet
  <2> QED
    BY <2>7, <2>8
<1>7. CASE RunnerInstantPasses \/ UNCHANGED runnerVars
  BY <1>7 DEF RunnerInstantPasses, runnerVars, RunnerTypes, ExpiriesBounded
<1> QED
  BY <1>1, <1>2, <1>3, <1>4, <1>5, <1>6, <1>7 DEF RunnerNext

\* store_runner_result drops the expired jobs before it counts: all the jobs
\* that leave no room are alive.
LEMMA RefusedKept ==
  ASSUME RefusedOnlyWhenFull, [RunnerNext]_runnerVars PROVE RefusedOnlyWhenFull'
<1> USE DEF RefusedOnlyWhenFull
<1>1. ASSUME NEW c \in RunHandlers, StoreRunnerResult(c) PROVE RefusedOnlyWhenFull'
  <2>1. CASE refused' = NoRun
    BY <2>1
  <2>2. CASE refused' # NoRun
    <3>1. /\ jobs' = UnexpiredJobs(jobs)
          /\ now' = now
          /\ Cardinality(Tracked(UnexpiredJobs(jobs))) >= MaxTracked
      BY <1>1, <2>2 DEF StoreRunnerResult
    <3>2. {j \in Tracked(jobs') : jobs'[j].expires > now'} = Tracked(UnexpiredJobs(jobs))
      BY <3>1 DEF Tracked, UnexpiredJobs
    <3> QED
      BY <3>1, <3>2
  <2> QED
    BY <2>1, <2>2
<1>2. CASE RunnerInstantPasses
  BY <1>2 DEF RunnerInstantPasses
<1>3. CASE UNCHANGED <<jobs, now, refused>>
  BY <1>3 DEF Tracked
<1> QED
  BY <1>1, <1>2, <1>3
     DEF RunnerNext, SubmitRun, RunnerReadiness, PollRun, BrokerAnswered, BrokerLost, runnerVars

\* For any number of jobs and handlers, and a broker that answers anything: a
\* job is tracked no longer than its request was allowed to run, and room is
\* refused only while MaxTracked jobs are alive.
THEOREM RunsAreTracked == Spec => []RunsTracked
<1>1. Init => RunnerInv
  BY InitRunner DEF Init
<1>2. RunnerInv /\ [Next]_servicesVars => RunnerInv'
  BY ServiceSteps, RunnerKept, RefusedKept DEF RunnerInv
<1>3. RunnerInv => RunsTracked
  BY DEF RunnerInv, ExpiriesBounded, RunsTracked, ExpiryNeverExtended, Tracked
<1> QED
  BY <1>1, <1>2, <1>3, PTL DEF Spec

---------------------------------------------------------------------------
(* The access key. *)

Exchanges ==
  {NoExchange}
    \cup [phase : {"permitted", "counting", "verifying"}, server : Servers, key : Keys,
          gone : BOOLEAN]
Windows == [count : Nat, expires : Nat]

KeyTypes ==
  /\ time \in Nat
  /\ permits \in [Servers -> Int]
  /\ exchanges \in [Browsers -> Exchanges]
  /\ windows \in [Keys -> {NoWindow} \cup Windows]
  /\ hashed \in [Keys -> Nat]

\* The exchanges that hold a slot of server s.
Busy(s) == {b \in Browsers : ~Exchange(b, "none") /\ exchanges[b].server = s}

\* The count in Redis is at least the number of verifications it let pass, and
\* a key without a window has had none.
WindowsCount ==
  \A k \in Keys :
    /\ windows[k] = NoWindow => hashed[k] = 0
    /\ windows[k] # NoWindow => hashed[k] <= windows[k].count

\* The inductive invariant of the access key.
KeyInv == KeyTypes /\ WindowsCount /\ VerificationsBounded /\ VerificationSlotsKept

\* Nothing has been counted and all slots are free when the servers start.
LEMMA InitKey == SignInInit => KeyInv
<1> SUFFICES ASSUME SignInInit PROVE KeyInv
  OBVIOUS
<1> USE SignInAssumption, LimiterAssumption DEF SignInInit
<1>1. KeyTypes
  BY DEF KeyTypes, Exchanges
<1>2. WindowsCount /\ VerificationsBounded
  BY DEF WindowsCount, VerificationsBounded
<1>3. \A s \in Servers : Busy(s) = {}
  BY DEF Busy, Exchange, NoExchange
<1>4. VerificationSlotsKept
  <2>1. ASSUME NEW s \in Servers PROVE permits[s] + Cardinality(Busy(s)) = VerificationSlots
    <3>1. permits[s] = VerificationSlots /\ Busy(s) = {} /\ Cardinality({}) = 0
      BY <1>3, FS_EmptySet
    <3> QED
      BY <3>1
  <2> QED
    BY <2>1 DEF VerificationSlotsKept, Busy
<1> QED
  BY <1>1, <1>2, <1>4 DEF KeyInv

\* One browser more or less holds a slot.
LEMMA BusyCounted ==
  ASSUME NEW s \in Servers, NEW b \in Browsers
  PROVE  /\ Cardinality(Busy(s)) \in Nat
         /\ b \notin Busy(s) => Cardinality(Busy(s) \cup {b}) = Cardinality(Busy(s)) + 1
         /\ b \in Busy(s) => Cardinality(Busy(s) \ {b}) = Cardinality(Busy(s)) - 1
<1>1. IsFiniteSet(Busy(s))
  BY SignInAssumption, FS_Subset DEF Busy
<1> QED
  BY <1>1, FS_AddElement, FS_RemoveElement, FS_CardinalityType

\* A permit goes with the exchange that owned it.
LEMMA ReleaseKeeps ==
  ASSUME KeyTypes, VerificationSlotsKept, NEW b \in Browsers, ~Exchange(b, "none"), Release(b)
  PROVE  /\ permits' \in [Servers -> Int]
         /\ exchanges' \in [Browsers -> Exchanges]
         /\ VerificationSlotsKept'
<1> DEFINE s == exchanges[b].server
<1>1. s \in Servers
  BY DEF KeyTypes, Exchanges, Exchange, NoExchange
<1>2. b \in Busy(s)
  BY DEF Busy
<1>3. exchanges' = [exchanges EXCEPT ![b] = NoExchange] /\ permits' = [permits EXCEPT ![s] = @ + 1]
  BY DEF Release
<1>4. permits' \in [Servers -> Int] /\ exchanges' \in [Browsers -> Exchanges]
  BY <1>1, <1>3 DEF KeyTypes, Exchanges
<1>5. \A r \in Servers : Busy(r)' = IF r = s THEN Busy(r) \ {b} ELSE Busy(r)
  BY <1>3 DEF Busy, Exchange, NoExchange, KeyTypes
<1> HIDE DEF s
<1>6. \A r \in Servers : permits'[r] = IF r = s THEN permits[r] + 1 ELSE permits[r]
  BY <1>3 DEF KeyTypes
<1>7. ASSUME NEW r \in Servers PROVE permits'[r] + Cardinality(Busy(r)') = VerificationSlots
  <2>1. permits[r] \in Int /\ permits[r] + Cardinality(Busy(r)) = VerificationSlots
    BY DEF KeyTypes, VerificationSlotsKept, Busy
  <2>2. Cardinality(Busy(r)) \in Nat
    BY BusyCounted
  <2>3. r = s => Cardinality(Busy(r) \ {b}) = Cardinality(Busy(r)) - 1
    BY <1>2, BusyCounted
  <2>4. CASE r = s
    <3>1. permits'[r] = permits[r] + 1 /\ Busy(r)' = Busy(r) \ {b}
      BY <1>5, <1>6, <2>4
    <3> QED
      BY <2>1, <2>2, <2>3, <2>4, <3>1
  <2>5. CASE r # s
    BY <1>5, <1>6, <2>1, <2>5
  <2> QED
    BY <2>4, <2>5
<1> QED
  BY <1>4, <1>7 DEF VerificationSlotsKept, Busy

\* An exchange that goes on keeps its slot.
LEMMA ProceedKeeps ==
  ASSUME KeyTypes, VerificationSlotsKept, NEW b \in Browsers, ~Exchange(b, "none"),
         NEW phase \in {"counting", "verifying"}, NEW gone \in BOOLEAN,
         exchanges' = [exchanges EXCEPT ![b] =
           [phase |-> phase, server |-> exchanges[b].server, key |-> exchanges[b].key,
            gone |-> gone]],
         UNCHANGED permits
  PROVE  /\ exchanges' \in [Browsers -> Exchanges]
         /\ VerificationSlotsKept'
<1>1. exchanges[b].server \in Servers /\ exchanges[b].key \in Keys
  BY DEF KeyTypes, Exchanges, Exchange, NoExchange
<1>2. [phase |-> phase, server |-> exchanges[b].server, key |-> exchanges[b].key,
       gone |-> gone] \in Exchanges
  BY <1>1 DEF Exchanges
<1>3. exchanges' \in [Browsers -> Exchanges]
  BY <1>2 DEF KeyTypes
<1>4. \A r \in Servers : Busy(r)' = Busy(r)
  BY DEF Busy, Exchange, KeyTypes
<1>5. ASSUME NEW r \in Servers PROVE permits'[r] + Cardinality(Busy(r)') = VerificationSlots
  BY <1>4 DEF VerificationSlotsKept, Busy
<1> QED
  BY <1>3, <1>5 DEF VerificationSlotsKept, Busy

\* An exchange is a record whose phase, or whether its browser is gone, changes.
LEMMA ExchangeRecord ==
  ASSUME KeyTypes, NEW b \in Browsers, ~Exchange(b, "none")
  PROVE  /\ exchanges[b].gone \in BOOLEAN
         /\ exchanges[b].phase \in {"permitted", "counting", "verifying"}
         /\ \A phase \in {"counting", "verifying"} : Proceed(b, phase) =>
              exchanges' = [exchanges EXCEPT ![b] =
                [phase |-> phase, server |-> exchanges[b].server, key |-> exchanges[b].key,
                 gone |-> exchanges[b].gone]]
         /\ exchanges' = [exchanges EXCEPT ![b].gone = TRUE] =>
              exchanges' = [exchanges EXCEPT ![b] =
                [phase |-> exchanges[b].phase, server |-> exchanges[b].server,
                 key |-> exchanges[b].key, gone |-> TRUE]]
<1>1. exchanges[b] \in [phase : {"permitted", "counting", "verifying"}, server : Servers,
                        key : Keys, gone : BOOLEAN]
  BY DEF KeyTypes, Exchanges, Exchange, NoExchange
<1>2. \A phase : [exchanges[b] EXCEPT !.phase = phase] =
        [phase |-> phase, server |-> exchanges[b].server, key |-> exchanges[b].key,
         gone |-> exchanges[b].gone]
  BY <1>1
<1>3. [exchanges[b] EXCEPT !.gone = TRUE] =
        [phase |-> exchanges[b].phase, server |-> exchanges[b].server,
         key |-> exchanges[b].key, gone |-> TRUE]
  <2>1. \A gone : [exchanges[b] EXCEPT !.gone = gone] =
          [phase |-> exchanges[b].phase, server |-> exchanges[b].server,
           key |-> exchanges[b].key, gone |-> gone]
    BY <1>1
  <2> QED
    BY <2>1, Zenon
<1>4. exchanges[b].gone \in BOOLEAN
  BY <1>1
<1>5. exchanges[b].phase \in {"permitted", "counting", "verifying"}
  BY <1>1
<1>6. \A phase : [exchanges EXCEPT ![b].phase = phase] =
        [exchanges EXCEPT ![b] = [exchanges[b] EXCEPT !.phase = phase]]
  BY DEF KeyTypes
<1>7. [exchanges EXCEPT ![b].gone = TRUE] =
        [exchanges EXCEPT ![b] = [exchanges[b] EXCEPT !.gone = TRUE]]
  BY DEF KeyTypes
<1> QED
  BY <1>2, <1>3, <1>4, <1>5, <1>6, <1>7 DEF Proceed

\* What FIXED_WINDOW_LIMIT_SCRIPT leaves.
LEMMA CountedOnce ==
  ASSUME KeyTypes, NEW k \in Keys
  PROVE  /\ Counted(windows[k]) \in Windows
         /\ Counted(windows[k]) # NoWindow
         /\ Counted(windows[k]).count =
              IF windows[k] = NoWindow THEN 1 ELSE windows[k].count + 1
<1>1. CASE windows[k] = NoWindow
  BY <1>1, SignInAssumption, LimiterAssumption DEF Counted, Windows, KeyTypes
<1>2. CASE windows[k] # NoWindow
  <2>1. windows[k] \in Windows
    BY <1>2 DEF KeyTypes
  <2>2. Counted(windows[k]) = [count |-> windows[k].count + 1, expires |-> windows[k].expires]
    BY <1>2, <2>1 DEF Counted, Windows
  <2> QED
    BY <1>2, <2>1, <2>2, SignInAssumption DEF Windows
<1> QED
  BY <1>1, <1>2

\* Redis counts an attempt without a verification.
LEMMA CountKeeps ==
  ASSUME KeyInv, NEW k \in Keys, windows' = [windows EXCEPT ![k] = Counted(windows[k])],
         UNCHANGED hashed
  PROVE  windows' \in [Keys -> {NoWindow} \cup Windows] /\ WindowsCount'
<1>1. windows' \in [Keys -> {NoWindow} \cup Windows]
  BY CountedOnce DEF KeyInv, KeyTypes
<1>2. ASSUME NEW j \in Keys
      PROVE  /\ windows'[j] = NoWindow => hashed'[j] = 0
             /\ windows'[j] # NoWindow => hashed'[j] <= windows'[j].count
  <2>1. CASE j # k
    BY <2>1 DEF KeyInv, KeyTypes, WindowsCount
  <2>2. CASE j = k
    <3>1. windows'[k] = Counted(windows[k])
      BY DEF KeyInv, KeyTypes
    <3>2. hashed[k] \in Nat /\ (windows[k] # NoWindow => windows[k].count \in Nat)
      BY DEF KeyInv, KeyTypes, Windows
    <3> QED
      BY <2>2, <3>1, <3>2, CountedOnce DEF KeyInv, WindowsCount
  <2> QED
    BY <2>1, <2>2
<1> QED
  BY <1>1, <1>2 DEF WindowsCount

\* A step that counts nothing and keeps the slots keeps the invariant.
LEMMA NothingCounted ==
  ASSUME KeyInv, UNCHANGED <<time, windows, hashed>>,
         permits' \in [Servers -> Int], exchanges' \in [Browsers -> Exchanges],
         VerificationSlotsKept'
  PROVE  KeyInv'
  BY DEF KeyInv, KeyTypes, WindowsCount, VerificationsBounded

\* A new exchange takes a slot that is free.
LEMMA ExchangeTakesSlot ==
  ASSUME KeyInv, NEW b \in Browsers, NEW s \in Servers, NEW k \in Keys, ExchangeAccessKey(b, s, k)
  PROVE  KeyInv'
<1> DEFINE begun == [phase |-> "permitted", server |-> s, key |-> k, gone |-> FALSE]
<1>1. begun \in Exchanges
  BY DEF Exchanges
<1>2. begun.phase = "permitted" /\ begun.server = s
  OBVIOUS
<1>3. /\ exchanges[b].phase = "none"
      /\ exchanges' = [exchanges EXCEPT ![b] = begun]
      /\ permits' = [permits EXCEPT ![s] = @ - 1]
      /\ UNCHANGED <<time, windows, hashed>>
  BY DEF ExchangeAccessKey, Exchange
<1> HIDE DEF begun
<1>4. permits' \in [Servers -> Int] /\ exchanges' \in [Browsers -> Exchanges]
  BY <1>1, <1>3 DEF KeyInv, KeyTypes
<1>5. b \notin Busy(s) /\ \A r \in Servers : Busy(r)' = IF r = s THEN Busy(r) \cup {b} ELSE Busy(r)
  BY <1>2, <1>3 DEF Busy, Exchange, KeyInv, KeyTypes
<1>6. \A r \in Servers : permits'[r] = IF r = s THEN permits[r] - 1 ELSE permits[r]
  BY <1>3 DEF KeyInv, KeyTypes
<1>7. ASSUME NEW r \in Servers PROVE permits'[r] + Cardinality(Busy(r)') = VerificationSlots
  <2>1. permits[r] \in Int /\ permits[r] + Cardinality(Busy(r)) = VerificationSlots
    BY DEF KeyInv, KeyTypes, VerificationSlotsKept, Busy
  <2>2. /\ Cardinality(Busy(r)) \in Nat
        /\ r = s => Cardinality(Busy(r) \cup {b}) = Cardinality(Busy(r)) + 1
    BY <1>5, BusyCounted
  <2>3. CASE r = s
    <3>1. permits'[r] = permits[r] - 1 /\ Busy(r)' = Busy(r) \cup {b}
      BY <1>5, <1>6, <2>3
    <3> QED
      BY <2>1, <2>2, <2>3, <3>1
  <2>4. CASE r # s
    BY <1>5, <1>6, <2>1, <2>4
  <2> QED
    BY <2>3, <2>4
<1>8. VerificationSlotsKept'
  BY <1>7 DEF VerificationSlotsKept, Busy
<1> QED
  BY <1>3, <1>4, <1>8, NothingCounted

\* A restart frees all slots of the server, whose exchanges are gone.
LEMMA RestartFrees ==
  ASSUME KeyInv, NEW s \in Servers, NEW binding, RestartServer(s, binding)
  PROVE  KeyInv'
<1> USE SignInAssumption
<1>1. /\ permits' = [permits EXCEPT ![s] = VerificationSlots]
      /\ exchanges' = [b \in Browsers |->
           IF ~Exchange(b, "none") /\ exchanges[b].server = s THEN NoExchange ELSE exchanges[b]]
      /\ UNCHANGED <<time, windows, hashed>>
  BY DEF RestartServer
<1>2. permits' \in [Servers -> Int] /\ exchanges' \in [Browsers -> Exchanges]
  BY <1>1 DEF KeyInv, KeyTypes, Exchanges
<1>3. \A r \in Servers : Busy(r)' = IF r = s THEN {} ELSE Busy(r)
  BY <1>1 DEF Busy, Exchange, NoExchange
<1>4. ASSUME NEW r \in Servers PROVE permits'[r] + Cardinality(Busy(r)') = VerificationSlots
  <2>1. CASE r = s
    <3>1. permits'[r] = VerificationSlots /\ Busy(r)' = {} /\ Cardinality({}) = 0
      BY <1>1, <1>3, <2>1, FS_EmptySet DEF KeyInv, KeyTypes
    <3> QED
      BY <3>1
  <2>2. CASE r # s
    <3>1. permits'[r] = permits[r] /\ Busy(r)' = Busy(r)
      BY <1>1, <1>3, <2>2 DEF KeyInv, KeyTypes
    <3> QED
      BY <3>1 DEF KeyInv, VerificationSlotsKept, Busy
  <2> QED
    BY <2>1, <2>2
<1>5. VerificationSlotsKept'
  BY <1>4 DEF VerificationSlotsKept, Busy
<1> QED
  BY <1>1, <1>2, <1>5, NothingCounted

\* Redis lets an attempt pass only while its count allows it, and counts first.
LEMMA AdmittedCounted ==
  ASSUME KeyInv, NEW b \in Browsers, AdmitFixedWindow(b)
  PROVE  KeyInv'
<1> DEFINE k == exchanges[b].key
<1>1. ~Exchange(b, "none") /\ k \in Keys
  BY DEF AdmitFixedWindow, Exchange, KeyInv, KeyTypes, Exchanges, NoExchange
<1>2. windows' = [windows EXCEPT ![k] = Counted(windows[k])] /\ UNCHANGED time
  BY DEF AdmitFixedWindow
<1>3. CASE Counted(windows[k]).count <= AttemptsPerWindow
  <2>1. Proceed(b, "verifying") /\ hashed' = [hashed EXCEPT ![k] = @ + 1] /\ UNCHANGED permits
    BY <1>3 DEF AdmitFixedWindow
  <2>2. exchanges' \in [Browsers -> Exchanges] /\ VerificationSlotsKept'
    <3>1. exchanges' = [exchanges EXCEPT ![b] =
            [phase |-> "verifying", server |-> exchanges[b].server, key |-> exchanges[b].key,
             gone |-> exchanges[b].gone]]
      BY <1>1, <2>1, ExchangeRecord DEF KeyInv
    <3>2. exchanges[b].gone \in BOOLEAN
      BY <1>1, ExchangeRecord DEF KeyInv
    <3> QED
      BY <1>1, <2>1, <3>1, <3>2, ProceedKeeps, Zenon DEF KeyInv
  <2> HIDE DEF k
  <2>3. windows' \in [Keys -> {NoWindow} \cup Windows] /\ hashed' \in [Keys -> Nat]
    BY <1>1, <1>2, <2>1, CountedOnce DEF KeyInv, KeyTypes
  <2>4. ASSUME NEW j \in Keys
        PROVE  /\ windows'[j] = NoWindow => hashed'[j] = 0
               /\ windows'[j] # NoWindow => hashed'[j] <= windows'[j].count
               /\ hashed'[j] <= AttemptsPerWindow
    <3>1. CASE j # k
      BY <1>2, <2>1, <3>1 DEF KeyInv, KeyTypes, WindowsCount, VerificationsBounded
    <3>2. CASE j = k
      <4>1. windows'[k] = Counted(windows[k]) /\ hashed'[k] = hashed[k] + 1
        BY <1>1, <1>2, <2>1 DEF KeyInv, KeyTypes
      <4>2. hashed[k] \in Nat /\ (windows[k] # NoWindow => windows[k].count \in Nat)
        BY <1>1 DEF KeyInv, KeyTypes, Windows
      <4>3. hashed[k] + 1 <= Counted(windows[k]).count
        BY <1>1, <4>2, CountedOnce DEF KeyInv, WindowsCount
      <4>4. Counted(windows[k]) # NoWindow /\ Counted(windows[k]).count \in Nat
        BY <1>1, <4>2, CountedOnce DEF KeyInv
      <4> QED
        BY <1>3, <3>2, <4>1, <4>2, <4>3, <4>4, LimiterAssumption
    <3> QED
      BY <3>1, <3>2
  <2> QED
    BY <1>2, <2>1, <2>2, <2>3, <2>4 DEF KeyInv, KeyTypes, WindowsCount, VerificationsBounded
<1>4. CASE ~(Counted(windows[k]).count <= AttemptsPerWindow)
  <2>1. Release(b) /\ UNCHANGED hashed
    BY <1>4 DEF AdmitFixedWindow
  <2>2. /\ permits' \in [Servers -> Int] /\ exchanges' \in [Browsers -> Exchanges]
        /\ VerificationSlotsKept'
    BY <1>1, <2>1, ReleaseKeeps DEF KeyInv
  <2>3. windows' \in [Keys -> {NoWindow} \cup Windows] /\ WindowsCount'
    BY <1>1, <1>2, <2>1, CountKeeps
  <2> QED
    BY <1>2, <2>1, <2>2, <2>3 DEF KeyInv, KeyTypes, VerificationsBounded
<1> QED
  BY <1>3, <1>4

\* Without an answer of Redis nothing is verified, counted or not.
LEMMA SilenceFailsClosed ==
  ASSUME KeyInv, NEW b \in Browsers, NEW counted \in BOOLEAN, RedisSilent(b, counted)
  PROVE  KeyInv'
<1>1. ~Exchange(b, "none") /\ exchanges[b].key \in Keys
  BY DEF RedisSilent, Exchange, KeyInv, KeyTypes, Exchanges, NoExchange
<1>2. Release(b) /\ UNCHANGED <<time, hashed>>
  BY DEF RedisSilent
<1>3. /\ permits' \in [Servers -> Int] /\ exchanges' \in [Browsers -> Exchanges]
      /\ VerificationSlotsKept'
  BY <1>1, <1>2, ReleaseKeeps DEF KeyInv
<1>4. CASE counted
  <2>1. windows' = [windows EXCEPT ![exchanges[b].key] = Counted(windows[exchanges[b].key])]
    BY <1>4 DEF RedisSilent
  <2>2. windows' \in [Keys -> {NoWindow} \cup Windows] /\ WindowsCount'
    BY <1>1, <1>2, <2>1, CountKeeps
  <2> QED
    BY <1>2, <1>3, <2>2 DEF KeyInv, KeyTypes, VerificationsBounded
<1>5. CASE ~counted
  BY <1>2, <1>3, <1>5, NothingCounted DEF RedisSilent
<1> QED
  BY <1>4, <1>5

\* Each step of an exchange, of the OpenID flow beside it, of time and of the
\* servers keeps the invariant.
LEMMA StepKey ==
  ASSUME KeyInv, [SignInStep]_signInVars PROVE KeyInv'
<1>1. ASSUME NEW b \in Browsers, RateLimitAccessKey(b) PROVE KeyInv'
  <2>1. ~Exchange(b, "none") /\ UNCHANGED <<time, windows, hashed>>
    BY <1>1 DEF RateLimitAccessKey, Exchange
  <2>2. CASE Release(b)
    BY <2>1, <2>2, ReleaseKeeps, NothingCounted DEF KeyInv
  <2>3. CASE Proceed(b, "counting") /\ UNCHANGED permits
    <3>1. exchanges' = [exchanges EXCEPT ![b] =
            [phase |-> "counting", server |-> exchanges[b].server, key |-> exchanges[b].key,
             gone |-> exchanges[b].gone]]
      BY <2>1, <2>3, ExchangeRecord DEF KeyInv
    <3>2. exchanges[b].gone \in BOOLEAN
      BY <2>1, ExchangeRecord DEF KeyInv
    <3>3. exchanges' \in [Browsers -> Exchanges] /\ VerificationSlotsKept'
      BY <2>1, <2>3, <3>1, <3>2, ProceedKeeps, Zenon DEF KeyInv
    <3> QED
      BY <2>1, <2>3, <3>3, NothingCounted DEF KeyInv, KeyTypes
  <2> QED
    BY <1>1, <2>2, <2>3 DEF RateLimitAccessKey
<1>2. ASSUME NEW b \in Browsers, KeyVerified(b) PROVE KeyInv'
  <2>1. ~Exchange(b, "none") /\ UNCHANGED <<time, windows, hashed>> /\ Release(b)
    BY <1>2 DEF KeyVerified, Exchange
  <2> QED
    BY <2>1, ReleaseKeeps, NothingCounted DEF KeyInv
<1>6. ASSUME NEW e, NEW gone, ForgetAttempts(e, gone) PROVE KeyInv'
  <2>1. UNCHANGED <<time, permits, exchanges, windows, hashed>>
    BY <1>6 DEF ForgetAttempts
  <2>2. VerificationSlotsKept'
    BY <2>1 DEF KeyInv, VerificationSlotsKept, Exchange
  <2> QED
    BY <2>1, <2>2, NothingCounted DEF KeyInv, KeyTypes
<1>3. ASSUME NEW b \in Browsers, BrowserGone(b) PROVE KeyInv'
  <2>1. ~Exchange(b, "none") /\ UNCHANGED <<time, windows, hashed>>
    BY <1>3 DEF BrowserGone, Exchange
  <2>2. CASE Release(b)
    BY <2>1, <2>2, ReleaseKeeps, NothingCounted DEF KeyInv
  <2>3. CASE /\ Exchange(b, "verifying")
             /\ exchanges' = [exchanges EXCEPT ![b].gone = TRUE]
             /\ UNCHANGED permits
    <3>1. exchanges' = [exchanges EXCEPT ![b] =
            [phase |-> "verifying", server |-> exchanges[b].server, key |-> exchanges[b].key,
             gone |-> TRUE]]
      BY <2>1, <2>3, ExchangeRecord, Zenon DEF KeyInv, Exchange
    <3>2. exchanges' \in [Browsers -> Exchanges] /\ VerificationSlotsKept'
      BY <2>1, <2>3, <3>1, ProceedKeeps, Zenon DEF KeyInv
    <3> QED
      BY <2>1, <2>3, <3>2, NothingCounted DEF KeyInv, KeyTypes
  <2> QED
    BY <1>3, <2>2, <2>3 DEF BrowserGone
<1>4. CASE ExternalNext \/ UNCHANGED signInVars
  <2>1. UNCHANGED <<time, permits, exchanges, windows, hashed>>
    BY <1>4 DEF ExternalNext, StartExternal, FinishExternal, ProviderAuthorises, CodeExchanged,
                keyVars, signInVars
  <2>2. VerificationSlotsKept'
    BY <2>1 DEF KeyInv, VerificationSlotsKept, Exchange
  <2> QED
    BY <2>1, <2>2, NothingCounted DEF KeyInv, KeyTypes
<1>5. CASE SignInInstantPasses
  <2>1. UNCHANGED <<permits, exchanges>> /\ time' \in Nat
    BY <1>5 DEF SignInInstantPasses, KeyInv, KeyTypes
  <2>2. VerificationSlotsKept'
    BY <2>1 DEF KeyInv, VerificationSlotsKept, Exchange
  <2>3. /\ windows' \in [Keys -> {NoWindow} \cup Windows]
        /\ hashed' \in [Keys -> Nat]
        /\ \A k \in Keys : \/ windows'[k] = NoWindow /\ hashed'[k] = 0
                           \/ windows'[k] = windows[k] /\ hashed'[k] = hashed[k]
    BY <1>5 DEF SignInInstantPasses, KeyInv, KeyTypes
  <2>4. WindowsCount' /\ VerificationsBounded'
    BY <2>3, LimiterAssumption DEF KeyInv, WindowsCount, VerificationsBounded
  <2> QED
    BY <2>1, <2>2, <2>3, <2>4 DEF KeyInv, KeyTypes
<1> QED
  BY <1>1, <1>2, <1>3, <1>4, <1>5, <1>6, ExchangeTakesSlot, AdmittedCounted, SilenceFailsClosed,
     RestartFrees
     DEF SignInStep, AccessKeyNext

\* For any number of servers, browsers and keys, with restarts, lost answers
\* of Redis and disconnects: a key is verified at most AttemptsPerWindow times
\* in a window, and every server keeps its slots.
THEOREM VerificationsStayLimited == Spec => []VerificationsLimited
<1>1. Init => KeyInv
  BY InitKey DEF Init
<1>2. KeyInv /\ [Next]_servicesVars => KeyInv'
  BY ServiceSteps, StepKey
<1>3. KeyInv => VerificationsLimited
  BY DEF KeyInv, VerificationsLimited
<1> QED
  BY <1>1, <1>2, <1>3, PTL DEF Spec

---------------------------------------------------------------------------
(* OpenID Connect. *)

FlowsNumbered ==
  \E n \in Nat : DOMAIN started = 1..n

BrowserState ==
  /\ DOMAIN bindings = Servers
  /\ DOMAIN cookies = Browsers
  /\ DOMAIN finishing = Browsers

\* A cookie is of a flow that its browser started, with its instant and binding.
CookiesKnow ==
  \A b \in Browsers : cookies[b] # NoCookie =>
    LET cookie == cookies[b] IN
    /\ cookie.flow \in DOMAIN started
    /\ started[cookie.flow].browser = b
    /\ started[cookie.flow].at = cookie.issued
    /\ started[cookie.flow].binding = cookie.binding

\* A callback under way has passed decode_oidc_browser_state: its flow was begun
\* by its browser, in time and under the binding its server still has, because
\* a restart would have ended it.
CallbacksKnow ==
  \A b \in Browsers : finishing[b] # NoSignIn =>
    LET f == finishing[b] IN
    /\ f.server \in Servers
    /\ f.flow \in DOMAIN started
    /\ f.named = f.flow
    /\ started[f.flow].browser = b
    /\ started[f.flow].binding = bindings[f.server]
    /\ f.checked - started[f.flow].at <= StateLifetime

\* The inductive invariant of the flows.
FlowInv ==
  /\ FlowsNumbered
  /\ BrowserState
  /\ CookiesKnow
  /\ CallbacksKnow
  /\ \A g \in grants : g.code \in DOMAIN started
  /\ GrantsFollowOwnFlow

\* No flow has been started when the servers start.
LEMMA InitFlow == SignInInit => FlowInv
<1> SUFFICES ASSUME SignInInit PROVE FlowInv
  OBVIOUS
<1>1. DOMAIN started = 1..0
  BY DEF SignInInit
<1>2. FlowsNumbered
  BY <1>1 DEF FlowsNumbered
<1> QED
  BY <1>2 DEF SignInInit, FlowInv, BrowserState, CookiesKnow, CallbacksKnow, GrantsFollowOwnFlow

\* start_external makes a new flow; those before stay as they were.
LEMMA FlowsGrow ==
  ASSUME FlowsNumbered, NEW b \in Browsers, NEW s \in Servers, StartExternal(b, s)
  PROVE  /\ FlowsNumbered'
         /\ \A f \in DOMAIN started : f \in DOMAIN started' /\ started'[f] = started[f]
         /\ \E flow \in DOMAIN started' :
              /\ started'[flow] = [browser |-> b, at |-> time, binding |-> bindings[s]]
              /\ cookies' = [cookies EXCEPT ![b] =
                   [flow |-> flow, issued |-> time, binding |-> bindings[s]]]
<1>1. PICK n \in Nat : DOMAIN started = 1..n
  BY DEF FlowsNumbered
<1>2. Cardinality(DOMAIN started) = n
  BY <1>1, FS_Interval
<1>3. /\ started' = [f \in 1..(n + 1) |->
           IF f = n + 1 THEN [browser |-> b, at |-> time, binding |-> bindings[s]]
           ELSE started[f]]
      /\ cookies' = [cookies EXCEPT ![b] =
           [flow |-> n + 1, issued |-> time, binding |-> bindings[s]]]
  BY <1>2 DEF StartExternal
<1>4. n + 1 \in Nat /\ DOMAIN started' = 1..(n + 1)
  BY <1>3
<1>5. FlowsNumbered'
  BY <1>4 DEF FlowsNumbered
<1>6. \A f \in DOMAIN started : f \in DOMAIN started' /\ started'[f] = started[f]
  BY <1>1, <1>3
<1>7. n + 1 \in DOMAIN started' /\
      started'[n + 1] = [browser |-> b, at |-> time, binding |-> bindings[s]]
  BY <1>3, <1>4
<1> QED
  BY <1>3, <1>5, <1>6, <1>7

\* Each step of a flow, of the access key beside it, of time and of the servers
\* keeps the invariant.
LEMMA StepFlow ==
  ASSUME FlowInv, [SignInStep]_signInVars PROVE FlowInv'
<1>1. ASSUME NEW b \in Browsers, NEW s \in Servers, StartExternal(b, s) PROVE FlowInv'
  <2>1. PICK flow \in DOMAIN started' :
          /\ started'[flow] = [browser |-> b, at |-> time, binding |-> bindings[s]]
          /\ cookies' = [cookies EXCEPT ![b] =
               [flow |-> flow, issued |-> time, binding |-> bindings[s]]]
    BY <1>1, FlowsGrow DEF FlowInv
  <2>2. /\ FlowsNumbered'
        /\ \A f \in DOMAIN started : f \in DOMAIN started' /\ started'[f] = started[f]
    BY <1>1, FlowsGrow DEF FlowInv
  <2>3. UNCHANGED <<bindings, finishing, grants>>
    BY <1>1 DEF StartExternal
  <2>4. BrowserState' /\ CookiesKnow'
    BY <2>1, <2>2, <2>3 DEF FlowInv, BrowserState, CookiesKnow
  <2>5. CallbacksKnow'
    BY <2>2, <2>3 DEF FlowInv, CallbacksKnow
  <2> QED
    BY <2>2, <2>3, <2>4, <2>5 DEF FlowInv, GrantsFollowOwnFlow
<1>2. ASSUME NEW b \in Browsers, NEW s \in Servers, NEW flow, NEW code,
             FinishExternal(b, s, flow, code)
      PROVE FlowInv'
  <2>1. /\ finishing' = [finishing EXCEPT ![b] =
             [server |-> s, code |-> code, named |-> flow, flow |-> cookies[b].flow, checked |-> time]]
        /\ cookies[b] # NoCookie
        /\ cookies[b].flow = flow
        /\ cookies[b].binding = bindings[s]
        /\ time - cookies[b].issued <= StateLifetime
        /\ UNCHANGED <<bindings, started, cookies, grants>>
    BY <1>2 DEF FinishExternal, DecodeBrowserState
  <2>2. CallbacksKnow'
    BY <2>1 DEF FlowInv, BrowserState, CookiesKnow, CallbacksKnow
  <2> QED
    BY <2>1, <2>2
       DEF FlowInv, FlowsNumbered, BrowserState, CookiesKnow, GrantsFollowOwnFlow
<1>3. ASSUME NEW flow, NEW owner, ProviderAuthorises(flow, owner) PROVE FlowInv'
  BY <1>3 DEF ProviderAuthorises, FlowInv, FlowsNumbered, BrowserState, CookiesKnow,
              CallbacksKnow, GrantsFollowOwnFlow
<1>4. ASSUME NEW b \in Browsers, CodeExchanged(b) PROVE FlowInv'
  <2>1. /\ finishing[b] # NoSignIn
        /\ finishing' = [finishing EXCEPT ![b] = NoSignIn]
        /\ UNCHANGED <<bindings, started>>
        /\ cookies' \in {cookies, [cookies EXCEPT ![b] = NoCookie]}
    BY <1>4 DEF CodeExchanged
  <2>2. grants' \subseteq grants \cup
          {[browser |-> b, code |-> finishing[b].flow, named |-> finishing[b].named,
            binding |-> bindings[finishing[b].server], checked |-> finishing[b].checked]}
    BY <1>4 DEF CodeExchanged, TakesCode
  <2>3. FlowsNumbered' /\ BrowserState' /\ CookiesKnow'
    BY <2>1 DEF FlowInv, FlowsNumbered, BrowserState, CookiesKnow
  <2>4. CallbacksKnow'
    BY <2>1 DEF FlowInv, BrowserState, CallbacksKnow
  <2>5. ASSUME NEW g \in grants'
        PROVE  /\ g.code \in DOMAIN started
               /\ g.named = g.code
               /\ started[g.code].browser = g.browser
               /\ started[g.code].binding = g.binding
               /\ g.checked - started[g.code].at <= StateLifetime
    BY <2>1, <2>2 DEF FlowInv, CallbacksKnow, GrantsFollowOwnFlow
  <2> QED
    BY <2>1, <2>3, <2>4, <2>5 DEF FlowInv, GrantsFollowOwnFlow
<1>5. ASSUME NEW s \in Servers, NEW binding, RestartServer(s, binding) PROVE FlowInv'
  <2>1. /\ bindings' = [bindings EXCEPT ![s] = binding]
        /\ finishing' = [b \in Browsers |->
             IF finishing[b] # NoSignIn /\ finishing[b].server = s THEN NoSignIn ELSE finishing[b]]
        /\ UNCHANGED <<started, cookies, grants>>
    BY <1>5 DEF RestartServer
  <2>2. CallbacksKnow'
    BY <2>1 DEF FlowInv, BrowserState, CallbacksKnow
  <2> QED
    BY <2>1, <2>2 DEF FlowInv, FlowsNumbered, BrowserState, CookiesKnow, GrantsFollowOwnFlow
<1>6. CASE UNCHANGED externalVars
  BY <1>6 DEF externalVars, FlowInv, FlowsNumbered, BrowserState, CookiesKnow,
              CallbacksKnow, GrantsFollowOwnFlow
<1>7. AccessKeyNext \/ SignInInstantPasses \/ UNCHANGED signInVars => UNCHANGED externalVars
  BY DEF AccessKeyNext, ExchangeAccessKey, RateLimitAccessKey, AdmitFixedWindow, RedisSilent,
         KeyVerified, ForgetAttempts, BrowserGone, SignInInstantPasses, signInVars
<1> QED
  BY <1>1, <1>2, <1>3, <1>4, <1>5, <1>6, <1>7 DEF SignInStep, ExternalNext

\* For any number of browsers, tabs, servers, flows and codes: a session of an
\* external sign-in comes from a code of the flow its callback named, and its
\* browser began that flow, in time and under the binding of the server.
THEOREM GrantsFollow == Spec => []GrantsFollowOwnFlow
<1>1. Init => FlowInv
  BY InitFlow DEF Init
<1>2. FlowInv /\ [Next]_servicesVars => FlowInv'
  BY ServiceSteps, StepFlow
<1>3. FlowInv => GrantsFollowOwnFlow
  BY DEF FlowInv
<1> QED
  BY <1>1, <1>2, <1>3, PTL DEF Spec

---------------------------------------------------------------------------
(* The MCP adapter. *)

\* The commands parse_command knows.
LEMMA CommandsAre ==
  ASSUME NEW call \in ToolCalls
  PROVE  /\ Command("list_published", FALSE) \in ContentCommands
         /\ Command("list_all", TRUE) \in ContentCommands
         /\ Command("read_published", FALSE) \in ContentCommands
         /\ Command("read_document", TRUE) \in ContentCommands
         /\ Command("create", TRUE) \in ContentCommands
         /\ Command("publish", TRUE) \in ContentCommands
         /\ [kind |-> "revise", authenticated |-> TRUE, key |-> call.key, base |-> call.base]
              \in ContentCommands
  BY DEF Command, ContentCommands

\* What parse_command makes of a call is a command or nothing, and a command
\* that carries the token is one of write mode.
LEMMA CommandsTyped ==
  ASSUME NEW call \in ToolCalls, NEW mode
  PROVE  /\ ParseCommand(call, mode) \in {Nothing} \cup ContentCommands
         /\ ParseCommand(call, mode) # Nothing /\ ParseCommand(call, mode).authenticated =>
              mode = "write"
<1>1. ~Command("list_published", FALSE).authenticated /\ ~Command("read_published", FALSE).authenticated
  BY DEF Command
<1>2. \/ ParseCommand(call, mode) \in
           {Nothing, Command("list_published", FALSE), Command("read_published", FALSE)}
      \/ /\ mode = "write"
         /\ ParseCommand(call, mode) \in
              {Command("list_all", TRUE), Command("read_document", TRUE), Command("create", TRUE),
               Command("publish", TRUE),
               [kind |-> "revise", authenticated |-> TRUE, key |-> call.key, base |-> call.base]}
  <2>1. CASE call.tool = "osb_content_list"
    BY <2>1 DEF ParseCommand, ListCommand
  <2>2. CASE call.tool = "osb_content_read"
    BY <2>2 DEF ParseCommand, ReadCommand
  <2>3. CASE call.tool \notin {"osb_content_list", "osb_content_read"}
    BY <2>3 DEF ParseCommand, WriteCommand
  <2> QED
    BY <2>1, <2>2, <2>3
<1> QED
  BY <1>1, <1>2, CommandsAre

\* A set with one of two names.
LEMMA OneOfTwo ==
  ASSUME NEW S, NEW a, NEW b, a # b
  PROVE  Cardinality(S \cap {a, b}) = 1 <=> S \cap {a, b} \in {{a}, {b}}
<1>1. S \cap {a, b} \in {{}, {a}, {b}, {a, b}}
  OBVIOUS
<1>2. Cardinality({}) = 0 /\ Cardinality({a}) = 1 /\ Cardinality({b}) = 1
  BY FS_EmptySet, FS_Singleton
<1>3. Cardinality({a} \cup {b}) = 2
  <2>1. IsFiniteSet({a}) /\ b \notin {a}
    BY FS_Singleton
  <2> QED
    BY <1>2, <2>1, FS_AddElement
<1>4. {a} \cup {b} = {a, b}
  OBVIOUS
<1> QED
  BY <1>1, <1>2, <1>3, <1>4

\* The kinds of values that the parser alone refuses, and alone takes.
StrictValues == {"blank", "unsafe", "many_bytes"}
LaxValues == {"padded", "odd_items", "other_form"}

\* Without such values the schemas and the parser refuse the same arguments, and
\* what validate_public_authorship takes has the published form.
LEMMA ValuesAgree ==
  ASSUME NEW call \in ToolCalls
  PROVE  /\ SchemaRefuses(call) \subseteq call.given /\ ParserRefuses(call) \subseteq call.given
         /\ ~Uses(call, StrictValues) => ParserRefuses(call) \subseteq SchemaRefuses(call)
         /\ ~Uses(call, LaxValues) => SchemaRefuses(call) \subseteq ParserRefuses(call)
         /\ "authorship" \in call.given /\ ~Uses(call, StrictValues) =>
              (AuthorshipSchema(call.authorship) => ValidAuthorship(call.authorship))
         /\ ValidAuthorship(call.authorship) => AuthorshipSchema(call.authorship)
<1>1. call.value \in [call.given -> Values] /\ call.authorship.generator \in Values
  BY McpAssumption
<1>2. \A name, value :
        /\ value \in Values \ StrictValues /\ ~ParserTakes(name, value) => ~SchemaTakes(value)
        /\ value \in Values \ LaxValues /\ ~SchemaTakes(value) => ~ParserTakes(name, value)
        /\ value \in Values \ StrictValues /\ SchemaTakes(value) => value = "plain"
        /\ SchemaTakes("plain")
  BY DEF Values, StrictValues, LaxValues, ParserTakes, SchemaTakes
<1>3. ASSUME NEW kinds, ~Uses(call, kinds)
      PROVE  /\ \A name \in call.given : call.value[name] \in Values \ kinds
             /\ "authorship" \in call.given /\ "generator" \in call.authorship.given =>
                  call.authorship.generator \in Values \ kinds
  BY <1>1, <1>3 DEF Uses
<1>4. SchemaRefuses(call) \subseteq call.given /\ ParserRefuses(call) \subseteq call.given
  BY DEF SchemaRefuses, ParserRefuses
<1>5. ASSUME ~Uses(call, StrictValues) PROVE ParserRefuses(call) \subseteq SchemaRefuses(call)
  BY <1>2, <1>3, <1>5 DEF SchemaRefuses, ParserRefuses
<1>6. ASSUME ~Uses(call, LaxValues) PROVE SchemaRefuses(call) \subseteq ParserRefuses(call)
  BY <1>2, <1>3, <1>6 DEF SchemaRefuses, ParserRefuses
<1>7. ASSUME "authorship" \in call.given, ~Uses(call, StrictValues),
             AuthorshipSchema(call.authorship)
      PROVE  ValidAuthorship(call.authorship)
  BY <1>2, <1>3, <1>7 DEF AuthorshipSchema, ValidAuthorship
<1>8. ASSUME ValidAuthorship(call.authorship) PROVE AuthorshipSchema(call.authorship)
  BY <1>2, <1>8 DEF AuthorshipSchema, ValidAuthorship
<1> QED
  BY <1>4, <1>5, <1>6, <1>7, <1>8

\* For each tool: a call that the schema accepts and parse_command does not has
\* a value the parser alone refuses, and one that parse_command accepts and the
\* schema does not has a value the parser alone takes, or a view beside a
\* documentId.
LEMMA SchemasAgree ==
  ASSUME NEW call \in ToolCalls
  PROVE  /\ ParseCommand(call, "write") = Nothing /\ SchemaAccepts(call)
              => Uses(call, StrictValues)
         /\ ParseCommand(call, "write") # Nothing /\ ~SchemaAccepts(call)
              => Uses(call, LaxValues) \/ {"view", "documentId"} \subseteq call.given
<1> DEFINE A == SchemaRefuses(call)
           B == ParserRefuses(call)
           strict == Uses(call, StrictValues)
           lax == Uses(call, LaxValues)
<1>1. /\ A \subseteq call.given /\ B \subseteq call.given
      /\ ~strict => B \subseteq A
      /\ ~lax => A \subseteq B
      /\ "authorship" \in call.given /\ ~strict =>
           (AuthorshipSchema(call.authorship) => ValidAuthorship(call.authorship))
      /\ ValidAuthorship(call.authorship) => AuthorshipSchema(call.authorship)
  BY ValuesAgree
<1>2. /\ Command("list_published", FALSE) # Nothing /\ Command("list_all", TRUE) # Nothing
      /\ Command("read_published", FALSE) # Nothing /\ Command("read_document", TRUE) # Nothing
      /\ Command("create", TRUE) # Nothing /\ Command("publish", TRUE) # Nothing
      /\ [kind |-> "revise", authenticated |-> TRUE, key |-> call.key, base |-> call.base] # Nothing
  BY CommandsAre, McpAssumption
<1>0. call.tool \in {"osb_content_list", "osb_content_read", "osb_content_create",
                     "osb_content_revise", "osb_content_publish"}
  BY McpAssumption DEF ToolNames
<1>3. CASE call.tool = "osb_content_list"
  <2>1. SchemaAccepts(call) <=> A = {} /\ call.given \subseteq {"includeDrafts"}
    BY <1>3 DEF SchemaAccepts, InputSchema
  <2>2. ParseCommand(call, "write") # Nothing <=>
          call.given \subseteq {"includeDrafts"} /\ {"includeDrafts"} \cap B = {}
    BY <1>2, <1>3 DEF ParseCommand, ListCommand, EnsureOnly, Optional
  <2> HIDE DEF A, B, strict, lax
  <2>3. ~strict => (SchemaAccepts(call) => ParseCommand(call, "write") # Nothing)
    BY <1>1, <2>1, <2>2
  <2>4. ~lax => (ParseCommand(call, "write") # Nothing => SchemaAccepts(call))
    BY <1>1, <2>1, <2>2
  <2> QED
    BY <2>3, <2>4 DEF strict, lax
<1>4. CASE call.tool = "osb_content_read"
  <2>1. SchemaAccepts(call) <=>
          /\ A = {} /\ call.given \subseteq {"slug", "documentId", "view"}
          /\ call.given \cap {"slug", "documentId"} \in {{"slug"}, {"documentId"}}
    <3>1. Cardinality(call.given \cap {"slug", "documentId"}) = 1 <=>
            call.given \cap {"slug", "documentId"} \in {{"slug"}, {"documentId"}}
      BY OneOfTwo
    <3>2. /\ InputSchema(call.tool).required = {}
          /\ InputSchema(call.tool).properties = {"slug", "documentId", "view"}
      BY <1>4 DEF InputSchema
    <3> QED
      BY <1>4, <3>1, <3>2 DEF SchemaAccepts
  <2>2. ParseCommand(call, "write") # Nothing <=>
          /\ call.given \subseteq {"slug", "documentId", "view"}
          /\ {"slug", "documentId"} \cap B = {}
          /\ \/ call.given \cap {"slug", "documentId"} = {"slug"} /\ {"view"} \cap B = {}
             \/ call.given \cap {"slug", "documentId"} = {"documentId"}
    BY <1>2, <1>4 DEF ParseCommand, ReadCommand, EnsureOnly, Optional
  <2> HIDE DEF A, B, strict, lax
  <2>3. ~strict => (SchemaAccepts(call) => ParseCommand(call, "write") # Nothing)
    BY <1>1, <2>1, <2>2
  <2>4. ~lax /\ ~({"view", "documentId"} \subseteq call.given) =>
          (ParseCommand(call, "write") # Nothing => SchemaAccepts(call))
    BY <1>1, <2>1, <2>2
  <2> QED
    BY <2>3, <2>4 DEF strict, lax
<1>5. CASE call.tool = "osb_content_create"
  <2>1. SchemaAccepts(call) <=>
          /\ A = {} /\ WrittenFields \subseteq call.given
          /\ call.given \subseteq ContentFields
          /\ AuthorshipSchema(call.authorship)
    BY <1>5 DEF SchemaAccepts, InputSchema, WrittenFields
  <2>2. ParseCommand(call, "write") # Nothing <=>
          /\ call.given \subseteq ContentFields /\ B \cap ContentFields = {}
          /\ WrittenFields \subseteq call.given
          /\ ValidAuthorship(call.authorship)
    BY <1>2, <1>5 DEF ParseCommand, WriteCommand, EnsureOnly, ContentBody, WrittenFields
  <2>3. "authorship" \in WrittenFields
    BY DEF WrittenFields
  <2> HIDE DEF A, B, strict, lax
  <2>4. ~strict => (SchemaAccepts(call) => ParseCommand(call, "write") # Nothing)
    BY <1>1, <2>1, <2>2, <2>3
  <2>5. ~lax => (ParseCommand(call, "write") # Nothing => SchemaAccepts(call))
    BY <1>1, <2>1, <2>2
  <2> QED
    BY <2>4, <2>5 DEF strict, lax
<1>6. CASE call.tool = "osb_content_revise"
  <2>1. SchemaAccepts(call) <=>
          /\ A = {} /\ WrittenFields \cup RevisionFields \subseteq call.given
          /\ call.given \subseteq ContentFields \cup RevisionFields
          /\ AuthorshipSchema(call.authorship)
    BY <1>6 DEF SchemaAccepts, InputSchema, WrittenFields
  <2>2. ParseCommand(call, "write") # Nothing <=>
          /\ call.given \subseteq ContentFields \cup RevisionFields
          /\ RevisionFields \subseteq call.given \ B
          /\ B \cap ContentFields = {} /\ WrittenFields \subseteq call.given
          /\ ValidAuthorship(call.authorship)
    BY <1>2, <1>6 DEF ParseCommand, WriteCommand, EnsureOnly, Required, ContentBody, WrittenFields
  <2>3. "authorship" \in WrittenFields
    BY DEF WrittenFields
  <2> HIDE DEF A, B, strict, lax
  <2>4. ~strict => (SchemaAccepts(call) => ParseCommand(call, "write") # Nothing)
    BY <1>1, <2>1, <2>2, <2>3
  <2>5. ~lax => (ParseCommand(call, "write") # Nothing => SchemaAccepts(call))
    BY <1>1, <2>1, <2>2
  <2> QED
    BY <2>4, <2>5 DEF strict, lax
<1>7. CASE call.tool = "osb_content_publish"
  <2>1. SchemaAccepts(call) <=> A = {} /\ call.given = {"documentId", "revisionId"}
    BY <1>7 DEF SchemaAccepts, InputSchema
  <2>2. ParseCommand(call, "write") # Nothing <=>
          call.given \subseteq {"documentId", "revisionId"}
            /\ {"documentId", "revisionId"} \subseteq call.given \ B
    BY <1>2, <1>7 DEF ParseCommand, WriteCommand, EnsureOnly, Required
  <2> HIDE DEF A, B, strict, lax
  <2>3. ~strict => (SchemaAccepts(call) => ParseCommand(call, "write") # Nothing)
    BY <1>1, <2>1, <2>2
  <2>4. ~lax => (ParseCommand(call, "write") # Nothing => SchemaAccepts(call))
    BY <1>1, <2>1, <2>2
  <2> QED
    BY <2>3, <2>4 DEF strict, lax
<1> QED
  BY <1>0, <1>3, <1>4, <1>5, <1>6, <1>7

\* The keys a revision may have: those of calls, and two that stand for all
\* the revisions made without the adapter.
RevisionKeys == {"first", "other"} \cup {call.key : call \in ToolCalls}

\* The inductive invariant of the adapter.
McpInv ==
  /\ ValidConfig(config)
  /\ request \in {Nothing} \cup ContentCommands
  /\ request # Nothing => reply = Nothing /\ (request.authenticated => config.mode = "write")
  /\ history \in Seq(RevisionKeys)
  /\ SchemaMatchesParser
  /\ RevisedOnce

\* The adapter starts with a valid configuration and without a call.
LEMMA InitMcp == McpInit => McpInv
<1> SUFFICES ASSUME McpInit PROVE McpInv
  OBVIOUS
<1>1. history \in Seq(RevisionKeys) /\ DOMAIN history = 1..1
  BY DEF McpInit, RevisionKeys
<1>2. RevisedOnce
  BY <1>1 DEF RevisedOnce
<1> QED
  BY <1>1, <1>2 DEF McpInit, McpInv, SchemaMatchesParser

\* A key that is new, or the one that stands for all others, is appended.
LEMMA HistoryGrows ==
  ASSUME history \in Seq(RevisionKeys), RevisedOnce, NEW key \in RevisionKeys,
         key = "other" \/ key \notin UsedKeys, history' = Append(history, key)
  PROVE  history' \in Seq(RevisionKeys) /\ RevisedOnce'
<1>1. /\ history' \in Seq(RevisionKeys)
      /\ DOMAIN history = 1..Len(history) /\ DOMAIN history' = 1..(Len(history) + 1)
      /\ Len(history) \in Nat
      /\ history'[Len(history) + 1] = key
      /\ \A i \in 1..Len(history) : history'[i] = history[i]
  OBVIOUS
<1>2. ASSUME NEW i \in DOMAIN history', NEW j \in DOMAIN history',
             history'[i] = history'[j], history'[i] # "other"
      PROVE  i = j
  <2>1. CASE i \in 1..Len(history) /\ j \in 1..Len(history)
    BY <1>1, <1>2, <2>1 DEF RevisedOnce
  <2>2. CASE i = Len(history) + 1 /\ j \in 1..Len(history)
    BY <1>1, <1>2, <2>2 DEF UsedKeys
  <2>3. CASE j = Len(history) + 1 /\ i \in 1..Len(history)
    BY <1>1, <1>2, <2>3 DEF UsedKeys
  <2> QED
    BY <1>1, <1>2, <2>1, <2>2, <2>3
<1> QED
  BY <1>1, <1>2 DEF RevisedOnce

\* What the server makes of a revision keeps the history without repetition.
LEMMA RevisionKeeps ==
  ASSUME McpInv, request # Nothing, request.kind = "revise", history' = Revised(request)
  PROVE  history' \in Seq(RevisionKeys) /\ RevisedOnce'
<1>1. request.key \in RevisionKeys
  BY DEF McpInv, ContentCommands, RevisionKeys
<1>2. CASE RevisionAnswer(request) = "ok"
  <2>1. request.key \notin UsedKeys /\ history' = Append(history, request.key)
    BY <1>2 DEF RevisionAnswer, Revised
  <2> QED
    BY <1>1, <2>1, HistoryGrows DEF McpInv
<1>3. CASE RevisionAnswer(request) # "ok"
  BY <1>3 DEF Revised, McpInv, RevisedOnce
<1> QED
  BY <1>2, <1>3

\* While a call is under way its schema has accepted it, so that no answer is
\* "invalid" afterwards.
LEMMA AnswerMatchesSchema ==
  ASSUME McpInv, request # Nothing, UNCHANGED <<config, asked>>,
         reply' \in Replies, reply' # "invalid"
  PROVE  SchemaMatchesParser'
<1>1. reply = Nothing /\ Nothing \notin Replies
  BY McpAssumption DEF McpInv
<1>2. reply # "limited" /\ reply # "invalid"
  BY <1>1 DEF Replies
<1>3. asked' = asked /\ config' = config
  OBVIOUS
<1> QED
  BY <1>2, <1>3 DEF McpInv, SchemaMatchesParser, SchemaAccepts, AuthorshipSchema

\* Each frame, answer, loss and restart keeps the invariant.
LEMMA StepMcp ==
  ASSUME McpInv, [McpNext]_mcpVars PROVE McpInv'
<1>1. CASE Initialize \/ Initialized \/ MinutePasses \/ UNCHANGED mcpVars
  <2>1. UNCHANGED <<config, asked, request, reply, history>>
    BY <1>1 DEF Initialize, Initialized, MinutePasses, mcpVars
  <2>2. SchemaMatchesParser'
    BY <2>1 DEF McpInv, SchemaMatchesParser
  <2>3. RevisedOnce'
    BY <2>1 DEF McpInv, RevisedOnce
  <2> QED
    BY <2>1, <2>2, <2>3 DEF McpInv, ValidConfig
<1>2. ASSUME NEW call \in ToolCalls, CallTool(call) PROVE McpInv'
  <2> DEFINE command == ParseCommand(call, config.mode)
  <2>1. /\ UNCHANGED <<config, history>> /\ asked' = call
        /\ \/ /\ call.tool \notin ToolNames(config.mode)
              /\ reply' = "unknown_tool" /\ request' = Nothing
           \/ reply' = "limited" /\ request' = Nothing
           \/ /\ request' = command
              /\ reply' = IF command = Nothing THEN "invalid" ELSE Nothing
    BY <1>2 DEF CallTool
  <2>2. command \in {Nothing} \cup ContentCommands /\
        (command # Nothing /\ command.authenticated => config.mode = "write")
    BY CommandsTyped
  <2>3. Nothing \notin Replies /\ call.tool \in ToolNames("write")
    BY McpAssumption
  <2>4. SchemaMatchesParser'
    <3> SUFFICES ASSUME config.mode = "write", reply' # "limited"
                 PROVE  /\ reply' = "invalid" /\ SchemaAccepts(call)
                             => Uses(call, {"blank", "unsafe", "many_bytes"})
                        /\ reply' # "invalid" /\ ~SchemaAccepts(call)
                             => \/ Uses(call, {"padded", "odd_items", "other_form"})
                                \/ {"view", "documentId"} \subseteq call.given
      BY <2>1 DEF SchemaMatchesParser, SchemaAccepts, SchemaRefuses, AuthorshipSchema, Uses
    <3>1. /\ command = Nothing /\ SchemaAccepts(call) => Uses(call, StrictValues)
          /\ command # Nothing /\ ~SchemaAccepts(call)
               => Uses(call, LaxValues) \/ {"view", "documentId"} \subseteq call.given
      BY SchemasAgree
    <3>2. reply' = IF command = Nothing THEN "invalid" ELSE Nothing
      BY <2>1, <2>3
    <3>3. reply' = "invalid" <=> command = Nothing
      BY <2>3, <3>2 DEF Replies
    <3> QED
      BY <3>1, <3>3 DEF StrictValues, LaxValues
  <2>5. RevisedOnce'
    BY <2>1 DEF McpInv, RevisedOnce
  <2> HIDE DEF command
  <2> QED
    BY <2>1, <2>2, <2>4, <2>5 DEF McpInv, ValidConfig
<1>3. CASE ApiAnswers
  <2>1. /\ request # Nothing /\ request' = Nothing /\ UNCHANGED <<config, asked>>
        /\ reply' \in {"ok", "conflict", "duplicate_key"}
    BY <1>3 DEF ApiAnswers, RevisionAnswer
  <2>2. SchemaMatchesParser'
    BY <2>1, AnswerMatchesSchema DEF Replies
  <2>3. history' \in Seq(RevisionKeys) /\ RevisedOnce'
    BY <1>3, RevisionKeeps DEF ApiAnswers, McpInv, RevisedOnce
  <2> QED
    BY <2>1, <2>2, <2>3 DEF McpInv, ValidConfig
<1>4. ASSUME NEW acted \in BOOLEAN, ApiLost(acted) PROVE McpInv'
  <2>1. request # Nothing /\ request' = Nothing /\ UNCHANGED <<config, asked>> /\ reply' = "error"
    BY <1>4 DEF ApiLost
  <2>2. SchemaMatchesParser'
    BY <2>1, AnswerMatchesSchema DEF Replies
  <2>3. history' \in Seq(RevisionKeys) /\ RevisedOnce'
    BY <1>4, RevisionKeeps DEF ApiLost, McpInv, RevisedOnce
  <2> QED
    BY <2>1, <2>2, <2>3 DEF McpInv, ValidConfig
<1>5. CASE OthersRevise
  <2>1. UNCHANGED <<config, asked, request, reply>>
    BY <1>5 DEF OthersRevise
  <2>2. SchemaMatchesParser'
    BY <2>1 DEF McpInv, SchemaMatchesParser
  <2>3. history' \in Seq(RevisionKeys) /\ RevisedOnce'
    BY <1>5, HistoryGrows DEF OthersRevise, McpInv, RevisionKeys
  <2> QED
    BY <2>1, <2>2, <2>3 DEF McpInv, ValidConfig
<1>6. ASSUME NEW c \in McpConfigs, NEW acted \in BOOLEAN, RestartMcp(c, acted) PROVE McpInv'
  <2>1. ValidConfig(c) /\ config' = c /\ asked' = Nothing /\ request' = Nothing
    BY <1>6 DEF RestartMcp
  <2>2. SchemaMatchesParser'
    BY <2>1 DEF SchemaMatchesParser
  <2>3. history' \in Seq(RevisionKeys) /\ RevisedOnce'
    BY <1>6, RevisionKeeps DEF RestartMcp, McpInv, RevisedOnce
  <2> QED
    BY <2>1, <2>2, <2>3 DEF McpInv, ValidConfig
<1> QED
  BY <1>1, <1>2, <1>3, <1>4, <1>5, <1>6 DEF McpNext

\* For any calls, configurations, lost answers and restarts: the token of the
\* adapter travels only in write mode over HTTPS or to this machine, the
\* published schemas are what the parser takes but for the values named in
\* SchemaMatchesParser, and a repeated revision is made once.
THEOREM McpIsFaithful == Spec => []McpFaithful
<1>1. Init => McpInv
  BY InitMcp DEF Init
<1>2. McpInv /\ [Next]_servicesVars => McpInv'
  BY ServiceSteps, StepMcp
<1>3. McpInv => McpFaithful
  BY DEF McpInv, ValidConfig, McpFaithful, TokenTravelsSafely
<1> QED
  BY <1>1, <1>2, <1>3, PTL DEF Spec

---------------------------------------------------------------------------
(* The program tree. *)

\* A non-empty set of naturals has a least element: induction without an
\* operator as its parameter.
LEMMA LeastNat ==
  ASSUME NEW T, T \subseteq Nat, T # {}
  PROVE  \E x \in T : \A y \in T : x <= y
<1> DEFINE R == {ss \in Nat \X Nat : ss[1] < ss[2]}
<1>1. OpToRel(<, Nat) = R
  BY DEF OpToRel
<1>2. IsWellFoundedOn(R, Nat)
  BY <1>1, NatLessThanWellFounded
<1>3. PICK x \in T : \A y \in T : ~(<<y, x>> \in R)
  BY <1>2, WFMin
<1>4. ASSUME NEW y \in T
      PROVE  x <= y
  <2>1. <<y, x>> \in Nat \X Nat /\ <<y, x>>[1] = y /\ <<y, x>>[2] = x
    OBVIOUS
  <2>2. ~(y < x)
    BY <1>3, <2>1
  <2> QED
    BY <2>2
<1> QED
  BY <1>4

\* Rows in the order of their ranks, none of them twice.
InOrder(rows, n, rank) ==
  \A i, j \in 1..n : i < j => rows[i] # rows[j] /\ rank[rows[i]] <= rank[rows[j]]

\* A row that is put before the first of a higher rank, or last, keeps the order.
LEMMA InsertedInOrder ==
  ASSUME NEW T, NEW x, x \notin T, NEW rank, \A y \in T \cup {x} : rank[y] \in Int,
         NEW n \in Nat, NEW rows \in [1..n -> T], InOrder(rows, n, rank)
  PROVE  \E more \in [1..(n + 1) -> T \cup {x}] : InOrder(more, n + 1, rank)
<1> DEFINE Higher == {i \in 1..n : rank[rows[i]] > rank[x]}
<1>1. PICK k \in 1..(n + 1) : /\ \A i \in 1..n : i < k => rank[rows[i]] <= rank[x]
                              /\ k <= n => rank[rows[k]] > rank[x]
  <2>1. CASE Higher = {}
    <3>1. \A i \in 1..n : rank[rows[i]] <= rank[x]
      BY <2>1
    <3> QED
      BY <3>1
  <2>2. CASE Higher # {}
    <3>1. PICK k \in Higher : \A i \in Higher : k <= i
      <4>1. Higher \subseteq Nat
        OBVIOUS
      <4> HIDE DEF Higher
      <4> QED
        BY <2>2, <4>1, LeastNat
    <3>2. \A i \in 1..n : i < k => rank[rows[i]] <= rank[x]
      BY <3>1
    <3> QED
      BY <3>1, <3>2
  <2> QED
    BY <2>1, <2>2
<1>2. \A i \in 1..n : i >= k => rank[rows[i]] > rank[x]
  <2> SUFFICES ASSUME NEW i \in 1..n, i >= k
               PROVE  rank[rows[i]] > rank[x]
    OBVIOUS
  <2>1. k \in 1..n /\ rank[rows[k]] > rank[x]
    BY <1>1
  <2>2. rank[rows[k]] <= rank[rows[i]]
    BY <2>1 DEF InOrder
  <2>3. rank[rows[k]] \in Int /\ rank[rows[i]] \in Int /\ rank[x] \in Int
    BY <2>1
  <2> QED
    BY <2>1, <2>2, <2>3
<1> DEFINE more == [i \in 1..(n + 1) |->
                      IF i < k THEN rows[i] ELSE IF i = k THEN x ELSE rows[i - 1]]
<1>3. more \in [1..(n + 1) -> T \cup {x}]
  BY <1>1
<1>4. ASSUME NEW i \in 1..(n + 1), NEW j \in 1..(n + 1), i < j
      PROVE  more[i] # more[j] /\ rank[more[i]] <= rank[more[j]]
  <2>1. CASE j < k
    <3>1. i \in 1..n /\ j \in 1..n /\ more[i] = rows[i] /\ more[j] = rows[j]
      BY <1>1, <1>4, <2>1
    <3> HIDE DEF more
    <3> QED
      BY <1>4, <3>1 DEF InOrder
  <2>2. CASE j = k
    <3>1. i \in 1..n /\ more[i] = rows[i] /\ more[j] = x /\ rows[i] \in T
      BY <1>1, <1>4, <2>2
    <3> HIDE DEF more
    <3> QED
      BY <1>1, <1>4, <2>2, <3>1
  <2>3. CASE j > k /\ i < k
    <3>1. i \in 1..n /\ j - 1 \in 1..n /\ i < j - 1 /\ more[i] = rows[i] /\ more[j] = rows[j - 1]
      BY <1>1, <1>4, <2>3
    <3> HIDE DEF more
    <3> QED
      BY <3>1 DEF InOrder
  <2>4. CASE j > k /\ i = k
    <3>1. j - 1 \in 1..n /\ j - 1 >= k /\ more[i] = x /\ more[j] = rows[j - 1] /\ rows[j - 1] \in T
      BY <1>1, <1>4, <2>4
    <3>2. rank[rows[j - 1]] > rank[x] /\ rank[rows[j - 1]] \in Int /\ rank[x] \in Int
      BY <1>2, <3>1
    <3> HIDE DEF more
    <3> QED
      BY <3>1, <3>2
  <2>5. CASE j > k /\ i > k
    <3>1. /\ i - 1 \in 1..n /\ j - 1 \in 1..n /\ i - 1 < j - 1
          /\ more[i] = rows[i - 1] /\ more[j] = rows[j - 1]
      BY <1>1, <1>4, <2>5
    <3> HIDE DEF more
    <3> QED
      BY <3>1 DEF InOrder
  <2> QED
    BY <1>1, <2>1, <2>2, <2>3, <2>4, <2>5
<1> QED
  BY <1>3, <1>4 DEF InOrder

\* The rows of a finite table can be put in the order of their ranks.
LEMMA OrderExists ==
  ASSUME NEW S, IsFiniteSet(S), NEW rank, \A y \in S : rank[y] \in Int
  PROVE  \E rows \in [1..Cardinality(S) -> S] : InOrder(rows, Cardinality(S), rank)
<1> DEFINE Orders(T, n) == \E rows \in [1..n -> T] : InOrder(rows, n, rank)
           Bad == {n \in Nat : \E T \in SUBSET S : Cardinality(T) = n /\ ~Orders(T, n)}
<1> SUFFICES ASSUME ~Orders(S, Cardinality(S))
             PROVE  FALSE
  OBVIOUS
<1>1. Cardinality(S) \in Bad
  BY FS_CardinalityType
<1>2. PICK n \in Bad : \A m \in Bad : n <= m
  <2> HIDE DEF Bad
  <2>1. Bad \subseteq Nat
    BY DEF Bad
  <2> QED
    BY <1>1, <2>1, LeastNat
<1>3. PICK T \in SUBSET S : Cardinality(T) = n /\ ~Orders(T, n)
  BY <1>2
<1>4. IsFiniteSet(T) /\ n \in Nat
  BY <1>2, FS_Subset
<1>5. T # {}
  <2> SUFFICES ASSUME T = {}
               PROVE  FALSE
    OBVIOUS
  <2>1. n = 0
    BY <1>3, FS_EmptySet
  <2> DEFINE rows == [i \in 1..0 |-> i]
  <2>2. rows \in [1..0 -> T]
    OBVIOUS
  <2>3. InOrder(rows, 0, rank)
    BY DEF InOrder
  <2> QED
    BY <1>3, <2>1, <2>2, <2>3
<1>6. PICK x \in T : TRUE
  BY <1>5
<1> DEFINE U == T \ {x}
<1>7. IsFiniteSet(U) /\ Cardinality(U) = n - 1 /\ n - 1 \in Nat
  <2>1. IsFiniteSet(U) /\ Cardinality(U) = Cardinality(T) - 1
    BY <1>4, <1>6, FS_RemoveElement
  <2>2. Cardinality(U) \in Nat
    BY <2>1, FS_CardinalityType
  <2> QED
    BY <1>3, <2>1, <2>2
<1>8. U \in SUBSET S /\ U \cup {x} = T /\ x \notin U
  BY <1>6
<1>9. Orders(U, n - 1)
  <2>1. ~(n - 1 \in Bad)
    <3> HIDE DEF Bad
    <3> QED
      BY <1>2, <1>4, <1>7
  <2> HIDE DEF Orders, U
  <2> QED
    BY <1>7, <1>8, <2>1
<1>10. PICK rows \in [1..(n - 1) -> U] : InOrder(rows, n - 1, rank)
  BY <1>9
<1>11. \E more \in [1..(n - 1 + 1) -> U \cup {x}] : InOrder(more, n - 1 + 1, rank)
  <2> DEFINE m == n - 1
  <2>1. m \in Nat /\ rows \in [1..m -> U] /\ InOrder(rows, m, rank)
    BY <1>7, <1>10
  <2>2. \A y \in U \cup {x} : rank[y] \in Int
    BY <1>8
  <2> HIDE DEF m, U
  <2>3. \E more \in [1..(m + 1) -> U \cup {x}] : InOrder(more, m + 1, rank)
    BY <1>8, <2>1, <2>2, InsertedInOrder
  <2> QED
    BY <2>3 DEF m
<1>12. n - 1 + 1 = n
  BY <1>4
<1> QED
  BY <1>3, <1>8, <1>11, <1>12

\* ORDER BY returns each row of a finite table once.
LEMMA RowsOnce ==
  ASSUME NEW S, IsFiniteSet(S), NEW rank, \A y \in S : rank[y] \in Int
  PROVE  LET rows == RowsInOrder(S, rank)
         IN  /\ rows \in Seq(S) /\ Len(rows) = Cardinality(S) /\ Cardinality(S) \in Nat
             /\ DOMAIN rows = 1..Cardinality(S)
             /\ \A i, j \in 1..Cardinality(S) : rows[i] = rows[j] => i = j
             /\ \A x \in S : \E i \in 1..Cardinality(S) : rows[i] = x
<1> DEFINE n == Cardinality(S)
           rows == RowsInOrder(S, rank)
<1>1. n \in Nat
  BY FS_CardinalityType
<1>2. rows \in [1..n -> S] /\ InOrder(rows, n, rank)
  <2>1. \E r \in [1..n -> S] : \A i, j \in 1..n :
          i < j => r[i] # r[j] /\ rank[r[i]] <= rank[r[j]]
    BY OrderExists DEF InOrder
  <2> QED
    BY <2>1 DEF RowsInOrder, InOrder
<1> HIDE DEF rows
<1>3. rows \in Seq(S) /\ Len(rows) = n /\ DOMAIN rows = 1..n
  <2>1. rows \in Seq(S)
    BY <1>1, <1>2
  <2> QED
    BY <1>1, <1>2, <2>1
<1>4. \A i, j \in 1..n : rows[i] = rows[j] => i = j
  BY <1>1, <1>2 DEF InOrder
<1>5. \A x \in S : \E i \in 1..n : rows[i] = x
  <2>1. rows \in Injection(1..n, S)
    BY <1>2, <1>4 DEF Injection, IsInjective
  <2>2. Cardinality(1..n) = n
    <3>1. /\ 1 \in Int /\ n \in Int
      BY <1>1
    <3>2. Cardinality(1..n) = IF 1 > n THEN 0 ELSE n - 1 + 1
      BY <3>1, FS_Interval
    <3> QED
      BY <1>1, <3>2
  <2>3. rows \in Surjection(1..n, S)
    BY <2>1, <2>2, FS_Injection
  <2> QED
    BY <2>3 DEF Surjection
<1> QED
  BY <1>1, <1>3, <1>4, <1>5 DEF rows

\* LIMIT and OFFSET, row by row.
LEMMA RowsAre ==
  ASSUME NEW N, NEW s \in Seq(N), NEW offset \in Nat, NEW limit \in Nat
  PROVE  LET r == Rows(s, offset, limit)
         IN  /\ r \in Seq(N)
             /\ Len(r) = IF offset + limit < Len(s) THEN limit
                         ELSE IF offset < Len(s) THEN Len(s) - offset ELSE 0
             /\ \A i \in 1..Len(r) : r[i] = s[offset + i]
<1> DEFINE last == IF offset + limit < Len(s) THEN offset + limit ELSE Len(s)
           r == SubSeq(s, offset + 1, last)
<1>1. Rows(s, offset, limit) = r
  BY DEF Rows
<1>2. last \in Nat /\ last <= Len(s) /\ Len(s) \in Nat
  OBVIOUS
<1>3. Len(r) = IF offset + 1 <= last THEN last - offset ELSE 0
  BY <1>2
<1>4. \A i \in 1..Len(r) : r[i] = s[offset + i]
  BY <1>2, <1>3
<1>5. r \in Seq(N)
  BY <1>2, <1>3, <1>4
<1>6. Len(r) = IF offset + limit < Len(s) THEN limit
               ELSE IF offset < Len(s) THEN Len(s) - offset ELSE 0
  BY <1>2, <1>3
<1> QED
  BY <1>1, <1>4, <1>5, <1>6

\* finish_page: a page is a stretch of the rows, and the cursor says where the
\* next one begins.
LEMMA PageIs ==
  ASSUME NEW N, NEW s \in Seq(N), NEW offset \in Nat, NEW limit \in Nat \ {0}
  PROVE  LET page == FinishPage(Rows(s, offset, limit + 1), offset, limit)
         IN  /\ page.items \in Seq(N)
             /\ Len(page.items) = IF offset + limit < Len(s) THEN limit
                                  ELSE IF offset < Len(s) THEN Len(s) - offset ELSE 0
             /\ \A i \in 1..Len(page.items) : page.items[i] = s[offset + i]
             /\ page.next = IF offset + limit < Len(s) THEN offset + limit ELSE 0
<1> DEFINE nodes == Rows(s, offset, limit + 1)
           items == Rows(nodes, 0, limit)
<1>1. /\ nodes \in Seq(N) /\ Len(s) \in Nat
      /\ Len(nodes) = IF offset + (limit + 1) < Len(s) THEN limit + 1
                      ELSE IF offset < Len(s) THEN Len(s) - offset ELSE 0
      /\ \A i \in 1..Len(nodes) : nodes[i] = s[offset + i]
  <2> DEFINE fetch == limit + 1
  <2>1. fetch \in Nat
    OBVIOUS
  <2> HIDE DEF fetch
  <2>2. \A f \in Nat :
          /\ Rows(s, offset, f) \in Seq(N)
          /\ Len(Rows(s, offset, f)) =
               IF offset + f < Len(s) THEN f
               ELSE IF offset < Len(s) THEN Len(s) - offset ELSE 0
          /\ \A i \in 1..Len(Rows(s, offset, f)) : Rows(s, offset, f)[i] = s[offset + i]
    BY RowsAre
  <2>3. nodes = Rows(s, offset, fetch) /\ fetch = limit + 1 /\ Len(s) \in Nat
    BY DEF fetch
  <2> HIDE DEF nodes
  <2> QED
    BY <2>1, <2>2, <2>3
<1> HIDE DEF nodes
<1>2. /\ items \in Seq(N)
      /\ Len(items) = IF 0 + limit < Len(nodes) THEN limit
                      ELSE IF 0 < Len(nodes) THEN Len(nodes) - 0 ELSE 0
      /\ \A i \in 1..Len(items) : items[i] = nodes[0 + i]
  <2>1. \A o \in Nat :
          /\ Rows(nodes, o, limit) \in Seq(N)
          /\ Len(Rows(nodes, o, limit)) =
               IF o + limit < Len(nodes) THEN limit
               ELSE IF o < Len(nodes) THEN Len(nodes) - o ELSE 0
          /\ \A i \in 1..Len(Rows(nodes, o, limit)) : Rows(nodes, o, limit)[i] = nodes[o + i]
    <3>1. nodes \in Seq(N) /\ limit \in Nat
      BY <1>1
    <3> QED
      BY <3>1, RowsAre, ZenonT(60)
  <2>2. 0 \in Nat
    OBVIOUS
  <2> QED
    BY <2>1, <2>2
<1> HIDE DEF items
<1>3. /\ FinishPage(nodes, offset, limit).items = items
      /\ FinishPage(nodes, offset, limit).next = IF Len(nodes) > limit THEN offset + limit ELSE 0
  BY DEF FinishPage, items
<1>4. Len(nodes) > limit <=> offset + limit < Len(s)
  BY <1>1
<1>5. Len(items) = IF offset + limit < Len(s) THEN limit
                   ELSE IF offset < Len(s) THEN Len(s) - offset ELSE 0
  BY <1>1, <1>2
<1>6. \A i \in 1..Len(items) : items[i] = s[offset + i]
  <2> SUFFICES ASSUME NEW i \in 1..Len(items)
               PROVE  items[i] = s[offset + i]
    OBVIOUS
  <2>1. i \in 1..Len(nodes) /\ 0 + i = i
    BY <1>1, <1>2
  <2> QED
    BY <1>1, <1>2, <2>1
<1> QED
  BY <1>2, <1>3, <1>4, <1>5, <1>6 DEF nodes

\* A sequence that lists the members of a set, each once.
Lists(all, S) ==
  /\ all \in Seq(S)
  /\ \A i, j \in 1..Len(all) : all[i] = all[j] => i = j
  /\ \A x \in S : \E i \in 1..Len(all) : all[i] = x

\* ... and so has as many.
LEMMA ListsCount ==
  ASSUME NEW all, NEW S, Lists(all, S)
  PROVE  Cardinality(S) = Len(all) /\ Range(all) = S
<1>1. Len(all) \in Nat /\ DOMAIN all = 1..Len(all) /\ all \in [1..Len(all) -> S]
  BY DEF Lists
<1>2. all \in Bijection(1..Len(all), S)
  BY <1>1 DEF Lists, Bijection, Injection, Surjection, IsInjective
<1>3. ExistsBijection(1..Len(all), S)
  BY <1>2 DEF ExistsBijection
<1>4. Cardinality(S) = Len(all)
  BY <1>1, <1>3, FS_CountingElements
<1>5. Range(all) = S
  BY <1>1 DEF Lists, Range
<1> QED
  BY <1>4, <1>5
---------------------------------------------------------------------------
(* The nodes. *)

Groups == {"content", "assets", "configuration", "modules", "runtime"}
ContentGroup == <<"group", "content">>

\* The nodes that can be opened, without the root, and those that cannot.
Inner(node) ==
  \/ \E g \in Groups : node = <<"group", g>>
  \/ \E s \in DOMAIN siteRow : node = <<"site", s>>
  \/ \E s \in DOMAIN siteRow, c \in DOMAIN categoryRow \cup {NoCategory} :
       node = <<"category", s, c>>
  \/ \E d \in TreeDocuments : node = <<"document", d>>
Leaf(node) ==
  \/ \E d \in TreeDocuments, n \in Nat : node = <<"revision", d, n>>
  \/ \E kind \in {"setting", "module", "runtime"} : \E x : node = <<kind, x>>
Parent(node) == node = Root \/ Inner(node)

\* All that a node lists, in the order of its query.
AllRows(parent) ==
  CASE parent = Root -> RootNodes
    [] parent = ContentGroup -> SiteRows
    [] parent[1] = "group" /\ parent[2] # "content" -> StaticNodes(parent[2])
    [] parent[1] = "site" ->
         <<<<"category", parent[2], NoCategory>>>>
           \o (IF parent[2] = 1 THEN CategoryRows ELSE <<>>)
    [] parent[1] = "category" -> DocumentRows(parent[2], parent[3])
    [] parent[1] = "document" -> RevisionRows(parent[2])

\* The rows are of their types.
TreeTyped ==
  /\ siteRow \in Seq(Nat)
  /\ IsFiniteSet(DOMAIN categoryRow) /\ DOMAIN categoryRow \subseteq TreeCategories
  /\ \A c \in DOMAIN categoryRow : categoryRow[c].title \in Nat
  /\ DOMAIN documentRow = TreeDocuments
  /\ \A d \in TreeDocuments : documentRow[d].updated \in Nat /\ documentRow[d].revisions \in Nat
  /\ changes \in Nat

\* A node is opened exactly where it is marked, and a leaf is answered as one.
LEMMA NodeAnswers ==
  ASSUME NEW node, Inner(node) \/ Leaf(node)
  PROVE  /\ OpenAnswer(node) = IF HasChildren(node) THEN "children" ELSE "leaf"
         /\ OpenAnswer(node) = "children" => Inner(node)
<1>1. ASSUME NEW g \in Groups, node = <<"group", g>>
      PROVE  OpenAnswer(node) = "children" /\ HasChildren(node)
  <2>1. node[1] = "group"
    BY <1>1
  <2> QED
    BY <2>1 DEF OpenAnswer, HasChildren
<1>2. ASSUME NEW s \in DOMAIN siteRow, node = <<"site", s>>
      PROVE  OpenAnswer(node) = "children" /\ HasChildren(node)
  <2>1. node[1] = "site" /\ node[2] = s
    BY <1>2
  <2> QED
    BY <2>1 DEF OpenAnswer, HasChildren
<1>3. ASSUME NEW s \in DOMAIN siteRow, NEW c \in DOMAIN categoryRow \cup {NoCategory},
             node = <<"category", s, c>>
      PROVE  OpenAnswer(node) = "children" /\ HasChildren(node)
  <2>1. node[1] = "category" /\ node[3] = c
    BY <1>3
  <2> QED
    BY <2>1 DEF OpenAnswer, HasChildren, CategoryListed
<1>4. ASSUME NEW d \in TreeDocuments, node = <<"document", d>>
      PROVE  OpenAnswer(node) = "children" /\ HasChildren(node)
  <2>1. node[1] = "document" /\ node[2] = d
    BY <1>4
  <2> QED
    BY <2>1 DEF OpenAnswer, HasChildren
<1>5. ASSUME NEW d \in TreeDocuments, NEW n \in Nat, node = <<"revision", d, n>>
      PROVE  OpenAnswer(node) = "leaf" /\ ~HasChildren(node)
  <2>1. node[1] = "revision"
    BY <1>5
  <2> QED
    BY <2>1 DEF OpenAnswer, HasChildren
<1>6. ASSUME NEW kind \in {"setting", "module", "runtime"}, NEW x, node = <<kind, x>>
      PROVE  OpenAnswer(node) = "leaf" /\ ~HasChildren(node)
  <2>1. node[1] = kind
    BY <1>6
  <2> QED
    BY <2>1 DEF OpenAnswer, HasChildren
<1>7. Inner(node) => OpenAnswer(node) = "children" /\ HasChildren(node)
  BY <1>1, <1>2, <1>3, <1>4 DEF Inner
<1>8. Leaf(node) => OpenAnswer(node) = "leaf" /\ ~HasChildren(node)
  BY <1>5, <1>6 DEF Leaf
<1> QED
  BY <1>7, <1>8

\* What is listed once stays so under another name.
LEMMA ListsNamed ==
  ASSUME NEW S, NEW rows \in Seq(S), NEW named, NEW T, DOMAIN named = DOMAIN rows,
         named = [i \in DOMAIN rows |-> named[i]],
         \A i \in 1..Len(rows) : named[i] \in T,
         \A i, j \in 1..Len(rows) : named[i] = named[j] => i = j,
         \A t \in T : \E i \in 1..Len(rows) : named[i] = t
  PROVE  Lists(named, T)
<1>1. Len(rows) \in Nat /\ DOMAIN rows = 1..Len(rows)
  OBVIOUS
<1>2. named \in [1..Len(rows) -> T]
  BY <1>1
<1>3. named \in Seq(T) /\ Len(named) = Len(rows)
  BY <1>1, <1>2
<1> QED
  BY <1>3 DEF Lists

\* A page of a node is a stretch of what it lists, which is each of its children
\* once, and they are nodes themselves.
Pageable(parent) ==
  /\ Lists(AllRows(parent), Children(parent))
  /\ \A offset \in Nat, limit \in Nat \ {0} :
       NodesForParent(parent, offset, limit + 1) = Rows(AllRows(parent), offset, limit + 1)
  /\ \A x \in Children(parent) : Inner(x) \/ Leaf(x)

\* A function on an initial stretch of the naturals is a sequence.
LEMMA FunctionIsSeq ==
  ASSUME NEW n \in Nat, NEW S, NEW f \in [1..n -> S]
  PROVE  f \in Seq(S) /\ Len(f) = n /\ DOMAIN f = 1..n
OBVIOUS

\* The groups of the root.
LEMMA RootPageable == Pageable(Root)
<1>0. Root[1] = "root" /\ Root # <<"group", "content">>
  BY DEF Root
<1>1. AllRows(Root) = RootNodes /\ Children(Root) = Range(RootNodes)
  BY <1>0 DEF AllRows, Children, ContentGroup
<1>2. \A offset, fetch : NodesForParent(Root, offset, fetch) = Rows(RootNodes, offset, fetch)
  BY <1>0 DEF NodesForParent
<1>3. /\ RootNodes[1] = <<"group", "content">> /\ RootNodes[2] = <<"group", "assets">>
      /\ RootNodes[3] = <<"group", "configuration">> /\ RootNodes[4] = <<"group", "modules">>
      /\ RootNodes[5] = <<"group", "runtime">>
      /\ Len(RootNodes) = 5 /\ DOMAIN RootNodes = 1..5
      /\ RootNodes \in Seq(Range(RootNodes))
  BY DEF RootNodes, Range
<1>4. /\ \A i \in 1..5 : RootNodes[i] \in Range(RootNodes)
      /\ \A x \in Range(RootNodes) : \E i \in 1..5 : RootNodes[i] = x
  BY <1>3 DEF Range
<1>5. \A i, j \in 1..5 : RootNodes[i][2] = RootNodes[j][2] => i = j
  BY <1>3
<1>6. Lists(RootNodes, Range(RootNodes))
  BY <1>3, <1>4, <1>5 DEF Lists
<1>7. \A i \in 1..5 : Inner(RootNodes[i])
  <2>1. \A g \in Groups : Inner(<<"group", g>>)
    BY DEF Inner
  <2>2. \A i \in 1..5 : \E g \in Groups : RootNodes[i] = <<"group", g>>
    BY <1>3 DEF Groups
  <2> QED
    BY <2>1, <2>2
<1> QED
  BY <1>1, <1>2, <1>4, <1>6, <1>7 DEF Pageable

\* The settings, modules and runtime facts.
LEMMA StaticPageable ==
  ASSUME NEW g \in Groups \ {"content"}
  PROVE  Pageable(<<"group", g>>)
<1> DEFINE parent == <<"group", g>>
           nodes == StaticNodes(g)
<1>1. parent[1] = "group" /\ parent[2] = g /\ parent # Root /\ parent # ContentGroup
  BY DEF Root, ContentGroup
<1>2. g \in {"assets", "configuration", "modules", "runtime"}
  BY DEF Groups
<1>3. \E n \in 1..7 :
        /\ Len(nodes) = n /\ DOMAIN nodes = 1..n /\ nodes \in Seq(Range(nodes))
        /\ \A i \in 1..n : Leaf(nodes[i])
        /\ \A i, j \in 1..n : nodes[i] = nodes[j] => i = j
  <2>1. CASE g = "assets"
    <3>1. nodes = <<<<"runtime", "asset-store">>>>
      BY <2>1 DEF StaticNodes
    <3> QED
      BY <3>1 DEF Leaf, Range
  <2>2. CASE g = "configuration"
    <3> DEFINE names == <<"administrator-auth", "member-auth", "registration", "comments",
                          "collaboration", "custom-css", "agent-discovery">>
    <3>1. nodes = [i \in 1..7 |-> <<"setting", names[i]>>]
      BY <2>2 DEF StaticNodes
    <3>2. \A i, j \in 1..7 : names[i] = names[j] => i = j
      OBVIOUS
    <3> HIDE DEF names
    <3>3. \A i \in 1..7 : nodes[i] = <<"setting", names[i]>>
      BY <3>1
    <3>4. \A i \in 1..7 : Leaf(nodes[i])
      BY <3>3 DEF Leaf
    <3>5. \A i, j \in 1..7 : nodes[i] = nodes[j] => i = j
      BY <3>2, <3>3
    <3>6. DOMAIN nodes = 1..7 /\ Range(nodes) = {nodes[i] : i \in 1..7}
      BY <3>1 DEF Range
    <3>7. nodes \in [1..7 -> Range(nodes)]
      BY <3>1, <3>6
    <3> HIDE DEF nodes
    <3>8. nodes \in Seq(Range(nodes)) /\ Len(nodes) = 7
      BY <3>7, FunctionIsSeq
    <3> QED
      BY <3>4, <3>5, <3>6, <3>8
  <2>3. CASE g = "modules"
    <3>1. nodes = <<<<"module", "cache">>, <<"module", "comments">>>>
      BY <2>3 DEF StaticNodes
    <3> QED
      BY <3>1 DEF Leaf, Range
  <2>4. CASE g = "runtime"
    <3>1. nodes = <<<<"runtime", "server">>, <<"runtime", "mutation-mode">>,
                    <<"runtime", "public-cache">>, <<"runtime", "backups">>>>
      BY <2>4 DEF StaticNodes
    <3> QED
      BY <3>1 DEF Leaf, Range
  <2> QED
    BY <1>2, <2>1, <2>2, <2>3, <2>4
<1> HIDE DEF nodes
<1>4. \A x \in Range(nodes) : \E i \in 1..Len(nodes) : nodes[i] = x
  BY <1>3 DEF Range
<1>5. Lists(nodes, Range(nodes))
  BY <1>3, <1>4 DEF Lists
<1>6. \A x \in Range(nodes) : Leaf(x)
  BY <1>3, <1>4
<1>7. AllRows(parent) = nodes /\ Children(parent) = Range(nodes)
  BY <1>1 DEF AllRows, Children, nodes, ContentGroup
<1>8. \A offset, fetch : NodesForParent(parent, offset, fetch) = Rows(nodes, offset, fetch)
  BY <1>1 DEF NodesForParent, nodes, ContentGroup
<1> QED
  BY <1>5, <1>6, <1>7, <1>8 DEF Pageable
\* The sites, and the revisions of a document: numbered, the highest first.
LEMMA CountedDown ==
  ASSUME NEW n \in Nat, NEW name, \A i, j \in 1..n : name[i] = name[j] => i = j
  PROVE  Lists([i \in 1..n |-> name[n + 1 - i]], {name[k] : k \in 1..n})
<1> DEFINE all == [i \in 1..n |-> name[n + 1 - i]]
           S == {name[k] : k \in 1..n}
<1>1. \A i \in 1..n : n + 1 - i \in 1..n /\ n + 1 - (n + 1 - i) = i
  OBVIOUS
<1>2. all \in [1..n -> S]
  BY <1>1
<1>3. \A i \in 1..n : all[i] = name[n + 1 - i]
  OBVIOUS
<1>4. \A i, j \in 1..n : all[i] = all[j] => i = j
  <2> SUFFICES ASSUME NEW i \in 1..n, NEW j \in 1..n, all[i] = all[j]
               PROVE  i = j
    OBVIOUS
  <2>1. n + 1 - i = n + 1 - j
    BY <1>1, <1>3
  <2> QED
    BY <2>1
<1>5. \A x \in S : \E i \in 1..n : all[i] = x
  <2>1. ASSUME NEW k \in 1..n
        PROVE  \E i \in 1..n : all[i] = name[k]
    <3>1. n + 1 - k \in 1..n /\ n + 1 - (n + 1 - k) = k
      BY <1>1
    <3>2. all[n + 1 - k] = name[k]
      BY <3>1, <1>3
    <3> QED
      BY <3>1, <3>2
  <2> HIDE DEF all
  <2> QED
    BY <2>1
<1> HIDE DEF all, S
<1>6. all \in Seq(S) /\ Len(all) = n
  BY <1>2, FunctionIsSeq
<1>7. Lists(all, S)
  BY <1>4, <1>5, <1>6 DEF Lists
<1> QED
  BY <1>7 DEF all, S
\* The sites.
LEMMA ContentPageable ==
  ASSUME TreeTyped
  PROVE  /\ Pageable(ContentGroup)
         /\ Len(AllRows(ContentGroup)) = Len(siteRow)
         /\ \A i \in 1..Len(siteRow) : AllRows(ContentGroup)[i] = <<"site", Len(siteRow) + 1 - i>>
<1> DEFINE n == Len(siteRow)
           name == [k \in 1..n |-> <<"site", k>>]
<1>1. n \in Nat /\ DOMAIN siteRow = 1..n
  BY DEF TreeTyped
<1>2. ContentGroup[1] = "group" /\ ContentGroup[2] = "content" /\ ContentGroup # Root
  BY DEF Root, ContentGroup
<1>3. AllRows(ContentGroup) = SiteRows
  BY <1>2 DEF AllRows
<1>4. Children(ContentGroup) = {<<"site", i>> : i \in DOMAIN siteRow}
  BY <1>2 DEF Children, ContentGroup
<1>5. \A offset, fetch : NodesForParent(ContentGroup, offset, fetch) = Rows(SiteRows, offset, fetch)
  BY <1>2 DEF NodesForParent, ContentGroup
<1>6. \A i, j \in 1..n : name[i] = name[j] => i = j
  OBVIOUS
<1>7. /\ {name[k] : k \in 1..n} = Children(ContentGroup)
  BY <1>1, <1>4
<1>8. SiteRows = [i \in 1..n |-> name[n + 1 - i]]
  <2>1. \A i \in 1..n : n + 1 - i \in 1..n
    BY <1>1
  <2>2. \A i \in 1..n : name[n + 1 - i] = <<"site", n + 1 - i>>
    BY <2>1
  <2> QED
    BY <1>1, <2>2 DEF SiteRows
<1>9. Lists(SiteRows, Children(ContentGroup))
  <2> HIDE DEF name, n
  <2>1. Lists([i \in 1..n |-> name[n + 1 - i]], {name[k] : k \in 1..n})
    BY <1>1, <1>6, CountedDown
  <2> QED
    BY <1>7, <1>8, <2>1
<1>10. Len(SiteRows) = n
  <2>1. SiteRows \in Seq(Children(ContentGroup)) /\ DOMAIN SiteRows = 1..n
    BY <1>1, <1>9 DEF Lists, SiteRows
  <2> QED
    BY <1>1, <2>1
<1>11. \A x \in Children(ContentGroup) : Inner(x)
  BY <1>4 DEF Inner
<1>12. \A i \in 1..n : SiteRows[i] = <<"site", n + 1 - i>>
  BY <1>1 DEF SiteRows
<1> QED
  BY <1>3, <1>5, <1>9, <1>10, <1>11, <1>12 DEF Pageable

\* The revisions of a document.
LEMMA DocumentPageable ==
  ASSUME TreeTyped, NEW d \in TreeDocuments
  PROVE  LET parent == <<"document", d>>
             n == documentRow[d].revisions
         IN  /\ Pageable(parent)
             /\ Len(AllRows(parent)) = n
             /\ \A i \in 1..n : AllRows(parent)[i] = <<"revision", d, n + 1 - i>>
<1> DEFINE n == documentRow[d].revisions
           parent == <<"document", d>>
           name == [k \in 1..n |-> <<"revision", d, k>>]
<1>1. n \in Nat
  BY DEF TreeTyped
<1>2. parent[1] = "document" /\ parent[2] = d /\ parent # Root /\ parent # ContentGroup
  BY DEF Root, ContentGroup
<1>3. AllRows(parent) = RevisionRows(d)
  BY <1>2 DEF AllRows
<1>4. Children(parent) = {<<"revision", d, k>> : k \in 1..n}
  BY <1>2 DEF Children, ContentGroup
<1>5. \A offset, fetch : NodesForParent(parent, offset, fetch) = Rows(RevisionRows(d), offset, fetch)
  BY <1>2 DEF NodesForParent, ContentGroup
<1> HIDE DEF parent
<1>6. \A i, j \in 1..n : name[i] = name[j] => i = j
  OBVIOUS
<1>7. /\ {name[k] : k \in 1..n} = Children(parent)
  BY <1>1, <1>4
<1>8. RevisionRows(d) = [i \in 1..n |-> name[n + 1 - i]]
  <2>1. \A i \in 1..n : n + 1 - i \in 1..n
    BY <1>1
  <2>2. \A i \in 1..n : name[n + 1 - i] = <<"revision", d, n + 1 - i>>
    BY <2>1
  <2> QED
    BY <1>1, <2>2 DEF RevisionRows
<1>9. Lists(RevisionRows(d), Children(parent))
  <2> HIDE DEF name, n
  <2>1. Lists([i \in 1..n |-> name[n + 1 - i]], {name[k] : k \in 1..n})
    BY <1>1, <1>6, CountedDown
  <2> QED
    BY <1>7, <1>8, <2>1
<1>10. Len(RevisionRows(d)) = n
  <2>1. RevisionRows(d) \in Seq(Children(parent)) /\ DOMAIN RevisionRows(d) = 1..n
    BY <1>1, <1>9 DEF Lists, RevisionRows
  <2> QED
    BY <1>1, <2>1
<1>11. \A x \in Children(parent) : Leaf(x)
  <2>1. 1..n \subseteq Nat
    BY <1>1
  <2> QED
    BY <1>4, <2>1 DEF Leaf
<1>12. \A i \in 1..n : RevisionRows(d)[i] = <<"revision", d, n + 1 - i>>
  BY <1>1 DEF RevisionRows
<1> QED
  BY <1>3, <1>5, <1>9, <1>10, <1>11, <1>12 DEF Pageable, parent
\* The documents of a category.
LEMMA CategoryPageable ==
  ASSUME TreeTyped, TreeAssumption, NEW site, NEW category
  PROVE  Pageable(<<"category", site, category>>)
<1> DEFINE parent == <<"category", site, category>>
           S == DocumentsIn(site, category)
           rank == [d \in TreeDocuments |-> 0 - documentRow[d].updated]
           rows == RowsInOrder(S, rank)
           T == {<<"document", d>> : d \in S}
           named == [i \in DOMAIN rows |-> <<"document", rows[i]>>]
<1>1. /\ parent[1] = "category" /\ parent[2] = site /\ parent[3] = category
      /\ parent # Root /\ parent # ContentGroup
  BY DEF Root, ContentGroup
<1>2. AllRows(parent) = DocumentRows(site, category)
  BY <1>1 DEF AllRows
<1>3. Children(parent) = T
  BY <1>1 DEF Children, ContentGroup
<1>4. \A offset, fetch :
        NodesForParent(parent, offset, fetch) = Rows(DocumentRows(site, category), offset, fetch)
  BY <1>1 DEF NodesForParent, ContentGroup
<1> HIDE DEF parent
<1>5. S \subseteq TreeDocuments
  BY DEF DocumentsIn
<1>6. IsFiniteSet(S) /\ \A d \in S : rank[d] \in Int
  BY <1>5, FS_Subset DEF TreeAssumption, TreeTyped
<1>7. DocumentRows(site, category) = named
  BY DEF DocumentRows
<1> HIDE DEF S, rank
<1>8. /\ rows \in Seq(S) /\ Len(rows) = Cardinality(S) /\ Cardinality(S) \in Nat
      /\ DOMAIN rows = 1..Len(rows)
      /\ \A i, j \in 1..Len(rows) : rows[i] = rows[j] => i = j
      /\ \A x \in S : \E i \in 1..Len(rows) : rows[i] = x
  BY <1>6, RowsOnce
<1> HIDE DEF rows
<1>9. \A i \in 1..Len(rows) : named[i] = <<"document", rows[i]>> /\ rows[i] \in S
  BY <1>8
<1>10. Lists(named, T)
  <2>1. DOMAIN named = DOMAIN rows /\ named = [i \in DOMAIN rows |-> named[i]]
    OBVIOUS
  <2>2. \A i \in 1..Len(rows) : named[i] \in T
    BY <1>9
  <2>3. \A i, j \in 1..Len(rows) : named[i] = named[j] => i = j
    BY <1>8, <1>9
  <2>4. \A t \in T : \E i \in 1..Len(rows) : named[i] = t
    BY <1>8, <1>9
  <2> HIDE DEF named, T
  <2> QED
    BY <1>8, <2>1, <2>2, <2>3, <2>4, ListsNamed
<1>11. \A x \in T : Inner(x)
  BY <1>5 DEF Inner
<1> HIDE DEF T, named
<1> QED
  BY <1>2, <1>3, <1>4, <1>7, <1>10, <1>11 DEF Pageable, parent
\* Two sequences with the same elements are the same.
LEMMA SameSeq ==
  ASSUME NEW N, NEW s \in Seq(N), NEW t \in Seq(N), Len(s) = Len(t),
         \A i \in 1..Len(s) : s[i] = t[i]
  PROVE  s = t
<1>1. /\ s = [i \in 1..Len(s) |-> s[i]] /\ t = [i \in 1..Len(t) |-> t[i]]
  OBVIOUS
<1> QED
  BY <1>1

\* A page of rows that a node comes before.
AfterFirst(u, c, offset, fetch) ==
  IF offset = 0 THEN <<u>> \o Rows(c, 0, fetch - 1) ELSE Rows(c, offset - 1, fetch)

\* A node before the rows: the first page has it in front and a row less, and
\* the others begin one row earlier.
LEMMA RowsAfterFirst ==
  ASSUME NEW N, NEW u \in N, NEW c \in Seq(N), NEW all, all = <<u>> \o c,
         NEW offset \in Nat, NEW fetch \in Nat, fetch # 0
  PROVE  Rows(all, offset, fetch) = AfterFirst(u, c, offset, fetch)
<1>1. /\ all \in Seq(N) /\ Len(all) = Len(c) + 1 /\ Len(c) \in Nat
      /\ all[1] = u /\ \A i \in 1..Len(c) : all[i + 1] = c[i]
  OBVIOUS
<1>2. \A i \in 2..Len(all) : i - 1 \in 1..Len(c) /\ all[i] = c[i - 1]
  <2> SUFFICES ASSUME NEW i \in 2..Len(all)
               PROVE  i - 1 \in 1..Len(c) /\ all[i] = c[i - 1]
    OBVIOUS
  <2>1. i - 1 \in 1..Len(c) /\ (i - 1) + 1 = i
    BY <1>1
  <2> QED
    BY <1>1, <2>1
<1> DEFINE r == Rows(all, offset, fetch)
<1>3. /\ r \in Seq(N)
      /\ Len(r) = IF offset + fetch < Len(all) THEN fetch
                  ELSE IF offset < Len(all) THEN Len(all) - offset ELSE 0
      /\ \A i \in 1..Len(r) : r[i] = all[offset + i]
  <2>1. \A s \in Seq(N) :
          /\ Rows(s, offset, fetch) \in Seq(N)
          /\ Len(Rows(s, offset, fetch)) =
               IF offset + fetch < Len(s) THEN fetch
               ELSE IF offset < Len(s) THEN Len(s) - offset ELSE 0
          /\ \A i \in 1..Len(Rows(s, offset, fetch)) : Rows(s, offset, fetch)[i] = s[offset + i]
    BY RowsAre
  <2>2. all \in Seq(N)
    BY <1>1
  <2> QED
    BY <2>1, <2>2
<1>4. \A o \in Nat, f \in Nat :
        /\ Rows(c, o, f) \in Seq(N)
        /\ Len(Rows(c, o, f)) = IF o + f < Len(c) THEN f
                                ELSE IF o < Len(c) THEN Len(c) - o ELSE 0
        /\ \A i \in 1..Len(Rows(c, o, f)) : Rows(c, o, f)[i] = c[o + i]
  BY RowsAre
<1> HIDE DEF r
<1>5. CASE offset = 0
  <2> DEFINE less == fetch - 1
  <2>0. less \in Nat /\ less = fetch - 1
    OBVIOUS
  <2> HIDE DEF less
  <2> DEFINE q == Rows(c, 0, less)
             t == <<u>> \o q
  <2>1. /\ q \in Seq(N)
        /\ Len(q) = IF 0 + less < Len(c) THEN less ELSE IF 0 < Len(c) THEN Len(c) - 0 ELSE 0
        /\ \A i \in 1..Len(q) : q[i] = c[0 + i]
    BY <1>4, <2>0
  <2> HIDE DEF q
  <2>2. t \in Seq(N) /\ Len(t) = Len(q) + 1 /\ t[1] = u /\ Len(q) \in Nat
    BY <2>1
  <2>3. \A i \in 2..Len(t) : i - 1 \in 1..Len(q) /\ t[i] = q[i - 1]
    BY <2>1, <2>2
  <2> HIDE DEF t
  <2>4. Len(t) = Len(r)
    BY <1>1, <1>3, <1>5, <2>0, <2>1, <2>2
  <2>5. ASSUME NEW i \in 1..Len(t)
        PROVE  t[i] = r[i]
    <3>1. i \in 1..Len(r) /\ r[i] = all[i] /\ i <= Len(all)
      <4>1. i \in 1..Len(r) /\ offset + i = i
        BY <1>5, <2>2, <2>4
      <4>2. r[i] = all[i]
        BY <1>3, <4>1
      <4>3. i <= Len(all)
        BY <1>1, <1>3, <1>5, <4>1
      <4> QED
        BY <4>1, <4>2, <4>3
    <3>2. CASE i = 1
      BY <1>1, <2>2, <3>1, <3>2
    <3>3. CASE i # 1
      <4>1. i \in 2..Len(t) /\ i \in 2..Len(all)
        BY <1>1, <2>2, <3>1, <3>3
      <4> DEFINE j == i - 1
      <4>2. j \in 1..Len(q) /\ t[i] = q[j] /\ all[i] = c[j] /\ 0 + j = j
        BY <1>2, <2>3, <4>1
      <4> HIDE DEF j
      <4> QED
        BY <2>1, <3>1, <4>2
    <3> QED
      BY <3>2, <3>3
  <2>6. r = t
    BY <1>3, <2>2, <2>4, <2>5, SameSeq
  <2> QED
    BY <1>5, <2>0, <2>6 DEF r, t, q, less, AfterFirst
<1>6. CASE offset # 0
  <2> DEFINE o == offset - 1
  <2>0. o \in Nat /\ o = offset - 1
    BY <1>6
  <2> HIDE DEF o
  <2> DEFINE t == Rows(c, o, fetch)
  <2>1. /\ t \in Seq(N)
        /\ Len(t) = IF o + fetch < Len(c) THEN fetch
                    ELSE IF o < Len(c) THEN Len(c) - o ELSE 0
        /\ \A i \in 1..Len(t) : t[i] = c[o + i]
    BY <1>4, <2>0
  <2> HIDE DEF t
  <2>2. Len(t) = Len(r)
    BY <1>1, <1>3, <1>6, <2>0, <2>1
  <2>3. ASSUME NEW i \in 1..Len(t)
        PROVE  t[i] = r[i]
    <3> DEFINE k == offset + i
    <3>1. k \in 2..Len(all) /\ k - 1 = o + i /\ i \in 1..Len(r)
      BY <1>1, <1>3, <1>6, <2>0, <2>1, <2>2
    <3>2. all[k] = c[o + i]
      <4> HIDE DEF k
      <4>1. all[k] = c[k - 1]
        BY <1>2, <3>1
      <4> QED
        BY <3>1, <4>1
    <3> QED
      BY <1>3, <2>1, <3>1, <3>2
  <2>4. r = t
    BY <1>3, <2>1, <2>2, <2>3, SameSeq
  <2> QED
    BY <1>6, <2>0, <2>4 DEF r, t, o, AfterFirst
<1> QED
  BY <1>5, <1>6
\* The pages of rows that a node comes before.
PagesAfterFirst(all, u, c) ==
  \A offset \in Nat, limit \in Nat \ {0} :
    Rows(all, offset, limit + 1) = AfterFirst(u, c, offset, limit + 1)

\* ... and what is listed then is each node once, and the first.
LEMMA FirstBeforeRows ==
  ASSUME NEW T, NEW u, u \notin T, NEW c, Lists(c, T), NEW C, C = T \cup {u},
         NEW all, all = <<u>> \o c
  PROVE  Lists(all, C) /\ PagesAfterFirst(all, u, c)
<1>8. c \in Seq(C) /\ Len(c) \in Nat /\ \A i \in 1..Len(c) : c[i] \in T
  BY Lists(c, T) DEF Lists
<1>9. /\ all \in Seq(C) /\ Len(all) = Len(c) + 1
      /\ all[1] = u /\ \A i \in 1..Len(c) : all[i + 1] = c[i]
  BY <1>8
<1>10. \A offset \in Nat, limit \in Nat \ {0} :
         Rows(all, offset, limit + 1) = AfterFirst(u, c, offset, limit + 1)
  <2> SUFFICES ASSUME NEW offset \in Nat, NEW limit \in Nat \ {0}
               PROVE  Rows(all, offset, limit + 1) = AfterFirst(u, c, offset, limit + 1)
    OBVIOUS
  <2> DEFINE fetch == limit + 1
  <2>1. fetch \in Nat /\ fetch # 0
    OBVIOUS
  <2> HIDE DEF fetch
  <2>2. u \in C
    OBVIOUS
  <2>3. Rows(all, offset, fetch) = AfterFirst(u, c, offset, fetch)
    <3>1. c \in Seq(C) /\ all = <<u>> \o c
      BY <1>8
    <3> QED
      BY <2>1, <2>2, <3>1, RowsAfterFirst, ZenonT(60)
  <2> QED
    BY <2>3 DEF fetch
<1>11. \A i \in 2..Len(all) : i - 1 \in 1..Len(c) /\ all[i] = c[i - 1]
  <2> SUFFICES ASSUME NEW i \in 2..Len(all)
               PROVE  i - 1 \in 1..Len(c) /\ all[i] = c[i - 1]
    OBVIOUS
  <2>1. i - 1 \in 1..Len(c) /\ (i - 1) + 1 = i
    BY <1>8, <1>9
  <2> QED
    BY <1>9, <2>1
<1>12. ASSUME NEW i \in 1..Len(all), NEW j \in 1..Len(all), all[i] = all[j]
       PROVE  i = j
  <2>1. \A k \in 1..Len(all) : k # 1 => k \in 2..Len(all) /\ all[k] \in T
    BY <1>8, <1>9, <1>11
  <2>2. CASE i = 1 \/ j = 1
    BY <1>9, <1>12, <2>1, <2>2
  <2>3. CASE i # 1 /\ j # 1
    <3>1. /\ i - 1 \in 1..Len(c) /\ all[i] = c[i - 1]
          /\ j - 1 \in 1..Len(c) /\ all[j] = c[j - 1]
      BY <1>11, <2>1, <2>3
    <3>2. i - 1 = j - 1
      BY Lists(c, T), <1>12, <3>1 DEF Lists
    <3> QED
      BY <3>2
  <2> QED
    BY <2>2, <2>3
<1>13. ASSUME NEW x \in C
       PROVE  \E i \in 1..Len(all) : all[i] = x
  <2>1. CASE x = u
    BY <1>8, <1>9, <2>1
  <2>2. CASE x \in T
    <3>1. PICK i \in 1..Len(c) : c[i] = x
      BY Lists(c, T), <2>2 DEF Lists
    <3>2. i + 1 \in 1..Len(all) /\ all[i + 1] = x
      BY <1>8, <1>9, <3>1
    <3> QED
      BY <3>2
  <2> QED
    BY <2>1, <2>2
<1> QED
  BY <1>9, <1>10, <1>12, <1>13 DEF Lists, PagesAfterFirst

\* The categories of a site, Uncategorized before them.
LEMMA SitePageable ==
  ASSUME TreeTyped, TreeAssumption, NEW site \in DOMAIN siteRow
  PROVE  Pageable(<<"site", site>>)
<1> DEFINE parent == <<"site", site>>
           S == IF site = 1 THEN DOMAIN categoryRow ELSE {}
           u == <<"category", site, NoCategory>>
           c == IF site = 1 THEN CategoryRows ELSE <<>>
           T == {<<"category", site, x>> : x \in S}
           C == {<<"category", site, x>> : x \in {NoCategory} \cup S}
           all == <<u>> \o c
<1>1. /\ parent[1] = "site" /\ parent[2] = site
      /\ parent # Root /\ parent # ContentGroup
  BY DEF Root, ContentGroup
<1>2. AllRows(parent) = all
  BY <1>1 DEF AllRows
<1>3. Children(parent) = C
  BY <1>1 DEF Children, ContentGroup
<1>4. \A offset, fetch : NodesForParent(parent, offset, fetch) = AfterFirst(u, c, offset, fetch)
  BY <1>1 DEF NodesForParent, ContentGroup, SiteNodes, AfterFirst
<1> HIDE DEF parent
<1>5. Lists(c, T)
  <2>1. CASE site = 1
    <3> DEFINE rows == RowsInOrder(DOMAIN categoryRow, CategoryRank)
               named == [i \in DOMAIN rows |-> <<"category", 1, rows[i]>>]
    <3>1. c = named /\ S = DOMAIN categoryRow
      BY <2>1 DEF CategoryRows
    <3>2. \A x \in DOMAIN categoryRow : CategoryRank[x] \in Int
      BY TreeAssumption DEF CategoryRank, TreeTyped, TreeAssumption
    <3>3. IsFiniteSet(DOMAIN categoryRow)
      BY DEF TreeTyped
    <3> DEFINE D == DOMAIN categoryRow
    <3> HIDE DEF D
    <3>4. /\ rows \in Seq(D) /\ Len(rows) = Cardinality(D) /\ Cardinality(D) \in Nat
          /\ DOMAIN rows = 1..Len(rows)
          /\ \A i, j \in 1..Len(rows) : rows[i] = rows[j] => i = j
          /\ \A x \in D : \E i \in 1..Len(rows) : rows[i] = x
      BY <3>2, <3>3, RowsOnce DEF D
    <3> HIDE DEF rows
    <3>5. \A i \in 1..Len(rows) : named[i] = <<"category", 1, rows[i]>> /\ rows[i] \in D
      BY <3>4
    <3>6. T = {<<"category", 1, x>> : x \in D}
      BY <2>1 DEF D
    <3> HIDE DEF T
    <3>7. DOMAIN named = DOMAIN rows /\ named = [i \in DOMAIN rows |-> named[i]]
      OBVIOUS
    <3>8. \A i \in 1..Len(rows) : named[i] \in T
      <4>1. \A x \in D : <<"category", 1, x>> \in T
        BY <3>6
      <4> HIDE DEF named
      <4> QED
        BY <3>5, <4>1
    <3>9. \A i, j \in 1..Len(rows) : named[i] = named[j] => i = j
      BY <3>4, <3>5
    <3>10. \A t \in T : \E i \in 1..Len(rows) : named[i] = t
      BY <3>4, <3>5, <3>6
    <3> HIDE DEF named
    <3>11. Lists(named, T)
      BY <3>4, <3>7, <3>8, <3>9, <3>10, ListsNamed, SMTT(30)
    <3> QED
      BY <3>1, <3>11
  <2>2. CASE site # 1
    <3>1. c = <<>> /\ T = {}
      BY <2>2
    <3> HIDE DEF c, T
    <3> QED
      BY <3>1 DEF Lists
  <2> QED
    BY <2>1, <2>2
<1>6. S \subseteq DOMAIN categoryRow /\ NoCategory \notin S
  BY DEF TreeTyped, TreeAssumption
<1>7. T \subseteq C /\ C = T \cup {u} /\ u \notin T /\ \A x \in C : Inner(x)
  <2>1. T \subseteq C /\ C = T \cup {u}
    OBVIOUS
  <2>2. u \notin T
    BY <1>6
  <2>3. \A x \in C : Inner(x)
    <3>1. \A x \in {NoCategory} \cup S : Inner(<<"category", site, x>>)
      BY <1>6 DEF Inner
    <3> QED
      BY <3>1
  <2> QED
    BY <2>1, <2>2, <2>3
<1> HIDE DEF c, T, C, u, S
<1>8. Lists(all, C) /\ PagesAfterFirst(all, u, c)
  <2>1. all = <<u>> \o c
    OBVIOUS
  <2> HIDE DEF all
  <2> QED
    BY <1>5, <1>7, <2>1, FirstBeforeRows
<1> HIDE DEF all
<1>9. \A offset \in Nat, limit \in Nat \ {0} :
        NodesForParent(parent, offset, limit + 1) = Rows(all, offset, limit + 1)
  BY <1>4, <1>8 DEF PagesAfterFirst
<1> QED
  BY <1>2, <1>3, <1>7, <1>8, <1>9 DEF Pageable, parent
\* Every node that can be opened.
LEMMA ParentPageable ==
  ASSUME TreeTyped, TreeAssumption, NEW node, Parent(node)
  PROVE  Pageable(node)
<1>1. ASSUME NEW g \in Groups, node = <<"group", g>>
      PROVE  Pageable(node)
  <2>1. CASE g = "content"
    BY <1>1, <2>1, ContentPageable DEF ContentGroup
  <2>2. CASE g # "content"
    BY <1>1, <2>2, StaticPageable
  <2> QED
    BY <2>1, <2>2
<1>2. ASSUME NEW s \in DOMAIN siteRow, node = <<"site", s>>
      PROVE  Pageable(node)
  BY <1>2, SitePageable
<1>3. ASSUME NEW s \in DOMAIN siteRow, NEW c \in DOMAIN categoryRow \cup {NoCategory},
             node = <<"category", s, c>>
      PROVE  Pageable(node)
  BY <1>3, CategoryPageable
<1>4. ASSUME NEW d \in TreeDocuments, node = <<"document", d>>
      PROVE  Pageable(node)
  BY <1>4, DocumentPageable
<1> QED
  BY <1>1, <1>2, <1>3, <1>4, RootPageable DEF Parent, Inner

\* A page of a node: a stretch of all that it lists.
Page(parent, offset, limit) == FinishPage(NodesForParent(parent, offset, limit + 1), offset, limit)

\* Its rows, and the cursor after them.
LEMMA PageOf ==
  ASSUME NEW parent, Pageable(parent), NEW offset \in Nat, NEW limit \in Nat \ {0}
  PROVE  LET items == Page(parent, offset, limit).items
             all == AllRows(parent)
         IN  /\ items \in Seq(Children(parent)) /\ all \in Seq(Children(parent))
             /\ Len(items) = IF offset + limit < Len(all) THEN limit
                             ELSE IF offset < Len(all) THEN Len(all) - offset ELSE 0
             /\ \A i \in 1..Len(items) : items[i] = all[offset + i]
             /\ Page(parent, offset, limit).next =
                  IF offset + limit < Len(all) THEN offset + limit ELSE 0
<1> DEFINE all == AllRows(parent)
           N == Children(parent)
<1>1. all \in Seq(N)
  BY DEF Pageable, Lists
<1>2. Page(parent, offset, limit) = FinishPage(Rows(all, offset, limit + 1), offset, limit)
  BY DEF Page, Pageable
<1> HIDE DEF all, N
<1>3. LET page == FinishPage(Rows(all, offset, limit + 1), offset, limit)
      IN  /\ page.items \in Seq(N)
          /\ Len(page.items) = IF offset + limit < Len(all) THEN limit
                               ELSE IF offset < Len(all) THEN Len(all) - offset ELSE 0
          /\ \A i \in 1..Len(page.items) : page.items[i] = all[offset + i]
          /\ page.next = IF offset + limit < Len(all) THEN offset + limit ELSE 0
  BY <1>1, PageIs
<1> QED
  BY <1>1, <1>2, <1>3 DEF all, N---------------------------------------------------------------------------
(* What has been fetched of a node. *)

\* The nodes whose rows are numbered and come the newest first, and the rows.
NewestFirst(parent) == parent = ContentGroup \/ parent[1] = "document"
Numbered(parent, k) ==
  IF parent = ContentGroup THEN <<"site", k>> ELSE <<"revision", parent[2], k>>

\* Their rows are counted down.
LEMMA NewestRows ==
  ASSUME TreeTyped, NEW parent, Parent(parent), NewestFirst(parent)
  PROVE  LET n == Len(AllRows(parent))
         IN  /\ n \in Nat
             /\ \A i \in 1..n : AllRows(parent)[i] = Numbered(parent, n + 1 - i)
             /\ Children(parent) = {Numbered(parent, k) : k \in 1..n}
             /\ n = IF parent = ContentGroup THEN Len(siteRow) ELSE documentRow[parent[2]].revisions
             /\ parent # ContentGroup => parent[2] \in TreeDocuments
<1>1. CASE parent = ContentGroup
  <2> DEFINE n == Len(siteRow)
  <2>1. n \in Nat /\ DOMAIN siteRow = 1..n
    BY DEF TreeTyped
  <2>2. /\ Len(AllRows(parent)) = n
        /\ \A i \in 1..n : AllRows(parent)[i] = <<"site", n + 1 - i>>
    BY <1>1, ContentPageable
  <2>3. Children(parent) = {<<"site", i>> : i \in DOMAIN siteRow}
    <3>1. parent = <<"group", "content">> /\ parent # Root
      BY <1>1 DEF ContentGroup, Root
    <3> QED
      BY <3>1 DEF Children
  <2>4. \A k : Numbered(parent, k) = <<"site", k>>
    BY <1>1 DEF Numbered
  <2>5. Children(parent) = {Numbered(parent, k) : k \in 1..n}
    BY <2>1, <2>3, <2>4
  <2>6. \A i \in 1..n : AllRows(parent)[i] = Numbered(parent, n + 1 - i)
    BY <2>2, <2>4
  <2>7. Len(AllRows(parent)) = Len(siteRow)
    BY <2>2
  <2> HIDE DEF n
  <2> QED
    BY <1>1, <2>1, <2>2, <2>5, <2>6, <2>7
<1>2. CASE parent # ContentGroup
  <2>1. PICK d \in TreeDocuments : parent = <<"document", d>>
    <3>1. parent[1] = "document"
      BY <1>2 DEF NewestFirst
    <3>2. /\ Root[1] # "document" /\ \A g : <<"group", g>>[1] # "document"
          /\ \A s : <<"site", s>>[1] # "document"
          /\ \A s, c : <<"category", s, c>>[1] # "document"
      BY DEF Root
    <3> QED
      BY <3>1, <3>2 DEF Parent, Inner
  <2> DEFINE n == documentRow[d].revisions
  <2>2. n \in Nat /\ parent[2] = d /\ parent[1] = "document"
    BY <2>1 DEF TreeTyped
  <2>3. /\ Len(AllRows(parent)) = n
        /\ \A i \in 1..n : AllRows(parent)[i] = <<"revision", d, n + 1 - i>>
    BY <2>1, DocumentPageable
  <2>4. Children(parent) = {<<"revision", d, k>> : k \in 1..n}
    <3>1. parent # <<"group", "content">> /\ parent # Root
      BY <1>2, <2>2 DEF ContentGroup, Root
    <3> QED
      BY <2>2, <3>1 DEF Children
  <2>5. \A k : Numbered(parent, k) = <<"revision", d, k>>
    BY <1>2, <2>2 DEF Numbered
  <2>6. Children(parent) = {Numbered(parent, k) : k \in 1..n}
    BY <2>4, <2>5
  <2>7. n = documentRow[parent[2]].revisions
    BY <2>2
  <2> HIDE DEF n
  <2> QED
    BY <1>2, <2>2, <2>3, <2>5, <2>6, <2>7
<1> QED
  BY <1>1, <1>2

\* What is shown are nodes, of a node that can be opened.
NodesShown(b) ==
  /\ DOMAIN b = {"parent", "shown", "next", "quiet", "atStart"}
  /\ Parent(b.parent) /\ b.next \in Nat
  /\ b.shown \in Seq(Range(b.shown))
  /\ \A i \in 1..Len(b.shown) : Inner(b.shown[i]) \/ Leaf(b.shown[i])

\* While nothing is written, it is what the node lists, up to the cursor.
ListedSoFar(b) ==
  b.quiet =>
    IF b.next = 0 THEN b.shown = AllRows(b.parent)
    ELSE /\ b.next < Len(AllRows(b.parent)) /\ Len(b.shown) = b.next
         /\ \A i \in 1..b.next : b.shown[i] = AllRows(b.parent)[i]

\* Of the sites or revisions there were, those before the cursor are shown:
\* what came since has moved the others away from it.
NewestShown(b) ==
  NewestFirst(b.parent) =>
    \E first \in 0..Len(AllRows(b.parent)) :
      /\ b.atStart = {Numbered(b.parent, k) : k \in 1..first}
      /\ \A k \in 1..first : b.next = 0 \/ k > Len(AllRows(b.parent)) - b.next =>
           \E i \in 1..Len(b.shown) : b.shown[i] = Numbered(b.parent, k)

BrowseSound(b) == NodesShown(b) /\ ListedSoFar(b) /\ NewestShown(b)
BrowseInv == TreeTyped /\ (browse # NoBrowse => BrowseSound(browse))
\* The invariant is enough.
LEMMA BrowseHolds ==
  ASSUME BrowseInv, TreeAssumption
  PROVE  BrowseFaithful
<1> SUFFICES ASSUME browse # NoBrowse
             PROVE  BrowseFaithful
  BY DEF BrowseFaithful, QuietBrowseExact, NewRowsHideNone, MarksHold, Finished
<1>1. TreeTyped /\ NodesShown(browse) /\ ListedSoFar(browse) /\ NewestShown(browse)
  BY DEF BrowseInv, BrowseSound
<1>2. DOMAIN browse.shown = 1..Len(browse.shown)
  BY <1>1 DEF NodesShown
<1>3. QuietBrowseExact
  <2> SUFFICES ASSUME Finished, browse.quiet
               PROVE  /\ Range(browse.shown) = Children(browse.parent)
                      /\ Len(browse.shown) = Cardinality(Children(browse.parent))
    BY DEF QuietBrowseExact
  <2>1. browse.shown = AllRows(browse.parent)
    BY <1>1 DEF Finished, ListedSoFar
  <2>2. Lists(AllRows(browse.parent), Children(browse.parent))
    BY <1>1, ParentPageable DEF NodesShown, Pageable
  <2> QED
    BY <2>1, <2>2, ListsCount
<1>4. NewRowsHideNone
  <2> SUFFICES ASSUME Finished, NewestFirst(browse.parent)
               PROVE  browse.atStart \subseteq Range(browse.shown)
    BY DEF NewRowsHideNone, NewestFirst, ContentGroup
  <2>1. PICK first \in 0..Len(AllRows(browse.parent)) :
          /\ browse.atStart = {Numbered(browse.parent, k) : k \in 1..first}
          /\ \A k \in 1..first : \E i \in 1..Len(browse.shown) :
               browse.shown[i] = Numbered(browse.parent, k)
    BY <1>1 DEF Finished, NewestShown
  <2>2. \A i \in 1..Len(browse.shown) : browse.shown[i] \in Range(browse.shown)
    BY <1>2 DEF Range
  <2> QED
    BY <2>1, <2>2
<1>5. MarksHold
  <2> SUFFICES ASSUME NEW i \in DOMAIN browse.shown
               PROVE  OpenAnswer(browse.shown[i]) =
                        IF HasChildren(browse.shown[i]) THEN "children" ELSE "leaf"
    BY DEF MarksHold
  <2>1. Inner(browse.shown[i]) \/ Leaf(browse.shown[i])
    BY <1>1, <1>2 DEF NodesShown
  <2> DEFINE node == browse.shown[i]
  <2> HIDE DEF node
  <2>2. Inner(node) \/ Leaf(node)
    BY <2>1 DEF node
  <2>3. OpenAnswer(node) = IF HasChildren(node) THEN "children" ELSE "leaf"
    BY <2>2, NodeAnswers
  <2> QED
    BY <2>3 DEF node
<1> QED
  BY <1>3, <1>4, <1>5 DEF BrowseFaithful

\* The elements of a sequence are in its range.
LEMMA OwnRange ==
  ASSUME NEW N, NEW s \in Seq(N)
  PROVE  s \in Seq(Range(s))
<1>1. s \in [1..Len(s) -> Range(s)] /\ Len(s) \in Nat
  BY DEF Range
<1> QED
  BY <1>1, FunctionIsSeq

\* The first page of a node.
LEMMA FirstPageSound ==
  ASSUME TreeTyped, TreeAssumption, NEW parent, Parent(parent), NEW limit \in Nat \ {0}
  PROVE  BrowseSound([parent |-> parent, shown |-> Page(parent, 0, limit).items,
                      next |-> Page(parent, 0, limit).next, quiet |-> TRUE,
                      atStart |-> Children(parent)])
<1> DEFINE items == Page(parent, 0, limit).items
           next == Page(parent, 0, limit).next
           all == AllRows(parent)
           n == Len(all)
           b == [parent |-> parent, shown |-> items, next |-> next, quiet |-> TRUE,
                 atStart |-> Children(parent)]
<1>1. Pageable(parent)
  BY ParentPageable
<1>2. /\ items \in Seq(Children(parent)) /\ all \in Seq(Children(parent)) /\ n \in Nat
      /\ Len(items) = IF limit < n THEN limit ELSE n
      /\ \A i \in 1..Len(items) : items[i] = all[i]
      /\ next = IF limit < n THEN limit ELSE 0
  <2>1. \A offset \in Nat :
          /\ Page(parent, offset, limit).items \in Seq(Children(parent))
          /\ all \in Seq(Children(parent))
          /\ Len(Page(parent, offset, limit).items) =
               IF offset + limit < n THEN limit ELSE IF offset < n THEN n - offset ELSE 0
          /\ \A i \in 1..Len(Page(parent, offset, limit).items) :
               Page(parent, offset, limit).items[i] = all[offset + i]
          /\ Page(parent, offset, limit).next =
               IF offset + limit < n THEN offset + limit ELSE 0
    BY <1>1, PageOf
  <2>2. n \in Nat
    BY <2>1
  <2> DEFINE start == 0
  <2>3. start = 0 /\ start \in Nat
    OBVIOUS
  <2>4. items = Page(parent, start, limit).items /\ next = Page(parent, start, limit).next
    OBVIOUS
  <2> HIDE DEF all, start, items, next, n
  <2>5. /\ items \in Seq(Children(parent)) /\ all \in Seq(Children(parent))
        /\ Len(items) = IF start + limit < n THEN limit ELSE IF start < n THEN n - start ELSE 0
        /\ \A i \in 1..Len(items) : items[i] = all[start + i]
        /\ next = IF start + limit < n THEN start + limit ELSE 0
    BY <2>1, <2>3, <2>4
  <2>6. \A i \in 1..Len(items) : start + i = i
    BY <2>3
  <2> QED
    BY <2>2, <2>3, <2>5, <2>6
<1>3. /\ DOMAIN b = {"parent", "shown", "next", "quiet", "atStart"}
      /\ b.parent = parent /\ b.shown = items /\ b.next = next /\ b.quiet
      /\ b.atStart = Children(parent)
  OBVIOUS
<1> HIDE DEF items, next, all, b
<1>4. NodesShown(b)
  <2>1. items \in Seq(Range(items))
    BY <1>2, OwnRange
  <2>2. next \in Nat
    BY <1>2
  <2>3. \A i \in 1..Len(items) : Inner(items[i]) \/ Leaf(items[i])
    BY <1>1, <1>2 DEF Pageable
  <2> QED
    BY <1>3, <2>1, <2>2, <2>3 DEF NodesShown
<1>5. ListedSoFar(b)
  <2>1. CASE limit < n
    BY <1>2, <1>3, <2>1 DEF ListedSoFar, all
  <2>2. CASE ~(limit < n)
    <3>1. items = all
      BY <1>2, <2>2, SameSeq
    <3> QED
      BY <1>2, <1>3, <2>2, <3>1 DEF ListedSoFar, all
  <2> QED
    BY <2>1, <2>2
<1>6. NewestShown(b)
  <2> SUFFICES ASSUME NewestFirst(parent)
               PROVE  \E first \in 0..n :
                        /\ Children(parent) = {Numbered(parent, k) : k \in 1..first}
                        /\ \A k \in 1..first : next = 0 \/ k > n - next =>
                             \E i \in 1..Len(items) : items[i] = Numbered(parent, k)
    BY <1>3 DEF NewestShown, all
  <2>1. /\ \A i \in 1..n : all[i] = Numbered(parent, n + 1 - i)
        /\ Children(parent) = {Numbered(parent, k) : k \in 1..n}
    BY NewestRows DEF all
  <2>2. ASSUME NEW k \in 1..n, next = 0 \/ k > n - next
        PROVE  \E i \in 1..Len(items) : items[i] = Numbered(parent, k)
    <3> DEFINE i == n + 1 - k
    <3>1. i \in 1..Len(items) /\ i \in 1..n /\ n + 1 - i = k
      BY <1>2, <2>2
    <3> HIDE DEF i
    <3>2. items[i] = Numbered(parent, k)
      BY <1>2, <2>1, <3>1
    <3> QED
      BY <3>1, <3>2
  <2>3. n \in 0..n
    BY <1>2
  <2> QED
    BY <2>1, <2>2, <2>3
<1> QED
  BY <1>4, <1>5, <1>6 DEF BrowseSound, b, items, next
\* The page after.
LEMMA NextPageSound ==
  ASSUME TreeTyped, TreeAssumption, NEW old, BrowseSound(old), old.next # 0,
         NEW limit \in Nat \ {0}
  PROVE  BrowseSound([old EXCEPT !.shown = @ \o Page(old.parent, old.next, limit).items,
                                 !.next = Page(old.parent, old.next, limit).next])
<1> DEFINE parent == old.parent
           shown == old.shown
           o == old.next
           items == Page(parent, o, limit).items
           next == Page(parent, o, limit).next
           all == AllRows(parent)
           n == Len(all)
           longer == shown \o items
           b == [old EXCEPT !.shown = longer, !.next = next]
<1>1. NodesShown(old) /\ ListedSoFar(old) /\ NewestShown(old)
  BY DEF BrowseSound
<1>2. /\ DOMAIN old = {"parent", "shown", "next", "quiet", "atStart"}
      /\ Parent(parent) /\ o \in Nat /\ o # 0
      /\ shown \in Seq(Range(shown))
      /\ \A i \in 1..Len(shown) : Inner(shown[i]) \/ Leaf(shown[i])
  BY <1>1 DEF NodesShown
<1>3. /\ DOMAIN b = {"parent", "shown", "next", "quiet", "atStart"}
      /\ b.parent = parent /\ b.shown = longer /\ b.next = next /\ b.quiet = old.quiet
      /\ b.atStart = old.atStart
  BY <1>2
<1>4. [old EXCEPT !.shown = @ \o Page(old.parent, old.next, limit).items,
                  !.next = Page(old.parent, old.next, limit).next] = b
  OBVIOUS
<1> HIDE DEF b
<1>5. Pageable(parent)
  BY <1>2, ParentPageable
<1>6. /\ old.quiet => o < n /\ Len(shown) = o /\ \A i \in 1..o : shown[i] = all[i]
      /\ NewestFirst(parent) =>
           \E first \in 0..n :
             /\ old.atStart = {Numbered(parent, k) : k \in 1..first}
             /\ \A k \in 1..first : k > n - o => \E i \in 1..Len(shown) : shown[i] = Numbered(parent, k)
  BY <1>1, <1>2 DEF ListedSoFar, NewestShown
<1> HIDE DEF parent, shown, o
<1>7. /\ items \in Seq(Children(parent)) /\ all \in Seq(Children(parent)) /\ n \in Nat
      /\ Len(items) = IF o + limit < n THEN limit ELSE IF o < n THEN n - o ELSE 0
      /\ \A i \in 1..Len(items) : items[i] = all[o + i]
      /\ next = IF o + limit < n THEN o + limit ELSE 0
  <2>1. /\ items \in Seq(Children(parent)) /\ all \in Seq(Children(parent))
        /\ Len(items) = IF o + limit < n THEN limit ELSE IF o < n THEN n - o ELSE 0
        /\ \A i \in 1..Len(items) : items[i] = all[o + i]
        /\ next = IF o + limit < n THEN o + limit ELSE 0
    BY <1>2, <1>5, PageOf
  <2> HIDE DEF items, next, all
  <2> QED
    BY <2>1
<1> HIDE DEF items, next, all
<1> DEFINE N == Range(shown) \cup Children(parent)
<1>8. shown \in Seq(N) /\ items \in Seq(N) /\ Len(shown) \in Nat /\ Len(items) \in Nat
  BY <1>2, <1>7
<1> HIDE DEF N
<1>9. /\ longer \in Seq(N) /\ Len(longer) = Len(shown) + Len(items)
      /\ \A i \in 1..Len(shown) : longer[i] = shown[i]
      /\ \A i \in 1..Len(items) : longer[Len(shown) + i] = items[i]
  BY <1>8
<1>10. \A i \in 1..Len(longer) :
         \/ i \in 1..Len(shown)
         \/ i - Len(shown) \in 1..Len(items) /\ longer[i] = items[i - Len(shown)]
  BY <1>8
<1>11. /\ 1..Len(shown) \subseteq 1..Len(longer)
       /\ \A i \in 1..Len(items) : Len(shown) + i \in 1..Len(longer)
  BY <1>8, <1>9
<1> HIDE DEF longer
<1>12. NodesShown(b)
  <2>1. longer \in Seq(Range(longer))
    BY <1>9, OwnRange
  <2>2. next \in Nat
    BY <1>2, <1>7
  <2>3. \A i \in 1..Len(items) : Inner(items[i]) \/ Leaf(items[i])
    BY <1>5, <1>7 DEF Pageable
  <2>4. \A i \in 1..Len(longer) : Inner(longer[i]) \/ Leaf(longer[i])
    BY <1>2, <1>9, <1>10, <2>3
  <2> QED
    BY <1>2, <1>3, <2>1, <2>2, <2>4 DEF NodesShown
<1>13. ListedSoFar(b)
  <2> SUFFICES ASSUME old.quiet
               PROVE  IF next = 0 THEN longer = all
                      ELSE /\ next < n /\ Len(longer) = next
                           /\ \A i \in 1..next : longer[i] = all[i]
    BY <1>3 DEF ListedSoFar, all
  <2>1. o < n /\ Len(shown) = o /\ \A i \in 1..o : shown[i] = all[i]
    BY <1>6
  <2>2. \A i \in 1..Len(longer) : longer[i] = all[i]
    <3> SUFFICES ASSUME NEW i \in 1..Len(longer)
                 PROVE  longer[i] = all[i]
      OBVIOUS
    <3>1. CASE i \in 1..Len(shown)
      BY <1>9, <2>1, <3>1
    <3>2. CASE i - Len(shown) \in 1..Len(items) /\ longer[i] = items[i - Len(shown)]
      <4>1. o + (i - Len(shown)) = i
        BY <1>2, <2>1
      <4> QED
        BY <1>7, <3>2, <4>1
    <3> QED
      BY <1>10, <3>1, <3>2
  <2>3. CASE o + limit < n
    <3>1. next = o + limit /\ next # 0 /\ next < n /\ Len(longer) = next
      BY <1>2, <1>7, <1>9, <2>1, <2>3
    <3> QED
      BY <2>2, <3>1
  <2>4. CASE ~(o + limit < n)
    <3>1. next = 0 /\ Len(longer) = Len(all)
      BY <1>2, <1>7, <1>9, <2>1, <2>4
    <3>2. longer = all
      <4> DEFINE M == N \cup Children(parent)
      <4>1. longer \in Seq(M) /\ all \in Seq(M)
        BY <1>7, <1>9
      <4> HIDE DEF M
      <4> QED
        BY <2>2, <3>1, <4>1, SameSeq
    <3> QED
      BY <3>1, <3>2
  <2> QED
    BY <2>3, <2>4
<1>14. NewestShown(b)
  <2> SUFFICES ASSUME NewestFirst(parent)
               PROVE  \E first \in 0..n :
                        /\ old.atStart = {Numbered(parent, k) : k \in 1..first}
                        /\ \A k \in 1..first : next = 0 \/ k > n - next =>
                             \E i \in 1..Len(longer) : longer[i] = Numbered(parent, k)
    BY <1>3 DEF NewestShown, all
  <2>1. \A i \in 1..n : all[i] = Numbered(parent, n + 1 - i)
    BY <1>2, NewestRows DEF all
  <2>2. PICK first \in 0..n :
          /\ old.atStart = {Numbered(parent, k) : k \in 1..first}
          /\ \A k \in 1..first : k > n - o => \E i \in 1..Len(shown) : shown[i] = Numbered(parent, k)
    BY <1>6
  <2>3. ASSUME NEW k \in 1..first, next = 0 \/ k > n - next
        PROVE  \E i \in 1..Len(longer) : longer[i] = Numbered(parent, k)
    <3>1. CASE k > n - o
      <4>1. PICK i \in 1..Len(shown) : shown[i] = Numbered(parent, k)
        BY <2>2, <3>1
      <4>2. i \in 1..Len(longer) /\ longer[i] = Numbered(parent, k)
        BY <1>9, <1>11, <4>1
      <4> QED
        BY <4>2
    <3>2. CASE ~(k > n - o)
      <4> DEFINE i == n + 1 - o - k
                 r == n + 1 - k
      <4>0. k \in 1..n
        BY <1>7
      <4>1. i \in 1..Len(items) /\ o + i = r /\ r \in 1..n /\ n + 1 - r = k
        BY <1>2, <1>7, <2>3, <3>2, <4>0
      <4> HIDE DEF i, r
      <4>2. items[i] = Numbered(parent, k)
        BY <1>7, <2>1, <4>1
      <4>3. Len(shown) + i \in 1..Len(longer) /\ longer[Len(shown) + i] = Numbered(parent, k)
        BY <1>9, <1>11, <4>1, <4>2
      <4> QED
        BY <4>3
    <3> QED
      BY <3>1, <3>2
  <2> QED
    BY <2>2, <2>3
<1> QED
  BY <1>4, <1>12, <1>13, <1>14 DEF BrowseSound---------------------------------------------------------------------------
(* The steps. *)

\* What was fetched stays sound while the rows are the same.
LEMMA SameRows ==
  ASSUME UNCHANGED <<siteRow, categoryRow, documentRow>>, NEW b, BrowseSound(b)
  PROVE  BrowseSound(b)'
<1>1. \A p : AllRows(p)' = AllRows(p)
  <2>1. SiteRows' = SiteRows /\ CategoryRows' = CategoryRows
    BY DEF SiteRows, CategoryRows, CategoryRank
  <2>2. \A s, c : DocumentRows(s, c)' = DocumentRows(s, c)
    BY DEF DocumentRows, DocumentsIn
  <2>3. \A d : RevisionRows(d)' = RevisionRows(d)
    BY DEF RevisionRows
  <2> QED
    BY <2>1, <2>2, <2>3 DEF AllRows
<1>2. \A p : Inner(p)' = Inner(p)
  BY DEF Inner
<1>3. \A p : Parent(p)' = Parent(p)
  BY <1>2 DEF Parent
<1>4. NodesShown(b)'
  BY <1>2, <1>3 DEF BrowseSound, NodesShown
<1>5. ListedSoFar(b)'
  BY <1>1 DEF BrowseSound, ListedSoFar
<1>6. NewestShown(b)'
  BY <1>1 DEF BrowseSound, NewestShown
<1> QED
  BY <1>4, <1>5, <1>6 DEF BrowseSound
\* As many rows as the function that lists them has arguments.
LEMMA RowCount ==
  ASSUME NEW n \in Nat, NEW f, f = [i \in 1..n |-> f[i]]
  PROVE  Len(f) = n
<1>1. f \in [1..n -> {f[i] : i \in 1..n}]
  OBVIOUS
<1> QED
  BY <1>1, FunctionIsSeq

\* ... nor when rows come, as long as none goes and it counts as disturbed.
LEMMA GrownRows ==
  ASSUME TreeTyped, TreeTyped', DOMAIN siteRow \subseteq DOMAIN siteRow',
         Len(siteRow) <= Len(siteRow'), DOMAIN categoryRow \subseteq DOMAIN categoryRow',
         \A d \in TreeDocuments : documentRow[d].revisions <= documentRow'[d].revisions,
         NEW b, BrowseSound(b), NEW c, c = [b EXCEPT !.quiet = FALSE]
  PROVE  BrowseSound(c)'
<1>1. NodesShown(b) /\ NewestShown(b)
  BY DEF BrowseSound
<1>2. /\ DOMAIN c = {"parent", "shown", "next", "quiet", "atStart"}
      /\ c.parent = b.parent /\ c.shown = b.shown /\ c.next = b.next /\ ~c.quiet
      /\ c.atStart = b.atStart
  BY <1>1 DEF NodesShown
<1>3. \A p : Inner(p) => Inner(p)'
  BY DEF Inner
<1>4. \A p : Parent(p) => Parent(p)'
  BY <1>3 DEF Parent
<1>5. NodesShown(c)'
  BY <1>1, <1>2, <1>3, <1>4 DEF NodesShown
<1>6. ListedSoFar(c)'
  BY <1>2 DEF ListedSoFar
<1>7. NewestShown(c)'
  <2> DEFINE p == b.parent
             n == Len(AllRows(p))
             m == Len(AllRows(p)')
  <2> SUFFICES ASSUME NewestFirst(p)
               PROVE  \E first \in 0..m :
                        /\ b.atStart = {Numbered(p, k) : k \in 1..first}
                        /\ \A k \in 1..first : b.next = 0 \/ k > m - b.next =>
                             \E i \in 1..Len(b.shown) : b.shown[i] = Numbered(p, k)
    BY <1>2 DEF NewestShown
  <2>1. /\ n \in Nat
        /\ n = IF p = ContentGroup THEN Len(siteRow) ELSE documentRow[p[2]].revisions
        /\ p # ContentGroup => p[2] \in TreeDocuments /\ p[1] = "document"
    <3>1. Parent(p)
      BY <1>1 DEF NodesShown
    <3> HIDE DEF p
    <3> QED
      BY <3>1, NewestRows DEF NewestFirst
  <2> HIDE DEF p
  <2>2. m \in Nat /\ n <= m
    <3>1. CASE p = ContentGroup
      <4>1. p # Root /\ p[1] = "group" /\ p[2] = "content"
        BY <3>1 DEF Root, ContentGroup
      <4>2. AllRows(p)' = SiteRows'
        BY <3>1, <4>1 DEF AllRows
      <4> DEFINE f == SiteRows'
                 s == Len(siteRow')
      <4>3. s \in Nat /\ DOMAIN siteRow' = 1..s
        BY DEF TreeTyped
      <4>4. f = [i \in 1..s |-> f[i]]
        BY <4>3 DEF SiteRows
      <4> HIDE DEF f, s
      <4>5. Len(f) = s
        BY <4>3, <4>4, RowCount
      <4> QED
        BY <2>1, <3>1, <4>2, <4>3, <4>5 DEF f, s
    <3>2. CASE p # ContentGroup
      <4> DEFINE d == p[2]
                 f == RevisionRows(d)'
                 s == documentRow'[d].revisions
      <4>1. p # Root /\ p[1] = "document" /\ d \in TreeDocuments
        BY <2>1, <3>2 DEF Root
      <4>2. AllRows(p)' = f
        BY <3>2, <4>1 DEF AllRows
      <4>3. s \in Nat /\ documentRow[d].revisions <= s
        BY <4>1 DEF TreeTyped
      <4>4. f = [i \in 1..s |-> f[i]]
        BY <4>3 DEF RevisionRows
      <4> HIDE DEF f, s
      <4>5. Len(f) = s
        BY <4>3, <4>4, RowCount
      <4> QED
        BY <2>1, <3>2, <4>2, <4>3, <4>5
    <3> QED
      BY <3>1, <3>2
  <2>3. PICK first \in 0..n :
          /\ b.atStart = {Numbered(p, k) : k \in 1..first}
          /\ \A k \in 1..first : b.next = 0 \/ k > n - b.next =>
               \E i \in 1..Len(b.shown) : b.shown[i] = Numbered(p, k)
    BY <1>1 DEF NewestShown, p
  <2>4. b.next \in Nat
    BY <1>1 DEF NodesShown
  <2> HIDE DEF n, m
  <2>5. \A k \in 1..first : k > m - b.next => k > n - b.next
    BY <2>1, <2>2, <2>4
  <2>6. first \in 0..m
    BY <2>1, <2>2
  <2> QED
    BY <2>3, <2>5, <2>6
<1> QED
  BY <1>5, <1>6, <1>7 DEF BrowseSound
\* A node is opened.
LEMMA OpenNodeKeeps ==
  ASSUME BrowseInv, TreeAssumption, NEW parent, Parent(parent), NEW limit \in PageSizes,
         OpenNode(parent, limit)
  PROVE  BrowseInv'
<1>1. TreeTyped /\ limit \in Nat \ {0}
  BY DEF BrowseInv, TreeAssumption
<1>2. TreeTyped'
  BY <1>1 DEF TreeTyped, OpenNode
<1>3. /\ browse' = [parent |-> parent, shown |-> Page(parent, 0, limit).items,
                    next |-> Page(parent, 0, limit).next, quiet |-> TRUE,
                    atStart |-> Children(parent)]
      /\ UNCHANGED <<siteRow, categoryRow, documentRow>>
  BY DEF OpenNode, Page
<1>4. PICK b : b = browse'
  OBVIOUS
<1>5. BrowseSound(b)
  <2>1. BrowseSound([parent |-> parent, shown |-> Page(parent, 0, limit).items,
                     next |-> Page(parent, 0, limit).next, quiet |-> TRUE,
                     atStart |-> Children(parent)])
    BY <1>1, FirstPageSound
  <2> QED
    BY <1>3, <1>4, <2>1
<1>6. BrowseSound(b)'
  BY <1>3, <1>5, SameRows
<1> QED
  BY <1>2, <1>4, <1>6 DEF BrowseInv

\* The next page is fetched.
LEMMA NextPageKeeps ==
  ASSUME BrowseInv, TreeAssumption, NEW limit \in PageSizes, NextPage(limit)
  PROVE  BrowseInv'
<1>1. TreeTyped /\ limit \in Nat \ {0} /\ BrowseSound(browse) /\ browse.next # 0
  BY DEF BrowseInv, TreeAssumption, NextPage
<1>2. TreeTyped'
  BY <1>1 DEF TreeTyped, NextPage
<1>3. /\ browse' = [browse EXCEPT !.shown = @ \o Page(browse.parent, browse.next, limit).items,
                                  !.next = Page(browse.parent, browse.next, limit).next]
      /\ UNCHANGED <<siteRow, categoryRow, documentRow>>
  BY DEF NextPage, Page
<1>4. PICK b : b = browse'
  OBVIOUS
<1>5. BrowseSound(b)
  <2>1. BrowseSound([browse EXCEPT
                       !.shown = @ \o Page(browse.parent, browse.next, limit).items,
                       !.next = Page(browse.parent, browse.next, limit).next])
    BY <1>1, NextPageSound
  <2> QED
    BY <1>3, <1>4, <2>1
<1>6. BrowseSound(b)'
  BY <1>3, <1>5, SameRows
<1> QED
  BY <1>2, <1>4, <1>6 DEF BrowseInv

\* Nothing of the tree happens, or only the session ends.
LEMMA BrowseUntouched ==
  ASSUME BrowseInv, UNCHANGED <<siteRow, categoryRow, documentRow, changes, browse>>
  PROVE  BrowseInv'
<1>1. TreeTyped'
  BY DEF BrowseInv, TreeTyped
<1>2. ASSUME browse # NoBrowse
      PROVE  BrowseSound(browse)'
  <2>1. PICK b : b = browse
    OBVIOUS
  <2>2. BrowseSound(b)'
    BY <1>2, <2>1, SameRows DEF BrowseInv
  <2> QED
    BY <2>1, <2>2
<1> QED
  BY <1>1, <1>2 DEF BrowseInv

\* Something is written: rows come or change, none goes.
LEMMA WriteKeeps ==
  ASSUME BrowseInv, Changed, TreeTyped', DOMAIN siteRow \subseteq DOMAIN siteRow',
         Len(siteRow) <= Len(siteRow'), DOMAIN categoryRow \subseteq DOMAIN categoryRow',
         \A d \in TreeDocuments : documentRow[d].revisions <= documentRow'[d].revisions
  PROVE  BrowseInv'
<1>1. ASSUME browse' # NoBrowse
      PROVE  BrowseSound(browse)'
  <2>1. browse # NoBrowse /\ browse' = [browse EXCEPT !.quiet = FALSE]
    BY <1>1 DEF Changed
  <2>2. PICK b : b = browse
    OBVIOUS
  <2>3. PICK c : c = browse'
    OBVIOUS
  <2>4. c = [b EXCEPT !.quiet = FALSE] /\ BrowseSound(b) /\ TreeTyped
    BY <2>1, <2>2, <2>3 DEF BrowseInv
  <2>5. BrowseSound(c)'
    BY <2>4, GrownRows
  <2> QED
    BY <2>3, <2>5
<1> QED
  BY <1>1 DEF BrowseInv
\* A site is created.
LEMMA SiteCreatedKeeps ==
  ASSUME BrowseInv, SiteCreated
  PROVE  BrowseInv'
<1>1. TreeTyped /\ Changed /\ siteRow' = Append(siteRow, changes + 1)
      /\ UNCHANGED <<categoryRow, documentRow>>
  BY DEF BrowseInv, SiteCreated
<1>2. siteRow \in Seq(Nat) /\ changes \in Nat /\ changes' = changes + 1
  BY <1>1 DEF TreeTyped, Changed
<1>3. /\ siteRow' \in Seq(Nat) /\ DOMAIN siteRow \subseteq DOMAIN siteRow'
      /\ Len(siteRow) <= Len(siteRow') /\ changes' \in Nat
  BY <1>1, <1>2
<1>4. TreeTyped'
  BY <1>1, <1>3 DEF TreeTyped
<1>5. \A d \in TreeDocuments : documentRow[d].revisions <= documentRow'[d].revisions
  BY <1>1 DEF TreeTyped
<1> QED
  BY <1>1, <1>3, <1>4, <1>5, WriteKeeps

\* A site gets another title or stylesheet.
LEMMA SiteUpdatedKeeps ==
  ASSUME BrowseInv, NEW s \in DOMAIN siteRow, SiteUpdated(s)
  PROVE  BrowseInv'
<1>1. TreeTyped /\ Changed /\ siteRow' = [siteRow EXCEPT ![s] = changes + 1]
      /\ UNCHANGED <<categoryRow, documentRow>>
  BY DEF BrowseInv, SiteUpdated
<1>2. siteRow \in Seq(Nat) /\ changes \in Nat /\ changes' = changes + 1
  BY <1>1 DEF TreeTyped, Changed
<1>3. /\ siteRow' \in Seq(Nat) /\ DOMAIN siteRow \subseteq DOMAIN siteRow'
      /\ Len(siteRow) <= Len(siteRow') /\ changes' \in Nat
  BY <1>1, <1>2
<1>4. TreeTyped'
  BY <1>1, <1>3 DEF TreeTyped
<1>5. \A d \in TreeDocuments : documentRow[d].revisions <= documentRow'[d].revisions
  BY <1>1 DEF TreeTyped
<1> QED
  BY <1>1, <1>3, <1>4, <1>5, WriteKeeps

\* A category comes or gets another title.
LEMMA CategoryTitledKeeps ==
  ASSUME BrowseInv, TreeAssumption, NEW c \in TreeCategories, NEW title \in 1..MaxTitle,
         CategoryTitled(c, title)
  PROVE  BrowseInv'
<1>1. TreeTyped /\ Changed /\ UNCHANGED <<siteRow, documentRow>>
  BY DEF BrowseInv, CategoryTitled
<1>2. /\ DOMAIN categoryRow' = DOMAIN categoryRow \cup {c}
      /\ \A x \in DOMAIN categoryRow : x # c => categoryRow'[x] = categoryRow[x]
      /\ categoryRow'[c].title = title
  BY DEF CategoryTitled
<1>3. title \in Nat
  BY DEF TreeAssumption
<1>4. IsFiniteSet(DOMAIN categoryRow')
  BY <1>1, <1>2, FS_AddElement DEF TreeTyped
<1>5. changes' \in Nat
  BY <1>1 DEF TreeTyped, Changed
<1>6. TreeTyped'
  BY <1>1, <1>2, <1>3, <1>4, <1>5 DEF TreeTyped
<1>7. /\ DOMAIN siteRow \subseteq DOMAIN siteRow' /\ Len(siteRow) <= Len(siteRow')
      /\ \A d \in TreeDocuments : documentRow[d].revisions <= documentRow'[d].revisions
  BY <1>1 DEF TreeTyped
<1> QED
  BY <1>1, <1>2, <1>6, <1>7, WriteKeeps

\* A category is archived.
LEMMA CategoryArchivedKeeps ==
  ASSUME BrowseInv, NEW c \in TreeCategories, CategoryArchived(c)
  PROVE  BrowseInv'
<1>1. TreeTyped /\ Changed /\ UNCHANGED <<siteRow, documentRow>>
  BY DEF BrowseInv, CategoryArchived
<1>2. /\ DOMAIN categoryRow' = DOMAIN categoryRow
      /\ \A x \in DOMAIN categoryRow : categoryRow'[x].title \in Nat
  <2>1. \A x \in DOMAIN categoryRow : x # c => categoryRow'[x] = categoryRow[x]
    BY DEF CategoryArchived
  <2>2. /\ DOMAIN categoryRow' = DOMAIN categoryRow
        /\ c \in DOMAIN categoryRow
        /\ categoryRow'[c] = [categoryRow[c] EXCEPT !.status = "archived"]
    BY DEF CategoryArchived
  <2>3. categoryRow'[c].title \in Nat
    BY <2>2, <1>1 DEF TreeTyped
  <2> QED
    BY <1>1, <2>1, <2>2, <2>3 DEF TreeTyped
<1>3. changes' \in Nat
  BY <1>1 DEF TreeTyped, Changed
<1>4. TreeTyped'
  BY <1>1, <1>2, <1>3 DEF TreeTyped
<1>5. /\ DOMAIN siteRow \subseteq DOMAIN siteRow' /\ Len(siteRow) <= Len(siteRow')
      /\ \A d \in TreeDocuments : documentRow[d].revisions <= documentRow'[d].revisions
  BY <1>1 DEF TreeTyped
<1> QED
  BY <1>1, <1>2, <1>4, <1>5, WriteKeeps

\* A document is revised, moved or published.
LEMMA DocumentWrittenKeeps ==
  ASSUME BrowseInv, NEW d \in TreeDocuments, NEW category, NEW appended \in 0..1,
         DocumentWritten(d, category, appended)
  PROVE  BrowseInv'
<1>1. TreeTyped /\ Changed /\ UNCHANGED <<siteRow, categoryRow>>
  BY DEF BrowseInv, DocumentWritten
<1>2. /\ documentRow[d].revisions \in Nat /\ changes \in Nat /\ changes' = changes + 1
      /\ DOMAIN documentRow = TreeDocuments
  BY <1>1 DEF TreeTyped, Changed
<1>3. /\ DOMAIN documentRow' = TreeDocuments
      /\ \A x \in TreeDocuments : x # d => documentRow'[x] = documentRow[x]
      /\ documentRow'[d].updated = changes + 1
      /\ documentRow'[d].revisions = documentRow[d].revisions + appended
  BY <1>2 DEF DocumentWritten
<1>4. /\ changes' \in Nat /\ documentRow'[d].updated \in Nat /\ documentRow'[d].revisions \in Nat
      /\ documentRow[d].revisions <= documentRow'[d].revisions
  BY <1>2, <1>3
<1>5. TreeTyped'
  BY <1>1, <1>3, <1>4 DEF TreeTyped
<1>6. /\ DOMAIN siteRow \subseteq DOMAIN siteRow' /\ Len(siteRow) <= Len(siteRow')
      /\ DOMAIN categoryRow \subseteq DOMAIN categoryRow'
  BY <1>1 DEF TreeTyped
<1>7. \A x \in TreeDocuments : documentRow[x].revisions <= documentRow'[x].revisions
  <2>1. \A x \in TreeDocuments : documentRow[x].revisions \in Nat
    BY <1>1 DEF TreeTyped
  <2> QED
    BY <1>3, <1>4, <2>1
<1> QED
  BY <1>1, <1>5, <1>6, <1>7, WriteKeeps

\* Nothing has been fetched at first.
LEMMA BrowseStarts ==
  ASSUME TreeInit
  PROVE  BrowseInv
<1>1. siteRow = <<0>> /\ categoryRow = [c \in {} |-> NoCategory] /\ changes = 0 /\ browse = NoBrowse
  BY DEF TreeInit
<1>2. /\ siteRow \in Seq(Nat) /\ DOMAIN categoryRow = {} /\ IsFiniteSet({})
  BY <1>1, FS_EmptySet
<1>3. /\ DOMAIN documentRow = TreeDocuments
      /\ \A d \in TreeDocuments : documentRow[d].updated = 0 /\ documentRow[d].revisions = 1
  BY DEF TreeInit
<1> QED
  BY <1>1, <1>2, <1>3 DEF BrowseInv, TreeTyped

\* Every step of the tree.
LEMMA TreeNextKeeps ==
  ASSUME BrowseInv, TreeAssumption, TreeNext
  PROVE  BrowseInv'
<1>1. ASSUME NEW limit \in PageSizes, OpenNode(Root, limit)
      PROVE  BrowseInv'
  <2>1. Parent(Root)
    BY DEF Parent
  <2> QED
    BY <1>1, <2>1, OpenNodeKeeps
<1>2. ASSUME browse # NoBrowse, NEW i \in DOMAIN browse.shown, NEW limit \in PageSizes,
             OpenNode(browse.shown[i], limit)
      PROVE  BrowseInv'
  <2>1. NodesShown(browse)
    BY <1>2 DEF BrowseInv, BrowseSound
  <2>2. i \in 1..Len(browse.shown)
    BY <2>1 DEF NodesShown
  <2>3. PICK node : node = browse.shown[i]
    OBVIOUS
  <2>4. (Inner(node) \/ Leaf(node)) /\ OpenAnswer(node) = "children" /\ OpenNode(node, limit)
    BY <1>2, <2>1, <2>2, <2>3 DEF NodesShown, OpenNode
  <2>5. Parent(node)
    BY <2>4, NodeAnswers DEF Parent
  <2> QED
    BY <2>4, <2>5, OpenNodeKeeps
<1>3. AdministratorSignsOut => BrowseInv'
  BY BrowseUntouched DEF AdministratorSignsOut
<1> QED
  BY <1>1, <1>2, <1>3, NextPageKeeps, SiteCreatedKeeps, SiteUpdatedKeeps, CategoryTitledKeeps,
     CategoryArchivedKeeps, DocumentWrittenKeeps DEF TreeNext

\* For any number of sites, categories, documents and revisions, any sizes of the
\* pages and whatever is written between two of them: a listing that was not
\* disturbed shows every child of the node once, one of sites or revisions misses
\* none there was when it began, and every node is marked as it answers.
THEOREM BrowsingIsFaithful == Spec => []BrowseFaithful
<1>1. Init => BrowseInv
  BY BrowseStarts DEF Init
<1>2. BrowseInv /\ [Next]_servicesVars => BrowseInv'
  <2> SUFFICES ASSUME BrowseInv, [Next]_servicesVars
               PROVE  BrowseInv'
    OBVIOUS
  <2>1. [TreeNext]_treeVars
    BY ServiceSteps
  <2>2. CASE TreeNext
    BY <2>2, TreeAssumption, TreeNextKeeps
  <2>3. CASE UNCHANGED treeVars
    BY <2>3, BrowseUntouched DEF treeVars
  <2> QED
    BY <2>1, <2>2, <2>3
<1>3. BrowseInv => BrowseFaithful
  BY TreeAssumption, BrowseHolds
<1> QED
  BY <1>1, <1>2, <1>3, PTL DEF Spec

---------------------------------------------------------------------------
(* Admission is a sliding window. *)

\* Instants are pushed in their order.
Ascending(s) == \A j, k \in 1..Len(s) : j <= k => s[j] <= s[k]

\* The first m instants of s are expired, and the others are not.
SplitAt(s, at, m) == \A k \in 1..Len(s) : at - s[k] < Window <=> m < k

\* The end of a sequence of instants.
LEMMA EndOf ==
  ASSUME NEW s \in Seq(Nat), NEW m \in 0..Len(s), NEW t, t = SubSeq(s, m + 1, Len(s))
  PROVE  /\ t \in Seq(Nat) /\ Len(t) = Len(s) - m /\ Len(t) \in Nat
         /\ \A k \in 1..Len(t) : t[k] = s[m + k]
<1>1. Len(s) \in Nat /\ m \in Nat /\ m + 1 \in Nat
  OBVIOUS
<1>2. t \in Seq(Nat)
  BY <1>1
<1>3. Len(t) = Len(s) - m
  BY <1>1
<1>4. \A k \in 1..Len(t) : t[k] = s[m + k]
  BY <1>1, <1>3
<1> QED
  BY <1>1, <1>2, <1>3, <1>4

\* The loop stops where the expired instants end.
LEMMA UnexpiredIs ==
  ASSUME NEW s \in Seq(Nat), NEW at \in Nat, NEW m \in 0..Len(s), SplitAt(s, at, m)
  PROVE  Unexpired(s, at) = SubSeq(s, m + 1, Len(s))
<1> DEFINE Q(x) == /\ \A k \in 1..x : at - s[k] >= Window
                   /\ x < Len(s) => ~(at - s[x + 1] >= Window)
<1>0. Window \in Nat /\ Len(s) \in Nat
  BY LimiterAssumption
<1>1. Q(m)
  <2>1. ASSUME NEW k \in 1..m PROVE at - s[k] >= Window
    <3>1. k \in 1..Len(s) /\ ~(m < k) /\ s[k] \in Nat
      BY <1>0
    <3>2. ~(at - s[k] < Window)
      BY <3>1 DEF SplitAt
    <3> QED
      BY <1>0, <3>1, <3>2
  <2>2. ASSUME m < Len(s) PROVE ~(at - s[m + 1] >= Window)
    <3>1. m + 1 \in 1..Len(s) /\ m < m + 1 /\ s[m + 1] \in Nat
      BY <1>0, <2>2
    <3>2. at - s[m + 1] < Window
      BY <3>1 DEF SplitAt
    <3> QED
      BY <1>0, <3>1, <3>2
  <2> QED
    BY <2>1, <2>2
<1>2. ASSUME NEW x \in 0..Len(s), Q(x) PROVE x = m
  <2>1. ~(x < m)
    <3> SUFFICES ASSUME x < m PROVE FALSE
      OBVIOUS
    <3>1. x + 1 \in 1..m /\ x < Len(s)
      BY <1>0
    <3> QED
      BY <1>1, <1>2, <3>1
  <2>2. ~(m < x)
    <3> SUFFICES ASSUME m < x PROVE FALSE
      OBVIOUS
    <3>1. m + 1 \in 1..x /\ m < Len(s)
      BY <1>0
    <3> QED
      BY <1>1, <1>2, <3>1
  <2> QED
    BY <1>0, <2>1, <2>2
<1> DEFINE popped == CHOOSE x \in 0..Len(s) : Q(x)
<1>3. Unexpired(s, at) = SubSeq(s, popped + 1, Len(s))
  BY DEF Unexpired
<1> HIDE DEF Q
<1>4. popped = m
  BY <1>1, <1>2
<1> HIDE DEF popped
<1> QED
  BY <1>3, <1>4

\* The window of the promise begins where the expired instants end.
LEMMA CurrentIs ==
  ASSUME NEW s \in Seq(Nat), NEW at \in Nat, NEW m \in 0..Len(s), SplitAt(s, at, m)
  PROVE  AdmissionIsSlidingWindow!Current(s, at) = SubSeq(s, m + 1, Len(s))
<1>0. Window \in Nat /\ Len(s) \in Nat
  BY LimiterAssumption
<1>1. ASSUME NEW x \in 0..Len(s), SplitAt(s, at, x) PROVE x = m
  <2>1. ~(x < m)
    <3> SUFFICES ASSUME x < m PROVE FALSE
      OBVIOUS
    <3>1. m \in 1..Len(s) /\ ~(m < m)
      BY <1>0
    <3> QED
      BY <1>1, <3>1 DEF SplitAt
  <2>2. ~(m < x)
    <3> SUFFICES ASSUME m < x PROVE FALSE
      OBVIOUS
    <3>1. x \in 1..Len(s) /\ ~(x < x)
      BY <1>0
    <3> QED
      BY <1>1, <3>1 DEF SplitAt
  <2> QED
    BY <1>0, <2>1, <2>2
<1> DEFINE past == CHOOSE x \in 0..Len(s) : SplitAt(s, at, x)
<1>2. AdmissionIsSlidingWindow!Current(s, at) = SubSeq(s, past + 1, Len(s))
  BY DEF AdmissionIsSlidingWindow!Current, SplitAt
<1>3. past = m
  BY <1>1
<1> HIDE DEF past
<1> QED
  BY <1>2, <1>3

\* In a sequence of instants in their order the expired ones come first.
LEMMA SplitExists ==
  ASSUME NEW s \in Seq(Nat), Ascending(s), NEW at \in Nat
  PROVE  \E m \in 0..Len(s) : SplitAt(s, at, m)
<1> DEFINE T == {m \in 0..Len(s) : m < Len(s) => at - s[m + 1] < Window}
<1>0. Window \in Nat /\ Len(s) \in Nat /\ \A k \in 1..Len(s) : s[k] \in Nat
  BY LimiterAssumption
<1>1. T \in SUBSET Nat /\ Len(s) \in T
  BY <1>0
<1>2. PICK m \in T : \A x \in T : m <= x
  <2> HIDE DEF T
  <2> QED
    BY <1>1, LeastNat
<1>3. ASSUME NEW k \in 1..Len(s) PROVE at - s[k] < Window <=> m < k
  <2>1. CASE m < k
    <3>1. m + 1 \in 1..Len(s) /\ m < Len(s) /\ m + 1 <= k
      BY <1>0, <2>1
    <3>2. at - s[m + 1] < Window /\ s[m + 1] <= s[k]
      BY <3>1, <1>2 DEF Ascending
    <3> QED
      BY <1>0, <2>1, <3>1, <3>2
  <2>2. CASE ~(m < k)
    <3>1. k - 1 \in 0..Len(s) /\ k - 1 < Len(s) /\ ~(m <= k - 1)
      BY <1>0, <2>2
    <3>2. k - 1 \notin T
      BY <1>2, <3>1
    <3>3. ~(at - s[k] < Window)
      BY <3>1, <3>2
    <3> QED
      BY <2>2, <3>3
  <2> QED
    BY <2>1, <2>2
<1> QED
  BY <1>3 DEF SplitAt

\* What is left of instants in their order is in order and not expired.
LEMMA Trimmed ==
  ASSUME NEW s \in Seq(Nat), Ascending(s), NEW at \in Nat, NEW t, t = Unexpired(s, at)
  PROVE  /\ t \in Seq(Nat)
         /\ Ascending(t)
         /\ \A k \in 1..Len(t) : at - t[k] < Window /\ \E j \in 1..Len(s) : t[k] = s[j]
<1>1. PICK m \in 0..Len(s) : SplitAt(s, at, m)
  BY SplitExists
<1>2. t = SubSeq(s, m + 1, Len(s))
  BY <1>1, UnexpiredIs
<1>3. /\ t \in Seq(Nat) /\ Len(t) = Len(s) - m /\ Len(t) \in Nat /\ m \in Nat
      /\ \A k \in 1..Len(t) : t[k] = s[m + k]
  BY <1>2, EndOf
<1>4. \A k \in 1..Len(t) : m + k \in 1..Len(s) /\ m < m + k
  BY <1>3
<1>5. Ascending(t)
  <2> SUFFICES ASSUME NEW j \in 1..Len(t), NEW k \in 1..Len(t), j <= k
               PROVE  t[j] <= t[k]
    BY DEF Ascending
  <2>1. m + j <= m + k /\ m + j \in 1..Len(s) /\ m + k \in 1..Len(s)
    BY <1>3, <1>4
  <2>2. s[m + j] <= s[m + k]
    BY <2>1 DEF Ascending
  <2> QED
    BY <1>3, <2>2
<1>6. \A k \in 1..Len(t) : at - t[k] < Window /\ \E j \in 1..Len(s) : t[k] = s[j]
  BY <1>1, <1>3, <1>4 DEF SplitAt
<1> QED
  BY <1>3, <1>5, <1>6

\* Trimming a bucket now and at the next instant, or at the next instant only.
LEMMA TrimmedLater ==
  ASSUME NEW s \in Seq(Nat), Ascending(s), NEW at \in Nat
  PROVE  Unexpired(s, at + 1) = AdmissionIsSlidingWindow!Current(Unexpired(s, at), at + 1)
<1>0. Window \in Nat /\ Len(s) \in Nat /\ \A k \in 1..Len(s) : s[k] \in Nat
  BY LimiterAssumption
<1> DEFINE later == at + 1
           t == Unexpired(s, at)
<1>1. later \in Nat /\ later = at + 1
  OBVIOUS
<1> HIDE DEF later
<1>2. PICK m \in 0..Len(s) : SplitAt(s, at, m)
  BY SplitExists
<1>3. PICK n \in 0..Len(s) : SplitAt(s, later, n)
  BY <1>1, SplitExists
<1>4. m <= n
  <2> SUFFICES ASSUME n < m PROVE FALSE
    BY <1>0
  <2>1. m \in 1..Len(s) /\ ~(m < m)
    BY <1>0
  <2>2. later - s[m] < Window
    BY <1>3, <2>1 DEF SplitAt
  <2>3. at - s[m] < Window
    BY <1>0, <1>1, <2>1, <2>2
  <2> QED
    BY <1>2, <2>1, <2>3 DEF SplitAt
<1>5. t = SubSeq(s, m + 1, Len(s)) /\ Unexpired(s, later) = SubSeq(s, n + 1, Len(s))
  BY <1>1, <1>2, <1>3, UnexpiredIs
<1> HIDE DEF t
<1>6. /\ t \in Seq(Nat) /\ Len(t) = Len(s) - m
      /\ \A k \in 1..Len(t) : t[k] = s[m + k]
  BY <1>5, EndOf
<1> DEFINE d == n - m
<1>7. d \in 0..Len(t) /\ m \in Nat /\ n \in Nat
  BY <1>0, <1>4, <1>6
<1>8. SplitAt(t, later, d)
  <2> SUFFICES ASSUME NEW k \in 1..Len(t)
               PROVE  later - t[k] < Window <=> d < k
    BY DEF SplitAt
  <2>1. m + k \in 1..Len(s) /\ (n < m + k <=> d < k)
    BY <1>0, <1>6, <1>7
  <2>2. later - s[m + k] < Window <=> n < m + k
    BY <1>3, <2>1 DEF SplitAt
  <2> QED
    BY <1>6, <2>1, <2>2
<1>9. AdmissionIsSlidingWindow!Current(t, later) = SubSeq(t, d + 1, Len(t))
  <2> HIDE DEF d
  <2> QED
    BY <1>1, <1>6, <1>7, <1>8, CurrentIs
<1>10. SubSeq(t, d + 1, Len(t)) = SubSeq(s, n + 1, Len(s))
  <2> DEFINE u == SubSeq(t, d + 1, Len(t))
             v == SubSeq(s, n + 1, Len(s))
  <2>0. u = SubSeq(t, d + 1, Len(t)) /\ v = SubSeq(s, n + 1, Len(s))
    OBVIOUS
  <2>a. Len(t) - d = Len(s) - n
    BY <1>0, <1>6, <1>7
  <2> HIDE DEF u, v, d
  <2>1. /\ u \in Seq(Nat) /\ Len(u) = Len(s) - n
        /\ \A k \in 1..Len(u) : u[k] = t[d + k]
    <3>1. t \in Seq(Nat) /\ d \in 0..Len(t) /\ u = SubSeq(t, d + 1, Len(t))
      BY <1>6, <1>7, <2>0
    <3>2. /\ u \in Seq(Nat) /\ Len(u) = Len(t) - d
          /\ \A k \in 1..Len(u) : u[k] = t[d + k]
      BY <3>1, EndOf
    <3> QED
      BY <2>a, <3>2
  <2>2. /\ v \in Seq(Nat) /\ Len(v) = Len(s) - n
        /\ \A k \in 1..Len(v) : v[k] = s[n + k]
    BY <2>0, EndOf
  <2>3. \A k \in 1..Len(u) : u[k] = v[k]
    <3> SUFFICES ASSUME NEW k \in 1..Len(u) PROVE u[k] = v[k]
      OBVIOUS
    <3>1. d + k \in 1..Len(t) /\ m + (d + k) = n + k
      BY <1>0, <1>6, <1>7, <2>1 DEF d
    <3>2. t[d + k] = s[m + (d + k)]
      <4> DEFINE l == d + k
      <4> HIDE DEF l, d
      <4> QED
        BY <1>6, <3>1 DEF l
    <3> QED
      BY <2>1, <2>2, <3>1, <3>2
  <2>4. u = v
    BY <2>1, <2>2, <2>3
  <2> QED
    BY <2>4 DEF u, v
<1> QED
  BY <1>5, <1>9, <1>10 DEF later, t

\* Nothing is popped of instants that are not expired.
LEMMA NothingExpired ==
  ASSUME NEW s \in Seq(Nat), NEW at \in Nat, \A k \in 1..Len(s) : at - s[k] < Window
  PROVE  Unexpired(s, at) = s
<1>1. 0 \in 0..Len(s) /\ SplitAt(s, at, 0)
  BY DEF SplitAt
<1>2. Unexpired(s, at) = SubSeq(s, 0 + 1, Len(s))
  <2> DEFINE z == 0
  <2>1. z \in 0..Len(s) /\ SplitAt(s, at, z)
    BY <1>1
  <2> HIDE DEF z
  <2>2. Unexpired(s, at) = SubSeq(s, z + 1, Len(s))
    BY <2>1, UnexpiredIs
  <2> QED
    BY <2>2 DEF z
<1> QED
  BY <1>2

\* All instants of a bucket that was silent for a window are expired.
LEMMA AllExpired ==
  ASSUME NEW s \in Seq(Nat), NEW at \in Nat, NEW last \in Nat, ~(at - last < Window),
         \A k \in 1..Len(s) : s[k] <= last
  PROVE  Unexpired(s, at) = <<>>
<1>0. Window \in Nat /\ Len(s) \in Nat /\ \A k \in 1..Len(s) : s[k] \in Nat
  BY LimiterAssumption
<1> DEFINE m == Len(s)
<1>1. m \in 0..Len(s) /\ SplitAt(s, at, m)
  BY <1>0 DEF SplitAt
<1>2. Unexpired(s, at) = SubSeq(s, m + 1, Len(s))
  <2> HIDE DEF m
  <2> QED
    BY <1>1, UnexpiredIs
<1> QED
  BY <1>0, <1>2
\* A bucket of the limiter: its instants are in their order and none of them is
\* after the last time it was seen.
BucketOk(b, at) ==
  /\ b \in Bucket
  /\ b.lastSeen <= at
  /\ Ascending(b.attempts)
  /\ \A k \in 1..Len(b.attempts) : b.attempts[k] <= b.lastSeen

\* The inductive invariant of the limiter: it never has more buckets than it may.
LimiterInv ==
  /\ instant \in Nat
  /\ requests \in [Authors -> {NoBucket} \cup Bucket]
  /\ \A a \in Authors : requests[a] # NoBucket => BucketOk(requests[a], instant)
  /\ Cardinality(Known(requests)) <= MaximumBuckets

\* The identities the promise remembers.
LEMMA RememberedAre ==
  ASSUME LimiterInv
  PROVE  /\ AdmissionIsSlidingWindow!Remembered = Known(Retained(requests, instant))
         /\ \A a \in AdmissionIsSlidingWindow!Remembered :
              SeenNow[a] = Retained(requests, instant)[a].lastSeen
<1>1. DOMAIN requests = Authors
  BY DEF LimiterInv
<1>2. \A a \in Authors :
        /\ a \in Known(Retained(requests, instant)) <=> SeenNow[a] # NoBucket
        /\ SeenNow[a] # NoBucket => SeenNow[a] = Retained(requests, instant)[a].lastSeen
  <2> SUFFICES ASSUME NEW a \in Authors
               PROVE  /\ a \in Known(Retained(requests, instant)) <=> SeenNow[a] # NoBucket
                      /\ SeenNow[a] # NoBucket =>
                           SeenNow[a] = Retained(requests, instant)[a].lastSeen
    OBVIOUS
  <2>1. SeenNow[a] = SeenOf(requests[a], instant)
    BY DEF SeenNow
  <2>2. requests[a] # NoBucket => requests[a].lastSeen \in Nat
    BY DEF LimiterInv, Bucket
  <2>3. DOMAIN Retained(requests, instant) = Authors
    BY <1>1 DEF Retained
  <2>4. Retained(requests, instant)[a] =
          IF requests[a] # NoBucket /\ instant - requests[a].lastSeen < Window
          THEN requests[a] ELSE NoBucket
    BY <1>1 DEF Retained, Known
  <2> QED
    BY <2>1, <2>2, <2>3, <2>4, LimiterAssumption DEF SeenOf, Known
<1>3. DOMAIN Retained(requests, instant) = Authors
  BY <1>1 DEF Retained
<1>4. AdmissionIsSlidingWindow!Remembered = {a \in Authors : SeenNow[a] # NoBucket}
  BY DEF AdmissionIsSlidingWindow!Remembered
<1> QED
  BY <1>2, <1>3, <1>4 DEF Known
\* A map of buckets that has dropped some.
Fewer(room) ==
  /\ room \in [Authors -> {NoBucket} \cup Bucket]
  /\ \A b \in Authors : room[b] \in {NoBucket, requests[b]}

\* The map with room for a, and what the promise allows it to have displaced.
RoomOk(room, a, gone) ==
  /\ Fewer(room)
  /\ gone \in AdmissionIsSlidingWindow!Displaced(a)
  /\ \A b \in Authors :
       /\ UsedOf(room[b], instant) = IF b \in gone THEN <<>> ELSE UsedNow[b]
       /\ SeenOf(room[b], instant) = IF b \in gone THEN NoBucket ELSE SeenNow[b]
  /\ Cardinality(Known(room) \cup {a}) <= MaximumBuckets
  /\ a \notin gone

\* Buckets that have been silent for a window have no instant that counts.
LEMMA RetainedSame ==
  ASSUME LimiterInv, NEW b \in Authors
  PROVE  /\ Retained(requests, instant)[b] \in {NoBucket, requests[b]}
         /\ UsedOf(Retained(requests, instant)[b], instant) = UsedNow[b]
         /\ SeenOf(Retained(requests, instant)[b], instant) = SeenNow[b]
<1>1. UsedNow[b] = UsedOf(requests[b], instant) /\ SeenNow[b] = SeenOf(requests[b], instant)
  BY DEF UsedNow, SeenNow
<1>2. Retained(requests, instant)[b] =
        IF requests[b] # NoBucket /\ instant - requests[b].lastSeen < Window
        THEN requests[b] ELSE NoBucket
  BY DEF LimiterInv, Retained, Known
<1>3. CASE requests[b] = NoBucket \/ instant - requests[b].lastSeen < Window
  BY <1>1, <1>2, <1>3
<1>4. CASE requests[b] # NoBucket /\ ~(instant - requests[b].lastSeen < Window)
  <2>1. Retained(requests, instant)[b] = NoBucket
    BY <1>2, <1>4
  <2>2. SeenOf(requests[b], instant) = NoBucket /\ SeenOf(NoBucket, instant) = NoBucket
    BY <1>4 DEF SeenOf
  <2>3. /\ requests[b].attempts \in Seq(Nat) /\ requests[b].lastSeen \in Nat
        /\ \A k \in 1..Len(requests[b].attempts) :
             requests[b].attempts[k] <= requests[b].lastSeen
        /\ instant \in Nat
    BY <1>4 DEF LimiterInv, BucketOk, Bucket
  <2>4. Unexpired(requests[b].attempts, instant) = <<>>
    BY <1>4, <2>3, AllExpired
  <2> QED
    BY <1>1, <1>4, <2>1, <2>2, <2>4 DEF UsedOf
<1> QED
  BY <1>3, <1>4

\* The buckets a map knows.
LEMMA KnownFinite ==
  ASSUME LimiterInv, NEW q, DOMAIN q = Authors
  PROVE  /\ Known(q) \in SUBSET Authors
         /\ IsFiniteSet(Known(q))
         /\ Cardinality(Known(q)) \in Nat
<1>1. Known(q) \in SUBSET Authors
  BY DEF Known
<1>2. IsFiniteSet(Known(q))
  BY <1>1, SummariesAssumption, FS_Subset
<1> QED
  BY <1>1, <1>2, FS_CardinalityType

\* Whatever room is made for a request, the promise allows it.
LEMMA RoomAllowed ==
  ASSUME LimiterInv, NEW a \in Authors, NEW room \in RoomMade(requests, a, instant)
  PROVE  \E gone : RoomOk(room, a, gone)
<1> DEFINE retained == Retained(requests, instant)
           R == AdmissionIsSlidingWindow!Remembered
<1>0. /\ DOMAIN requests = Authors /\ DOMAIN retained = Authors
      /\ MaximumBuckets \in Nat \ {0}
  BY LimiterAssumption DEF LimiterInv, Retained
<1>1. R = Known(retained) /\ \A b \in R : SeenNow[b] = retained[b].lastSeen
  BY RememberedAre
<1>2. /\ Known(requests) \in SUBSET Authors /\ IsFiniteSet(Known(requests))
      /\ Cardinality(Known(requests)) \in Nat
      /\ Cardinality(Known(requests)) <= MaximumBuckets
  BY <1>0, KnownFinite DEF LimiterInv
<1>3. /\ Known(retained) \in SUBSET Authors /\ IsFiniteSet(Known(retained))
      /\ Cardinality(Known(retained)) \in Nat
  <2> HIDE DEF retained
  <2> QED
    BY <1>0, KnownFinite
<1>4. /\ \A b \in Authors : /\ retained[b] \in {NoBucket, requests[b]}
                            /\ UsedOf(retained[b], instant) = UsedNow[b]
                            /\ SeenOf(retained[b], instant) = SeenNow[b]
  BY RetainedSame
<1>5. requests \in [Authors -> {NoBucket} \cup Bucket]
  BY DEF LimiterInv
<1>6. retained \in [Authors -> {NoBucket} \cup Bucket]
  <2>1. retained = [b \in Authors |-> retained[b]]
    BY <1>0 DEF Retained
  <2> HIDE DEF retained
  <2>2. \A b \in Authors : retained[b] \in {NoBucket} \cup Bucket
    BY <1>4, <1>5
  <2> QED
    BY <2>1, <2>2
<1>7. \A b \in Known(retained) : b \in Known(requests)
  BY <1>0, <1>4 DEF Known
<1>8. \A b \in Authors : b \in Known(requests) <=> requests[b] # NoBucket
  BY <1>0 DEF Known
<1>9. AdmissionIsSlidingWindow!Displaced(a) =
        IF a \in R \/ Cardinality(R) < MaximumBuckets THEN {{}}
        ELSE {{j} : j \in {k \in R : \A l \in R : SeenNow[k] <= SeenNow[l]}}
  <2>1. AdmissionIsSlidingWindow!Cardinality(R) = Cardinality(R)
    BY DEF AdmissionIsSlidingWindow!Cardinality, Cardinality
  <2> QED
    BY <2>1 DEF AdmissionIsSlidingWindow!Displaced
<1> HIDE DEF retained, R
<1>10. CASE a \in Known(requests)
  <2>1. room = requests
    BY <1>10 DEF RoomMade
  <2>2. {} \in AdmissionIsSlidingWindow!Displaced(a)
    <3>1. CASE a \in R
      BY <1>9, <3>1
    <3>2. CASE a \notin R
      <4>1. R \in SUBSET (Known(requests) \ {a})
        BY <1>1, <1>7, <3>2
      <4>2. /\ IsFiniteSet(Known(requests) \ {a})
            /\ Cardinality(Known(requests) \ {a}) = Cardinality(Known(requests)) - 1
        BY <1>2, <1>10, FS_RemoveElement
      <4>3. Cardinality(R) <= Cardinality(Known(requests) \ {a})
        BY <4>1, <4>2, FS_Subset
      <4>4. Cardinality(R) < MaximumBuckets
        BY <1>0, <1>1, <1>2, <1>3, <4>2, <4>3
      <4> QED
        BY <1>9, <4>4
    <3> QED
      BY <3>1, <3>2
  <2>3. Known(room) \cup {a} = Known(requests)
    BY <1>10, <2>1
  <2>4. Fewer(room)
    BY <1>5, <2>1 DEF Fewer
  <2>5. \A b \in Authors : /\ UsedOf(room[b], instant) = UsedNow[b]
                           /\ SeenOf(room[b], instant) = SeenNow[b]
    BY <2>1 DEF UsedNow, SeenNow
  <2>6. RoomOk(room, a, {})
    BY <1>2, <2>2, <2>3, <2>4, <2>5 DEF RoomOk
  <2> QED
    BY <2>6
<1>11. CASE a \notin Known(requests) /\ Cardinality(Known(retained)) < MaximumBuckets
  <2>1. room = retained
    BY <1>11 DEF RoomMade, retained
  <2>2. {} \in AdmissionIsSlidingWindow!Displaced(a)
    BY <1>1, <1>9, <1>11
  <2>3. Cardinality(Known(room) \cup {a}) <= MaximumBuckets
    <3>1. Cardinality(Known(retained) \cup {a}) = Cardinality(Known(retained)) + 1
      BY <1>3, <1>7, <1>11, FS_AddElement
    <3> QED
      BY <1>0, <1>3, <1>11, <2>1, <3>1
  <2>4. Fewer(room)
    BY <1>4, <1>6, <2>1 DEF Fewer
  <2>6. RoomOk(room, a, {})
    BY <1>4, <2>1, <2>2, <2>3, <2>4 DEF RoomOk
  <2> QED
    BY <2>6
<1>12. CASE a \notin Known(requests) /\ ~(Cardinality(Known(retained)) < MaximumBuckets)
  <2>1. PICK j \in Oldest(retained) : room = [retained EXCEPT ![j] = NoBucket]
    BY <1>12 DEF RoomMade, retained
  <2>2. j \in Known(retained) /\ j \in Authors /\ \A l \in Known(retained) :
          retained[j].lastSeen <= retained[l].lastSeen
    BY <1>3, <2>1 DEF Oldest
  <2>3. {j} \in AdmissionIsSlidingWindow!Displaced(a)
    <3>1. a \notin R /\ ~(Cardinality(R) < MaximumBuckets)
      BY <1>1, <1>7, <1>12
    <3>2. j \in R /\ \A l \in R : SeenNow[j] <= SeenNow[l]
      BY <1>1, <2>2
    <3> QED
      BY <1>9, <3>1, <3>2
  <2>4. \A b \in Authors : room[b] = IF b = j THEN NoBucket ELSE retained[b]
    BY <1>0, <2>1
  <2>5. DOMAIN room = Authors /\ room \in [Authors -> {NoBucket} \cup Bucket]
    BY <1>6, <2>1
  <2>6. Fewer(room)
    BY <1>4, <2>4, <2>5 DEF Fewer
  <2>7. Known(room) = Known(retained) \ {j}
    BY <1>0, <2>4, <2>5 DEF Known
  <2>8. Cardinality(Known(room) \cup {a}) <= MaximumBuckets
    <3>1. /\ IsFiniteSet(Known(room))
          /\ Cardinality(Known(room)) = Cardinality(Known(retained)) - 1
      BY <1>3, <2>2, <2>7, FS_RemoveElement
    <3>2. a \notin Known(room)
      BY <1>7, <1>12, <2>7
    <3>3. Cardinality(Known(room) \cup {a}) = Cardinality(Known(room)) + 1
      BY <3>1, <3>2, FS_AddElement
    <3>4. Cardinality(Known(retained)) <= Cardinality(Known(requests))
      <4>1. Known(retained) \in SUBSET Known(requests)
        BY <1>7
      <4> QED
        BY <1>2, <4>1, FS_Subset
    <3> QED
      BY <1>0, <1>2, <1>3, <3>1, <3>3, <3>4
  <2>9. \A b \in Authors :
          /\ UsedOf(room[b], instant) = IF b \in {j} THEN <<>> ELSE UsedNow[b]
          /\ SeenOf(room[b], instant) = IF b \in {j} THEN NoBucket ELSE SeenNow[b]
    <3>1. UsedOf(NoBucket, instant) = <<>> /\ SeenOf(NoBucket, instant) = NoBucket
      BY DEF UsedOf, SeenOf
    <3> QED
      BY <1>4, <2>4, <3>1
  <2>10. a \notin {j}
    BY <1>7, <1>12, <2>2
  <2>11. RoomOk(room, a, {j})
    BY <2>3, <2>6, <2>8, <2>9, <2>10 DEF RoomOk
  <2> QED
    BY <2>11
<1> QED
  BY <1>10, <1>11, <1>12
\* A request that reaches the limiter is an attempt of its author.
LEMMA AdmissionStep ==
  ASSUME LimiterInv, NEW a \in Authors, NEW outcome \in AdmitAt(requests, a, instant),
         requests' = outcome.buckets, instant' = instant
  PROVE  LimiterInv' /\ AdmissionIsSlidingWindow!Attempt(a)
<1> DEFINE Attempts(room) ==
             IF room[a] = NoBucket THEN <<>> ELSE Unexpired(room[a].attempts, instant)
           Kept(room) ==
             IF Len(Attempts(room)) < AttemptsPerWindow THEN Append(Attempts(room), instant)
             ELSE Attempts(room)
           Outcome(room) ==
             [admitted |-> Len(Attempts(room)) < AttemptsPerWindow,
              buckets |-> [room EXCEPT ![a] = [attempts |-> Kept(room), lastSeen |-> instant]]]
<1>1. PICK room \in RoomMade(requests, a, instant) :
        requests' = [room EXCEPT ![a] = [attempts |-> Kept(room), lastSeen |-> instant]]
  <2>1. AdmitAt(requests, a, instant) = {Outcome(room) : room \in RoomMade(requests, a, instant)}
    BY DEF AdmitAt
  <2>2. \A room : Outcome(room).buckets =
          [room EXCEPT ![a] = [attempts |-> Kept(room), lastSeen |-> instant]]
    OBVIOUS
  <2> HIDE DEF Outcome
  <2>3. PICK room \in RoomMade(requests, a, instant) : outcome = Outcome(room)
    BY <2>1
  <2> QED
    BY <2>2, <2>3
<1>2. PICK gone : RoomOk(room, a, gone)
  BY RoomAllowed
<1> DEFINE before == Attempts(room)
           kept == Kept(room)
           bucket == [attempts |-> kept, lastSeen |-> instant]
<1>3. /\ room \in [Authors -> {NoBucket} \cup Bucket]
      /\ \A b \in Authors : room[b] \in {NoBucket, requests[b]}
      /\ \A b \in Authors : room[b] # NoBucket => BucketOk(room[b], instant)
      /\ instant \in Nat /\ Window \in Nat \ {0} /\ AttemptsPerWindow \in Nat
  BY <1>2, LimiterAssumption DEF RoomOk, Fewer, LimiterInv
<1>4. before = UsedOf(room[a], instant) /\ before = UsedNow[a]
  BY <1>2 DEF UsedOf, RoomOk
<1>5. /\ before \in Seq(Nat) /\ Ascending(before)
      /\ \A k \in 1..Len(before) : instant - before[k] < Window /\ before[k] <= instant
  <2>1. CASE room[a] = NoBucket
    <3>1. before = <<>>
      BY <2>1
    <3> HIDE DEF before
    <3> QED
      BY <3>1 DEF Ascending
  <2>2. CASE room[a] # NoBucket
    <3> DEFINE s == room[a].attempts
    <3>1. BucketOk(room[a], instant)
      BY <1>3, <2>2
    <3>2. s \in Seq(Nat) /\ Ascending(s) /\ room[a].lastSeen \in Nat
          /\ room[a].lastSeen <= instant /\ \A k \in 1..Len(s) : s[k] <= room[a].lastSeen
      BY <3>1 DEF BucketOk, Bucket
    <3>3. before = Unexpired(s, instant)
      BY <2>2
    <3> HIDE DEF s, before
    <3>4. /\ before \in Seq(Nat) /\ Ascending(before)
          /\ \A k \in 1..Len(before) :
               instant - before[k] < Window /\ \E j \in 1..Len(s) : before[k] = s[j]
      BY <1>3, <3>2, <3>3, Trimmed
    <3>5. ASSUME NEW k \in 1..Len(before) PROVE before[k] <= instant
      <4>1. PICK j \in 1..Len(s) : before[k] = s[j]
        BY <3>4
      <4>2. s[j] \in Nat /\ s[j] <= room[a].lastSeen
        BY <3>2
      <4> QED
        BY <1>3, <3>2, <4>1, <4>2
    <3> QED
      BY <3>4, <3>5
  <2> QED
    BY <2>1, <2>2
<1>6. kept = IF Len(before) < AttemptsPerWindow THEN Append(before, instant) ELSE before
  OBVIOUS
<1> HIDE DEF before, kept
<1>7. /\ kept \in Seq(Nat) /\ Ascending(kept)
      /\ \A k \in 1..Len(kept) : instant - kept[k] < Window /\ kept[k] <= instant
  <2>1. CASE Len(before) < AttemptsPerWindow
    <3>1. /\ kept = Append(before, instant) /\ Len(before) \in Nat
      BY <1>5, <1>6, <2>1
    <3>2. /\ kept \in Seq(Nat) /\ Len(kept) = Len(before) + 1
          /\ \A k \in 1..Len(before) : kept[k] = before[k]
          /\ kept[Len(kept)] = instant
      BY <1>3, <1>5, <3>1
    <3>3. \A k \in 1..Len(kept) : k \in 1..Len(before) \/ k = Len(kept)
      BY <3>1, <3>2
    <3>4. \A k \in 1..Len(kept) : instant - kept[k] < Window /\ kept[k] <= instant
      <4> SUFFICES ASSUME NEW k \in 1..Len(kept)
                   PROVE  instant - kept[k] < Window /\ kept[k] <= instant
        OBVIOUS
      <4>1. CASE k \in 1..Len(before)
        BY <1>5, <3>2, <4>1
      <4>2. CASE k = Len(kept)
        <5>1. kept[k] = instant
          BY <3>2, <4>2
        <5> QED
          BY <1>3, <5>1
      <4> QED
        BY <3>3, <4>1, <4>2
    <3>5. Ascending(kept)
      <4> SUFFICES ASSUME NEW j \in 1..Len(kept), NEW k \in 1..Len(kept), j <= k
                   PROVE  kept[j] <= kept[k]
        BY DEF Ascending
      <4>1. CASE k = Len(kept)
        BY <3>2, <3>4, <4>1
      <4>2. CASE k # Len(kept)
        <5>1. k \in 1..Len(before) /\ j \in 1..Len(before)
          BY <3>1, <3>2, <4>2
        <5>2. before[j] <= before[k]
          BY <1>5, <5>1 DEF Ascending
        <5> QED
          BY <3>2, <5>1, <5>2
      <4> QED
        BY <4>1, <4>2
    <3> QED
      BY <3>2, <3>4, <3>5
  <2>2. CASE ~(Len(before) < AttemptsPerWindow)
    BY <1>5, <1>6, <2>2
  <2> QED
    BY <2>1, <2>2
<1>8. /\ bucket \in Bucket /\ bucket.attempts = kept /\ bucket.lastSeen = instant
      /\ bucket # NoBucket
  BY <1>3, <1>7, LimiterAssumption DEF Bucket
<1>9. requests' = [room EXCEPT ![a] = bucket]
  BY <1>1 DEF kept
<1> HIDE DEF bucket
<1>10. /\ requests' \in [Authors -> {NoBucket} \cup Bucket]
       /\ requests'[a] = bucket
       /\ \A b \in Authors : b # a => requests'[b] = room[b]
  BY <1>3, <1>8, <1>9
<1>11. LimiterInv'
  <2>1. BucketOk(bucket, instant)
    BY <1>3, <1>7, <1>8 DEF BucketOk
  <2>2. \A b \in Authors : requests'[b] # NoBucket => BucketOk(requests'[b], instant)
    BY <1>3, <1>10, <2>1
  <2>3. Known(requests') = Known(room) \cup {a}
    BY <1>3, <1>8, <1>10 DEF Known
  <2>4. Cardinality(Known(requests')) <= MaximumBuckets
    BY <1>2, <2>3 DEF RoomOk
  <2>5. LimiterInv' <=>
          /\ instant' \in Nat
          /\ requests' \in [Authors -> {NoBucket} \cup Bucket]
          /\ \A b \in Authors : requests'[b] # NoBucket => BucketOk(requests'[b], instant')
          /\ Cardinality(Known(requests')) <= MaximumBuckets
    BY DEF LimiterInv
  <2> QED
    BY <1>3, <1>10, <2>2, <2>4, <2>5
<1>12. UsedOf(bucket, instant) = kept /\ SeenOf(bucket, instant) = instant
  <2>1. Unexpired(kept, instant) = kept
    BY <1>3, <1>7, NothingExpired
  <2>2. instant - instant < Window
    BY <1>3
  <2> QED
    BY <1>8, <2>1, <2>2 DEF UsedOf, SeenOf
<1>13. /\ UsedNow' = [b \in Authors |-> UsedOf(requests'[b], instant)]
       /\ SeenNow' = [b \in Authors |-> SeenOf(requests'[b], instant)]
  BY DEF UsedNow, SeenNow
<1>14. /\ gone \in AdmissionIsSlidingWindow!Displaced(a) /\ a \notin gone
       /\ \A b \in Authors :
            /\ UsedOf(room[b], instant) = IF b \in gone THEN <<>> ELSE UsedNow[b]
            /\ SeenOf(room[b], instant) = IF b \in gone THEN NoBucket ELSE SeenNow[b]
  BY <1>2 DEF RoomOk
<1>15. \A b \in Authors :
         /\ UsedOf(requests'[b], instant) =
              IF b = a /\ Len(UsedNow[b]) < AttemptsPerWindow THEN Append(UsedNow[b], instant)
              ELSE IF b \in gone THEN <<>> ELSE UsedNow[b]
         /\ SeenOf(requests'[b], instant) =
              IF b = a THEN instant ELSE IF b \in gone THEN NoBucket ELSE SeenNow[b]
  BY <1>4, <1>6, <1>10, <1>12, <1>14
<1>16. /\ UsedNow' = [b \in Authors |->
            IF b = a /\ Len(UsedNow[b]) < AttemptsPerWindow THEN Append(UsedNow[b], instant)
            ELSE IF b \in gone THEN <<>> ELSE UsedNow[b]]
       /\ SeenNow' = [b \in Authors |->
            IF b = a THEN instant ELSE IF b \in gone THEN NoBucket ELSE SeenNow[b]]
  BY <1>13, <1>15
<1>17. AdmissionIsSlidingWindow!Attempt(a)
  BY <1>14, <1>16 DEF AdmissionIsSlidingWindow!Attempt
<1> QED
  BY <1>11, <1>17

\* Time passes for the buckets as it does for the promise.
LEMMA InstantStep ==
  ASSUME LimiterInv, SummaryInstantPasses
  PROVE  LimiterInv' /\ AdmissionIsSlidingWindow!Pass
<1>1. instant' = instant + 1 /\ requests' = requests /\ instant \in Nat
  BY DEF SummaryInstantPasses, LimiterInv
<1>2. Window \in Nat
  BY LimiterAssumption
<1>3. LimiterInv'
  BY <1>1 DEF LimiterInv, BucketOk, Bucket
<1>4. ASSUME NEW b \in Authors
      PROVE  /\ UsedNow'[b] = AdmissionIsSlidingWindow!Current(UsedNow[b], instant + 1)
             /\ SeenNow'[b] = IF SeenNow[b] # NoBucket /\ (instant + 1) - SeenNow[b] < Window
                              THEN SeenNow[b] ELSE NoBucket
  <2>1. /\ UsedNow'[b] = UsedOf(requests[b], instant + 1)
        /\ SeenNow'[b] = SeenOf(requests[b], instant + 1)
        /\ UsedNow[b] = UsedOf(requests[b], instant)
        /\ SeenNow[b] = SeenOf(requests[b], instant)
    BY <1>1 DEF UsedNow, SeenNow
  <2>2. CASE requests[b] = NoBucket
    <3> DEFINE later == instant + 1
               e == <<>>
               z == 0
    <3>1. e \in Seq(Nat) /\ later \in Nat /\ z \in 0..Len(e) /\ SplitAt(e, later, z)
      BY <1>1 DEF SplitAt
    <3>2. SubSeq(e, z + 1, Len(e)) = <<>>
      OBVIOUS
    <3> HIDE DEF later, e, z
    <3>3. AdmissionIsSlidingWindow!Current(e, later) = SubSeq(e, z + 1, Len(e))
      BY <3>1, CurrentIs
    <3>4. AdmissionIsSlidingWindow!Current(<<>>, instant + 1) = <<>>
      BY <3>2, <3>3 DEF e, later
    <3> QED
      BY <2>1, <2>2, <3>4 DEF UsedOf, SeenOf
  <2>3. CASE requests[b] # NoBucket
    <3>1. /\ requests[b].attempts \in Seq(Nat) /\ Ascending(requests[b].attempts)
          /\ requests[b].lastSeen \in Nat
      BY <2>3 DEF LimiterInv, BucketOk, Bucket
    <3>2. Unexpired(requests[b].attempts, instant + 1)
            = AdmissionIsSlidingWindow!Current(Unexpired(requests[b].attempts, instant),
                                               instant + 1)
      BY <1>1, <3>1, TrimmedLater
    <3>3. (instant + 1) - requests[b].lastSeen < Window => instant - requests[b].lastSeen < Window
      BY <1>1, <1>2, <3>1
    <3>4. requests[b].lastSeen # NoBucket
      BY <3>1, LimiterAssumption
    <3>5. UsedNow'[b] = AdmissionIsSlidingWindow!Current(UsedNow[b], instant + 1)
      BY <2>1, <2>3, <3>2 DEF UsedOf
    <3>6. SeenNow'[b] = IF SeenNow[b] # NoBucket /\ (instant + 1) - SeenNow[b] < Window
                        THEN SeenNow[b] ELSE NoBucket
      <4> DEFINE l == requests[b].lastSeen
      <4>0. /\ SeenNow[b] = IF instant - l < Window THEN l ELSE NoBucket
            /\ SeenNow'[b] = IF (instant + 1) - l < Window THEN l ELSE NoBucket
            /\ l # NoBucket /\ l \in Nat
        <5>1. \A at : SeenOf(requests[b], at) = IF at - l < Window THEN l ELSE NoBucket
          BY <2>3, Zenon DEF SeenOf
        <5> HIDE DEF l
        <5>2. SeenNow[b] = IF instant - l < Window THEN l ELSE NoBucket
          BY <2>1, <5>1, Zenon
        <5>3. SeenNow'[b] = IF (instant + 1) - l < Window THEN l ELSE NoBucket
          <6>1. PICK later : later = instant + 1
            OBVIOUS
          <6>2. SeenNow'[b] = SeenOf(requests[b], later)
            BY <2>1, <6>1, Zenon
          <6>3. SeenNow'[b] = IF later - l < Window THEN l ELSE NoBucket
            BY <5>1, <6>2, Zenon
          <6> QED
            BY <6>1, <6>3, Zenon
        <5> QED
          BY <3>1, <3>4, <5>2, <5>3, Zenon DEF l
      <4> HIDE DEF l
      <4>1. CASE (instant + 1) - l < Window
        <5>1. SeenNow[b] = l /\ SeenNow'[b] = l
          BY <3>3, <4>0, <4>1 DEF l
        <5> QED
          BY <4>0, <4>1, <5>1
      <4>2. CASE ~((instant + 1) - l < Window)
        <5>1. SeenNow'[b] = NoBucket /\ SeenNow[b] \in {l, NoBucket}
          BY <4>0, <4>2
        <5>2. CASE SeenNow[b] = l
          BY <4>2, <5>1, <5>2
        <5>3. CASE SeenNow[b] = NoBucket
          BY <5>1, <5>3
        <5> QED
          BY <5>1, <5>2, <5>3
      <4> QED
        BY <4>1, <4>2
    <3> QED
      BY <3>5, <3>6
  <2> QED
    BY <2>2, <2>3
<1>5. /\ UsedNow' = [b \in Authors |-> AdmissionIsSlidingWindow!Current(UsedNow[b], instant + 1)]
      /\ SeenNow' = [b \in Authors |->
           IF SeenNow[b] # NoBucket /\ (instant + 1) - SeenNow[b] < Window
           THEN SeenNow[b] ELSE NoBucket]
  <2>1. /\ UsedNow' = [b \in Authors |-> UsedNow'[b]]
        /\ SeenNow' = [b \in Authors |-> SeenNow'[b]]
    BY DEF UsedNow, SeenNow
  <2> QED
    BY <1>4, <2>1
<1>6. AdmissionIsSlidingWindow!Pass
  BY <1>1, <1>5 DEF AdmissionIsSlidingWindow!Pass
<1> QED
  BY <1>3, <1>6

\* Every step of the summaries is one of the promise, or none it could see.
LEMMA LimiterSteps ==
  ASSUME LimiterInv, [SummaryStep]_summaryVars
  PROVE  /\ LimiterInv'
         /\ [AdmissionIsSlidingWindow!Next]_(AdmissionIsSlidingWindow!vars)
<1>1. ASSUME NEW a \in Authors, AdmitSummary(a)
      PROVE  LimiterInv' /\ AdmissionIsSlidingWindow!Next
  <2>1. PICK outcome \in AdmitAt(requests, a, instant) : requests' = outcome.buckets
    BY <1>1 DEF AdmitSummary
  <2>2. instant' = instant
    BY <1>1 DEF AdmitSummary
  <2>3. LimiterInv' /\ AdmissionIsSlidingWindow!Attempt(a)
    BY <2>1, <2>2, AdmissionStep
  <2> QED
    BY <2>3 DEF AdmissionIsSlidingWindow!Next
<1>2. ASSUME SummaryInstantPasses
      PROVE  LimiterInv' /\ AdmissionIsSlidingWindow!Next
  BY <1>2, InstantStep DEF AdmissionIsSlidingWindow!Next
<1>3. ASSUME instant' = instant, requests' = requests
      PROVE  LimiterInv' /\ UNCHANGED AdmissionIsSlidingWindow!vars
  BY <1>3 DEF LimiterInv, AdmissionIsSlidingWindow!vars, UsedNow, SeenNow
<1>4. \/ \E a \in Authors : AdmitSummary(a)
      \/ SummaryInstantPasses
      \/ instant' = instant /\ requests' = requests
  BY DEF SummaryStep, SummaryCallsNext, EditingNext, Generate, ProviderAnswers, CallFails, Edit,
         UseCandidate, SaveRevision, summaryVars
<1> QED
  BY <1>1, <1>2, <1>3, <1>4

\* AiSummaryAdmission implements the sliding window it promises, for any number of
\* authors, buckets and attempts: an author is let through at most so often in
\* any window, whatever the limiter has dropped, displaced or not yet trimmed.
THEOREM SummariesImplementSlidingWindow == Spec => SummariesAdmitted
<1>1. Init => LimiterInv /\ AdmissionIsSlidingWindow!Init
  <2> SUFFICES ASSUME Init PROVE LimiterInv /\ AdmissionIsSlidingWindow!Init
    OBVIOUS
  <2>1. instant = 0 /\ requests = [a \in Authors |-> NoBucket]
    BY DEF Init, SummariesInit, NoBuckets
  <2>2. Known(requests) = {} /\ Cardinality({}) = 0 /\ MaximumBuckets \in Nat
    BY <2>1, LimiterAssumption, FS_EmptySet DEF Known
  <2>3. LimiterInv
    BY <2>1, <2>2 DEF LimiterInv
  <2>4. UsedNow = [a \in Authors |-> <<>>] /\ SeenNow = [a \in Authors |-> NoBucket]
    BY <2>1 DEF UsedNow, SeenNow, UsedOf, SeenOf
  <2> QED
    BY <2>1, <2>3, <2>4 DEF AdmissionIsSlidingWindow!Init
<1>2. LimiterInv /\ [Next]_servicesVars =>
        LimiterInv' /\ [AdmissionIsSlidingWindow!Next]_(AdmissionIsSlidingWindow!vars)
  BY ServiceSteps, LimiterSteps
<1> QED
  BY <1>1, <1>2, PTL DEF Spec, SummariesAdmitted, AdmissionIsSlidingWindow!Spec

---------------------------------------------------------------------------
(* The release check. *)

\* The document the task holds has passed every check.
ReleaseInv ==
  /\ channel \in ChannelDocuments \cup {BundledDocument}
  /\ ValidChannel(channel)
  /\ served \in ChannelDocuments \cup {BundledDocument, Unreachable}

\* The entries of a valid document fall from the first one on.
LEMMA FirstIsLatest ==
  ASSUME NEW document \in ChannelDocuments \cup {BundledDocument}, ValidChannel(document),
         NEW i \in DOMAIN document.entries
  PROVE  /\ document.latest = document.entries[1].version
         /\ document.latest \in Nat
         /\ document.entries[i].version \in Nat
         /\ document.entries[i].version <= document.latest
<1> DEFINE entries == document.entries
           Entries == [version : Nat, commit : Nat, fits : BOOLEAN]
           v(k) == entries[k].version
           Above == {k \in 1..Len(entries) : v(k) > v(1)}
<1>1. entries \in Seq(Entries)
  BY ReleaseAssumption
<1>2. Len(entries) \in Nat /\ DOMAIN entries = 1..Len(entries)
  BY <1>1
<1>3. ASSUME NEW k \in 1..Len(entries) PROVE v(k) \in Nat
  <2> HIDE DEF entries, Entries
  <2>1. entries[k] \in Entries
    BY <1>1, <1>2
  <2> USE DEF entries, Entries
  <2> QED
    BY <2>1
<1>4. i \in 1..Len(entries) /\ 1 \in 1..Len(entries) /\ entries # <<>>
  BY <1>2
<1>5. document.latest = v(1)
  BY <1>4 DEF ValidChannel
<1>6. \A k \in 1..(Len(entries) - 1) : v(k) > v(k + 1)
  BY DEF ValidChannel
<1> HIDE DEF v, entries
<1>7. Above = {}
  <2> SUFFICES ASSUME Above # {} PROVE FALSE
    OBVIOUS
  <2>0. Above \subseteq Nat
    BY <1>2
  <2> HIDE DEF Above
  <2>1. PICK least \in Above : \A k \in Above : least <= k
    BY <2>0, LeastNat
  <2> USE DEF Above
  <2>2. least \in 1..Len(entries) /\ v(least) > v(1) /\ least # 1
    BY <1>3, <1>4, <2>1
  <2>3. least - 1 \in 1..(Len(entries) - 1) /\ least - 1 \in 1..Len(entries)
        /\ (least - 1) + 1 = least
    BY <1>2, <2>2
  <2>4. v(least - 1) > v(least)
    BY <1>6, <2>3
  <2>5. v(least - 1) > v(1)
    BY <1>3, <1>4, <2>2, <2>3, <2>4
  <2> QED
    BY <1>2, <2>1, <2>3, <2>5
<1> QED
  BY <1>3, <1>4, <1>5, <1>7 DEF v, entries

\* A document is taken over only when it is valid.
LEMMA ReleaseStep ==
  ASSUME ReleaseInv, [ReleasesNext]_releaseVars
  PROVE  ReleaseInv'
<1>1. CASE Refresh
  BY <1>1 DEF ReleaseInv, Refresh, Usable, ValidChannel, ValidEntry
<1>2. CASE RefreshFails \/ IntervalElapses \/ UNCHANGED releaseVars
  BY <1>2 DEF ReleaseInv, RefreshFails, IntervalElapses, releaseVars, ValidChannel, ValidEntry
<1>3. CASE \E document \in ChannelDocuments \cup {Unreachable} : ChannelServes(document)
  BY <1>3 DEF ReleaseInv, ChannelServes, ValidChannel, ValidEntry
<1> QED
  BY <1>1, <1>2, <1>3 DEF ReleasesNext

\* public_status compares the latest entry alone; for every document the task can
\* come to hold, that one is newer than the server exactly if some release is.
THEOREM FooterNeverMisjudges == Spec => []UpdateSeen
<1>1. Init => ReleaseInv
  BY DEF Init, ReleasesInit, ReleaseInv
<1>2. ReleaseInv /\ [Next]_servicesVars => ReleaseInv'
  BY ServiceSteps, ReleaseStep
<1>3. ReleaseInv => UpdateSeen
  <2> SUFFICES ASSUME ReleaseInv, PublicStatus \in {"update_available", "current"}
               PROVE  PublicStatus = "update_available" <=>
                        \E i \in DOMAIN channel.entries :
                          channel.entries[i].version > RunningVersion
    BY DEF UpdateSeen
  <2>1. channel.latest # NoEntry
    BY DEF PublicStatus
  <2>2. PublicStatus = "update_available" <=> channel.latest > RunningVersion
    BY <2>1 DEF PublicStatus, UpdateAvailable
  <2>3. channel.entries # <<>>
    BY <2>1 DEF ReleaseInv, ValidChannel
  <2>4. channel.entries \in Seq([version : Nat, commit : Nat, fits : BOOLEAN])
    BY ReleaseAssumption DEF ReleaseInv
  <2>5. 1 \in DOMAIN channel.entries
    BY <2>3, <2>4
  <2>6. RunningVersion \in Nat
    BY ReleaseAssumption
  <2> QED
    BY <2>2, <2>5, <2>6, FirstIsLatest DEF ReleaseInv
<1> QED
  BY <1>1, <1>2, <1>3, PTL DEF Spec
=============================================================================
