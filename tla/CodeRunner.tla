----------------------------- MODULE CodeRunner -----------------------------
(***************************************************************************)
(* The client of the code runner (code-runner-client, and the handlers of  *)
(* main.rs that use it): the operator's profiles, a submission with its    *)
(* readiness check, and the jobs the server tracks until they are polled.  *)
(*                                                                         *)
(* The broker is external and may answer anything at any time: another     *)
(* job, another request, a later expiry, a profile that was replaced.      *)
(***************************************************************************)
EXTENDS Integers, FiniteSets

CONSTANTS
  CandidateProfiles,  \* profiles a configuration may list
  BrokerProfiles,     \* lists of id and digest the broker may report
  Meters,             \* wall, cpu, memory, output and processes
  GlobalRange,        \* per meter, its MIN and MAX as a set
  DefaultLimits,      \* RunLimits::default
  RunJobs,            \* job ids of the broker
  RunHandlers,        \* handlers under way at the same time
  JobTtl,
  MaxTracked,         \* 1024 in the code
  NoRun,
  MaxRuns,            \* bound: submissions
  MaxNow              \* bound: instants

ASSUME RunnerAssumption ==
  /\ IsFiniteSet(RunJobs)
  /\ JobTtl \in Nat
  /\ MaxTracked \in Nat

VARIABLES
  now,       \* Utc::now()
  profiles,  \* the ProfileRegistry
  active,    \* the feature code_runner, set at start
  issued,    \* per request id in use, the expiry it was sent with
  jobs,      \* runner_jobs: per job, the QueuedRun or NoRun
  handling,  \* the handlers under way
  refused    \* the handler that last found no room for a job, or NoRun

runnerVars == <<now, profiles, active, issued, jobs, handling, refused>>

\* RunLimits::validate_global
ValidLimits(limits) ==
  /\ \A m \in Meters : limits[m] \in GlobalRange[m]
  /\ limits["cpu"] <= limits["wall"]

\* RunLimits::validate_against
WithinLimits(limits, maximum) ==
  /\ ValidLimits(limits)
  /\ ValidLimits(maximum)
  /\ \A m \in Meters : limits[m] <= maximum[m]

\* RunnerProfile::validate, the spelling of its names apart.
ValidProfile(profile) == profile.aliases # {} /\ ValidLimits(profile.maximum)

\* ProfileRegistry::new
ValidRegistry(ps) ==
  /\ ps # {}
  /\ \A p \in ps : ValidProfile(p)
  /\ \A p, q \in ps : p # q => p.id # q.id /\ p.aliases \cap q.aliases = {}

\* normalize_readiness: the profiles that are approved with this very digest.
\* A list that names a profile twice is no answer.
ApprovedProfiles(reported) ==
  IF \E p, q \in reported : p # q /\ p.id = q.id THEN {}
  ELSE {p \in profiles : [id |-> p.id, digest |-> p.digest] \in reported}

NoCallYet == [phase |-> "idle"]

\* The server starts: a configuration whose registry is accepted, and the
\* broker as it happens to be.
RunnerInit ==
  /\ now = 0
  /\ profiles \in {ps \in SUBSET CandidateProfiles : ValidRegistry(ps)}
  /\ active \in {ApprovedProfiles(reported) # {} : reported \in BrokerProfiles}
  /\ issued = <<>>
  /\ jobs = [j \in RunJobs |-> NoRun]
  /\ handling = [c \in RunHandlers |-> NoCallYet]
  /\ refused = NoRun

GoesOn(c, there) == handling' = [handling EXCEPT ![c] = there]
Ends(c) == GoesOn(c, NoCallYet)

\* prepare_request: a new request id and an expiry, or a refusal.  What the
\* answers are held against.
Prepared(profile) ==
  [request |-> Cardinality(DOMAIN issued) + 1, digest |-> profile.digest,
   maximumExpiry |-> now + JobTtl]

\* submit_code_run, to the readiness check.  The limits are always the default
\* ones, so a profile that allows less can never be used.
SubmitRun(c, profile) ==
  /\ handling[c].phase = "idle"
  /\ active
  /\ Cardinality(DOMAIN issued) < MaxRuns
  /\ WithinLimits(DefaultLimits, profile.maximum)
  /\ LET prepared == Prepared(profile) IN
     /\ issued' = [r \in 1..prepared.request |->
          IF r = prepared.request THEN prepared.maximumExpiry ELSE issued[r]]
     /\ GoesOn(c, [phase |-> "preparing", expected |-> prepared])
  /\ UNCHANGED <<now, profiles, active, jobs, refused>>

\* The readiness check before the job is sent.
RunnerReadiness(c, reported) ==
  /\ handling[c].phase = "preparing"
  /\ IF \E p \in ApprovedProfiles(reported) : p.digest = handling[c].expected.digest
     THEN GoesOn(c, [handling[c] EXCEPT !.phase = "asked"])
     ELSE Ends(c)
  /\ UNCHANGED <<now, profiles, active, issued, jobs, refused>>

\* RemoteRunnerClient::poll, to the request; the registry does not change.
Pollable(run) == run.expires > now

\* poll_code_run to the request: the tracked run is copied and used from then
\* on, whatever happens to the table.
PollRun(c, job) ==
  /\ handling[c].phase = "idle"
  /\ active
  /\ jobs[job] # NoRun
  /\ Pollable(jobs[job])
  /\ GoesOn(c, [phase |-> "asked",
                expected |-> [request |-> jobs[job].request, digest |-> jobs[job].digest,
                              maximumExpiry |-> jobs[job].expires]])
  /\ UNCHANGED <<now, profiles, active, issued, jobs, refused>>

\* What a broker may say.
BrokerAnswers ==
  [state : {"queued"}, job : RunJobs, request : DOMAIN issued,
   digest : {p.digest : p \in profiles}, expires : 1..(MaxNow + JobTtl)]
  \cup
  [state : {"terminal"}, job : RunJobs, request : DOMAIN issued,
   digest : {p.digest : p \in profiles}]

\* ExpectedRun::validate
Expected(answer, expected) ==
  answer.request = expected.request /\ answer.digest = expected.digest

\* Mutant: the expiry is the broker's affair.
ValidAnswerAnyExpiry(answer, expected) == Expected(answer, expected)

\* validate_broker_result.  The job id is not compared with the one asked for.
ValidAnswer(answer, expected) ==
  /\ Expected(answer, expected)
  /\ answer.state = "queued" => answer.expires <= expected.maximumExpiry

BrokerAnswered(c, answer) ==
  /\ handling[c].phase = "asked"
  /\ IF ValidAnswer(answer, handling[c].expected)
     THEN GoesOn(c, [phase |-> "storing", answer |-> answer])
     ELSE Ends(c)
  /\ UNCHANGED <<now, profiles, active, issued, jobs, refused>>

\* No answer, an error status, a timeout or a body past the limit; or the
\* browser is gone.  The broker may have taken the job.
BrokerLost(c) ==
  /\ handling[c].phase # "idle"
  /\ Ends(c)
  /\ UNCHANGED <<now, profiles, active, issued, jobs, refused>>

Tracked(table) == {j \in RunJobs : table[j] # NoRun}

\* Mutant: expired jobs keep their places.
UnexpiredKeepingAll(table) == table

\* retain
UnexpiredJobs(table) ==
  [j \in RunJobs |-> IF j \in Tracked(table) /\ table[j].expires > now THEN table[j] ELSE NoRun]

\* store_runner_result
StoreRunnerResult(c) ==
  /\ handling[c].phase = "storing"
  /\ LET answer == handling[c].answer
         kept == UnexpiredJobs(jobs)
     IN
     IF answer.state = "terminal"
     THEN jobs' = [jobs EXCEPT ![answer.job] = NoRun] /\ refused' = NoRun
     ELSE IF Cardinality(Tracked(kept)) >= MaxTracked /\ kept[answer.job] = NoRun
     THEN jobs' = kept /\ refused' = c
     ELSE /\ jobs' = [kept EXCEPT ![answer.job] =
                       [request |-> answer.request, digest |-> answer.digest,
                        expires |-> answer.expires]]
          /\ refused' = NoRun
  /\ Ends(c)
  /\ UNCHANGED <<now, profiles, active, issued>>

RunnerInstantPasses ==
  /\ now < MaxNow
  /\ now' = now + 1
  /\ refused' = NoRun
  /\ UNCHANGED <<profiles, active, issued, jobs, handling>>

RunnerNext ==
  \/ \E c \in RunHandlers :
       \/ \E p \in profiles : SubmitRun(c, p)
       \/ \E reported \in BrokerProfiles : RunnerReadiness(c, reported)
       \/ \E job \in RunJobs : PollRun(c, job)
       \/ \E answer \in BrokerAnswers : BrokerAnswered(c, answer)
       \/ BrokerLost(c)
       \/ StoreRunnerResult(c)
  \/ RunnerInstantPasses

---------------------------------------------------------------------------
(* Properties. *)

\* However often a job is polled, by several browsers at once and with answers
\* that arrive late, it is tracked no longer than its request was allowed to
\* run when it was sent: even a finished job that a late answer brings back
\* into the table has expired then, and leaves it at the next retain.
ExpiryNeverExtended ==
  \A j \in Tracked(jobs) : jobs[j].expires <= issued[jobs[j].request]

\* A submission is turned away for lack of room only while MaxTracked jobs are
\* alive: jobs nobody polled to their end do not fill the table for good.
RefusedOnlyWhenFull ==
  refused # NoRun =>
    Cardinality({j \in Tracked(jobs) : jobs[j].expires > now}) >= MaxTracked

\* The table of tracked jobs holds a job for its time and no longer, so that
\* late polls neither keep jobs alive nor fill the table.
RunsTracked == ExpiryNeverExtended /\ RefusedOnlyWhenFull
=============================================================================
