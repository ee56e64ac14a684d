------------------------------ MODULE RedisLink ------------------------------
(***************************************************************************)
(* The connection of a server to Redis (cache.rs): requests share one      *)
(* connection manager; when it failed, one of them at a time opens a new   *)
(* one, after a pause that doubles from failure to failure.                *)
(*                                                                         *)
(* Redis itself and the connections are external.  An outage begins a new  *)
(* era: a manager opened in an earlier one may work again or fail.         *)
(***************************************************************************)
EXTENDS Integers, FiniteSets

CONSTANTS
  Callers,        \* requests under way at the same time
  NoManager,
  NoCaller,
  BackoffMax,     \* RECONNECT_BACKOFF_MAX in units of RECONNECT_BACKOFF_MIN
  MaxFailures,    \* failures from which the pause no longer grows
  MaxOutages,     \* bound: outages of Redis
  MaxCancels      \* bound: requests given up by their clients

ASSUME LinkAssumption ==
  /\ 2 ^ (MaxFailures - 1) >= BackoffMax
  /\ NoManager \notin Nat
  /\ NoCaller \notin Callers

VARIABLES
  redis,    \* whether Redis answers, and the era
  slot,     \* ManagerSlot
  gate,     \* the holder of ReconnectControl.attempt
  breaker,  \* BreakerState, with the time left until retry_not_before
  ready,    \* state: the last thing recorded was a success
  caller,   \* where every request is
  cancels

linkVars == <<redis, slot, gate, breaker, ready, caller, cancels>>

IdleCaller == [phase |-> "idle"]

LinkInit ==
  /\ redis = [up |-> TRUE, era |-> 0]
  /\ slot = [manager |-> NoManager, generation |-> 0]
  /\ gate = NoCaller
  /\ breaker = [failures |-> 0, pause |-> 0]
  /\ ready = FALSE
  /\ caller = [c \in Callers |-> IdleCaller]
  /\ cancels = 0

At(c, phase) == caller[c].phase = phase
Moves(c, there) == caller' = [caller EXCEPT ![c] = there]

\* current_manager: the lease the slot gives.
Leased == [phase |-> "sent", manager |-> slot.manager, generation |-> slot.generation]

\* ensure_retry_allowed
RetryAllowed == breaker.pause = 0

\* ReconnectControl::record_failure; the count saturates where the pause does.
RecordFailure ==
  LET failures == IF breaker.failures < MaxFailures THEN breaker.failures + 1 ELSE MaxFailures
      delay == 2 ^ (failures - 1)
  IN breaker' = [failures |-> failures,
                 pause |-> IF delay < BackoffMax THEN delay ELSE BackoffMax]

\* A command of ping, admit_fixed_window, lookup, ... asks for the manager:
\* it is there, or the first look at the breaker decides.
AskManager(c) ==
  /\ At(c, "idle")
  /\ Moves(c, IF slot.manager # NoManager THEN Leased
              ELSE IF RetryAllowed THEN [phase |-> "trying"] ELSE IdleCaller)
  /\ UNCHANGED <<redis, slot, gate, breaker, ready, cancels>>

\* Mutant: the gate is not looked at.
BeginAttemptUngated(c) ==
  /\ At(c, "trying")
  /\ IF RetryAllowed
     THEN Moves(c, [phase |-> "leading"]) /\ gate' = c
     ELSE Moves(c, IdleCaller) /\ UNCHANGED gate
  /\ UNCHANGED <<redis, slot, breaker, ready, cancels>>

\* begin_attempt: try_lock and the second look at the breaker.
BeginAttempt(c) ==
  /\ At(c, "trying")
  /\ IF gate = NoCaller /\ RetryAllowed
     THEN Moves(c, [phase |-> "leading"]) /\ gate' = c
     ELSE Moves(c, IdleCaller) /\ UNCHANGED gate
  /\ UNCHANGED <<redis, slot, breaker, ready, cancels>>

\* The leader looks into the slot again before it opens a connection.
LookAgain(c) ==
  /\ At(c, "leading")
  /\ IF slot.manager # NoManager
     THEN Moves(c, Leased) /\ gate' = NoCaller
     ELSE Moves(c, [phase |-> "opening"]) /\ UNCHANGED gate
  /\ UNCHANGED <<redis, slot, breaker, ready, cancels>>

\* open_manager: Redis, or the master that Sentinel names, answers in time.
ManagerOpens == redis.up

\* The new manager is installed.
InstallManager(c) ==
  /\ At(c, "opening")
  /\ ManagerOpens
  /\ slot' = [manager |-> redis.era, generation |-> slot.generation + 1]
  /\ Moves(c, [phase |-> "sent", manager |-> redis.era, generation |-> slot.generation + 1])
  /\ gate' = NoCaller
  /\ UNCHANGED <<redis, breaker, ready, cancels>>

\* open_manager fails or runs into the timeout: record_connection_failure.
OpenFails(c) ==
  /\ At(c, "opening")
  /\ ~ManagerOpens
  /\ RecordFailure
  /\ ready' = FALSE
  /\ Moves(c, IdleCaller)
  /\ gate' = NoCaller
  /\ UNCHANGED <<redis, slot, cancels>>

\* Redis has answered; the request has not read the answer yet.
CommandAnswered(c) ==
  /\ At(c, "sent")
  /\ redis.up
  /\ Moves(c, [phase |-> "answered"])
  /\ UNCHANGED <<redis, slot, gate, breaker, ready, cancels>>

\* The command failed on its connection.
CommandFails(c) ==
  /\ At(c, "sent")
  /\ ~redis.up \/ caller[c].manager # redis.era
  /\ Moves(c, [phase |-> "failed", generation |-> caller[c].generation])
  /\ UNCHANGED <<redis, slot, gate, breaker, ready, cancels>>

\* record_success
RecordSuccess(c) ==
  /\ At(c, "answered")
  /\ breaker' = [failures |-> 0, pause |-> 0]
  /\ ready' = TRUE
  /\ Moves(c, IdleCaller)
  /\ UNCHANGED <<redis, slot, gate, cancels>>

\* Mutant: any failure drops the manager of the slot.
DropAnyManager(c) ==
  /\ At(c, "failed")
  /\ IF slot.manager # NoManager
     THEN slot' = [slot EXCEPT !.manager = NoManager] /\ Moves(c, [phase |-> "dropped"])
     ELSE Moves(c, IdleCaller) /\ UNCHANGED slot
  /\ UNCHANGED <<redis, gate, breaker, ready, cancels>>

\* handle_command_error, to drop_manager.
DropManager(c) ==
  /\ At(c, "failed")
  /\ IF slot.generation = caller[c].generation /\ slot.manager # NoManager
     THEN slot' = [slot EXCEPT !.manager = NoManager] /\ Moves(c, [phase |-> "dropped"])
     ELSE Moves(c, IdleCaller) /\ UNCHANGED slot
  /\ UNCHANGED <<redis, gate, breaker, ready, cancels>>

\* The rest of handle_command_error, in the request that dropped the manager.
OpenBreaker(c) ==
  /\ At(c, "dropped")
  /\ RecordFailure
  /\ ready' = FALSE
  /\ Moves(c, IdleCaller)
  /\ UNCHANGED <<redis, slot, gate, cancels>>

\* Mutant: a cancelled leader leaves the gate locked.
CancelKeepingGate(c) ==
  /\ caller[c].phase \notin {"idle", "dropped"}
  /\ cancels < MaxCancels
  /\ cancels' = cancels + 1
  /\ Moves(c, IdleCaller)
  /\ UNCHANGED <<redis, slot, gate, breaker, ready>>

\* The client of a request is gone: its future is dropped where it waits, and
\* with it the guard of the gate.
CancelCaller(c) ==
  /\ caller[c].phase \notin {"idle", "dropped"}
  /\ cancels < MaxCancels
  /\ cancels' = cancels + 1
  /\ Moves(c, IdleCaller)
  /\ gate' = IF gate = c THEN NoCaller ELSE gate
  /\ UNCHANGED <<redis, slot, breaker, ready>>

PauseElapses ==
  /\ breaker.pause > 0
  /\ breaker' = [breaker EXCEPT !.pause = @ - 1]
  /\ UNCHANGED <<redis, slot, gate, ready, caller, cancels>>

RedisFails ==
  /\ redis.up /\ redis.era < MaxOutages
  /\ redis' = [up |-> FALSE, era |-> redis.era + 1]
  /\ UNCHANGED <<slot, gate, breaker, ready, caller, cancels>>

RedisReturns ==
  /\ ~redis.up
  /\ redis' = [redis EXCEPT !.up = TRUE]
  /\ UNCHANGED <<slot, gate, breaker, ready, caller, cancels>>

\* What the runtime goes on with by itself.
CallerStep(c) ==
  \/ BeginAttempt(c) \/ LookAgain(c) \/ InstallManager(c) \/ OpenFails(c)
  \/ CommandAnswered(c) \/ CommandFails(c) \/ RecordSuccess(c)
  \/ DropManager(c) \/ OpenBreaker(c)

LinkNext ==
  \/ \E c \in Callers : AskManager(c) \/ CallerStep(c) \/ CancelCaller(c)
  \/ PauseElapses
  \/ RedisFails
  \/ RedisReturns

---------------------------------------------------------------------------
(* Properties. *)

\* After an outage the waiting requests do not all connect at once: at most
\* one of them is opening a connection, and it holds the gate.
OneConnectionAttempt ==
  \A c \in Callers : caller[c].phase \in {"leading", "opening"} => gate = c

\* A connection opened since the last outage is kept: the errors that requests
\* of earlier connections report late do not remove it.
FreshManagerKept ==
  [][redis.up /\ slot.manager = redis.era => slot'.manager # NoManager]_linkVars
=============================================================================
