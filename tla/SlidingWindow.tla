--------------------------- MODULE SlidingWindow ---------------------------
(***************************************************************************)
(* What a rate limiter of the server promises: an identity is admitted at  *)
(* most Allowance times in any stretch of Length instants, whatever others *)
(* do.  The promise has two gaps, both deliberate: an identity may be      *)
(* pardoned (after a successful sign-in), and while as many identities are *)
(* remembered as fit, a new one displaces the one silent for longest.      *)
(***************************************************************************)
EXTENDS Integers, Sequences, FiniteSets

CONSTANTS Identity, Allowance, Length, Capacity, Never

VARIABLES
  clock,  \* the current instant
  used,   \* per identity, the instants it was admitted at, within the window
  seen    \* per identity, its last attempt within the window, or Never

vars == <<clock, used, seen>>

\* What lies within the window of a sequence of instants, which is its end.
Current(instants, now) ==
  LET past == CHOOSE m \in 0..Len(instants) :
                \A k \in 1..Len(instants) : now - instants[k] < Length <=> m < k
  IN SubSeq(instants, past + 1, Len(instants))

Init ==
  /\ clock = 0
  /\ used = [i \in Identity |-> <<>>]
  /\ seen = [i \in Identity |-> Never]

Pass ==
  /\ clock' = clock + 1
  /\ used' = [i \in Identity |-> Current(used[i], clock + 1)]
  /\ seen' = [i \in Identity |->
       IF seen[i] # Never /\ (clock + 1) - seen[i] < Length THEN seen[i] ELSE Never]

Remembered == {i \in Identity : seen[i] # Never}

\* The identities an attempt of i may displace.
Displaced(i) ==
  IF i \in Remembered \/ Cardinality(Remembered) < Capacity THEN {{}}
  ELSE {{j} : j \in {k \in Remembered : \A l \in Remembered : seen[k] <= seen[l]}}

Attempt(i) ==
  \E gone \in Displaced(i) :
    /\ used' = [j \in Identity |->
         IF j = i /\ Len(used[j]) < Allowance THEN Append(used[j], clock)
         ELSE IF j \in gone THEN <<>> ELSE used[j]]
    /\ seen' = [j \in Identity |->
         IF j = i THEN clock ELSE IF j \in gone THEN Never ELSE seen[j]]
    /\ UNCHANGED clock

Pardon(i) ==
  /\ used' = [used EXCEPT ![i] = <<>>]
  /\ seen' = [seen EXCEPT ![i] = Never]
  /\ UNCHANGED clock

Next == (\E i \in Identity : Pardon(i) \/ Attempt(i)) \/ Pass

Spec == Init /\ [][Next]_vars
=============================================================================
