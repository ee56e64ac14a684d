---------------------------- MODULE RateLimiter ----------------------------
(***************************************************************************)
(* KeyedRateLimiter (admission.rs) as operators on its map of buckets.     *)
(* The map gives every identity its bucket or NoBucket; instants are       *)
(* numbers.                                                                *)
(***************************************************************************)
EXTENDS Integers, Sequences, FiniteSets

CONSTANTS
  MaximumBuckets,     \* 512 for sign-ins, 4096 for members and summaries
  AttemptsPerWindow,  \* 6, 10 and 4
  Window,             \* 60 seconds
  NoBucket

Bucket == [attempts : Seq(Nat), lastSeen : Nat]

ASSUME LimiterAssumption ==
  /\ {MaximumBuckets, AttemptsPerWindow, Window} \subseteq Nat \ {0}
  /\ NoBucket \notin Nat
  /\ NoBucket \notin Bucket

NoBuckets(identities) == [i \in identities |-> NoBucket]

Known(buckets) == {i \in DOMAIN buckets : buckets[i] # NoBucket}

\* retain: buckets that were silent for a whole window are dropped.
Retained(buckets, now) ==
  [i \in DOMAIN buckets |->
     IF i \in Known(buckets) /\ now - buckets[i].lastSeen < Window
     THEN buckets[i] ELSE NoBucket]

\* min_by_key: any of the buckets last seen first.
Oldest(buckets) ==
  {i \in Known(buckets) :
     \A j \in Known(buckets) : buckets[i].lastSeen <= buckets[j].lastSeen}

\* Mutant: any bucket may have to go.
RoomMadeAnyhow(buckets, i, now) ==
  IF i \in Known(buckets) THEN {buckets}
  ELSE IF Cardinality(Known(Retained(buckets, now))) < MaximumBuckets
  THEN {Retained(buckets, now)}
  ELSE {[Retained(buckets, now) EXCEPT ![j] = NoBucket] : j \in Known(buckets)}

\* The maps with room for identity i.
RoomMade(buckets, i, now) ==
  LET retained == Retained(buckets, now) IN
  IF i \in Known(buckets) THEN {buckets}
  ELSE IF Cardinality(Known(retained)) < MaximumBuckets THEN {retained}
  ELSE {[retained EXCEPT ![j] = NoBucket] : j \in Oldest(retained)}

\* The loop that pops the attempt at the front for as long as it is expired.
Unexpired(attempts, now) ==
  LET Expired(k) == now - attempts[k] >= Window
      popped == CHOOSE m \in 0..Len(attempts) :
                  /\ \A k \in 1..m : Expired(k)
                  /\ m < Len(attempts) => ~Expired(m + 1)
  IN SubSeq(attempts, popped + 1, Len(attempts))

\* admit_at: the possible outcomes.
AdmitAt(buckets, i, now) ==
  {LET attempts == IF room[i] = NoBucket THEN <<>> ELSE Unexpired(room[i].attempts, now)
       admitted == Len(attempts) < AttemptsPerWindow
   IN [admitted |-> admitted,
       buckets |-> [room EXCEPT ![i] =
         [attempts |-> IF admitted THEN Append(attempts, now) ELSE attempts,
          lastSeen |-> now]]] :
   room \in RoomMade(buckets, i, now)}

Forget(buckets, i) == [buckets EXCEPT ![i] = NoBucket]
=============================================================================
