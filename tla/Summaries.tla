----------------------------- MODULE Summaries -----------------------------
(***************************************************************************)
(* AI summaries: the requests of authors pass the rate limiter, take one   *)
(* of the slots of AiSummaryService and wait for a provider outside the    *)
(* server; the candidate comes back when the author may have edited the    *)
(* text it was made from, and is stored only with a text it fits.          *)
(*                                                                         *)
(* The text of the article stands for title and Markdown, and for its      *)
(* hash.  The key the author sends along is used for the call and kept     *)
(* nowhere.                                                                *)
(***************************************************************************)
EXTENDS RateLimiter

CONSTANTS
  Authors,
  Writer,        \* the author whose editor is followed
  Texts,
  SummarySlots,  \* permits of AiSummaryService, 2 in the code
  ProviderReplies,  \* what a provider may answer
  NoSummary,
  MaxInstant     \* bound: instants

ASSUME SummariesAssumption ==
  /\ IsFiniteSet(Authors)
  /\ SummarySlots \in Nat

VARIABLES
  instant,     \* Instant::now()
  requests,    \* AiSummaryAdmission: the buckets of the limiter
  slots,       \* free permits
  calls,       \* per author, the request in flight
  editor,      \* the text in the writer's editor
  candidate,   \* the summary the editor shows, or NoSummary
  stored       \* the last revision: its text and its summary

summaryVars == <<instant, requests, slots, calls, editor, candidate, stored>>

NoCall == [phase |-> "none"]

SummariesInit ==
  /\ instant = 0
  /\ requests = NoBuckets(Authors)
  /\ slots = SummarySlots
  /\ calls = [a \in Authors |-> NoCall]
  /\ editor \in Texts
  /\ candidate = NoSummary
  /\ stored = [text |-> editor, summary |-> NoSummary]

\* generate_ai_summary, to the limiter.  A refused request has been counted
\* as an attempt and nothing else.
AdmitSummary(a) ==
  /\ calls[a] = NoCall
  /\ \E outcome \in AdmitAt(requests, a, instant) :
       /\ requests' = outcome.buckets
       /\ calls' = IF outcome.admitted
                   THEN [calls EXCEPT ![a] = [phase |-> "admitted", text |-> editor]]
                   ELSE calls
  /\ UNCHANGED <<instant, slots, editor, candidate, stored>>

\* AiSummaryService::generate: the key and the input are good (validate_input)
\* and there is a slot, or the request ends.
Generate(a, valid) ==
  /\ calls[a].phase = "admitted"
  /\ IF valid /\ slots > 0
     THEN /\ slots' = slots - 1
          /\ calls' = [calls EXCEPT ![a].phase = "waiting"]
     ELSE /\ calls' = [calls EXCEPT ![a] = NoCall]
          /\ UNCHANGED slots
  /\ UNCHANGED <<instant, requests, editor, candidate, stored>>

\* map_provider_status and read_bounded: a success that is not too long.
Delivered(reply) == reply.status = "success" /\ ~reply.oversized

\* parse_openai_response and its siblings: the model came to its end, and some
\* part is text that is not blank.
Complete(reply) == reply.finished /\ "text" \in reply.parts

\* normalize_summary, of what the parts say.
Plain(reply) == ~reply.controls /\ ~reply.wordy

\* The provider answers: a candidate nobody has reviewed, for the text that
\* was sent, or an error.
ProviderAnswers(a, reply) ==
  /\ calls[a].phase = "waiting"
  /\ candidate' =
       IF a = Writer /\ Delivered(reply) /\ Complete(reply) /\ Plain(reply)
       THEN [source |-> calls[a].text, reviewed |-> FALSE]
       ELSE candidate
  /\ calls' = [calls EXCEPT ![a] = NoCall]
  /\ slots' = slots + 1
  /\ UNCHANGED <<instant, requests, editor, stored>>

\* Mutant: a failed call keeps its slot.
CallFailsKeepingSlot(a) ==
  /\ calls[a].phase = "waiting"
  /\ calls' = [calls EXCEPT ![a] = NoCall]
  /\ UNCHANGED <<instant, requests, slots, editor, candidate, stored>>

\* The 15 seconds pass, the connection breaks or the author has gone: the
\* permit is dropped with the future.
CallFails(a) ==
  /\ calls[a].phase = "waiting"
  /\ calls' = [calls EXCEPT ![a] = NoCall]
  /\ slots' = slots + 1
  /\ UNCHANGED <<instant, requests, editor, candidate, stored>>

\* The author goes on writing.
Edit(text) ==
  /\ text # editor
  /\ editor' = text
  /\ UNCHANGED <<instant, requests, slots, calls, candidate, stored>>

\* The author takes the candidate over in the editor.
UseCandidate ==
  /\ candidate # NoSummary
  /\ ~candidate.reviewed
  /\ candidate' = [candidate EXCEPT !.reviewed = TRUE]
  /\ UNCHANGED <<instant, requests, slots, calls, editor, stored>>

\* validate_ready_ai_summary
ReadySummary(text, summary) == summary.reviewed /\ summary.source = text

\* A revision is saved with what the editor shows, or without the summary.
SaveRevision(summary) ==
  /\ summary \in {candidate, NoSummary}
  /\ summary # NoSummary => ReadySummary(editor, summary)
  /\ stored' = [text |-> editor, summary |-> summary]
  /\ UNCHANGED <<instant, requests, slots, calls, editor, candidate>>

SummaryInstantPasses ==
  /\ instant < MaxInstant
  /\ instant' = instant + 1
  /\ UNCHANGED <<requests, slots, calls, editor, candidate, stored>>

SummaryCallsNext ==
  \E a \in Authors :
    \/ AdmitSummary(a)
    \/ \E valid \in BOOLEAN : Generate(a, valid)
    \/ \E reply \in ProviderReplies : ProviderAnswers(a, reply)
    \/ CallFails(a)

EditingNext ==
  \/ \E text \in Texts : Edit(text)
  \/ UseCandidate
  \/ \E summary \in {candidate, NoSummary} : SaveRevision(summary)

---------------------------------------------------------------------------
(* Properties. *)

\* The buckets as the promise sees them: expired instants and silent authors are
\* still in the map until a later request drops them.
UsedOf(b, now) == IF b = NoBucket THEN <<>> ELSE Unexpired(b.attempts, now)
SeenOf(b, now) ==
  IF b # NoBucket /\ now - b.lastSeen < Window THEN b.lastSeen ELSE NoBucket

UsedNow == [a \in Authors |-> UsedOf(requests[a], instant)]
SeenNow == [a \in Authors |-> SeenOf(requests[a], instant)]

\* AiSummaryAdmission keeps the promise of a sliding window: no order of
\* requests of several authors, with buckets dropped, displaced and trimmed at
\* different times, lets an author through more often.
AdmissionIsSlidingWindow ==
  INSTANCE SlidingWindow WITH
    Identity <- Authors, Allowance <- AttemptsPerWindow, Length <- Window,
    Capacity <- MaximumBuckets, Never <- NoBucket,
    clock <- instant, used <- UsedNow, seen <- SeenNow

SummariesAdmitted == AdmissionIsSlidingWindow!Spec

\* A permit is free or held by a call that is waiting: no failure, timeout or
\* disconnect loses one, so "busy" always means two calls in flight.
SlotsAccounted ==
  slots + Cardinality({a \in Authors : calls[a].phase = "waiting"}) = SummarySlots
=============================================================================
