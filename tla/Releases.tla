------------------------------ MODULE Releases ------------------------------
(***************************************************************************)
(* The release check behind the footer (version.rs): a background task     *)
(* fetches a channel document at intervals, takes it over only whole and   *)
(* only if every check passes, and otherwise keeps the last one it had.    *)
(* A document is its form (schema, names, size, encoding), its latest      *)
(* entry and its entries; an entry is a version, the commit and whether    *)
(* the rest of it (tag, date, digests, address) fits.                      *)
(***************************************************************************)
EXTENDS Integers, Sequences

CONSTANTS
  ChannelDocuments, \* documents the channel may serve
  BundledDocument,  \* the one built into the server
  RunningVersion,
  Unreachable,      \* no document: an outage, an error status, a broken body
  NoEntry           \* no latest release

\* Versions are ordered as numbers are (stable_version).
ASSUME ReleaseAssumption ==
  /\ RunningVersion \in Nat
  /\ \A document \in ChannelDocuments \cup {BundledDocument} :
       document.entries \in Seq([version : Nat, commit : Nat, fits : BOOLEAN])

VARIABLES
  served,   \* what the channel would answer now
  channel,  \* ChannelState.channel
  checked,  \* checked_at is set
  remoteFailed,
  enabled,  \* the checks are configured
  waiting   \* the task sleeps until the next check

releaseVars == <<served, channel, checked, remoteFailed, enabled, waiting>>

\* validate_release_entry, stable_version
ValidEntry(entry) == entry.fits

\* Mutant: the order of the entries is taken on trust.
ValidChannelAnyOrder(document) ==
  LET entries == document.entries IN
  /\ document.form
  /\ \A i \in DOMAIN entries : ValidEntry(entries[i])
  /\ \A i, j \in DOMAIN entries :
       i # j => entries[i].version # entries[j].version /\ entries[i].commit # entries[j].commit
  /\ document.latest = IF entries = <<>> THEN NoEntry ELSE entries[1].version

\* parse_release_channel
ValidChannel(document) ==
  LET entries == document.entries IN
  /\ document.form
  /\ \A i \in DOMAIN entries : ValidEntry(entries[i])
  /\ \A i, j \in DOMAIN entries :
       i # j => entries[i].version # entries[j].version /\ entries[i].commit # entries[j].commit
  /\ \A i \in 1..(Len(entries) - 1) : entries[i].version > entries[i + 1].version
  /\ document.latest = IF entries = <<>> THEN NoEntry ELSE entries[1].version

\* refresh up to the document: an answer in time, of status 200, whole.
Usable(answer) == IF answer = Unreachable THEN FALSE ELSE ValidChannel(answer)

\* start_from_environment; the build is refused unless its document is valid.
ReleasesInit ==
  /\ served \in {Unreachable, BundledDocument}
  /\ ValidChannel(BundledDocument)
  /\ channel = BundledDocument
  /\ checked = FALSE /\ remoteFailed = FALSE
  /\ enabled \in BOOLEAN
  /\ waiting = FALSE

\* public_status
UpdateAvailable(document) == document.latest # NoEntry /\ document.latest > RunningVersion
PublicStatus ==
  IF ~enabled THEN "disabled"
  ELSE IF remoteFailed /\ ~checked THEN "offline"
  ELSE IF channel.latest = NoEntry THEN "no_release"
  ELSE IF UpdateAvailable(channel) THEN "update_available" ELSE "current"

\* The task when refresh fails: what was validated stays.
RefreshFails ==
  /\ enabled /\ ~waiting
  /\ ~Usable(served)
  /\ remoteFailed' = TRUE /\ waiting' = TRUE
  /\ UNCHANGED <<served, channel, checked, enabled>>

\* refresh
Refresh ==
  /\ enabled /\ ~waiting
  /\ Usable(served)
  /\ channel' = served /\ checked' = TRUE /\ remoteFailed' = FALSE
  /\ waiting' = TRUE
  /\ UNCHANGED <<served, enabled>>

\* Mutant: an error leaves the loop.
IntervalElapsesAfterSuccess ==
  /\ waiting /\ ~remoteFailed /\ waiting' = FALSE
  /\ UNCHANGED <<served, channel, checked, remoteFailed, enabled>>

\* The sleep between two checks is over.
IntervalElapses ==
  /\ waiting /\ waiting' = FALSE
  /\ UNCHANGED <<served, channel, checked, remoteFailed, enabled>>

ChannelServes(document) ==
  /\ served' = document
  /\ UNCHANGED <<channel, checked, remoteFailed, enabled, waiting>>

ReleasesNext ==
  \/ Refresh
  \/ RefreshFails
  \/ IntervalElapses
  \/ \E document \in ChannelDocuments \cup {Unreachable} : ChannelServes(document)

---------------------------------------------------------------------------
(* Properties. *)

\* The footer looks at the latest entry alone; still it speaks of an update
\* exactly if some release of the document it holds is newer than the server,
\* whatever documents and failures have come before.
UpdateSeen ==
  PublicStatus \in {"update_available", "current"} =>
    (PublicStatus = "update_available" <=>
       \E i \in DOMAIN channel.entries : channel.entries[i].version > RunningVersion)
=============================================================================
