------------------------- MODULE AdminControlPlane -------------------------
(***************************************************************************)
(* The administrator control plane: the one admin_control_plane row, the   *)
(* sessions and the external identities of storage-sqlite, and the server  *)
(* replicas that start, rotate credentials, sign the owner in and stop     *)
(* around them.  Each repository operation is one immediate transaction;   *)
(* what a replica does between two of them is interleaved with the others. *)
(*                                                                         *)
(* A configuration is the mode, the binding fingerprint (of the access key *)
(* or of the provider settings) and the primary site a replica is started  *)
(* with, and whether it is started with OSB_ADMIN_AUTH_ROTATE.             *)
(***************************************************************************)
EXTENDS Integers, FiniteSets

CONSTANTS
  Replicas,
  Bindings,       \* fingerprints of access keys and of provider settings
  NoBinding,      \* the fingerprint of disabled authentication
  Sites,          \* site ids
  Tokens,         \* session tokens, each drawn once
  Subjects,       \* verified external subjects
  NoRecord,       \* an absent row
  MaxEpoch        \* bound: authentication epoch

Modes == {"access_key", "external", "disabled"}
Methods == {"legacy", "access_key", "external"}
Fingerprints == Bindings \cup {NoBinding}

\* binding_fingerprint separates the modes, and has one value for "disabled".
Config ==
  {c \in [mode : Modes, fingerprint : Fingerprints, site : Sites, rotate : BOOLEAN] :
     c.mode = "disabled" <=> c.fingerprint = NoBinding}
Control == [site : Sites, mode : Modes, fingerprint : Fingerprints,
            epoch : Nat \ {0}, setup : BOOLEAN]
Session == [method : Methods, epoch : Nat, live : BOOLEAN,
            fingerprint : Fingerprints \cup {NoRecord}]

ASSUME ControlAssumption ==
  /\ MaxEpoch \in Nat
  /\ NoRecord \notin Control
  /\ NoRecord \notin Session
  /\ NoRecord \notin Config
  /\ NoRecord \notin Fingerprints
  /\ NoBinding \notin Bindings

VARIABLES
  sites,       \* rows of sites, each with its owner
  control,     \* the admin_control_plane row
  sessions,    \* per token: its row; `fingerprint` records, for the
               \* properties, the binding the sign-in was verified under
  identities,  \* per subject: the binding its row was written under, or NoRecord
  replica,     \* per replica: "down", a step of its start, or "running"
  config,      \* per replica: its configuration
  pending      \* replicas whose owner sign-in is verified but not yet issued

vars == <<sites, control, sessions, identities, replica, config, pending>>

TypeOK ==
  /\ sites \in SUBSET Sites
  /\ control \in Control \cup {NoRecord}
  /\ sessions \in [Tokens -> Session \cup {NoRecord}]
  /\ identities \in [Subjects -> Fingerprints \cup {NoRecord}]
  /\ replica \in [Replicas -> {"down", "start", "provision", "reconcile",
                               "rotate", "running"}]
  /\ config \in [Replicas -> Config \cup {NoRecord}]
  /\ pending \in SUBSET Replicas

\* A new database, or one from before the control plane existed.
Init ==
  /\ sites \in SUBSET Sites
  /\ control = NoRecord
  /\ sessions = [t \in Tokens |-> NoRecord]
  /\ identities = [s \in Subjects |-> NoRecord]
  /\ replica = [p \in Replicas |-> "down"]
  /\ config = [p \in Replicas |-> NoRecord]
  /\ pending = {}

Goto(p, step) == replica' = [replica EXCEPT ![p] = step]
storageVars == <<sites, control, sessions, identities>>

---------------------------------------------------------------------------
(* Starting and stopping a replica. *)

Start(p, c) ==
  /\ replica[p] = "down"
  /\ config' = [config EXCEPT ![p] = c]
  /\ Goto(p, IF c.mode # "disabled" /\ ~c.rotate THEN "provision" ELSE "start")
  /\ UNCHANGED <<storageVars, pending>>

\* The replica stops, or is killed, whatever it was doing.
Stop(p) ==
  /\ replica[p] # "down"
  /\ Goto(p, "down")
  /\ config' = [config EXCEPT ![p] = NoRecord]
  /\ pending' = pending \ {p}
  /\ UNCHANGED storageVars

\* Mutant: the persisted mode is not compared before a rotation.
ReadWithoutModeCheck(p) ==
  LET c == config[p] IN
  /\ replica[p] = "start"
  /\ \/ control = NoRecord /\ Goto(p, "provision")
     \/ control # NoRecord /\ c.rotate /\ Goto(p, "rotate")
     \/ control # NoRecord /\ ~c.rotate /\ Goto(p, "reconcile")
  /\ UNCHANGED <<storageVars, config, pending>>

\* get_admin_control_plane at start, in a transaction of its own, and
\* ensure_same_admin_module_rotation on what it returned.
ReadControlPlane(p) ==
  LET c == config[p] IN
  /\ replica[p] = "start"
  /\ \/ control = NoRecord /\ Goto(p, "provision")
     \/ control # NoRecord /\ c.rotate /\ control.mode = c.mode /\ Goto(p, "rotate")
     \/ control # NoRecord /\ ~c.rotate /\ Goto(p, "reconcile")
  /\ UNCHANGED <<storageVars, config, pending>>

\* validate_control_plane_binding
BindingMatches(c, site) ==
  /\ control.site = site
  /\ control.mode = c.mode
  /\ control.fingerprint = c.fingerprint

\* provision_primary_owner_site: the row exists and must match, or the
\* configured site exists, or there is no site at all and one is created.
Provision(p) ==
  LET c == config[p] IN
  /\ replica[p] = "provision"
  /\ \/ /\ control # NoRecord
        /\ BindingMatches(c, c.site)
        /\ UNCHANGED <<sites, control>>
     \/ /\ control = NoRecord
        /\ c.site \in sites \/ sites = {}
        /\ sites' = sites \cup {c.site}
        /\ control' = [site |-> c.site, mode |-> c.mode, fingerprint |-> c.fingerprint,
                       epoch |-> 1, setup |-> c.site \in sites]
  /\ Goto(p, "running")
  /\ UNCHANGED <<sessions, identities, config, pending>>

\* reconcile_admin_control_plane, of a replica with authentication disabled,
\* which passes the primary site it has just read.
Reconcile(p) ==
  /\ replica[p] = "reconcile"
  /\ BindingMatches(config[p], control.site)
  /\ Goto(p, "running")
  /\ UNCHANGED <<storageVars, config, pending>>

\* Mutant: old sessions are left to the epoch check alone.
RevokeNothing == UNCHANGED sessions

\* rotate_admin_control_plane revokes every session but the members'.
RevokeAdminSessions ==
  sessions' = [t \in Tokens |->
    IF sessions[t] # NoRecord /\ sessions[t].method # "legacy"
      THEN [sessions[t] EXCEPT !.live = FALSE] ELSE sessions[t]]

\* Mutant: a matching target is rotated to once more.
RotateAlways(p) ==
  LET c == config[p]
      site == IF c.mode = "disabled" THEN control.site ELSE c.site
  IN
  /\ replica[p] = "rotate"
  /\ control.site = site
  /\ control.epoch < MaxEpoch
  /\ control' = [control EXCEPT !.mode = c.mode, !.fingerprint = c.fingerprint,
                                !.epoch = @ + 1]
  /\ RevokeAdminSessions
  /\ identities' = [s \in Subjects |-> NoRecord]
  /\ Goto(p, "running")
  /\ UNCHANGED <<sites, config, pending>>

\* rotate_admin_control_plane: a matching target changes nothing.
Rotate(p) ==
  LET c == config[p]
      site == IF c.mode = "disabled" THEN control.site ELSE c.site
  IN
  /\ replica[p] = "rotate"
  /\ control.site = site
  /\ \/ /\ control.mode = c.mode /\ control.fingerprint = c.fingerprint
        /\ UNCHANGED <<control, sessions, identities>>
     \/ /\ control.mode # c.mode \/ control.fingerprint # c.fingerprint
        /\ control.epoch < MaxEpoch
        /\ control' = [control EXCEPT !.mode = c.mode, !.fingerprint = c.fingerprint,
                                      !.epoch = @ + 1]
        /\ RevokeAdminSessions
        /\ identities' = [s \in Subjects |-> NoRecord]
  /\ Goto(p, "running")
  /\ UNCHANGED <<sites, config, pending>>

---------------------------------------------------------------------------
(* Signing in and out. *)

\* The access key of a sign-in matches the one of this replica.
VerifyAccessKey(p) ==
  /\ replica[p] = "running"
  /\ config[p].mode = "access_key"
  /\ pending' = pending \cup {p}
  /\ UNCHANGED <<storageVars, replica, config>>

\* Mutant: the fingerprint of the replica is not compared.
BindUnchecked(p, s) ==
  /\ replica[p] = "running"
  /\ config[p].mode = "external" /\ control.mode = "external"
  /\ identities' = [identities EXCEPT ![s] =
       IF @ = NoRecord THEN config[p].fingerprint ELSE @]
  /\ pending' = pending \cup {p}
  /\ UNCHANGED <<sites, control, sessions, replica, config>>

\* bind_external_identity, after the provider has verified the owner's subject.
BindExternalIdentity(p, s) ==
  /\ replica[p] = "running"
  /\ config[p].mode = "external"
  /\ control.mode = "external"
  /\ control.fingerprint = config[p].fingerprint
  /\ identities' = [identities EXCEPT ![s] =
       IF @ = NoRecord THEN config[p].fingerprint ELSE @]
  /\ pending' = pending \cup {p}
  /\ UNCHANGED <<sites, control, sessions, replica, config>>

\* Mutant: only the mode is compared when the session is issued.
IssueForMode(p, t) ==
  /\ p \in pending
  /\ sessions[t] = NoRecord
  /\ control.mode = config[p].mode
  /\ sessions' = [sessions EXCEPT ![t] =
       [method |-> control.mode, epoch |-> control.epoch, live |-> TRUE,
        fingerprint |-> config[p].fingerprint]]
  /\ pending' = pending \ {p}
  /\ UNCHANGED <<sites, control, identities, replica, config>>

\* create_primary_owner_session, a transaction after the verification: the
\* binding this replica verified under must still be the active one.
IssueSession(p, t) ==
  /\ p \in pending
  /\ sessions[t] = NoRecord
  /\ control.mode = config[p].mode
  /\ control.fingerprint = config[p].fingerprint
  /\ sessions' = [sessions EXCEPT ![t] =
       [method |-> control.mode, epoch |-> control.epoch, live |-> TRUE,
        fingerprint |-> config[p].fingerprint]]
  /\ pending' = pending \ {p}
  /\ UNCHANGED <<sites, control, identities, replica, config>>

\* "session issuance does not match the active administrator authentication
\* binding": the sign-in ends with an error.
SignInRefused(p) ==
  /\ p \in pending
  /\ control.mode # config[p].mode \/ control.fingerprint # config[p].fingerprint
  /\ pending' = pending \ {p}
  /\ UNCHANGED <<storageVars, replica, config>>

\* create_session of a community member.
CreateMemberSession(p, t) ==
  /\ replica[p] = "running"
  /\ sessions[t] = NoRecord
  /\ sessions' = [sessions EXCEPT ![t] =
       [method |-> "legacy", epoch |-> 0, live |-> TRUE, fingerprint |-> NoRecord]]
  /\ UNCHANGED <<sites, control, identities, replica, config, pending>>

\* revoke_session, or the expiry time passes.
EndSession(t) ==
  /\ sessions[t] # NoRecord
  /\ sessions[t].live
  /\ sessions' = [sessions EXCEPT ![t].live = FALSE]
  /\ UNCHANGED <<sites, control, identities, replica, config, pending>>

\* get_primary_owner_session: what require_admin accepts.
Accepted(t) ==
  /\ sessions[t] # NoRecord /\ control # NoRecord
  /\ sessions[t].live
  /\ sessions[t].epoch = control.epoch
  /\ control.mode # "disabled"
  /\ sessions[t].method = control.mode

\* complete_primary_owner_setup, by a request of the signed-in owner.
CompleteSetup(p, t) ==
  /\ replica[p] = "running"
  /\ Accepted(t)
  /\ ~control.setup
  /\ control' = [control EXCEPT !.setup = TRUE]
  /\ UNCHANGED <<sites, sessions, identities, replica, config, pending>>

ReplicaStep(p) ==
  \/ \E c \in Config : Start(p, c)
  \/ Stop(p) \/ ReadControlPlane(p) \/ Provision(p) \/ Reconcile(p) \/ Rotate(p)
  \/ VerifyAccessKey(p) \/ SignInRefused(p)
  \/ \E s \in Subjects : BindExternalIdentity(p, s)
  \/ \E t \in Tokens : IssueSession(p, t) \/ CreateMemberSession(p, t)
                       \/ CompleteSetup(p, t)

Next == (\E p \in Replicas : ReplicaStep(p)) \/ (\E t \in Tokens : EndSession(t))

Spec == Init /\ [][Next]_vars

---------------------------------------------------------------------------
(* Properties. *)

\* A session that is accepted was verified under the binding that is active
\* now: a replica still running with rotated-out credentials, or a sign-in that
\* was verified before a rotation and issued after it, yields none.
AcceptedUnderActiveBinding ==
  \A t \in Tokens : Accepted(t) => sessions[t].fingerprint = control.fingerprint

\* Every live administrator session is of the current epoch and mode, so that
\* no later return to an earlier binding can revive one.
LiveSessionsCurrent ==
  \A t \in Tokens :
    sessions[t] # NoRecord /\ sessions[t].live /\ sessions[t].method # "legacy" =>
      /\ control # NoRecord
      /\ sessions[t].epoch = control.epoch
      /\ sessions[t].method = control.mode

\* External identities belong to the active binding: a rotation leaves none
\* behind that a sign-in of the new provider could meet.
IdentitiesOfActiveBinding ==
  \A s \in Subjects : identities[s] # NoRecord =>
    /\ control # NoRecord
    /\ control.mode = "external"
    /\ identities[s] = control.fingerprint

\* The epoch counts the changes of the binding exactly: it advances by one with
\* each and never otherwise, though several replicas may start with the same
\* rotation flag.
EpochCountsBindings ==
  [][control # NoRecord =>
       /\ control' # NoRecord
       /\ control'.epoch = IF control'.fingerprint = control.fingerprint
                             THEN control.epoch ELSE control.epoch + 1]_vars

\* The primary site and the authentication mode are fixed for good by the
\* provisioning, though a start checks the mode in a transaction of its own
\* before the one that rotates.
SiteAndModeFixed ==
  [][control # NoRecord =>
       control'.site = control.site /\ control'.mode = control.mode]_vars

\* Nothing of an earlier binding outlives a rotation: the sessions that are
\* accepted, the sessions that are live and the identities are those of the
\* active binding, whichever replicas were running or starting then.
BindingRespected ==
  AcceptedUnderActiveBinding /\ LiveSessionsCurrent /\ IdentitiesOfActiveBinding

\* Replicas that start together, with the rotation flag or without, change the
\* control row by counted changes of the binding and by nothing else.
ControlRowSteps == EpochCountsBindings /\ SiteAndModeFixed
============================================================================
