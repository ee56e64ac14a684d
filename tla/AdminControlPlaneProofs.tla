---------------------- MODULE AdminControlPlaneProofs ----------------------
(***************************************************************************)
(* For any number of replicas, tokens, subjects and bindings: sessions and *)
(* identities that outlive a credential rotation are never honoured.       *)
(***************************************************************************)
EXTENDS AdminControlPlane, TLAPS

\* What a replica may rely on at each step of its start: above all that the
\* mode it compared before the rotation is still the stored one when it
\* rotates, because no rotation changes it.
ReplicaInv ==
  \A p \in Replicas :
    /\ replica[p] # "down" => config[p] \in Config
    /\ replica[p] \in {"reconcile", "rotate", "running"} => control # NoRecord
    /\ replica[p] = "rotate" => config[p].mode = control.mode
    /\ p \in pending => replica[p] = "running" /\ config[p].mode # "disabled"

\* The binding each live administrator session was verified under.
SessionBinding ==
  \A t \in Tokens :
    sessions[t] # NoRecord /\ sessions[t].live /\ sessions[t].method # "legacy" =>
      /\ control # NoRecord
      /\ sessions[t].fingerprint = control.fingerprint

\* The inductive invariant.
ControlInv ==
  /\ TypeOK
  /\ ReplicaInv
  /\ SessionBinding
  /\ LiveSessionsCurrent
  /\ IdentitiesOfActiveBinding

\* The initial state, a new or an upgraded database, satisfies the invariant.
LEMMA InitControlInv == Init => ControlInv
<1> SUFFICES ASSUME Init PROVE ControlInv
  OBVIOUS
<1>1. TypeOK
  BY DEF Init, TypeOK
<1>2. ReplicaInv
  BY DEF Init, ReplicaInv
<1>3. SessionBinding /\ LiveSessionsCurrent /\ IdentitiesOfActiveBinding
  BY DEF Init, SessionBinding, LiveSessionsCurrent, IdentitiesOfActiveBinding
<1> QED
  BY <1>1, <1>2, <1>3 DEF ControlInv

\* A row written from well-typed columns is a control-plane row.
LEMMA ControlRow ==
  ASSUME NEW s \in Sites, NEW m \in Modes, NEW f \in Fingerprints,
         NEW e \in Nat \ {0}, NEW b \in BOOLEAN
  PROVE  /\ [site |-> s, mode |-> m, fingerprint |-> f, epoch |-> e, setup |-> b]
              \in Control
         /\ [site |-> s, mode |-> m, fingerprint |-> f, epoch |-> e, setup |-> b]
              # NoRecord
  BY ControlAssumption DEF Control

\* provision_primary_owner_site leaves a row behind.
LEMMA ProvisionWritesControl ==
  ASSUME ControlInv, NEW p \in Replicas, Provision(p)
  PROVE  control' \in Control /\ control' # NoRecord
<1>1. config[p] \in Config
  BY DEF ControlInv, ReplicaInv, Provision
<1>2. CASE control # NoRecord
  BY <1>2 DEF ControlInv, TypeOK, Provision
<1>3. CASE control = NoRecord
  <2>1. (config[p].site \in sites) \in BOOLEAN
    <3>1. CASE config[p].site \in sites
      <4>1. (config[p].site \in sites) = TRUE
        BY <3>1
      <4> QED
        BY <4>1
    <3>2. CASE config[p].site \notin sites
      <4>1. (config[p].site \in sites) = FALSE
        BY <3>2
      <4> QED
        BY <4>1
    <3> QED
      BY <3>1, <3>2
  <2>2. control' = [site |-> config[p].site, mode |-> config[p].mode,
                    fingerprint |-> config[p].fingerprint, epoch |-> 1,
                    setup |-> config[p].site \in sites]
    BY <1>3, Zenon DEF Provision
  <2>3. /\ config[p].site \in Sites
        /\ config[p].mode \in Modes
        /\ config[p].fingerprint \in Fingerprints
    BY <1>1 DEF Config
  <2>4. 1 \in Nat \ {0}
    OBVIOUS
  <2> QED
    BY <2>1, <2>2, <2>3, <2>4, ControlRow, Zenon
<1> QED
  BY <1>2, <1>3

\* rotate_admin_control_plane keeps the row, its site, its mode and its setup.
LEMMA RotateWritesControl ==
  ASSUME ControlInv, NEW p \in Replicas, Rotate(p)
  PROVE  control' \in Control /\ control'.mode = control.mode
<1>1. config[p] \in Config /\ control \in Control /\ config[p].mode = control.mode
  BY DEF ControlInv, TypeOK, ReplicaInv, Rotate
<1>2. CASE UNCHANGED control
  BY <1>1, <1>2
<1>3. CASE control' = [control EXCEPT !.mode = config[p].mode,
                         !.fingerprint = config[p].fingerprint, !.epoch = @ + 1]
  <2>1. config[p].mode \in Modes /\ config[p].fingerprint \in Fingerprints
    BY <1>1 DEF Config
  <2>2. control.epoch + 1 \in Nat \ {0}
    BY <1>1 DEF Control
  <2> QED
    BY <1>1, <1>3, <2>1, <2>2 DEF Control
<1> QED
  BY <1>2, <1>3 DEF Rotate

\* Revoking the administrator sessions keeps the table well-typed.
LEMMA RevokedSessions ==
  ASSUME TypeOK, RevokeAdminSessions
  PROVE  sessions' \in [Tokens -> Session \cup {NoRecord}]
<1>1. ASSUME NEW t \in Tokens, sessions[t] # NoRecord
      PROVE  [sessions[t] EXCEPT !.live = FALSE] \in Session
  BY <1>1 DEF TypeOK, Session
<1> QED
  BY <1>1 DEF TypeOK, RevokeAdminSessions

\* Each step of a replica preserves the invariant.
LEMMA StepControlInv ==
  ASSUME ControlInv, [Next]_vars PROVE ControlInv'
<1> USE ControlAssumption DEF ControlInv, storageVars, Goto
<1>1. ASSUME NEW p \in Replicas, NEW c \in Config, Start(p, c) PROVE ControlInv'
  <2>1. TypeOK'
    BY <1>1 DEF TypeOK, Start, Config, Control, Session, Modes, Methods
  <2>2. ReplicaInv'
    BY <1>1 DEF TypeOK, ReplicaInv, Start, Control
  <2>3. SessionBinding' /\ LiveSessionsCurrent'
    BY <1>1 DEF TypeOK, SessionBinding, LiveSessionsCurrent, ReplicaInv, Start, Control, Session
  <2>4. IdentitiesOfActiveBinding'
    BY <1>1 DEF TypeOK, IdentitiesOfActiveBinding, ReplicaInv, Start, Control
  <2> QED
    BY <2>1, <2>2, <2>3, <2>4
<1>2. ASSUME NEW p \in Replicas, Stop(p) PROVE ControlInv'
  <2>1. TypeOK'
    BY <1>2 DEF TypeOK, Stop, Config, Control, Session, Modes, Methods
  <2>2. ReplicaInv'
    BY <1>2 DEF TypeOK, ReplicaInv, Stop, Control
  <2>3. SessionBinding' /\ LiveSessionsCurrent'
    BY <1>2 DEF TypeOK, SessionBinding, LiveSessionsCurrent, ReplicaInv, Stop, Control, Session
  <2>4. IdentitiesOfActiveBinding'
    BY <1>2 DEF TypeOK, IdentitiesOfActiveBinding, ReplicaInv, Stop, Control
  <2> QED
    BY <2>1, <2>2, <2>3, <2>4
<1>3. ASSUME NEW p \in Replicas, ReadControlPlane(p) PROVE ControlInv'
  <2>1. TypeOK'
    BY <1>3 DEF TypeOK, ReadControlPlane, Config, Control, Session, Modes, Methods
  <2>2. ReplicaInv'
    BY <1>3 DEF TypeOK, ReplicaInv, ReadControlPlane, Control
  <2>3. SessionBinding' /\ LiveSessionsCurrent'
    BY <1>3 DEF TypeOK, SessionBinding, LiveSessionsCurrent, ReplicaInv, ReadControlPlane, Control, Session
  <2>4. IdentitiesOfActiveBinding'
    BY <1>3 DEF TypeOK, IdentitiesOfActiveBinding, ReplicaInv, ReadControlPlane, Control
  <2> QED
    BY <2>1, <2>2, <2>3, <2>4
<1>4. ASSUME NEW p \in Replicas, Provision(p) PROVE ControlInv'
  <2>1. TypeOK'
    <3>1. config[p] \in Config
      BY <1>4 DEF ReplicaInv, Provision
    <3>2. control' \in Control \cup {NoRecord}
      BY <1>4, ProvisionWritesControl
    <3> QED
      BY <1>4, <3>1, <3>2 DEF TypeOK, Provision, Config
  <2>2. ReplicaInv'
    <3>1. config[p] \in Config
      BY <1>4 DEF ReplicaInv, Provision
    <3>2. control' # NoRecord
      BY <1>4, ProvisionWritesControl
    <3> QED
      BY <1>4, <3>1, <3>2 DEF TypeOK, ReplicaInv, Provision
  <2>3. SessionBinding' /\ LiveSessionsCurrent'
    BY <1>4 DEF TypeOK, SessionBinding, LiveSessionsCurrent, ReplicaInv, Provision, BindingMatches, Control, Session
  <2>4. IdentitiesOfActiveBinding'
    BY <1>4 DEF TypeOK, IdentitiesOfActiveBinding, ReplicaInv, Provision, BindingMatches, Control
  <2> QED
    BY <2>1, <2>2, <2>3, <2>4
<1>5. ASSUME NEW p \in Replicas, Reconcile(p) PROVE ControlInv'
  <2>1. TypeOK'
    BY <1>5 DEF TypeOK, Reconcile, BindingMatches, Config, Control, Session, Modes, Methods
  <2>2. ReplicaInv'
    BY <1>5 DEF TypeOK, ReplicaInv, Reconcile, BindingMatches, Control
  <2>3. SessionBinding' /\ LiveSessionsCurrent'
    BY <1>5 DEF TypeOK, SessionBinding, LiveSessionsCurrent, ReplicaInv, Reconcile, BindingMatches, Control, Session
  <2>4. IdentitiesOfActiveBinding'
    BY <1>5 DEF TypeOK, IdentitiesOfActiveBinding, ReplicaInv, Reconcile, BindingMatches, Control
  <2> QED
    BY <2>1, <2>2, <2>3, <2>4
<1>6. ASSUME NEW p \in Replicas, Rotate(p) PROVE ControlInv'
  <2>1. TypeOK'
    <3>1. control' \in Control
      BY <1>6, RotateWritesControl
    <3>2. sessions' \in [Tokens -> Session \cup {NoRecord}]
      BY <1>6, RevokedSessions DEF TypeOK, Rotate
    <3> QED
      BY <1>6, <3>1, <3>2 DEF TypeOK, Rotate
  <2>2. ReplicaInv'
    <3>1. config[p] \in Config /\ control \in Control /\ config[p].mode = control.mode
      BY <1>6 DEF TypeOK, ReplicaInv, Rotate
    <3>2. control' \in Control /\ control'.mode = control.mode
      BY <1>6, RotateWritesControl
    <3> QED
      BY <1>6, <3>2 DEF TypeOK, ReplicaInv, Rotate
  <2>3. SessionBinding' /\ LiveSessionsCurrent'
    BY <1>6 DEF TypeOK, SessionBinding, LiveSessionsCurrent, ReplicaInv, Rotate, RevokeAdminSessions, Control, Session
  <2>4. IdentitiesOfActiveBinding'
    BY <1>6 DEF TypeOK, IdentitiesOfActiveBinding, ReplicaInv, Rotate, RevokeAdminSessions, Control
  <2> QED
    BY <2>1, <2>2, <2>3, <2>4
<1>7. ASSUME NEW p \in Replicas, VerifyAccessKey(p) PROVE ControlInv'
  <2>1. TypeOK'
    BY <1>7 DEF TypeOK, VerifyAccessKey, Config, Control, Session, Modes, Methods
  <2>2. ReplicaInv'
    BY <1>7 DEF TypeOK, ReplicaInv, VerifyAccessKey, Control
  <2>3. SessionBinding' /\ LiveSessionsCurrent'
    BY <1>7 DEF TypeOK, SessionBinding, LiveSessionsCurrent, ReplicaInv, VerifyAccessKey, Control, Session
  <2>4. IdentitiesOfActiveBinding'
    BY <1>7 DEF TypeOK, IdentitiesOfActiveBinding, ReplicaInv, VerifyAccessKey, Control
  <2> QED
    BY <2>1, <2>2, <2>3, <2>4
<1>8. ASSUME NEW p \in Replicas, SignInRefused(p) PROVE ControlInv'
  <2>1. TypeOK'
    BY <1>8 DEF TypeOK, SignInRefused, Config, Control, Session, Modes, Methods
  <2>2. ReplicaInv'
    BY <1>8 DEF TypeOK, ReplicaInv, SignInRefused, Control
  <2>3. SessionBinding' /\ LiveSessionsCurrent'
    BY <1>8 DEF TypeOK, SessionBinding, LiveSessionsCurrent, ReplicaInv, SignInRefused, Control, Session
  <2>4. IdentitiesOfActiveBinding'
    BY <1>8 DEF TypeOK, IdentitiesOfActiveBinding, ReplicaInv, SignInRefused, Control
  <2> QED
    BY <2>1, <2>2, <2>3, <2>4
<1>9. ASSUME NEW p \in Replicas, NEW s \in Subjects, BindExternalIdentity(p, s) PROVE ControlInv'
  <2>1. TypeOK'
    BY <1>9 DEF TypeOK, ReplicaInv, BindExternalIdentity, Config, Control, Session, Modes, Methods
  <2>2. ReplicaInv'
    BY <1>9 DEF TypeOK, ReplicaInv, BindExternalIdentity, Control
  <2>3. SessionBinding' /\ LiveSessionsCurrent'
    BY <1>9 DEF TypeOK, SessionBinding, LiveSessionsCurrent, ReplicaInv, BindExternalIdentity, Control, Session
  <2>4. IdentitiesOfActiveBinding'
    BY <1>9 DEF TypeOK, IdentitiesOfActiveBinding, ReplicaInv, BindExternalIdentity, Control
  <2> QED
    BY <2>1, <2>2, <2>3, <2>4
<1>10. ASSUME NEW p \in Replicas, NEW t \in Tokens, IssueSession(p, t) PROVE ControlInv'
  <2>1. TypeOK'
    <3>1. config[p] \in Config /\ control \in Control /\ config[p].mode # "disabled"
      BY <1>10 DEF TypeOK, ReplicaInv, IssueSession
    <3>2. control.mode \in Methods
      BY <1>10, <3>1 DEF IssueSession, Control, Modes, Methods
    <3> QED
      BY <1>10, <3>1, <3>2 DEF TypeOK, IssueSession, Config, Control, Session
  <2>2. ReplicaInv'
    BY <1>10 DEF TypeOK, ReplicaInv, IssueSession, Control
  <2>3. SessionBinding' /\ LiveSessionsCurrent'
    BY <1>10 DEF TypeOK, SessionBinding, LiveSessionsCurrent, ReplicaInv, IssueSession, Control, Session
  <2>4. IdentitiesOfActiveBinding'
    BY <1>10 DEF TypeOK, IdentitiesOfActiveBinding, ReplicaInv, IssueSession, Control
  <2> QED
    BY <2>1, <2>2, <2>3, <2>4
<1>11. ASSUME NEW p \in Replicas, NEW t \in Tokens, CreateMemberSession(p, t) PROVE ControlInv'
  <2>1. TypeOK'
    BY <1>11 DEF TypeOK, CreateMemberSession, Config, Control, Session, Modes, Methods
  <2>2. ReplicaInv'
    BY <1>11 DEF TypeOK, ReplicaInv, CreateMemberSession, Control
  <2>3. SessionBinding' /\ LiveSessionsCurrent'
    BY <1>11 DEF TypeOK, SessionBinding, LiveSessionsCurrent, ReplicaInv, CreateMemberSession, Control, Session
  <2>4. IdentitiesOfActiveBinding'
    BY <1>11 DEF TypeOK, IdentitiesOfActiveBinding, ReplicaInv, CreateMemberSession, Control
  <2> QED
    BY <2>1, <2>2, <2>3, <2>4
<1>12. ASSUME NEW p \in Replicas, NEW t \in Tokens, CompleteSetup(p, t) PROVE ControlInv'
  <2>1. TypeOK'
    BY <1>12 DEF TypeOK, CompleteSetup, Accepted, Config, Control, Session, Modes, Methods
  <2>2. ReplicaInv'
    BY <1>12 DEF TypeOK, ReplicaInv, CompleteSetup, Accepted, Control
  <2>3. SessionBinding' /\ LiveSessionsCurrent'
    BY <1>12 DEF TypeOK, SessionBinding, LiveSessionsCurrent, ReplicaInv, CompleteSetup, Accepted, Control, Session
  <2>4. IdentitiesOfActiveBinding'
    BY <1>12 DEF TypeOK, IdentitiesOfActiveBinding, ReplicaInv, CompleteSetup, Accepted, Control
  <2> QED
    BY <2>1, <2>2, <2>3, <2>4
<1>13. ASSUME NEW t \in Tokens, EndSession(t) PROVE ControlInv'
  <2>1. TypeOK'
    BY <1>13 DEF TypeOK, EndSession, Session
  <2>2. ReplicaInv' /\ IdentitiesOfActiveBinding'
    BY <1>13 DEF ReplicaInv, IdentitiesOfActiveBinding, EndSession
  <2>3. SessionBinding' /\ LiveSessionsCurrent'
    BY <1>13 DEF TypeOK, SessionBinding, LiveSessionsCurrent, EndSession, Session
  <2> QED
    BY <2>1, <2>2, <2>3
<1>14. CASE UNCHANGED vars
  BY <1>14 DEF vars, TypeOK, ReplicaInv, SessionBinding, LiveSessionsCurrent,
                IdentitiesOfActiveBinding
<1> QED
  BY <1>1, <1>2, <1>3, <1>4, <1>5, <1>6, <1>7, <1>8, <1>9, <1>10, <1>11, <1>12, <1>13, <1>14 DEF Next, ReplicaStep

\* Every reachable state satisfies the inductive invariant.
THEOREM ControlPlaneInvariant == Spec => []ControlInv
  BY InitControlInv, StepControlInv, PTL DEF Spec

\* Rows, sessions and replicas keep their types.
THEOREM ControlPlaneTypes == Spec => []TypeOK
<1>1. ControlInv => TypeOK
  BY DEF ControlInv
<1> QED
  BY <1>1, ControlPlaneInvariant, PTL

\* No session that get_primary_owner_session accepts was signed in under
\* another binding than the active one, whatever replicas still run with
\* rotated-out credentials.
THEOREM AcceptedUnderActive == Spec => []AcceptedUnderActiveBinding
<1>1. ControlInv => AcceptedUnderActiveBinding
  <2> SUFFICES ASSUME ControlInv, NEW t \in Tokens, Accepted(t)
               PROVE  sessions[t].fingerprint = control.fingerprint
    BY DEF AcceptedUnderActiveBinding
  <2>1. control.mode # "legacy"
    BY DEF ControlInv, TypeOK, Control, Modes, Accepted
  <2> QED
    BY <2>1 DEF ControlInv, SessionBinding, Accepted
<1> QED
  BY <1>1, ControlPlaneInvariant, PTL

\* A rotation revokes: a live administrator session is of the current epoch.
THEOREM LiveSessionsStayCurrent == Spec => []LiveSessionsCurrent
<1>1. ControlInv => LiveSessionsCurrent
  BY DEF ControlInv
<1> QED
  BY <1>1, ControlPlaneInvariant, PTL

\* A rotation forgets: an external identity is of the active binding.
THEOREM IdentitiesStayOfActiveBinding == Spec => []IdentitiesOfActiveBinding
<1>1. ControlInv => IdentitiesOfActiveBinding
  BY DEF ControlInv
<1> QED
  BY <1>1, ControlPlaneInvariant, PTL

\* What a step may do to an existing control-plane row.
ControlStep ==
  control # NoRecord =>
    /\ control' # NoRecord
    /\ control'.site = control.site
    /\ control'.mode = control.mode
    /\ control'.epoch = IF control'.fingerprint = control.fingerprint
                         THEN control.epoch ELSE control.epoch + 1

\* Only a rotation changes the binding, and it advances the epoch by one.
LEMMA StepControl ==
  ASSUME ControlInv, [Next]_vars PROVE ControlStep
<1> SUFFICES ASSUME control # NoRecord PROVE ControlStep
  BY DEF ControlStep
<1>0. control \in Control
  BY DEF ControlInv, TypeOK
<1>1. CASE UNCHANGED control
  BY <1>1 DEF ControlStep
<1>2. ASSUME NEW p \in Replicas, Provision(p) PROVE ControlStep
  BY <1>1, <1>2 DEF Provision
<1>3. ASSUME NEW p \in Replicas, Rotate(p) PROVE ControlStep
  <2>1. config[p].mode = control.mode
    BY <1>3 DEF ControlInv, ReplicaInv, Rotate
  <2>2. control' \in Control
    BY <1>3, RotateWritesControl
  <2>3. CASE control.fingerprint = config[p].fingerprint
    BY <1>1, <1>3, <2>1, <2>3 DEF Rotate
  <2>4. CASE control.fingerprint # config[p].fingerprint
    <3>1. control' = [control EXCEPT !.mode = config[p].mode,
                        !.fingerprint = config[p].fingerprint, !.epoch = @ + 1]
      BY <1>3, <2>4 DEF Rotate
    <3> QED
      BY <1>0, <2>1, <2>2, <2>4, <3>1, ControlAssumption DEF ControlStep, Control
  <2> QED
    BY <2>3, <2>4
<1>4. ASSUME NEW p \in Replicas, NEW t \in Tokens, CompleteSetup(p, t) PROVE ControlStep
  <2>1. control' = [control EXCEPT !.setup = TRUE] /\ control' \in Control
    BY <1>0, <1>4 DEF CompleteSetup, Control
  <2> QED
    BY <1>0, <2>1, ControlAssumption DEF ControlStep, Control
<1> QED
  BY <1>1, <1>2, <1>3, <1>4 DEF Next, ReplicaStep, vars, storageVars, Start, Stop,
     ReadControlPlane, Reconcile, VerifyAccessKey, SignInRefused, BindExternalIdentity,
     IssueSession, CreateMemberSession, EndSession

\* The epoch counts the changes of the binding, however many replicas start
\* with the rotation flag at once.
THEOREM EpochCounts == Spec => EpochCountsBindings
<1>1. ControlInv /\ [Next]_vars =>
        [control # NoRecord =>
           /\ control' # NoRecord
           /\ control'.epoch = IF control'.fingerprint = control.fingerprint
                                 THEN control.epoch ELSE control.epoch + 1]_vars
  BY StepControl DEF ControlStep
<1> QED
  BY <1>1, ControlPlaneInvariant, PTL DEF Spec, EpochCountsBindings

\* No start of a replica moves the instance to another primary site or to
\* another way of signing in.
THEOREM SiteAndModeStayFixed == Spec => SiteAndModeFixed
<1>1. ControlInv /\ [Next]_vars =>
        [control # NoRecord =>
           control'.site = control.site /\ control'.mode = control.mode]_vars
  BY StepControl DEF ControlStep
<1> QED
  BY <1>1, ControlPlaneInvariant, PTL DEF Spec, SiteAndModeFixed

\* No session and no identity of an earlier binding outlives a rotation.
THEOREM BindingStaysRespected == Spec => []BindingRespected
<1>1. AcceptedUnderActiveBinding /\ LiveSessionsCurrent /\ IdentitiesOfActiveBinding
        => BindingRespected
  BY DEF BindingRespected
<1> QED
  BY <1>1, AcceptedUnderActive, LiveSessionsStayCurrent, IdentitiesStayOfActiveBinding, PTL

\* The control row changes by counted changes of the binding and no others.
THEOREM ControlRowStepsKept == Spec => ControlRowSteps
  BY EpochCounts, SiteAndModeStayFixed DEF ControlRowSteps
=============================================================================
