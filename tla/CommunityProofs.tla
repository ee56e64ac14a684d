--------------------------- MODULE CommunityProofs ---------------------------
(***************************************************************************)
(* For any number of accounts, blogs, documents and requests in flight:    *)
(* who owns a blog, who may change one, and who is told that a public page *)
(* changes.  What makes the properties hold is that every repository       *)
(* operation asks for the actor's membership in its own transaction; the   *)
(* invariant only has to say what a handler still knows of its caller.     *)
(***************************************************************************)
EXTENDS Community, FiniteSetTheorems, TLAPS

\* What a handler carries from one of its tasks to the next.
UserSteps == {"user", "user mutation", "user task", "no blog", "blog task"}
AdministratorSteps == {"administrator", "administrator mutation", "administrator task"}
StudioSteps == {"studio", "studio mutation", "studio task"}
Request ==
  [pc : {"idle"}]
    \cup [pc : {"signing"}, user : Users]
    \cup [pc : {"guarded"}, token : Tokens]
    \cup [pc : UserSteps \cup AdministratorSteps, token : Tokens, user : Users]
    \cup [pc : StudioSteps, user : Users, site : Sites, role : Roles]

CommunityTypes ==
  /\ accounts \subseteq Users
  /\ setup \in BOOLEAN
  /\ sessions \in [Tokens -> Session \cup {None}]
  /\ roles \in [Sites -> [Users -> Roles \cup {None}]]
  /\ appearance \in [Sites -> Seq(Css)]
  /\ docs \in [Docs -> Document \cup {None}]
  /\ pins \in Seq(Docs)
  /\ reqs \in [Requests -> Request]

\* Whoever a session, a role or a request names is registered, and a request
\* past the administrator check holds the token of an administrator session.
Registered ==
  /\ Admin \in accounts
  /\ \A t \in Tokens : sessions[t] # None => sessions[t].user \in accounts
  /\ \A s \in Sites, u \in Users : roles[s][u] # None => u \in accounts
  /\ \A r \in Requests : "user" \in DOMAIN reqs[r] => reqs[r].user \in accounts

AdministratorsKnown ==
  \A r \in Requests :
    reqs[r].pc \in AdministratorSteps =>
      sessions[reqs[r].token] # None /\ IsAdministrator(reqs[r].token)

\* A published revision is one of the document's revisions.
PublishedExists == \A d \in Docs : docs[d] # None => docs[d].published <= docs[d].revisions

\* A blog that exists has one owner, one that does not has no members, and
\* nobody owns two.
Ownership ==
  /\ \A s \in Sites : Exists(s) => \E u \in Users : \A v \in Users : Owns(v, s) <=> v = u
  /\ \A s \in Sites : ~Exists(s) => \A u \in Users : roles[s][u] = None
  /\ \A u \in Users, s1, s2 \in Sites : Owns(u, s1) /\ Owns(u, s2) => s1 = s2

\* A task is without its handler only where a disconnect may drop one that awaits it.
DetachedLater == \A r \in Requests : reqs[r].pc \in DetachedSteps => DropsAwaitedTask

\* The inductive invariant.
CommunityInv ==
  /\ CommunityTypes /\ Registered /\ AdministratorsKnown /\ DetachedLater
  /\ PublishedExists /\ Ownership

\* What a request carries at each of its steps.
LEMMA RequestShape ==
  ASSUME NEW q \in Request
  PROVE  /\ q.pc = "signing" => q.user \in Users /\ "user" \in DOMAIN q
         /\ q.pc = "guarded" => q.token \in Tokens
         /\ q.pc \in UserSteps \cup AdministratorSteps =>
              q.token \in Tokens /\ q.user \in Users /\ "user" \in DOMAIN q
         /\ q.pc \in StudioSteps =>
              /\ q.user \in Users /\ q.site \in Sites /\ q.role \in Roles
              /\ "user" \in DOMAIN q
         /\ q.pc \in {"idle", "signing", "guarded"} \cup UserSteps \cup AdministratorSteps
                       \cup StudioSteps
         /\ "user" \in DOMAIN q => q.pc \notin {"idle", "guarded"}
  BY DEF Request, UserSteps, AdministratorSteps, StudioSteps

\* The records the handlers build are requests.
LEMMA RequestBuilt ==
  /\ Idle \in Request /\ "user" \notin DOMAIN Idle /\ Idle.pc = "idle"
  /\ \A u \in Users : [pc |-> "signing", user |-> u] \in Request
  /\ \A t \in Tokens : [pc |-> "guarded", token |-> t] \in Request
  /\ \A p \in UserSteps \cup AdministratorSteps, t \in Tokens, u \in Users :
       [pc |-> p, token |-> t, user |-> u] \in Request
  /\ \A p \in StudioSteps, u \in Users, s \in Sites, o \in Roles :
       [pc |-> p, user |-> u, site |-> s, role |-> o] \in Request
  BY DEF Request, Idle

\* A handler moves on to another step with what it carries.
LEMMA RequestMoves ==
  ASSUME NEW q \in Request, NEW p,
         \/ q.pc \in UserSteps \cup AdministratorSteps /\ p \in UserSteps \cup AdministratorSteps
         \/ q.pc \in StudioSteps /\ p \in StudioSteps
  PROVE  /\ [q EXCEPT !.pc = p] \in Request
         /\ [q EXCEPT !.pc = p].pc = p
         /\ [q EXCEPT !.pc = p].user = q.user
         /\ q.pc \in UserSteps \cup AdministratorSteps => [q EXCEPT !.pc = p].token = q.token
  BY DEF Request, UserSteps, AdministratorSteps, StudioSteps

\* A stylesheet that is shown is one.
LEMMA LastStylesheet ==
  ASSUME NEW s \in Seq(Css), s # <<>> PROVE Last(s) \in Css
  BY DEF Last

\* Replacing one request's state keeps the others.
LEMMA OneRequestChanged ==
  ASSUME CommunityTypes, Registered, NEW r \in Requests, NEW q \in Request,
         reqs' = [reqs EXCEPT ![r] = q], accounts \subseteq accounts',
         "user" \in DOMAIN q => q.user \in accounts'
  PROVE  /\ reqs' \in [Requests -> Request]
         /\ reqs'[r] = q
         /\ \A x \in Requests : x # r => reqs'[x] = reqs[x]
         /\ \A x \in Requests : "user" \in DOMAIN reqs'[x] => reqs'[x].user \in accounts'
<1>1. /\ reqs' \in [Requests -> Request]
      /\ reqs'[r] = q
      /\ \A x \in Requests : x # r => reqs'[x] = reqs[x]
  BY DEF CommunityTypes
<1>2. ASSUME NEW x \in Requests, "user" \in DOMAIN reqs'[x] PROVE reqs'[x].user \in accounts'
  <2>1. CASE x = r
    BY <1>1, <1>2, <2>1
  <2>2. CASE x # r
    BY <1>1, <1>2, <2>2 DEF Registered
  <2> QED
    BY <2>1, <2>2
<1> QED
  BY <1>1, <1>2

\* A step of a handler that writes nothing keeps the invariant when its request
\* is one, names a registered account, and is an administrator's only with an
\* administrator session.
LEMMA ReadingKeeps ==
  ASSUME CommunityInv, UNCHANGED <<stored, sessions>>, NEW r \in Requests, NEW q \in Request,
         reqs' = [reqs EXCEPT ![r] = q],
         "user" \in DOMAIN q => q.user \in accounts,
         q.pc \in AdministratorSteps =>
           sessions[q.token] # None /\ IsAdministrator(q.token),
         q.pc \in DetachedSteps => DropsAwaitedTask
  PROVE  CommunityInv'
<1> USE DEF CommunityInv, stored
<1>1. /\ reqs' \in [Requests -> Request]
      /\ reqs'[r] = q
      /\ \A x \in Requests : x # r => reqs'[x] = reqs[x]
      /\ \A x \in Requests : "user" \in DOMAIN reqs'[x] => reqs'[x].user \in accounts'
  BY OneRequestChanged
<1>2. CommunityTypes'
  BY <1>1 DEF CommunityTypes
<1>3. Registered'
  BY <1>1 DEF Registered
<1>4. AdministratorsKnown'
  <2>1. SUFFICES ASSUME NEW x \in Requests, reqs'[x].pc \in AdministratorSteps
                 PROVE  sessions[reqs'[x].token] # None /\ IsAdministrator(reqs'[x].token)
    BY DEF AdministratorsKnown, IsAdministrator
  <2>2. CASE x = r
    BY <1>1, <2>1, <2>2
  <2>3. CASE x # r
    BY <1>1, <2>1, <2>3 DEF AdministratorsKnown
  <2> QED
    BY <2>2, <2>3
<1>5. PublishedExists' /\ Ownership'
  BY DEF PublishedExists, Ownership, Exists, Owns
<1>6. DetachedLater'
  BY <1>1 DEF DetachedLater
<1> QED
  BY <1>2, <1>3, <1>4, <1>5, <1>6

\* The tasks of a handler before its mutation keep the invariant.
LEMMA BeforeMutation ==
  ASSUME CommunityInv, NEW r \in Requests,
         \/ \E u \in Users : Login(r, u)
         \/ \E t \in Tokens : AuthenticatedUserGuard(r, t)
         \/ RequireUser(r) \/ RequireInstanceAdministrator(r) \/ StudioAccess(r)
         \/ BeginPublicMutation(r) \/ TaskDetached(r) \/ HandlerEnds(r) \/ LookForBlog(r)
  PROVE  CommunityInv'
<1>0. reqs[r] \in Request
  BY DEF CommunityInv, CommunityTypes
<1>1. ASSUME NEW u \in Users, Login(r, u) PROVE CommunityInv'
  <2>1. [pc |-> "signing", user |-> u] \in Request
    BY RequestBuilt
  <2>2. /\ u \in accounts
        /\ [pc |-> "signing", user |-> u].pc \notin AdministratorSteps \cup DetachedSteps
    BY <1>1 DEF Login, AdministratorSteps, DetachedSteps
  <2> QED
    BY <1>1, <2>1, <2>2, ReadingKeeps DEF Login
<1>2. ASSUME NEW t \in Tokens, AuthenticatedUserGuard(r, t) PROVE CommunityInv'
  <2>1. [pc |-> "guarded", token |-> t] \in Request
    BY RequestBuilt
  <2>2. /\ "user" \notin DOMAIN [pc |-> "guarded", token |-> t]
        /\ [pc |-> "guarded", token |-> t].pc \notin AdministratorSteps \cup DetachedSteps
    BY DEF AdministratorSteps, DetachedSteps
  <2> QED
    BY <1>2, <2>1, <2>2, ReadingKeeps DEF AuthenticatedUserGuard
<1>3. ASSUME RequireUser(r) PROVE CommunityInv'
  <2> DEFINE t == reqs[r].token
             q == [pc |-> "user", token |-> t, user |-> sessions[t].user]
  <2>1. t \in Tokens
    BY <1>0, <1>3, RequestShape DEF RequireUser
  <2>2. sessions[t] # None /\ sessions[t] \in Session
    BY <1>3, <2>1 DEF RequireUser, Valid, CommunityInv, CommunityTypes
  <2>3. sessions[t].user \in Users /\ sessions[t].user \in accounts
    BY <2>1, <2>2 DEF CommunityInv, Registered, Session
  <2>4. q \in Request
    BY <2>1, <2>3, RequestBuilt DEF UserSteps
  <2>5. q.user \in accounts /\ q.pc \notin AdministratorSteps \cup DetachedSteps
    BY <2>3 DEF AdministratorSteps, DetachedSteps
  <2>6. UNCHANGED <<stored, sessions>> /\ reqs' = [reqs EXCEPT ![r] = q]
    BY <1>3 DEF RequireUser
  <2> HIDE DEF q
  <2> QED
    BY <2>4, <2>5, <2>6, ReadingKeeps
<1>4. ASSUME RequireInstanceAdministrator(r) PROVE CommunityInv'
  <2> DEFINE t == reqs[r].token
             q == [pc |-> "administrator", token |-> t, user |-> Admin]
  <2>1. t \in Tokens
    BY <1>0, <1>4, RequestShape DEF RequireInstanceAdministrator
  <2>2. sessions[t] # None /\ sessions[t].user = Admin /\ IsAdministrator(t)
    BY <1>4 DEF RequireInstanceAdministrator, Valid
  <2>3. Admin \in accounts
    BY DEF CommunityInv, Registered
  <2>4. q \in Request
    BY <2>1, RequestBuilt, CommunityAssumption DEF AdministratorSteps
  <2>5. q.user \in accounts /\ q.token = t /\ q.pc \notin DetachedSteps
    BY <2>3 DEF DetachedSteps
  <2>6. UNCHANGED <<stored, sessions>> /\ reqs' = [reqs EXCEPT ![r] = q]
    BY <1>4 DEF RequireInstanceAdministrator
  <2> HIDE DEF q
  <2> QED
    BY <2>2, <2>4, <2>5, <2>6, ReadingKeeps
<1>5. ASSUME StudioAccess(r) PROVE CommunityInv'
  <2>1. PICK s \in AccessibleSites(reqs[r].user) :
          reqs' = [reqs EXCEPT ![r] = [pc |-> "studio", user |-> reqs[r].user, site |-> s,
                     role |-> roles[s][reqs[r].user]]]
    BY <1>5 DEF StudioAccess
  <2> DEFINE u == reqs[r].user
             q == [pc |-> "studio", user |-> u, site |-> s, role |-> roles[s][u]]
  <2>2. u \in Users /\ u \in accounts
    BY <1>0, <1>5, RequestShape DEF StudioAccess, CommunityInv, Registered, UserSteps
  <2>3. s \in Sites /\ roles[s][u] # None
    BY <2>1, CommunityAssumption DEF AccessibleSites, OwnedSites, Owns, Writes, Roles
  <2>4. roles[s][u] \in Roles
    BY <2>2, <2>3 DEF CommunityInv, CommunityTypes
  <2>7. q \in Request
    BY <2>2, <2>3, <2>4, RequestBuilt DEF StudioSteps
  <2>8. q.user \in accounts /\ q.pc \notin AdministratorSteps \cup DetachedSteps
    BY <2>2 DEF AdministratorSteps, DetachedSteps
  <2>9. UNCHANGED <<stored, sessions>> /\ reqs' = [reqs EXCEPT ![r] = q]
    BY <1>5, <2>1 DEF StudioAccess
  <2> HIDE DEF q
  <2> QED
    BY <2>7, <2>8, <2>9, ReadingKeeps
<1>6. ASSUME BeginPublicMutation(r) \/ TaskDetached(r) \/ LookForBlog(r) PROVE CommunityInv'
  <2> DEFINE Moves(p) ==
               /\ UNCHANGED <<stored, sessions>>
               /\ reqs' = [reqs EXCEPT ![r] = [reqs[r] EXCEPT !.pc = p]]
               /\ \/ reqs[r].pc \in UserSteps /\ p \in UserSteps
                  \/ reqs[r].pc \in AdministratorSteps /\ p \in AdministratorSteps
                  \/ reqs[r].pc \in StudioSteps /\ p \in StudioSteps
               /\ p \in DetachedSteps => DropsAwaitedTask
  <2>0. \E p : Moves(p)
    <3> USE DEF UserSteps, AdministratorSteps, StudioSteps, DetachedSteps
    <3>1. ASSUME BeginPublicMutation(r)
          PROVE  Moves("user mutation") \/ Moves("studio mutation")
                   \/ Moves("administrator mutation")
      BY <3>1 DEF BeginPublicMutation
    <3>2. ASSUME LookForBlog(r) PROVE Moves("no blog")
      BY <3>2 DEF LookForBlog
    <3>3. ASSUME TaskDetached(r)
          PROVE  Moves("user task") \/ Moves("studio task") \/ Moves("blog task")
                   \/ Moves("administrator task")
      BY <3>3 DEF TaskDetached, GuardedSteps
    <3> HIDE DEF Moves
    <3> QED
      BY <1>6, <3>1, <3>2, <3>3, Zenon
  <2>1. PICK p : Moves(p)
    BY <2>0
  <2> DEFINE q == [reqs[r] EXCEPT !.pc = p]
  <2>2. /\ q \in Request /\ q.pc = p /\ q.user = reqs[r].user
        /\ reqs[r].pc \in UserSteps \cup AdministratorSteps => q.token = reqs[r].token
    BY <1>0, <2>1, RequestMoves
  <2>3. q.user \in accounts
    BY <1>0, <2>1, <2>2, RequestShape DEF CommunityInv, Registered
  <2>4. q.pc \in AdministratorSteps =>
          sessions[q.token] # None /\ IsAdministrator(q.token)
    BY <2>1, <2>2 DEF CommunityInv, AdministratorsKnown, AdministratorSteps, UserSteps, StudioSteps
  <2>5. reqs' = [reqs EXCEPT ![r] = q]
    BY <2>1
  <2> HIDE DEF q
  <2> QED
    BY <2>1, <2>2, <2>3, <2>4, <2>5, ReadingKeeps
<1>7. ASSUME HandlerEnds(r) PROVE CommunityInv'
  <2>1. Idle \in Request /\ "user" \notin DOMAIN Idle /\ Idle.pc \notin AdministratorSteps \cup DetachedSteps
    BY RequestBuilt DEF AdministratorSteps, DetachedSteps
  <2>2. UNCHANGED <<stored, sessions>> /\ reqs' = [reqs EXCEPT ![r] = Idle]
    BY <1>7 DEF HandlerEnds
  <2> QED
    BY <2>1, <2>2, ReadingKeeps
<1> QED
  BY <1>1, <1>2, <1>3, <1>4, <1>5, <1>6, <1>7

\* Issuing and ending sessions keeps the invariant: a session's method and
\* account never change.
LEMMA SessionsKeep ==
  ASSUME CommunityInv,
         \/ \E t \in Tokens : AdministratorAuthenticatedResponse(t) \/ SessionEnds(t)
         \/ \E r \in Requests, t \in Tokens : AuthenticatedResponse(r, t)
  PROVE  CommunityInv'
<1> USE DEF CommunityInv, stored
<1>1. ASSUME UNCHANGED stored, sessions' \in [Tokens -> Session \cup {None}],
             reqs' \in [Requests -> Request],
             \A x \in Requests : reqs'[x] = reqs[x] \/ reqs'[x] = Idle,
             \A x \in Tokens : sessions[x] # None =>
               /\ sessions'[x] # None /\ sessions'[x].user = sessions[x].user
               /\ sessions'[x].method = sessions[x].method,
             \A x \in Tokens : sessions[x] = None /\ sessions'[x] # None =>
               sessions'[x].user \in accounts
      PROVE  CommunityInv'
  <2>1. CommunityTypes'
    BY <1>1 DEF CommunityTypes
  <2>2. \A x \in Requests : "user" \in DOMAIN reqs'[x] => reqs'[x].user \in accounts'
    BY <1>1, RequestBuilt DEF Registered
  <2>3. Registered'
    BY <1>1, <2>2 DEF Registered
  <2>4. AdministratorsKnown'
    <3>1. SUFFICES ASSUME NEW x \in Requests, reqs'[x].pc \in AdministratorSteps
                   PROVE  sessions'[reqs'[x].token] # None
                          /\ sessions'[reqs'[x].token].method = "administrator"
      BY DEF AdministratorsKnown, IsAdministrator
    <3>2. reqs'[x] = reqs[x]
      BY <1>1, <3>1, RequestBuilt DEF AdministratorSteps
    <3>3. reqs[x].token \in Tokens
      BY <3>1, <3>2, RequestShape DEF CommunityTypes
    <3> QED
      BY <1>1, <3>1, <3>2, <3>3 DEF AdministratorsKnown, IsAdministrator
  <2>5. PublishedExists' /\ Ownership'
    BY <1>1 DEF PublishedExists, Ownership, Exists, Owns
  <2>6. DetachedLater'
    BY <1>1, RequestBuilt DEF DetachedLater, DetachedSteps
  <2> QED
    BY <2>1, <2>3, <2>4, <2>5, <2>6
<1>2. ASSUME NEW t \in Tokens, NEW u \in Users, NEW m \in Methods, NewSession(t, u, m)
      PROVE  /\ sessions' \in [Tokens -> Session \cup {None}]
             /\ \A x \in Tokens : sessions[x] # None => sessions'[x] = sessions[x]
             /\ \A x \in Tokens : sessions[x] = None /\ sessions'[x] # None =>
                  sessions'[x].user = u
  BY <1>2 DEF NewSession, CommunityTypes, Session
<1>3. ASSUME NEW t \in Tokens, AdministratorAuthenticatedResponse(t) PROVE CommunityInv'
  <2>1. Admin \in accounts
    BY DEF Registered
  <2> QED
    BY <1>1, <1>2, <1>3, <2>1, CommunityAssumption
       DEF AdministratorAuthenticatedResponse, Methods, CommunityTypes
<1>4. ASSUME NEW t \in Tokens, SessionEnds(t) PROVE CommunityInv'
  <2>1. sessions[t] \in Session
    BY <1>4 DEF SessionEnds, Valid, CommunityTypes
  <2>2. [sessions[t] EXCEPT !.alive = FALSE] \in Session
    BY <2>1 DEF Session
  <2>3. /\ [sessions[t] EXCEPT !.alive = FALSE].user = sessions[t].user
        /\ [sessions[t] EXCEPT !.alive = FALSE].method = sessions[t].method
    BY <2>1 DEF Session
  <2>4. \A x \in Tokens : sessions'[x] = IF x = t THEN [sessions[t] EXCEPT !.alive = FALSE]
                                         ELSE sessions[x]
    BY <1>4 DEF SessionEnds, CommunityTypes
  <2>5. sessions' \in [Tokens -> Session \cup {None}]
    BY <1>4, <2>2 DEF SessionEnds, CommunityTypes
  <2>6. \A x \in Tokens : sessions[x] # None =>
          /\ sessions'[x] # None /\ sessions'[x].user = sessions[x].user
          /\ sessions'[x].method = sessions[x].method
    BY <2>2, <2>3, <2>4, CommunityAssumption
  <2>7. \A x \in Tokens : sessions[x] = None => sessions'[x] = None
    BY <2>1, <2>4, CommunityAssumption
  <2>8. UNCHANGED stored /\ UNCHANGED reqs
    BY <1>4 DEF SessionEnds
  <2> QED
    BY <1>1, <2>5, <2>6, <2>7, <2>8 DEF CommunityTypes
<1>5. ASSUME NEW r \in Requests, NEW t \in Tokens, AuthenticatedResponse(r, t)
      PROVE  CommunityInv'
  <2>1. reqs[r].user \in Users /\ reqs[r].user \in accounts
    BY <1>5, RequestShape DEF AuthenticatedResponse, CommunityTypes, Registered
  <2>2. reqs' \in [Requests -> Request] /\ \A x \in Requests : reqs'[x] = reqs[x] \/ reqs'[x] = Idle
    BY <1>5, RequestBuilt DEF AuthenticatedResponse, CommunityTypes
  <2>3. NewSession(t, reqs[r].user, "legacy") /\ "legacy" \in Methods
    BY <1>5 DEF AuthenticatedResponse, Methods
  <2>4. /\ sessions' \in [Tokens -> Session \cup {None}]
        /\ \A x \in Tokens : sessions[x] # None => sessions'[x] = sessions[x]
        /\ \A x \in Tokens : sessions[x] = None /\ sessions'[x] # None =>
             sessions'[x].user = reqs[r].user
    BY <1>2, <2>1, <2>3
  <2> QED
    BY <1>1, <1>5, <2>1, <2>2, <2>4 DEF AuthenticatedResponse
<1> QED
  BY <1>3, <1>4, <1>5

\* register keeps the invariant: it names the account it has just committed.
LEMMA RegisterKeeps ==
  ASSUME CommunityInv, NEW r \in Requests, NEW u \in Users, Register(r, u)
  PROVE  CommunityInv'
<1> USE DEF CommunityInv, Register
<1> DEFINE q == [pc |-> "signing", user |-> u]
<1>1. q \in Request /\ q.user = u /\ q.pc = "signing"
  BY RequestBuilt
<1>2. reqs' = [reqs EXCEPT ![r] = q]
  OBVIOUS
<1> HIDE DEF q
<1>3. /\ reqs' \in [Requests -> Request]
      /\ reqs'[r] = q
      /\ \A x \in Requests : x # r => reqs'[x] = reqs[x]
      /\ \A x \in Requests : "user" \in DOMAIN reqs'[x] => reqs'[x].user \in accounts'
  BY <1>1, <1>2, OneRequestChanged
<1>4. CommunityTypes'
  BY <1>3 DEF CommunityTypes
<1>5. Registered'
  BY <1>3 DEF Registered
<1>6. AdministratorsKnown' /\ DetachedLater'
  BY <1>1, <1>3 DEF AdministratorsKnown, IsAdministrator, AdministratorSteps, DetachedLater,
                    DetachedSteps
<1>7. PublishedExists' /\ Ownership'
  BY DEF PublishedExists, Ownership, Exists, Owns
<1> QED
  BY <1>4, <1>5, <1>6, <1>7

\* A mutation ends its handler: of the requests only its own changes.
LEMMA FinishKeeps ==
  ASSUME CommunityInv, NEW r \in Requests, Finish(r), UNCHANGED accounts
  PROVE  /\ reqs' \in [Requests -> Request]
         /\ reqs'[r] = Idle
         /\ UNCHANGED sessions
         /\ \A x \in Requests : "user" \in DOMAIN reqs'[x] => reqs'[x].user \in accounts'
         /\ AdministratorsKnown' /\ DetachedLater'
<1> USE DEF CommunityInv, Finish
<1>1. /\ reqs' \in [Requests -> Request]
      /\ reqs'[r] = Idle
      /\ \A x \in Requests : x # r => reqs'[x] = reqs[x]
      /\ \A x \in Requests : "user" \in DOMAIN reqs'[x] => reqs'[x].user \in accounts'
  BY OneRequestChanged, RequestBuilt
<1>2. AdministratorsKnown' /\ DetachedLater'
  BY <1>1, RequestBuilt DEF AdministratorsKnown, IsAdministrator, AdministratorSteps,
                            DetachedLater, DetachedSteps
<1> QED
  BY <1>1, <1>2

\* A mutation keeps the invariant when what it writes is well-formed.
LEMMA WritingKeeps ==
  ASSUME CommunityInv, NEW r \in Requests, Finish(r), UNCHANGED accounts,
         setup' \in BOOLEAN,
         roles' \in [Sites -> [Users -> Roles \cup {None}]],
         \A s \in Sites, u \in Users : roles'[s][u] # None => u \in accounts,
         appearance' \in [Sites -> Seq(Css)],
         docs' \in [Docs -> Document \cup {None}],
         pins' \in Seq(Docs),
         PublishedExists', Ownership'
  PROVE  CommunityInv'
<1>1. /\ reqs' \in [Requests -> Request]
      /\ UNCHANGED sessions
      /\ \A x \in Requests : "user" \in DOMAIN reqs'[x] => reqs'[x].user \in accounts'
      /\ AdministratorsKnown' /\ DetachedLater'
  BY FinishKeeps
<1>2. CommunityTypes'
  BY <1>1 DEF CommunityInv, CommunityTypes
<1>3. Registered'
  BY <1>1 DEF CommunityInv, Registered
<1> QED
  BY <1>1, <1>2, <1>3 DEF CommunityInv

\* Nothing that leaves members and appearances alone changes who owns a blog.
LEMMA OwnershipFrame ==
  ASSUME Ownership, UNCHANGED <<roles, appearance>> PROVE Ownership'
  BY DEF Ownership, Exists, Owns

\* Appending an appearance revision keeps a blog in existence.
LEMMA AppearanceAppended ==
  ASSUME CommunityInv, NEW s \in Sites, Exists(s), NEW css \in Css,
         AppendAppearance(s, css), UNCHANGED roles
  PROVE  /\ appearance' \in [Sites -> Seq(Css)]
         /\ Last(appearance'[s]) = css
         /\ Ownership'
<1>1. appearance \in [Sites -> Seq(Css)]
  BY DEF CommunityInv, CommunityTypes
<1>2. /\ Append(appearance[s], css) \in Seq(Css)
      /\ Append(appearance[s], css) # <<>>
      /\ Last(Append(appearance[s], css)) = css
  BY <1>1 DEF Last
<1>3. /\ appearance' \in [Sites -> Seq(Css)]
      /\ appearance'[s] = Append(appearance[s], css)
      /\ \A x \in Sites : x # s => appearance'[x] = appearance[x]
  BY <1>1, <1>2 DEF AppendAppearance
<1>4. \A x \in Sites : (appearance'[x] # <<>>) <=> (appearance[x] # <<>>)
  BY <1>2, <1>3 DEF Exists
<1>5. Ownership'
  BY <1>4 DEF Ownership, Exists, Owns, CommunityInv
<1> QED
  BY <1>2, <1>3, <1>5

\* create_site and the operations on members keep ownership.
LEMMA MembersChanged ==
  ASSUME CommunityInv, NEW u \in Users, NEW s \in Sites,
         \/ CreateSite(u, s) /\ u \in accounts
         \/ \E m \in Users : AddSiteCollaborator(u, s, m) \/ RemoveSiteCollaborator(u, s, m)
  PROVE  /\ roles' \in [Sites -> [Users -> Roles \cup {None}]]
         /\ \A x \in Sites, v \in Users : roles'[x][v] # None => v \in accounts
         /\ appearance' \in [Sites -> Seq(Css)]
         /\ Ownership'
<1> USE CommunityAssumption DEF CommunityInv, CommunityTypes, Registered, Roles
<1>1. CASE CreateSite(u, s) /\ u \in accounts
  <2>1. /\ roles' \in [Sites -> [Users -> Roles \cup {None}]]
        /\ \A x \in Sites, v \in Users :
             roles'[x][v] = IF x = s /\ v = u THEN "owner" ELSE roles[x][v]
    BY <1>1 DEF CreateSite
  <2>2. <<None>> \in Seq(Css) /\ <<None>> # <<>>
    BY DEF Css
  <2>3. /\ appearance' \in [Sites -> Seq(Css)]
        /\ appearance'[s] = <<None>>
        /\ \A x \in Sites : x # s => appearance'[x] = appearance[x]
    BY <1>1, <2>2 DEF CreateSite
  <2>4. \A v \in Users : roles[s][v] = None
    BY <1>1 DEF CreateSite, Ownership
  <2>5. \A x \in Sites : roles[x][u] # "owner"
    BY <1>1 DEF CreateSite, OwnedSites, Owns
  <2>6. ASSUME NEW x \in Sites, appearance'[x] # <<>>
        PROVE  \E w \in Users : \A v \in Users : roles'[x][v] = "owner" <=> v = w
    <3>1. CASE x = s
      BY <2>1, <2>4, <3>1
    <3>2. CASE x # s
      <4>1. PICK w \in Users : \A v \in Users : Owns(v, x) <=> v = w
        BY <2>3, <2>6, <3>2 DEF Ownership, Exists
      <4> QED
        BY <2>1, <3>2, <4>1 DEF Owns
    <3> QED
      BY <3>1, <3>2
  <2>7. \A x \in Sites : appearance'[x] = <<>> => \A v \in Users : roles'[x][v] = None
    <3>1. SUFFICES ASSUME NEW x \in Sites, appearance'[x] = <<>>, NEW v \in Users
                   PROVE  roles'[x][v] = None
      OBVIOUS
    <3>2. x # s /\ ~Exists(x)
      BY <2>2, <2>3, <3>1 DEF Exists
    <3> QED
      BY <2>1, <3>2 DEF Ownership
  <2>8. \A v \in Users, s1, s2 \in Sites :
          roles'[s1][v] = "owner" /\ roles'[s2][v] = "owner" => s1 = s2
    <3>1. SUFFICES ASSUME NEW v \in Users, NEW s1 \in Sites, NEW s2 \in Sites,
                          roles'[s1][v] = "owner", roles'[s2][v] = "owner"
                   PROVE  s1 = s2
      OBVIOUS
    <3>2. CASE v = u
      BY <2>1, <2>5, <3>1, <3>2
    <3>3. CASE v # u
      <4>1. Owns(v, s1) /\ Owns(v, s2)
        BY <2>1, <3>1, <3>3 DEF Owns
      <4> QED
        BY <4>1 DEF Ownership
    <3> QED
      BY <3>2, <3>3
  <2>9. Ownership'
    BY <2>6, <2>7, <2>8 DEF Ownership, Exists, Owns
  <2> QED
    BY <1>1, <2>1, <2>3, <2>9
<1>2. ASSUME NEW m \in Users, AddSiteCollaborator(u, s, m) \/ RemoveSiteCollaborator(u, s, m)
      PROVE  /\ roles' \in [Sites -> [Users -> Roles \cup {None}]]
             /\ \A x \in Sites, v \in Users : roles'[x][v] # None => v \in accounts
             /\ appearance' \in [Sites -> Seq(Css)]
             /\ Ownership'
  <2>1. /\ roles' \in [Sites -> [Users -> Roles \cup {None}]]
        /\ \A x \in Sites, v \in Users : x # s \/ v # m => roles'[x][v] = roles[x][v]
        /\ roles[s][m] # "owner" /\ roles'[s][m] # "owner"
        /\ roles'[s][m] # None => m \in accounts
    <3>1. CASE AddSiteCollaborator(u, s, m)
      BY <3>1 DEF AddSiteCollaborator
    <3>2. CASE RemoveSiteCollaborator(u, s, m)
      BY <3>2 DEF RemoveSiteCollaborator
    <3> QED
      BY <1>2, <3>1, <3>2
  <2>2. UNCHANGED appearance /\ Owns(u, s)
    BY <1>2 DEF AddSiteCollaborator, RemoveSiteCollaborator, ExceptRoles
  <2>3. \A x \in Sites, v \in Users : (roles'[x][v] = "owner") <=> (roles[x][v] = "owner")
    BY <2>1
  <2>4. appearance[s] # <<>>
    BY <2>2 DEF Ownership, Exists, Owns
  <2>5. Ownership'
    <3>1. \A x \in Sites : appearance'[x] # <<>> =>
            \E w \in Users : \A v \in Users : roles'[x][v] = "owner" <=> v = w
      BY <2>2, <2>3 DEF Ownership, Exists, Owns
    <3>2. \A x \in Sites : appearance'[x] = <<>> => \A v \in Users : roles'[x][v] = None
      BY <2>1, <2>2, <2>4 DEF Ownership, Exists
    <3>3. \A v \in Users, s1, s2 \in Sites :
            roles'[s1][v] = "owner" /\ roles'[s2][v] = "owner" => s1 = s2
      BY <2>3 DEF Ownership, Owns
    <3> QED
      BY <3>1, <3>2, <3>3 DEF Ownership, Exists, Owns
  <2> QED
    BY <2>1, <2>2, <2>5
<1> QED
  BY <1>1, <1>2

\* A document with another revision, and with another one published.
LEMMA DocumentRecord ==
  ASSUME NEW x \in Document
  PROVE  /\ x.revisions < MaxRevisions =>
              LET v == [x EXCEPT !.revisions = @ + 1]
              IN  /\ v \in Document /\ v.site = x.site /\ v.published = x.published
                  /\ v.revisions = x.revisions + 1
         /\ \A n \in 1 .. MaxRevisions :
              LET v == [x EXCEPT !.published = n]
              IN  v \in Document /\ v.site = x.site /\ v.published = n /\ v.revisions = x.revisions
<1>1. MaxRevisions \in Nat
  BY CommunityAssumption
<1>2. x.site \in Sites /\ x.revisions \in 1 .. MaxRevisions /\ x.published \in 0 .. MaxRevisions
  BY DEF Document
<1>3. ASSUME x.revisions < MaxRevisions PROVE x.revisions + 1 \in 1 .. MaxRevisions
  BY <1>1, <1>2, <1>3
<1>4. \A n \in 1 .. MaxRevisions : n \in 0 .. MaxRevisions
  BY <1>1
<1> QED
  BY <1>2, <1>3, <1>4 DEF Document

\* The operations on documents touch one document, of the given blog; only
\* publishing touches what is published.
LEMMA DocumentChanged ==
  ASSUME CommunityInv, NEW u \in Users, NEW s \in Sites, NEW d \in Docs,
         \/ \E c \in Categories \cup {None} : \/ CreateDocumentInWritableSite(u, s, d, c)
                                              \/ ReviseDocumentInWritableSite(u, s, d, c)
         \/ \E n \in 1 .. MaxRevisions : PublishDocumentInOwnedSite(u, s, d, n)
  PROVE  /\ docs' \in [Docs -> Document \cup {None}]
         /\ PublishedExists'
         /\ \A x \in Docs : docs'[x] # docs[x] => x = d
         /\ docs'[d].site = s
         /\ (\E c \in Categories \cup {None} : \/ CreateDocumentInWritableSite(u, s, d, c)
                                              \/ ReviseDocumentInWritableSite(u, s, d, c)) =>
              \A x \in Docs : /\ Published(x)' <=> Published(x)
                              /\ Published(x) => docs'[x].published = docs[x].published
<1> USE CommunityAssumption DEF CommunityInv, CommunityTypes
<1>1. MaxRevisions \in Nat /\ MaxRevisions >= 1
  OBVIOUS
<1>2. ASSUME NEW v \in Document, v.published <= v.revisions, v.site = s,
             docs' = [docs EXCEPT ![d] = v]
      PROVE  /\ docs' \in [Docs -> Document \cup {None}]
             /\ PublishedExists'
             /\ \A x \in Docs : docs'[x] # docs[x] => x = d
             /\ docs'[d].site = s /\ docs'[d] = v /\ v # None
  BY <1>2 DEF PublishedExists
<1>3. ASSUME NEW c \in Categories \cup {None}, CreateDocumentInWritableSite(u, s, d, c)
      PROVE  \E v \in Document : /\ v.published <= v.revisions /\ v.site = s
                                 /\ docs' = [docs EXCEPT ![d] = v]
                                 /\ docs[d] = None /\ v.published = 0
  <2> DEFINE v == [site |-> s, revisions |-> 1, published |-> 0]
  <2>1. v \in Document /\ v.published <= v.revisions /\ v.site = s /\ v.published = 0
    BY <1>1 DEF Document
  <2>2. docs' = [docs EXCEPT ![d] = v] /\ docs[d] = None
    BY <1>3 DEF CreateDocumentInWritableSite
  <2> QED
    BY <2>1, <2>2
<1>4. ASSUME NEW c \in Categories \cup {None}, ReviseDocumentInWritableSite(u, s, d, c)
      PROVE  \E v \in Document : /\ v.published <= v.revisions /\ v.site = s
                                 /\ docs' = [docs EXCEPT ![d] = v]
                                 /\ docs[d] # None /\ v.published = docs[d].published
  <2> DEFINE v == [docs[d] EXCEPT !.revisions = @ + 1]
  <2>1. docs[d] \in Document /\ docs[d].site = s /\ docs[d].revisions < MaxRevisions
        /\ docs[d].published <= docs[d].revisions /\ docs[d] # None
    BY <1>4 DEF ReviseDocumentInWritableSite, DocumentInSite, PublishedExists
  <2>2. v \in Document /\ v.site = s /\ v.published = docs[d].published
        /\ v.revisions = docs[d].revisions + 1
    BY <2>1, DocumentRecord
  <2>3. docs' = [docs EXCEPT ![d] = v]
    BY <1>4 DEF ReviseDocumentInWritableSite
  <2> HIDE DEF v
  <2>4. v.published <= v.revisions
    BY <1>1, <2>1, <2>2 DEF Document
  <2> QED
    BY <2>1, <2>2, <2>3, <2>4
<1>5. ASSUME NEW n \in 1 .. MaxRevisions, PublishDocumentInOwnedSite(u, s, d, n)
      PROVE  \E v \in Document : /\ v.published <= v.revisions /\ v.site = s
                                 /\ docs' = [docs EXCEPT ![d] = v]
  <2> DEFINE v == [docs[d] EXCEPT !.published = n]
  <2>1. docs[d] \in Document /\ docs[d].site = s /\ n <= docs[d].revisions
    BY <1>5 DEF PublishDocumentInOwnedSite, DocumentInSite
  <2>2. v \in Document /\ v.published <= v.revisions /\ v.site = s
    BY <2>1, DocumentRecord
  <2>3. docs' = [docs EXCEPT ![d] = v]
    BY <1>5 DEF PublishDocumentInOwnedSite
  <2> HIDE DEF v
  <2> QED
    BY <2>2, <2>3
<1>6. /\ docs' \in [Docs -> Document \cup {None}]
      /\ PublishedExists'
      /\ \A x \in Docs : docs'[x] # docs[x] => x = d
      /\ docs'[d].site = s
  BY <1>2, <1>3, <1>4, <1>5
<1>7. ASSUME NEW c \in Categories \cup {None},
             \/ CreateDocumentInWritableSite(u, s, d, c)
             \/ ReviseDocumentInWritableSite(u, s, d, c), NEW x \in Docs
      PROVE  /\ Published(x)' <=> Published(x)
             /\ Published(x) => docs'[x].published = docs[x].published
  <2>1. PICK v \in Document :
          /\ v.published <= v.revisions /\ v.site = s
          /\ docs' = [docs EXCEPT ![d] = v]
          /\ \/ docs[d] = None /\ v.published = 0
             \/ docs[d] # None /\ v.published = docs[d].published
    BY <1>3, <1>4, <1>7
  <2>2. docs'[d] = v /\ v # None
    BY <1>2, <2>1
  <2>3. CASE x = d
    BY <2>1, <2>2, <2>3 DEF Published
  <2>4. CASE x # d
    BY <1>6, <2>4 DEF Published
  <2> QED
    BY <2>3, <2>4
<1> QED
  BY <1>6, <1>7

\* The sequences a request may ask to be pinned.
LEMMA PinsAreSequences ==
  ASSUME NEW ids \in SeqOf(Docs, 2) PROVE ids \in Seq(Docs)
<1>1. PICK m \in 0 .. 2 : ids \in [1 .. m -> Docs]
  BY DEF SeqOf
<1> QED
  BY <1>1

\* The handlers that change a blog's categories.
CategoryHandler(r) ==
  \E c \in Categories : \/ CreateStudioCategory(r, c) \/ CreateStudioSeries(r, c)
                        \/ PromoteStudioCategoryToSeries(r, c) \/ UpdateStudioCategory(r, c)
                        \/ UpdateStudioSeries(r, c) \/ ArchiveStudioCategory(r, c)
                        \/ ArchiveStudioSeries(r, c)

\* They change categories only, of the site they work in and as its owner.
LEMMA CategoriesChanged ==
  ASSUME NEW r \in Requests, CategoryHandler(r)
  PROVE  /\ reqs[r].pc \in {"studio mutation", "studio task"}
         /\ Finish(r)
         /\ UNCHANGED <<accounts, setup, roles, appearance, docs, comments, pins>>
  BY DEF CategoryHandler, CreateStudioCategory, CreateStudioSeries, PromoteStudioCategoryToSeries,
         UpdateStudioCategory, UpdateStudioSeries, ArchiveStudioCategory, ArchiveStudioSeries,
         OwnerStudioAccess, CreateCategory, PromoteCategoryToSeries, UpdateCategory, UpdateSeries,
         ArchiveCategory, ArchiveSeries, ExceptCategories

\* Who acts in a handler, and in which blog.
LEMMA HandlerActs ==
  ASSUME CommunityInv, NEW r \in Requests
  PROVE  /\ reqs[r].pc \in UserSteps \cup AdministratorSteps \cup StudioSteps =>
              /\ reqs[r].user \in Users /\ reqs[r].user \in accounts
              /\ "user" \in DOMAIN reqs[r]
         /\ reqs[r].pc \in StudioSteps => reqs[r].site \in Sites
  BY RequestShape DEF CommunityInv, CommunityTypes, Registered

\* The owner of a blog works in one that exists.
LEMMA OwnedExists ==
  ASSUME CommunityInv, NEW u \in Users, NEW s \in Sites, Owns(u, s) PROVE Exists(s)
  BY CommunityAssumption DEF CommunityInv, Ownership, Owns, Roles

\* Saving a theme or a stylesheet appends an appearance.
LEMMA AppearanceSaved ==
  ASSUME CommunityInv, NEW r \in Requests,
         SaveTheme(r) \/ \E css \in Css : UpdateStudioSettings(r, css)
  PROVE  /\ reqs[r].pc \in {"studio mutation", "studio task"} /\ Finish(r)
         /\ Owns(reqs[r].user, reqs[r].site)
         /\ UNCHANGED <<accounts, setup, roles, categories, docs, comments, pins>>
         /\ appearance' \in [Sites -> Seq(Css)] /\ Ownership'
         /\ \A x \in Sites : appearance'[x] # appearance[x] => x = reqs[r].site
<1> DEFINE s == reqs[r].site
<1>1. /\ reqs[r].pc \in {"studio mutation", "studio task"} /\ Finish(r) /\ Owns(reqs[r].user, s)
      /\ UNCHANGED <<accounts, setup, roles, categories, docs, comments, pins>>
  BY DEF SaveTheme, UpdateStudioSettings, OwnerStudioAccess, ChangeSiteTheme,
         ChangeSiteAppearance, ExceptAppearance
<1>2. s \in Sites /\ reqs[r].user \in Users
  BY <1>1, HandlerActs DEF StudioSteps
<1>3. Exists(s) /\ appearance[s] \in Seq(Css)
  BY <1>1, <1>2, OwnedExists DEF CommunityInv, CommunityTypes
<1>4. Last(appearance[s]) \in Css
  BY <1>3, LastStylesheet DEF Exists
<1>5. CASE SaveTheme(r)
  <2>1. AppendAppearance(s, Last(appearance[s]))
    BY <1>5 DEF SaveTheme, ChangeSiteTheme
  <2>2. appearance' \in [Sites -> Seq(Css)] /\ Ownership'
    BY <1>1, <1>2, <1>3, <1>4, <2>1, AppearanceAppended
  <2>3. \A x \in Sites : appearance'[x] # appearance[x] => x = s
    BY <2>1 DEF AppendAppearance, CommunityInv, CommunityTypes
  <2> QED
    BY <1>1, <2>2, <2>3
<1>6. ASSUME NEW css \in Css, UpdateStudioSettings(r, css), ~SaveTheme(r)
      PROVE  /\ appearance' \in [Sites -> Seq(Css)] /\ Ownership'
             /\ \A x \in Sites : appearance'[x] # appearance[x] => x = s
  <2>1. AppendAppearance(s, css)
    BY <1>6 DEF UpdateStudioSettings, ChangeSiteAppearance
  <2>2. appearance' \in [Sites -> Seq(Css)] /\ Ownership'
    BY <1>1, <1>2, <1>3, <2>1, AppearanceAppended
  <2>3. \A x \in Sites : appearance'[x] # appearance[x] => x = s
    BY <2>1 DEF AppendAppearance, CommunityInv, CommunityTypes
  <2> QED
    BY <2>2, <2>3
<1> QED
  BY <1>1, <1>5, <1>6

\* The setup of the control plane appends an appearance to the primary site.
LEMMA SetupCompleted ==
  ASSUME CommunityInv, NEW r \in Requests, CreateBlogSetup(r)
  PROVE  /\ reqs[r].pc \in {"user mutation", "user task"} /\ Finish(r)
         /\ Owns(reqs[r].user, Primary) /\ setup' \in BOOLEAN
         /\ UNCHANGED <<accounts, roles, categories, docs, comments, pins>>
         /\ appearance' \in [Sites -> Seq(Css)] /\ Ownership'
         /\ \A x \in Sites : appearance'[x] # appearance[x] => x = Primary
<1>1. /\ reqs[r].pc \in {"user mutation", "user task"} /\ Finish(r)
      /\ Owns(reqs[r].user, Primary) /\ setup' \in BOOLEAN
      /\ AppendAppearance(Primary, None)
      /\ UNCHANGED <<accounts, roles, categories, docs, comments, pins>>
  BY DEF CreateBlogSetup, CompletePrimaryOwnerSetup
<1>2. Primary \in Sites /\ reqs[r].user \in Users
  BY <1>1, HandlerActs, CommunityAssumption DEF UserSteps
<1>3. Exists(Primary) /\ None \in Css
  BY <1>1, <1>2, OwnedExists DEF Css
<1>4. appearance' \in [Sites -> Seq(Css)] /\ Ownership'
  BY <1>1, <1>2, <1>3, AppearanceAppended
<1>5. \A x \in Sites : appearance'[x] # appearance[x] => x = Primary
  BY <1>1 DEF AppendAppearance, CommunityInv, CommunityTypes
<1> QED
  BY <1>1, <1>4, <1>5

\* Publishing, and writing drafts, as handlers.
DraftHandler(r) ==
  \E d \in Docs, c \in Categories \cup {None} :
    CreateStudioDocument(r, d, c) \/ CreateStudioRevision(r, d, c)

\* A handler that writes a draft acts as a member of the document's blog and
\* changes nothing that is published.
LEMMA DraftWritten ==
  ASSUME CommunityInv, NEW r \in Requests, DraftHandler(r)
  PROVE  /\ reqs[r].pc = "studio" /\ Finish(r) /\ Writes(reqs[r].user, reqs[r].site)
         /\ UNCHANGED <<accounts, setup, roles, appearance, categories, comments, pins>>
         /\ docs' \in [Docs -> Document \cup {None}] /\ PublishedExists'
         /\ \A x \in Docs : docs'[x] # docs[x] => docs'[x].site = reqs[r].site
         /\ \A x \in Docs : /\ Published(x)' <=> Published(x)
                            /\ Published(x) => docs'[x].published = docs[x].published
<1>1. PICK d \in Docs, c \in Categories \cup {None} :
        CreateStudioDocument(r, d, c) \/ CreateStudioRevision(r, d, c)
  BY DEF DraftHandler
<1> DEFINE u == reqs[r].user
           s == reqs[r].site
<1>2. /\ reqs[r].pc = "studio" /\ Finish(r) /\ Writes(u, s)
      /\ CreateDocumentInWritableSite(u, s, d, c) \/ ReviseDocumentInWritableSite(u, s, d, c)
      /\ UNCHANGED <<accounts, setup, roles, appearance, categories, comments, pins>>
  BY <1>1 DEF CreateStudioDocument, CreateStudioRevision, CreateDocumentInWritableSite,
              ReviseDocumentInWritableSite, ExceptDocs
<1>3. u \in Users /\ s \in Sites
  BY <1>2, HandlerActs DEF StudioSteps
<1>4. /\ docs' \in [Docs -> Document \cup {None}]
      /\ PublishedExists'
      /\ \A x \in Docs : docs'[x] # docs[x] => x = d
      /\ docs'[d].site = s
      /\ \A x \in Docs : /\ Published(x)' <=> Published(x)
                         /\ Published(x) => docs'[x].published = docs[x].published
  BY <1>2, <1>3, DocumentChanged
<1> QED
  BY <1>2, <1>4

\* Publishing is the owner's, and announced.
LEMMA DocumentPublished ==
  ASSUME CommunityInv, NEW r \in Requests, NEW d \in Docs, NEW n \in 1 .. MaxRevisions,
         PublishStudioDocument(r, d, n)
  PROVE  /\ reqs[r].pc \in {"studio mutation", "studio task"} /\ Finish(r) /\ Owns(reqs[r].user, reqs[r].site)
         /\ UNCHANGED <<accounts, setup, roles, appearance, categories, comments, pins>>
         /\ docs' \in [Docs -> Document \cup {None}] /\ PublishedExists'
         /\ \A x \in Docs : docs'[x] # docs[x] => docs'[x].site = reqs[r].site
<1> DEFINE u == reqs[r].user
           s == reqs[r].site
<1>1. /\ reqs[r].pc \in {"studio mutation", "studio task"} /\ Finish(r) /\ Owns(u, s)
      /\ PublishDocumentInOwnedSite(u, s, d, n)
      /\ UNCHANGED <<accounts, setup, roles, appearance, categories, comments, pins>>
  BY DEF PublishStudioDocument, OwnerStudioAccess, PublishDocumentInOwnedSite, ExceptDocs
<1>2. u \in Users /\ s \in Sites
  BY <1>1, HandlerActs DEF StudioSteps
<1>3. \E k \in 1 .. MaxRevisions : PublishDocumentInOwnedSite(u, s, d, k)
  BY <1>1
<1> HIDE DEF u, s
<1>4. /\ docs' \in [Docs -> Document \cup {None}]
      /\ PublishedExists'
      /\ \A x \in Docs : docs'[x] # docs[x] => x = d
      /\ docs'[d].site = s
  BY <1>2, <1>3, DocumentChanged, Zenon
<1> QED
  BY <1>1, <1>4 DEF u, s

\* create_site and the collaborator operations, as handlers.
MemberHandler(r) ==
  \/ \E s \in Sites : CreateBlog(r, s)
  \/ \E m \in Users : AddStudioCollaborator(r, m) \/ RemoveStudioCollaborator(r, m)

\* A handler that changes members either creates the blog or is its owner's.
LEMMA MembersHandled ==
  ASSUME CommunityInv, NEW r \in Requests, MemberHandler(r)
  PROVE  /\ Finish(r) /\ "user" \in DOMAIN reqs[r]
         /\ UNCHANGED <<accounts, setup, categories, docs, comments, pins>>
         /\ roles' \in [Sites -> [Users -> Roles \cup {None}]]
         /\ \A s \in Sites, u \in Users : roles'[s][u] # None => u \in accounts
         /\ appearance' \in [Sites -> Seq(Css)] /\ Ownership'
         /\ appearance' = appearance \/ reqs[r].pc \in {"no blog", "blog task"}
         /\ \A s \in Sites : appearance'[s] # appearance[s] \/ roles'[s] # roles[s] =>
              (Exists(s) => Owns(reqs[r].user, s))
<1>1. ASSUME NEW s \in Sites, CreateBlog(r, s)
      PROVE  /\ reqs[r].pc \in {"no blog", "blog task"} /\ Finish(r) /\ CreateSite(reqs[r].user, s)
             /\ reqs[r].user \in Users /\ reqs[r].user \in accounts /\ "user" \in DOMAIN reqs[r]
             /\ UNCHANGED <<accounts, setup, categories, docs, comments, pins>>
             /\ \A x \in Sites : appearance'[x] # appearance[x] \/ roles'[x] # roles[x] => ~Exists(x)
  <2>1. reqs[r].pc \in {"no blog", "blog task"} /\ Finish(r) /\ CreateSite(reqs[r].user, s)
    BY <1>1 DEF CreateBlog
  <2>2. reqs[r].user \in Users /\ reqs[r].user \in accounts /\ "user" \in DOMAIN reqs[r]
    BY <2>1, HandlerActs DEF UserSteps
  <2>3. UNCHANGED <<accounts, setup, categories, docs, comments, pins>>
    BY <2>1 DEF CreateSite
  <2>4. \A x \in Sites : appearance'[x] # appearance[x] \/ roles'[x] # roles[x] => x = s
    BY <2>1 DEF CreateSite, CommunityInv, CommunityTypes
  <2> QED
    BY <2>1, <2>2, <2>3, <2>4 DEF CreateSite
<1>2. ASSUME NEW m \in Users, AddStudioCollaborator(r, m) \/ RemoveStudioCollaborator(r, m)
      PROVE  /\ Finish(r)
             /\ \/ AddSiteCollaborator(reqs[r].user, reqs[r].site, m)
                \/ RemoveSiteCollaborator(reqs[r].user, reqs[r].site, m)
             /\ reqs[r].user \in Users /\ reqs[r].site \in Sites /\ "user" \in DOMAIN reqs[r]
             /\ UNCHANGED <<accounts, setup, appearance, categories, docs, comments, pins>>
             /\ \A x \in Sites : roles'[x] # roles[x] => Owns(reqs[r].user, x)
  <2>1. /\ reqs[r].pc = "studio" /\ Finish(r)
        /\ \/ AddSiteCollaborator(reqs[r].user, reqs[r].site, m)
           \/ RemoveSiteCollaborator(reqs[r].user, reqs[r].site, m)
    BY <1>2 DEF AddStudioCollaborator, RemoveStudioCollaborator
  <2>2. reqs[r].user \in Users /\ reqs[r].site \in Sites /\ "user" \in DOMAIN reqs[r]
    BY <2>1, HandlerActs DEF StudioSteps
  <2>3. UNCHANGED <<accounts, setup, appearance, categories, docs, comments, pins>>
    BY <2>1 DEF AddSiteCollaborator, RemoveSiteCollaborator, ExceptRoles
  <2>4. \A x \in Sites : roles'[x] # roles[x] => x = reqs[r].site
    BY <2>1 DEF AddSiteCollaborator, RemoveSiteCollaborator, CommunityInv, CommunityTypes
  <2>5. Owns(reqs[r].user, reqs[r].site)
    BY <2>1 DEF AddSiteCollaborator, RemoveSiteCollaborator
  <2> QED
    BY <2>1, <2>2, <2>3, <2>4, <2>5
<1>3. ASSUME NEW s \in Sites, CreateBlog(r, s)
      PROVE  /\ roles' \in [Sites -> [Users -> Roles \cup {None}]]
             /\ \A x \in Sites, v \in Users : roles'[x][v] # None => v \in accounts
             /\ appearance' \in [Sites -> Seq(Css)] /\ Ownership'
  BY <1>1, <1>3, MembersChanged
<1>4. ASSUME NEW m \in Users, AddStudioCollaborator(r, m) \/ RemoveStudioCollaborator(r, m)
      PROVE  /\ roles' \in [Sites -> [Users -> Roles \cup {None}]]
             /\ \A x \in Sites, v \in Users : roles'[x][v] # None => v \in accounts
             /\ appearance' \in [Sites -> Seq(Css)] /\ Ownership'
  BY <1>2, <1>4, MembersChanged
<1>5. CASE \E s \in Sites : CreateBlog(r, s)
  BY <1>1, <1>3, <1>5
<1>6. CASE \E m \in Users : AddStudioCollaborator(r, m) \/ RemoveStudioCollaborator(r, m)
  BY <1>2, <1>4, <1>6
<1> QED
  BY <1>5, <1>6 DEF MemberHandler

\* Comments and home pins.
FrontHandler(r) ==
  \/ \E d \in Docs : SubmitComment(r, d)
  \/ \E ids \in SeqOf(Docs, 2) : CurateHome(r, ids)

\* They change nothing else, and the pins only from an administrator's session.
LEMMA FrontHandled ==
  ASSUME CommunityInv, NEW r \in Requests, FrontHandler(r)
  PROVE  /\ Finish(r) /\ reqs[r].pc \in GuardedSteps \cup DetachedSteps
         /\ UNCHANGED <<accounts, setup, roles, appearance, categories, docs>>
         /\ pins' \in Seq(Docs)
         /\ pins' # pins => /\ reqs[r].pc \in {"administrator mutation", "administrator task"}
                            /\ IsAdministrator(reqs[r].token)
<1>1. CASE \E d \in Docs : SubmitComment(r, d)
  BY <1>1 DEF SubmitComment, CreateComment, GuardedSteps, DetachedSteps, CommunityInv, CommunityTypes
<1>2. ASSUME NEW ids \in SeqOf(Docs, 2), CurateHome(r, ids)
      PROVE  /\ Finish(r) /\ reqs[r].pc \in GuardedSteps \cup DetachedSteps
             /\ UNCHANGED <<accounts, setup, roles, appearance, categories, docs>>
             /\ pins' = ids /\ reqs[r].pc \in {"administrator mutation", "administrator task"}
  BY <1>2 DEF CurateHome, ReplaceHomePins, GuardedSteps, DetachedSteps
<1>3. reqs[r].pc \in {"administrator mutation", "administrator task"} => IsAdministrator(reqs[r].token)
  BY DEF CommunityInv, AdministratorsKnown, AdministratorSteps
<1> QED
  BY <1>1, <1>2, <1>3, PinsAreSequences DEF FrontHandler

\* Every step is one of these.
LEMMA StepsOfCommunity ==
  ASSUME Next
  PROVE  \/ \E t \in Tokens : AdministratorAuthenticatedResponse(t) \/ SessionEnds(t)
         \/ \E r \in Requests, t \in Tokens : AuthenticatedResponse(r, t)
         \/ \E r \in Requests :
              \/ \E u \in Users : Register(r, u) \/ Login(r, u)
              \/ \E t \in Tokens : AuthenticatedUserGuard(r, t)
              \/ RequireUser(r) \/ RequireInstanceAdministrator(r) \/ StudioAccess(r)
              \/ BeginPublicMutation(r) \/ TaskDetached(r) \/ HandlerEnds(r) \/ LookForBlog(r)
              \/ CreateBlogSetup(r)
              \/ SaveTheme(r) \/ \E css \in Css : UpdateStudioSettings(r, css)
              \/ MemberHandler(r) \/ CategoryHandler(r) \/ DraftHandler(r) \/ FrontHandler(r)
              \/ \E d \in Docs, n \in 1 .. MaxRevisions : PublishStudioDocument(r, d, n)
  BY DEF Next, MemberHandler, CategoryHandler, DraftHandler, FrontHandler

\* The initial state, a provisioned primary site, satisfies the invariant.
LEMMA InitCommunity == Init => CommunityInv
<1> SUFFICES ASSUME Init PROVE CommunityInv
  OBVIOUS
<1> USE CommunityAssumption DEF Init
<1>1. /\ appearance \in [Sites -> Seq(Css)]
      /\ \A s \in Sites : appearance[s] # <<>> <=> s = Primary
  <2>1. <<None>> \in Seq(Css) /\ <<>> \in Seq(Css) /\ <<None>> # <<>>
    BY DEF Css
  <2> QED
    BY <2>1
<1>2. /\ roles \in [Sites -> [Users -> Roles \cup {None}]]
      /\ \A s \in Sites, u \in Users : roles[s][u] # None <=> s = Primary /\ u = Admin
      /\ \A s \in Sites, u \in Users : roles[s][u] = "owner" <=> s = Primary /\ u = Admin
  <2>1. "owner" \in Roles /\ None # "owner"
    BY DEF Roles
  <2>2. \A s \in Sites, u \in Users :
          roles[s][u] = IF s = Primary /\ u = Admin THEN "owner" ELSE None
    OBVIOUS
  <2>3. roles \in [Sites -> [Users -> Roles \cup {None}]]
    BY <2>1
  <2> QED
    BY <2>1, <2>2, <2>3
<1>3. reqs \in [Requests -> Request] /\ \A r \in Requests : reqs[r] = Idle
  <2>1. Idle \in Request /\ reqs = [r \in Requests |-> Idle]
    BY RequestBuilt, Zenon
  <2> QED
    BY <2>1
<1>4. CommunityTypes
  <2>1. sessions \in [Tokens -> Session \cup {None}] /\ docs \in [Docs -> Document \cup {None}]
    OBVIOUS
  <2>2. accounts \subseteq Users /\ pins \in Seq(Docs)
    BY SMT
  <2>3. setup \in BOOLEAN
    BY Zenon
  <2> QED
    BY <1>1, <1>2, <1>3, <2>1, <2>2, <2>3, Zenon DEF CommunityTypes
<1>5. Registered /\ AdministratorsKnown /\ DetachedLater
  BY <1>2, <1>3, RequestBuilt DEF Registered, AdministratorsKnown, AdministratorSteps,
                                  DetachedLater, DetachedSteps
<1>6. PublishedExists
  BY DEF PublishedExists
<1>7. Ownership
  BY <1>1, <1>2 DEF Ownership, Exists, Owns
<1> QED
  BY <1>4, <1>5, <1>6, <1>7 DEF CommunityInv

\* The invariant is inductive.
LEMMA StepCommunity ==
  ASSUME CommunityInv, [Next]_vars PROVE CommunityInv'
<1>1. ASSUME UNCHANGED vars PROVE CommunityInv'
  BY <1>1 DEF vars, stored, CommunityInv, CommunityTypes, Registered, AdministratorsKnown,
              DetachedLater,
              PublishedExists, Ownership, Exists, Owns, IsAdministrator
<1>2. ASSUME \/ \E t \in Tokens : AdministratorAuthenticatedResponse(t) \/ SessionEnds(t)
             \/ \E r \in Requests, t \in Tokens : AuthenticatedResponse(r, t)
      PROVE  CommunityInv'
  BY <1>2, SessionsKeep
<1>3. ASSUME NEW r \in Requests, NEW u \in Users, Register(r, u) PROVE CommunityInv'
  BY <1>3, RegisterKeeps
<1>4. ASSUME NEW r \in Requests,
             \/ \E u \in Users : Login(r, u)
             \/ \E t \in Tokens : AuthenticatedUserGuard(r, t)
             \/ RequireUser(r) \/ RequireInstanceAdministrator(r) \/ StudioAccess(r)
             \/ BeginPublicMutation(r) \/ TaskDetached(r) \/ HandlerEnds(r) \/ LookForBlog(r)
      PROVE  CommunityInv'
  BY <1>4, BeforeMutation
<1>5. /\ setup \in BOOLEAN
      /\ roles \in [Sites -> [Users -> Roles \cup {None}]]
      /\ \A s \in Sites, u \in Users : roles[s][u] # None => u \in accounts
      /\ appearance \in [Sites -> Seq(Css)]
      /\ docs \in [Docs -> Document \cup {None}]
      /\ pins \in Seq(Docs)
      /\ PublishedExists /\ Ownership
  BY DEF CommunityInv, CommunityTypes, Registered
<1>6. ASSUME NEW r \in Requests, CreateBlogSetup(r) PROVE CommunityInv'
  <2>1. PublishedExists'
    BY <1>5, <1>6, SetupCompleted DEF PublishedExists
  <2> QED
    BY <1>5, <1>6, <2>1, SetupCompleted, WritingKeeps
<1>7. ASSUME NEW r \in Requests, SaveTheme(r) \/ \E css \in Css : UpdateStudioSettings(r, css)
      PROVE  CommunityInv'
  <2>1. PublishedExists'
    BY <1>5, <1>7, AppearanceSaved DEF PublishedExists
  <2> QED
    BY <1>5, <1>7, <2>1, AppearanceSaved, WritingKeeps
<1>8. ASSUME NEW r \in Requests, MemberHandler(r) PROVE CommunityInv'
  <2>1. PublishedExists'
    BY <1>5, <1>8, MembersHandled DEF PublishedExists
  <2> QED
    BY <1>5, <1>8, <2>1, MembersHandled, WritingKeeps
<1>9. ASSUME NEW r \in Requests, CategoryHandler(r) PROVE CommunityInv'
  <2>1. PublishedExists' /\ Ownership'
    BY <1>5, <1>9, CategoriesChanged, OwnershipFrame DEF PublishedExists
  <2> QED
    BY <1>5, <1>9, <2>1, CategoriesChanged, WritingKeeps
<1>10. ASSUME NEW r \in Requests, DraftHandler(r) PROVE CommunityInv'
  <2>1. Ownership'
    BY <1>5, <1>10, DraftWritten, OwnershipFrame
  <2> QED
    BY <1>5, <1>10, <2>1, DraftWritten, WritingKeeps
<1>11. ASSUME NEW r \in Requests, FrontHandler(r) PROVE CommunityInv'
  <2>1. PublishedExists' /\ Ownership'
    BY <1>5, <1>11, FrontHandled, OwnershipFrame DEF PublishedExists
  <2> QED
    BY <1>5, <1>11, <2>1, FrontHandled, WritingKeeps
<1>12. ASSUME NEW r \in Requests, NEW d \in Docs, NEW n \in 1 .. MaxRevisions,
              PublishStudioDocument(r, d, n)
       PROVE  CommunityInv'
  <2>1. Ownership'
    BY <1>5, <1>12, DocumentPublished, OwnershipFrame
  <2> QED
    BY <1>5, <1>12, <2>1, DocumentPublished, WritingKeeps
<1> QED
  BY <1>1, <1>2, <1>3, <1>4, <1>6, <1>7, <1>8, <1>9, <1>10, <1>11, <1>12, StepsOfCommunity, Zenon

\* The invariant gives the types, one owner to every blog and one blog at most to
\* every account.
LEMMA InvOneOwner ==
  ASSUME CommunityInv PROVE TypeOK /\ OneOwner
<1>1. TypeOK
  <2>1. Range(pins) \subseteq Docs
    BY DEF CommunityInv, CommunityTypes, Range
  <2> QED
    BY <2>1 DEF CommunityInv, CommunityTypes, Registered, PublishedExists, TypeOK
<1>2. ASSUME NEW s \in Sites, Exists(s) PROVE Cardinality({u \in Users : Owns(u, s)}) = 1
  <2>1. PICK u \in Users : \A v \in Users : Owns(v, s) <=> v = u
    BY <1>2 DEF CommunityInv, Ownership
  <2>2. {v \in Users : Owns(v, s)} = {u}
    BY <2>1
  <2> QED
    BY <2>2, FS_Singleton
<1>3. ASSUME NEW u \in Users PROVE Cardinality(OwnedSites(u)) <= 1
  <2>1. CASE OwnedSites(u) = {}
    BY <2>1, FS_EmptySet
  <2>2. CASE OwnedSites(u) # {}
    <3>1. PICK s \in Sites : Owns(u, s)
      BY <2>2 DEF OwnedSites
    <3>2. OwnedSites(u) = {s}
      BY <3>1 DEF OwnedSites, CommunityInv, Ownership
    <3>3. Cardinality(OwnedSites(u)) = 1
      BY <3>2, FS_Singleton
    <3> QED
      BY <3>3
  <2> QED
    BY <2>1, <2>2
<1> QED
  BY <1>1, <1>2, <1>3 DEF OneOwner

\* However many create_blog requests of one account run at once, and whatever
\* collaborators come and go, every blog has exactly one owner and every account
\* at most one blog of its own.
THEOREM OneOwnerHolds == Spec => [](TypeOK /\ OneOwner)
<1>1. Init => CommunityInv
  BY InitCommunity
<1>2. CommunityInv /\ [Next]_vars => CommunityInv'
  BY StepCommunity
<1>3. CommunityInv => TypeOK /\ OneOwner
  BY InvOneOwner
<1> QED
  BY <1>1, <1>2, <1>3, PTL DEF Spec

\* The tasks before a mutation, and the sessions, write nothing that is stored.
LEMMA ReadersWriteNothing ==
  ASSUME \/ \E t \in Tokens : AdministratorAuthenticatedResponse(t) \/ SessionEnds(t)
         \/ \E r \in Requests, t \in Tokens : AuthenticatedResponse(r, t)
         \/ \E r \in Requests :
              \/ \E u \in Users : Register(r, u) \/ Login(r, u)
              \/ \E t \in Tokens : AuthenticatedUserGuard(r, t)
              \/ RequireUser(r) \/ RequireInstanceAdministrator(r) \/ StudioAccess(r)
              \/ BeginPublicMutation(r) \/ TaskDetached(r) \/ HandlerEnds(r) \/ LookForBlog(r)
         \/ UNCHANGED vars
  PROVE  UNCHANGED <<roles, appearance, categories, docs, comments, pins>>
  BY DEF AdministratorAuthenticatedResponse, SessionEnds, AuthenticatedResponse, Register, Login,
         AuthenticatedUserGuard, RequireUser, RequireInstanceAdministrator, StudioAccess,
         BeginPublicMutation, TaskDetached, HandlerEnds, LookForBlog, vars, stored

\* Each step's changes are authorised by what is stored when they are made.
LEMMA AuthorisedSteps ==
  ASSUME CommunityInv, [Next]_vars PROVE AuthorisedStep
<1> USE DEF AuthorisedStep
<1>1. ASSUME UNCHANGED <<roles, appearance, docs, pins>> PROVE AuthorisedStep
  BY <1>1
<1>2. ASSUME NEW r \in Requests, CreateBlogSetup(r) PROVE AuthorisedStep
  BY <1>2, SetupCompleted, HandlerActs DEF UserSteps
<1>3. ASSUME NEW r \in Requests, SaveTheme(r) \/ \E css \in Css : UpdateStudioSettings(r, css)
      PROVE  AuthorisedStep
  BY <1>3, AppearanceSaved, HandlerActs DEF StudioSteps
<1>4. ASSUME NEW r \in Requests, MemberHandler(r) PROVE AuthorisedStep
  BY <1>4, MembersHandled
<1>5. ASSUME NEW r \in Requests, CategoryHandler(r) PROVE AuthorisedStep
  BY <1>1, <1>5, CategoriesChanged
<1>6. ASSUME NEW r \in Requests, DraftHandler(r) PROVE AuthorisedStep
  BY <1>6, DraftWritten
<1>7. ASSUME NEW r \in Requests, FrontHandler(r) PROVE AuthorisedStep
  BY <1>7, FrontHandled
<1>8. ASSUME NEW r \in Requests, NEW d \in Docs, NEW n \in 1 .. MaxRevisions,
             PublishStudioDocument(r, d, n)
      PROVE  AuthorisedStep
  <2>1. Writes(reqs[r].user, reqs[r].site)
    BY <1>8, DocumentPublished, CommunityAssumption DEF Owns, Writes, Roles
  <2> QED
    BY <1>8, <2>1, DocumentPublished
<1> QED
  BY <1>1, <1>2, <1>3, <1>4, <1>5, <1>6, <1>7, <1>8, StepsOfCommunity, ReadersWriteNothing

\* What the public sees changes only in an announced mutation.
LEMMA AnnouncedSteps ==
  ASSUME CommunityInv, [Next]_vars PROVE AnnouncedStep
<1> USE DEF AnnouncedStep
<1>1. ASSUME UNCHANGED <<appearance, categories, comments, pins>>,
             \A x \in Docs : /\ Published(x)' <=> Published(x)
                             /\ Published(x) => docs'[x].published = docs[x].published
      PROVE  AnnouncedStep
  <2>1. {x \in Docs : Published(x)'} = {x \in Docs : Published(x)}
    BY <1>1
  <2>2. {<<d, docs'[d].published>> : d \in {x \in Docs : Published(x)'}}
          = {<<d, docs[d].published>> : d \in {x \in Docs : Published(x)}}
    BY <1>1, <2>1
  <2>3. PublicView' = PublicView
    BY <1>1, <2>2 DEF PublicView
  <2> QED
    BY <2>3
<1>2. ASSUME NEW r \in Requests, reqs[r].pc \in GuardedSteps \cup DetachedSteps, Finish(r)
      PROVE  AnnouncedStep
  <2>1. reqs'[r] = Idle
    BY <1>2 DEF Finish, CommunityInv, CommunityTypes
  <2>2. reqs[r].pc \in DetachedSteps => DropsAwaitedTask
    BY DEF CommunityInv, DetachedLater
  <2> QED
    BY <1>2, <2>1, <2>2
<1>3. ASSUME UNCHANGED <<appearance, categories, comments, pins, docs>> PROVE AnnouncedStep
  BY <1>1, <1>3 DEF Published
<1>4. ASSUME NEW r \in Requests, CreateBlogSetup(r) PROVE AnnouncedStep
  BY <1>2, <1>4, SetupCompleted DEF GuardedSteps, DetachedSteps
<1>5. ASSUME NEW r \in Requests, SaveTheme(r) \/ \E css \in Css : UpdateStudioSettings(r, css)
      PROVE  AnnouncedStep
  BY <1>2, <1>5, AppearanceSaved DEF GuardedSteps, DetachedSteps
<1>6. ASSUME NEW r \in Requests, MemberHandler(r) PROVE AnnouncedStep
  BY <1>2, <1>3, <1>6, MembersHandled DEF GuardedSteps, DetachedSteps
<1>7. ASSUME NEW r \in Requests, CategoryHandler(r) PROVE AnnouncedStep
  BY <1>2, <1>7, CategoriesChanged DEF GuardedSteps, DetachedSteps
<1>8. ASSUME NEW r \in Requests, DraftHandler(r) PROVE AnnouncedStep
  BY <1>1, <1>8, DraftWritten
<1>9. ASSUME NEW r \in Requests, FrontHandler(r) PROVE AnnouncedStep
  BY <1>2, <1>9, FrontHandled
<1>10. ASSUME NEW r \in Requests, NEW d \in Docs, NEW n \in 1 .. MaxRevisions,
              PublishStudioDocument(r, d, n)
       PROVE  AnnouncedStep
  BY <1>2, <1>10, DocumentPublished DEF GuardedSteps, DetachedSteps
<1> QED
  BY <1>3, <1>4, <1>5, <1>6, <1>7, <1>8, <1>9, <1>10, StepsOfCommunity, ReadersWriteNothing

\* Whoever changes a blog or a document is a member of it, or its owner, at that
\* moment, whatever membership was revoked after the handler read it, and the home
\* page changes only on an administrator's token.
THEOREM ChangesAuthorised == Spec => AuthorisedWhenApplied
<1>1. Init => CommunityInv
  BY InitCommunity
<1>2. CommunityInv /\ [Next]_vars => CommunityInv'
  BY StepCommunity
<1>3. CommunityInv /\ [Next]_vars => [AuthorisedStep]_vars
  BY AuthorisedSteps
<1> QED
  BY <1>1, <1>2, <1>3, PTL DEF Spec, AuthorisedWhenApplied

\* No public page changes but in a mutation the cache was told of, and under its
\* guard unless a disconnect has dropped the handler that awaited its task.
THEOREM ChangesAnnounced == Spec => PublicChangesAnnounced
<1>1. Init => CommunityInv
  BY InitCommunity
<1>2. CommunityInv /\ [Next]_vars => CommunityInv'
  BY StepCommunity
<1>3. CommunityInv /\ [Next]_vars => [AnnouncedStep]_vars
  BY AnnouncedSteps
<1> QED
  BY <1>1, <1>2, <1>3, PTL DEF Spec, PublicChangesAnnounced
==============================================================================
