------------------------------ MODULE Community ------------------------------
(***************************************************************************)
(* Accounts, sessions, blogs, memberships, appearance, studio content,      *)
(* comments and home pins, and the handlers that change them.               *)
(*                                                                         *)
(* A handler is three or four tasks: a middleware resolves the session, the *)
(* handler resolves it again, it reads which blog the account works in and  *)
(* with which role, and only then runs the repository operation, in a       *)
(* transaction of its own.  Anything may happen between two of them, so     *)
(* the role a handler holds is the one it read, not the one that is stored. *)
(***************************************************************************)
EXTENDS Naturals, Sequences, FiniteSets, SequencesExt

CONSTANTS None,          \* no value
          Users,         \* accounts, registered or not
          Admin,         \* the owner in the administrator control plane
          Sites,         \* blogs, created or not
          Primary,       \* the site of the control plane
          Docs,          \* documents, created or not
          Categories,    \* categories, created or not
          Tokens,        \* session tokens, issued or not
          Requests,      \* requests in flight at once
          MaxRevisions,  \* revisions of a document
          MaxAppearances, \* appearance revisions of a site
          MaxWrites,     \* writes committed in one behaviour
          Collaboration, \* OSB_COLLABORATION_ENABLED
          DropsAwaitedTask \* may a client's disconnect drop a handler that
                         \* awaits its repository task?

Css == {None, "css"}
\* Editors and writers have the same rights everywhere: both are members.
Roles == {"owner", "member"}
Methods == {"legacy", "administrator"}
Session == [user : Users, method : Methods, alive : BOOLEAN]
Document == [site : Sites, revisions : 1 .. MaxRevisions, published : 0 .. MaxRevisions]

ASSUME CommunityAssumption ==
  /\ Admin \in Users /\ Primary \in Sites
  /\ None \notin Roles \cup Session \cup Document
  /\ {MaxRevisions, MaxAppearances} \subseteq Nat \ {0} /\ MaxWrites \in Nat
  /\ Collaboration \in BOOLEAN /\ DropsAwaitedTask \in BOOLEAN

VARIABLES accounts,    \* registered accounts
          setup,       \* setup_complete of the control plane
          sessions,    \* token -> None or the session, alive or revoked
          roles,       \* site -> account -> None or its role
          appearance,  \* site -> the stylesheets of its appearance
                       \* revisions; the last is shown
          categories,  \* category -> None or its site, status and series flag
          docs,        \* document -> None or its site and revision pointers
          comments,    \* comments, each on a document by an account
          pins,        \* home_pins in slot order
          writes,      \* writes committed so far
          reqs         \* request -> how far its handler is, and what it read

stored == <<accounts, setup, roles, appearance, categories, docs, comments,
            pins>>
vars == <<stored, writes, sessions, reqs>>

Idle == [pc |-> "idle"]

TypeOK ==
  /\ accounts \subseteq Users
  /\ setup \in BOOLEAN
  /\ \A t \in Tokens :
       sessions[t] # None => sessions[t] \in Session /\ sessions[t].user \in accounts
  /\ \A s \in Sites, u \in Users :
       roles[s][u] # None => roles[s][u] \in Roles /\ u \in accounts
  /\ \A s \in Sites :
       appearance[s] \in Seq(Css)
  /\ \A d \in Docs :
       docs[d] # None => docs[d] \in Document /\ docs[d].published <= docs[d].revisions
  /\ Range(pins) \subseteq Docs

Init ==
  /\ accounts = {Admin}
  /\ setup = FALSE
  /\ sessions = [t \in Tokens |-> None]
  /\ roles = [s \in Sites |-> [u \in Users |->
                IF s = Primary /\ u = Admin THEN "owner" ELSE None]]
  /\ appearance = [s \in Sites |-> IF s = Primary THEN <<None>> ELSE <<>>]
  /\ categories = [c \in Categories |-> None]
  /\ docs = [d \in Docs |-> None]
  /\ comments = {}
  /\ pins = <<>>
  /\ writes = 0
  /\ reqs = [r \in Requests |-> Idle]

(***************************************************************************)
(* What the repository reads                                               *)
(***************************************************************************)
Exists(s) == appearance[s] # <<>>
Owns(u, s) == roles[s][u] = "owner"
Writes(u, s) == roles[s][u] # None
OwnedSites(u) == {s \in Sites : Owns(u, s)}
Published(d) == docs[d] # None /\ docs[d].published > 0

\* list_owned_sites or list_accessible_sites with limit 1.  An owned blog
\* comes first; which of several others comes is the order they were joined
\* in, which is left open.
AccessibleSites(u) ==
  IF OwnedSites(u) # {} \/ ~Collaboration THEN OwnedSites(u)
  ELSE {s \in Sites : Writes(u, s)}

\* get_session and the check of its method against this server.
Valid(t) == sessions[t] # None /\ sessions[t].alive
IsAdministrator(t) == sessions[t].method = "administrator"

(***************************************************************************)
(* Sessions                                                                *)
(***************************************************************************)
NewSession(t, u, method) ==
  /\ sessions[t] = None
  /\ sessions' = [sessions EXCEPT
                    ![t] = [user |-> u, method |-> method, alive |-> TRUE]]

\* register: the account is committed before its first session, and a
\* failure in between leaves an account that has to sign in.
Register(r, u) ==
  /\ reqs[r] = Idle
  /\ u \notin accounts
  /\ writes < MaxWrites
  /\ writes' = writes + 1
  /\ accounts' = accounts \cup {u}
  /\ reqs' = [reqs EXCEPT ![r] = [pc |-> "signing", user |-> u]]
  /\ UNCHANGED <<setup, sessions, roles, appearance, categories, docs,
                 comments, pins>>

\* login, up to the verified password.
Login(r, u) ==
  /\ reqs[r] = Idle
  /\ u \in accounts
  /\ reqs' = [reqs EXCEPT ![r] = [pc |-> "signing", user |-> u]]
  /\ UNCHANGED <<stored, writes, sessions>>

AuthenticatedResponse(r, t) ==
  /\ reqs[r].pc = "signing"
  /\ NewSession(t, reqs[r].user, "legacy")
  /\ reqs' = [reqs EXCEPT ![r] = Idle]
  /\ UNCHANGED <<stored, writes>>

AdministratorAuthenticatedResponse(t) ==
  /\ NewSession(t, Admin, "administrator")
  /\ UNCHANGED <<stored, writes, reqs>>

\* logout, the passing of expires_at, or a rotation of the control plane.
SessionEnds(t) ==
  /\ Valid(t)
  /\ sessions' = [sessions EXCEPT ![t].alive = FALSE]
  /\ UNCHANGED <<stored, writes, reqs>>

(***************************************************************************)
(* The steps before the mutation                                           *)
(***************************************************************************)
\* authenticated_user_guard: nothing of the body is read before it.
AuthenticatedUserGuard(r, t) ==
  /\ reqs[r] = Idle
  /\ Valid(t)
  /\ reqs' = [reqs EXCEPT ![r] = [pc |-> "guarded", token |-> t]]
  /\ UNCHANGED <<stored, writes, sessions>>

RequireUser(r) ==
  LET t == reqs[r].token
  IN /\ reqs[r].pc = "guarded"
     /\ Valid(t)
     /\ reqs' = [reqs EXCEPT ![r] = [pc |-> "user", token |-> t,
                                     user |-> sessions[t].user]]
     /\ UNCHANGED <<stored, writes, sessions>>
\* Mutant: the method of the session is not compared with the control plane.
RequireInstanceAdministratorAnyMethod(r) ==
  LET t == reqs[r].token
  IN /\ reqs[r].pc = "guarded"
     /\ Valid(t)
     /\ sessions[t].user = Admin
     /\ reqs' = [reqs EXCEPT ![r] = [pc |-> "administrator", token |-> t,
                                     user |-> Admin]]
     /\ UNCHANGED <<stored, writes, sessions>>

RequireInstanceAdministrator(r) ==
  LET t == reqs[r].token
  IN /\ reqs[r].pc = "guarded"
     /\ Valid(t)
     /\ sessions[t].user = Admin
     /\ IsAdministrator(t)
     /\ reqs' = [reqs EXCEPT ![r] = [pc |-> "administrator", token |-> t,
                                     user |-> Admin]]
     /\ UNCHANGED <<stored, writes, sessions>>

\* studio_access: the blog and the role that the handler goes on with are the
\* ones it read here.
StudioAccess(r) ==
  /\ reqs[r].pc = "user"
  /\ \E s \in AccessibleSites(reqs[r].user) :
       reqs' = [reqs EXCEPT ![r] =
                  [pc |-> "studio", user |-> reqs[r].user, site |-> s,
                   role |-> roles[s][reqs[r].user]]]
  /\ UNCHANGED <<stored, writes, sessions>>

\* begin_public_mutation: from here to the end of the handler the cache
\* knows that a public page may be changing.
BeginPublicMutation(r) ==
  /\ reqs[r].pc \in {"user", "studio", "administrator"}
  /\ reqs' = [reqs EXCEPT ![r].pc =
                CASE reqs[r].pc = "user" -> "user mutation"
                  [] reqs[r].pc = "studio" -> "studio mutation"
                  [] OTHER -> "administrator mutation"]
  /\ UNCHANGED <<stored, writes, sessions>>

\* The steps at which a handler holds the guard of the mutation it announced,
\* and the same steps of a task that has lost its handler.
GuardedSteps == {"user mutation", "studio mutation", "administrator mutation",
                 "no blog"}
DetachedSteps == {"user task", "studio task", "administrator task", "blog task"}

\* The client disconnects while the handler awaits repository_task: the handler
\* and its guard are dropped, and the blocking task runs on.
TaskDetached(r) ==
  /\ DropsAwaitedTask
  /\ reqs[r].pc \in GuardedSteps
  /\ reqs' = [reqs EXCEPT ![r].pc =
                CASE reqs[r].pc = "user mutation" -> "user task"
                  [] reqs[r].pc = "studio mutation" -> "studio task"
                  [] reqs[r].pc = "no blog" -> "blog task"
                  [] OTHER -> "administrator task"]
  /\ UNCHANGED <<stored, writes, sessions>>

\* A refusal, an error, or a client that disconnects before the operation is
\* handed to its task: nothing is written.
HandlerEnds(r) ==
  /\ reqs[r] # Idle
  /\ reqs' = [reqs EXCEPT ![r] = Idle]
  /\ UNCHANGED <<stored, writes, sessions>>

Finish(r) ==
  /\ writes < MaxWrites
  /\ writes' = writes + 1
  /\ reqs' = [reqs EXCEPT ![r] = Idle]
  /\ UNCHANGED sessions

\* owner_studio_access, and what the handler then calls.
OwnerStudioAccess(r) ==
  reqs[r].pc \in {"studio mutation", "studio task"} /\ reqs[r].role = "owner"

(***************************************************************************)
(* The repository's operations.  Each is one immediate transaction, and     *)
(* each asks for the actor's membership itself.                             *)
(***************************************************************************)
ExceptRoles == UNCHANGED <<accounts, setup, appearance, categories, docs,
                           comments, pins>>
ExceptAppearance == UNCHANGED <<accounts, setup, roles, categories, docs,
                                comments, pins>>
ExceptCategories == UNCHANGED <<accounts, setup, roles, appearance, docs,
                                comments, pins>>
ExceptDocs == UNCHANGED <<accounts, setup, roles, appearance, categories,
                          comments, pins>>
InSite(c, s) == categories[c] # None /\ categories[c].site = s
DocumentInSite(d, s) == docs[d] # None /\ docs[d].site = s
Admits(c, s) == IF c = None THEN TRUE ELSE InSite(c, s) /\ categories[c].active

\* append_site_appearance_revision.  The theme itself decides nothing here.
AppendAppearance(s, css) ==
  /\ Len(appearance[s]) < MaxAppearances
  /\ appearance' = [appearance EXCEPT ![s] = Append(@, css)]

CompletePrimaryOwnerSetup(u) ==
  /\ u = Admin
  /\ ~setup
  /\ Owns(u, Primary)
  /\ AppendAppearance(Primary, None)
  /\ setup' = TRUE
  /\ UNCHANGED <<accounts, roles, categories, docs, comments, pins>>
\* Mutant: create_site relies on the handler's look.
CreateSiteUnchecked(u, s) ==
  /\ ~Exists(s)
  /\ roles' = [roles EXCEPT ![s][u] = "owner"]
  /\ appearance' = [appearance EXCEPT ![s] = <<None>>]
  /\ UNCHANGED <<accounts, setup, categories, docs, comments, pins>>

CreateSite(u, s) ==
  /\ OwnedSites(u) = {}
  /\ ~Exists(s)
  /\ roles' = [roles EXCEPT ![s][u] = "owner"]
  /\ appearance' = [appearance EXCEPT ![s] = <<None>>]
  /\ UNCHANGED <<accounts, setup, categories, docs, comments, pins>>

ChangeSiteTheme(u, s) ==
  /\ Owns(u, s)
  /\ AppendAppearance(s, Last(appearance[s]))
  /\ ExceptAppearance

ChangeSiteAppearance(u, s, css) ==
  /\ Owns(u, s)
  /\ AppendAppearance(s, css)
  /\ ExceptAppearance

AddSiteCollaborator(u, s, member) ==
  /\ Owns(u, s)
  /\ member \in accounts
  /\ roles[s][member] = None
  /\ roles' = [roles EXCEPT ![s][member] = "member"]
  /\ ExceptRoles

RemoveSiteCollaborator(u, s, member) ==
  /\ Owns(u, s)
  /\ roles[s][member] = "member"
  /\ roles' = [roles EXCEPT ![s][member] = None]
  /\ ExceptRoles

\* A series is created with the category that carries it.
CreateCategory(u, s, c, series) ==
  /\ Owns(u, s)
  /\ categories[c] = None
  /\ categories' = [categories EXCEPT ![c] =
       [site |-> s, active |-> TRUE, series |-> series, edits |-> 0]]
  /\ ExceptCategories

PromoteCategoryToSeries(u, s, c) ==
  /\ Owns(u, s)
  /\ InSite(c, s)
  /\ categories[c].active
  /\ ~categories[c].series
  /\ categories' = [categories EXCEPT ![c].series = TRUE]
  /\ ExceptCategories

\* Titles, descriptions and themes: only that they change is kept.
UpdateCategory(u, s, c) ==
  /\ Owns(u, s)
  /\ InSite(c, s)
  /\ categories[c].edits = 0
  /\ categories' = [categories EXCEPT ![c].edits = 1]
  /\ ExceptCategories

UpdateSeries(u, s, c) ==
  /\ Owns(u, s)
  /\ InSite(c, s)
  /\ categories[c].series
  /\ categories[c].edits = 0
  /\ categories' = [categories EXCEPT ![c].edits = 1]
  /\ ExceptCategories

ArchiveCategory(u, s, c) ==
  /\ Owns(u, s)
  /\ InSite(c, s)
  /\ categories' = [categories EXCEPT ![c].active = FALSE]
  /\ ExceptCategories

ArchiveSeries(u, s, c) ==
  /\ Owns(u, s)
  /\ InSite(c, s)
  /\ categories[c].series
  /\ categories' = [categories EXCEPT ![c].active = FALSE]
  /\ ExceptCategories

CreateDocumentInWritableSite(u, s, d, c) ==
  /\ Writes(u, s)
  /\ docs[d] = None
  /\ Admits(c, s)
  /\ docs' = [docs EXCEPT ![d] = [site |-> s, revisions |-> 1, published |-> 0]]
  /\ ExceptDocs
\* Mutant: the role read by studio_access is trusted.
ReviseDocumentTrusting(u, s, d, c) ==
  /\ DocumentInSite(d, s)
  /\ docs[d].revisions < MaxRevisions
  /\ Admits(c, s)
  /\ docs' = [docs EXCEPT ![d].revisions = @ + 1]
  /\ ExceptDocs

ReviseDocumentInWritableSite(u, s, d, c) ==
  /\ Writes(u, s)
  /\ DocumentInSite(d, s)
  /\ docs[d].revisions < MaxRevisions
  /\ Admits(c, s)
  /\ docs' = [docs EXCEPT ![d].revisions = @ + 1]
  /\ ExceptDocs

PublishDocumentInOwnedSite(u, s, d, n) ==
  /\ Owns(u, s)
  /\ DocumentInSite(d, s)
  /\ n <= docs[d].revisions
  /\ docs' = [docs EXCEPT ![d].published = n]
  /\ ExceptDocs

CreateComment(u, d) ==
  /\ u \in accounts
  /\ Published(d)
  /\ comments' = comments \cup {[doc |-> d, by |-> u]}
  /\ UNCHANGED <<accounts, setup, roles, appearance, categories, docs, pins>>

ReplaceHomePins(u, ids) ==
  /\ Len(ids) <= 3 /\ IsInjective(ids)
  /\ u = Admin
  /\ \A d \in Range(ids) : Published(d)
  /\ pins' = ids
  /\ UNCHANGED <<accounts, setup, roles, appearance, categories, docs,
                 comments>>

(***************************************************************************)
(* The handlers                                                            *)
(***************************************************************************)
\* create_blog: the owner of the control plane finishes the setup first;
\* anybody else looks for a blog of theirs before create_site is called.
CreateBlogSetup(r) ==
  /\ reqs[r].pc \in {"user mutation", "user task"}
  /\ CompletePrimaryOwnerSetup(reqs[r].user)
  /\ Finish(r)

LookForBlog(r) ==
  /\ reqs[r].pc = "user mutation"
  /\ reqs[r].user = Admin => setup
  /\ OwnedSites(reqs[r].user) = {}
  /\ reqs' = [reqs EXCEPT ![r].pc = "no blog"]
  /\ UNCHANGED <<stored, writes, sessions>>

CreateBlog(r, s) ==
  /\ reqs[r].pc \in {"no blog", "blog task"}
  /\ CreateSite(reqs[r].user, s)
  /\ Finish(r)

\* update_studio_settings without a stylesheet in the body, and with one.
SaveTheme(r) ==
  /\ OwnerStudioAccess(r)
  /\ ChangeSiteTheme(reqs[r].user, reqs[r].site)
  /\ Finish(r)

UpdateStudioSettings(r, css) ==
  /\ OwnerStudioAccess(r)
  /\ ChangeSiteAppearance(reqs[r].user, reqs[r].site, css)
  /\ Finish(r)

\* Collaborators do not appear on public pages: no mutation is announced.
AddStudioCollaborator(r, member) ==
  /\ Collaboration
  /\ reqs[r].pc = "studio" /\ reqs[r].role = "owner"
  /\ AddSiteCollaborator(reqs[r].user, reqs[r].site, member)
  /\ Finish(r)

RemoveStudioCollaborator(r, member) ==
  /\ Collaboration
  /\ reqs[r].pc = "studio" /\ reqs[r].role = "owner"
  /\ RemoveSiteCollaborator(reqs[r].user, reqs[r].site, member)
  /\ Finish(r)

CreateStudioCategory(r, c) ==
  /\ OwnerStudioAccess(r)
  /\ CreateCategory(reqs[r].user, reqs[r].site, c, FALSE)
  /\ Finish(r)

CreateStudioSeries(r, c) ==
  /\ OwnerStudioAccess(r)
  /\ CreateCategory(reqs[r].user, reqs[r].site, c, TRUE)
  /\ Finish(r)

PromoteStudioCategoryToSeries(r, c) ==
  /\ OwnerStudioAccess(r)
  /\ PromoteCategoryToSeries(reqs[r].user, reqs[r].site, c)
  /\ Finish(r)

UpdateStudioCategory(r, c) ==
  /\ OwnerStudioAccess(r)
  /\ UpdateCategory(reqs[r].user, reqs[r].site, c)
  /\ Finish(r)

\* A new title and a new order of a series are the same to a reader.
UpdateStudioSeries(r, c) ==
  /\ OwnerStudioAccess(r)
  /\ UpdateSeries(reqs[r].user, reqs[r].site, c)
  /\ Finish(r)

ArchiveStudioCategory(r, c) ==
  /\ OwnerStudioAccess(r)
  /\ ArchiveCategory(reqs[r].user, reqs[r].site, c)
  /\ Finish(r)

ArchiveStudioSeries(r, c) ==
  /\ OwnerStudioAccess(r)
  /\ ArchiveSeries(reqs[r].user, reqs[r].site, c)
  /\ Finish(r)

\* Drafts are not public: writers and editors need no announcement.
CreateStudioDocument(r, d, c) ==
  /\ reqs[r].pc = "studio"
  /\ CreateDocumentInWritableSite(reqs[r].user, reqs[r].site, d, c)
  /\ Finish(r)

CreateStudioRevision(r, d, c) ==
  /\ reqs[r].pc = "studio"
  /\ ReviseDocumentInWritableSite(reqs[r].user, reqs[r].site, d, c)
  /\ Finish(r)

PublishStudioDocument(r, d, n) ==
  /\ OwnerStudioAccess(r)
  /\ PublishDocumentInOwnedSite(reqs[r].user, reqs[r].site, d, n)
  /\ Finish(r)
\* Mutant: the comment is not announced to the cache.
SubmitCommentQuietly(r, d) ==
  /\ reqs[r].pc = "user"
  /\ CreateComment(reqs[r].user, d)
  /\ Finish(r)

\* The handler of create_comment.
SubmitComment(r, d) ==
  /\ reqs[r].pc \in {"user mutation", "user task"}
  /\ CreateComment(reqs[r].user, d)
  /\ Finish(r)

\* The handler of replace_home_pins.
CurateHome(r, ids) ==
  /\ reqs[r].pc \in {"administrator mutation", "administrator task"}
  /\ ReplaceHomePins(reqs[r].user, ids)
  /\ Finish(r)

Next ==
  \/ \E t \in Tokens : \/ AdministratorAuthenticatedResponse(t)
                       \/ SessionEnds(t)
  \/ \E r \in Requests :
       \/ \E u \in Users : Register(r, u) \/ Login(r, u)
       \/ \E t \in Tokens : \/ AuthenticatedResponse(r, t)
                            \/ AuthenticatedUserGuard(r, t)
       \/ RequireUser(r)
       \/ RequireInstanceAdministrator(r)
       \/ StudioAccess(r)
       \/ BeginPublicMutation(r)
       \/ TaskDetached(r)
       \/ HandlerEnds(r)
       \/ LookForBlog(r)
       \/ CreateBlogSetup(r)
       \/ \E s \in Sites : CreateBlog(r, s)
       \/ SaveTheme(r)
       \/ \E css \in Css : UpdateStudioSettings(r, css)
       \/ \E u \in Users : \/ AddStudioCollaborator(r, u)
                           \/ RemoveStudioCollaborator(r, u)
       \/ \E c \in Categories : \/ CreateStudioCategory(r, c)
                                \/ CreateStudioSeries(r, c)
                                \/ PromoteStudioCategoryToSeries(r, c)
                                \/ UpdateStudioCategory(r, c)
                                \/ UpdateStudioSeries(r, c)
                                \/ ArchiveStudioCategory(r, c)
                                \/ ArchiveStudioSeries(r, c)
       \/ \E d \in Docs :
            \/ \E c \in Categories \cup {None} :
                 CreateStudioDocument(r, d, c) \/ CreateStudioRevision(r, d, c)
            \/ \E n \in 1 .. MaxRevisions : PublishStudioDocument(r, d, n)
            \/ SubmitComment(r, d)
       \/ \E ids \in SeqOf(Docs, 2) : CurateHome(r, ids)

Spec == Init /\ [][Next]_vars

(***************************************************************************)
(* Properties                                                              *)
(***************************************************************************)
\* Every blog has exactly one owner and an account owns at most one blog,
\* however many create_blog requests of one account run at once and whatever
\* collaborators are removed meanwhile.
OneOwner ==
  /\ \A s \in Sites : Exists(s) => Cardinality({u \in Users : Owns(u, s)}) = 1
  /\ \A u \in Users : Cardinality(OwnedSites(u)) <= 1

\* A document changes only through an account that is a member of its blog at
\* that moment, a blog's appearance and members only through its owner, and the
\* home page only on a token that was issued to an administrator.
AuthorisedStep ==
  /\ \A d \in Docs : docs'[d] # docs[d] =>
       \E r \in Requests : /\ reqs[r].pc \in {"studio", "studio mutation", "studio task"}
                           /\ reqs[r].site = docs'[d].site
                           /\ Writes(reqs[r].user, reqs[r].site)
  /\ \A s \in Sites :
       (appearance'[s] # appearance[s] \/ roles'[s] # roles[s]) /\ Exists(s)
         => \E r \in Requests : /\ "user" \in DOMAIN reqs[r]
                                /\ Owns(reqs[r].user, s)
  /\ pins' # pins =>
       \E r \in Requests : /\ reqs[r].pc \in {"administrator mutation", "administrator task"}
                           /\ IsAdministrator(reqs[r].token)

\* A membership that was revoked after the handler read it counts for nothing:
\* every change to a blog is made by an account that is a member, or the owner,
\* when it is made, and the owner's member session does not do for the home
\* page.  Of sessions it says nothing more: the code does not look at one again
\* after require_user or require_instance_administrator, so a request whose
\* session ends later is still carried out, by a live membership only.
AuthorisedWhenApplied == [][AuthorisedStep]_vars

\* What an anonymous reader can see.
PublicView == <<appearance, categories, comments, pins,
                {<<d, docs[d].published>> : d \in {x \in Docs : Published(x)}}>>
\* No public page changes before its handler has told the cache that it is about
\* to change one, and the guard is still held when the page changes; only where
\* a disconnect may drop a handler that awaits its task can the task of such a
\* handler commit after the guard is gone.
AnnouncedStep ==
  PublicView' # PublicView =>
    \E r \in Requests :
      /\ \/ reqs[r].pc \in GuardedSteps
         \/ DropsAwaitedTask /\ reqs[r].pc \in DetachedSteps
      /\ reqs'[r] = Idle
PublicChangesAnnounced == [][AnnouncedStep]_vars
==============================================================================
