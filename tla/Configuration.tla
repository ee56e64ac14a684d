---------------------------- MODULE Configuration ----------------------------
(***************************************************************************)
(* The three programs that each decide on their own whether a deployment   *)
(* makes sense: `osb bootstrap`, which checks the operator's choices and    *)
(* writes config.toml, .env and the lock; `osb doctor`, which reads them    *)
(* back; and the server, which resolves them once more when it starts.      *)
(*                                                                         *)
(* A setting is a key; config.toml and the environment are functions from   *)
(* keys to values, with Unset for a key that is absent (a blank variable    *)
(* counts as absent).  After bootstrap the operator may edit either.        *)
(***************************************************************************)
EXTENDS Naturals, FiniteSets

CONSTANTS Unset,          \* a setting that is absent
          Choices,        \* the bootstrap command lines that are tried
          EditedChoices,  \* those whose files the operator goes on to edit
          MaxEdits        \* how many settings are edited

VARIABLES choice,    \* the command line in use, or Unset
          file,      \* config.toml
          env,       \* .env
          lock,      \* osb.lock.json's selection and enabled add-ons
          controls,  \* the other files: references.md, osb.intent.json, CSS
          edits      \* settings edited since bootstrap

vars == <<choice, file, env, lock, controls, edits>>

\* A public address is judged by whether a secret may travel to it.
Urls == {"https", "loopback", "plain", "malformed"}
Intents == {"personal", "community", "delivery"}
Accounts == {"local", "oauth", "local_and_oauth", "disabled"}
Modules == {"access_key", "external", "disabled"}
Caches == {"none", "redis_standalone", "redis_managed"}
Styles == {"none", "builtin", "custom"}
Dlcs == {"seo", "comments", "rbac", "external_auth", "ai_summary",
         "home_curation", "code_runner"}

\* What the operator may write for a key, in the file or in the environment.
Values ==
  [schema        |-> {"v2", "v1"},
   intent        |-> Intents,
   bind          |-> {"any", "loopback", "malformed"},
   url           |-> Urls,
   article       |-> {"blog", "/blog", "references", "api"},
   auth          |-> Accounts,
   admin         |-> Modules,
   phc           |-> {"valid"},
   days          |-> {0, 30, 366},
   external      |-> {"valid", "incomplete"},
   registration  |-> BOOLEAN,
   comments      |-> BOOLEAN,
   collaboration |-> BOOLEAN,
   delivery      |-> BOOLEAN,
   features      |-> {{}, {"ai_summary"}, {"home_curation"}},
   redis         |-> BOOLEAN,
   topology      |-> {"standalone", "sentinel"},
   sentinels     |-> {0, 1},
   required      |-> BOOLEAN,
   css           |-> BOOLEAN,
   references    |-> BOOLEAN,
   retention     |-> {1, 2},
   runner        |-> {"valid", "invalid"},
   mcp           |-> {"token"},
   rotate        |-> BOOLEAN,
   legacyToken   |-> {"token"},
   digest        |-> {"lock", "other"},
   untracked     |-> BOOLEAN,
   style         |-> Styles,
   cache         |-> Caches,
   dlcs          |-> {{"seo"}, {"seo", "home_curation"}}]

\* A command line of `osb bootstrap` as clap hands it over.
CommandLines ==
  [intent : Intents, url : Urls, auth : Accounts \cup {Unset},
   admin : Modules \cup {Unset}, external : {"valid", "incomplete", Unset},
   comments : BOOLEAN \cup {Unset}, collaboration : BOOLEAN,
   registration : BOOLEAN, seo : BOOLEAN, dlcs : SUBSET (Dlcs \cup {"none"}),
   cache : Caches, style : Styles, copied : BOOLEAN]

ASSUME ChoicesAssumption ==
  /\ Choices \subseteq CommandLines
  /\ EditedChoices \subseteq Choices
  /\ MaxEdits \in Nat

\* Unset is no value of a setting and no command line.
ASSUME UnsetAssumption ==
  /\ Unset \notin Intents \cup Urls \cup Accounts \cup Modules \cup Caches
                 \cup Styles \cup {"any", "standalone", "sentinel"}
                 \cup {"valid", "invalid", "incomplete", "lock", "other"}
  /\ Unset \notin BOOLEAN /\ Unset \notin Nat
  /\ \A ds \in SUBSET Dlcs : ds # Unset
  /\ Unset \notin Choices

\* The ranges of a session's days and of the kept backup generations.
SessionDays == 1 .. 365
Retentions == 2 .. 10000

Keys == DOMAIN Values
\* config.toml holds no secrets and no installation contract.
EnvironmentOnly == {"phc", "mcp", "rotate", "digest", "untracked", "style",
                    "cache", "dlcs"}
\* No variable overrides the file's schema or stands in for its [runner].
FileOnly == {"schema", "runner"}
Nothing == [k \in Keys |-> Unset]

\* The digests in the handoff and in the lock pin the bytes bootstrap wrote;
\* an unusable file is missing, a symbolic link, too large or not text.
ControlValues ==
  [references |-> {"edited", "unusable"},
   handoff    |-> {"missing", "invalid"},
   css        |-> {"edited", "unusable"}]
Pinned == [f \in DOMAIN ControlValues |-> "pinned"]

(***************************************************************************)
(* bootstrap                                                               *)
(***************************************************************************)
LocalAccounts(auth) == auth \in {"local", "local_and_oauth"}
OauthAccounts(auth) == auth \in {"oauth", "local_and_oauth"}
SecretSafe(url) == url \in {"https", "loopback"}
Given(value, default) == IF value = Unset THEN default ELSE value

ChosenAuth(c) ==
  Given(c.auth, IF c.intent = "community" THEN "local" ELSE "disabled")
ChosenAdmin(c) ==
  Given(c.admin, IF c.intent = "delivery" THEN "disabled" ELSE "access_key")
ChosenComments(c) == Given(c.comments, c.intent = "community")

\* Add-ons that other choices ask for without naming them.
Implied(c) ==
  {d \in Dlcs : \/ d = "seo" /\ c.seo
                \/ d = "comments" /\ ChosenComments(c)
                \/ d = "rbac" /\ c.collaboration
                \/ d = "external_auth" /\ \/ OauthAccounts(ChosenAuth(c))
                                          \/ ChosenAdmin(c) = "external"}
Recommended(c) ==
  IF c.dlcs = {} /\ c.intent = "personal"
  THEN {"home_curation"} \cup (IF c.seo THEN {"seo"} ELSE {})
  ELSE {}
\* Mutant: "none" is taken whatever the other choices imply.
DlcsAcceptedAnyNone(c) == "seo" \in c.dlcs => c.seo

\* resolve_dlcs: "none" stands for itself and tolerates nothing implied
\* but seo, which it drops.
DlcsAccepted(c) ==
  IF "none" \in c.dlcs
  THEN c.dlcs = {"none"} /\ Implied(c) \subseteq {"seo"}
  ELSE "seo" \in c.dlcs => c.seo
ChosenDlcs(c) ==
  IF "none" \in c.dlcs THEN {} ELSE Recommended(c) \cup Implied(c) \cup c.dlcs

BootstrapAccepts(c) ==
  /\ c.url # "malformed"
  /\ ChosenAuth(c) # "oauth"
  /\ DlcsAccepted(c)
  /\ c.intent = "delivery" => /\ c.copied   \* --site-id, --content-release
                              /\ ChosenAuth(c) = "disabled"
                              /\ ChosenAdmin(c) = "disabled"
                              /\ ~ChosenComments(c)
                              /\ ~c.collaboration
                              /\ ~c.registration
  /\ (ChosenAdmin(c) = "external") <=> (c.external # Unset)
  /\ c.external # Unset => c.external = "valid"
  /\ ChosenAdmin(c) # "disabled" => SecretSafe(c.url)
  /\ c.registration => LocalAccounts(ChosenAuth(c))
  /\ c.collaboration => ChosenAuth(c) # "disabled"

Topology(cache) == IF cache = "redis_managed" THEN "sentinel" ELSE "standalone"

RenderConfig(c) ==
  [k \in Keys |->
    CASE k = "schema" -> "v2"
      [] k = "intent" -> c.intent
      [] k = "bind" -> "any"
      [] k = "url" -> c.url
      [] k = "article" -> "blog"
      [] k = "auth" -> ChosenAuth(c)
      [] k = "admin" -> ChosenAdmin(c)
      [] k = "days" -> 30
      [] k = "external" -> c.external
      [] k = "registration" -> c.registration
      [] k = "comments" -> ChosenComments(c)
      [] k = "collaboration" -> c.collaboration
      [] k = "delivery" -> c.intent = "delivery"
      [] k = "features" -> ChosenDlcs(c) \ {"home_curation"}
      [] k = "redis" -> c.cache # "none"
      [] k = "topology" -> Topology(c.cache)
      [] k = "sentinels" -> IF c.cache = "redis_managed" THEN 3 ELSE 0
      [] k = "required" -> c.cache # "none"
      [] k = "css" -> c.style = "custom"
      [] k = "references" -> TRUE
      [] k = "retention" -> 96
      [] OTHER -> Unset]

\* No features and no add-ons are written as "none" and as a blank value:
\* the first reads back as the empty set, the second as absent.
RenderEnv(c) ==
  [k \in Keys |->
    CASE k = "intent" -> c.intent
      [] k = "url" -> c.url
      [] k = "auth" -> ChosenAuth(c)
      [] k = "admin" -> ChosenAdmin(c)
      [] k = "phc" -> IF ChosenAdmin(c) = "access_key" THEN "valid" ELSE Unset
      [] k = "rotate" -> FALSE
      [] k = "registration" -> c.registration
      [] k = "comments" -> ChosenComments(c)
      [] k = "collaboration" -> c.collaboration
      [] k = "css" -> c.style = "custom"
      [] k = "delivery" -> c.intent = "delivery"
      [] k = "features" -> ChosenDlcs(c)
      [] k = "redis" -> c.cache # "none"
      [] k = "topology" -> Topology(c.cache)
      [] k = "required" -> c.cache # "none"
      [] k = "digest" -> "lock"
      [] k = "untracked" -> FALSE
      [] k = "style" -> c.style
      [] k = "cache" -> c.cache
      [] k = "dlcs" -> IF ChosenDlcs(c) = {} THEN Unset ELSE ChosenDlcs(c)
      [] OTHER -> Unset]

NewLock(c) == [admin |-> ChosenAdmin(c), cache |-> c.cache, style |-> c.style,
               dlcs |-> ChosenDlcs(c)]

Bootstrap(c) ==
  /\ BootstrapAccepts(c)
  /\ choice' = c
  /\ file' = RenderConfig(c)
  /\ env' = RenderEnv(c)
  /\ lock' = NewLock(c)
  /\ controls' = Pinned
  /\ UNCHANGED edits

(***************************************************************************)
(* The operator edits a setting.                                           *)
(***************************************************************************)
MayEdit == choice \in EditedChoices /\ edits < MaxEdits

EditEnv(k, v) ==
  /\ env' = [env EXCEPT ![k] = v]
  /\ edits' = edits + 1
  /\ UNCHANGED <<choice, file, lock, controls>>

EditFile(k, v) ==
  /\ file' = [file EXCEPT ![k] = v]
  /\ edits' = edits + 1
  /\ UNCHANGED <<choice, env, lock, controls>>

EditControl(f, v) ==
  /\ controls' = [controls EXCEPT ![f] = v]
  /\ edits' = edits + 1
  /\ UNCHANGED <<choice, file, env, lock>>

(***************************************************************************)
(* Reading the settings back                                               *)
(***************************************************************************)
\* A variable that is not blank wins over the file.
Override(e, k) == IF e[k] # Unset THEN e[k] ELSE file[k]

\* The provider's fields override one by one: a partial set of variables
\* completes or extends what the file holds.
Provider(e) ==
  IF "valid" \in {e.external, file.external} THEN "valid"
  ELSE Override(e, "external")

\* Both programs trim slashes before they look for a reserved first segment.
ReservedArticle(article, references) ==
  article = "api" \/ (article = "references" /\ references)

\* SeoPolicy::validate trims nothing and takes no empty segment.
ArticleWellFormed(article) == article # "/blog"

Tracking(digest, untracked, delivery) ==
  IF digest # Unset THEN "tracked"
  ELSE IF Given(untracked, FALSE) /\ ~delivery THEN "untracked" ELSE "refused"

(***************************************************************************)
(* doctor.  It runs in the container, where Compose has put the variables   *)
(* in the process environment and no .env lies beside the contract, or on   *)
(* the host with --env-file .env and none of them exported.                 *)
(***************************************************************************)
Places == {"container", "host"}
\* Mutant: OSB_REFERENCES_ENABLED is not among the overrides.
DoctorEnvWithoutReferences(place) ==
  IF place = "container" THEN [env EXCEPT !.references = Unset] ELSE Nothing

DoctorEnv(place) == IF place = "container" THEN env ELSE Nothing

\* The effective settings as doctor resolves them, its defaults included.
DoctorView(place) ==
  LET e == DoctorEnv(place)
      See(k, default) == Given(Override(e, k), default)
  IN [intent     |-> See("intent", "missing"),
      url        |-> See("url", "malformed"),
      article    |-> See("article", "blog"),
      auth       |-> See("auth", "missing"),
      admin      |-> See("admin", "missing"),
      days       |-> See("days", 30),
      external   |-> Provider(e),
      delivery   |-> See("delivery", FALSE),
      redis      |-> See("redis", TRUE),
      topology   |-> See("topology", "missing"),
      required   |-> See("required", FALSE),
      css        |-> See("css", FALSE),
      references |-> See("references", TRUE)]
\* Mutant: a stale access key beside another module goes unnoticed.
DoctorAdminAnyKey(v, phc) ==
  /\ CASE v.admin = "access_key" -> phc # Unset /\ v.external = Unset
       [] v.admin = "external" -> v.external = "valid"
       [] v.admin = "disabled" -> v.external = Unset
       [] OTHER -> FALSE
  /\ v.intent = "delivery" => v.admin = "disabled"
  /\ v.admin # "disabled" => SecretSafe(v.url)
  /\ v.days \in SessionDays

DoctorAdmin(v, phc) ==
  /\ CASE v.admin = "access_key" -> phc # Unset /\ v.external = Unset
       [] v.admin = "external" -> phc = Unset /\ v.external = "valid"
       [] v.admin = "disabled" -> phc = Unset /\ v.external = Unset
       [] OTHER -> FALSE
  /\ v.intent = "delivery" => v.admin = "disabled"
  /\ v.admin # "disabled" => SecretSafe(v.url)
  /\ v.days \in SessionDays

DoctorRedis(v) ==
  IF v.redis THEN v.required /\ v.topology # "missing" ELSE ~v.required

CheckSemantics(v, phc) ==
  /\ file.schema = "v2"
  /\ v.intent # "missing"
  /\ ~ReservedArticle(v.article, v.references)
  /\ (v.intent = "delivery") <=> v.delivery
  /\ DoctorRedis(v)
  /\ v.auth # "missing"
  /\ DoctorAdmin(v, phc)
  /\ v.url # "malformed"

\* The variables the contract must be remembered in, as this run reads them:
\* the file keeps a blank value, the process environment drops it.
Structural(place, k) ==
  IF env[k] # Unset THEN env[k]
  ELSE IF place = "host" /\ k = "dlcs" THEN {} ELSE Unset

StructuralRemembered(place) ==
  /\ Structural(place, "admin") = lock.admin
  /\ Structural(place, "style") = lock.style
  /\ Structural(place, "cache") = lock.cache
  /\ Structural(place, "dlcs") = lock.dlcs
  /\ Structural(place, "redis") = (lock.cache # "none")
  /\ Structural(place, "topology") = Topology(lock.cache)

EffectiveCache(redis, topology) ==
  IF ~redis THEN "none"
  ELSE IF topology = "sentinel" THEN "redis_managed" ELSE "redis_standalone"

CheckInstallationContract(place, v) ==
  CASE Tracking(env.digest, env.untracked, v.delivery) = "refused" -> FALSE
    [] Tracking(env.digest, env.untracked, v.delivery) = "untracked" -> TRUE
    [] OTHER ->
         /\ env.digest = "lock"
         /\ v.admin = lock.admin
         /\ EffectiveCache(v.redis, v.topology) = lock.cache
         /\ v.css = (lock.style = "custom")
         /\ v.css => controls.css = "pinned"
         /\ StructuralRemembered(place)

\* Without a handoff there is nothing to compare with, and only a warning.
CheckReferencesContract(v) ==
  \/ ~v.references
  \/ controls.handoff = "missing"
  \/ controls.handoff = "pinned" /\ controls.references = "pinned"

DoctorPasses(place) ==
  LET v == DoctorView(place)
  IN /\ CheckSemantics(v, DoctorEnv(place).phc)
     /\ v.css => controls.css # "unusable"
     /\ CheckReferencesContract(v)
     /\ CheckInstallationContract(place, v)

(***************************************************************************)
(* The server                                                              *)
(***************************************************************************)
ServerView ==
  LET See(k, default) == Given(Override(env, k), default)
      intent == See("intent", "personal")
      auth == See("auth", IF intent = "community" THEN "local" ELSE "disabled")
      comments == See("comments", intent = "community")
      bind == See("bind", "loopback")
  IN [intent        |-> intent,
      bind          |-> bind,
      url           |-> See("url", IF bind = "loopback" THEN "loopback" ELSE "plain"),
      article       |-> See("article", "blog"),
      auth          |-> auth,
      admin         |-> See("admin", IF intent # "delivery" /\ env.phc # Unset
                                     THEN "access_key" ELSE "disabled"),
      days          |-> See("days", 30),
      external      |-> Provider(env),
      registration  |-> See("registration", FALSE),
      comments      |-> comments,
      collaboration |-> See("collaboration", FALSE),
      delivery      |-> See("delivery", intent = "delivery"),
      features      |-> See("features", {"seo"}),
      redis         |-> See("redis", TRUE),
      topology      |-> See("topology", "standalone"),
      required      |-> See("required", TRUE),
      sentinels     |-> See("sentinels", 0),
      css           |-> See("css", FALSE),
      references    |-> See("references", TRUE),
      retention     |-> See("retention", 96),
      runner        |-> file.runner]

\* [features] of the file is a closed record without the newer add-ons.
FileParses == file.features # Unset => "home_curation" \notin file.features

\* The server reads whatever text lies there.
ReferencesResolve(v) == v.references => controls.references # "unusable"

AdminMaterial(v) ==
  CASE v.admin = "access_key" -> env.phc # Unset /\ v.external = Unset
    [] v.admin = "external" -> env.phc = Unset /\ v.external # Unset
    [] v.admin = "disabled" -> env.phc = Unset /\ v.external = Unset

BrowserSecretTransport(url, features) ==
  "ai_summary" \in features => SecretSafe(url)

RotationRequested == Given(env.rotate, FALSE)

\* A reading deployment has nobody who could sign in.
DeliveryResolves(v) ==
  /\ (v.intent = "delivery") <=> v.delivery
  /\ v.delivery => /\ v.auth = "disabled"
                   /\ v.admin = "disabled"
                   /\ ~RotationRequested

\* Registration, comments and collaborators need local accounts.
AccountsResolve(v) ==
  /\ ~v.delivery => v.auth # "oauth"
  /\ v.registration => LocalAccounts(v.auth)
  /\ ~v.delivery /\ (v.comments \/ v.collaboration) => LocalAccounts(v.auth)

McpTokenPolicy(v) == env.mcp # Unset => ~v.delivery /\ v.admin # "disabled"

RedisResolves(v) ==
  IF v.redis THEN v.topology = "sentinel" => v.sentinels > 0
  ELSE ~Given(env.required, FALSE)

RuntimeConfigLoads(v) ==
  /\ FileParses
  /\ ReferencesResolve(v)
  /\ v.bind # "malformed"
  /\ ~ReservedArticle(v.article, v.references)
  /\ Override(env, "legacyToken") = Unset
  /\ v.days \in SessionDays
  /\ v.external # "incomplete"
  /\ AdminMaterial(v)
  /\ v.admin # "disabled" => SecretSafe(v.url)
  /\ BrowserSecretTransport(v.url, v.features)
  /\ DeliveryResolves(v)
  /\ McpTokenPolicy(v)
  /\ AccountsResolve(v)
  /\ RedisResolves(v)
  /\ v.retention \in Retentions
  /\ v.runner # "invalid"

\* Add-ons the effective settings cannot do without.
ComposedDlcs(v) ==
  {d \in Dlcs : \/ d = "comments" /\ v.comments
                \/ d = "rbac" /\ v.collaboration
                \/ d = "external_auth" /\ \/ v.admin = "external"
                                          \/ OauthAccounts(v.auth)
                \/ d = "code_runner" /\ v.runner # Unset}

VerifyAdminAuth(v) == v.admin = lock.admin

VerifyCache(v) ==
  EffectiveCache(v.redis, v.topology) = lock.cache /\ env.cache = lock.cache

VerifyStyle(v) ==
  /\ env.style = lock.style
  /\ v.css = (lock.style = "custom")
  /\ v.css => controls.css = "pinned"

VerifyEnabledDlcs == Given(env.dlcs, {}) = lock.dlcs

InstallationLoads(v) ==
  CASE Tracking(env.digest, env.untracked, v.delivery) = "refused" -> FALSE
    [] Tracking(env.digest, env.untracked, v.delivery) = "untracked" -> TRUE
    [] OTHER ->
         /\ env.digest = "lock"
         /\ VerifyAdminAuth(v) /\ VerifyCache(v) /\ VerifyStyle(v)
         /\ VerifyEnabledDlcs
         /\ ComposedDlcs(v) \subseteq lock.dlcs

\* A tracked server runs what its lock enables, whatever the variable says.
ActiveFeatures(v) == IF env.digest # Unset THEN lock.dlcs ELSE v.features

\* main(), up to listening; Redis, SQLite and the blob store answer, and no
\* category stored there has the article path's or the references' name.
ServerStarts ==
  LET v == ServerView
  IN /\ RuntimeConfigLoads(v)
     /\ InstallationLoads(v)
     /\ v.url # "malformed" /\ ArticleWellFormed(v.article)
     /\ BrowserSecretTransport(v.url, ActiveFeatures(v))

Init ==
  /\ choice = Unset /\ file = Nothing /\ env = Nothing /\ lock = Unset
  /\ controls = Unset
  /\ edits = 0

Next ==
  \/ choice = Unset /\ \E c \in Choices : Bootstrap(c)
  \/ MayEdit /\ \E k \in Keys \ FileOnly :
                 \E v \in Values[k] \cup {Unset} : EditEnv(k, v)
  \/ MayEdit /\ \E k \in Keys \ EnvironmentOnly :
                 \E v \in Values[k] \cup {Unset} : EditFile(k, v)
  \/ MayEdit /\ \E f \in DOMAIN ControlValues :
                 \E v \in ControlValues[f] : EditControl(f, v)

Spec == Init /\ [][Next]_vars

(***************************************************************************)
(* Properties                                                              *)
(***************************************************************************)
Installed == choice # Unset
Untouched == Installed /\ edits = 0

\* The files are functions over the known settings, and there is a lock as
\* soon as there are files.
TypeOK ==
  /\ Installed => BootstrapAccepts(choice)
  /\ DOMAIN file = Keys /\ DOMAIN env = Keys
  /\ Installed => /\ lock.admin \in Modules /\ lock.cache \in Caches
                  /\ lock.style \in Styles /\ lock.dlcs \subseteq Dlcs
                  /\ DOMAIN controls = DOMAIN ControlValues
  /\ edits \in 0 .. MaxEdits

\* What only the server checks (config.rs 264-505, installation.rs, and the
\* policy of the seo feature on the article path).
ServerOnlyRules(v) ==
  /\ FileParses
  /\ v.bind # "malformed"
  /\ ArticleWellFormed(v.article)
  /\ controls.handoff = "missing" => ReferencesResolve(v)
  /\ Override(env, "legacyToken") = Unset
  /\ BrowserSecretTransport(v.url, v.features)
  /\ BrowserSecretTransport(v.url, ActiveFeatures(v))
  /\ McpTokenPolicy(v)
  /\ v.delivery => v.auth = "disabled" /\ ~RotationRequested
  /\ AccountsResolve(v)
  /\ v.redis /\ v.topology = "sentinel" => v.sentinels > 0
  /\ v.retention \in Retentions
  /\ v.runner # "invalid"
  /\ env.digest # Unset => ComposedDlcs(v) \subseteq lock.dlcs

\* The rules that doctor and the server state separately agree: where doctor
\* passes and the rules that only the server has hold, the server starts,
\* whatever the operator has edited (bootstrap.rs check_semantics and
\* verify_installation_contract; config.rs load; installation.rs load).
DoctorPredictsStart ==
  Installed /\ DoctorPasses("container") /\ ServerOnlyRules(ServerView)
    => ServerStarts

\* Doctor judges the settings the server would run with: once both accept,
\* their separately resolved views do not differ on any setting they share.
DoctorSeesWhatRuns ==
  Installed /\ DoctorPasses("container") /\ ServerStarts
    => \A k \in DOMAIN DoctorView("container") :
         \/ DoctorView("container")[k] = ServerView[k]
         \/ k \in {"topology", "required"} /\ ~ServerView.redis

\* What bootstrap wrote passes doctor inside the container, if it installed
\* any add-on, and starts, if its comments and collaborators have local
\* accounts and its summaries a safe address.
BootstrapWorks ==
  Untouched =>
    /\ lock.dlcs # {} => DoctorPasses("container")
    /\ /\ choice.collaboration \/ ChosenComments(choice)
            => LocalAccounts(ChosenAuth(choice))
       /\ BrowserSecretTransport(choice.url, lock.dlcs)
       => ServerStarts

\* As the documentation has it (docs/operations/CONFIGURATION.md:135), open
\* registration, comments and collaboration need local accounts: bootstrap
\* should write nothing the server then refuses for that.
BootstrapStarts == Untouched => ServerStarts

\* The documented checks of a fresh deployment pass: the printed command in
\* the container and `osb doctor --offline --env-file .env` on the host.
BootstrapPassesDoctor == Untouched => \A p \in Places : DoctorPasses(p)

\* The three programs agree on what is a working installation: what bootstrap
\* writes works, apart from the combinations it is known not to ask about, and
\* what doctor passes starts, whatever the operator has edited since.
ProgramsAgree == BootstrapWorks /\ DoctorPredictsStart
=============================================================================
