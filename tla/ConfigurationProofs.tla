------------------------- MODULE ConfigurationProofs -------------------------
(***************************************************************************)
(* What bootstrap, doctor and the server agree on, for every set of command *)
(* lines and any number of edits.                                           *)
(***************************************************************************)
EXTENDS Configuration, TLAPS

(***************************************************************************)
(* Command lines                                                           *)
(***************************************************************************)
LEMMA ChoiceTypes ==
  ASSUME NEW c \in CommandLines
  PROVE  /\ ChosenAuth(c) \in Accounts /\ ChosenAdmin(c) \in Modules
         /\ ChosenComments(c) \in BOOLEAN
         /\ ChosenDlcs(c) \subseteq Dlcs
<1>1. /\ c.auth \in Accounts \cup {Unset} /\ c.admin \in Modules \cup {Unset}
      /\ c.comments \in BOOLEAN \cup {Unset}
      /\ c.dlcs \subseteq Dlcs \cup {"none"}
  BY DEF CommandLines
<1>2. ChosenAuth(c) \in Accounts
  BY <1>1 DEF ChosenAuth, Given, Accounts
<1>3. ChosenAdmin(c) \in Modules
  BY <1>1 DEF ChosenAdmin, Given, Modules
<1>4. ChosenComments(c) \in BOOLEAN
  <2>1. (c.intent = "community") \in BOOLEAN
    OBVIOUS
  <2>. QED
    BY <1>1, <2>1 DEF ChosenComments, Given
<1>5. ChosenDlcs(c) \subseteq Dlcs
  <2>1. Implied(c) \subseteq Dlcs
    BY DEF Implied
  <2>2. Recommended(c) \subseteq Dlcs
    BY DEF Recommended, Dlcs
  <2>. QED
    BY <1>1, <2>1, <2>2 DEF ChosenDlcs
<1>. QED
  BY <1>2, <1>3, <1>4, <1>5

\* An add-on that the settings cannot do without is among the chosen ones.
LEMMA ImpliedChosen ==
  ASSUME NEW c, DlcsAccepted(c)
  PROVE  Implied(c) \ {"seo"} \subseteq ChosenDlcs(c)
<1>1. CASE "none" \in c.dlcs
  BY <1>1 DEF DlcsAccepted
<1>2. CASE "none" \notin c.dlcs
  BY <1>2 DEF ChosenDlcs
<1>. QED
  BY <1>1, <1>2
(***************************************************************************)
(* Doctor in the container and the server                                  *)
(***************************************************************************)
\* What doctor resolves in the container: the environment over the file.
LEMMA ContainerView ==
  ASSUME NEW v, v = DoctorView("container")
  PROVE  /\ v.intent = Given(Override(env, "intent"), "missing")
         /\ v.url = Given(Override(env, "url"), "malformed")
         /\ v.article = Given(Override(env, "article"), "blog")
         /\ v.auth = Given(Override(env, "auth"), "missing")
         /\ v.admin = Given(Override(env, "admin"), "missing")
         /\ v.days = Given(Override(env, "days"), 30)
         /\ v.external = Provider(env)
         /\ v.delivery = Given(Override(env, "delivery"), FALSE)
         /\ v.redis = Given(Override(env, "redis"), TRUE)
         /\ v.topology = Given(Override(env, "topology"), "missing")
         /\ v.required = Given(Override(env, "required"), FALSE)
         /\ v.css = Given(Override(env, "css"), FALSE)
         /\ v.references = Given(Override(env, "references"), TRUE)
<1>1. DoctorEnv("container") = env
  BY DEF DoctorEnv
<1>. QED
  BY <1>1 DEF DoctorView

\* What the server resolves, of the settings that doctor resolves too.
LEMMA ServedView ==
  ASSUME NEW s, s = ServerView
  PROVE  /\ s.intent = Given(Override(env, "intent"), "personal")
         /\ s.bind = Given(Override(env, "bind"), "loopback")
         /\ s.url = Given(Override(env, "url"),
                          IF s.bind = "loopback" THEN "loopback" ELSE "plain")
         /\ s.article = Given(Override(env, "article"), "blog")
         /\ s.auth = Given(Override(env, "auth"),
                           IF s.intent = "community" THEN "local"
                           ELSE "disabled")
         /\ s.admin = Given(Override(env, "admin"),
                            IF s.intent # "delivery" /\ env.phc # Unset
                            THEN "access_key" ELSE "disabled")
         /\ s.days = Given(Override(env, "days"), 30)
         /\ s.external = Provider(env)
         /\ s.delivery = Given(Override(env, "delivery"), s.intent = "delivery")
         /\ s.redis = Given(Override(env, "redis"), TRUE)
         /\ s.topology = Given(Override(env, "topology"), "standalone")
         /\ s.required = Given(Override(env, "required"), TRUE)
         /\ s.css = Given(Override(env, "css"), FALSE)
         /\ s.references = Given(Override(env, "references"), TRUE)
BY DEF ServerView

\* The rest of what the server resolves.
LEMMA ServedViewRest ==
  ASSUME NEW s, s = ServerView
  PROVE  /\ s.registration = Given(Override(env, "registration"), FALSE)
         /\ s.comments = Given(Override(env, "comments"), s.intent = "community")
         /\ s.collaboration = Given(Override(env, "collaboration"), FALSE)
         /\ s.features = Given(Override(env, "features"), {"seo"})
         /\ s.sentinels = Given(Override(env, "sentinels"), 0)
         /\ s.retention = Given(Override(env, "retention"), 96)
         /\ s.runner = file.runner
BY DEF ServerView

\* The two agree wherever doctor passes, although their defaults differ:
\* doctor has none for the intent, the address, the accounts, the module and
\* the topology, and another one for delivery and for a required Redis.
LEMMA ViewsCoincide ==
  ASSUME NEW v, v = DoctorView("container"), NEW s, s = ServerView, NEW phc,
         CheckSemantics(v, phc)
  PROVE  /\ v.intent = s.intent /\ v.url = s.url /\ v.article = s.article
         /\ v.auth = s.auth /\ v.admin = s.admin /\ v.days = s.days
         /\ v.external = s.external /\ v.delivery = s.delivery
         /\ v.redis = s.redis /\ v.css = s.css /\ v.references = s.references
         /\ s.redis => v.topology = s.topology /\ v.required = s.required
<1>. USE ContainerView, ServedView
<1>1. v.intent = s.intent /\ v.url = s.url /\ v.auth = s.auth
  BY DEF CheckSemantics, Given
<1>2. v.admin = s.admin
  <2>1. v.admin # "missing"
    BY DEF CheckSemantics, DoctorAdmin
  <2>. QED
    BY <2>1 DEF Given
<1>3. /\ v.article = s.article /\ v.days = s.days /\ v.external = s.external
      /\ v.redis = s.redis /\ v.css = s.css /\ v.references = s.references
  OBVIOUS
<1>4. v.delivery = s.delivery
  <2>1. (v.intent = "delivery") <=> v.delivery
    BY DEF CheckSemantics
  <2>2. CASE Override(env, "delivery") = Unset
    <3>1. v.delivery = FALSE /\ s.delivery = (s.intent = "delivery")
      BY <2>2 DEF Given
    <3>. QED
      BY <1>1, <2>1, <3>1
  <2>3. CASE Override(env, "delivery") # Unset
    BY <2>3 DEF Given
  <2>. QED
    BY <2>2, <2>3
<1>5. ASSUME s.redis
      PROVE  v.topology = s.topology /\ v.required = s.required
  <2>1. v.required /\ v.topology # "missing"
    BY <1>3, <1>5 DEF CheckSemantics, DoctorRedis
  <2>. QED
    BY <2>1 DEF Given
<1>. QED
  BY <1>1, <1>2, <1>3, <1>4, <1>5

\* What doctor has checked of the lock is what the server verifies.
LEMMA ContractCarriesOver ==
  ASSUME NEW v, v = DoctorView("container"), NEW s, s = ServerView, NEW phc,
         CheckSemantics(v, phc), CheckInstallationContract("container", v),
         lock.cache \in Caches, lock.style \in Styles, lock.dlcs \subseteq Dlcs,
         env.digest # Unset => ComposedDlcs(s) \subseteq lock.dlcs
  PROVE  InstallationLoads(s)
<1>1. /\ v.admin = s.admin /\ v.delivery = s.delivery /\ v.redis = s.redis
      /\ v.css = s.css
      /\ s.redis => v.topology = s.topology
  BY ViewsCoincide
<1>. DEFINE t == Tracking(env.digest, env.untracked, s.delivery)
<1>2. t = Tracking(env.digest, env.untracked, v.delivery)
  BY <1>1
<1>3. t \in {"tracked", "untracked", "refused"}
  BY DEF Tracking
<1>4. t = "tracked" => env.digest # Unset
  BY DEF Tracking
<1>. HIDE DEF t
<1>5. t # "refused"
  BY <1>2 DEF CheckInstallationContract
<1>6. CASE t = "untracked"
  BY <1>6 DEF InstallationLoads, t
<1>7. CASE t = "tracked"
  <2>1. /\ env.digest = "lock" /\ v.admin = lock.admin
        /\ EffectiveCache(v.redis, v.topology) = lock.cache
        /\ v.css = (lock.style = "custom")
        /\ v.css => controls.css = "pinned"
        /\ StructuralRemembered("container")
    BY <1>2, <1>7 DEF CheckInstallationContract
  <2>2. VerifyAdminAuth(s)
    BY <1>1, <2>1 DEF VerifyAdminAuth
  <2>3. env.cache = lock.cache /\ env.style = lock.style
    BY <2>1, UnsetAssumption DEF StructuralRemembered, Structural
  <2>4. Given(env.dlcs, {}) = lock.dlcs
    <3>1. lock.dlcs # Unset
      BY UnsetAssumption
    <3>. QED
      BY <2>1, <3>1 DEF StructuralRemembered, Structural, Given
  <2>5. EffectiveCache(s.redis, s.topology) = lock.cache
    <3>1. CASE s.redis
      BY <1>1, <2>1, <3>1
    <3>2. CASE ~s.redis
      BY <1>1, <2>1, <3>2 DEF EffectiveCache
    <3>. QED
      BY <3>1, <3>2
  <2>6. VerifyCache(s) /\ VerifyStyle(s) /\ VerifyEnabledDlcs
    BY <1>1, <2>1, <2>3, <2>4, <2>5
    DEF VerifyCache, VerifyStyle, VerifyEnabledDlcs
  <2>. QED
    BY <1>4, <1>7, <2>1, <2>2, <2>6 DEF InstallationLoads, t
<1>. QED
  BY <1>3, <1>5, <1>6, <1>7

\* What doctor has checked of the settings, with the rules that only the
\* server has, is all that the server asks of them.
LEMMA SettingsCarryOver ==
  ASSUME NEW v, v = DoctorView("container"), NEW s, s = ServerView,
         CheckSemantics(v, env.phc), CheckReferencesContract(v),
         ServerOnlyRules(s)
  PROVE  RuntimeConfigLoads(s)
<1>1. /\ v.intent = s.intent /\ v.url = s.url /\ v.article = s.article
      /\ v.auth = s.auth /\ v.admin = s.admin /\ v.days = s.days
      /\ v.external = s.external /\ v.delivery = s.delivery
      /\ v.redis = s.redis /\ v.references = s.references
  BY ViewsCoincide
<1>2. FileParses /\ Override(env, "legacyToken") = Unset
  BY DEF ServerOnlyRules
<1>3. ReferencesResolve(s)
  <2>1. controls.handoff = "missing" => ReferencesResolve(s)
    BY DEF ServerOnlyRules
  <2>2. ~v.references \/ controls.references = "pinned"
          \/ controls.handoff = "missing"
    BY DEF CheckReferencesContract
  <2>. QED
    BY <1>1, <2>1, <2>2 DEF ReferencesResolve
<1>4. /\ ~ReservedArticle(s.article, s.references) /\ s.days \in SessionDays
      /\ s.admin # "disabled" => SecretSafe(s.url)
  BY <1>1 DEF CheckSemantics, DoctorAdmin
<1>5. s.external # "incomplete" /\ AdminMaterial(s)
  <2>1. DoctorAdmin(v, env.phc)
    BY DEF CheckSemantics
  <2>2. v.admin \in {"access_key", "external", "disabled"}
    BY <2>1 DEF DoctorAdmin
  <2>3. Unset # "valid" /\ Unset # "incomplete"
    BY UnsetAssumption
  <2>4. CASE v.admin = "access_key"
    BY <1>1, <2>1, <2>3, <2>4 DEF DoctorAdmin, AdminMaterial
  <2>5. CASE v.admin = "external"
    BY <1>1, <2>1, <2>3, <2>5 DEF DoctorAdmin, AdminMaterial
  <2>6. CASE v.admin = "disabled"
    BY <1>1, <2>1, <2>3, <2>6 DEF DoctorAdmin, AdminMaterial
  <2>. QED
    BY <2>2, <2>4, <2>5, <2>6
<1>6. BrowserSecretTransport(s.url, s.features)
  BY DEF ServerOnlyRules
<1>7. DeliveryResolves(s)
  <2>1. (s.intent = "delivery") <=> s.delivery
    BY <1>1 DEF CheckSemantics
  <2>2. s.delivery => s.admin = "disabled"
    BY <1>1, <2>1 DEF CheckSemantics, DoctorAdmin
  <2>3. s.delivery => s.auth = "disabled" /\ ~RotationRequested
    BY DEF ServerOnlyRules
  <2>. QED
    BY <2>1, <2>2, <2>3 DEF DeliveryResolves
<1>9. /\ McpTokenPolicy(s) /\ AccountsResolve(s) /\ s.retention \in Retentions
      /\ s.bind # "malformed" /\ s.runner # "invalid"
  BY DEF ServerOnlyRules
<1>8. RedisResolves(s)
  <2>1. CASE s.redis
    BY <2>1 DEF ServerOnlyRules, RedisResolves
  <2>2. CASE ~s.redis
    <3>1. ~v.required /\ v.required = Given(Override(env, "required"), FALSE)
      BY <1>1, <2>2, ContainerView DEF CheckSemantics, DoctorRedis
    <3>. QED
      BY <2>2, <3>1 DEF RedisResolves, Given, Override
  <2>. QED
    BY <2>1, <2>2
<1>. QED
  BY <1>2, <1>3, <1>4, <1>5, <1>6, <1>7, <1>8, <1>9 DEF RuntimeConfigLoads

\* What doctor passes starts.
LEMMA PredictionHolds ==
  ASSUME TypeOK
  PROVE  DoctorPredictsStart
<1>. SUFFICES ASSUME Installed, DoctorPasses("container"),
                     ServerOnlyRules(ServerView)
              PROVE  ServerStarts
  BY DEF DoctorPredictsStart
<1>. DEFINE v == DoctorView("container")
            s == ServerView
<1>1. DoctorEnv("container") = env
  BY DEF DoctorEnv
<1>2. /\ CheckSemantics(v, env.phc) /\ CheckReferencesContract(v)
      /\ CheckInstallationContract("container", v)
  BY <1>1 DEF DoctorPasses
<1>. HIDE DEF v, s
<1>3. RuntimeConfigLoads(s)
  BY <1>2, SettingsCarryOver DEF v, s
<1>4. InstallationLoads(s)
  <2>1. env.digest # Unset => ComposedDlcs(s) \subseteq lock.dlcs
    BY DEF ServerOnlyRules, s
  <2>. QED
    BY <1>2, <2>1, ContractCarriesOver DEF v, s, TypeOK
<1>5. s.url # "malformed" /\ ArticleWellFormed(s.article)
  <2>1. v.url = s.url
    BY <1>2, ViewsCoincide DEF v, s
  <2>2. ArticleWellFormed(s.article)
    BY DEF ServerOnlyRules, s
  <2>. QED
    BY <1>2, <2>1, <2>2 DEF CheckSemantics
<1>6. BrowserSecretTransport(s.url, ActiveFeatures(s))
  BY DEF ServerOnlyRules, s
<1>. QED
  BY <1>3, <1>4, <1>5, <1>6 DEF ServerStarts, s

(***************************************************************************)
(* The invariant                                                           *)
(***************************************************************************)
\* Until the operator edits something, the files are what bootstrap wrote.
AsWritten ==
  Untouched => /\ file = RenderConfig(choice) /\ env = RenderEnv(choice)
               /\ lock = NewLock(choice) /\ controls = Pinned

ConfigurationInv ==
  TypeOK /\ AsWritten /\ (Installed => choice \in CommandLines)

LEMMA BootstrapKeeps ==
  ASSUME ConfigurationInv, choice = Unset, NEW c \in Choices, Bootstrap(c)
  PROVE  ConfigurationInv'
<1>1. c \in CommandLines /\ c # Unset /\ edits \in 0 .. MaxEdits
  BY ChoicesAssumption, UnsetAssumption DEF ConfigurationInv, TypeOK
<1>2. /\ choice' = c /\ BootstrapAccepts(c) /\ file' = RenderConfig(c)
      /\ env' = RenderEnv(c) /\ lock' = NewLock(c) /\ controls' = Pinned
      /\ edits' = edits
  BY DEF Bootstrap
<1>3. DOMAIN file' = Keys /\ DOMAIN env' = Keys
  BY <1>2 DEF RenderConfig, RenderEnv
<1>4. /\ lock'.admin \in Modules /\ lock'.cache \in Caches
      /\ lock'.style \in Styles /\ lock'.dlcs \subseteq Dlcs
  <2>1. c.cache \in Caches /\ c.style \in Styles
    BY <1>1 DEF CommandLines
  <2>. QED
    BY <1>1, <1>2, <2>1, ChoiceTypes DEF NewLock
<1>5. DOMAIN controls' = DOMAIN ControlValues
  BY <1>2 DEF Pinned
<1>6. TypeOK'
  BY <1>1, <1>2, <1>3, <1>4, <1>5 DEF TypeOK, Installed
<1>. QED
  BY <1>1, <1>2, <1>6 DEF ConfigurationInv, AsWritten, Installed

\* An edit leaves the choice and the lock alone and is counted.
LEMMA EditKeeps ==
  ASSUME ConfigurationInv, MayEdit, choice' = choice, lock' = lock,
         edits' = edits + 1, DOMAIN file' = DOMAIN file,
         DOMAIN env' = DOMAIN env, DOMAIN controls' = DOMAIN controls
  PROVE  ConfigurationInv'
<1>1. edits \in Nat /\ edits' \in 0 .. MaxEdits /\ edits' # 0
  BY ChoicesAssumption DEF ConfigurationInv, TypeOK, MayEdit
<1>2. TypeOK'
  BY <1>1 DEF ConfigurationInv, TypeOK, Installed
<1>. QED
  BY <1>1, <1>2 DEF ConfigurationInv, AsWritten, Untouched, Installed

\* The invariant of the three programs' files, for any number of edits.
THEOREM ConfigurationInvariant == Spec => []ConfigurationInv
<1>1. Init => ConfigurationInv
  <2>. SUFFICES ASSUME Init PROVE ConfigurationInv
    OBVIOUS
  <2>1. DOMAIN file = Keys /\ DOMAIN env = Keys /\ ~Installed /\ edits = 0
    BY DEF Init, Nothing, Installed
  <2>. QED
    BY <2>1, ChoicesAssumption DEF ConfigurationInv, TypeOK, AsWritten, Untouched
<1>2. ConfigurationInv /\ [Next]_vars => ConfigurationInv'
  <2>. SUFFICES ASSUME ConfigurationInv, [Next]_vars
                PROVE  ConfigurationInv'
    OBVIOUS
  <2>1. CASE choice = Unset /\ \E c \in Choices : Bootstrap(c)
    BY <2>1, BootstrapKeeps
  <2>2. CASE MayEdit /\ \E k \in Keys \ FileOnly :
                          \E v \in Values[k] \cup {Unset} : EditEnv(k, v)
    BY <2>2, EditKeeps DEF EditEnv
  <2>3. CASE MayEdit /\ \E k \in Keys \ EnvironmentOnly :
                          \E v \in Values[k] \cup {Unset} : EditFile(k, v)
    BY <2>3, EditKeeps DEF EditFile
  <2>4. CASE MayEdit /\ \E f \in DOMAIN ControlValues :
                          \E v \in ControlValues[f] : EditControl(f, v)
    BY <2>4, EditKeeps DEF EditControl
  <2>5. CASE UNCHANGED vars
    BY <2>5 DEF vars, ConfigurationInv, TypeOK, AsWritten, Untouched, Installed
  <2>. QED
    BY <2>1, <2>2, <2>3, <2>4, <2>5 DEF Next
<1>. QED
  BY <1>1, <1>2, PTL DEF Spec

\* The type invariant of the configuration module.
THEOREM ConfigurationTypes == Spec => []TypeOK
<1>1. ConfigurationInv => TypeOK
  BY DEF ConfigurationInv
<1>. QED
  BY <1>1, ConfigurationInvariant, PTL

(***************************************************************************)
(* What bootstrap wrote                                                    *)
(***************************************************************************)
LEMMA KeyNames ==
  Keys = {"schema", "intent", "bind", "runner", "url", "article", "auth", "admin", "phc", "days",
          "external", "registration", "comments", "collaboration", "delivery",
          "features", "redis", "topology", "sentinels", "required", "css",
          "references", "retention", "mcp", "rotate", "legacyToken", "digest",
          "untracked", "style", "cache", "dlcs"}
BY DEF Keys, Values

LEMMA RenderedFile ==
  ASSUME NEW c, file = RenderConfig(c)
  PROVE  /\ file.schema = "v2" /\ file.article = "blog" /\ file.days = 30
         /\ file.external = c.external
         /\ file.features = ChosenDlcs(c) \ {"home_curation"}
         /\ file.sentinels = IF c.cache = "redis_managed" THEN 3 ELSE 0
         /\ file.references = TRUE /\ file.retention = 96
         /\ file.legacyToken = Unset /\ file.bind = "any" /\ file.runner = Unset
BY KeyNames DEF RenderConfig

LEMMA RenderedEnv ==
  ASSUME NEW c, env = RenderEnv(c)
  PROVE  /\ env.intent = c.intent /\ env.url = c.url
         /\ env.auth = ChosenAuth(c) /\ env.admin = ChosenAdmin(c)
         /\ env.phc = IF ChosenAdmin(c) = "access_key" THEN "valid" ELSE Unset
         /\ env.rotate = FALSE /\ env.registration = c.registration
         /\ env.comments = ChosenComments(c)
         /\ env.collaboration = c.collaboration
         /\ env.css = (c.style = "custom")
         /\ env.delivery = (c.intent = "delivery")
         /\ env.features = ChosenDlcs(c)
         /\ env.redis = (c.cache # "none") /\ env.topology = Topology(c.cache)
         /\ env.required = (c.cache # "none")
         /\ env.digest = "lock" /\ env.untracked = FALSE
         /\ env.style = c.style /\ env.cache = c.cache
         /\ env.dlcs = IF ChosenDlcs(c) = {} THEN Unset ELSE ChosenDlcs(c)
         /\ env.article = Unset /\ env.days = Unset /\ env.external = Unset
         /\ env.sentinels = Unset /\ env.references = Unset
         /\ env.retention = Unset /\ env.mcp = Unset /\ env.legacyToken = Unset
         /\ env.bind = Unset
<1>1. /\ env.intent = c.intent /\ env.url = c.url
      /\ env.auth = ChosenAuth(c) /\ env.admin = ChosenAdmin(c)
      /\ env.phc = IF ChosenAdmin(c) = "access_key" THEN "valid" ELSE Unset
      /\ env.rotate = FALSE /\ env.registration = c.registration
  BY KeyNames DEF RenderEnv
<1>2. /\ env.comments = ChosenComments(c)
      /\ env.collaboration = c.collaboration
      /\ env.css = (c.style = "custom")
      /\ env.delivery = (c.intent = "delivery")
      /\ env.features = ChosenDlcs(c)
  BY KeyNames DEF RenderEnv
<1>3. /\ env.redis = (c.cache # "none") /\ env.topology = Topology(c.cache)
      /\ env.required = (c.cache # "none")
      /\ env.digest = "lock" /\ env.untracked = FALSE
      /\ env.style = c.style /\ env.cache = c.cache
      /\ env.dlcs = IF ChosenDlcs(c) = {} THEN Unset ELSE ChosenDlcs(c)
  BY KeyNames DEF RenderEnv
<1>4. /\ env.article = Unset /\ env.days = Unset /\ env.external = Unset
      /\ env.sentinels = Unset /\ env.references = Unset
      /\ env.retention = Unset /\ env.mcp = Unset /\ env.legacyToken = Unset
      /\ env.bind = Unset
  BY KeyNames DEF RenderEnv
<1>. QED
  BY <1>1, <1>2, <1>3, <1>4

\* Every setting that bootstrap writes is present, so no default applies.
LEMMA RenderedSettings ==
  ASSUME NEW c \in CommandLines, file = RenderConfig(c), env = RenderEnv(c),
         NEW d
  PROVE  /\ Given(Override(env, "intent"), d) = c.intent
         /\ Given(Override(env, "url"), d) = c.url
         /\ Given(Override(env, "auth"), d) = ChosenAuth(c)
         /\ Given(Override(env, "admin"), d) = ChosenAdmin(c)
         /\ Given(Override(env, "registration"), d) = c.registration
         /\ Given(Override(env, "comments"), d) = ChosenComments(c)
         /\ Given(Override(env, "collaboration"), d) = c.collaboration
         /\ Given(Override(env, "delivery"), d) = (c.intent = "delivery")
         /\ Given(Override(env, "features"), d) = ChosenDlcs(c)
         /\ Given(Override(env, "redis"), d) = (c.cache # "none")
         /\ Given(Override(env, "topology"), d) = Topology(c.cache)
         /\ Given(Override(env, "required"), d) = (c.cache # "none")
         /\ Given(Override(env, "css"), d) = (c.style = "custom")
<1>1. /\ c.intent # Unset /\ c.url # Unset
      /\ c.registration # Unset /\ c.collaboration # Unset
  BY UnsetAssumption DEF CommandLines
<1>2. /\ ChosenAuth(c) # Unset /\ ChosenAdmin(c) # Unset
      /\ ChosenComments(c) # Unset /\ ChosenDlcs(c) # Unset
  BY ChoiceTypes, UnsetAssumption
<1>3. /\ (c.intent = "delivery") # Unset /\ (c.cache # "none") # Unset
      /\ (c.style = "custom") # Unset
  <2>1. /\ (c.intent = "delivery") \in BOOLEAN
        /\ (c.cache # "none") \in BOOLEAN /\ (c.style = "custom") \in BOOLEAN
    OBVIOUS
  <2>. QED
    BY <2>1, UnsetAssumption
<1>4. Topology(c.cache) # Unset
  BY UnsetAssumption DEF Topology
<1>5. \A k : env[k] # Unset => Given(Override(env, k), d) = env[k]
  BY DEF Given, Override
<1>6. /\ Given(Override(env, "intent"), d) = c.intent
      /\ Given(Override(env, "url"), d) = c.url
      /\ Given(Override(env, "registration"), d) = c.registration
      /\ Given(Override(env, "collaboration"), d) = c.collaboration
  BY <1>1, <1>5, RenderedEnv
<1>7. /\ Given(Override(env, "auth"), d) = ChosenAuth(c)
      /\ Given(Override(env, "admin"), d) = ChosenAdmin(c)
      /\ Given(Override(env, "comments"), d) = ChosenComments(c)
      /\ Given(Override(env, "features"), d) = ChosenDlcs(c)
  BY <1>2, <1>5, RenderedEnv
<1>8. Given(Override(env, "delivery"), d) = (c.intent = "delivery")
  BY <1>3, <1>5, RenderedEnv
<1>9. /\ Given(Override(env, "redis"), d) = (c.cache # "none")
      /\ Given(Override(env, "required"), d) = (c.cache # "none")
  BY <1>3, <1>5, RenderedEnv
<1>10. Given(Override(env, "css"), d) = (c.style = "custom")
  BY <1>3, <1>5, RenderedEnv
<1>11. Given(Override(env, "topology"), d) = Topology(c.cache)
  BY <1>4, <1>5, RenderedEnv
<1>. QED
  BY <1>6, <1>7, <1>8, <1>9, <1>10, <1>11

\* The settings that only the file has, or that neither has.
LEMMA RenderedDefaults ==
  ASSUME NEW c \in CommandLines, file = RenderConfig(c), env = RenderEnv(c)
  PROVE  /\ Given(Override(env, "article"), "blog") = "blog"
         /\ Given(Override(env, "days"), 30) = 30
         /\ Given(Override(env, "references"), TRUE) = TRUE
         /\ Given(Override(env, "retention"), 96) = 96
         /\ c.cache = "redis_managed"
              => Given(Override(env, "sentinels"), 0) = 3
         /\ Override(env, "legacyToken") = Unset
         /\ Given(Override(env, "bind"), "loopback") = "any"
         /\ c.external \in {"valid", Unset} => Provider(env) = c.external
<1>1. /\ Override(env, "article") = "blog" /\ Override(env, "days") = 30
      /\ Override(env, "references") = TRUE /\ Override(env, "retention") = 96
      /\ Override(env, "legacyToken") = Unset
      /\ Override(env, "external") = c.external
  BY RenderedFile, RenderedEnv DEF Override
<1>2. c.cache = "redis_managed" => Override(env, "sentinels") = 3
  BY RenderedFile, RenderedEnv DEF Override
<1>3. Unset # 3
  BY UnsetAssumption
<1>5. Override(env, "bind") = "any" /\ Unset # "any"
  BY UnsetAssumption, RenderedFile, RenderedEnv DEF Override
<1>4. c.external \in {"valid", Unset} => Provider(env) = c.external
  <2>1. env.external = Unset /\ file.external = c.external
    BY RenderedFile, RenderedEnv
  <2>. QED
    BY <1>1, <2>1 DEF Provider
<1>. QED
  BY <1>1, <1>2, <1>3, <1>4, <1>5 DEF Given

\* What doctor makes in the container of the files that bootstrap wrote.
LEMMA FreshView ==
  ASSUME NEW c \in CommandLines, file = RenderConfig(c), env = RenderEnv(c),
         NEW v, v = DoctorView("container")
  PROVE  /\ v.intent = c.intent /\ v.url = c.url /\ v.auth = ChosenAuth(c)
         /\ v.admin = ChosenAdmin(c) /\ v.delivery = (c.intent = "delivery")
         /\ v.redis = (c.cache # "none") /\ v.topology = Topology(c.cache)
         /\ v.required = (c.cache # "none") /\ v.css = (c.style = "custom")
<1>1. /\ v.intent = c.intent /\ v.url = c.url /\ v.auth = ChosenAuth(c)
      /\ v.admin = ChosenAdmin(c) /\ v.topology = Topology(c.cache)
  <2>1. \A d : /\ Given(Override(env, "intent"), d) = c.intent
               /\ Given(Override(env, "url"), d) = c.url
               /\ Given(Override(env, "auth"), d) = ChosenAuth(c)
               /\ Given(Override(env, "admin"), d) = ChosenAdmin(c)
               /\ Given(Override(env, "topology"), d) = Topology(c.cache)
    BY RenderedSettings
  <2>. QED
    BY <2>1, ContainerView
<1>2. v.delivery = (c.intent = "delivery")
  <2>1. v.delivery = Given(Override(env, "delivery"), FALSE)
    BY ContainerView
  <2>2. \A d : Given(Override(env, "delivery"), d) = (c.intent = "delivery")
    BY RenderedSettings
  <2>. QED
    BY <2>1, <2>2
<1>3. v.redis = (c.cache # "none")
  <2>1. v.redis = Given(Override(env, "redis"), TRUE)
    BY ContainerView
  <2>2. \A d : Given(Override(env, "redis"), d) = (c.cache # "none")
    BY RenderedSettings
  <2>. QED
    BY <2>1, <2>2
<1>4. v.required = (c.cache # "none")
  <2>1. v.required = Given(Override(env, "required"), FALSE)
    BY ContainerView
  <2>2. \A d : Given(Override(env, "required"), d) = (c.cache # "none")
    BY RenderedSettings
  <2>. QED
    BY <2>1, <2>2
<1>5. v.css = (c.style = "custom")
  <2>1. v.css = Given(Override(env, "css"), FALSE)
    BY ContainerView
  <2>2. \A d : Given(Override(env, "css"), d) = (c.style = "custom")
    BY RenderedSettings
  <2>. QED
    BY <2>1, <2>2
<1>. QED
  BY <1>1, <1>2, <1>3, <1>4, <1>5

\* What bootstrap accepted passes doctor's checks of the settings.
LEMMA FreshSettingsPass ==
  ASSUME NEW c \in CommandLines, BootstrapAccepts(c), file = RenderConfig(c),
         env = RenderEnv(c), NEW v, v = DoctorView("container")
  PROVE  CheckSemantics(v, env.phc)
<1>1. /\ v.intent = c.intent /\ v.url = c.url /\ v.auth = ChosenAuth(c)
      /\ v.admin = ChosenAdmin(c) /\ v.delivery = (c.intent = "delivery")
      /\ v.redis = (c.cache # "none") /\ v.topology = Topology(c.cache)
      /\ v.required = (c.cache # "none")
  BY FreshView
<1>2. /\ v.article = "blog" /\ v.days = 30 /\ v.references = TRUE
      /\ v.external = c.external
  BY ContainerView, RenderedDefaults DEF BootstrapAccepts
<1>3. /\ c.intent \in Intents /\ ChosenAuth(c) \in Accounts
      /\ ChosenAdmin(c) \in Modules
  BY ChoiceTypes DEF CommandLines
<1>4. file.schema = "v2"
  BY RenderedFile
<1>5. v.intent # "missing" /\ v.auth # "missing" /\ v.url # "malformed"
  BY <1>1, <1>3 DEF Intents, Accounts, BootstrapAccepts
<1>6. ~ReservedArticle(v.article, v.references)
  BY <1>2 DEF ReservedArticle
<1>7. DoctorRedis(v)
  BY <1>1 DEF DoctorRedis, Topology
<1>8. DoctorAdmin(v, env.phc)
  <2>1. env.phc = IF ChosenAdmin(c) = "access_key" THEN "valid" ELSE Unset
    BY RenderedEnv
  <2>2. /\ (ChosenAdmin(c) = "external") <=> (c.external # Unset)
        /\ c.external # Unset => c.external = "valid"
        /\ c.intent = "delivery" => ChosenAdmin(c) = "disabled"
        /\ ChosenAdmin(c) # "disabled" => SecretSafe(c.url)
    BY DEF BootstrapAccepts
  <2>3. /\ v.intent = "delivery" => v.admin = "disabled"
        /\ v.admin # "disabled" => SecretSafe(v.url)
        /\ v.days \in SessionDays
    BY <1>1, <1>2, <2>2 DEF SessionDays
  <2>4. "valid" # Unset
    BY UnsetAssumption
  <2>5. CASE v.admin = "access_key"
    BY <1>1, <1>2, <2>1, <2>2, <2>3, <2>4, <2>5 DEF DoctorAdmin
  <2>6. CASE v.admin = "external"
    BY <1>1, <1>2, <2>1, <2>2, <2>3, <2>6 DEF DoctorAdmin
  <2>7. CASE v.admin = "disabled"
    BY <1>1, <1>2, <2>1, <2>2, <2>3, <2>7 DEF DoctorAdmin
  <2>. QED
    BY <1>1, <1>3, <2>5, <2>6, <2>7 DEF Modules
<1>. QED
  BY <1>1, <1>4, <1>5, <1>6, <1>7, <1>8 DEF CheckSemantics

\* The lock that bootstrap wrote names the settings it wrote.
LEMMA FreshLock ==
  ASSUME NEW c \in CommandLines, lock = NewLock(c)
  PROVE  /\ lock.admin = ChosenAdmin(c) /\ lock.cache = c.cache
         /\ lock.style = c.style /\ lock.dlcs = ChosenDlcs(c)
         /\ EffectiveCache(c.cache # "none", Topology(c.cache)) = c.cache
<1>1. c.cache \in Caches
  BY DEF CommandLines
<1>. QED
  BY <1>1 DEF NewLock, EffectiveCache, Topology, Caches

\* Nothing was edited: the files still have the digests in the lock.
LEMMA FreshControls ==
  ASSUME controls = Pinned
  PROVE  /\ controls.css = "pinned" /\ controls.references = "pinned"
         /\ controls.handoff = "pinned"
BY DEF Pinned, ControlValues

\* With any add-on installed, the environment remembers the whole contract.
LEMMA FreshContractPasses ==
  ASSUME NEW c \in CommandLines, file = RenderConfig(c), env = RenderEnv(c),
         lock = NewLock(c), controls = Pinned, ChosenDlcs(c) # {},
         NEW v, v = DoctorView("container")
  PROVE  CheckInstallationContract("container", v)
<1>1. /\ v.admin = ChosenAdmin(c) /\ v.redis = (c.cache # "none")
      /\ v.topology = Topology(c.cache) /\ v.css = (c.style = "custom")
  BY FreshView
<1>2. /\ env.digest = "lock" /\ env.admin = ChosenAdmin(c)
      /\ env.style = c.style /\ env.cache = c.cache
      /\ env.dlcs = ChosenDlcs(c) /\ env.redis = (c.cache # "none")
      /\ env.topology = Topology(c.cache)
  BY RenderedEnv
<1>3. "lock" # Unset
  BY UnsetAssumption
<1>4. Tracking(env.digest, env.untracked, v.delivery) = "tracked"
  BY <1>2, <1>3 DEF Tracking
<1>5. /\ c.style # Unset /\ c.cache # Unset /\ ChosenAdmin(c) # Unset
      /\ ChosenDlcs(c) # Unset
  <2>1. c.style \in Styles /\ c.cache \in Caches
    BY DEF CommandLines
  <2>. QED
    BY <2>1, ChoiceTypes, UnsetAssumption
<1>6. (c.cache # "none") # Unset /\ Topology(c.cache) # Unset
  <2>1. (c.cache # "none") \in BOOLEAN
    OBVIOUS
  <2>. QED
    BY <2>1, UnsetAssumption DEF Topology
<1>7. /\ Structural("container", "admin") = lock.admin
      /\ Structural("container", "style") = lock.style
      /\ Structural("container", "cache") = lock.cache
      /\ Structural("container", "dlcs") = lock.dlcs
  BY <1>2, <1>5, FreshLock DEF Structural
<1>8. Structural("container", "redis") = (lock.cache # "none")
  BY <1>2, <1>6, FreshLock DEF Structural
<1>9. Structural("container", "topology") = Topology(lock.cache)
  BY <1>2, <1>6, FreshLock DEF Structural
<1>10. StructuralRemembered("container")
  BY <1>7, <1>8, <1>9 DEF StructuralRemembered
<1>. QED
  BY <1>1, <1>2, <1>4, <1>10, FreshLock, FreshControls
  DEF CheckInstallationContract

\* What the server makes of the files that bootstrap wrote.
LEMMA FreshServed ==
  ASSUME NEW c \in CommandLines, BootstrapAccepts(c), file = RenderConfig(c),
         env = RenderEnv(c), NEW s, s = ServerView
  PROVE  /\ s.registration = c.registration
         /\ s.comments = ChosenComments(c)
         /\ s.collaboration = c.collaboration
         /\ s.features = ChosenDlcs(c)
         /\ s.retention = 96
         /\ c.cache = "redis_managed" => s.sentinels = 3
         /\ s.article = "blog" /\ s.bind = "any" /\ s.runner = Unset
<1>1. \A d : /\ Given(Override(env, "registration"), d) = c.registration
             /\ Given(Override(env, "comments"), d) = ChosenComments(c)
             /\ Given(Override(env, "collaboration"), d) = c.collaboration
             /\ Given(Override(env, "features"), d) = ChosenDlcs(c)
  BY RenderedSettings
<1>2. /\ s.registration = c.registration
      /\ s.collaboration = c.collaboration
      /\ s.features = ChosenDlcs(c)
  BY <1>1, ServedViewRest
<1>3. s.comments = ChosenComments(c)
  <2>1. s.comments = Given(Override(env, "comments"), s.intent = "community")
    BY ServedViewRest
  <2>. QED
    BY <1>1, <2>1
<1>4. s.retention = 96 /\ (c.cache = "redis_managed" => s.sentinels = 3)
  BY ServedViewRest, RenderedDefaults
<1>5. s.article = "blog" /\ s.bind = "any" /\ s.runner = Unset
  BY ServedView, ServedViewRest, RenderedDefaults, RenderedFile
<1>. QED
  BY <1>2, <1>3, <1>4, <1>5

\* What bootstrap accepted meets the rules that only the server has, where
\* comments and collaborators have local accounts and the summaries a safe
\* address.
LEMMA FreshServerRules ==
  ASSUME NEW c \in CommandLines, BootstrapAccepts(c), file = RenderConfig(c),
         env = RenderEnv(c), lock = NewLock(c), controls = Pinned,
         c.collaboration \/ ChosenComments(c) => LocalAccounts(ChosenAuth(c)),
         BrowserSecretTransport(c.url, lock.dlcs),
         NEW s, s = ServerView
  PROVE  ServerOnlyRules(s)
<1>. DEFINE v == DoctorView("container")
<1>1. CheckSemantics(v, env.phc)
  BY FreshSettingsPass
<1>2. /\ v.intent = c.intent /\ v.url = c.url /\ v.auth = ChosenAuth(c)
      /\ v.admin = ChosenAdmin(c) /\ v.delivery = (c.intent = "delivery")
      /\ v.redis = (c.cache # "none") /\ v.topology = Topology(c.cache)
  BY FreshView
<1>. HIDE DEF v
<1>3. /\ s.intent = c.intent /\ s.url = c.url /\ s.auth = ChosenAuth(c)
      /\ s.admin = ChosenAdmin(c) /\ s.delivery = (c.intent = "delivery")
      /\ s.redis => s.topology = Topology(c.cache)
  <2>1. /\ v.intent = s.intent /\ v.url = s.url /\ v.auth = s.auth
        /\ v.admin = s.admin /\ v.delivery = s.delivery
        /\ s.redis => v.topology = s.topology
    BY <1>1, ViewsCoincide DEF v
  <2>. QED
    BY <1>2, <2>1
<1>4. /\ s.registration = c.registration /\ s.comments = ChosenComments(c)
      /\ s.collaboration = c.collaboration /\ s.features = ChosenDlcs(c)
      /\ s.retention = 96
      /\ c.cache = "redis_managed" => s.sentinels = 3
      /\ s.article = "blog" /\ s.bind = "any" /\ s.runner = Unset
  BY FreshServed
<1>5. lock.dlcs = ChosenDlcs(c)
  BY FreshLock
<1>6. FileParses
  BY RenderedFile DEF FileParses
<1>7. ReferencesResolve(s)
  BY FreshControls DEF ReferencesResolve
<1>8. Override(env, "legacyToken") = Unset
  BY RenderedDefaults
<1>9. /\ BrowserSecretTransport(s.url, s.features)
      /\ BrowserSecretTransport(s.url, ActiveFeatures(s))
  BY <1>3, <1>4, <1>5 DEF BrowserSecretTransport, ActiveFeatures
<1>10. McpTokenPolicy(s)
  BY RenderedEnv DEF McpTokenPolicy
<1>11. AccountsResolve(s)
  BY <1>3, <1>4 DEF BootstrapAccepts, AccountsResolve
<1>12. s.delivery => s.auth = "disabled" /\ ~RotationRequested
  <2>1. env.rotate = FALSE
    BY RenderedEnv
  <2>2. RotationRequested = FALSE
    BY <2>1 DEF Given, RotationRequested
  <2>. QED
    BY <1>3, <2>2 DEF BootstrapAccepts
<1>14. s.redis /\ s.topology = "sentinel" => s.sentinels > 0
  BY <1>3, <1>4 DEF Topology
<1>15. s.retention \in Retentions
  BY <1>4 DEF Retentions
<1>13. s.bind # "malformed" /\ s.runner # "invalid" /\ ArticleWellFormed(s.article)
  BY <1>4, UnsetAssumption DEF ArticleWellFormed
<1>16. ComposedDlcs(s) \subseteq lock.dlcs
  <2>1. ComposedDlcs(s) \subseteq Implied(c) \ {"seo"}
    BY <1>3, <1>4 DEF ComposedDlcs, Implied
  <2>2. Implied(c) \ {"seo"} \subseteq ChosenDlcs(c)
    BY ImpliedChosen DEF BootstrapAccepts
  <2>. QED
    BY <1>5, <2>1, <2>2
<1>. QED
  BY <1>6, <1>7, <1>8, <1>9, <1>10, <1>11, <1>12, <1>13, <1>14, <1>15, <1>16
  DEF ServerOnlyRules

\* The server verifies the lock that bootstrap wrote, also without any add-on,
\* where doctor finds the blank variable missing.
LEMMA FreshContractLoads ==
  ASSUME NEW c \in CommandLines, BootstrapAccepts(c), file = RenderConfig(c),
         env = RenderEnv(c), lock = NewLock(c), controls = Pinned,
         NEW s, s = ServerView, ServerOnlyRules(s)
  PROVE  InstallationLoads(s)
<1>. DEFINE v == DoctorView("container")
<1>1. CheckSemantics(v, env.phc)
  BY FreshSettingsPass
<1>2. /\ v.admin = ChosenAdmin(c) /\ v.redis = (c.cache # "none")
      /\ v.topology = Topology(c.cache) /\ v.css = (c.style = "custom")
  BY FreshView
<1>. HIDE DEF v
<1>3. /\ s.admin = ChosenAdmin(c) /\ s.redis = (c.cache # "none")
      /\ s.css = (c.style = "custom")
      /\ s.redis => s.topology = Topology(c.cache)
  <2>1. /\ v.admin = s.admin /\ v.redis = s.redis /\ v.css = s.css
        /\ s.redis => v.topology = s.topology
    BY <1>1, ViewsCoincide DEF v
  <2>. QED
    BY <1>2, <2>1
<1>4. /\ env.digest = "lock" /\ env.style = c.style /\ env.cache = c.cache
      /\ env.dlcs = IF ChosenDlcs(c) = {} THEN Unset ELSE ChosenDlcs(c)
  BY RenderedEnv
<1>5. "lock" # Unset
  BY UnsetAssumption
<1>6. Tracking(env.digest, env.untracked, s.delivery) = "tracked"
  BY <1>4, <1>5 DEF Tracking
<1>7. VerifyAdminAuth(s)
  BY <1>3, FreshLock DEF VerifyAdminAuth
<1>8. EffectiveCache(s.redis, s.topology) = lock.cache
  <2>1. /\ lock.cache = c.cache
        /\ EffectiveCache(c.cache # "none", Topology(c.cache)) = c.cache
    BY FreshLock
  <2>2. CASE s.redis
    BY <1>3, <2>1, <2>2
  <2>3. CASE ~s.redis
    BY <1>3, <2>1, <2>3 DEF EffectiveCache
  <2>. QED
    BY <2>2, <2>3
<1>9. VerifyCache(s) /\ VerifyStyle(s)
  BY <1>3, <1>4, <1>8, FreshLock, FreshControls DEF VerifyCache, VerifyStyle
<1>10. VerifyEnabledDlcs
  <2>1. ChosenDlcs(c) # Unset
    BY ChoiceTypes, UnsetAssumption
  <2>. QED
    BY <1>4, <2>1, FreshLock DEF VerifyEnabledDlcs, Given
<1>11. ComposedDlcs(s) \subseteq lock.dlcs
  BY <1>4, <1>5 DEF ServerOnlyRules
<1>. QED
  BY <1>4, <1>6, <1>7, <1>9, <1>10, <1>11 DEF InstallationLoads

LEMMA FreshInstallationWorks ==
  ASSUME ConfigurationInv
  PROVE  BootstrapWorks
<1>. SUFFICES ASSUME Untouched
              PROVE  /\ lock.dlcs # {} => DoctorPasses("container")
                     /\ (/\ choice.collaboration \/ ChosenComments(choice)
                              => LocalAccounts(ChosenAuth(choice))
                         /\ BrowserSecretTransport(choice.url, lock.dlcs))
                        => ServerStarts
  BY DEF BootstrapWorks
<1>1. /\ choice \in CommandLines /\ BootstrapAccepts(choice)
      /\ file = RenderConfig(choice) /\ env = RenderEnv(choice)
      /\ lock = NewLock(choice) /\ controls = Pinned
  BY DEF ConfigurationInv, AsWritten, TypeOK, Untouched
<1>. DEFINE v == DoctorView("container")
            s == ServerView
<1>2. CheckSemantics(v, env.phc)
  BY <1>1, FreshSettingsPass
<1>. HIDE DEF v, s
<1>3. CheckReferencesContract(v) /\ controls.css # "unusable"
  BY <1>1, FreshControls DEF CheckReferencesContract
<1>4. ASSUME lock.dlcs # {}
      PROVE  DoctorPasses("container")
  <2>1. ChosenDlcs(choice) # {}
    BY <1>1, <1>4, FreshLock
  <2>2. CheckInstallationContract("container", v)
    BY <1>1, <2>1, FreshContractPasses DEF v
  <2>3. DoctorEnv("container") = env
    BY DEF DoctorEnv
  <2>. QED
    BY <1>2, <1>3, <2>2, <2>3 DEF DoctorPasses, v
<1>5. ASSUME choice.collaboration \/ ChosenComments(choice)
               => LocalAccounts(ChosenAuth(choice)),
             BrowserSecretTransport(choice.url, lock.dlcs)
      PROVE  ServerStarts
  <2>1. ServerOnlyRules(s)
    BY <1>1, <1>5, FreshServerRules DEF s
  <2>2. RuntimeConfigLoads(s)
    BY <1>2, <1>3, <2>1, SettingsCarryOver DEF v, s
  <2>3. InstallationLoads(s)
    BY <1>1, <2>1, FreshContractLoads DEF s
  <2>4. s.url # "malformed" /\ ArticleWellFormed(s.article)
    <3>1. v.url = s.url
      BY <1>2, ViewsCoincide DEF v, s
    <3>2. ArticleWellFormed(s.article)
      BY <2>1 DEF ServerOnlyRules
    <3>. QED
      BY <1>2, <3>1, <3>2 DEF CheckSemantics
  <2>5. BrowserSecretTransport(s.url, ActiveFeatures(s))
    BY <2>1 DEF ServerOnlyRules
  <2>. QED
    BY <2>2, <2>3, <2>4, <2>5 DEF ServerStarts, s
<1>. QED
  BY <1>4, <1>5

\* What bootstrap wrote passes doctor and starts, apart from the combinations
\* that BootstrapWorks excepts, and what doctor passes starts, whatever the
\* operator has edited since (bootstrap.rs, config.rs, installation.rs).
THEOREM ProgramsKeepAgreeing == Spec => []ProgramsAgree
<1>1. ConfigurationInv => ProgramsAgree
  BY FreshInstallationWorks, PredictionHolds DEF ConfigurationInv, ProgramsAgree
<1>. QED
  BY <1>1, ConfigurationInvariant, PTL

\* Doctor in the container judges the settings the server runs with: their
\* resolutions, with different defaults, coincide once doctor passes.
THEOREM DoctorSeesTheSettings == Spec => []DoctorSeesWhatRuns
<1>1. DoctorSeesWhatRuns
  <2>. SUFFICES ASSUME DoctorPasses("container"),
                       NEW k \in DOMAIN DoctorView("container")
                PROVE  \/ DoctorView("container")[k] = ServerView[k]
                       \/ k \in {"topology", "required"} /\ ~ServerView.redis
    BY DEF DoctorSeesWhatRuns
  <2>. DEFINE v == DoctorView("container")
              s == ServerView
  <2>1. k \in {"intent", "url", "article", "auth", "admin", "days", "external",
               "delivery", "redis", "topology", "required", "css", "references"}
    BY DEF DoctorView
  <2>2. CheckSemantics(v, DoctorEnv("container").phc)
    BY DEF DoctorPasses
  <2>. HIDE DEF v, s
  <2>3. /\ v.intent = s.intent /\ v.url = s.url /\ v.article = s.article
        /\ v.auth = s.auth /\ v.admin = s.admin /\ v.days = s.days
        /\ v.external = s.external /\ v.delivery = s.delivery
        /\ v.redis = s.redis /\ v.css = s.css /\ v.references = s.references
        /\ s.redis => v.topology = s.topology /\ v.required = s.required
    BY <2>2, ViewsCoincide DEF v, s
  <2>4. \/ v[k] = s[k]
        \/ k \in {"topology", "required"} /\ ~s.redis
    BY <2>1, <2>3
  <2>. QED
    BY <2>4 DEF v, s
<1>. QED
  BY <1>1, PTL
=============================================================================
