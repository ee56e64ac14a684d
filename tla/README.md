# A TLA+ model of OpenSoverignBlog

OpenSoverignBlog is a single-node blog server in Rust: SQLite holds the
canonical content, a directory holds the images, Redis optionally caches public
responses, and one or more server processes share them. This directory models
the parts whose correctness depends on order, on concurrency or on failure,
checks them with TLC on small instances, and proves the central properties with
TLAPS for every size.

`PROJECT.json` lists the components, runs, mutants, hazards, findings and
theorems, and maps every definition to the lines it models. Abbreviations here:
`storage` is `src/crates/storage-sqlite/src/lib.rs`, `cache`, `main`,
`admin_auth`, `community`, `backup` and `admission` are the files of that name
in `src/apps/server/src/`.

## 1. The system

| Component | State | Operations | Hard part | What makes it correct |
| --- | --- | --- | --- | --- |
| Content repository (`storage`) | documents, revisions and their placement, routes, categories, series, AI audits | create, revise, move, publish, propose, categorise, promote, reorder, archive; each one `IMMEDIATE` transaction | facts spread over several tables, long sequences of legal calls | a path has one owner for good; the canonical route is the published revision; history is append-only; a series has the published members in a stable order |
| Public pages (`main`, `community`, `seo`) | none of their own | answer an address with a post, a landing page, a redirect or a 404; sitemap, feeds, machine lists | the same posts by different queries and rules, old and new forms of addresses | every address handed out is served for ever; all views agree; drafts do not show |
| Offline import (`cli`, `storage`) | a batch in one transaction | inspect and read a file, import, retry, dry run | the file changes meanwhile, a failure in the middle, retries after edits | all or nothing, once, from the inspected file |
| Administrator control plane (`storage`, `main`, `admin_auth`) | the control row with its epoch and binding fingerprint, sessions, external identities, what each replica started with | provision, reconcile, rotate, sign in (two phases), bind, complete setup, sign out | replicas with old credentials keep running; verification and issue are separate steps | nothing verified under a rotated-out binding is honoured |
| Sign-in (`admin_auth`, `cache`, `admission`) | limiters in the process and in Redis, verification slots, the browser's signed state | exchange an access key, begin and finish an external flow | several servers, lost Redis answers, two tabs | both limits hold; a grant follows the browser's own flow |
| Semantic cache (`cache`, `main`) | Redis generation key and entries; in the process the dirty ticket, the count of mutations, the rotation lock | lookup, fill, begin and complete a mutation, repair | fills racing invalidations, late and lost Redis commands, cancelled handlers, restarts | no response older than what was committed when the request came; every request ends |
| Redis connection (`cache`) | manager slot with its generation, attempt gate, breaker, readiness | ask for the manager, connect, drop it after an error | late errors, cancelled leaders, growing pauses | one attempt at a time; the link recovers |
| Sites, memberships, users, comments, home pins (`storage`, `community`) | accounts, sessions, roles, appearance, studio content, comments, pins | every studio and community handler, as tasks with anything between them | authorisation and mutation are separate tasks | one owner; revoked rights do not act; public changes are announced to the cache |
| Asset store (`assets-fs`) | blobs, sidecars, temporary files | put, get | concurrent uploads of equal bytes, crashes between file operations | an answered upload stays readable with its record |
| Managed backups (`backup`) | staging directory, generations, status | make a generation, prune | authors write during the copy; crashes in the middle; partial removal | kept generations can be restored |
| Add-on lifecycle and bootstrap (`cli`) | intent, lock, environment and their backups | bootstrap, adopt, add, remove, enable, upgrade, reconcile | three files replaced one rename at a time, errors during rollback, crashes, a first file cut short | from the first lock on a verified contract can be put together; the history explains the lock |
| Configuration (`cli`, `config`, `installation`, `feature_registry`) | config.toml, .env, lock | bootstrap, doctor, server start, operator's edits | three programs with rules and defaults of their own | what doctor passes starts, but for the rules only the server has |
| AI summaries, rate limiters (`ai_summary`, `admission`) | buckets, permits, the stored summary | admit, generate, review, store | providers answer late or wrongly, authors leave | the limiter is a sliding window; every permit returns once |
| Code runner client (`code-runner-client`, `main`) | tracked jobs | submit, poll | late polls and answers, a bounded table | a job is tracked for its time and no longer |
| MCP server (`mcp`) | the adapter's configuration and rate window | list, call a tool | schema and parser are two texts; lost answers and restarts | they agree but for named values; a retried revision is made once |
| Program tree (`admin_tree`) | a cursor | open a node, next page | offsets while authors write | no row is lost where a page ends |
| Release check (`version`) | the last valid channel document | refresh, wait | outages and broken documents | the footer learns of a newer release |
| Migrations, updater, rendering, web application | | | SQL text, shell, strings, the browser | not modelled, see section 6 |

Interactions. Handlers run repository calls as `spawn_blocking` tasks
(`repository_task`); a handler that changes public content holds a
`CacheMutationGuard` meanwhile, and the middleware completes the rotation
afterwards. `PublicChangesAnnounced` (Community) and `DraftsInvisible` (Pages)
are what `SemanticCache` takes for granted: a commit that changes a page is made
under a guard, or by a task whose handler lost its client (finding 2), and the
others change none. The backup worker reads the same
database and image directory as the handlers that write them. The import and the
server share the SQLite write lock. Server replicas share the database and
Redis.

## 2. Modules

| Module | Models | Composes / extends |
| --- | --- | --- |
| `Content` | content repository of one site | |
| `Pages` | what readers get of it | `Content` |
| `OfflineImport` | the import, between writes of the server | `Pages` |
| `AdminControlPlane` | control plane and any number of replicas | |
| `SemanticCache` | cache protocol: handlers, middleware, Redis, database version | |
| `Community` | accounts, blogs, roles and the handlers on them | |
| `AssetStore`, `Backup` | image uploads as file operations; the backup worker, authors, uploads | `Backup` composes `AssetStore` |
| `DlcLifecycle` | the three files of the installation contract and the commands on them | |
| `Configuration` | bootstrap, doctor and the server on the same settings | |
| `RateLimiter` | `KeyedRateLimiter` as operators | |
| `SlidingWindow` | abstract: what a rate limiter promises | |
| `Summaries`, `SignIn` | AI summaries; access keys and OIDC flows | `RateLimiter`; `Summaries` instantiates `SlidingWindow` |
| `RedisLink`, `CodeRunner`, `Mcp`, `AdminTree`, `Releases` | the service of that name | |
| `Services` | the services above and the asset store, one followed at a time | all of them |
| `ContentProofs` | theorems about `Content`, `Pages` and `OfflineImport` | `OfflineImport`, TLAPS |
| `AdminControlPlaneProofs`, `SemanticCacheProofs`, `CommunityProofs`, `DlcLifecycleProofs`, `ConfigurationProofs` | theorems | the module, TLAPS |
| `BackupProofs` | theorems about `AssetStore` and `Backup` | `Backup`, TLAPS |
| `ServicesProofs` | theorems about `Summaries` (with its refinement of `SlidingWindow`), `RedisLink`, `CodeRunner`, `SignIn`, `Mcp`, `AdminTree` and `Releases` | `Services`, TLAPS |
| `MC…` | instances for TLC: functions and symmetry sets for the cfgs | the module of that name |

Operators whose comment begins with "Mutant:" are plausible wrong versions of
the definition that follows them. They are used by no specification; they show,
at least one per property and one for most parts of a conjunction, that the
property notices such a mistake.

A property that a run checks is often a conjunction of named parts
(`AddressClaimsDisjoint` is `PathOwnedOnce` and `LandingPagesFree`); each part
is stated and explained where it is defined. The `TypeOK` of a module documents
its state; where the module has theorems it is proved, as a part of the
inductive invariant they rest on.

### Content

A transaction is one action, because `storage` serialises writers with
`BEGIN IMMEDIATE` on one locked connection; a refused request rolls back and is
no step. Variables are the columns: `status`, `currentRevision`,
`publishedRevision` and `currentSlug` are `documents`; `revisions[d]` is the
sequence of its revisions with placement, idempotency key and AI flag;
`routeOwner` and `canonical` are `routes`; `categories`, `series` and
`seriesItems` (position / 1024) are the tables of those names; `audits` is
`ai_proposal_audits`. A path is a pair of placement and leaf slug. Case matters
to paths and not to the check of a root slug against category slugs (NOCASE):
`Fold`. Titles, bodies, times and hashes carry no state the properties tell
apart. A document can leave a series and its row stays behind, as in the code:
this is where finding 1 comes from.

### AdminControlPlane

A replica starts with a configuration (mode, binding, site, rotation flag):
`Start`; with the flag set it reads the row and compares the mode
(`ReadControlPlane`), then rotates in a second transaction (`Rotate`); otherwise
it provisions or reconciles. A running replica verifies a sign-in against its
own configuration (`VerifyAccessKey`, or a verified external subject) and
issues the session in a later transaction (`IssueSession`), or is refused. A
session's `fingerprint` records, for the properties only, the binding the
sign-in was verified under; `Accepted` is the check the server makes on each
request and does not look at it. Init is a new database or one from before the
control plane, with its legacy sessions.

### SemanticCache

Content is a version number that each commit advances; a response is the version
it was rendered from. One step is one atomic load or store, one Redis command or
one lock operation. Redis may fail a command before or after executing it, apply
an abandoned `SET` late, expire a response and evict the generation key; the
process may restart; a client may disconnect at any await. `DropsAwaitedTask`
chooses whether it may while the handler awaits its repository task: that case
is finding 2, and is separated so that the rest of the protocol can be checked
without it. `floor` and `hit` are what the client sees.

### AssetStore and Backup

The steps are the file operations other actors can get between: creating the
directory, writing a temporary file, hard-linking it, removing it; on the backup
side the database snapshot, listing the root, listing a directory, copying a
file, the rename, and the beginning and the end of each removal. Each digest has
a directory of its own (in the code, its first two characters; two digests that
share one only make listings longer). The database is the set of digests its
revisions refer to. `copy_tree` walks names in sorted order; the model lets it
take any order. Temporary files copied along are not part of what a restore
needs and are left out of `copied`.

### Pages and OfflineImport

`Pages` has no actions: a reader changes nothing. `Respond(w, url, html)` is the
router of `main` with its handlers, for a site with settings `w` (primary or
not, provisioned or not, references page on or off); the sitemap, the archives,
the machine lists, the series and category queries and the home feed are
operators beside it. The lists of the home feed are the queries' rows by position
(`InPosition`), without the pinned posts after as many more were fetched
(`NotPinned`), section after section until the limit (`FilledSections`); the 500
rows a query returns at most do not show under `FeedAssumption`. Its properties
are invariants and action properties of the specification of `Content`. `OfflineImport` adds the import to `Content`: a file
as what `lstat` and a read show of it, the steps of
`read_bounded_regular_file_after_inspect` with another program changing the file
between them, then one transaction that runs post by post on the tables, with a
saved copy of them that a failure or a dry run restores. While it is open no
other writer runs (`BEGIN IMMEDIATE`). Of the time stamps the retry compares, the
creation times are the post's `at` and stay; `updatedAt` is a variable, since
every write of a document by the server sets it (`Later`). `written` is history:
the imported documents the server has written since.

### Community

A request holds a program counter and what it has read so far. A middleware
resolves the session, the handler resolves it again, reads the blog and the role
and runs one repository operation; between two of these any other request may do
anything. The repository operation is a transaction that checks the role again
(`ensure_site_owner`, `ensure_site_writer`); that this second check is what
counts is `AuthorisedWhenApplied`. Sessions have no such second check: a session
that ends after the handler resolved it still carries that request. A client
that disconnects while the handler awaits its task leaves the task behind
(`TaskDetached`, allowed by `DropsAwaitedTask`): the guard is dropped, the
operation still commits. Content is reduced to numbers of revisions,
since `Content` has the rest.

### DlcLifecycle and Configuration

`DlcLifecycle`: the intent, the lock and the environment are three files that a
command loads, changes together and replaces by `transactional_replace`: prepare
temporary files and backups, rename one by one, and on an error restore what was
renamed. Each of these may fail, restoring too, and the process may die between
any two; two engines with different catalogues use the files. `bootstrap` has
nothing to back up and writes in place: it opens a file (`CreateNew`), writes and
syncs it (`WriteNew`), and cut short in between (`WriteCutShort`) it leaves a torn
file or an environment with its first lines only, which no later `bootstrap`
overwrites; `ClearDirectory` is the operator who starts afresh. Backups carry a
fresh name (a UUID v7), and an operator who recovers by hand is taken to use those
of the last command: with an older command's backups put back, `StateCarried`
fails (`MaxHistory = 5`), since nothing ties a backup to the files beside it. `Configuration`:
settings as functions from keys to values with `Unset`; `BootstrapAccepts`,
`DoctorPasses` and `ServerStarts` are the rules of the three programs, each over
its own resolution of file, environment, lock and defaults; the operator may
edit file and environment. `ServerOnlyRules` lists what doctor does not look at, so
that a deployment it passes may still not start: among them the listen address, a
`[runner]`, and the form of the article path, of which doctor trims the slashes that
`SeoPolicy::validate` refuses (`/blog`).

### Services

The services share no state, so a behaviour of `Services` follows one of them
(`focus`), and their state spaces are checked beside each other, not multiplied.
What is outside the server is nondeterministic: providers, brokers, Redis, the
release channel and MCP hosts may answer late, wrongly or never.
`SlidingWindow` is the abstract specification of admission: an identity is
admitted at most so often in any stretch of time, except that a full map may
displace the identity silent for longest. `SummariesAdmitted` says that
`Summaries`, which keeps buckets that are trimmed, retained and evicted at
different times, implements it under the refinement mapping
`AdmissionIsSlidingWindow`. The expiry of attempts is the `pop_front` loop, which
stops at the first attempt that is not expired. In `AdminTree` a row has a title
up to `MaxTitle`, and `RowsInOrder` is the `ORDER BY` of the queries. In `SignIn` a
grant keeps the flow its code was given out for beside the one the callback
named, so that `GrantsFollowOwnFlow` sees a callback crossed with another flow.

## 3. Runs

| Run | Shows | Bounds and why they suffice |
| --- | --- | --- |
| `ContentPaths` | addresses, publication, history, series, categories; what every page makes of each state | 2 documents with 2 revisions, a category slug, its other-case form and a third: collisions need two documents, a rollback two revisions, and a return to a series a move out and back |
| `ContentImport` | imports between writes, keys and proposals | 2 documents, 2 keys, 1 message, 2 runs of batches under two owner's names, 1 disturbed file: a retry after a failure, after success, after an edit, after the same revision was published again and with another time |
| `SeriesCap` | finding 1 | a limit of 1 instead of 500; 3 revisions |
| `CacheSafety` | coherence, mutation count, rotation lock | 1 reader, 2 overlapping writers, 2 generations, 1 restart |
| `CacheLiveness` | every request ends under any disconnect | a reader and a writer that contend for the lock; 4 generations of which 3 (`SpareGenerations`) only a rotation may draw: one for the start and one for each of the two times that a mutation marks the cache dirty. A rotation therefore never meets the bound (checked: `drawn < MaxGenerations` wherever a rotation is about to set one), and its loop ends because mutations stop, not because generations run out |
| `CacheCancellation` | finding 2 | 1 reader, 1 writer |
| `AdminControlPlane` | bindings, sessions, identities, epochs | 2 replicas, 2 bindings, 2 sites, 2 tokens, epoch up to 3: rotation there and back again while the other replica runs |
| `Backup` | restorable generations beside a writer; pruning under errors and restarts | 1 image (images do not interact), 5 generations, retention 2, 2 restarts: the remains of an interrupted removal meet two later prunings |
| `DlcLifecycle` | recovery of the contract, history, retained state | 2 DLCs of which one requires the other, 2 engines, 4 history records, 2 faults: a failure and one more during its rollback |
| `Configuration` | the three programs agree | every combination of the choices of `bootstrap` that interact, and up to 3 edits of four representative deployments |
| `Community` | authority, ownership, announcements | 2 requests over 2 sessions, 3 blogs, an administrator and a member, 5 writes, disconnects: a revocation between any two tasks of another request |
| `Services` | the services of section 2 | 3 authors for 2 buckets and 2 permits; 3 callers of one connection, 2 outages, 1 cancellation; 2 handlers and 2 jobs for a table of 1; 2 servers and 2 browsers; every call of every tool with an argument more, less or with a value of another kind; pages of 1 and 2 over 3 rows; a channel document for each check; 3 uploads of equal bytes and 1 of others |

The properties, each stated in full above its definition:

- `ContentPaths`: `AddressClaimsDisjoint` (no path has two claimants),
  `PublicationConsistent` (status, publication, draft path and canonical route
  belong together), `SeriesComplete`, `AddressesServed` (new addresses directly,
  old ones through one redirect), `ViewsAgree` (pages, JSON, feeds and the shared
  cache entries), `RoutesPermanent`, `HistoryImmutable`, `CollectionsKept`,
  `DraftsInvisible`.
- `ContentImport`: `ProposalsAudited`, `TextOfInspectedFile` (a file changed while
  it is read is not imported), `ImportsComplete`. `SeriesCap`: `SeriesWithinCap`.
- `CacheSafety`: `NoStaleHit`, also of `CacheCancellation`, and `CacheCoherent`.
  `CacheLiveness`: `EveryRequestEnds`.
- `AdminControlPlane`: `BindingRespected`, `ControlRowSteps`. `Backup`:
  `BackupsUsable`, `RestorePointsKept`.
- `DlcLifecycle`: `Recoverable`, `LockFaithful`, `StateCarried`. `Configuration`:
  `ProgramsAgree`, `DoctorSeesWhatRuns`. `Community`: `OneOwner`,
  `AuthorisedWhenApplied`, `PublicChangesAnnounced`.
- `Services`: `AnsweredReadable` (uploads), `SlotsAccounted` and
  `SummariesAdmitted` (summaries), `RunsTracked` (code runner),
  `VerificationsLimited` and `GrantsFollowOwnFlow` (sign-in), `McpFaithful`,
  `BrowseFaithful` (program tree), `ConnectionShared` and `LinkRecovers` (Redis),
  `FooterTruthful` (release check).

Symmetry is used over writers, replicas, tokens, bindings and requests, in runs
without liveness only. Deadlock checking is off where the bounds (documents,
revisions, generations, names, instants) let the system come to its end;
`DlcLifecycle` and `Community` keep it on.

Fairness. `SemanticCache!Fairness`: weak fairness of each request's steps, since
tokio polls what is ready and every Redis command has a response timeout; strong
fairness of taking `generation_change`, since tokio's mutex is FIFO.
`Services!Fairness`: requests keep coming, the runtime goes on with each of them
and with the background task, and time passes, which is what `LinkRecovers` and
`ReleaseLearnt` need. Clients, Redis successes, the release channel, disconnects
and restarts get no fairness.

## 4. Findings

1. **A full series grows** (`SeriesCap`). A member that left and returns meets
   its old row and is not counted, so a series can exceed its stated 500 members,
   after which `replace_series_order`, which takes at most 500 ids and all
   members, refuses every request.
2. **Cancelled mutation** (`CacheCancellation`). The guard is in the handler's
   future and the write in a detached blocking task: a disconnect releases the
   guard first, a reader refills the cache from the old content, and the commit
   that follows marks nothing dirty. The stale page stays until the next
   mutation or its expiry.

Other disagreements between code and documents, each stated as a definition that
no run lists; adding it to the cfg named reproduces it.

- `PublishedAtTail` (`ContentPaths`, with `MaxRevisions = 3`): a document that
  returns to a series gets its old position; `README.md:250` promises the tail.
- `HealthyGenerationAvailable` with `ClockStepsBack = TRUE` (`Backup`):
  generations are pruned by the time in their names; after the clock was set
  back the newest sorts first, is removed in the run that made it, and is
  reported as available (`backup.rs:110`).
- `CandidateReconciles` (`DlcLifecycle`): `load_deployment` demands that every
  locked DLC has the manifest bytes of the running command line, so a candidate
  with a newer version of one refuses the deployment that `README.md:312` says
  it re-resolves.
- `RetriesAreNoOps` (`ContentImport`): publishing an imported revision once more
  sets `updated_at`, which the retry compares (`storage-sqlite lib.rs:6158`), so an
  identical manifest is refused from then on;
  `docs/operations/OFFLINE_IMPORT.md:117` says the post is reported as `unchanged`
  and `README.md:207` that exact retries are no-ops. `RetriesMatch` states what holds.
- `BootstrapStarts` (`Configuration`): `bootstrap` and `doctor` accept comments
  or collaboration without local accounts, and the server refuses
  (`docs/operations/CONFIGURATION.md:135`). `BootstrapWorks` states what holds.
- `BootstrapPassesDoctor` (`Configuration`): on the host, `doctor --env-file`
  does not read the administrator's key from that file
  (`docs/operations/CONFIGURATION.md:82`).
- `FlatPathsLead` (`ContentPaths` with `HandleSlugs = {"news", "News"}`): below a
  handle the leaf slug is looked up as a category first, and a slug that
  `normalize_handle` refuses (not ASCII, longer than 40, with an underscore) ends
  there with an error instead of the redirect of `README.md:265`.
- `ReferencesRestartable` (`ContentPaths` with a slug `references` and
  `Settings <- MCReferences`): a running
  server lets a root alias `references` be published, and refuses to start
  afterwards (`docs/operations/CONFIGURATION.md:160`, `main.rs:164`).

## 5. Proofs

All proofs are checked by tlapm with SMT, Zenon and LS4, and hold for any number
of documents, revisions, slugs, replicas, sessions, requests, generations, …
They rest on the named assumptions of the modules only:

| Assumption | Says |
| --- | --- |
| `BoundsAssumption`, `SlugAssumption` (`Content`) | bounds are natural numbers, and a document may have a revision; category slugs are slugs in lower case; `Root`, `NoKey`, `NoPath` are none of the values they stand beside |
| `SettingsAssumption`, `ReferencesAssumption` (`Pages`) | a provisioned site is the primary one; no category is named `references`, a reserved slug |
| `FeedAssumption` (`Pages`) | a list of the home feed has at most 100 posts, and a site at most 500 categories: the limits of the configuration and of the queries |
| `FilesAssumption`, `BatchesAssumption` (`OfflineImport`) | a file is a record of inode, kind, length and body; a batch was parsed (its posts are a sequence, with a key, a slug, a category, legacy paths and a time before any write of the server), and `references` is one of `RESERVED_ROOTS` |
| `ControlAssumption` (`AdminControlPlane`) | `NoRecord` and `NoBinding` are no rows or bindings |
| `AssetAssumption`, `BackupAssumption` | each upload has a digest; the retention is at least 2, as the configuration demands |
| `CacheAssumption` | nobody is reader and writer at once; finitely many writers; the bounds are natural numbers; `Nobody` and `NoValue` are no requests or versions |
| `CommunityAssumption` | the administrator and the primary blog exist; `None` is no role, session or document |
| `LimiterAssumption`, `SummariesAssumption`, `RunnerAssumption`, `SignInAssumption` | limits are natural numbers, of the limiter's positive ones; `NoBucket` is no number and no bucket; finitely many authors, jobs and browsers |
| `ReleaseAssumption` | versions are natural numbers, the entries of a document a sequence |
| `TreeAssumption` | pages have rows; finitely many documents; `NoCategory` is none |
| `DlcAssumption` | engines, versions and states are natural numbers; the catalogue's order is a sequence of DLCs; `Missing` and `absent` are none of the values they stand beside |
| `LinkAssumption` | failures are counted at least until the pause has reached its maximum; `NoManager` and `NoCaller` are none of the values |
| `McpAssumption` | a call names a tool, and each argument given has one of the kinds of values told apart; `Nothing` is no reply or command |
| `ChoicesAssumption`, `UnsetAssumption` (`Configuration`) | choices are command lines that clap can produce; `Unset` is no value of a setting |

TLC evaluates each of them in a run. Some theorems carry a hypothesis about the
environment in their statement: `NothingStaleServed` and
`CacheStaysCoherent` have `~DropsAwaitedTask` (with it, finding 2 refutes them;
`NothingLeaks` does without), the theorems of `BackupProofs` have
`~ClockStepsBack` (with it, `HealthyGenerationAvailable` fails, section 4), and
those of `DlcLifecycleProofs` have `Serialised`, at most one process: nothing locks
the three files, so two commands at once overwrite each other, and the
repository's `README.md:295` asks operators never to run two. Both values of each are instances of the modules.

`ContentProofs`
- `ContentTypes`: type correctness, per action.
- `PathsOwnedOnce`, `LandingPagesStayFree`, `RoutesStay`: every action is one of
  three kinds or leaves paths alone (`StepIsOfAKind`): a draft moves to a path
  that was available, a route is written at one that was, a landing page
  appears where nothing was. Given the types, ownership and free landing pages
  are inductive over these kinds. They need both tables to be looked at in each.
- `PublicationInvariant`: `CanonicalRouteIsPublished` is not inductive alone. A
  publication moves the mark from the old published revision's path, so the
  pointer must name a revision (`PublishedExists`), absent documents must have
  none (`AbsentIsEmpty`), status and pointer agree, and moves must miss public
  revisions. From it follow `CanonicalFollowsPublication`, `DraftPathsCurrent`,
  `RoutesAlwaysResolve` and, together, `PublicationStaysConsistent`.
- `AddressClaimsStayDisjoint`: the two ownership theorems as the run states them.
- `HistoryStaysImmutable`: the action property, from types and that invariant.
- `SeriesStayWhole`: `SeriesComplete` with `SeriesBacked` (a series has its
  category) over `PublicationInv`; a step on series is of one of the kinds of
  `SeriesStepIsOfAKind`.
- `CollectionsStayKept`: the action property; a reorder is the only step that
  moves a member before another (`OrderKept`), and an archived category gains
  nothing (`ArchivedStaysClosed`).
- `ProposalsStayAudited`: `ProposalsAudited` with `AuditsName` (an audit names a
  revision that exists and came from a proposal). Every addition to a history
  has its key unused before (`AddedKeyUnique`) and old keys stay where they are
  (`KeysStay`).

`ContentProofs`, on pages and imports: what the handlers answer in any state that
satisfies `SiteInv`, the types, `PublicationInv` and `LandingPagesFree`, under any
settings; and the files an import reads.
- `AddressesStayServed`: a published document is found at the path of its revision
  (`PublishedRoute`, from `CanonicalRouteIsPublished`), and nothing is found at a
  landing page (`LandingFound`), so the one address of each post and of each
  landing page is answered directly (`CategoryPageServed`, `RootPageServed`,
  `LandingServed`). Every redirect of every handler is to one of these
  (`EveryRedirectSettles`, one lemma per handler), and a route that is not
  canonical any more redirects to its own post (`FoundAtRoot`,
  `FoundInCategory`).
- `ViewsStayInAgreement`: `InterfacesAgree` and `SharedEntriesAgree`, with
  `SeriesComplete`; an item names its document, so lists and counts agree
  (`ItemsCounted`). `HomeFeedFilled` needs what a sorted and cut list is. A row's
  place is the number of rows before it, which maps the rows one to one on
  positions (`Positioned`), so a list has what it asks for or everything there is
  (`Fills`). As many rows more are fetched as there are pins, and removing the
  pins leaves enough (`UnpinnedFills`). Sections of different categories share no
  post, so filling them one after the other fills the whole (`SectionsFill`); that
  the loop does so for every number of categories is by a least counterexample
  (`LeastNat`).
- `DraftsStayInvisible`: the action property. The handlers read the database
  through five lookups, which only see published revisions (`LookupsKept`); a
  step that writes a revision publishes none (`DraftWritesFrame`) and keeps the
  published ones as they are (`HistoryKept`).
- `TextStaysOfInspectedFile`: other programs replace or rewrite the file between any
  two steps of the read. What the import knows of it at each step (`ReadKnows`) is
  enough: once the handle was compared it is on the inspected inode, and a read
  through it shows a body that inode had, within the limit.
- `ContentSurvivesImports`, `ImportsStayComplete`: by `ImportInv`. Between
  transactions, the documents that were imported are those of the committed batches
  and each is published, under its first revision, with its routes
  (`ImportedSound`): the placement of a public revision is never moved and routes
  are permanent, so the server's writes keep that (`ImportedStays`). Within a
  transaction `OpenInv` says three things of the tables that were saved at its
  start: they have the whole invariant of `Content` (`Saved`, an instance of it), so
  a rollback restores it; what was written since only adds to them (`OnlyAdded`:
  the document being imported had no row in them, so the mark its publication takes
  away was never one of theirs); and a batch that was committed before finds all of
  its keys used, so it creates no document (`CommittedKeysUsed`). A document the
  server has not written since has one revision and its post's time, in the tables
  and in the saved ones (`TimesInv`), which is what a retry compares. At the end the
  posts looked at are all posts of the batch. A legacy path stays a row of its
  post; its first segment is not reserved, and no landing page can appear there, so
  the fallback reaches the redirect (`FoundAtRootUrl`).

`AdminControlPlaneProofs`
- `ControlPlaneInvariant`: the stated properties plus `SessionBinding` (live
  sessions were verified under the active binding: epoch and mode alone, which
  the server compares, do not say so) and `ReplicaInv` (a replica about to
  rotate has a mode equal to the stored one, although it was read in an earlier
  transaction: true because nothing ever changes the mode).
- From it `AcceptedUnderActive`, `LiveSessionsStayCurrent`,
  `IdentitiesStayOfActiveBinding`, and the action properties `EpochCounts` and
  `SiteAndModeStayFixed`; `BindingStaysRespected` and `ControlRowStepsKept` put
  them together as the run states them.

`SemanticCacheProofs`
- `NothingLeaks`: the count of mutations equals the number of guards held and
  the rotation lock is held by a request that is rotating, step by step over
  cardinalities.
- `CacheNeverStale`, with `NothingStaleServed` and `CacheStaysCoherent`: the
  invariant is about what the current generation `Serves`, its entry and the
  stores still on their way to it. Where the coherence word is trusted and no
  mutation is between its two dirty marks, it serves the committed content
  (`ServesContent`); it serves what a reader found on arrival as soon as that
  reader has passed its check of active mutations (`ServesReaders`). Both need
  that generations still to be installed are unused, by late `SET`s too
  (`FreshGenerations`), and that a queued repository task has a handler waiting
  for it (`TasksAwaited`), which is what `DropsAwaitedTask` takes away.

`CommunityProofs`
- `OneOwnerHolds`: `Ownership` with `Registered` (whoever a session, a role or a
  request names has an account) and `AdministratorsKnown` (a request past the
  administrator check still holds the token of an administrator's session): what
  a handler read in an earlier task and uses now.
- `ChangesAuthorised`, `ChangesAnnounced`: action properties, by the kinds of
  steps a request can take; only its last step writes. The second also needs
  `DetachedLater`: without `DropsAwaitedTask` no task loses its handler, and then
  the guard is held at every commit.

`BackupProofs`
- `AnswersStayReadable`: the answer given is the installed record. Inductive with
  what an upload knows at each step (`UploadKnows`: past its link the blob is
  there; after `created` the sidecar is its own), because installing never
  replaces or removes a file (`InstallNeverClobbers`).
- `BackupsStayUsable`, `PruningKeepsRestorePoints`: the database snapshot is taken
  before the images are listed, and no image leaves the store, so what the
  snapshot refers to is copied, listed or in a directory still to be listed
  (`NothingOverlooked`). With a clock that does not step back a new generation
  has the last name (`NamesDrawn`), so a removal, finished or not, is of the
  oldest and leaves as many newer ones as the retention (`OldestRemoved`).

`ServicesProofs`: each for its service, from an invariant that ties the program
counters to the shared counts.
- `SummarySlotsKept` (permits held are the requests past admission),
  `ConnectionIsShared`, `RunsAreTracked`, `VerificationsStayLimited` (slots, and
  the window in Redis against the verifications that happened), `GrantsFollow`
  (the code, the state of the callback and the cookie are of one flow, which the
  browser began: `CookiesKnow`, `CallbacksKnow`), `McpIsFaithful`. The last shows agreement of the published schemas and the parser only but for the
  values the two measure differently: `StrictValues` are refused by the parser
  alone, `LaxValues` taken by it alone (`ValuesAgree`, `SchemasAgree`).
- `BrowsingIsFaithful`: what the browser has seen of a node so far (`BrowseSound`:
  `NodesShown`, `ListedSoFar`, `NewestShown`) is the first rows of the node's order,
  whatever was written between two pages as far as the property allows for it.
  That a set of rows has such an order at all (`OrderExists`) is by a least
  counterexample; the rest is one lemma per node.
- `SummariesImplementSlidingWindow`: the refinement, for any number of authors and
  any limits. The mapping counts in each bucket the attempts still in the window.
  `LimiterInv` says that attempts are in order and not later than `lastSeen`, and
  that one not later than the clock, so the `pop_front` loop removes just the
  expired ones (`Trimmed`); trimming later gives the same (`TrimmedLater`), and a
  bucket that `retain` drops has none in the window (`AllExpired`). That no more
  than `MaximumBuckets` are known is needed too: otherwise evicting one bucket
  would not make room, and the identity admitted would be one too many.
- `FooterNeverMisjudges`: the document held has passed `ValidChannel`, whose entries
  fall from each one to the next, so the first is the newest (`FirstIsLatest`).

`DlcLifecycleProofs`
- `ContractInv`: the invariant `Inv` has four parts: the files hold contracts
  (`FilesInv`), backups hold what the files held when the command began
  (`BackupsInv`), a process knows what it loaded (`ProcInv`), and, by phase, how
  many of the three files are already replaced or restored (`PhaseInv`, with
  `SettledInv`, `CreatingInv`, `ChangingInv` and `TransactionInv`). `TornInv` stands
  beside it: a torn file is the one `bootstrap` has open or what one that was cut
  short has left, and there is no lock then. The
  lists of history records are built by recursive functions over the catalogue's
  order; what they hold after each round is by a least counterexample.
- From it `ContractTyped`, `ContractRecoverable` (at each moment after a lock was
  written to its end, and after any failure, the files or the last backups make up a
  verified contract; nothing is torn beside a lock), `ContractFaithful`
  (the lock is what its history says) and the action property
  `ContractStateCarried`.

`ConfigurationProofs`
- `DoctorSeesTheSettings`: by `ViewsCoincide`; doctor and the server resolve with
  different defaults, and doctor's own checks exclude each case where that shows.
- `ProgramsKeepAgreeing`: the second half (what doctor passes starts) holds in
  every typed state, through `SettingsCarryOver` and `ContractCarriesOver`; the
  first needs `AsWritten`: until the first edit the files are what bootstrap
  rendered of an accepted command line.

Only model-checked:
- liveness (`EveryRequestEnds`, `LinkRecovers`, `FooterTruthful`): fairness and
  `ENABLED` are beyond the prover (the safety half of the last, `UpdateSeen`, is
  proved).

Induction over data in general is out of the prover's reach: the library's induction
theorems take an operator. The theorems above that speak of a loop (a filled list, a
history, an order of rows) state it for each round as a set of numbers without a
least element, which the well-foundedness of the natural numbers excludes.

## 6. Not modelled

- Schema migrations: SQL text run once, in order, by a single opener. The schema
  after the last one is the state of `Content`, `Community` and
  `AdminControlPlane`.
- Updater scripts: shell around docker, systemd and the backups, whose effects
  are those of other programs. What the updater asks of `osb reconcile` is in
  `DlcLifecycle`.
- Rendering of Markdown, SEO markup, embeds, OpenAPI and JSON text: pure
  functions on strings. `Pages` has which post they are about.
- Docker commands of `local.rs` and the compose files of `bootstrap`.
- The web application and the SDK: browser code over the HTTP interface.
- Passwords, tokens, signatures and the identity provider's answers: a verified
  value is a model value.

Within the modelled parts: power loss (as opposed to process death), several
processes on one Redis namespace, Redis failover that loses an acknowledged
write, sessions' expiry by time, more than one site in `Content` (sites share no
row of it), and settings that no rule but their own range reads. `Pages` answers
as a server with free lookup slots does: without one, `spa_index_fallback` answers
503 to a path of a category, and the legacy aliases are passed over
(`main.rs:1400`, `main.rs:1640`). `SignIn` is about servers that share Redis;
without Redis only the limit of each process is left, and its slots.

## 7. Plan

Every safety property that a passing run checks has its theorem. What could come
next: more than one site in `Content`, the fields of the configuration that no rule
but their own range reads, and the commands of `local.rs`.
