--------------------------- MODULE OfflineImport ---------------------------
(***************************************************************************)
(* The offline import of the command line: the Markdown of a batch is read *)
(* from files other programs may change meanwhile, and the batch is applied *)
(* to the tables of module Content in one immediate SQLite transaction,    *)
(* while the server waits for the write lock.                              *)
(*                                                                         *)
(* A post of a batch is a record                                           *)
(*   key      offline_import_idempotency_key(site, source, source_id)      *)
(*   slug, category, aliases   its canonical path and its legacy paths     *)
(*   digest   content_sha256, or NoDigest                                  *)
(*   at       created_at, the time of everything that is written for it    *)
(* and its text is the body of the file that was read for it; one file     *)
(* stands for the Markdown of the batch.  A file is a record of what       *)
(* lstat and a read show of it.  Legacy paths of three or more segments    *)
(* can meet no other path and are left out, and so are titles and authors;  *)
(* a declared category has the metadata it exists with.                     *)
(***************************************************************************)
EXTENDS Pages

CONSTANTS
  Batches,        \* the manifests that are imported: records of declarations and posts
  FileStates,     \* [ino, regular, len, body]: what may be found at the path
  MaxBytes,       \* MAX_MARKDOWN_BYTES
  NoDigest,       \* a post without contentSha256
  NoPost,         \* a document that was not imported
  Later,          \* the time of what the server writes
  ReservedRoots,  \* RESERVED_ROOTS and the article base path
  MaxImports,     \* bound: imports that are run
  MaxDisturbed,   \* bound: the first imports, whose files change meanwhile
  MaxWrites       \* bound: writes of the server

ASSUME FilesAssumption ==
  \A f \in FileStates :
    f = [ino |-> f.ino, regular |-> f.regular, len |-> f.len, body |-> f.body]

Posts(b) == {b.posts[i] : i \in DOMAIN b.posts}

\* offline_import_document
ImportedDocument(p, text) ==
  [key |-> p.key, slug |-> p.slug, category |-> p.category, aliases |-> p.aliases,
   at |-> p.at, text |-> text]

\* A manifest that was parsed; "references" is one of RESERVED_ROOTS.
ASSUME BatchesAssumption ==
  /\ ReferencesSlug \in ReservedRoots
  /\ \A b \in Batches :
       /\ b.declares \subseteq CategorySlugs
       /\ b.posts \in Seq(Posts(b))
       /\ \A p \in Posts(b) :
            /\ p.key \in Keys /\ p.slug \in Slugs /\ p.category \in CategorySlugs
            /\ p.aliases \subseteq Paths /\ p.at # Later
            /\ \A f \in FileStates : ImportedDocument(p, f.body) # NoPost

VARIABLES
  import,            \* the running import command
  ownerDisplayName,  \* users.display_name of the owner
  imported,          \* per document, the post and the text it was imported from
  updatedAt,         \* documents.updated_at
  done,              \* history: the batches that were committed, with their text
  runs,              \* history: the number of imports started
  written,           \* history: the imported documents the server has written since
  writes             \* history: the number of writes of the server

importVars == <<import, imported, updatedAt, ownerDisplayName, done, runs, written, writes>>
allVars == <<vars, importVars>>

Idle == [phase |-> "idle"]

ImportInit ==
  /\ Init
  /\ import = Idle
  /\ imported = [d \in DocumentIds |-> NoPost]
  /\ updatedAt = [d \in DocumentIds |-> Later]
  /\ ownerDisplayName = "chosen at sign-up"
  /\ done = {}
  /\ runs = 0
  /\ written = {}
  /\ writes = 0

---------------------------------------------------------------------------
(* Reading: read_bounded_regular_file. *)

\* fs::symlink_metadata and the first checks.  The file may be replaced at
\* any time from here on.
Inspect(b, dry, file) ==
  /\ import = Idle
  /\ runs < MaxImports
  /\ runs' = runs + 1
  /\ file.regular
  /\ file.len <= MaxBytes
  /\ import' = [phase |-> "inspected", batch |-> b, dry |-> dry,
                disk |-> file, expected |-> file]
  /\ UNCHANGED <<vars, imported, updatedAt, ownerDisplayName, done, written, writes>>

\* Another program writes to the file or puts another one in its place.
FileChanges(file) ==
  /\ import.phase \in {"inspected", "opened", "checked", "read"}
  /\ runs <= MaxDisturbed
  /\ file # import.disk
  /\ import' = [import EXCEPT !.disk = file]
  /\ UNCHANGED <<vars, imported, updatedAt, ownerDisplayName, done, runs, written, writes>>

\* What is now seen through a handle on the inode of `opened`.
Through(opened) == IF import.disk.ino = opened.ino THEN import.disk ELSE opened

\* File::open follows a symbolic link, whose target is another inode.
OpenFile ==
  /\ import.phase = "inspected"
  /\ import' = [phase |-> "opened", batch |-> import.batch, dry |-> import.dry,
                disk |-> import.disk, expected |-> import.expected,
                opened |-> [import.disk EXCEPT !.regular = TRUE]]
  /\ UNCHANGED <<vars, imported, updatedAt, ownerDisplayName, done, runs, written, writes>>

\* Mutant: only the opened handle is looked at.
StableHandleOnly(expected, opened, path) == opened.regular /\ opened.len <= MaxBytes

\* ensure_stable_regular_file, with same_file_identity: neither the body nor
\* the time of modification is compared.
Stable(expected, opened, path) ==
  /\ expected.regular /\ opened.regular /\ path.regular
  /\ expected.ino = opened.ino /\ opened.ino = path.ino
  /\ expected.len = opened.len /\ opened.len = path.len
  /\ opened.len <= MaxBytes

CheckOpened ==
  /\ import.phase = "opened"
  /\ Stable(import.expected, import.opened, import.disk)
  /\ import' = [import EXCEPT !.phase = "checked"]
  /\ UNCHANGED <<vars, imported, updatedAt, ownerDisplayName, done, runs, written, writes>>

\* One byte more than the limit is asked for, so a file that grew is noticed.
ReadFile ==
  /\ import.phase = "checked"
  /\ Through(import.opened).len <= MaxBytes
  /\ import' = [phase |-> "read", batch |-> import.batch, dry |-> import.dry,
                disk |-> import.disk, expected |-> import.expected,
                opened |-> import.opened, text |-> Through(import.opened).body]
  /\ UNCHANGED <<vars, imported, updatedAt, ownerDisplayName, done, runs, written, writes>>

\* The file is inspected again after the read; load_batch compares the digest.
LoadBatch ==
  /\ import.phase = "read"
  /\ Stable(import.opened, Through(import.opened), import.disk)
  /\ \A p \in Posts(import.batch) : p.digest # NoDigest => p.digest = import.text
  /\ import' = [phase |-> "loaded", batch |-> import.batch, dry |-> import.dry,
                text |-> import.text, expected |-> import.expected]
  /\ UNCHANGED <<vars, imported, updatedAt, ownerDisplayName, done, runs, written, writes>>

---------------------------------------------------------------------------
(* The transaction: import_offline_batch_with_reserved_roots. *)

FirstSegment(path) == IF path.category = Root THEN path.slug ELSE path.category

\* Mutant: routes of the application may be aliases.
AliasAnywhere(path) == path \in Paths

\* validate_offline_import_alias_path
ValidAlias(path) == FirstSegment(path) \notin ReservedRoots

\* The paths post p claims.
Claimed(p) == {RoutePath(p.category, p.slug)} \cup p.aliases

\* validate_offline_import_batch: source ids and claimed paths are distinct.
ValidBatch(b) ==
  /\ b.posts # <<>>
  /\ \A c \in b.declares : c \notin ReservedRoots
  /\ \A p \in Posts(b) :
       /\ p.category \notin ReservedRoots
       /\ RoutePath(p.category, p.slug) \notin p.aliases
       /\ \A path \in p.aliases : ValidAlias(path)
  /\ \A i, j \in DOMAIN b.posts : i # j =>
       /\ b.posts[i].key # b.posts[j].key
       /\ Claimed(b.posts[i]) \cap Claimed(b.posts[j]) = {}

\* What a rollback restores.
Tables ==
  [status |-> status, currentRevision |-> currentRevision,
   publishedRevision |-> publishedRevision, currentSlug |-> currentSlug,
   revisions |-> revisions, routeOwner |-> routeOwner, canonical |-> canonical,
   categories |-> categories, series |-> series, seriesItems |-> seriesItems,
   audits |-> audits, imported |-> imported, updatedAt |-> updatedAt,
   ownerDisplayName |-> ownerDisplayName]

Restore(saved) ==
  /\ status' = saved.status
  /\ currentRevision' = saved.currentRevision
  /\ publishedRevision' = saved.publishedRevision
  /\ currentSlug' = saved.currentSlug
  /\ revisions' = saved.revisions
  /\ routeOwner' = saved.routeOwner
  /\ canonical' = saved.canonical
  /\ categories' = saved.categories
  /\ series' = saved.series
  /\ seriesItems' = saved.seriesItems
  /\ audits' = saved.audits
  /\ imported' = saved.imported
  /\ updatedAt' = saved.updatedAt
  /\ ownerDisplayName' = saved.ownerDisplayName

\* Mutant: the landing page of a declared category is not looked for.
DeclareUnchecked(c) == categories[c] \in {"absent", "active"}

\* A declared category exists with the same metadata, or can be created.
Declare(c) ==
  \/ categories[c] = "active"
  \/ categories[c] = "absent" /\ CategoryLandingAvailable(c)

\* The transaction begins, the owner's name is written and the declared
\* categories are created.
BeginImport ==
  /\ import.phase = "loaded"
  /\ ValidBatch(import.batch)
  /\ \A c \in import.batch.declares : Declare(c)
  /\ categories' = [c \in CategorySlugs |->
       IF c \in import.batch.declares THEN "active" ELSE categories[c]]
  /\ ownerDisplayName' = import.batch.owner
  /\ import' = [phase |-> "open", batch |-> import.batch, dry |-> import.dry,
                text |-> import.text, next |-> 1, document |-> 0, saved |-> Tables]
  /\ UNCHANGED <<documentVars, revisions, routeVars, series, seriesItems, audits,
                 imported, updatedAt, done, runs, written, writes>>

ThisPost == import.batch.posts[import.next]
Running == import.phase = "open" /\ import.next <= Len(import.batch.posts)

\* ensure_offline_import_retry_matches for revision r of document d.
RetryMatches(p, text, d, r) ==
  /\ imported[d] = ImportedDocument(p, text)
  /\ status[d] = "published" /\ updatedAt[d] = p.at
  /\ r = 1 /\ currentRevision[d] = 1 /\ publishedRevision[d] = 1
  /\ revisions[d][1].slug = p.slug
  /\ revisions[d][1].category = p.category
  /\ {path \in Paths : routeOwner[path] = d} = Claimed(p)
  /\ {path \in canonical : routeOwner[path] = d} = {RoutePath(p.category, p.slug)}

\* The revision that holds the key: a set of at most one.
KeyHolders(key) ==
  {h \in DocumentIds \X (1..MaxRevisions) :
     h[2] \in DOMAIN revisions[h[1]] /\ revisions[h[1]][h[2]].key = key}

\* A post that was imported before must be what it was.
SkipUnchanged ==
  /\ Running /\ import.document = 0
  /\ PlacementOpen(ThisPost.category)
  /\ \E h \in KeyHolders(ThisPost.key) :
       RetryMatches(ThisPost, import.text, h[1], h[2])
  /\ import' = [import EXCEPT !.next = @ + 1]
  /\ UNCHANGED <<vars, imported, updatedAt, ownerDisplayName, done, runs, written, writes>>

\* create_document_in_transaction
ImportDocument(d) ==
  /\ Running /\ import.document = 0
  /\ KeyHolders(ThisPost.key) = {}
  /\ CreateDocument(d, ThisPost.slug, ThisPost.category, ThisPost.key)
  /\ imported' = [imported EXCEPT ![d] = ImportedDocument(ThisPost, import.text)]
  /\ updatedAt' = [updatedAt EXCEPT ![d] = ThisPost.at]
  /\ import' = [import EXCEPT !.document = d]
  /\ UNCHANGED <<ownerDisplayName, done, runs, written, writes>>

\* Mutant: publish_in_transaction, which publishes at the time it is.
ImportPublishNow ==
  /\ Running /\ import.document # 0
  /\ publishedRevision[import.document] = 0
  /\ Publish(import.document, 1)
  /\ updatedAt' = [updatedAt EXCEPT ![import.document] = Later]
  /\ UNCHANGED <<import, imported, ownerDisplayName, done, runs, written, writes>>

\* publish_in_transaction_at: at the time of the post, not of the import.
ImportPublish ==
  /\ Running /\ import.document # 0
  /\ publishedRevision[import.document] = 0
  /\ Publish(import.document, 1)
  /\ updatedAt' = [updatedAt EXCEPT ![import.document] = ThisPost.at]
  /\ UNCHANGED <<import, imported, ownerDisplayName, done, runs, written, writes>>

\* Mutant: an alias takes a route over.
AliasFreeAlways(d, path) == RootSlugNotCategory(path)

\* The checks before the row of an alias is inserted; the path is the key.
AliasFree(d, path) ==
  /\ RouteAvailable(d, path)
  /\ RootSlugNotCategory(path)
  /\ routeOwner[path] = 0

\* Mutant: the aliases are canonical rows.
InsertAliasesCanonical(d, paths) ==
  /\ routeOwner' = [path \in Paths |-> IF path \in paths THEN d ELSE routeOwner[path]]
  /\ canonical' = canonical \cup paths

InsertAliases(d, paths) ==
  /\ routeOwner' = [path \in Paths |-> IF path \in paths THEN d ELSE routeOwner[path]]
  /\ canonical' = canonical \ paths

\* The aliases of the post; then the next post is looked at.
ImportAliases ==
  /\ Running /\ import.document # 0
  /\ publishedRevision[import.document] # 0
  /\ \A path \in ThisPost.aliases : AliasFree(import.document, path)
  /\ InsertAliases(import.document, ThisPost.aliases)
  /\ import' = [import EXCEPT !.next = @ + 1, !.document = 0]
  /\ UNCHANGED <<documentVars, revisions, categoryVars, seriesItems, audits,
                 imported, updatedAt, ownerDisplayName, done, runs, written, writes>>

\* The batch is complete: a dry run rolls it back.
EndImport ==
  /\ import.phase = "open" /\ import.next > Len(import.batch.posts)
  /\ import' = Idle
  /\ UNCHANGED <<runs, written, writes>>
  /\ IF import.dry
     THEN Restore(import.saved) /\ UNCHANGED done
     ELSE /\ done' = done \cup {[batch |-> import.batch, text |-> import.text]}
          /\ UNCHANGED <<vars, imported, updatedAt, ownerDisplayName>>

\* Mutant: what was written so far stays.
AbandonKeeps ==
  /\ import # Idle
  /\ import' = Idle
  /\ UNCHANGED <<vars, imported, updatedAt, ownerDisplayName, done, runs, written, writes>>

\* A check fails, the disk does, or the process dies: before the transaction
\* there is nothing to undo, afterwards SQLite rolls back.
Abandon ==
  /\ import # Idle
  /\ import' = Idle
  /\ IF import.phase = "open" THEN Restore(import.saved)
     ELSE UNCHANGED <<vars, imported, updatedAt, ownerDisplayName>>
  /\ UNCHANGED <<done, runs, written, writes>>

\* The server writes while no import holds the lock.  Reading the files
\* touches no table, so its steps are not interleaved with the server's.
ServerStep ==
  /\ import.phase \in {"idle", "loaded"}
  /\ writes < MaxWrites
  /\ writes' = writes + 1
  /\ \/ \E d \in DocumentIds :
          /\ DocumentWrite(d)
          /\ updatedAt' = [updatedAt EXCEPT ![d] = Later]
          /\ written' = {e \in written \cup {d} : imported[e] # NoPost}
     \/ CategoryStep /\ UNCHANGED <<updatedAt, written>>
  /\ UNCHANGED <<import, imported, ownerDisplayName, done, runs>>

ImportNext ==
  \/ ServerStep
  \/ \E b \in Batches, dry \in BOOLEAN, file \in FileStates : Inspect(b, dry, file)
  \/ \E file \in FileStates : FileChanges(file)
  \/ OpenFile
  \/ CheckOpened
  \/ ReadFile
  \/ LoadBatch
  \/ BeginImport
  \/ SkipUnchanged
  \/ \E d \in DocumentIds : ImportDocument(d)
  \/ ImportPublish
  \/ ImportAliases
  \/ EndImport
  \/ Abandon

ImportSpec == ImportInit /\ [][ImportNext]_allVars

---------------------------------------------------------------------------
(* Properties. *)

ImportTypeOK ==
  /\ TypeOK
  /\ import.phase \in {"idle", "inspected", "opened", "checked", "read", "loaded", "open"}
  /\ runs \in 0..MaxImports /\ writes \in 0..MaxWrites

\* "The complete batch is atomic": between transactions the imported documents
\* are those of the committed batches, each of them complete, whatever failed
\* in the middle of another batch.
BatchesComplete ==
  import.phase # "open" =>
    {imported[d] : d \in DocumentIds} \ {NoPost} =
      UNION {{ImportedDocument(p, b.text) : p \in Posts(b.batch)} : b \in done}

\* "makes exact retries no-ops": a document the server has not written since its
\* import is what the same manifest asks for, whatever it wrote elsewhere, so the
\* batch can be run again.
RetriesMatch ==
  import.phase # "open" =>
    \A d \in DocumentIds :
      imported[d] # NoPost /\ d \notin written =>
        RetryMatches(imported[d], imported[d].text, d, 1)

\* "Re-running an identical manifest reports the post as `unchanged`": for every
\* document that still has but the revision it was imported with.  Publishing
\* that revision once more changes nothing a reader sees, and updated_at.
RetriesAreNoOps ==
  import.phase # "open" =>
    \A d \in DocumentIds :
      imported[d] # NoPost /\ Len(revisions[d]) = 1 =>
        RetryMatches(imported[d], imported[d].text, d, 1)

\* An import only adds: the documents, routes and categories there were before
\* the transaction are there after it, as they were; a dry run or a failure
\* adds nothing, and a batch that was committed before no more than its owner's
\* name, which another batch may have replaced since.
ImportOnlyAdds ==
  [][import.phase = "open" /\ import' = Idle =>
       LET before == import.saved IN
       /\ \A d \in DocumentIds : before.status[d] # "absent" =>
            /\ revisions'[d] = before.revisions[d]
            /\ publishedRevision'[d] = before.publishedRevision[d]
            /\ currentSlug'[d] = before.currentSlug[d]
       /\ \A path \in Paths : before.routeOwner[path] # 0 =>
            routeOwner'[path] = before.routeOwner[path]
       /\ before.canonical \subseteq canonical'
       /\ \A c \in CategorySlugs : before.categories[c] # "absent" =>
            categories'[c] = before.categories[c]
       /\ done' = done =>
            \/ Tables' = before
            \/ /\ ~import.dry
               /\ Tables' = [before EXCEPT !.ownerDisplayName = import.batch.owner]]_allVars

\* Every legacy path of an imported post leads to it on the primary site, at
\* the address itself, for as long as the post is in a category: no handler of
\* the application answers instead (validate_offline_import_alias_path).
LegacyPathsLead ==
  import.phase # "open" =>
    \A w \in Settings : \A d \in DocumentIds :
      imported[d] # NoPost /\ Categorised(d) =>
        \A path \in imported[d].aliases : LeadsTo(w, Url("root", TRUE, path)) = {d}

\* The text that is imported was read from the file that was inspected - a
\* regular file within the limit, not what a link leads to - and is the text
\* the manifest's digest names.
TextOfInspectedFile ==
  import.phase = "loaded" =>
    /\ \E f \in FileStates :
         f.ino = import.expected.ino /\ f.body = import.text /\ f.len <= MaxBytes
    /\ \A p \in Posts(import.batch) : p.digest \in {NoDigest, import.text}

\* A batch is imported as a whole or not at all, running it again matches what
\* it left, its legacy paths lead to its posts, and it changes nothing there was,
\* whatever failed in between and whatever the server wrote between two runs.
ImportsComplete == [](BatchesComplete /\ RetriesMatch /\ LegacyPathsLead) /\ ImportOnlyAdds
=============================================================================
