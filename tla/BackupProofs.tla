---------------------------- MODULE BackupProofs ----------------------------
(***************************************************************************)
(* The asset store, for any number of uploads and digests: an answered     *)
(* upload stays readable with the record it was answered with.  The        *)
(* backups beside it, for any number of generations and crashes: what a    *)
(* generation's database refers to is in its files, because the database   *)
(* is copied first and the image store only grows, and pruning gives up    *)
(* the oldest generations alone.                                           *)
(***************************************************************************)
EXTENDS Backup, FiniteSetTheorems, TLAPS

---------------------------------------------------------------------------
(* The asset store. *)

\* What an upload knows at each step: past its blob's link the blob is there,
\* and past its sidecar's link a sidecar is, its own if it made the link.
UploadKnows ==
  \A u \in Uploads :
    /\ upload[u] \in {"unlinkBlob", "sidecar", "linkSidecar", "created", "existing"} =>
         DigestOf[u] \in blobs
    /\ upload[u] = "created" => sidecars[DigestOf[u]] = u
    /\ upload[u] = "existing" => sidecars[DigestOf[u]] # NoRecord

\* The inductive invariant.
AssetInv == AssetTypeOK /\ UploadKnows /\ AnsweredReadable

\* Installed files stay as they are: no step replaces or removes one.
InstalledStay ==
  /\ blobs \subseteq blobs'
  /\ \A d \in Digests : sidecars[d] # NoRecord => sidecars'[d] = sidecars[d]

\* The empty store satisfies the invariant.
LEMMA InitAssetInv == AssetInit => AssetInv
  BY DEF AssetInit, AssetInv, AssetTypeOK, UploadKnows, AnsweredReadable

\* Each file operation, error or crash keeps the types.
LEMMA AssetTypes ==
  ASSUME AssetTypeOK, [AssetNext]_assetVars PROVE AssetTypeOK'
<1> USE AssetAssumption DEF Goto, AssetTypeOK
<1>1. ASSUME NEW u \in Uploads, CreateDirectory(u) PROVE AssetTypeOK'
  BY <1>1 DEF CreateDirectory
<1>2. ASSUME NEW u \in Uploads, WriteBlob(u) PROVE AssetTypeOK'
  BY <1>2 DEF WriteBlob, Temporary, Temporaries, Parts
<1>3. ASSUME NEW u \in Uploads, LinkBlob(u) PROVE AssetTypeOK'
  BY <1>3 DEF LinkBlob
<1>4. ASSUME NEW u \in Uploads, UnlinkBlob(u) PROVE AssetTypeOK'
  BY <1>4 DEF UnlinkBlob
<1>5. ASSUME NEW u \in Uploads, WriteSidecar(u) PROVE AssetTypeOK'
  BY <1>5 DEF WriteSidecar, Temporary, Temporaries, Parts
<1>6. ASSUME NEW u \in Uploads, LinkSidecar(u) PROVE AssetTypeOK'
  BY <1>6 DEF LinkSidecar
<1>7. ASSUME NEW u \in Uploads, Answer(u) PROVE AssetTypeOK'
  BY <1>7 DEF Answer
<1>8. ASSUME NEW u \in Uploads, UploadFails(u) PROVE AssetTypeOK'
  BY <1>8 DEF UploadFails
<1>9. CASE AssetCrash
  BY <1>9 DEF AssetCrash
<1>10. CASE UNCHANGED assetVars
  BY <1>10 DEF assetVars
<1> QED
  BY <1>1, <1>2, <1>3, <1>4, <1>5, <1>6, <1>7, <1>8, <1>9, <1>10
     DEF AssetNext, UploadStep

\* Installing never clobbers: whatever a step does, installed files stay.
LEMMA InstallNeverClobbers ==
  ASSUME AssetTypeOK, [AssetNext]_assetVars PROVE InstalledStay
<1> USE DEF InstalledStay
<1>1. ASSUME NEW u \in Uploads, LinkSidecar(u) PROVE InstalledStay
  BY <1>1, AssetAssumption DEF LinkSidecar, AssetTypeOK
<1>2. ASSUME NEW u \in Uploads, UploadStep(u), ~LinkSidecar(u) PROVE InstalledStay
  BY <1>2 DEF UploadStep, CreateDirectory, WriteBlob, LinkBlob, UnlinkBlob, WriteSidecar,
              Answer, UploadFails
<1>3. CASE AssetCrash \/ UNCHANGED assetVars
  BY <1>3 DEF AssetCrash, assetVars
<1> QED
  BY <1>1, <1>2, <1>3 DEF AssetNext

\* Each step keeps what uploads know, of their own step and of the others'.
LEMMA KnowledgeKept ==
  ASSUME AssetInv, [AssetNext]_assetVars PROVE UploadKnows'
<1> USE AssetAssumption DEF AssetInv
<1>1. InstalledStay
  BY InstallNeverClobbers
<1>2. AssetTypeOK'
  BY AssetTypes
<1>3. SUFFICES ASSUME NEW v \in Uploads
               PROVE  /\ upload'[v] \in {"unlinkBlob", "sidecar", "linkSidecar",
                                         "created", "existing"} => DigestOf[v] \in blobs'
                      /\ upload'[v] = "created" => sidecars'[DigestOf[v]] = v
                      /\ upload'[v] = "existing" => sidecars'[DigestOf[v]] # NoRecord
  BY DEF UploadKnows
<1>4. CASE upload'[v] = upload[v]
  BY <1>1, <1>4 DEF UploadKnows, InstalledStay
<1>5. CASE upload'[v] # upload[v]
  <2>1. CASE AssetCrash
    BY <2>1, <1>5 DEF AssetCrash
  <2>2. CASE UploadStep(v)
    BY <2>2 DEF UploadStep, CreateDirectory, WriteBlob, LinkBlob, UnlinkBlob, WriteSidecar,
                LinkSidecar, Answer, UploadFails, Goto, UploadKnows, AssetTypeOK
  <2>3. ASSUME NEW u \in Uploads, UploadStep(u), u # v PROVE FALSE
    BY <2>3, <1>5 DEF UploadStep, CreateDirectory, WriteBlob, LinkBlob, UnlinkBlob,
                WriteSidecar, LinkSidecar, Answer, UploadFails, Goto, AssetTypeOK
  <2>4. CASE UNCHANGED assetVars
    BY <2>4, <1>5 DEF assetVars
  <2> QED
    BY <2>1, <2>2, <2>3, <2>4 DEF AssetNext
<1> QED
  BY <1>4, <1>5

\* An answer is the record that is installed, and it stays installed.
LEMMA AnswersKept ==
  ASSUME AssetInv, [AssetNext]_assetVars PROVE AnsweredReadable'
<1> USE AssetAssumption DEF AssetInv
<1>1. InstalledStay
  BY InstallNeverClobbers
<1>2. SUFFICES ASSUME NEW v \in Uploads, answer'[v] # NoRecord
               PROVE  /\ DigestOf[v] \in blobs'
                      /\ sidecars'[DigestOf[v]] # NoRecord
                      /\ sidecars'[DigestOf[v]] = answer'[v]
  BY DEF AnsweredReadable, Readable
<1>3. CASE answer'[v] = answer[v]
  BY <1>1, <1>2, <1>3 DEF AnsweredReadable, Readable, InstalledStay
<1>4. CASE answer'[v] # answer[v]
  <2>1. Answer(v)
    BY <1>4 DEF AssetNext, UploadStep, CreateDirectory, WriteBlob, LinkBlob, UnlinkBlob,
                WriteSidecar, LinkSidecar, Answer, UploadFails, AssetCrash, assetVars,
                AssetTypeOK
  <2> QED
    BY <2>1 DEF Answer, UploadKnows, AssetTypeOK
<1> QED
  BY <1>3, <1>4

\* A put that returned a record: get finds the bytes and that very record from
\* then on, although other uploads of the same bytes race and crash.
THEOREM AnswersStayReadable == AssetSpec => []AnsweredReadable
<1>1. AssetInv /\ [AssetNext]_assetVars => AssetInv'
  BY AssetTypes, KnowledgeKept, AnswersKept DEF AssetInv
<1>2. AssetInv => AnsweredReadable
  BY DEF AssetInv
<1> QED
  BY <1>1, <1>2, InitAssetInv, PTL DEF AssetSpec

---------------------------------------------------------------------------
(* Backups. *)

Files(d) == {[digest |-> d, part |-> part] : part \in Parts}

\* A blob, and an upload that is under way, has its directory.
DirectoriesFirst ==
  /\ blobs \subseteq directories
  /\ \A u \in Uploads : upload[u] \notin {"new", "ended"} => DigestOf[u] \in directories

\* What revisions refer to can be read.
ReferencesReadable == \A d \in references : d \in Digests /\ Readable(d)

\* The worker has not overlooked a file its database refers to: it has copied
\* it, is about to copy it, or will list its directory.
NothingOverlooked ==
  /\ step \in {"root", "copy", "verify"} => snapshot \subseteq references
  /\ step = "copy" => \A d \in snapshot : d \in unlisted \/ Files(d) \subseteq listed \cup copied
  /\ step = "verify" => \A d \in snapshot : Files(d) \subseteq copied

GenerationsComplete ==
  \A g \in DOMAIN generations : \A d \in generations[g].references :
    Files(d) \subseteq generations[g].files

\* Generations have names that were drawn, and the one being made has the last.
NamesDrawn ==
  /\ used \subseteq Names
  /\ DOMAIN generations \subseteq used
  /\ damaged \subseteq DOMAIN generations
  /\ step # "idle" => name \in used /\ \A h \in used : h <= name
  /\ step \in {"prune", "removing"} => name \in DOMAIN generations

\* A generation whose removal was begun is the oldest, and beyond the retention.
OldestRemoved ==
  \A g \in damaged : Older(g) = {} /\ Cardinality(Newer(g)) >= Retention

RunningWhileBusy == step # "idle" => status = "running"

\* The inductive invariant.
BackupInv ==
  /\ AssetInv
  /\ DirectoriesFirst
  /\ ReferencesReadable
  /\ NothingOverlooked
  /\ GenerationsComplete
  /\ NamesDrawn
  /\ OldestRemoved
  /\ RunningWhileBusy
  /\ HealthyGenerationAvailable

---------------------------------------------------------------------------
(* The image store under the worker. *)

\* Uploads and crashes are the only steps of the image store.
LEMMA StoreSteps ==
  ASSUME [Next]_vars PROVE [AssetNext]_assetVars
<1>1. BackupStep => UNCHANGED assetVars
  BY DEF BackupStep, Begin, BeginRemove, EndRemove, SnapshotDatabase, ListRoot, CopyDone,
         Rename, PruneDone, BackupFails, ListDirectory, CopyFile
<1> QED
  BY <1>1 DEF Next, Upload, Refer, Crash, AssetNext, vars

\* The store keeps its own invariant.
LEMMA StoreKept ==
  ASSUME AssetInv, [AssetNext]_assetVars PROVE AssetInv'
  BY AssetTypes, KnowledgeKept, AnswersKept DEF AssetInv

\* put creates the directory before anything in it, and none is removed.
LEMMA DirectoriesKept ==
  ASSUME AssetTypeOK, DirectoriesFirst, [AssetNext]_assetVars
  PROVE  DirectoriesFirst'
<1> USE AssetAssumption DEF AssetTypeOK, DirectoriesFirst, Goto
<1>1. ASSUME NEW u \in Uploads, CreateDirectory(u) PROVE DirectoriesFirst'
  BY <1>1 DEF CreateDirectory
<1>2. ASSUME NEW u \in Uploads, LinkBlob(u) PROVE DirectoriesFirst'
  BY <1>2 DEF LinkBlob
<1>3. ASSUME NEW u \in Uploads, WriteBlob(u) \/ UnlinkBlob(u) \/ WriteSidecar(u)
      PROVE DirectoriesFirst'
  BY <1>3 DEF WriteBlob, UnlinkBlob, WriteSidecar
<1>4. ASSUME NEW u \in Uploads, LinkSidecar(u) \/ Answer(u) \/ UploadFails(u)
      PROVE DirectoriesFirst'
  BY <1>4 DEF LinkSidecar, Answer, UploadFails
<1>5. CASE AssetCrash \/ UNCHANGED assetVars
  BY <1>5 DEF AssetCrash, assetVars
<1> QED
  BY <1>1, <1>2, <1>3, <1>4, <1>5 DEF AssetNext, UploadStep

\* References only come, and what they name can be read and stays so.
LEMMA ReferencesKept ==
  ASSUME AssetInv, ReferencesReadable, [Next]_vars
  PROVE  ReferencesReadable' /\ references \subseteq references'
<1>1. InstalledStay
  BY StoreSteps, InstallNeverClobbers DEF AssetInv
<1>2. UNCHANGED references \/ \E u \in Uploads : Refer(u)
  BY DEF Next, Upload, BackupStep, Begin, BeginRemove, EndRemove, SnapshotDatabase, ListRoot,
         CopyDone, Rename, PruneDone, BackupFails, ListDirectory, CopyFile, Crash, vars
<1>3. ASSUME NEW d \in Digests, Readable(d) PROVE Readable(d)'
  BY <1>1, <1>3 DEF Readable, InstalledStay
<1>4. ASSUME NEW u \in Uploads, Refer(u) PROVE DigestOf[u] \in Digests /\ Readable(DigestOf[u])
  BY <1>4, AssetAssumption DEF Refer, AssetInv, AnsweredReadable
<1>5. ASSUME NEW d \in references' PROVE d \in Digests /\ Readable(d)
  BY <1>2, <1>4, <1>5 DEF ReferencesReadable, Refer
<1> QED
  BY <1>2, <1>3, <1>5 DEF ReferencesReadable, Refer

---------------------------------------------------------------------------
(* The worker. *)

\* What read_dir finds of a digest that can be read.
LEMMA ListingFinds ==
  ASSUME NEW d \in Digests, Readable(d)
  PROVE  Files(d) \subseteq Listing(d) /\ Files(d) \subseteq Installed
  BY DEF Readable, Files, Listing, Installed, Parts

\* No image a copied database refers to is overlooked, whatever is uploaded
\* between two file operations of the worker.
LEMMA OverlookedNever ==
  ASSUME DirectoriesFirst, ReferencesReadable, NothingOverlooked,
         references \subseteq references', [Next]_vars
  PROVE  NothingOverlooked'
<1> USE DEF NothingOverlooked
<1>1. CASE UNCHANGED <<step, stagingVars>>
  BY <1>1 DEF stagingVars
<1>2. CASE SnapshotDatabase
  BY <1>2 DEF SnapshotDatabase
<1>3. CASE ListRoot
  BY <1>3 DEF ListRoot, DirectoriesFirst, ReferencesReadable, Readable
<1>4. ASSUME NEW d \in Digests, ListDirectory(d) PROVE NothingOverlooked'
  <2>1. /\ step = "copy" /\ step' = "copy" /\ listed = {}
        /\ unlisted' = unlisted \ {d} /\ listed' = Listing(d)
        /\ UNCHANGED <<snapshot, copied>>
    BY <1>4 DEF ListDirectory
  <2>2. d \in snapshot => Files(d) \subseteq Listing(d)
    BY <2>1, ListingFinds DEF ReferencesReadable
  <2> QED
    BY <2>1, <2>2
<1>5. ASSUME NEW f \in listed, CopyFile(f) PROVE NothingOverlooked'
  <2>1. /\ step = "copy" /\ step' = "copy"
        /\ listed' = listed \ {f} /\ copied' = copied \cup ({f} \cap Installed)
        /\ UNCHANGED <<snapshot, unlisted>>
    BY <1>5 DEF CopyFile
  <2>2. \A d \in snapshot : Files(d) \subseteq Installed
    BY <2>1, ListingFinds DEF ReferencesReadable
  <2> QED
    BY <2>1, <2>2
<1>6. CASE CopyDone
  BY <1>6 DEF CopyDone, stagingVars
<1>7. CASE step' \notin {"root", "copy", "verify"}
  BY <1>7
<1>8. \/ UNCHANGED <<step, stagingVars>>
      \/ SnapshotDatabase \/ ListRoot \/ CopyDone
      \/ \E d \in Digests : ListDirectory(d)
      \/ \E f \in listed : CopyFile(f)
      \/ step' \notin {"root", "copy", "verify"}
  BY DEF Next, Upload, Refer, BackupStep, Begin, BeginRemove, EndRemove, Rename, PruneDone,
         BackupFails, Crash, vars
<1> QED
  BY <1>1, <1>2, <1>3, <1>4, <1>5, <1>6, <1>7, <1>8

\* A generation is renamed whole, and its files are not touched until it is
\* removed.
LEMMA CompleteKept ==
  ASSUME NothingOverlooked, GenerationsComplete, [Next]_vars
  PROVE  GenerationsComplete'
<1> USE DEF GenerationsComplete
<1>1. CASE UNCHANGED generations
  BY <1>1
<1>2. CASE Rename
  <2>1. step = "verify" /\ \A d \in snapshot : Files(d) \subseteq copied
    BY <1>2 DEF Rename, NothingOverlooked
  <2> DEFINE made == [references |-> snapshot, files |-> copied]
  <2>2. made.references = snapshot /\ made.files = copied
    OBVIOUS
  <2>3. generations' = [g \in DOMAIN generations \cup {name} |->
          IF g = name THEN made ELSE generations[g]]
    BY <1>2 DEF Rename
  <2> HIDE DEF made
  <2> QED
    BY <2>1, <2>2, <2>3
<1>3. ASSUME NEW g \in Names, EndRemove(g) PROVE GenerationsComplete'
  BY <1>3 DEF EndRemove
<1>4. UNCHANGED generations \/ Rename \/ \E g \in Names : EndRemove(g)
  BY DEF Next, Upload, Refer, BackupStep, Begin, BeginRemove, SnapshotDatabase, ListRoot,
         CopyDone, PruneDone, BackupFails, ListDirectory, CopyFile, Crash, vars, keptVars
<1> QED
  BY <1>1, <1>2, <1>3, <1>4

---------------------------------------------------------------------------
(* The generations. *)

\* Names are numbers, so many as there are.
LEMMA NamesAreNumbers == Names \subseteq Nat /\ IsFiniteSet(Names)
<1>1. Names \subseteq Nat
  BY BackupAssumption DEF Names
<1> QED
  BY <1>1, BackupAssumption, FS_Interval DEF Names

\* The generation being made is newer than all others, so that it is not one
\* whose removal was begun.
LEMMA NameIsNewest ==
  ASSUME NamesDrawn, OldestRemoved, step # "idle"
  PROVE  /\ name \in Names
         /\ Newer(name) = {}
         /\ name \notin damaged
         /\ \A g \in DOMAIN generations : g \in Nat /\ g <= name
<1>1. /\ name \in Names
      /\ \A g \in DOMAIN generations : g \in Nat /\ g <= name
  <2>1. name \in used /\ \A g \in DOMAIN generations : g \in used /\ g <= name
    BY DEF NamesDrawn
  <2> QED
    BY <2>1, NamesAreNumbers DEF NamesDrawn
<1>2. Newer(name) = {}
  <2>1. name \in Nat
    BY <1>1 DEF Names
  <2> QED
    BY <1>1, <2>1 DEF Newer
<1>3. Cardinality(Newer(name)) = 0
  BY <1>2, FS_EmptySet
<1>4. ~(Cardinality(Newer(name)) >= Retention)
  BY <1>3, BackupAssumption
<1> QED
  BY <1>1, <1>2, <1>4 DEF OldestRemoved

\* Names are drawn in order, and only begun removals end.
LEMMA NamesKept ==
  ASSUME ~ClockStepsBack, NamesDrawn, OldestRemoved, [Next]_vars
  PROVE  NamesDrawn'
<1> USE DEF NamesDrawn
<1>1. CASE UNCHANGED <<used, step, name, generations, damaged>>
  BY <1>1
<1>2. ASSUME NEW g \in Names, Begin(g) PROVE NamesDrawn'
  <2>1. \A h \in used : h < g
    BY <1>2 DEF Begin
  <2>2. /\ used' = used \cup {g} /\ name' = g /\ step' = "snapshot"
        /\ UNCHANGED <<generations, damaged>>
    BY <1>2 DEF Begin, keptVars
  <2>3. g \in Nat /\ \A h \in used : h \in Nat
    BY DEF Names
  <2> QED
    BY <2>1, <2>2, <2>3
<1>3. CASE /\ UNCHANGED <<used, name, generations, damaged>>
           /\ step \in {"snapshot", "root", "copy"} /\ step' \notin {"prune", "removing"}
  BY <1>3
<1>4. CASE Rename
  BY <1>4 DEF Rename
<1>5. ASSUME NEW g \in Names, BeginRemove(g) PROVE NamesDrawn'
  BY <1>5 DEF BeginRemove, stagingVars
<1>6. ASSUME NEW g \in Names, EndRemove(g) PROVE NamesDrawn'
  <2>1. name \notin damaged
    BY <1>6, NameIsNewest DEF EndRemove
  <2> QED
    BY <1>6, <2>1 DEF EndRemove, stagingVars
<1>7. CASE UNCHANGED <<used, generations, damaged>> /\ step' = "idle"
  BY <1>7
<1> QED
  BY <1>1, <1>2, <1>3, <1>4, <1>5, <1>6, <1>7
     DEF Next, Upload, Refer, BackupStep, SnapshotDatabase, ListRoot, CopyDone, ListDirectory,
         CopyFile, PruneDone, BackupFails, Crash, vars, keptVars, stagingVars

\* More generations make more newer ones.
LEMMA NewerGrows ==
  ASSUME NamesDrawn', NEW g, Newer(g) \subseteq Newer(g)', Cardinality(Newer(g)) >= Retention
  PROVE  Cardinality(Newer(g)') >= Retention
<1>1. IsFiniteSet(Names)
  BY NamesAreNumbers
<1>2. Newer(g)' \subseteq Names
  BY DEF Newer, NamesDrawn
<1>3. IsFiniteSet(Newer(g)')
  BY <1>1, <1>2, FS_Subset
<1>4. /\ Cardinality(Newer(g)) <= Cardinality(Newer(g)')
      /\ Cardinality(Newer(g)) \in Nat /\ Cardinality(Newer(g)') \in Nat
  BY <1>3, FS_Subset, FS_CardinalityType
<1> QED
  BY <1>4, BackupAssumption

\* Only the oldest generation beyond the retention is being removed, across
\* crashes and new generations.
LEMMA OldestKept ==
  ASSUME NamesDrawn, NamesDrawn', OldestRemoved, [Next]_vars
  PROVE  OldestRemoved'
<1>1. CASE UNCHANGED <<generations, damaged>>
  BY <1>1 DEF OldestRemoved, Older, Newer
<1>2. CASE Rename
  <2>1. DOMAIN generations' = DOMAIN generations \cup {name} /\ damaged' = damaged
    BY <1>2 DEF Rename
  <2>2. \A g \in DOMAIN generations : g \in Nat /\ g <= name /\ name \in Nat
    BY <1>2, NameIsNewest DEF Rename, Names
  <2>3. ASSUME NEW g \in damaged PROVE Older(g)' = {} /\ Cardinality(Newer(g)') >= Retention
    <3>1. Older(g) = {} /\ Cardinality(Newer(g)) >= Retention /\ g \in DOMAIN generations
      BY DEF OldestRemoved, NamesDrawn
    <3>2. Older(g)' = {}
      BY <2>1, <2>2, <3>1 DEF Older
    <3>3. Newer(g) \subseteq Newer(g)'
      BY <2>1 DEF Newer
    <3> QED
      BY <3>1, <3>2, <3>3, NewerGrows
  <2> QED
    BY <2>1, <2>3 DEF OldestRemoved
<1>3. ASSUME NEW g \in Names, BeginRemove(g) PROVE OldestRemoved'
  <2>1. /\ damaged' = damaged \cup {g} /\ generations' = generations
        /\ Older(g) = {} /\ Cardinality(Newer(g)) >= Retention
    BY <1>3 DEF BeginRemove, Prunable
  <2> QED
    BY <2>1 DEF OldestRemoved, Older, Newer
<1>4. ASSUME NEW g \in Names, EndRemove(g) PROVE OldestRemoved'
  <2>1. /\ g \in damaged /\ \A h \in damaged : g <= h
        /\ DOMAIN generations' = DOMAIN generations \ {g} /\ damaged' = damaged \ {g}
    BY <1>4 DEF EndRemove
  <2>2. ASSUME NEW h \in damaged' PROVE Older(h)' = {} /\ Cardinality(Newer(h)') >= Retention
    <3>1. Older(h) = {} /\ Cardinality(Newer(h)) >= Retention /\ g <= h /\ g \in Nat /\ h \in Nat
      BY <2>1, NamesAreNumbers DEF OldestRemoved, NamesDrawn
    <3>2. Older(h)' = {}
      BY <2>1, <3>1 DEF Older
    <3>3. Newer(h) \subseteq Newer(h)'
      BY <2>1, <3>1 DEF Newer
    <3> QED
      BY <3>1, <3>2, <3>3, NewerGrows
  <2> QED
    BY <2>2 DEF OldestRemoved
<1> QED
  BY <1>1, <1>2, <1>3, <1>4
     DEF Next, Upload, Refer, BackupStep, Begin, SnapshotDatabase, ListRoot, CopyDone,
         ListDirectory, CopyFile, PruneDone, BackupFails, Crash, vars, keptVars

\* The status says "running" while there is a run.
LEMMA RunningKept ==
  ASSUME RunningWhileBusy, [Next]_vars PROVE RunningWhileBusy'
  BY DEF RunningWhileBusy, Next, Upload, Refer, BackupStep, Begin, BeginRemove, EndRemove,
         SnapshotDatabase, ListRoot, CopyDone, Rename, PruneDone, BackupFails, ListDirectory,
         CopyFile, Crash, vars, statusVars

\* A complete generation whose removal was not begun can be restored.
LEMMA CompleteIsContained ==
  ASSUME GenerationsComplete, NEW g \in DOMAIN generations, g \notin damaged
  PROVE  SelfContained(g)
  BY DEF GenerationsComplete, SelfContained, Files

\* "healthy" comes with a generation that was just made, and goes before the
\* next is begun.
LEMMA HealthyKept ==
  ASSUME GenerationsComplete, NamesDrawn, OldestRemoved, RunningWhileBusy,
         HealthyGenerationAvailable, [Next]_vars
  PROVE  HealthyGenerationAvailable'
<1>1. CASE status' # "healthy"
  BY <1>1 DEF HealthyGenerationAvailable
<1>2. CASE PruneDone
  <2>1. name \in DOMAIN generations /\ SelfContained(name)
    BY <1>2, NameIsNewest, CompleteIsContained DEF PruneDone, NamesDrawn
  <2>2. lastGeneration' = name /\ UNCHANGED <<generations, damaged>>
    BY <1>2 DEF PruneDone, keptVars
  <2> QED
    BY <2>1, <2>2 DEF HealthyGenerationAvailable, SelfContained
<1>3. CASE status' = "healthy" /\ ~PruneDone
  <2>1. status = "healthy" /\ lastGeneration' = lastGeneration
    BY <1>3
       DEF Next, Upload, Refer, BackupStep, Begin, BeginRemove, EndRemove, SnapshotDatabase,
           ListRoot, CopyDone, Rename, BackupFails, ListDirectory, CopyFile, Crash, vars,
           statusVars
  <2>2. step = "idle"
    BY <2>1 DEF RunningWhileBusy
  <2>3. UNCHANGED <<generations, damaged>>
    BY <2>2
       DEF Next, Upload, Refer, BackupStep, Begin, BeginRemove, EndRemove, SnapshotDatabase,
           ListRoot, CopyDone, Rename, PruneDone, BackupFails, ListDirectory, CopyFile, Crash,
           vars, keptVars
  <2> QED
    BY <2>1, <2>3 DEF HealthyGenerationAvailable, SelfContained
<1> QED
  BY <1>1, <1>2, <1>3

---------------------------------------------------------------------------
(* The theorems. *)

\* An empty site satisfies the invariant.
LEMMA InitBackup == Init => BackupInv
<1> SUFFICES ASSUME Init PROVE BackupInv
  OBVIOUS
<1>1. AssetInv
  BY InitAssetInv DEF Init
<1>2. DirectoriesFirst
  BY DEF Init, AssetInit, DirectoriesFirst
<1>3. ReferencesReadable /\ NothingOverlooked /\ GenerationsComplete
  BY DEF Init, ReferencesReadable, NothingOverlooked, GenerationsComplete
<1>4. NamesDrawn /\ OldestRemoved /\ RunningWhileBusy /\ HealthyGenerationAvailable
  BY DEF Init, NamesDrawn, OldestRemoved, RunningWhileBusy, HealthyGenerationAvailable
<1> QED
  BY <1>1, <1>2, <1>3, <1>4 DEF BackupInv

\* Each step of an author, of the worker and each crash keeps the invariant.
LEMMA StepBackup ==
  ASSUME ~ClockStepsBack, BackupInv, [Next]_vars PROVE BackupInv'
<1> USE DEF BackupInv
<1>1. AssetInv' /\ DirectoriesFirst'
  BY StoreSteps, StoreKept, DirectoriesKept DEF AssetInv
<1>2. ReferencesReadable' /\ references \subseteq references'
  BY ReferencesKept
<1>3. NothingOverlooked' /\ GenerationsComplete'
  BY <1>2, OverlookedNever, CompleteKept
<1>4. NamesDrawn'
  BY NamesKept
<1>5. OldestRemoved'
  BY <1>4, OldestKept
<1>6. RunningWhileBusy' /\ HealthyGenerationAvailable'
  BY RunningKept, HealthyKept
<1> QED
  BY <1>1, <1>2, <1>3, <1>4, <1>5, <1>6

\* As long as the clock is not set back, every generation among the newest
\* Retention and the one a healthy status names hold each image their database
\* refers to, whatever is uploaded and published while they are made and
\* wherever the process dies.
THEOREM BackupsStayUsable ==
  ASSUME ~ClockStepsBack PROVE Spec => []BackupsUsable
<1>1. BackupInv /\ [Next]_vars => BackupInv'
  BY StepBackup
<1>2. BackupInv => BackupsUsable
  <2> SUFFICES ASSUME BackupInv PROVE BackupsUsable
    OBVIOUS
  <2>1. ASSUME NEW g \in DOMAIN generations, Cardinality(Newer(g)) < Retention
        PROVE  g \notin damaged
    <3>1. IsFiniteSet(Names) /\ Newer(g) \subseteq Names
      BY NamesAreNumbers DEF Newer, BackupInv, NamesDrawn
    <3>2. Cardinality(Newer(g)) \in Nat
      BY <3>1, FS_Subset, FS_CardinalityType
    <3>3. ~(Cardinality(Newer(g)) >= Retention)
      BY <2>1, <3>2, BackupAssumption
    <3> QED
      BY <3>3 DEF BackupInv, OldestRemoved
  <2>2. KeptGenerationsRestorable
    BY <2>1, CompleteIsContained DEF BackupInv, KeptGenerationsRestorable
  <2> QED
    BY <2>2 DEF BackupInv, BackupsUsable
<1> QED
  BY <1>1, <1>2, InitBackup, PTL DEF Spec

\* prune_generations gives up a generation only when Retention newer ones can
\* be restored.
THEOREM PruningKeepsRestorePoints ==
  ASSUME ~ClockStepsBack PROVE Spec => RestorePointsKept
<1>1. BackupInv /\ [Next]_vars => BackupInv'
  BY StepBackup
<1>2. ASSUME BackupInv, [Next]_vars
      PROVE  \A g \in DOMAIN generations :
               g \notin damaged /\ (g \notin DOMAIN generations' \/ g \in damaged') =>
                 Cardinality({h \in Newer(g) : SelfContained(h)}) >= Retention
  <2> SUFFICES ASSUME NEW g \in DOMAIN generations, g \notin damaged,
                      g \notin DOMAIN generations' \/ g \in damaged'
               PROVE  Cardinality({h \in Newer(g) : SelfContained(h)}) >= Retention
    OBVIOUS
  <2>1. BeginRemove(g)
    BY <1>2
       DEF Next, Upload, Refer, BackupStep, Begin, BeginRemove, EndRemove, SnapshotDatabase,
           ListRoot, CopyDone, Rename, PruneDone, BackupFails, ListDirectory, CopyFile, Crash,
           vars, keptVars
  <2>2. Cardinality(Newer(g)) >= Retention /\ Older(g) = {}
    BY <2>1 DEF BeginRemove, Prunable
  <2>3. ASSUME NEW h \in Newer(g) PROVE SelfContained(h)
    <3>1. h \in DOMAIN generations /\ h > g
      BY DEF Newer
    <3>2. h \notin damaged
      BY <1>2, <3>1 DEF BackupInv, OldestRemoved, NamesDrawn, Names, Older
    <3> QED
      BY <1>2, <3>1, <3>2, CompleteIsContained DEF BackupInv
  <2>4. {h \in Newer(g) : SelfContained(h)} = Newer(g)
    BY <2>3
  <2> QED
    BY <2>2, <2>4
<1> QED
  BY <1>1, <1>2, InitBackup, PTL DEF Spec, RestorePointsKept
=============================================================================
