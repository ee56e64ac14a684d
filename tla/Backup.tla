------------------------------- MODULE Backup -------------------------------
(***************************************************************************)
(* Managed backups (backup.rs) beside a live site: authors upload images   *)
(* (AssetStore) and commit revisions that refer to them, while the backup  *)
(* worker copies the database and then the blob tree into a staging        *)
(* directory, verifies it, renames it to a generation and prunes the old   *)
(* ones.  Every file operation that another actor or a crash can get       *)
(* between is a step.                                                      *)
(*                                                                         *)
(* The database is the set of digests its revisions refer to.  Each digest *)
(* has a directory of its own (its first two characters).  A generation is *)
(* named by a number whose order is the order of the names: the time and,  *)
(* within a second, a version 7 UUID.                                      *)
(***************************************************************************)
EXTENDS AssetStore

CONSTANTS
  MaxName,         \* bound: names of generations are 1..MaxName
  Retention,       \* generations kept; at least 2 in the code
  MaxCrashes,      \* bound: process restarts
  ClockStepsBack   \* may the system clock be set back between two backups?

Names == 1..MaxName

ASSUME BackupAssumption ==
  /\ MaxName \in Nat
  /\ Retention \in Nat \ {0, 1}
  /\ MaxCrashes \in Nat
  /\ ClockStepsBack \in BOOLEAN

VARIABLES
  references,    \* digests the committed revisions refer to
  used,          \* names drawn so far
  step,          \* next step of the backup worker
  name,          \* the name of the generation being made, 0 for none
  snapshot,      \* staging: digests the copied database refers to
  unlisted,      \* directories of the blob tree still to be listed
  listed,        \* files of the current directory still to be copied
  copied,        \* staging: installed files copied
  generations,   \* directories named "generation-...": what they hold
  damaged,       \* generations whose removal was begun
  status,        \* BackupStatus.state
  lastGeneration,  \* BackupStatus.last_generation, 0 for None
  crashes

stagingVars == <<name, snapshot, unlisted, listed, copied>>
keptVars == <<generations, damaged>>
statusVars == <<status, lastGeneration>>
vars == <<assetVars, references, used, step, stagingVars, keptVars, statusVars, crashes>>

\* A file of the blob tree: an installed part of a digest, or a temporary.
Installed == [digest : Digests, part : Parts]
Generation == [references : SUBSET Digests, files : SUBSET Installed]

Steps == {"idle", "snapshot", "root", "copy", "verify", "prune", "removing"}

TypeOK ==
  /\ AssetTypeOK
  /\ references \in SUBSET Digests
  /\ used \in SUBSET Names
  /\ step \in Steps
  /\ name \in Names \cup {0}
  /\ snapshot \in SUBSET Digests
  /\ unlisted \in SUBSET Digests
  /\ listed \in SUBSET (Installed \cup Temporaries)
  /\ copied \in SUBSET Installed
  /\ DOMAIN generations \in SUBSET Names
  /\ \A g \in DOMAIN generations : generations[g] \in Generation
  /\ damaged \in SUBSET DOMAIN generations
  /\ status \in {"waiting", "running", "healthy", "degraded"}
  /\ lastGeneration \in Names \cup {0}
  /\ crashes \in 0..MaxCrashes

NoStaging ==
  name' = 0 /\ snapshot' = {} /\ unlisted' = {} /\ listed' = {} /\ copied' = {}

Init ==
  /\ AssetInit
  /\ references = {}
  /\ used = {}
  /\ step = "idle"
  /\ name = 0 /\ snapshot = {} /\ unlisted = {} /\ listed = {} /\ copied = {}
  /\ generations = [g \in {} |-> NoRecord]
  /\ damaged = {}
  /\ status = "waiting"
  /\ lastGeneration = 0
  /\ crashes = 0

---------------------------------------------------------------------------
(* The live site. *)

Upload(u) ==
  /\ UploadStep(u)
  /\ UNCHANGED <<references, used, step, stagingVars, keptVars, statusVars, crashes>>

\* An author commits a revision with the address an upload was answered with.
Refer(u) ==
  /\ answer[u] # NoRecord
  /\ references' = references \cup {DigestOf[u]}
  /\ UNCHANGED <<assetVars, used, step, stagingVars, keptVars, statusVars, crashes>>

---------------------------------------------------------------------------
(* create_generation *)

\* The files of the directory of digest d, as read_dir finds them.
Listing(d) ==
  {f \in Installed : f.digest = d /\ (f.part = "blob" => d \in blobs)
                                  /\ (f.part = "sidecar" => sidecars[d] # NoRecord)}
  \cup {t \in temporaries : DigestOf[t.upload] = d}

\* run_once: a name is drawn and the staging directory created.
Begin(g) ==
  /\ step = "idle"
  /\ g \in Names \ used
  /\ ClockStepsBack \/ \A h \in used : h < g
  /\ used' = used \cup {g}
  /\ name' = g
  /\ status' = "running"
  /\ step' = "snapshot"
  /\ UNCHANGED <<assetVars, references, snapshot, unlisted, listed, copied, keptVars,
                 lastGeneration, crashes>>

\* backup_to: the online backup is one consistent snapshot of the database.
SnapshotDatabase ==
  /\ step = "snapshot"
  /\ snapshot' = references
  /\ step' = "root"
  /\ UNCHANGED <<assetVars, references, used, name, unlisted, listed, copied, keptVars,
                 statusVars, crashes>>

\* copy_tree lists the directories ...
ListRoot ==
  /\ step = "root"
  /\ unlisted' = directories
  /\ step' = "copy"
  /\ UNCHANGED <<assetVars, references, used, name, snapshot, listed, copied, keptVars,
                 statusVars, crashes>>

\* ... and then one after the other their files, ...
ListDirectory(d) ==
  /\ step = "copy"
  /\ listed = {}
  /\ d \in unlisted
  /\ unlisted' = unlisted \ {d}
  /\ listed' = Listing(d)
  /\ UNCHANGED <<assetVars, references, used, step, name, snapshot, copied, keptVars,
                 statusVars, crashes>>

\* ... which it copies if they still exist.
CopyFile(f) ==
  /\ step = "copy"
  /\ f \in listed
  /\ f \in Installed \cup temporaries
  /\ listed' = listed \ {f}
  /\ copied' = copied \cup ({f} \cap Installed)
  /\ UNCHANGED <<assetVars, references, used, step, name, snapshot, unlisted, keptVars,
                 statusVars, crashes>>

CopyDone ==
  /\ step = "copy"
  /\ unlisted = {} /\ listed = {}
  /\ step' = "verify"
  /\ UNCHANGED <<assetVars, references, used, stagingVars, keptVars, statusVars, crashes>>

\* Mutant: the database is copied after the blob tree.
RenameLateSnapshot ==
  /\ step = "verify"
  /\ generations' = [g \in DOMAIN generations \cup {name} |->
       IF g = name THEN [references |-> references, files |-> copied] ELSE generations[g]]
  /\ snapshot' = {} /\ copied' = {}
  /\ step' = "prune"
  /\ UNCHANGED <<assetVars, references, used, name, unlisted, listed, damaged,
                 statusVars, crashes>>

\* The manifest is written and verified against the staging directory, which
\* is then renamed.
Rename ==
  /\ step = "verify"
  /\ generations' = [g \in DOMAIN generations \cup {name} |->
       IF g = name THEN [references |-> snapshot, files |-> copied] ELSE generations[g]]
  /\ snapshot' = {} /\ copied' = {}
  /\ step' = "prune"
  /\ UNCHANGED <<assetVars, references, used, name, unlisted, listed, damaged,
                 statusVars, crashes>>

Newer(g) == {h \in DOMAIN generations : h > g}
Older(g) == {h \in DOMAIN generations : h < g}

\* Mutant: one generation too many is pruned.
PrunableEarly(g) == Cardinality(Newer(g)) >= Retention - 1

\* prune_generations: the oldest beyond the retention, ...
Prunable(g) == Cardinality(Newer(g)) >= Retention

\* Mutant: the newest is pruned, as if the names were sorted the other way.
BeginRemoveNewest(g) ==
  /\ step = "prune"
  /\ g \in DOMAIN generations
  /\ Cardinality(Older(g)) >= Retention /\ Newer(g) = {}
  /\ damaged' = damaged \cup {g}
  /\ step' = "removing"
  /\ UNCHANGED <<assetVars, references, used, stagingVars, generations, statusVars,
                 crashes>>

\* ... oldest first.  remove_dir_all empties the directory ...
BeginRemove(g) ==
  /\ step = "prune"
  /\ g \in DOMAIN generations
  /\ Prunable(g) /\ Older(g) = {}
  /\ damaged' = damaged \cup {g}
  /\ step' = "removing"
  /\ UNCHANGED <<assetVars, references, used, stagingVars, generations, statusVars,
                 crashes>>

\* ... and removes it last.
EndRemove(g) ==
  /\ step = "removing"
  /\ g \in damaged /\ \A h \in damaged : g <= h
  /\ generations' = [h \in DOMAIN generations \ {g} |-> generations[h]]
  /\ damaged' = damaged \ {g}
  /\ step' = "prune"
  /\ UNCHANGED <<assetVars, references, used, stagingVars, statusVars, crashes>>

PruneDone ==
  /\ step = "prune"
  /\ \A g \in DOMAIN generations : ~Prunable(g)
  /\ status' = "healthy"
  /\ lastGeneration' = name
  /\ step' = "idle"
  /\ NoStaging
  /\ UNCHANGED <<assetVars, references, used, keptVars, crashes>>

\* An error at any step, such as a temporary file that is gone when it is to
\* be copied: the staging directory is removed, a renamed generation stays.
BackupFails ==
  /\ step # "idle"
  /\ status' = "degraded"
  /\ step' = "idle"
  /\ NoStaging
  /\ UNCHANGED <<assetVars, references, used, keptVars, lastGeneration, crashes>>

\* The process dies and starts again, and with it the worker.
Crash ==
  /\ crashes < MaxCrashes
  /\ crashes' = crashes + 1
  /\ AssetCrash
  /\ step' = "idle"
  /\ status' = "waiting"
  /\ lastGeneration' = 0
  /\ NoStaging
  /\ UNCHANGED <<references, used, keptVars>>

BackupStep ==
  \/ \E g \in Names : Begin(g) \/ BeginRemove(g) \/ EndRemove(g)
  \/ SnapshotDatabase \/ ListRoot \/ CopyDone \/ Rename \/ PruneDone \/ BackupFails
  \/ \E d \in Digests : ListDirectory(d)
  \/ \E f \in listed : CopyFile(f)

Next ==
  \/ \E u \in Uploads : Upload(u) \/ Refer(u)
  \/ BackupStep
  \/ Crash

Spec == Init /\ [][Next]_vars

---------------------------------------------------------------------------
(* Properties. *)

\* What a restore needs of a generation: every image its database refers to.
SelfContained(g) ==
  /\ g \notin damaged
  /\ \A d \in generations[g].references : \A part \in Parts :
       [digest |-> d, part |-> part] \in generations[g].files

\* Every generation among the newest Retention can be restored, although
\* authors upload and publish while it is made and a crash may come between
\* any two file operations, those of the pruning too.
KeptGenerationsRestorable ==
  \A g \in DOMAIN generations : Cardinality(Newer(g)) < Retention => SelfContained(g)

\* A generation is only given up when Retention newer ones can be restored.
RestorePointsKept ==
  [][\A g \in DOMAIN generations :
       g \notin damaged /\ (g \notin DOMAIN generations' \/ g \in damaged') =>
         Cardinality({h \in Newer(g) : SelfContained(h)}) >= Retention]_vars

\* While the status is healthy, the generation it names can be restored, as
\* "lastGenerationAvailable" says.
HealthyGenerationAvailable ==
  status = "healthy" =>
    /\ lastGeneration \in DOMAIN generations
    /\ SelfContained(lastGeneration)

\* The generations that are kept, and the one the status names, can be restored
\* from what their directories hold, wherever a run failed or was cut short.
BackupsUsable == KeptGenerationsRestorable /\ HealthyGenerationAvailable
=============================================================================
