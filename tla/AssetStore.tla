----------------------------- MODULE AssetStore -----------------------------
(***************************************************************************)
(* The content-addressed image store of assets-fs: a blob and a sidecar    *)
(* per digest, each installed by writing a temporary file beside it and    *)
(* hard-linking that to the final name.  Uploads run concurrently on       *)
(* blocking threads; the process may die between any two of their steps.   *)
(*                                                                         *)
(* An upload is named by its request, which also stands for the metadata   *)
(* (file name, time) its sidecar would hold.  Formats and limits are       *)
(* checked before the first step and are not modelled.                     *)
(***************************************************************************)
EXTENDS Integers, FiniteSets

CONSTANTS
  Digests,
  Uploads,     \* upload requests
  DigestOf,    \* the digest of the bytes each request carries
  NoRecord     \* no sidecar, no answer

ASSUME AssetAssumption ==
  /\ DigestOf \in [Uploads -> Digests]
  /\ NoRecord \notin Uploads

VARIABLES
  directories,  \* digests whose directory exists
  blobs,        \* digests whose blob is installed
  sidecars,     \* per digest: the upload whose metadata is installed
  temporaries,  \* temporary files, by the upload and the part they are for
  upload,       \* per upload: its next step
  answer        \* per upload: the record it was answered with

assetVars == <<directories, blobs, sidecars, temporaries, upload, answer>>

Parts == {"blob", "sidecar"}
Temporaries == [upload : Uploads, part : Parts]

AssetTypeOK ==
  /\ directories \in SUBSET Digests
  /\ blobs \in SUBSET Digests
  /\ sidecars \in [Digests -> Uploads \cup {NoRecord}]
  /\ temporaries \in SUBSET Temporaries
  /\ upload \in [Uploads -> {"new", "blob", "linkBlob", "unlinkBlob", "sidecar",
                             "linkSidecar", "created", "existing", "ended"}]
  /\ answer \in [Uploads -> Uploads \cup {NoRecord}]

AssetInit ==
  /\ directories = {}
  /\ blobs = {}
  /\ sidecars = [d \in Digests |-> NoRecord]
  /\ temporaries = {}
  /\ upload = [u \in Uploads |-> "new"]
  /\ answer = [u \in Uploads |-> NoRecord]

Temporary(u, part) == [upload |-> u, part |-> part]
Goto(u, step) == upload' = [upload EXCEPT ![u] = step]

\* put: the directory of the digest.
CreateDirectory(u) ==
  /\ upload[u] = "new"
  /\ directories' = directories \cup {DigestOf[u]}
  /\ Goto(u, "blob")
  /\ UNCHANGED <<blobs, sidecars, temporaries, answer>>

\* atomic_install_noclobber of the blob: a temporary file of its own name ...
WriteBlob(u) ==
  /\ upload[u] = "blob"
  /\ temporaries' = temporaries \cup {Temporary(u, "blob")}
  /\ Goto(u, "linkBlob")
  /\ UNCHANGED <<directories, blobs, sidecars, answer>>

\* ... linked to the final name unless that exists, ...
LinkBlob(u) ==
  /\ upload[u] = "linkBlob"
  /\ blobs' = blobs \cup {DigestOf[u]}
  /\ Goto(u, "unlinkBlob")
  /\ UNCHANGED <<directories, sidecars, temporaries, answer>>

\* ... and removed; an existing blob is compared (it is the same: its name is
\* its digest).
UnlinkBlob(u) ==
  /\ upload[u] = "unlinkBlob"
  /\ temporaries' = temporaries \ {Temporary(u, "blob")}
  /\ Goto(u, "sidecar")
  /\ UNCHANGED <<directories, blobs, sidecars, answer>>

\* The same for the sidecar.
WriteSidecar(u) ==
  /\ upload[u] = "sidecar"
  /\ temporaries' = temporaries \cup {Temporary(u, "sidecar")}
  /\ Goto(u, "linkSidecar")
  /\ UNCHANGED <<directories, blobs, sidecars, answer>>

\* Mutant: a rename, which replaces the sidecar of an earlier upload.
RenameSidecar(u) ==
  /\ upload[u] = "linkSidecar"
  /\ sidecars' = [sidecars EXCEPT ![DigestOf[u]] = u]
  /\ Goto(u, "created")
  /\ UNCHANGED <<directories, blobs, temporaries, answer>>

LinkSidecar(u) ==
  /\ upload[u] = "linkSidecar"
  /\ \/ /\ sidecars[DigestOf[u]] = NoRecord
        /\ sidecars' = [sidecars EXCEPT ![DigestOf[u]] = u]
        /\ Goto(u, "created")
     \/ /\ sidecars[DigestOf[u]] # NoRecord
        /\ Goto(u, "existing")
        /\ UNCHANGED sidecars
  /\ UNCHANGED <<directories, blobs, temporaries, answer>>

\* put returns its candidate, or what read_and_validate_record reads.
Answer(u) ==
  /\ upload[u] \in {"created", "existing"}
  /\ temporaries' = temporaries \ {Temporary(u, "sidecar")}
  /\ answer' = [answer EXCEPT ![u] =
       IF upload[u] = "created" THEN u ELSE sidecars[DigestOf[u]]]
  /\ Goto(u, "ended")
  /\ UNCHANGED <<directories, blobs, sidecars>>

\* An I/O error ends the upload without an answer.  What it installed stays;
\* removing its temporary file is attempted once.
UploadFails(u) ==
  /\ upload[u] \notin {"new", "ended"}
  /\ temporaries' \in {temporaries, {t \in temporaries : t.upload # u}}
  /\ Goto(u, "ended")
  /\ UNCHANGED <<directories, blobs, sidecars, answer>>

UploadStep(u) ==
  \/ CreateDirectory(u) \/ WriteBlob(u) \/ LinkBlob(u) \/ UnlinkBlob(u)
  \/ WriteSidecar(u) \/ LinkSidecar(u) \/ Answer(u) \/ UploadFails(u)

\* The process dies: temporary files stay behind.
AssetCrash ==
  /\ upload' = [u \in Uploads |-> IF upload[u] = "new" THEN "new" ELSE "ended"]
  /\ UNCHANGED <<directories, blobs, sidecars, temporaries, answer>>

AssetNext ==
  \/ \E u \in Uploads : UploadStep(u)
  \/ AssetCrash

AssetSpec == AssetInit /\ [][AssetNext]_assetVars

\* get succeeds: both files are there.
Readable(d) == d \in blobs /\ sidecars[d] # NoRecord

---------------------------------------------------------------------------

\* An answered upload can be read, now and for good, and with the very record
\* it was answered with, however many uploads of the same bytes raced and
\* whatever a crash left of others.
AnsweredReadable ==
  \A u \in Uploads : answer[u] # NoRecord =>
    Readable(DigestOf[u]) /\ sidecars[DigestOf[u]] = answer[u]
=============================================================================
