--------------------------- MODULE ArtifactBucket ---------------------------
(***************************************************************************)
(* The objects of the artifact bucket that a serving process reads: the    *)
(* channel pointer (stable.json), and for every version its manifest.json  *)
(* and model.pkl.  The training repository writes them; it is not in this  *)
(* repository, so its writes are modelled as they look from here: at any   *)
(* time any of these objects may be put with any contents, the misfiled    *)
(* and corrupted ones of tests/integration/test_s3_contract.py included.   *)
(***************************************************************************)
EXTENDS Naturals

CONSTANTS
    Versions,       \* the version folders v1, v2, ... of one model
    Categories,     \* category names a file may claim
    Names,          \* (project, model_name) pairs a file may claim
    OwnName,        \* the (project, model_name) this process is configured for
    Blobs,          \* contents a model.pkl may have
    None,           \* an absent object, and the absence of any other value
    MaxPuts         \* BOUND: writes of the training side

VARIABLES
    pointer,        \* the channel pointer, or None
    manifest,       \* version -> its manifest, or None
    pkl,            \* version -> the bytes of its model.pkl, or None
    promoted,       \* history: versions an own pointer has named so far
    stored,         \* history: <<version, manifest or blob>> pairs put so far
    puts            \* writes of the training side so far

bucketVars == <<pointer, manifest, pkl, promoted, stored, puts>>

\* SHA-256, taken to be injective: the digest of b is b, tagged.
Sha256(b) == [sha256 |-> b]

Owners == [category : Categories, name : Names]

\* version_id is left out: the schema makes it the text "v" + version.
PointerFile == [owner : Owners, version : Versions]

\* checksum is artifact_checksums["model.pkl"], None when the key is missing.
ArtifactManifest ==
    [owner : Owners, checksum : {Sha256(b) : b \in Blobs} \cup {None}]

ASSUME BucketAssumption ==
    /\ OwnName \in Names
    /\ None \notin PointerFile \cup ArtifactManifest \cup Blobs \cup Versions
    /\ None \notin {Sha256(b) : b \in Blobs}
    /\ MaxPuts \in Nat

\* The project and model_name a file claims are this process's own.
InScope(file) == file.owner.name = OwnName

\* The versions a pointer gives the serving process leave to serve.
Grants(p) == IF p # None /\ InScope(p) THEN {p.version} ELSE {}

\* The files of the version folders, each with the version it is filed under.
Holdings ==
    {<<v, manifest[v]>> : v \in {w \in Versions : manifest[w] # None}}
    \cup {<<v, pkl[v]>> : v \in {w \in Versions : pkl[w] # None}}

\* A process may start against any contents of the bucket.
BucketInit ==
    /\ pointer \in PointerFile \cup {None}
    /\ manifest \in [Versions -> ArtifactManifest \cup {None}]
    /\ pkl \in [Versions -> Blobs \cup {None}]
    /\ promoted = Grants(pointer)
    /\ stored = Holdings
    /\ puts = 0

CountPut == puts < MaxPuts /\ puts' = puts + 1

PutPointer(p) ==
    /\ CountPut
    /\ pointer' = p
    /\ promoted' = promoted \cup Grants(p)
    /\ UNCHANGED <<manifest, pkl, stored>>

PutManifest(v, m) ==
    /\ CountPut
    /\ manifest' = [manifest EXCEPT ![v] = m]
    /\ stored' = stored \cup {<<v, m>>}
    /\ UNCHANGED <<pointer, pkl, promoted>>

PutModel(v, b) ==
    /\ CountPut
    /\ pkl' = [pkl EXCEPT ![v] = b]
    /\ stored' = stored \cup {<<v, b>>}
    /\ UNCHANGED <<pointer, manifest, promoted>>

Training ==
    \/ \E p \in PointerFile : PutPointer(p)
    \/ \E v \in Versions, m \in ArtifactManifest : PutManifest(v, m)
    \/ \E v \in Versions, b \in Blobs : PutModel(v, b)

BucketTypeOK ==
    /\ pointer \in PointerFile \cup {None}
    /\ manifest \in [Versions -> ArtifactManifest \cup {None}]
    /\ pkl \in [Versions -> Blobs \cup {None}]
    /\ promoted \subseteq Versions
    /\ stored \subseteq Versions \X (ArtifactManifest \cup Blobs)
    /\ puts \in 0..MaxPuts

\* What version v's folder must hold for a reload of it to succeed.
Sound(v) ==
    /\ manifest[v] # None
    /\ InScope(manifest[v])
    /\ pkl[v] # None
    /\ manifest[v].checksum = Sha256(pkl[v])
=============================================================================
