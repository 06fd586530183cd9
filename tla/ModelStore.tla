----------------------------- MODULE ModelStore -----------------------------
(***************************************************************************)
(* loader.py: ModelStore keeps the served model in _current and replaces   *)
(* it in reload(), which any thread of the process may call: the boot, the *)
(* background reloader, and the workers that answer POST /reload.  The     *)
(* lock guards only the two accesses to _current, so calls interleave at   *)
(* every read of the bucket, with each other and with the training side.   *)
(* An action is the code between two such accesses.                        *)
(***************************************************************************)
EXTENDS ArtifactBucket

CONSTANTS
    Threads,        \* the threads that may call reload()
    MaxFaults       \* BOUND: store calls and unpicklings that fail

VARIABLES
    current,        \* _current: the served model, or None
    pc,             \* thread -> where its reload() is, or how it ended
    ptr,            \* thread -> the pointer its reload() has read
    man,            \* thread -> the manifest its reload() has read
    got,            \* thread -> the model its reload() unpickled or returns
    window,         \* history: thread -> versions live since its call began
    faults          \* failures so far

callVars == <<current, pc, ptr, man, got, faults>>
storeVars == <<bucketVars, callVars, window>>

LoadedModel == [pointer : PointerFile, manifest : ArtifactManifest, model : Blobs]

\* How reload() ends: it returns a model, or raises LookupError, RuntimeError
\* or anything else, which is how its callers tell failures apart.
Failures == {"LookupError", "RuntimeError", "OtherError"}
Outcomes == Failures \cup {"loaded"}
InCall == {"pointer", "compare", "manifest", "download", "swap"}

ASSUME StoreAssumption ==
    /\ None \notin LoadedModel
    /\ MaxFaults \in Nat

StoreInit ==
    /\ BucketInit
    /\ current = None
    /\ pc = [t \in Threads |-> "idle"]
    /\ ptr = [t \in Threads |-> None]
    /\ man = [t \in Threads |-> None]
    /\ got = [t \in Threads |-> None]
    /\ window = [t \in Threads |-> {}]
    /\ faults = 0

-----------------------------------------------------------------------------
\* Thread t's call goes on to a step.
Goto(t, step) == pc' = [pc EXCEPT ![t] = step]

\* Mutant of Raise: a failing reload drops the served model.
RaiseUnloading(t, failure) ==
    Goto(t, failure) /\ current' = None /\ UNCHANGED <<ptr, man, got, faults>>

\* It ends by raising.
Raise(t, failure) == Goto(t, failure) /\ UNCHANGED <<current, ptr, man, got, faults>>

\* A file is taken only when it claims this process's project and model.
Accepts(file) == file # None /\ InScope(file)

Call(t) ==
    /\ pc[t] = "idle"
    /\ Goto(t, "pointer")
    /\ window' = [window EXCEPT ![t] = Grants(pointer)]
    /\ UNCHANGED <<current, ptr, man, got, faults>>

\* Mutant of ReadPointer: a reload waits for a pointer that is not there.
ReadPointerWaiting(t) ==
    /\ pc[t] = "pointer"
    /\ \/ pointer # None /\ ~Accepts(pointer) /\ Raise(t, "RuntimeError")
       \/ /\ Accepts(pointer)
          /\ ptr' = [ptr EXCEPT ![t] = pointer]
          /\ Goto(t, "compare")
          /\ UNCHANGED <<current, man, got, faults>>

ReadPointer(t) ==
    /\ pc[t] = "pointer"
    /\ \/ pointer = None /\ Raise(t, "LookupError")
       \/ pointer # None /\ ~Accepts(pointer) /\ Raise(t, "RuntimeError")
       \/ /\ Accepts(pointer)
          /\ ptr' = [ptr EXCEPT ![t] = pointer]
          /\ Goto(t, "compare")
          /\ UNCHANGED <<current, man, got, faults>>

\* Mutant of Serves: any served model is taken for an unchanged one.
ServesAny(p) == current # None

\* The version comparison, under the lock: an unchanged version ends the call.
Serves(p) == current # None /\ current.pointer.version = p.version

Compare(t) ==
    /\ pc[t] = "compare"
    /\ IF Serves(ptr[t])
         THEN got' = [got EXCEPT ![t] = current] /\ Goto(t, "loaded")
         ELSE Goto(t, "manifest") /\ UNCHANGED got
    /\ UNCHANGED <<current, ptr, man, faults>>

ReadManifest(t) ==
    /\ pc[t] = "manifest"
    /\ LET m == manifest[ptr[t].version] IN
       IF Accepts(m) /\ m.checksum # None
         THEN /\ man' = [man EXCEPT ![t] = m]
              /\ Goto(t, "download")
              /\ UNCHANGED <<current, ptr, got, faults>>
         ELSE Raise(t, "RuntimeError")

\* Mutant of Verified: the digest check is dropped.
Unverified(blob, m) == TRUE

\* The bytes match the checksum of the manifest that was read before them.
Verified(blob, m) == Sha256(blob) = m.checksum

\* Mutant of Download: bytes that do not match make the reload start again.
DownloadAgain(t) ==
    /\ pc[t] = "download"
    /\ LET blob == pkl[ptr[t].version] IN
       \/ blob = None /\ Raise(t, "OtherError")
       \/ blob # None /\ ~Verified(blob, man[t]) /\ Goto(t, "pointer")
          /\ UNCHANGED <<current, ptr, man, got, faults>>
       \/ /\ blob # None /\ Verified(blob, man[t])
          /\ got' = [got EXCEPT ![t] =
                        [pointer |-> ptr[t], manifest |-> man[t], model |-> blob]]
          /\ Goto(t, "swap")
          /\ UNCHANGED <<current, ptr, man, faults>>

Download(t) ==
    /\ pc[t] = "download"
    /\ LET blob == pkl[ptr[t].version] IN
       \/ blob = None /\ Raise(t, "OtherError")
       \/ blob # None /\ ~Verified(blob, man[t]) /\ Raise(t, "RuntimeError")
       \/ /\ blob # None /\ Verified(blob, man[t])
          /\ got' = [got EXCEPT ![t] =
                        [pointer |-> ptr[t], manifest |-> man[t], model |-> blob]]
          /\ Goto(t, "swap")
          /\ UNCHANGED <<current, ptr, man, faults>>

\* Mutant of Swap: the record is published before its model is unpickled.
SwapUnpickled(t) ==
    /\ pc[t] = "swap"
    /\ current' = [got[t] EXCEPT !.model = None]
    /\ Goto(t, "loaded")
    /\ UNCHANGED <<ptr, man, got, faults>>

Swap(t) ==
    /\ pc[t] = "swap"
    /\ current' = got[t]
    /\ Goto(t, "loaded")
    /\ UNCHANGED <<ptr, man, got, faults>>

\* A store call that has used up its retries, or a file that does not parse.
StoreError(t) ==
    /\ pc[t] \in {"pointer", "manifest", "download"}
    /\ faults < MaxFaults /\ faults' = faults + 1
    /\ Goto(t, "OtherError")
    /\ UNCHANGED <<current, ptr, man, got>>

\* pickle.load runs after the digest check and may raise any exception,
\* KeyError (a LookupError) and RuntimeError among them.
UnpickleError(t, failure) ==
    /\ pc[t] = "download"
    /\ LET blob == pkl[ptr[t].version] IN blob # None /\ Verified(blob, man[t])
    /\ faults < MaxFaults /\ faults' = faults + 1
    /\ Goto(t, failure)
    /\ UNCHANGED <<current, ptr, man, got>>

\* The caller takes the result; the locals of the call are gone.
Return(t) ==
    /\ pc[t] \in Outcomes
    /\ Goto(t, "idle")
    /\ ptr' = [ptr EXCEPT ![t] = None]
    /\ man' = [man EXCEPT ![t] = None]
    /\ got' = [got EXCEPT ![t] = None]
    /\ window' = [window EXCEPT ![t] = {}]
    /\ UNCHANGED <<current, faults>>

\* The steps of reload() between its call and its return.
Work(t) ==
    \/ ReadPointer(t) \/ Compare(t) \/ ReadManifest(t) \/ Download(t) \/ Swap(t)
    \/ StoreError(t)
    \/ \E failure \in Failures : UnpickleError(t, failure)

Reload(t) ==
    \/ Call(t) /\ UNCHANGED bucketVars
    \/ Work(t) /\ UNCHANGED <<bucketVars, window>>
    \/ Return(t) /\ UNCHANGED bucketVars

\* The training side writes; a pointer it flips is live for the calls in flight.
Train ==
    /\ Training
    /\ window' = [t \in Threads |->
                    IF pc[t] = "idle" THEN {} ELSE window[t] \cup Grants(pointer')]
    /\ UNCHANGED callVars

StoreNext == Train \/ \E t \in Threads : Reload(t)

StoreSpec == StoreInit /\ [][StoreNext]_storeVars

-----------------------------------------------------------------------------
\* Every variable holds a value of its kind.
StoreTypeOK ==
    /\ BucketTypeOK
    /\ current \in LoadedModel \cup {None}
    /\ pc \in [Threads -> InCall \cup Outcomes \cup {"idle"}]
    /\ ptr \in [Threads -> PointerFile \cup {None}]
    /\ man \in [Threads -> ArtifactManifest \cup {None}]
    /\ got \in [Threads -> LoadedModel \cup {None}]
    /\ window \in [Threads -> SUBSET Versions]
    /\ faults \in 0..MaxFaults

\* A model whose pointer and manifest name this process's project and model,
\* whose version has been promoted, whose manifest and bytes have both been in
\* that version's folder, and whose bytes have the digest the manifest gives.
Genuine(m) ==
    /\ InScope(m.pointer) /\ InScope(m.manifest)
    /\ m.pointer.version \in promoted
    /\ <<m.pointer.version, m.manifest>> \in stored
    /\ <<m.pointer.version, m.model>> \in stored
    /\ m.manifest.checksum = Sha256(m.model)

\* What is served is genuine, although the pointer, the manifest and the bytes
\* come from three reads of a bucket that may be rewritten between any two of
\* them, and other threads reload meanwhile (loader.py, reload).
ServedGenuine == current # None => Genuine(current)

\* A reload that returns a model returns one of a version that was live at some
\* time during that very call, be it freshly loaded or found already served:
\* POST /reload never answers 200 with a version that was superseded before
\* the request came in (loader.py, the unchanged-version return and the swap).
ReloadAnswersPointer ==
    \A t \in Threads : pc[t] = "loaded" =>
        got[t] # None /\ got[t].pointer.version \in window[t]

\* A version's model is intact when a manifest of this process's own that gives
\* its digest has been in the version's folder.
Intact ==
    {x \in Versions \X Blobs :
        /\ x \in stored
        /\ \E m \in ArtifactManifest :
              /\ <<x[1], m>> \in stored
              /\ InScope(m)
              /\ m.checksum = Sha256(x[2])}

Serving == INSTANCE ServedModel WITH
    Models <- Blobs,
    intact <- Intact,
    served <- IF current = None THEN None
              ELSE <<current.pointer.version, current.model>>

\* reload() implements the abstract served model: one atomic change at a time
\* between intact models of promoted versions, and never back to none, so a
\* failing reload leaves the served model alone (loader.py, _current; app.py,
\* "keep serving the current (stale) model").
RefinesServedModel == Serving!Spec

\* The live pointer names v, and v's folder holds what a reload needs.
LiveAndSound(v) == Grants(pointer) = {v} /\ Sound(v)

ServesVersion(v) == current # None /\ current.pointer.version = v

\* Besides, no reload in flight began before that, or holds an older manifest.
Settled(v) ==
    /\ LiveAndSound(v)
    /\ \A t \in Threads :
          /\ pc[t] \in InCall => window[t] = {v}
          /\ pc[t] = "download" => man[t] = manifest[v]

\* While nobody writes to the bucket, a settled version stays settled; once
\* served it is never replaced, and every reload that ends without a fault ends
\* by serving it: it has neither a missing pointer, nor a wrong digest, nor an
\* older version to find.  This is why the service heals by itself, and why
\* only reloads that began earlier can undo it (loader.py, reload; README.md,
\* graceful startup).
SettledReloadsServe ==
    [][\A v \in Versions :
          Settled(v) /\ UNCHANGED <<pointer, manifest, pkl>> =>
             /\ Settled(v)'
             /\ ServesVersion(v) => ServesVersion(v)'
             /\ \A t \in Threads :
                   pc[t] \in InCall /\ pc'[t] \in Outcomes /\ faults' = faults =>
                      pc'[t] = "loaded" /\ ServesVersion(v)']_storeVars

\* What makes the above inductive: the history covers the bucket as it is now,
\* and what a call has read so far is of the kind its next step relies on.
BucketRecorded ==
    /\ Grants(pointer) \subseteq promoted
    /\ Holdings \subseteq stored
    /\ \A t \in Threads : pc[t] # "idle" => Grants(pointer) \subseteq window[t]

CallProgress(t) ==
    /\ pc[t] \in {"compare", "manifest", "download", "swap"} =>
          /\ ptr[t] # None /\ InScope(ptr[t])
          /\ ptr[t].version \in promoted \cap window[t]
    /\ pc[t] = "download" =>
          /\ man[t] # None /\ InScope(man[t])
          /\ <<ptr[t].version, man[t]>> \in stored
    /\ pc[t] = "swap" => got[t] # None /\ got[t].pointer = ptr[t] /\ Genuine(got[t])

StoreInv ==
    /\ StoreTypeOK
    /\ BucketRecorded
    /\ ServedGenuine
    /\ ReloadAnswersPointer
    /\ \A t \in Threads : CallProgress(t)

\* Once the served version is the live one, no reload replaces it by another:
\* README.md says that after a swap new requests serve the new model, and the
\* class is a "single-flight model loader" (loader.py).
SwapKeepsLiveVersion ==
    [][(current # None /\ current.pointer.version \in Grants(pointer)) =>
            current'.pointer.version \in Grants(pointer) \cup Grants(pointer')]_storeVars

\* A served pointer and manifest name one and the same category: contracts.py
\* says that a mismatched (category, project, model_name) is rejected on read.
ServedOneCategory ==
    current # None => current.pointer.owner = current.manifest.owner
=============================================================================
