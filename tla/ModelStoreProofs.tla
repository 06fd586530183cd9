-------------------------- MODULE ModelStoreProofs --------------------------
(***************************************************************************)
(* Proofs about ModelStore for any bucket, any number of threads and any   *)
(* interleaving of their reloads with the training side's writes: types,   *)
(* what is served, what a reload answers, and the refinement of            *)
(* ServedModel.  The inductive invariant is StoreInv: a thread acts on     *)
(* what it has read earlier, so an invariant must say what is known of     *)
(* those reads (CallProgress) and that the history variables cover the     *)
(* bucket they were made from (BucketRecorded).                            *)
(***************************************************************************)
EXTENDS ModelStore, TLAPS

-----------------------------------------------------------------------------
(* The bucket alone.                                                       *)

LEMMA BucketInitType == BucketInit => BucketTypeOK
  BY BucketAssumption DEF BucketInit, BucketTypeOK, Grants, Holdings, PointerFile

LEMMA TrainingType == BucketTypeOK /\ Training => BucketTypeOK'
<1> SUFFICES ASSUME BucketTypeOK, Training
             PROVE  BucketTypeOK'
  OBVIOUS
<1> USE BucketAssumption DEF BucketTypeOK, CountPut
<1>1. CASE \E p \in PointerFile : PutPointer(p)
  BY <1>1 DEF PutPointer, Grants, PointerFile
<1>2. CASE \E v \in Versions, m \in ArtifactManifest : PutManifest(v, m)
  BY <1>2 DEF PutManifest
<1>3. CASE \E v \in Versions, b \in Blobs : PutModel(v, b)
  BY <1>3 DEF PutModel
<1> QED
  BY <1>1, <1>2, <1>3 DEF Training

\* A version promoted once, and a file stored once, stay in the histories, and
\* the histories keep covering the bucket.
LEMMA TrainingRecords ==
  ASSUME BucketTypeOK, Training, Grants(pointer) \subseteq promoted, Holdings \subseteq stored
  PROVE  /\ promoted \subseteq promoted' /\ stored \subseteq stored'
         /\ Grants(pointer') \subseteq promoted' /\ Holdings' \subseteq stored'
<1>1. CASE \E p \in PointerFile : PutPointer(p)
  BY <1>1 DEF PutPointer, Holdings
<1>2. ASSUME NEW v \in Versions, NEW m \in ArtifactManifest, PutManifest(v, m)
      PROVE  /\ promoted \subseteq promoted' /\ stored \subseteq stored'
             /\ Grants(pointer') \subseteq promoted' /\ Holdings' \subseteq stored'
  <2>1. \A w \in Versions : manifest'[w] = IF w = v THEN m ELSE manifest[w]
    BY <1>2 DEF PutManifest, BucketTypeOK
  <2>2. Holdings' \subseteq Holdings \cup {<<v, m>>}
    BY <1>2, <2>1 DEF PutManifest, Holdings
  <2> QED
    BY <1>2, <2>2 DEF PutManifest
<1>3. ASSUME NEW v \in Versions, NEW b \in Blobs, PutModel(v, b)
      PROVE  /\ promoted \subseteq promoted' /\ stored \subseteq stored'
             /\ Grants(pointer') \subseteq promoted' /\ Holdings' \subseteq stored'
  <2>1. \A w \in Versions : pkl'[w] = IF w = v THEN b ELSE pkl[w]
    BY <1>3 DEF PutModel, BucketTypeOK
  <2>2. Holdings' \subseteq Holdings \cup {<<v, b>>}
    BY <1>3, <2>1 DEF PutModel, Holdings
  <2> QED
    BY <1>3, <2>2 DEF PutModel
<1> QED
  BY <1>1, <1>2, <1>3 DEF Training

\* A genuine model stays genuine while the histories grow.
LEMMA GenuineGrows ==
  ASSUME NEW m, Genuine(m), promoted \subseteq promoted', stored \subseteq stored'
  PROVE  Genuine(m)'
  BY DEF Genuine, InScope

-----------------------------------------------------------------------------
(* The inductive invariant, action by action.                              *)

LEMMA StoreInitInv == StoreInit => StoreInv
<1> SUFFICES ASSUME StoreInit
             PROVE  StoreInv
  OBVIOUS
<1>1. StoreTypeOK
  BY BucketInitType, StoreAssumption
  DEF StoreInit, StoreTypeOK, InCall, Outcomes, Failures
<1>2. BucketRecorded
  BY DEF BucketInit, StoreInit, BucketRecorded
<1> QED
  BY <1>1, <1>2
  DEF StoreInit, StoreInv, ServedGenuine, ReloadAnswersPointer, CallProgress

\* The training side's writes only add to what the invariant says is recorded.
LEMMA TrainInv == StoreInv /\ Train => StoreInv'
<1> SUFFICES ASSUME StoreInv, Train
             PROVE  StoreInv'
  OBVIOUS
<1>1. BucketTypeOK'
  BY TrainingType DEF StoreInv, StoreTypeOK, Train
<1>2. Grants(pointer') \subseteq Versions
  BY <1>1 DEF BucketTypeOK, Grants, PointerFile
<1>3. /\ promoted \subseteq promoted' /\ stored \subseteq stored'
      /\ Grants(pointer') \subseteq promoted' /\ Holdings' \subseteq stored'
  BY TrainingRecords DEF StoreInv, StoreTypeOK, BucketRecorded, Train
<1>4. StoreTypeOK'
  BY <1>1, <1>2 DEF StoreInv, StoreTypeOK, Train, callVars
<1>5. \A t \in Threads : pc[t] # "idle" =>
        window'[t] = window[t] \cup Grants(pointer')
  BY DEF Train
<1>6. BucketRecorded'
  BY <1>3, <1>5 DEF BucketRecorded, Train, callVars
<1>7. ServedGenuine'
  BY <1>3, GenuineGrows DEF StoreInv, ServedGenuine, Train, callVars
<1>8. ReloadAnswersPointer'
  BY <1>5 DEF StoreInv, ReloadAnswersPointer, Train, callVars
<1>9. ASSUME NEW t \in Threads
      PROVE  CallProgress(t)'
  <2>1. CallProgress(t) /\ pc' = pc /\ ptr' = ptr /\ man' = man /\ got' = got
    BY DEF StoreInv, Train, callVars
  <2>2. pc[t] = "swap" => Genuine(got[t])'
    BY <2>1, <1>3, GenuineGrows DEF CallProgress
  <2> QED
    BY <2>1, <2>2, <1>3, <1>5 DEF CallProgress, InScope
<1> QED
  BY <1>4, <1>6, <1>7, <1>8, <1>9 DEF StoreInv

\* A step of one thread's call leaves the bucket, the histories and the other
\* threads' calls as they are: only that thread's part is to be shown.
LEMMA ThreadStepInv ==
  ASSUME NEW t \in Threads, StoreInv, UNCHANGED bucketVars,
         StoreTypeOK', ServedGenuine', CallProgress(t)',
         \A u \in Threads \ {t} : /\ pc'[u] = pc[u] /\ ptr'[u] = ptr[u]
                                  /\ man'[u] = man[u] /\ got'[u] = got[u]
                                  /\ window'[u] = window[u],
         pc'[t] # "idle" => Grants(pointer) \subseteq window'[t],
         pc'[t] = "loaded" => got'[t] # None /\ got'[t].pointer.version \in window'[t]
  PROVE  StoreInv'
<1>1. BucketRecorded'
  BY DEF StoreInv, BucketRecorded, bucketVars, Grants, Holdings, InScope
<1>2. ReloadAnswersPointer'
  BY DEF StoreInv, ReloadAnswersPointer
<1>3. ASSUME NEW u \in Threads \ {t}
      PROVE  CallProgress(u)'
  BY <1>3 DEF StoreInv, CallProgress, Genuine, InScope, bucketVars
<1> QED
  BY <1>1, <1>2, <1>3 DEF StoreInv

LEMMA CallInv ==
  ASSUME NEW t \in Threads, StoreInv, Call(t), UNCHANGED bucketVars
  PROVE  StoreInv'
<1>1. Grants(pointer) \subseteq Versions
  BY DEF StoreInv, StoreTypeOK, BucketTypeOK, Grants, PointerFile
<1>2. StoreTypeOK'
  BY <1>1 DEF StoreInv, StoreTypeOK, Call, Goto, bucketVars, BucketTypeOK, InCall
<1>3. pc'[t] = "pointer" /\ window'[t] = Grants(pointer)
  BY DEF StoreInv, StoreTypeOK, Call, Goto
<1>4. ServedGenuine'
  BY DEF StoreInv, Call, ServedGenuine, Genuine, InScope, bucketVars
<1> QED
  BY <1>2, <1>3, <1>4, ThreadStepInv
  DEF StoreInv, StoreTypeOK, Call, Goto, CallProgress

LEMMA ReturnInv ==
  ASSUME NEW t \in Threads, StoreInv, Return(t), UNCHANGED bucketVars
  PROVE  StoreInv'
<1>1. StoreTypeOK'
  BY DEF StoreInv, StoreTypeOK, Return, Goto, bucketVars, BucketTypeOK
<1>2. pc'[t] = "idle"
  BY DEF StoreInv, StoreTypeOK, Return, Goto
<1>3. ServedGenuine'
  BY DEF StoreInv, Return, ServedGenuine, Genuine, InScope, bucketVars
<1> QED
  BY <1>1, <1>2, <1>3, ThreadStepInv
  DEF StoreInv, StoreTypeOK, Return, Goto, CallProgress

\* A call that ends by raising: nothing but its pc, and the fault count, moves.
LEMMA RaiseInv ==
  ASSUME NEW t \in Threads, StoreInv, UNCHANGED <<bucketVars, window>>,
         NEW failure \in Failures, Goto(t, failure), pc[t] # "idle",
         UNCHANGED <<current, ptr, man, got>>, faults' \in 0..MaxFaults
  PROVE  StoreInv'
<1>1. StoreTypeOK'
  BY DEF StoreInv, StoreTypeOK, Goto, bucketVars, BucketTypeOK, Outcomes
<1>2. pc'[t] \in Failures
  BY DEF StoreInv, StoreTypeOK, Goto
<1>3. ServedGenuine'
  BY DEF StoreInv, ServedGenuine, Genuine, InScope, bucketVars
<1> QED
  BY <1>1, <1>2, <1>3, ThreadStepInv
  DEF StoreInv, StoreTypeOK, BucketRecorded, Goto, CallProgress, Failures

LEMMA ReadPointerInv ==
  ASSUME NEW t \in Threads, StoreInv, ReadPointer(t), UNCHANGED <<bucketVars, window>>
  PROVE  StoreInv'
<1> USE DEF ReadPointer
<1>1. CASE \E failure \in Failures : Raise(t, failure)
  BY <1>1, RaiseInv DEF Raise, StoreInv, StoreTypeOK
<1>2. CASE /\ Accepts(pointer) /\ ptr' = [ptr EXCEPT ![t] = pointer]
           /\ Goto(t, "compare") /\ UNCHANGED <<current, man, got, faults>>
  <2>1. pc'[t] = "compare" /\ ptr'[t] = pointer
    BY <1>2 DEF StoreInv, StoreTypeOK, Goto
  <2>2. pointer # None /\ InScope(pointer) /\ pointer.version \in promoted \cap window[t]
    BY <1>2 DEF Accepts, Grants, StoreInv, BucketRecorded
  <2>3. StoreTypeOK'
    BY <1>2 DEF StoreInv, StoreTypeOK, Goto, bucketVars, BucketTypeOK, InCall
  <2>4. ServedGenuine'
    BY <1>2 DEF StoreInv, ServedGenuine, Genuine, InScope, bucketVars
  <2>5. CallProgress(t)'
    BY <2>1, <2>2 DEF CallProgress, InScope, bucketVars
  <2> QED
    BY <1>2, <2>1, <2>3, <2>4, <2>5, ThreadStepInv
    DEF StoreInv, StoreTypeOK, BucketRecorded, Goto
<1> QED
  BY <1>1, <1>2 DEF Failures

LEMMA CompareInv ==
  ASSUME NEW t \in Threads, StoreInv, Compare(t), UNCHANGED <<bucketVars, window>>
  PROVE  StoreInv'
<1> USE DEF Compare
<1>1. ServedGenuine'
  BY DEF StoreInv, ServedGenuine, Genuine, InScope, bucketVars
<1>2. CASE Serves(ptr[t])
  <2>1. pc'[t] = "loaded" /\ got'[t] = current
    BY <1>2 DEF StoreInv, StoreTypeOK, Goto
  <2>2. current # None /\ current.pointer.version \in window[t]
    BY <1>2 DEF Serves, StoreInv, CallProgress
  <2>3. StoreTypeOK'
    BY <1>2 DEF StoreInv, StoreTypeOK, Goto, bucketVars, BucketTypeOK, Outcomes
  <2>4. CallProgress(t)'
    BY <2>1 DEF CallProgress
  <2> QED
    BY <1>1, <1>2, <2>1, <2>2, <2>3, <2>4, ThreadStepInv
    DEF StoreInv, StoreTypeOK, BucketRecorded, Goto
<1>3. CASE ~Serves(ptr[t])
  <2>1. pc'[t] = "manifest" /\ UNCHANGED <<ptr, man, got, current, faults>>
    BY <1>3 DEF StoreInv, StoreTypeOK, Goto
  <2>2. StoreTypeOK'
    BY <1>3, <2>1 DEF StoreInv, StoreTypeOK, Goto, bucketVars, BucketTypeOK, InCall
  <2>3. CallProgress(t)'
    BY <2>1 DEF StoreInv, CallProgress, InScope, bucketVars
  <2> QED
    BY <1>1, <1>3, <2>1, <2>2, <2>3, ThreadStepInv
    DEF StoreInv, StoreTypeOK, BucketRecorded, Goto
<1> QED
  BY <1>2, <1>3

LEMMA ReadManifestInv ==
  ASSUME NEW t \in Threads, StoreInv, ReadManifest(t), UNCHANGED <<bucketVars, window>>
  PROVE  StoreInv'
<1> DEFINE v == ptr[t].version
           m == manifest[v]
<1>1. CASE Raise(t, "RuntimeError")
  BY <1>1, RaiseInv DEF Raise, ReadManifest, StoreInv, StoreTypeOK, Failures
<1>2. CASE /\ Accepts(m) /\ man' = [man EXCEPT ![t] = m]
           /\ Goto(t, "download") /\ UNCHANGED <<current, ptr, got, faults>>
  <2>1. /\ v \in Versions /\ ptr[t] # None /\ InScope(ptr[t])
        /\ v \in promoted \cap window[t] /\ pc[t] = "manifest"
    BY DEF ReadManifest, StoreInv, StoreTypeOK, CallProgress, PointerFile
  <2>2. m # None /\ InScope(m) /\ m \in ArtifactManifest
    BY <1>2, <2>1 DEF Accepts, StoreInv, StoreTypeOK, BucketTypeOK
  <2>3. <<v, m>> \in stored
    BY <2>1, <2>2 DEF StoreInv, BucketRecorded, Holdings
  <2>4. pc'[t] = "download" /\ man'[t] = m /\ ptr'[t] = ptr[t]
    BY <1>2 DEF StoreInv, StoreTypeOK, Goto
  <2>5. StoreTypeOK'
    BY <1>2, <2>2 DEF StoreInv, StoreTypeOK, Goto, bucketVars, BucketTypeOK, InCall
  <2>6. ServedGenuine'
    BY <1>2 DEF StoreInv, ServedGenuine, Genuine, InScope, bucketVars
  <2>7. CallProgress(t)'
    BY <2>1, <2>2, <2>3, <2>4 DEF CallProgress, InScope, bucketVars
  <2> QED
    BY <1>2, <2>1, <2>4, <2>5, <2>6, <2>7, ThreadStepInv
    DEF StoreInv, StoreTypeOK, BucketRecorded, Goto
<1> QED
  BY <1>1, <1>2 DEF ReadManifest

LEMMA DownloadInv ==
  ASSUME NEW t \in Threads, StoreInv, Download(t), UNCHANGED <<bucketVars, window>>
  PROVE  StoreInv'
<1> DEFINE v == ptr[t].version
           b == pkl[v]
           m == [pointer |-> ptr[t], manifest |-> man[t], model |-> b]
<1>1. CASE \E failure \in Failures : Raise(t, failure)
  BY <1>1, RaiseInv DEF Raise, Download, StoreInv, StoreTypeOK
<1>2. CASE /\ b # None /\ Verified(b, man[t]) /\ got' = [got EXCEPT ![t] = m]
           /\ Goto(t, "swap") /\ UNCHANGED <<current, ptr, man, faults>>
  <2>1. /\ ptr[t] # None /\ ptr[t] \in PointerFile /\ InScope(ptr[t]) /\ v \in Versions
        /\ v \in promoted \cap window[t] /\ pc[t] = "download"
        /\ man[t] \in ArtifactManifest /\ InScope(man[t]) /\ <<v, man[t]>> \in stored
    BY DEF Download, StoreInv, StoreTypeOK, CallProgress, PointerFile
  <2>2. b \in Blobs /\ <<v, b>> \in stored
    BY <1>2, <2>1 DEF StoreInv, StoreTypeOK, BucketTypeOK, BucketRecorded, Holdings
  <2>3. m \in LoadedModel /\ m # None
    BY <2>1, <2>2, StoreAssumption DEF LoadedModel
  <2>4. Genuine(m)
    BY <1>2, <2>1, <2>2 DEF Genuine, Verified
  <2>5. pc'[t] = "swap" /\ got'[t] = m /\ ptr'[t] = ptr[t]
    BY <1>2 DEF StoreInv, StoreTypeOK, Goto
  <2>6. StoreTypeOK'
    BY <1>2, <2>3 DEF StoreInv, StoreTypeOK, Goto, bucketVars, BucketTypeOK, InCall
  <2>7. ServedGenuine'
    BY <1>2 DEF StoreInv, ServedGenuine, Genuine, InScope, bucketVars
  <2>8. CallProgress(t)'
    BY <2>1, <2>3, <2>4, <2>5 DEF CallProgress, Genuine, InScope, bucketVars
  <2> QED
    BY <1>2, <2>1, <2>5, <2>6, <2>7, <2>8, ThreadStepInv
    DEF StoreInv, StoreTypeOK, BucketRecorded, Goto
<1> QED
  BY <1>1, <1>2 DEF Download, Failures

LEMMA SwapInv ==
  ASSUME NEW t \in Threads, StoreInv, Swap(t), UNCHANGED <<bucketVars, window>>
  PROVE  StoreInv'
<1>1. /\ got[t] # None /\ got[t].pointer = ptr[t] /\ Genuine(got[t])
      /\ ptr[t].version \in window[t] /\ got[t] \in LoadedModel
  BY DEF Swap, StoreInv, StoreTypeOK, CallProgress
<1>2. pc'[t] = "loaded" /\ got'[t] = got[t] /\ current' = got[t]
  BY DEF Swap, StoreInv, StoreTypeOK, Goto
<1>3. StoreTypeOK'
  BY <1>1 DEF Swap, StoreInv, StoreTypeOK, Goto, bucketVars, BucketTypeOK, Outcomes
<1>4. ServedGenuine'
  BY <1>1, <1>2 DEF ServedGenuine, Genuine, InScope, bucketVars
<1>5. CallProgress(t)'
  BY <1>2 DEF CallProgress
<1> QED
  BY <1>1, <1>2, <1>3, <1>4, <1>5, ThreadStepInv
  DEF Swap, StoreInv, StoreTypeOK, BucketRecorded, Goto

\* Store and unpickling faults end the call and leave the served model alone.
LEMMA FaultInv ==
  ASSUME NEW t \in Threads, StoreInv, UNCHANGED <<bucketVars, window>>,
         StoreError(t) \/ \E failure \in Failures : UnpickleError(t, failure)
  PROVE  StoreInv'
<1>1. faults' \in 0..MaxFaults
  BY StoreAssumption DEF StoreError, UnpickleError, StoreInv, StoreTypeOK
<1>2. PICK failure \in Failures : Goto(t, failure)
  BY DEF StoreError, UnpickleError, Failures
<1>3. pc[t] # "idle" /\ UNCHANGED <<current, ptr, man, got>>
  BY DEF StoreError, UnpickleError
<1> QED
  BY <1>1, <1>2, <1>3, RaiseInv

LEMMA StoreStepInv == StoreInv /\ [StoreNext]_storeVars => StoreInv'
<1> SUFFICES ASSUME StoreInv, [StoreNext]_storeVars
             PROVE  StoreInv'
  OBVIOUS
<1>1. CASE Train
  BY <1>1, TrainInv
<1>2. ASSUME NEW t \in Threads, Reload(t)
      PROVE  StoreInv'
  <2>1. CASE Work(t) /\ UNCHANGED <<bucketVars, window>>
    BY <2>1, ReadPointerInv, CompareInv, ReadManifestInv, DownloadInv, SwapInv, FaultInv
    DEF Work
  <2> QED
    BY <1>2, <2>1, CallInv, ReturnInv DEF Reload
<1>3. CASE UNCHANGED storeVars
  BY <1>3 DEF storeVars, callVars, bucketVars, StoreInv, StoreTypeOK, BucketTypeOK,
     BucketRecorded, Grants, Holdings, ServedGenuine, Genuine, InScope,
     ReloadAnswersPointer, CallProgress
<1> QED
  BY <1>1, <1>2, <1>3 DEF StoreNext

-----------------------------------------------------------------------------
(* The results.                                                            *)

\* StoreInv holds in every state that can be reached.
THEOREM StoreInvariant == StoreSpec => []StoreInv
  BY StoreInitInv, StoreStepInv, PTL DEF StoreSpec

\* Every variable of the bucket and of the model store keeps a value of its
\* kind, whatever the threads and the training side do.
THEOREM StoreTypeCorrect == StoreSpec => []StoreTypeOK
<1>1. StoreInv => StoreTypeOK
  BY DEF StoreInv
<1> QED
  BY <1>1, StoreInvariant, PTL

\* What /predict is given to serve is never a model of a version that was not
\* promoted, of another project or model, or with bytes its manifest does not
\* give the digest of, whatever is rewritten between the reads of reload().
THEOREM ServedIsGenuine == StoreSpec => []ServedGenuine
<1>1. StoreInv => ServedGenuine
  BY DEF StoreInv
<1> QED
  BY <1>1, StoreInvariant, PTL

\* A reload that returns a model returns one of a version that was live during
\* the call, however many other reloads run meanwhile.
THEOREM ReloadAnswerIsLive == StoreSpec => []ReloadAnswersPointer
<1>1. StoreInv => ReloadAnswersPointer
  BY DEF StoreInv
<1> QED
  BY <1>1, StoreInvariant, PTL

-----------------------------------------------------------------------------
(* A settled version: the safety half of healing.                          *)

\* A step of a reload while v is settled: it reads v's pointer and manifest,
\* leaves a served v alone, and if it ends without a fault, v is served.
LEMMA WorkSettles ==
  ASSUME NEW v \in Versions, NEW t \in Threads, StoreInv, Settled(v), Work(t),
         UNCHANGED <<bucketVars, window>>
  PROVE  /\ \A u \in Threads \ {t} : pc'[u] = pc[u] /\ man'[u] = man[u]
         /\ pc[t] \in InCall
         /\ pc'[t] = "download" => man'[t] = manifest[v]
         /\ ServesVersion(v) => ServesVersion(v)'
         /\ pc'[t] \in Outcomes /\ faults' = faults =>
               pc'[t] = "loaded" /\ ServesVersion(v)'
<1> USE DEF Goto, Raise, Outcomes, Failures, InCall, ServesVersion
<1>1. /\ Grants(pointer) = {v} /\ Sound(v)
      /\ pc[t] \in InCall => window[t] = {v}
      /\ pc[t] = "download" => man[t] = manifest[v]
  BY DEF Settled, LiveAndSound
<1>2. pc \in [Threads -> InCall \cup Outcomes \cup {"idle"}] /\ DOMAIN man = Threads
  BY DEF StoreInv, StoreTypeOK
<1>3. CallProgress(t) /\ DOMAIN pc = Threads
  BY DEF StoreInv, StoreTypeOK
<1>4. pc[t] \in {"compare", "manifest", "download", "swap"} => ptr[t].version = v
  BY <1>1, <1>3 DEF CallProgress
<1>5. CASE ReadPointer(t)
  <2>1. Accepts(pointer)
    BY <1>1 DEF Accepts, Grants
  <2> QED
    BY <1>2, <1>5, <2>1 DEF ReadPointer, Accepts
<1>6. CASE Compare(t)
  BY <1>2, <1>4, <1>6 DEF Compare, Serves
<1>7. CASE ReadManifest(t)
  <2>1. Accepts(manifest[v]) /\ manifest[v].checksum # None
    BY <1>1, BucketAssumption DEF Sound, Accepts, StoreInv, StoreTypeOK, BucketTypeOK
  <2>2. pc[t] = "manifest" /\ ptr[t].version = v
    BY <1>4, <1>7 DEF ReadManifest
  <2>3. /\ man' = [man EXCEPT ![t] = manifest[v]]
        /\ Goto(t, "download")
        /\ UNCHANGED <<current, ptr, got, faults>>
    BY <1>7, <2>1, <2>2 DEF ReadManifest
  <2> QED
    BY <1>2, <2>2, <2>3
<1>8. CASE Download(t)
  <2>1. pc[t] = "download" /\ ptr[t].version = v /\ man[t] = manifest[v]
    BY <1>1, <1>4, <1>8 DEF Download
  <2>2. pkl[v] # None /\ Verified(pkl[v], man[t])
    BY <1>1, <2>1 DEF Sound, Verified
  <2>3. Goto(t, "swap") /\ UNCHANGED <<current, ptr, man, faults>>
    BY <1>8, <2>1, <2>2 DEF Download
  <2> QED
    BY <1>2, <2>1, <2>3
<1>9. CASE Swap(t)
  <2>1. got[t] # None /\ got[t].pointer.version = v /\ current' = got[t]
    BY <1>3, <1>4, <1>9 DEF Swap, CallProgress
  <2> QED
    BY <1>2, <1>9, <2>1 DEF Swap
<1>10. CASE StoreError(t) \/ \E failure \in Failures : UnpickleError(t, failure)
  <2>1. faults' # faults /\ pc[t] \in InCall /\ UNCHANGED <<current, man>>
    BY <1>10 DEF StoreError, UnpickleError, StoreInv, StoreTypeOK
  <2>2. PICK failure \in Failures : pc' = [pc EXCEPT ![t] = failure]
    BY <1>10 DEF StoreError, UnpickleError
  <2> QED
    BY <1>2, <2>1, <2>2
<1> QED
  BY <1>5, <1>6, <1>7, <1>8, <1>9, <1>10 DEF Work

\* Settled(v) is about the bucket's contents and the calls in flight alone.
LEMMA SettledFrame ==
  ASSUME NEW v \in Versions, Settled(v), UNCHANGED <<pointer, manifest, pkl>>,
         \A t \in Threads : pc'[t] \in InCall =>
            /\ window'[t] = {v}
            /\ pc'[t] = "download" => man'[t] = manifest[v]
  PROVE  Settled(v)'
  BY DEF Settled, LiveAndSound, Grants, InScope, Sound, InCall

\* While nobody writes to the bucket, a version once settled stays so; no
\* reload replaces it, and every reload that meets no fault ends by serving it.
THEOREM SettledReloads == StoreSpec => SettledReloadsServe
<1> DEFINE Holds(v) ==
      Settled(v) /\ UNCHANGED <<pointer, manifest, pkl>> =>
         /\ Settled(v)'
         /\ ServesVersion(v) => ServesVersion(v)'
         /\ \A t \in Threads :
               pc[t] \in InCall /\ pc'[t] \in Outcomes /\ faults' = faults =>
                  pc'[t] = "loaded" /\ ServesVersion(v)'
<1>1. StoreInv /\ [StoreNext]_storeVars => [\A v \in Versions : Holds(v)]_storeVars
  <2> SUFFICES ASSUME StoreInv, StoreNext, NEW v \in Versions, Settled(v),
                      UNCHANGED <<pointer, manifest, pkl>>
               PROVE  /\ Settled(v)'
                      /\ ServesVersion(v) => ServesVersion(v)'
                      /\ \A t \in Threads :
                            pc[t] \in InCall /\ pc'[t] \in Outcomes /\ faults' = faults =>
                               pc'[t] = "loaded" /\ ServesVersion(v)'
    OBVIOUS
  <2>1. /\ Grants(pointer) = {v} /\ Grants(pointer') = {v}
        /\ \A t \in Threads : /\ pc[t] \in InCall => window[t] = {v}
                              /\ pc[t] = "download" => man[t] = manifest[v]
    BY DEF Settled, LiveAndSound
  <2>2. InCall \cap (Outcomes \cup {"idle"}) = {}
    BY DEF InCall, Outcomes, Failures
  <2>3. pc \in [Threads -> InCall \cup Outcomes \cup {"idle"}] /\ DOMAIN window = Threads
    BY DEF StoreInv, StoreTypeOK
  <2>4. CASE Train
    <3>1. UNCHANGED <<current, pc, man>>
      BY <2>4 DEF Train, callVars
    <3>2. \A t \in Threads : pc[t] \in InCall => window'[t] = {v}
      BY <2>1, <2>2, <2>4 DEF Train
    <3> QED
      BY <2>1, <2>2, <3>1, <3>2, SettledFrame DEF ServesVersion
  <2>5. ASSUME NEW t \in Threads, Call(t) \/ Return(t), UNCHANGED bucketVars
        PROVE  /\ Settled(v)'
               /\ ServesVersion(v) => ServesVersion(v)'
               /\ \A u \in Threads : pc[u] \in InCall => pc'[u] = pc[u]
    <3>1. /\ UNCHANGED current
          /\ \A u \in Threads \ {t} :
                pc'[u] = pc[u] /\ man'[u] = man[u] /\ window'[u] = window[u]
      BY <2>3, <2>5 DEF Call, Return, Goto, StoreInv, StoreTypeOK
    <3>2. \/ pc[t] = "idle" /\ pc'[t] = "pointer" /\ window'[t] = {v}
          \/ pc[t] \in Outcomes /\ pc'[t] = "idle"
      BY <2>1, <2>3, <2>5 DEF Call, Return, Goto
    <3>3. \A u \in Threads : pc'[u] \in InCall =>
            /\ window'[u] = {v}
            /\ pc'[u] = "download" => man'[u] = manifest[v]
      BY <2>1, <2>2, <3>1, <3>2
    <3> QED
      BY <2>2, <3>1, <3>2, <3>3, SettledFrame DEF ServesVersion
  <2>6. ASSUME NEW t \in Threads, Work(t), UNCHANGED <<bucketVars, window>>
        PROVE  /\ Settled(v)'
               /\ ServesVersion(v) => ServesVersion(v)'
               /\ \A u \in Threads :
                     pc[u] \in InCall /\ pc'[u] \in Outcomes /\ faults' = faults =>
                        pc'[u] = "loaded" /\ ServesVersion(v)'
    <3>1. /\ \A u \in Threads \ {t} : pc'[u] = pc[u] /\ man'[u] = man[u]
          /\ pc[t] \in InCall
          /\ pc'[t] = "download" => man'[t] = manifest[v]
          /\ ServesVersion(v) => ServesVersion(v)'
          /\ pc'[t] \in Outcomes /\ faults' = faults =>
                pc'[t] = "loaded" /\ ServesVersion(v)'
      BY <2>6, WorkSettles
    <3>2. \A u \in Threads : pc'[u] \in InCall =>
            /\ window'[u] = {v}
            /\ pc'[u] = "download" => man'[u] = manifest[v]
      BY <2>1, <2>6, <3>1
    <3> QED
      BY <2>2, <3>1, <3>2, SettledFrame
  <2> QED
    BY <2>2, <2>4, <2>5, <2>6 DEF StoreNext, Reload
<1> QED
  BY <1>1, StoreInvariant, PTL DEF StoreSpec, SettledReloadsServe

-----------------------------------------------------------------------------
(* The refinement of ServedModel.                                          *)

\* A pair intact once stays intact while files are only added.
LEMMA IntactGrows ==
  ASSUME stored \subseteq stored'
  PROVE  Intact \subseteq Intact'
  BY DEF Intact, InScope

\* The model a call is about to serve is intact.
LEMMA GenuineIntact ==
  ASSUME NEW m \in LoadedModel, Genuine(m)
  PROVE  <<m.pointer.version, m.model>> \in Intact
<1>1. m.pointer.version \in Versions /\ m.model \in Blobs /\ m.manifest \in ArtifactManifest
  BY DEF LoadedModel, PointerFile
<1> QED
  BY <1>1 DEF Genuine, Intact

\* Every behaviour of the model store, seen through the pair it serves, is one
\* of the abstract served model: reload() changes what is served in one step,
\* to an intact model of a promoted version, and no failure unloads it.
THEOREM StoreRefinesServedModel == StoreSpec => RefinesServedModel
<1>1. StoreInit => Serving!Init
  BY DEF StoreInit, Serving!Init
<1>2. StoreInv /\ [StoreNext]_storeVars => [Serving!Next]_(Serving!vars)
  <2> SUFFICES ASSUME StoreInv, [StoreNext]_storeVars
               PROVE  [Serving!Next]_(Serving!vars)
    OBVIOUS
  <2>1. CASE Train
    <3>1. promoted \subseteq promoted' /\ stored \subseteq stored'
      BY <2>1, TrainingRecords DEF Train, StoreInv, StoreTypeOK, BucketRecorded
    <3>2. Serving!Publish
      BY <2>1, <3>1, IntactGrows DEF Serving!Publish, Train, callVars
    <3> QED
      BY <3>2 DEF Serving!Next
  <2>2. CASE \E t \in Threads : Swap(t) /\ UNCHANGED <<bucketVars, window>>
    <3>1. PICK t \in Threads : Swap(t) /\ UNCHANGED <<bucketVars, window>>
      BY <2>2
    <3> DEFINE m == got[t]
    <3>2. m \in LoadedModel /\ m # None /\ Genuine(m) /\ current' = m
      BY <3>1 DEF Swap, StoreInv, StoreTypeOK, CallProgress
    <3>3. m.pointer.version \in Versions /\ m.model \in Blobs
      BY <3>2 DEF LoadedModel, PointerFile
    <3>4. promoted' = promoted /\ stored' = stored /\ Intact' = Intact
      BY <3>1 DEF bucketVars, Intact, InScope
    <3>5. Serving!Serve(m.pointer.version, m.model)
      BY <3>2, <3>4, GenuineIntact DEF Serving!Serve, Genuine
    <3> QED
      BY <3>3, <3>5 DEF Serving!Next
  <2>3. CASE UNCHANGED <<bucketVars, current>>
    BY <2>3 DEF Serving!vars, bucketVars, Intact, InScope
  <2> QED
    BY <2>1, <2>2, <2>3
    DEF StoreNext, Reload, Call, Return, Work, ReadPointer, Compare, ReadManifest,
        Download, StoreError, UnpickleError, Raise, storeVars, callVars
<1> QED
  BY <1>1, <1>2, StoreInvariant, PTL DEF StoreSpec, Serving!Spec, RefinesServedModel
=============================================================================
