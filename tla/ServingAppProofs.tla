-------------------------- MODULE ServingAppProofs --------------------------
(***************************************************************************)
(* Proofs about ServingApp, for any number of worker threads: the process  *)
(* uses the model store as ModelStore describes it, so the theorems of     *)
(* ModelStoreProofs hold of it; its answers, its version header and its    *)
(* model_loaded gauge tell of genuine models that were served; and every   *)
(* request moves on to its answer.                                         *)
(***************************************************************************)
EXTENDS ServingApp, ModelStoreProofs

\* Every step of the process is a step of the model store, or leaves it alone.
LEMMA AppStepIsStoreStep == AppNext => [StoreNext]_storeVars
<1> SUFFICES ASSUME AppNext
             PROVE  [StoreNext]_storeVars
  OBVIOUS
<1> USE AppAssumption
<1>1. CASE Environment
  BY <1>1 DEF Environment, StoreNext
<1>2. CASE Boot \/ Wake
  BY <1>2 DEF Boot, Wake, StoreNext, Reload
<1>3. CASE BootDone \/ Sleep
  BY <1>3 DEF BootDone, Sleep, StoreNext, Reload
<1>4. CASE \E t \in Threads : Progress(t)
  BY <1>4 DEF Progress, StoreNext, Reload
<1>5. ASSUME NEW w \in Workers, Request(w)
      PROVE  [StoreNext]_storeVars
  <2>1. CASE Probe(w) \/ Predict(w)
    BY <2>1 DEF Probe, Predict
  <2>2. CASE \E token \in Tokens \cup {None} : PostReload(w, token)
    BY <2>2 DEF PostReload, StoreNext, Reload, storeVars, callVars
  <2> QED
    BY <1>5, <2>1, <2>2 DEF Request
<1>6. ASSUME NEW w \in Workers, Handle(w)
      PROVE  [StoreNext]_storeVars
  <2>1. CASE PostReloadDone(w)
    BY <2>1 DEF PostReloadDone, StoreNext, Reload
  <2> QED
    BY <1>6, <2>1 DEF Handle, Validate, Infer, Hook, Close
<1> QED
  BY <1>1, <1>2, <1>3, <1>4, <1>5, <1>6 DEF AppNext

\* The serving process uses the model store as ModelStore describes it: all
\* that is proved of the store holds of the process.
THEOREM ProcessUsesStore == AppSpec => StoreSpec
<1>1. [AppNext]_appVars => [StoreNext]_storeVars
  BY AppStepIsStoreStep DEF appVars, storeVars
<1>2. AppInit => StoreInit
  BY DEF AppInit
<1> QED
  BY <1>1, <1>2, PTL DEF AppSpec, StoreSpec

\* The model that a request is given to predict with is genuine.
COROLLARY ProcessServesGenuine == AppSpec => []ServedGenuine
  BY ProcessUsesStore, ServedIsGenuine, PTL

\* Once the bucket is left alone with a sound live version, the boot, the
\* reloader and every POST /reload end by serving it, and none replaces it.
COROLLARY ProcessSettles == AppSpec => SettledReloadsServe
  BY ProcessUsesStore, SettledReloads, PTL

-----------------------------------------------------------------------------
(* The inductive invariant AppInv, action by action.                       *)

\* What AppInv says of the workers and of the gauge, apart from the store.
RequestsOK ==
    /\ AppTypeOK
    /\ AnswersOneServedModel
    /\ HeaderNamesModel
    /\ \A w \in Workers : RequestProgress(w)

\* What it says of the gauge and of the calls that load a model.
GaugeOK == GaugeTellsLoaded /\ LoadedIsServed

LEMMA AppInitInv == AppInit => AppInv
<1> SUFFICES ASSUME AppInit
             PROVE  AppInv
  OBVIOUS
<1>1. StoreInv
  BY StoreInitInv DEF AppInit
<1>2. AppTypeOK
  BY DEF AppInit, AppTypeOK, Phases
<1> QED
  BY <1>1, <1>2 DEF AppInit, StoreInit, AppInv, AnswersOneServedModel,
     HeaderNamesModel, GaugeTellsLoaded, LoadedIsServed, RequestProgress

\* A step that leaves the requests, and what they have seen, as they are.
LEMMA RequestsFrame ==
  ASSUME AppInv, UNCHANGED <<current, booted, requestVars, seen>>, gauge' \in {0, 1},
         \A w \in Workers : phase[w] = "reloading" /\ pc'[w] = "loaded" =>
            pc[w] = "loaded" /\ got'[w] = got[w]
  PROVE  RequestsOK'
  BY DEF AppInv, RequestsOK, AppTypeOK, AnswersOneServedModel, HeaderNamesModel,
     RequestProgress, requestVars

\* A step that leaves the gauge, the served model and the calls as they are.
LEMMA GaugeFrame ==
  ASSUME AppInv, UNCHANGED <<gauge, current>>,
         \A t \in Threads : (pc'[t] = "loaded") = (pc[t] = "loaded")
  PROVE  GaugeOK'
  BY DEF AppInv, GaugeTellsLoaded, LoadedIsServed, GaugeOK

LEMMA EnvironmentInv == AppInv /\ Environment => RequestsOK' /\ GaugeOK'
<1> SUFFICES ASSUME AppInv, Environment
             PROVE  RequestsOK' /\ GaugeOK'
  OBVIOUS
<1>1. UNCHANGED <<current, pc, got, booted, gauge, requestVars, seen>>
  BY DEF Environment, Train, callVars
<1>2. gauge' \in {0, 1}
  BY <1>1 DEF AppInv, AppTypeOK
<1> QED
  BY <1>1, <1>2, RequestsFrame, GaugeFrame

\* A call begins: the boot's, or the reloader's.
LEMMA CallingInv == AppInv /\ (Boot \/ Wake) => RequestsOK' /\ GaugeOK'
<1> SUFFICES ASSUME AppInv, Boot \/ Wake
             PROVE  RequestsOK' /\ GaugeOK'
  OBVIOUS
<1>1. PICK t \in Threads : Call(t) /\ UNCHANGED <<booted, gauge, requestVars, seen>>
  BY AppAssumption DEF Boot, Wake
<1>2. /\ UNCHANGED <<current, got>> /\ pc[t] = "idle"
      /\ pc' = [pc EXCEPT ![t] = "pointer"] /\ gauge' \in {0, 1}
  BY <1>1 DEF Call, Goto, AppInv, AppTypeOK
<1>3. \A u \in Threads : (pc'[u] = "loaded") = (pc[u] = "loaded")
  BY <1>2 DEF AppInv, StoreInv, StoreTypeOK
<1> QED
  BY <1>1, <1>2, <1>3, RequestsFrame, GaugeFrame, AppAssumption

\* A thread whose call has ended takes its result to the gauge: were it the
\* one that was still to set it, it has set it.
LEMMA NoteLoadedGauge ==
  ASSUME NEW t \in Threads, AppInv, NoteLoaded(t), Return(t)
  PROVE  GaugeOK' /\ gauge' \in {0, 1}
<1>1. /\ UNCHANGED current /\ pc' = [pc EXCEPT ![t] = "idle"]
      /\ gauge' = IF pc[t] = "loaded" THEN 1 ELSE gauge
  BY DEF NoteLoaded, Return, Goto
<1>2. \A u \in Threads \ {t} : pc'[u] = pc[u]
  BY <1>1 DEF AppInv, StoreInv, StoreTypeOK
<1>3. pc'[t] = "idle"
  BY <1>1 DEF AppInv, StoreInv, StoreTypeOK
<1> QED
  BY <1>1, <1>2, <1>3 DEF AppInv, AppTypeOK, GaugeTellsLoaded, LoadedIsServed, GaugeOK

LEMMA CalledInv == AppInv /\ (BootDone \/ Sleep) => RequestsOK' /\ GaugeOK'
<1> SUFFICES ASSUME AppInv, BootDone \/ Sleep
             PROVE  RequestsOK' /\ GaugeOK'
  OBVIOUS
<1>1. PICK t \in {Main, Reloader} : /\ NoteLoaded(t) /\ Return(t)
                                   /\ UNCHANGED <<requestVars, seen>>
                                   /\ booted' \in BOOLEAN
  BY DEF BootDone, Sleep, AppInv, AppTypeOK
<1>2. t \in Threads /\ t \notin Workers
  BY AppAssumption
<1>3. GaugeOK' /\ gauge' \in {0, 1}
  BY <1>1, <1>2, NoteLoadedGauge
<1>4. /\ UNCHANGED current
      /\ \A w \in Workers : pc'[w] = pc[w] /\ got'[w] = got[w]
  BY <1>1, <1>2, AppAssumption DEF Return, Goto, AppInv, StoreInv, StoreTypeOK
<1> QED
  BY <1>1, <1>3, <1>4 DEF AppInv, RequestsOK, AppTypeOK, AnswersOneServedModel,
     HeaderNamesModel, RequestProgress, requestVars

\* What a step of a reload may do to the served model: it changes only to the
\* one that the call then returns, and a call that returns one returns it.
LEMMA WorkServes ==
  ASSUME NEW t \in Threads, StoreInv, Work(t)
  PROVE  /\ current' # current => pc'[t] = "loaded"
         /\ pc'[t] = "loaded" => current' # None /\ got'[t] = current'
         /\ \A u \in Threads \ {t} : pc'[u] = pc[u] /\ got'[u] = got[u]
         /\ pc[t] # "loaded"
         /\ current' \in LoadedModel \cup {None}
<1> USE DEF StoreInv, StoreTypeOK, Goto, Raise, Failures
<1>1. CASE ReadPointer(t)
  BY <1>1 DEF ReadPointer
<1>2. CASE Compare(t)
  BY <1>2 DEF Compare, Serves
<1>3. CASE ReadManifest(t)
  BY <1>3 DEF ReadManifest
<1>4. CASE Download(t)
  BY <1>4 DEF Download
<1>5. CASE Swap(t)
  BY <1>5 DEF Swap, CallProgress
<1>6. CASE StoreError(t) \/ \E failure \in Failures : UnpickleError(t, failure)
  BY <1>6 DEF StoreError, UnpickleError
<1> QED
  BY <1>1, <1>2, <1>3, <1>4, <1>5, <1>6 DEF Work

LEMMA ProgressInv ==
  ASSUME NEW t \in Threads, AppInv, Progress(t)
  PROVE  RequestsOK' /\ GaugeOK'
<1>1. /\ current' # current => pc'[t] = "loaded"
      /\ pc'[t] = "loaded" => current' # None /\ got'[t] = current'
      /\ \A u \in Threads \ {t} : pc'[u] = pc[u] /\ got'[u] = got[u]
      /\ pc[t] # "loaded"
      /\ current' \in LoadedModel \cup {None}
  BY WorkServes DEF AppInv, Progress
<1>2. UNCHANGED <<booted, gauge, requestVars>>
  BY DEF Progress
<1>3. current # None => current' # None
  BY <1>1
<1>4. \A w \in Workers : seen'[w] = IF phase[w] = "free" THEN {}
                                    ELSE seen[w] \cup {current'}
  BY DEF Progress
<1>5. AppTypeOK'
  BY <1>1, <1>2 DEF Progress, AppInv, AppTypeOK, requestVars
<1>6. AnswersOneServedModel'
  <2>1. \A w \in Workers : reply[w] # None => seen[w] \subseteq seen'[w]
    BY <1>4 DEF AppInv, RequestProgress
  <2> QED
    BY <1>2, <2>1 DEF AppInv, AnswersOneServedModel, requestVars
<1>7. HeaderNamesModel'
  BY <1>2 DEF AppInv, HeaderNamesModel, requestVars
<1>8. ASSUME NEW w \in Workers
      PROVE  RequestProgress(w)'
  BY <1>1, <1>2, <1>3, <1>4, AppAssumption DEF AppInv, RequestProgress, requestVars
<1>9. GaugeOK'
  BY <1>1, <1>2, <1>3 DEF AppInv, GaugeTellsLoaded, LoadedIsServed, GaugeOK
<1> QED
  BY <1>5, <1>6, <1>7, <1>8, <1>9 DEF RequestsOK

\* A step of one worker's request leaves the other requests as they are: only
\* that worker's part is to be shown.
LEMMA WorkerStepInv ==
  ASSUME NEW w \in Workers, AppInv, UNCHANGED current, AppTypeOK',
         \A u \in Workers \ {w} :
            /\ phase'[u] = phase[u] /\ loaded'[u] = loaded[u] /\ reply'[u] = reply[u]
            /\ header'[u] = header[u] /\ seen'[u] = seen[u]
            /\ pc'[u] = pc[u] /\ got'[u] = got[u],
         RequestProgress(w)',
         reply'[w] # None =>
            /\ reply'[w].version # None =>
                  \E m \in seen'[w] \ {None} :
                     /\ reply'[w].version = m.pointer.version
                     /\ reply'[w].contract \in {None, m.manifest}
                     /\ reply'[w].model \in {None, m.model}
            /\ reply'[w].status = 503 => None \in seen'[w],
         phase'[w] = "sent" /\ reply'[w] # None /\ reply'[w].version # None =>
            header'[w] # None
  PROVE  RequestsOK'
<1>1. AnswersOneServedModel'
  BY DEF AppInv, AnswersOneServedModel
<1>2. HeaderNamesModel'
  BY DEF AppInv, HeaderNamesModel
<1>3. ASSUME NEW u \in Workers \ {w}
      PROVE  RequestProgress(u)'
  BY <1>3 DEF AppInv, RequestProgress
<1> QED
  BY <1>1, <1>2, <1>3 DEF RequestsOK

\* The fields of a loaded model are of their kinds.
LEMMA LoadedFields ==
  ASSUME NEW m \in LoadedModel
  PROVE  /\ m # None /\ m.manifest \in ArtifactManifest /\ m.model \in Blobs
         /\ m.pointer.version \in Versions /\ m.pointer.version # None
  BY BucketAssumption, StoreAssumption DEF LoadedModel, PointerFile

LEMMA ProbeInv ==
  ASSUME NEW w \in Workers, AppInv, Probe(w)
  PROVE  RequestsOK' /\ GaugeOK'
<1> USE DEF Probe, Open, Capture, Answer, Refuse, Enter
<1>1. UNCHANGED <<current, pc, got, gauge, header, booted>>
  BY DEF storeVars, callVars
<1>2. current \in LoadedModel \cup {None}
  BY DEF AppInv, StoreInv, StoreTypeOK
<1>3. current # None => /\ current.pointer.version \in Versions
                        /\ current.pointer.version # None
  BY <1>2, LoadedFields
<1>4. AppTypeOK'
  BY <1>1, <1>2, <1>3 DEF AppInv, AppTypeOK, Reply, Phases
<1>5. seen'[w] = {current} /\ phase'[w] = "answered"
  BY DEF AppInv, AppTypeOK
<1>6. reply'[w] = IF current = None
                  THEN [status |-> 503, version |-> None, contract |-> None, model |-> None]
                  ELSE [status |-> 200, version |-> current.pointer.version,
                        contract |-> None, model |-> None]
  BY DEF AppInv, AppTypeOK
<1>7. RequestProgress(w)'
  BY <1>1, <1>5 DEF RequestProgress
<1>8. RequestsOK'
  BY <1>1, <1>4, <1>5, <1>6, <1>7, WorkerStepInv DEF AppInv, AppTypeOK
<1> QED
  BY <1>1, <1>8, GaugeFrame

LEMMA PredictInv ==
  ASSUME NEW w \in Workers, AppInv, Predict(w)
  PROVE  RequestsOK' /\ GaugeOK'
<1> USE DEF Predict, Open, Capture, Answer, Refuse, Enter
<1>1. UNCHANGED <<current, pc, got, gauge, header, booted>>
  BY DEF storeVars, callVars
<1>2. current \in LoadedModel \cup {None}
  BY DEF AppInv, StoreInv, StoreTypeOK
<1>3. reply[w] = None
  BY DEF AppInv, RequestProgress
<1>4. seen'[w] = {current} /\ phase'[w] \in {"captured", "answered"}
  BY DEF AppInv, AppTypeOK
<1>5. phase'[w] = "captured" => loaded'[w] = current /\ current # None /\ reply'[w] = None
  BY <1>3 DEF AppInv, AppTypeOK
<1>6. phase'[w] = "answered" => \E status \in {400, 413, 503} :
        /\ status = 503 => current = None
        /\ reply'[w] = [status |-> status, version |-> None, contract |-> None, model |-> None]
  BY DEF AppInv, AppTypeOK
<1>7. AppTypeOK'
  BY <1>1, <1>2 DEF AppInv, AppTypeOK, Reply, Phases
<1>8. RequestProgress(w)'
  BY <1>1, <1>4, <1>5 DEF RequestProgress
<1>9. RequestsOK'
  <2>1. reply'[w] # None =>
          reply'[w].version = None /\ (reply'[w].status = 503 => None \in seen'[w])
    BY <1>4, <1>5, <1>6
  <2> QED
    BY <1>1, <1>4, <1>7, <1>8, <2>1, WorkerStepInv DEF AppInv, AppTypeOK
<1> QED
  BY <1>1, <1>9, GaugeFrame

LEMMA ValidateInv ==
  ASSUME NEW w \in Workers, AppInv, Validate(w)
  PROVE  RequestsOK' /\ GaugeOK'
<1> USE DEF Validate, Answer, Refuse, Enter
<1>1. UNCHANGED <<current, pc, got, gauge, header, booted, loaded, seen>>
  BY DEF storeVars, callVars
<1>2. AppTypeOK'
  BY <1>1 DEF AppInv, AppTypeOK, Reply, Phases, StoreInv, StoreTypeOK
<1>3. /\ phase'[w] \in {"validated", "answered"}
      /\ reply'[w] # None =>
            phase'[w] = "answered" /\ reply'[w].version = None /\ reply'[w].status \in {400, 500}
  <2>1. reply[w] = None
    BY DEF AppInv, RequestProgress
  <2>2. CASE \E status \in {400, 500} : Refuse(w, status)
    BY <2>2 DEF AppInv, AppTypeOK
  <2>3. CASE Enter(w, "validated") /\ UNCHANGED reply
    BY <2>1, <2>3 DEF AppInv, AppTypeOK
  <2> QED
    BY <2>2, <2>3
<1>4. RequestProgress(w)'
  BY <1>1, <1>3 DEF AppInv, RequestProgress
<1>5. RequestsOK'
  BY <1>1, <1>2, <1>3, <1>4, WorkerStepInv DEF AppInv, AppTypeOK
<1> QED
  BY <1>1, <1>5, GaugeFrame

LEMMA InferInv ==
  ASSUME NEW w \in Workers, AppInv, Infer(w)
  PROVE  RequestsOK' /\ GaugeOK'
<1> USE DEF Infer, Answer, Refuse, Enter
<1> DEFINE m == loaded[w]
<1>1. UNCHANGED <<current, pc, got, gauge, header, booted, loaded, seen>>
  BY DEF storeVars, callVars
<1>2. m \in seen[w] \ {None} /\ m \in LoadedModel
  BY DEF AppInv, AppTypeOK, RequestProgress
<1>3. m.manifest \in ArtifactManifest /\ m.model \in Blobs /\ m.pointer.version \in Versions
  BY <1>2, LoadedFields
<1>4. AppTypeOK'
  BY <1>1, <1>3 DEF AppInv, AppTypeOK, Reply, Phases, StoreInv, StoreTypeOK
<1>5. /\ phase'[w] = "answered"
      /\ \/ reply'[w] = [status |-> 500, version |-> None, contract |-> None, model |-> None]
         \/ reply'[w] = [status |-> 200, version |-> m.pointer.version,
                         contract |-> m.manifest, model |-> m.model]
  BY DEF AppInv, AppTypeOK
<1>6. RequestProgress(w)'
  BY <1>1, <1>5 DEF AppInv, RequestProgress
<1>7. RequestsOK'
  BY <1>1, <1>2, <1>4, <1>5, <1>6, WorkerStepInv DEF AppInv, AppTypeOK
<1> QED
  BY <1>1, <1>7, GaugeFrame

LEMMA HookInv ==
  ASSUME NEW w \in Workers, AppInv, Hook(w)
  PROVE  RequestsOK' /\ GaugeOK'
<1> USE DEF Hook, Enter
<1>1. UNCHANGED <<current, pc, got, gauge, reply, booted, loaded, seen>>
  BY DEF storeVars, callVars
<1>2. current \in LoadedModel \cup {None}
  BY DEF AppInv, StoreInv, StoreTypeOK
<1>3. current # None => /\ current.pointer.version \in Versions
                        /\ current.pointer.version # None
  BY <1>2, LoadedFields
<1>4. AppTypeOK'
  BY <1>1, <1>3 DEF AppInv, AppTypeOK, Phases, StoreInv, StoreTypeOK
<1>5. /\ phase'[w] = "sent"
      /\ header'[w] = IF current = None THEN None ELSE current.pointer.version
  BY DEF AppInv, AppTypeOK
<1>6. RequestProgress(w)'
  BY <1>1, <1>5 DEF AppInv, RequestProgress
<1>7. reply[w] # None /\ reply[w].version # None => header'[w] # None
  BY <1>3, <1>5 DEF AppInv, AnswersOneServedModel, RequestProgress
<1>8. RequestsOK'
  BY <1>1, <1>4, <1>5, <1>6, <1>7, WorkerStepInv
  DEF AppInv, AppTypeOK, AnswersOneServedModel
<1> QED
  BY <1>1, <1>8, GaugeFrame

LEMMA CloseInv ==
  ASSUME NEW w \in Workers, AppInv, Close(w)
  PROVE  RequestsOK' /\ GaugeOK'
<1> USE DEF Close, Enter
<1>1. UNCHANGED <<current, pc, got, gauge, booted>>
  BY DEF storeVars, callVars
<1>2. AppTypeOK'
  BY <1>1 DEF AppInv, AppTypeOK, Phases, StoreInv, StoreTypeOK
<1>3. phase'[w] = "free" /\ reply'[w] = None /\ seen'[w] = {}
  BY DEF AppInv, AppTypeOK
<1>4. RequestProgress(w)'
  BY <1>3 DEF RequestProgress
<1>5. RequestsOK'
  BY <1>1, <1>2, <1>3, <1>4, WorkerStepInv DEF AppInv, AppTypeOK
<1> QED
  BY <1>1, <1>5, GaugeFrame

LEMMA PostReloadInv ==
  ASSUME NEW w \in Workers, NEW token, AppInv, PostReload(w, token)
  PROVE  RequestsOK' /\ GaugeOK'
<1> USE DEF PostReload, Open, Answer, Refuse, Enter
<1>1. UNCHANGED <<current, got, gauge, header, booted, loaded>>
  BY DEF callVars, Call
<1>2. seen'[w] = {current}
  BY DEF AppInv, AppTypeOK
<1>3. reply[w] = None
  BY DEF AppInv, RequestProgress
<1>4. current \in LoadedModel \cup {None}
  BY DEF AppInv, StoreInv, StoreTypeOK
<1>5. CASE /\ AdminRefusal(token) # None /\ Refuse(w, AdminRefusal(token))
           /\ UNCHANGED <<callVars, window>>
  <2>1. AdminRefusal(token) \in {401, 500, 501}
    BY <1>5 DEF AdminRefusal
  <2>2. /\ phase'[w] = "answered"
        /\ reply'[w] = [status |-> AdminRefusal(token), version |-> None,
                        contract |-> None, model |-> None]
    BY <1>5 DEF AppInv, AppTypeOK
  <2>3. AppTypeOK'
    BY <1>1, <1>4, <1>5, <2>1 DEF AppInv, AppTypeOK, Reply, Phases
  <2>4. UNCHANGED pc
    BY <1>5 DEF callVars
  <2>5. RequestProgress(w)'
    BY <1>1, <1>2, <2>2 DEF RequestProgress
  <2>6. reply'[w].version = None /\ reply'[w].status # 503
    BY <2>1, <2>2
  <2>7. RequestsOK'
    BY <1>1, <1>2, <2>2, <2>3, <2>4, <2>5, <2>6, WorkerStepInv DEF AppInv, AppTypeOK
  <2> QED
    BY <1>1, <2>4, <2>7, GaugeFrame
<1>6. CASE Call(w) /\ Enter(w, "reloading") /\ UNCHANGED reply
  <2>1. /\ phase'[w] = "reloading" /\ reply'[w] = None
        /\ pc[w] = "idle" /\ pc' = [pc EXCEPT ![w] = "pointer"]
    BY <1>3, <1>6 DEF Call, Goto, AppInv, AppTypeOK
  <2>2. \A t \in Threads : pc'[t] = IF t = w THEN "pointer" ELSE pc[t]
    BY <2>1 DEF AppInv, StoreInv, StoreTypeOK
  <2>3. w \in Threads
    BY AppAssumption
  <2>4. AppTypeOK'
    BY <1>1, <1>4, <1>6 DEF AppInv, AppTypeOK, Phases
  <2>5. RequestProgress(w)'
    BY <1>1, <1>2, <2>1, <2>2, <2>3 DEF RequestProgress
  <2>6. \A u \in Workers \ {w} : pc'[u] = pc[u]
    BY <2>2, AppAssumption
  <2>7. RequestsOK'
    BY <1>1, <1>2, <1>6, <2>1, <2>4, <2>5, <2>6, WorkerStepInv DEF AppInv, AppTypeOK
  <2>8. \A t \in Threads : (pc'[t] = "loaded") = (pc[t] = "loaded")
    BY <2>1, <2>2
  <2> QED
    BY <1>1, <2>7, <2>8, GaugeFrame
<1> QED
  BY <1>5, <1>6

LEMMA PostReloadDoneInv ==
  ASSUME NEW w \in Workers, AppInv, PostReloadDone(w)
  PROVE  RequestsOK' /\ GaugeOK'
<1> USE DEF PostReloadDone, Answer, Refuse, Enter
<1> DEFINE m == got[w]
<1>1. w \in Threads /\ pc[w] \in Outcomes /\ phase[w] = "reloading"
  BY AppAssumption DEF Return
<1>2. GaugeOK' /\ gauge' \in {0, 1}
  BY <1>1, NoteLoadedGauge
<1>3. /\ UNCHANGED <<current, header, booted, loaded, seen>>
      /\ \A u \in Workers \ {w} : pc'[u] = pc[u] /\ got'[u] = got[u]
  BY <1>1, AppAssumption DEF Return, Goto, AppInv, StoreInv, StoreTypeOK
<1>4. pc[w] = "loaded" => m \in seen[w] \ {None} /\ m \in LoadedModel
  BY <1>1 DEF AppInv, AppTypeOK, RequestProgress
<1>5. pc[w] = "loaded" => m.pointer.version \in Versions
  BY <1>4, LoadedFields
<1>6. /\ phase' = [phase EXCEPT ![w] = "answered"]
      /\ \E status \in {200, 404, 500}, version \in Versions \cup {None} :
            /\ reply' = [reply EXCEPT ![w] =
                           [status |-> status, version |-> version,
                            contract |-> None, model |-> None]]
            /\ version # None => pc[w] = "loaded" /\ version = m.pointer.version
  <2>1. CASE pc[w] = "loaded"
    BY <1>5, <2>1
  <2>2. CASE pc[w] = "LookupError"
    BY <2>2
  <2>3. CASE pc[w] \notin {"loaded", "LookupError"}
    BY <2>3
  <2> QED
    BY <2>1, <2>2, <2>3
<1>7. AppTypeOK'
  <2>1. phase' \in [Workers -> Phases]
    BY <1>6 DEF AppInv, AppTypeOK, Phases
  <2>2. reply' \in [Workers -> Reply \cup {None}]
    BY <1>6 DEF AppInv, AppTypeOK, Reply
  <2> QED
    BY <1>2, <1>3, <2>1, <2>2 DEF AppInv, AppTypeOK
<1>8. /\ reply'[w].status # 503 /\ reply'[w].contract = None /\ reply'[w].model = None
      /\ reply'[w].version # None =>
            pc[w] = "loaded" /\ reply'[w].version = m.pointer.version
  <2>1. PICK status \in {200, 404, 500}, version \in Versions \cup {None} :
          /\ reply' = [reply EXCEPT ![w] =
                         [status |-> status, version |-> version,
                          contract |-> None, model |-> None]]
          /\ version # None => pc[w] = "loaded" /\ version = m.pointer.version
    BY <1>6
  <2>2. reply'[w] = [status |-> status, version |-> version,
                     contract |-> None, model |-> None]
    BY <2>1 DEF AppInv, AppTypeOK
  <2> QED
    BY <2>1, <2>2
<1>9. phase'[w] = "answered"
  BY <1>6 DEF AppInv, AppTypeOK
<1>10. RequestProgress(w)'
  BY <1>1, <1>3, <1>9 DEF AppInv, RequestProgress
<1>11. RequestsOK'
  <2>1. reply'[w].version # None =>
          \E x \in seen'[w] \ {None} :
             /\ reply'[w].version = x.pointer.version
             /\ reply'[w].contract \in {None, x.manifest}
             /\ reply'[w].model \in {None, x.model}
    BY <1>3, <1>4, <1>8
  <2>2. reply'[w].status # 503
    BY <1>8
  <2>3. \A u \in Workers \ {w} : phase'[u] = phase[u] /\ reply'[u] = reply[u]
    BY <1>6 DEF AppInv, AppTypeOK
  <2> QED
    BY <1>3, <1>7, <1>9, <1>10, <2>1, <2>2, <2>3, WorkerStepInv
<1> QED
  BY <1>2, <1>11

LEMMA AppStepInv == AppInv /\ [AppNext]_appVars => AppInv'
<1> SUFFICES ASSUME AppInv, [AppNext]_appVars
             PROVE  AppInv'
  OBVIOUS
<1>1. StoreInv'
  BY AppStepIsStoreStep, StoreStepInv DEF AppInv, appVars, storeVars
<1>2. CASE AppNext
  <2> SUFFICES RequestsOK' /\ GaugeOK'
    BY <1>1 DEF AppInv, RequestsOK, GaugeOK
  <2>1. CASE Environment
    BY <2>1, EnvironmentInv
  <2>2. CASE Boot \/ Wake
    BY <2>2, CallingInv
  <2>3. CASE BootDone \/ Sleep
    BY <2>3, CalledInv
  <2>4. CASE \E t \in Threads : Progress(t)
    BY <2>4, ProgressInv
  <2>5. CASE \E w \in Workers : Request(w)
    BY <2>5, ProbeInv, PredictInv, PostReloadInv DEF Request
  <2>6. CASE \E w \in Workers : Handle(w)
    BY <2>6, ValidateInv, InferInv, HookInv, CloseInv, PostReloadDoneInv DEF Handle
  <2> QED
    BY <1>2, <2>1, <2>2, <2>3, <2>4, <2>5, <2>6 DEF AppNext
<1>3. CASE UNCHANGED appVars
  <2>1. RequestsOK' /\ GaugeOK'
    <3>1. UNCHANGED <<current, pc, got, booted, gauge, requestVars, seen>>
      BY <1>3 DEF appVars, storeVars, callVars
    <3>2. gauge' \in {0, 1}
      BY <3>1 DEF AppInv, AppTypeOK
    <3> QED
      BY <3>1, <3>2, RequestsFrame, GaugeFrame
  <2> QED
    BY <1>1, <2>1 DEF AppInv, RequestsOK, GaugeOK
<1> QED
  BY <1>2, <1>3

-----------------------------------------------------------------------------
(* What was seen, and what is told, is genuine.                            *)

\* A request sees nothing but what is served, and its header is of that.
LEMMA SeesOnlyServed ==
  ASSUME AppInv, [AppNext]_appVars, NEW w \in Workers
  PROVE  /\ seen'[w] \subseteq seen[w] \cup {current'}
         /\ header'[w] # None =>
               \/ header'[w] = header[w]
               \/ current' # None /\ header'[w] = current'.pointer.version
<1>1. seen \in [Workers -> SUBSET (LoadedModel \cup {None})] /\ DOMAIN header = Workers
  BY DEF AppInv, AppTypeOK
<1>2. CASE UNCHANGED <<seen, header>>
  BY <1>2
<1>3. CASE \E t \in Threads : Progress(t)
  BY <1>1, <1>3 DEF Progress, requestVars
<1>4. ASSUME NEW u \in Workers, Probe(u) \/ Predict(u)
      PROVE  seen' = [seen EXCEPT ![u] = {current'}] /\ UNCHANGED header
  BY <1>4 DEF Probe, Predict, Open, storeVars, callVars
<1>5. ASSUME NEW u \in Workers, NEW token, PostReload(u, token)
      PROVE  seen' = [seen EXCEPT ![u] = {current'}] /\ UNCHANGED header
  BY <1>5 DEF PostReload, Open, callVars, Call
<1>6. ASSUME NEW u \in Workers, Hook(u)
      PROVE  /\ UNCHANGED <<seen, current>>
             /\ header' = [header EXCEPT ![u] = IF current = None THEN None
                                                ELSE current.pointer.version]
  BY <1>6 DEF Hook, storeVars, callVars
<1>7. ASSUME NEW u \in Workers, Close(u)
      PROVE  seen' = [seen EXCEPT ![u] = {}] /\ header' = [header EXCEPT ![u] = None]
  BY <1>7 DEF Close
<1>8. CASE \E u \in Workers : Request(u)
  BY <1>1, <1>4, <1>5, <1>8 DEF Request
<1>9. CASE \E u \in Workers : Hook(u)
  BY <1>1, <1>6, <1>9
<1>10. CASE \E u \in Workers : Close(u)
  BY <1>1, <1>7, <1>10
<1> QED
  BY <1>2, <1>3, <1>8, <1>9, <1>10
  DEF AppNext, Environment, Boot, BootDone, Wake, Sleep, Handle, Validate, Infer,
      PostReloadDone, appVars, requestVars

\* The histories of the bucket only grow, in the process as in the store.
LEMMA HistoriesGrow ==
  ASSUME AppInv, [AppNext]_appVars
  PROVE  promoted \subseteq promoted' /\ stored \subseteq stored'
<1>1. [StoreNext]_storeVars
  BY AppStepIsStoreStep DEF appVars, storeVars
<1>2. CASE Train
  BY <1>2, TrainingRecords DEF Train, AppInv, StoreInv, StoreTypeOK, BucketRecorded
<1>3. CASE UNCHANGED bucketVars
  BY <1>3 DEF bucketVars
<1> QED
  BY <1>1, <1>2, <1>3 DEF StoreNext, Reload, storeVars

LEMMA SeenGenuineInv == AppInv /\ AppInv' /\ SeenGenuine /\ [AppNext]_appVars => SeenGenuine'
<1> SUFFICES ASSUME AppInv, AppInv', SeenGenuine, [AppNext]_appVars, NEW w \in Workers
             PROVE  /\ \A m \in seen'[w] \ {None} : Genuine(m)'
                    /\ header'[w] # None => header'[w] \in promoted'
  BY DEF SeenGenuine
<1>1. promoted \subseteq promoted' /\ stored \subseteq stored'
  BY HistoriesGrow
<1>2. (current # None => Genuine(current) /\ current.pointer.version \in promoted)'
  BY DEF AppInv, StoreInv, ServedGenuine, Genuine
<1>3. \A m \in seen[w] \ {None} : Genuine(m)'
  BY <1>1, GenuineGrows DEF SeenGenuine
<1> QED
  BY <1>1, <1>2, <1>3, SeesOnlyServed DEF SeenGenuine

-----------------------------------------------------------------------------
(* Requests move on.                                                       *)

\* A step of a reload takes it further, and leaves the other calls as they are.
LEMMA WorkNearer ==
  ASSUME NEW t \in Threads, StoreInv, Work(t)
  PROVE  /\ pc[t] # "idle" /\ pc'[t] # "idle"
         /\ CallStepsLeft(pc[t]) \in 1..5
         /\ CallStepsLeft(pc'[t]) \in 0..(CallStepsLeft(pc[t]) - 1)
<1> USE DEF StoreInv, StoreTypeOK, Goto, Raise, Failures, CallStepsLeft
<1>1. CASE ReadPointer(t)
  BY <1>1 DEF ReadPointer
<1>2. CASE Compare(t)
  BY <1>2 DEF Compare
<1>3. CASE ReadManifest(t)
  BY <1>3 DEF ReadManifest
<1>4. CASE Download(t)
  BY <1>4 DEF Download
<1>5. CASE Swap(t)
  BY <1>5 DEF Swap
<1>6. CASE StoreError(t) \/ \E failure \in Failures : UnpickleError(t, failure)
  BY <1>6 DEF StoreError, UnpickleError
<1> QED
  BY <1>1, <1>2, <1>3, <1>4, <1>5, <1>6 DEF Work

Untouched(w) ==
  UNCHANGED <<phase[w], loaded[w], reply[w], header[w], pc[w], got[w]>>

\* What becomes of the request of a worker in one step.
Onward(w) ==
  /\ phase'[w] = "reloading" <=> pc'[w] # "idle"
  /\ phase[w] # "free" => StepsOf(w)' < StepsOf(w) \/ Untouched(w)

\* A request of one worker does not touch that of another.
LEMMA OthersUntouched ==
  ASSUME AppInv, NEW v \in Workers, Request(v) \/ Handle(v), NEW w \in Workers, w # v
  PROVE  Untouched(w)
<1> USE DEF Untouched, AppInv, AppTypeOK, Enter, Answer, Refuse, Capture
<1>1. CASE Probe(v) \/ Predict(v)
  BY <1>1 DEF Probe, Predict, storeVars, callVars
<1>2. ASSUME NEW token, PostReload(v, token)
      PROVE  Untouched(w)
  <2>1. phase'[w] = phase[w] /\ reply'[w] = reply[w] /\ UNCHANGED <<loaded, header>>
    BY <1>2 DEF PostReload
  <2>2. UNCHANGED <<pc, got>> \/ (pc' = [pc EXCEPT ![v] = "pointer"] /\ UNCHANGED got)
    BY <1>2 DEF PostReload, Call, Goto, callVars
  <2>3. pc'[w] = pc[w] /\ UNCHANGED got
    BY <2>2, AppAssumption DEF StoreInv, StoreTypeOK
  <2> QED BY <2>1, <2>3
<1>3. CASE Validate(v) \/ Hook(v) \/ Close(v)
  BY <1>3 DEF Validate, Hook, Close, storeVars, callVars
<1>5. CASE Infer(v)
  <2>1. PICK r : reply' = [reply EXCEPT ![v] = r]
    BY <1>5 DEF Infer
  <2> QED BY <1>5, <2>1 DEF Infer, storeVars, callVars
<1>4. CASE PostReloadDone(v)
  <2>1. UNCHANGED <<loaded[w], header[w], phase[w], reply[w]>>
    BY <1>4 DEF PostReloadDone
  <2>2. UNCHANGED <<pc[w], got[w]>>
    BY <1>4 DEF PostReloadDone, Return, Goto, StoreInv, StoreTypeOK
  <2> QED BY <2>1, <2>2 DEF Untouched
<1> QED BY <1>1, <1>2, <1>3, <1>4, <1>5 DEF Request, Handle

LEMMA HandleNearer ==
  ASSUME AppInv, WorkerCalls, NEW w \in Workers, Handle(w)
  PROVE  Onward(w)
<1> USE DEF Onward, WorkerCalls, AppInv, AppTypeOK, Enter, Answer, Refuse, StepsOf
<1>1. CASE Validate(w)
  BY <1>1 DEF Validate, storeVars, callVars
<1>2. CASE Infer(w)
  <2>1. phase[w] = "validated" /\ phase'[w] = "answered" /\ UNCHANGED pc
    BY <1>2 DEF Infer, storeVars, callVars
  <2> QED BY <2>1
<1>3. CASE Hook(w)
  BY <1>3 DEF Hook, storeVars, callVars
<1>4. CASE Close(w)
  BY <1>4 DEF Close, storeVars, callVars
<1>5. CASE PostReloadDone(w)
  <2>1. phase[w] = "reloading" /\ phase'[w] = "answered"
    BY <1>5 DEF PostReloadDone
  <2>2. pc'[w] = "idle" /\ pc[w] \in Outcomes
    BY <1>5, AppAssumption DEF PostReloadDone, Return, Goto, StoreInv, StoreTypeOK
  <2>3. CallStepsLeft(pc[w]) = 0
    BY <2>2 DEF CallStepsLeft, Outcomes, Failures
  <2> QED BY <2>1, <2>2, <2>3
<1> QED BY <1>1, <1>2, <1>3, <1>4, <1>5 DEF Handle

LEMMA RequestBegins ==
  ASSUME AppInv, WorkerCalls, NEW w \in Workers, Request(w)
  PROVE  Onward(w)
<1> USE DEF Onward, WorkerCalls, AppInv, AppTypeOK, Enter, Answer, Refuse
<1>1. CASE Probe(w) \/ Predict(w)
  BY <1>1 DEF Probe, Predict, storeVars, callVars
<1>2. ASSUME NEW token, PostReload(w, token)
      PROVE  Onward(w)
  BY <1>2, AppAssumption DEF PostReload, Call, Goto, StoreInv, StoreTypeOK, callVars
<1> QED BY <1>1, <1>2 DEF Request

LEMMA StepMovesOn ==
  ASSUME AppInv, WorkerCalls, AppNext, NEW w \in Workers
  PROVE  Onward(w)
<1>1. w \in Threads /\ w # Main /\ w # Reloader
  BY AppAssumption
<1>2. ASSUME Untouched(w) PROVE Onward(w)
  BY <1>2 DEF Onward, Untouched, WorkerCalls
<1>3. CASE Environment
  BY <1>2, <1>3 DEF Environment, Train, callVars, requestVars, Untouched
<1>4. CASE Boot \/ BootDone \/ Wake \/ Sleep
  <2>1. UNCHANGED requestVars /\ pc'[w] = pc[w] /\ got'[w] = got[w]
    BY <1>1, <1>4, AppAssumption
    DEF Boot, BootDone, Wake, Sleep, Call, Return, Goto, AppInv, StoreInv, StoreTypeOK
  <2> QED BY <1>2, <2>1 DEF requestVars, Untouched
<1>5. ASSUME NEW t \in Threads, Progress(t) PROVE Onward(w)
  <2>1. Work(t) /\ UNCHANGED requestVars
    BY <1>5 DEF Progress
  <2>2. CASE t # w
    <3>1. pc'[w] = pc[w] /\ got'[w] = got[w]
      BY <1>1, <2>1, <2>2, WorkServes DEF AppInv
    <3> QED BY <1>2, <2>1, <3>1 DEF requestVars, Untouched
  <2>3. CASE t = w
    <3>1. /\ pc[w] # "idle" /\ pc'[w] # "idle"
          /\ CallStepsLeft(pc[w]) \in 1..5
          /\ CallStepsLeft(pc'[w]) \in 0..(CallStepsLeft(pc[w]) - 1)
      BY <1>1, <2>1, <2>3, WorkNearer DEF AppInv
    <3>2. phase[w] = "reloading" /\ phase'[w] = "reloading"
      BY <2>1, <3>1 DEF WorkerCalls, requestVars
    <3> QED BY <3>1, <3>2 DEF Onward, StepsOf
  <2> QED BY <2>2, <2>3
<1>6. ASSUME NEW v \in Workers, Request(v) \/ Handle(v) PROVE Onward(w)
  BY <1>2, <1>6, OthersUntouched, RequestBegins, HandleNearer
<1> QED BY <1>3, <1>4, <1>5, <1>6 DEF AppNext

LEMMA WorkerCallsInv ==
  /\ AppInit => WorkerCalls
  /\ AppInv /\ WorkerCalls /\ [AppNext]_appVars => WorkerCalls'
<1>1. AppInit => WorkerCalls
  BY AppAssumption DEF AppInit, StoreInit, WorkerCalls
<1>2. ASSUME WorkerCalls, UNCHANGED appVars PROVE WorkerCalls'
  BY <1>2 DEF WorkerCalls, appVars, storeVars, callVars, requestVars
<1>3. ASSUME AppInv, WorkerCalls, AppNext PROVE WorkerCalls'
  BY <1>3, StepMovesOn DEF Onward, WorkerCalls
<1> QED BY <1>1, <1>2, <1>3

-----------------------------------------------------------------------------
(* The results.                                                            *)

\* AppInv holds in every state that can be reached.
THEOREM AppInvariant == AppSpec => []AppInv
  BY AppInitInv, AppStepInv, PTL DEF AppSpec

\* Every variable of the process keeps a value of its kind.
THEOREM AppTypeCorrect == AppSpec => []AppTypeOK
<1>1. AppInv => AppTypeOK
  BY DEF AppInv
<1> QED
  BY <1>1, AppInvariant, PTL

\* However many threads reload under it, an answer that names a version is
\* about one model that was served during the request, and a 503 is given only
\* when none was.
THEOREM AnswersAreOfOneModel == AppSpec => []AnswersOneServedModel
<1>1. AppInv => AnswersOneServedModel
  BY DEF AppInv
<1> QED
  BY <1>1, AppInvariant, PTL

\* From the bucket to the client: a version that is told was promoted, and a
\* prediction was made by intact bytes of it, on features that were checked
\* against the very manifest that gives their digest.
THEOREM GenuineAnswers == AppSpec => []AnswersAreGenuine
<1>1. AppInit => SeenGenuine
  BY DEF AppInit, SeenGenuine
<1>2. AppInv /\ SeenGenuine => AnswersAreGenuine
  BY DEF AppInv, AppTypeOK, SeenGenuine, AnswersOneServedModel, AnswersAreGenuine
<1> QED
  BY <1>1, <1>2, SeenGenuineInv, AppInvariant, PTL DEF AppSpec

\* The hook's second look never turns an answer that names a version into one
\* whose X-Model-Version is "none".
THEOREM HeaderNamesAModel == AppSpec => []HeaderNamesModel
<1>1. AppInv => HeaderNamesModel
  BY DEF AppInv
<1> QED
  BY <1>1, AppInvariant, PTL

\* The model_loaded gauge never claims a model that is not there, and lags a
\* served one only while the thread that loaded it has yet to set it.
THEOREM GaugeIsTrue == AppSpec => []GaugeTellsLoaded
<1>1. AppInv => GaugeTellsLoaded
  BY DEF AppInv
<1> QED
  BY <1>1, AppInvariant, PTL

\* A request is answered after at most eight steps of its own, none of which a
\* failure or another thread takes back, and the one that waits for its reload
\* has a reload that goes on (app.py, the handlers; loader.py, reload).
THEOREM RequestsAlwaysMoveOn == AppSpec => RequestsMoveOn
<1> DEFINE Goes ==
      \A w \in Workers : phase[w] # "free" =>
         /\ phase[w] = "reloading" => pc[w] # "idle"
         /\ \/ StepsOf(w)' < StepsOf(w)
            \/ UNCHANGED <<phase[w], loaded[w], reply[w], header[w], pc[w], got[w]>>
<1>1. AppInv /\ WorkerCalls /\ [AppNext]_appVars => [Goes]_appVars
  <2>1. ASSUME AppInv, WorkerCalls, AppNext, NEW w \in Workers, phase[w] # "free"
        PROVE  /\ phase[w] = "reloading" => pc[w] # "idle"
               /\ StepsOf(w)' < StepsOf(w) \/ Untouched(w)
    <3>1. phase[w] = "reloading" => pc[w] # "idle"
      BY <2>1 DEF WorkerCalls
    <3>2. Onward(w)
      BY <2>1, StepMovesOn
    <3> QED BY <2>1, <3>1, <3>2 DEF Onward
  <2> QED BY <2>1 DEF Untouched
<1> HIDE DEF Goes
<1>2. AppInv /\ WorkerCalls /\ [AppNext]_appVars => [Goes]_appVars
  BY <1>1
<1>3. AppSpec => [][Goes]_appVars
  BY <1>2, WorkerCallsInv, AppInvariant, PTL DEF AppSpec
<1> QED
  BY <1>3 DEF Goes, RequestsMoveOn
=============================================================================
