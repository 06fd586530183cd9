----------------------------- MODULE ServingApp -----------------------------
(***************************************************************************)
(* app.py: the serving process around a ModelStore.  Main boots it, tries  *)
(* one reload and then starts the background reloader; worker threads      *)
(* answer requests: they read the served model, or reload it (POST         *)
(* /reload), and all of them share the store and the model_loaded gauge.   *)
(* A handler is cut where it reads the served model and where it answers.  *)
(***************************************************************************)
EXTENDS ModelStore

CONSTANTS
    Main,               \* the thread that boots the process
    Reloader,           \* the thread of the background reloader
    Workers,            \* the threads that answer requests
    Tokens,             \* the values an X-Admin-Token header may have
    NonAscii,           \* the tokens that compare_digest raises TypeError for
    AdminToken,         \* APP_ADMIN_TOKEN, or None when it is not set
    ReloadInterval      \* APP_RELOAD_INTERVAL_S; 0 disables the reloader

ASSUME AppAssumption ==
    /\ Threads = {Main, Reloader} \cup Workers
    /\ Main # Reloader /\ Main \notin Workers /\ Reloader \notin Workers
    /\ AdminToken \in Tokens \cup {None} /\ None \notin Tokens
    /\ NonAscii \subseteq Tokens
    /\ ReloadInterval \in Nat

VARIABLES
    booted,     \* create_app has returned: the workers accept requests
    gauge,      \* metrics.model_loaded
    phase,      \* worker -> where its request is
    loaded,     \* worker -> the model its handler captured, or None
    reply,      \* worker -> the answer it has made, or None
    header,     \* worker -> the version in X-Model-Version, or None
    seen        \* history: worker -> values _current had during its request

requestVars == <<phase, loaded, reply, header>>
appVars == <<storeVars, booted, gauge, requestVars, seen>>

Phases == {"free", "captured", "validated", "reloading", "answered", "sent"}

\* An answer: its status, the version its body names, and, for a prediction,
\* the contract the features were validated against and the model that ran.
Reply == [status : {200, 400, 401, 404, 413, 500, 501, 503},
          version : Versions \cup {None},
          contract : ArtifactManifest \cup {None},
          model : Blobs \cup {None}]

AppInit ==
    /\ StoreInit
    /\ booted = FALSE
    /\ gauge = 0
    /\ phase = [w \in Workers |-> "free"]
    /\ loaded = [w \in Workers |-> None]
    /\ reply = [w \in Workers |-> None]
    /\ header = [w \in Workers |-> None]
    /\ seen = [w \in Workers |-> {}]

-----------------------------------------------------------------------------
(* Requests that read the served model.                                    *)

\* What a worker sees is noted from the start of its request to its end.
Open(w) == seen' = [seen EXCEPT ![w] = {current}]

Enter(w, p) == phase' = [phase EXCEPT ![w] = p]

Answer(w, status, version, contract, model) ==
    /\ Enter(w, "answered")
    /\ reply' = [reply EXCEPT ![w] = [status |-> status, version |-> version,
                                      contract |-> contract, model |-> model]]

Refuse(w, status) == Answer(w, status, None, None, None)

Capture(w) == loaded' = [loaded EXCEPT ![w] = current]

\* GET /ready and GET /model/info: one look at the served model.
Probe(w) ==
    /\ booted /\ phase[w] = "free"
    /\ Open(w) /\ Capture(w)
    /\ IF current = None
         THEN Refuse(w, 503)
         ELSE Answer(w, 200, current.pointer.version, None, None)
    /\ UNCHANGED <<storeVars, booted, gauge, header>>

\* POST /predict and /predict/batch, up to the capture of the served model.
Predict(w) ==
    /\ booted /\ phase[w] = "free"
    /\ Open(w)
    /\ \/ /\ \E status \in {400, 413} : Refuse(w, status) \* malformed, too many rows or bytes
          /\ UNCHANGED loaded
       \/ current = None /\ Refuse(w, 503) /\ UNCHANGED loaded
       \/ current # None /\ Capture(w) /\ Enter(w, "captured") /\ UNCHANGED reply
    /\ UNCHANGED <<storeVars, booted, gauge, header>>

\* validate_features against the captured manifest's schema contract; an error of
\* its arithmetic, or a column that is not there, is nobody's but Flask's to answer.
Validate(w) ==
    /\ phase[w] = "captured"
    /\ \/ \E status \in {400, 500} : Refuse(w, status)
       \/ Enter(w, "validated") /\ UNCHANGED reply
    /\ UNCHANGED <<storeVars, booted, gauge, loaded, header, seen>>

\* Mutant of Infer: the answer names the model served by now.
InferRereading(w) ==
    /\ phase[w] = "validated"
    /\ \/ Refuse(w, 500)
       \/ LET m == loaded[w] IN
          Answer(w, 200, current.pointer.version, m.manifest, m.model)
    /\ UNCHANGED <<storeVars, booted, gauge, loaded, header, seen>>

\* The prediction, by the captured model, and the answer that names it.
Infer(w) ==
    /\ phase[w] = "validated"
    /\ \/ Refuse(w, 500)
       \/ LET m == loaded[w] IN
          Answer(w, 200, m.pointer.version, m.manifest, m.model)
    /\ UNCHANGED <<storeVars, booted, gauge, loaded, header, seen>>

\* The after_request hook reads the served model once more, for the header.
Hook(w) ==
    /\ phase[w] = "answered"
    /\ Enter(w, "sent")
    /\ header' = [header EXCEPT ![w] =
                    IF current = None THEN None ELSE current.pointer.version]
    /\ UNCHANGED <<storeVars, booted, gauge, loaded, reply, seen>>

\* The worker is free for its next request.
Close(w) ==
    /\ phase[w] = "sent"
    /\ Enter(w, "free")
    /\ loaded' = [loaded EXCEPT ![w] = None]
    /\ reply' = [reply EXCEPT ![w] = None]
    /\ header' = [header EXCEPT ![w] = None]
    /\ seen' = [seen EXCEPT ![w] = {}]
    /\ UNCHANGED <<storeVars, booted, gauge>>

-----------------------------------------------------------------------------
(* Reloads: by the boot, by the background reloader, by POST /reload.      *)

\* Mutant of NoteLoaded: the gauge is set after any reload that did not raise
\* LookupError.
NoteAttempted(t) == gauge' = IF pc[t] # "LookupError" THEN 1 ELSE gauge

\* metrics.set_model_loaded(True) follows a reload that returned a model.
NoteLoaded(t) == gauge' = IF pc[t] = "loaded" THEN 1 ELSE gauge

\* Boot: one try_reload; whatever it raises, the process starts, in standby
\* if need be, and starts the reloader.
Boot ==
    /\ ~booted /\ Call(Main)
    /\ UNCHANGED <<bucketVars, booted, gauge, requestVars, seen>>

BootDone ==
    /\ pc[Main] \in Outcomes
    /\ NoteLoaded(Main)
    /\ Return(Main)
    /\ booted' = TRUE
    /\ UNCHANGED <<bucketVars, requestVars, seen>>

\* Mutant of Sleep: the reloader thread dies of a failed reload.
SleepIfLoaded ==
    /\ pc[Reloader] = "loaded"
    /\ NoteLoaded(Reloader)
    /\ Return(Reloader)
    /\ UNCHANGED <<bucketVars, booted, requestVars, seen>>

\* The reloader wakes from its sleep; it survives every failure.
Wake ==
    /\ booted /\ ReloadInterval > 0
    /\ Call(Reloader)
    /\ UNCHANGED <<bucketVars, booted, gauge, requestVars, seen>>

Sleep ==
    /\ NoteLoaded(Reloader)
    /\ Return(Reloader)
    /\ UNCHANGED <<bucketVars, booted, requestVars, seen>>

\* Mutant of AdminRefusal: a wrong token is refused with another status.
AdminForbids(token) ==
    IF AdminToken = None THEN 501
    ELSE IF {token, AdminToken} \cap NonAscii # {} THEN 500
    ELSE IF token # AdminToken THEN 403 ELSE None

\* _require_admin: the status a token is refused with, or None.  Two tokens can be
\* compared only when both are ASCII.
AdminRefusal(token) ==
    IF AdminToken = None THEN 501
    ELSE IF {token, AdminToken} \cap NonAscii # {} THEN 500
    ELSE IF token # AdminToken THEN 401 ELSE None

PostReload(w, token) ==
    /\ booted /\ phase[w] = "free"
    /\ Open(w)
    /\ \/ /\ AdminRefusal(token) # None
          /\ Refuse(w, AdminRefusal(token))
          /\ UNCHANGED <<callVars, window>>
       \/ /\ AdminRefusal(token) = None
          /\ Call(w) /\ Enter(w, "reloading")
          /\ UNCHANGED reply
    /\ UNCHANGED <<bucketVars, booted, gauge, loaded, header>>

PostReloadDone(w) ==
    /\ phase[w] = "reloading"
    /\ NoteLoaded(w)
    /\ Return(w)
    /\ CASE pc[w] = "loaded" -> Answer(w, 200, got[w].pointer.version, None, None)
         [] pc[w] = "LookupError" -> Refuse(w, 404)
         [] OTHER -> Refuse(w, 500)
    /\ UNCHANGED <<bucketVars, booted, loaded, header, seen>>

\* A step of a reload in flight; the requests in flight see what it swaps in.
Progress(t) ==
    /\ Work(t)
    /\ seen' = [w \in Workers |->
                  IF phase[w] = "free" THEN {} ELSE seen[w] \cup {current'}]
    /\ UNCHANGED <<bucketVars, window, booted, gauge, requestVars>>

-----------------------------------------------------------------------------
Environment == Train /\ UNCHANGED <<booted, gauge, requestVars, seen>>

Request(w) ==
    \/ Probe(w) \/ Predict(w) \/ \E token \in Tokens \cup {None} : PostReload(w, token)

Handle(w) == Validate(w) \/ Infer(w) \/ PostReloadDone(w) \/ Hook(w) \/ Close(w)

AppNext ==
    \/ Environment
    \/ Boot \/ BootDone \/ Wake \/ Sleep
    \/ \E t \in Threads : Progress(t)
    \/ \E w \in Workers : Request(w) \/ Handle(w)

AppSpec == AppInit /\ [][AppNext]_appVars

\* The threads of the process are scheduled, S3 calls end (they time out), and
\* the reloader's sleep ends.  No request has to come, and no one has to write
\* to the bucket.
AppFairness ==
    /\ WF_appVars(Boot) /\ WF_appVars(BootDone) /\ WF_appVars(Wake) /\ WF_appVars(Sleep)
    /\ \A t \in Threads : WF_appVars(Progress(t))
    /\ \A w \in Workers : WF_appVars(Handle(w))

FairAppSpec == AppSpec /\ AppFairness

-----------------------------------------------------------------------------
\* Every variable of the process holds a value of its kind.
AppTypeOK ==
    /\ booted \in BOOLEAN
    /\ gauge \in {0, 1}
    /\ phase \in [Workers -> Phases]
    /\ loaded \in [Workers -> LoadedModel \cup {None}]
    /\ reply \in [Workers -> Reply \cup {None}]
    /\ header \in [Workers -> Versions \cup {None}]
    /\ seen \in [Workers -> SUBSET (LoadedModel \cup {None})]

\* An answer that names a version is about one model that was served at some
\* time during the request: the contract the features were checked against,
\* the model that ran and the version in the body are that model's, although
\* other threads swap the served model under the handler.  A 503 is given only
\* if no model was served at some time during the request (app.py, predict,
\* predict_batch, ready, model_info, reload_model).
AnswersOneServedModel ==
    \A w \in Workers : reply[w] # None =>
        /\ reply[w].version # None =>
              \E m \in seen[w] \ {None} :
                 /\ reply[w].version = m.pointer.version
                 /\ reply[w].contract \in {None, m.manifest}
                 /\ reply[w].model \in {None, m.model}
        /\ reply[w].status = 503 => None \in seen[w]

\* From the bucket to the client: a version is only ever told, in a body or in
\* X-Model-Version, that was promoted, and a prediction is made by bytes with
\* the digest of the manifest whose schema contract its features were checked
\* against, both of that version (loader.py, reload; app.py, predict and the
\* after_request hook).
AnswersAreGenuine ==
    \A w \in Workers :
        /\ reply[w] # None /\ reply[w].version # None =>
              \E m \in LoadedModel :
                 /\ Genuine(m)
                 /\ reply[w].version = m.pointer.version
                 /\ reply[w].contract \in {None, m.manifest}
                 /\ reply[w].model \in {None, m.model}
        /\ header[w] # None => header[w] \in promoted

\* A body that names a version never travels with X-Model-Version "none": the
\* hook's second look at the served model may find another one, never none.
HeaderNamesModel ==
    \A w \in Workers :
        phase[w] = "sent" /\ reply[w] # None /\ reply[w].version # None =>
            header[w] # None

\* The model_loaded gauge is 1 only if a model is served, and it is 0 with a
\* model served only until the thread that loaded it gets to set it.
GaugeTellsLoaded ==
    /\ gauge = 1 => current # None
    /\ current # None => gauge = 1 \/ \E t \in Threads : pc[t] = "loaded"

\* What makes these inductive: what a request in flight has captured, or has
\* got from its reload, was served during it, and is never taken back.
RequestProgress(w) ==
    /\ phase[w] # "free" => current \in seen[w]
    /\ reply[w] # None => phase[w] \in {"answered", "sent"}
    /\ seen[w] \ {None} # {} => current # None
    /\ phase[w] \in {"captured", "validated"} => loaded[w] \in seen[w] \ {None}
    /\ phase[w] = "reloading" /\ pc[w] = "loaded" => got[w] \in seen[w] \ {None}

\* A reload that has returned a model leaves one served.
LoadedIsServed == \A t \in Threads : pc[t] = "loaded" => current # None

AppInv ==
    /\ StoreInv
    /\ LoadedIsServed
    /\ AppTypeOK
    /\ AnswersOneServedModel
    /\ HeaderNamesModel
    /\ GaugeTellsLoaded
    /\ \A w \in Workers : RequestProgress(w)

\* And what a request has seen served was genuine, which it then stays.
SeenGenuine ==
    /\ \A w \in Workers : \A m \in seen[w] \ {None} : Genuine(m)
    /\ \A w \in Workers : header[w] # None => header[w] \in promoted

\* And a request waits for a reload exactly while its worker is in one.
WorkerCalls == \A w \in Workers : phase[w] = "reloading" <=> pc[w] # "idle"

\* Every request that is accepted is answered, the ones that reload included.
RequestsAnswered ==
    \A w \in Workers : phase[w] # "free" ~> phase[w] = "free"

CallStepsLeft(at) ==
    CASE at = "pointer" -> 5 [] at = "compare" -> 4 [] at = "manifest" -> 3
      [] at = "download" -> 2 [] at = "swap" -> 1 [] OTHER -> 0

\* The steps that the request of a worker has left, those of its reload counted.
StepsOf(w) ==
    CASE phase[w] = "captured" -> 4
      [] phase[w] = "validated" -> 3
      [] phase[w] = "reloading" -> 3 + CallStepsLeft(pc[w])
      [] phase[w] = "answered" -> 2
      [] phase[w] = "sent" -> 1
      [] OTHER -> 0

\* A request is answered after at most eight steps of its own: no failure makes
\* it start again, nothing that other threads do to the model it uses or to the
\* reloads it overlaps takes a step of it back, and one that waits for its reload
\* has a reload that goes on (app.py, the handlers; loader.py, reload).
RequestsMoveOn ==
    [][\A w \in Workers : phase[w] # "free" =>
          /\ phase[w] = "reloading" => pc[w] # "idle"
          /\ \/ StepsOf(w)' < StepsOf(w)
             \/ UNCHANGED <<phase[w], loaded[w], reply[w], header[w], pc[w], got[w]>>]_appVars

ServesWithGauge(v) == ServesVersion(v) /\ gauge = 1

\* Standby and staleness heal: once the pointer stays on a version whose
\* files are sound, the process comes to serve that version for good, without
\* a restart, whatever failed before and whatever reloads were in flight
\* (README.md, graceful startup; app.py, the background reloader).
Heals ==
    \A v \in Versions : <>[]LiveAndSound(v) => <>[]ServesWithGauge(v)

\* A 200 of /ready names the version the live pointer names: the docstring of
\* ready says it is "Ready iff the configured target is loaded and reflects the
\* live pointer".
ReadyReflectsPointer ==
    [][\A w \in Workers : Probe(w) /\ current # None =>
          Grants(pointer) = {current.pointer.version}]_appVars
=============================================================================
