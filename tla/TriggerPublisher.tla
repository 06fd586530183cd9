-------------------------- MODULE TriggerPublisher --------------------------
(***************************************************************************)
(* publisher.py, github_dispatch.py and the POST /trigger-train handler of *)
(* app.py: one request that uploads a trigger folder and hands it to the   *)
(* orchestrator.  The bucket may refuse a call, or apply it and lose the   *)
(* answer; the orchestrator may queue a run and not answer; the process    *)
(* may be killed between any two steps.  Trigger ids are unique, so other  *)
(* requests touch neither this folder nor these temporary files.           *)
(***************************************************************************)
EXTENDS TriggerRequest, Sequences, SequencesExt

VARIABLES
    pc,         \* where the request is
    deployment, \* what the process was started with
    payload,    \* where the inputs come from
    tmp,        \* temporary files on disk
    tracked,    \* the ones listed in tmp_files that the finally clause has still to remove
    folder,     \* objects in the trigger's folder of the bucket
    uploaded,   \* keys that publish_trigger knows it has uploaded
    attempt,    \* which dispatch attempt this is
    runs,       \* training runs queued for the trigger
    raised,     \* the exception on its way to the handler, or "none"
    answer,     \* the HTTP status, or 0
    trouble     \* history: what the bucket, the orchestrator and the disk did badly

inputVars == <<deployment, payload>>
pubVars == <<inputVars, tmp, tracked>>
vars == <<pc, pubVars, folder, uploaded, attempt, runs, raised, answer, trouble>>
netVars == <<attempt, runs>>

Inputs == {"dataset", "params"}
Objects == Inputs \cup {"trigger", "failed"}

\* Mutant of UploadOrder: the completion marker goes first.
MarkerFirst == <<"trigger", "dataset", "params">>

\* The uploads, in their order: the completion marker goes last.
UploadOrder == <<"dataset", "params", "trigger">>

\* Mutant of LastAttempt: one attempt more.
OneMoreAttempt == 2

\* for attempt in range(2)
LastAttempt == 1

Init ==
    /\ pc = "start"
    /\ deployment \in Deployments
    /\ payload \in Payloads
    /\ tmp = {} /\ tracked = {}
    /\ folder = {}
    /\ uploaded = <<>>
    /\ attempt = 0 /\ runs = 0
    /\ raised = "none" /\ answer = 0
    /\ trouble = {}

\* An exception leaves for the handler's except clauses, from where the
\* finally clause follows.
Raise(exception, to) == raised' = exception /\ pc' = to
Continue(to) == pc' = to /\ UNCHANGED raised

-----------------------------------------------------------------------------
(* The handler, up to publish_trigger.                                     *)

\* _require_admin: no token is configured, or the request's is wrong; a token
\* that is not ASCII cannot be compared, and that exception leaves the handler.
Deny ==
    /\ pc = "start"
    /\ answer' \in IF deployment.admin_token THEN {401, 500} ELSE {501}
    /\ Continue("done")
    /\ UNCHANGED <<pubVars, folder, uploaded, netVars, trouble>>

\* The validators of single fields: no URI and no path is refused.
FieldsValid ==
    /\ ValidUri(payload.dataset_s3_uri) /\ ValidUri(payload.params_s3_uri)
    /\ ValidPath(payload.dataset_path, deployment) /\ ValidPath(payload.params_path, deployment)

\* Before the handler's try: the body is too long, another field has the wrong
\* type, or a validator raises ValueError, which the list of errors then holds
\* and jsonify cannot write.
RefusePayload ==
    /\ pc = "start" /\ deployment.admin_token
    /\ \/ answer' = 413
       \/ answer' = 400 /\ FieldsValid
       \/ answer' = 500 /\ ~Valid(payload, deployment)
    /\ Continue("done")
    /\ UNCHANGED <<pubVars, folder, uploaded, netVars, trouble>>

\* In S3 mode the inputs come first, into a directory that may not be creatable.
Start ==
    /\ pc = "start" /\ deployment.admin_token /\ Valid(payload, deployment)
    /\ IF Mode(payload) = "s3"
         THEN Raise("OSError", "finally") \/ Continue("dataset")
         ELSE Continue("check")
    /\ UNCHANGED <<pubVars, folder, uploaded, netVars, answer, trouble>>

AfterFetch(f) == IF f = "dataset" THEN "params" ELSE "check"

\* _store_download_to_dir: a temporary file is made for the download, if a
\* client for the bucket and a file can be made.
MakeTemp(f) ==
    /\ pc = f /\ f \notin tmp
    /\ \/ (\E exception \in {"OSError", "OtherError"} : Raise(exception, "finally")) /\ UNCHANGED tmp
       \/ tmp' = tmp \cup {f} /\ Continue(f)
    /\ UNCHANGED <<inputVars, tracked, folder, uploaded, netVars, answer, trouble>>

FetchFails == \E exception \in {"OSError", "OtherError"} : Raise(exception, "finally")

\* Mutant of Discard: a failed download leaves its temporary file.
DiscardNothing(f) == UNCHANGED <<tmp, trouble>>

\* A temporary file that is in nobody's list yet is removed.
Discard(f) == tmp' = tmp \ {f} /\ UNCHANGED trouble

\* Its unlink raises: the OSError goes on in place of the error of the download.
DiscardRaises(f) ==
    /\ Raise("OSError", "finally")
    /\ trouble' = trouble \cup {<<"left", f>>} /\ UNCHANGED tmp

\* The download; when it fails its file goes, when it ends it is tracked.
Fetch(f) ==
    /\ pc = f /\ f \in tmp
    /\ \/ FetchFails /\ Discard(f) /\ UNCHANGED tracked
       \/ DiscardRaises(f) /\ UNCHANGED tracked
       \/ tracked' = tracked \cup {f} /\ Continue(AfterFetch(f)) /\ UNCHANGED <<tmp, trouble>>
    /\ UNCHANGED <<inputVars, folder, uploaded, netVars, answer>>

-----------------------------------------------------------------------------
(* publish_trigger.                                                        *)

\* The orchestration adapter and a client for the bucket can be made, the input
\* files exist and the dataset's format can be told; or not.
CheckInputs ==
    /\ pc = "check"
    /\ \/ \E exception \in {"ValueError", "OSError", "OtherError"} : Raise(exception, "finally")
       \/ deployment.orchestrator # "ValueError" /\ Continue("upload")
    /\ UNCHANGED <<pubVars, folder, uploaded, netVars, answer, trouble>>

\* A write to the folder that is told to have worked.
Store(k) == folder' = folder \cup {k} /\ UNCHANGED trouble

\* A write that raises, applied or not.
StoreRaises(k) ==
    \/ UNCHANGED <<folder, trouble>>
    \/ folder' = folder \cup {k} /\ trouble' = trouble \cup {<<"lost", k>>}

Upload ==
    /\ pc = "upload"
    /\ LET k == UploadOrder[Len(uploaded) + 1] IN
       \/ /\ Store(k)
          /\ uploaded' = Append(uploaded, k)
          /\ Continue(IF Len(uploaded) + 1 = Len(UploadOrder) THEN "dispatch" ELSE "upload")
       \/ /\ StoreRaises(k)
          /\ \E exception \in {"OSError", "OtherError"} : Raise(exception, "rollback")
          /\ UNCHANGED uploaded
    /\ UNCHANGED <<pubVars, netVars, answer>>

\* Mutant of Rollback: only the key uploaded last is deleted.
RollbackLast ==
    /\ pc = "rollback"
    /\ Continue("finally")
    /\ IF uploaded = <<>>
         THEN UNCHANGED <<folder, uploaded, trouble>>
         ELSE /\ uploaded' = Front(uploaded)
              /\ folder' = folder \ {Last(uploaded)} /\ UNCHANGED trouble
    /\ UNCHANGED <<pubVars, netVars, answer>>

\* The cleanup deletes the uploaded keys in reverse; a delete that fails is
\* logged and passed over.
Rollback ==
    /\ pc = "rollback"
    /\ IF uploaded = <<>>
         THEN Continue("finally") /\ UNCHANGED <<folder, uploaded, trouble>>
         ELSE /\ Continue("rollback")
              /\ uploaded' = Front(uploaded)
              /\ \/ folder' = folder \ {Last(uploaded)} /\ UNCHANGED trouble
                 \/ UNCHANGED folder /\ trouble' = trouble \cup {<<"kept", Last(uploaded)>>}
    /\ UNCHANGED <<pubVars, netVars, answer>>

-----------------------------------------------------------------------------
(* dispatch_training, and what publish_trigger does when it raises.        *)

\* Mutant of AfterRefusal: a refusal is treated like a failed upload.
RefusalRollsBack == "rollback"

\* Mutant of AfterRefusal: a refusal leaves no marker.
RefusalUnmarked == "finally"

\* Where a RuntimeError of dispatch_training goes.
AfterRefusal == "mark"

Queue(n) == runs' = runs + n

\* Mutant of Accepted: an accepted dispatch does not end the loop.
AcceptedRepeating ==
    /\ Queue(1)
    /\ IF attempt < LastAttempt
         THEN attempt' = attempt + 1 /\ Continue("dispatch")
         ELSE UNCHANGED attempt /\ Continue("finally")
    /\ UNCHANGED trouble

\* 200, 201 or 204.
Accepted == Queue(1) /\ Continue("finally") /\ UNCHANGED <<attempt, trouble>>

\* Mutant of Refused: the status is not looked at.
RefusedIgnored == Queue(0) /\ Continue("finally") /\ UNCHANGED <<attempt, trouble>>

\* An HTTP error that is not worth a retry, or an unexpected status, 202 say.
Refused ==
    /\ \E n \in {0, 1} : Queue(n)
    /\ Raise("RuntimeError", AfterRefusal)
    /\ UNCHANGED <<attempt, trouble>>

\* Mutant of Unanswered: the loop starts over instead of giving up (the runs
\* are cut at two, so that the mutant stays finite).
UnansweredRestarting ==
    /\ \E n \in {0, 1} : Queue(IF runs < 2 THEN n ELSE 0)
    /\ trouble' = trouble \cup {<<"unanswered", "run">>}
    /\ attempt' = (attempt + 1) % (LastAttempt + 1)
    /\ Continue("dispatch")

\* A time-out, a network error or a retryable HTTP error: the run may have
\* been queued.  The first time it is retried, the second time given up.
Unanswered ==
    /\ \E n \in {0, 1} : Queue(n)
    /\ trouble' = trouble \cup {<<"unanswered", "run">>}
    /\ IF attempt < LastAttempt
         THEN attempt' = attempt + 1 /\ Continue("dispatch")
         ELSE UNCHANGED attempt /\ Raise("RuntimeError", AfterRefusal)

\* An exception that is neither an OSError nor a RuntimeError passes through:
\* http.client.HTTPException on a malformed answer, ValueError on a token that
\* no header can hold or a redirection to no URL.
Garbled ==
    /\ \E n \in {0, 1} : Queue(n)
    /\ trouble' = trouble \cup {<<"garbled", "run">>}
    /\ \E exception \in {"OtherError", "ValueError"} : Raise(exception, "finally")
    /\ UNCHANGED attempt

\* NoopDispatchAdapter logs and returns.
Ignored == Queue(0) /\ Continue("finally") /\ UNCHANGED <<attempt, trouble>>

Dispatch ==
    /\ pc = "dispatch"
    /\ IF deployment.orchestrator = "noop"
         THEN Ignored
         ELSE Accepted \/ Refused \/ Unanswered \/ Garbled
    /\ UNCHANGED <<pubVars, folder, uploaded, answer>>

\* failed.json is written, told so or not; when it is not, that is only logged.
MarkFailed ==
    /\ pc = "mark"
    /\ \/ Store("failed")
       \/ UNCHANGED folder /\ trouble' = trouble \cup {<<"unmarked", "failed">>}
    /\ Continue("finally")
    /\ UNCHANGED <<pubVars, uploaded, netVars, answer>>

-----------------------------------------------------------------------------
(* The handler's except and finally clauses.                               *)

\* Mutant of StatusOf: a refused dispatch is answered as a bad request.
StatusOfBlaming(exception) ==
    CASE exception = "none" -> 200
      [] exception = "OtherError" -> 500
      [] OTHER -> 400

StatusOf(exception) ==
    CASE exception = "none" -> 200
      [] exception \in {"ValueError", "OSError"} -> 400
      [] exception = "RuntimeError" -> 502
      [] OTHER -> 500

\* The file that the finally clause is about to remove.
NextTemp == IF "dataset" \in tracked THEN "dataset" ELSE "params"

\* Each tracked file is removed, then the request is answered; an unlink that
\* raises ends the loop, and its OSError takes the place of the answer.
Finally ==
    /\ pc = "finally"
    /\ \/ /\ tracked = {}
          /\ answer' = StatusOf(raised)
          /\ Continue("done")
          /\ UNCHANGED <<tmp, tracked, trouble>>
       \/ /\ tracked # {}
          /\ tmp' = tmp \ {NextTemp} /\ tracked' = tracked \ {NextTemp}
          /\ Continue("finally")
          /\ UNCHANGED <<answer, trouble>>
       \/ /\ tracked # {}
          /\ trouble' = trouble \cup {<<"left", NextTemp>>}
          /\ answer' = 500
          /\ Continue("done")
          /\ UNCHANGED <<tmp, tracked>>
    /\ UNCHANGED <<inputVars, folder, uploaded, netVars>>

\* What the call in flight may still do when the process is killed.
LastCall ==
    \/ UNCHANGED <<folder, runs>>
    \/ pc = "upload" /\ folder' = folder \cup {UploadOrder[Len(uploaded) + 1]} /\ UNCHANGED runs
    \/ pc = "rollback" /\ uploaded # <<>> /\ folder' = folder \ {Last(uploaded)} /\ UNCHANGED runs
    \/ pc = "dispatch" /\ deployment.orchestrator # "noop" /\ Queue(1) /\ UNCHANGED folder
    \/ pc = "mark" /\ folder' = folder \cup {"failed"} /\ UNCHANGED runs

\* The process is killed; nothing takes up where it was.
Crash ==
    /\ pc \notin {"done", "crashed"}
    /\ LastCall
    /\ Continue("crashed")
    /\ UNCHANGED <<pubVars, uploaded, attempt, answer, trouble>>

Ended == pc \in {"done", "crashed"} /\ UNCHANGED vars

Step ==
    \/ Deny \/ RefusePayload \/ Start \/ (\E f \in Inputs : MakeTemp(f) \/ Fetch(f))
    \/ CheckInputs \/ Upload \/ Rollback \/ Dispatch \/ MarkFailed \/ Finally

Next == Step \/ Crash \/ Ended

Spec == Init /\ [][Next]_vars

\* The worker thread is scheduled, and S3 and GitHub calls time out.
FairSpec == Spec /\ WF_vars(Step)

-----------------------------------------------------------------------------
\* Every variable holds a value of its kind; two attempts queue at most two runs.
PublisherTypeOK ==
    /\ tmp \subseteq Inputs /\ tracked \subseteq Inputs
    /\ folder \subseteq Objects
    /\ IsPrefix(uploaded, UploadOrder)
    /\ attempt \in 0..1 /\ runs \in 0..2
    /\ raised \in {"none", "ValueError", "OSError", "RuntimeError", "OtherError"}
    /\ answer \in {0, 200, 400, 401, 413, 500, 501, 502}

Complete == Inputs \cup {"trigger"} \subseteq folder

\* A run is queued only for a folder with all its objects, and they stay: no
\* failure after the dispatch takes the inputs from a run that may be going
\* (publisher.py, the rollback is over before dispatch_training is called).
RunsHaveInputs == runs > 0 => Complete

\* The presence of trigger.json guarantees the dataset and the parameters, at
\* every moment, for every failure and every crash, as long as the put of
\* trigger.json itself does not raise after having been applied
\* (publisher.py, "Order is load-bearing").
MarkerMeansComplete ==
    "trigger" \in folder => Complete \/ <<"lost", "trigger">> \in trouble

\* A request that fails before the dispatch leaves in the folder only what a
\* put applied and raised for, or what the cleanup could not delete
\* (publisher.py, "does not linger as orphaned partial data").
RollbackLeavesNothing ==
    (/\ pc = "done" /\ raised \notin {"none", "RuntimeError"}
     /\ <<"garbled", "run">> \notin trouble) =>
        \A k \in folder : <<"lost", k>> \in trouble \/ <<"kept", k>> \in trouble

\* 200 is answered only when a run has been queued for a complete folder, and
\* then no failed.json tells /trigger-status otherwise (app.py, trigger_train).
\* With the no-op adapter, which a prod environment may name as well, 200 means
\* no more than a complete folder.
SuccessMeansQueued ==
    answer = 200 =>
        /\ Complete /\ "failed" \notin folder
        /\ runs > 0 \/ deployment.orchestrator = "noop"

\* 400 blames the request, so nothing has been queued for it: the except clause
\* for OSError never sees a network error of the dispatch.  That for ValueError
\* may see one that urlopen has raised.
BlameMeansNotQueued == answer = 400 => runs = 0 \/ <<"garbled", "run">> \in trouble

\* Two runs are queued only after a dispatch that went unanswered.
SecondRunNeedsSilence == runs > 1 => <<"unanswered", "run">> \in trouble

\* A published trigger that no run was queued for carries failed.json, so that
\* its status does not hang in "pending" (publisher.py, the hand-off comment),
\* unless the adapter queues none by design, failed.json could not be written, the
\* dispatch raised something other than RuntimeError, or trigger.json is a leftover
\* of a failed upload.
NoSilentPending ==
    (pc = "done" /\ "trigger" \in folder /\ runs = 0) =>
        \/ "failed" \in folder \/ deployment.orchestrator = "noop"
        \/ {<<"unmarked", "failed">>, <<"garbled", "run">>, <<"lost", "trigger">>}
              \cap trouble # {}

\* A request that is answered 200 or 502 leaves no temporary file; any other
\* leaves one only when an unlink raised for it, or raised for the dataset's
\* before the loop came to that of the parameters (app.py, finally, and
\* _store_download_to_dir).
TempFilesRemoved ==
    pc = "done" =>
        /\ answer \in {200, 502} => tmp = {}
        /\ \A f \in tmp :
              <<"left", f>> \in trouble \/ (f = "params" /\ <<"left", "dataset">> \in trouble)

\* A request that is past its checks takes both inputs from one source, from S3
\* or from files that are inside the root whenever there is one; in prod there
\* always is (schemas.py, TriggerTrainRequest; config.py, load_config).
InputsFromOneSource ==
    pc \notin {"start", "finally", "done", "crashed"} =>
        IF HasS3(payload)
          THEN /\ payload.dataset_s3_uri = "s3" /\ payload.params_s3_uri = "s3"
               /\ ~HasLocal(payload)
          ELSE /\ HasLocal(payload)
               /\ deployment.data_root \/ deployment.prod =>
                     payload.dataset_path = "inside" /\ payload.params_path = "inside"

\* 502 tells the caller that the trigger is there, to be polled: its error comes
\* after trigger.json, never from a put (publisher.py; s3_store.py, the error
\* that _retry_s3 ends with).
BadGatewayMeansPublished == answer = 502 => Complete

\* Every request is answered, unless the process is killed.
Answered == <>(pc \in {"done", "crashed"})

\* trigger.json's presence guarantees that the other two keys are in place:
\* publisher.py says so of the puller, without exception.
MarkerGuaranteesInputs == "trigger" \in folder => Inputs \subseteq folder

\* Dispatching one trigger id never queues two runs: the contract of the
\* orchestration port.
AtMostOneRun == runs <= 1
=============================================================================
