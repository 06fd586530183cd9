--------------------------- MODULE PublisherOverS3 ---------------------------
(***************************************************************************)
(* TriggerPublisher with the calls to S3 taken apart: an upload, a put and *)
(* a download are each a loop of _retry_s3 (s3_store.py), every attempt of *)
(* which may fail before or after S3 has applied it.  It implements        *)
(* TriggerPublisher, where such a call is one step: what an attempt leaves *)
(* behind shows there when the call ends.                                  *)
(***************************************************************************)
EXTENDS TriggerPublisher

CONSTANT Attempts       \* _retry_s3, attempts

ASSUME AttemptsAssumption == Attempts \in Nat \ {0}

VARIABLE failures       \* failed attempts of the call that is going on

s3Vars == <<vars, failures>>

S3Init == Init /\ failures = 0

\* The attempt fails with an error of S3 that is worth another attempt; the
\* loop sleeps and tries again, unless attempt == attempts - 1.
TryAgain ==
    /\ failures < Attempts - 1
    /\ failures' = failures + 1
    /\ UNCHANGED <<pc, raised>>

\* Mutant of LoopError: the loop has no last error to raise, and returns.
LoopErrorLost == "none"

\* Mutant of LoopError: the loop says that it was exhausted.
LoopErrorExhausted == "RuntimeError"

\* The loop raises the error of its last attempt, an error of S3.
LoopError == "OtherError"

\* The last attempt has failed, or one with an error that is not worth another.
GiveUp(to) ==
    /\ failures' = 0
    /\ \/ failures = Attempts - 1 /\ Raise(LoopError, to)
       \/ \E exception \in {"OSError", "OtherError"} : Raise(exception, to)

CallEnds(to) == failures' = 0 /\ Continue(to)

-----------------------------------------------------------------------------
\* download_file, into the temporary file.
FetchS3(f) ==
    /\ pc = f /\ f \in tmp
    /\ \/ TryAgain /\ UNCHANGED <<tmp, tracked, trouble>>
       \/ GiveUp("finally") /\ Discard(f) /\ UNCHANGED tracked
       \/ failures' = 0 /\ DiscardRaises(f) /\ UNCHANGED tracked
       \/ CallEnds(AfterFetch(f)) /\ tracked' = tracked \cup {f} /\ UNCHANGED <<tmp, trouble>>
    /\ UNCHANGED <<inputVars, folder, uploaded, netVars, answer>>

NextKey == UploadOrder[Len(uploaded) + 1]

\* S3 applies an attempt that fails, or it does not.
MayApply(k) == folder' \in {folder, folder \cup {k}}

\* The caller is told of an error: an attempt that was applied is unknown to it.
NoteLost(k) ==
    trouble' = IF k \in folder' THEN trouble \cup {<<"lost", k>>} ELSE trouble

\* upload_file of an input, put_bytes of trigger.json.
UploadS3 ==
    /\ pc = "upload"
    /\ \/ /\ TryAgain
          /\ MayApply(NextKey) /\ UNCHANGED <<trouble, uploaded>>
       \/ /\ GiveUp("rollback")
          /\ MayApply(NextKey) /\ NoteLost(NextKey) /\ UNCHANGED uploaded
       \/ /\ CallEnds(IF Len(uploaded) + 1 = Len(UploadOrder) THEN "dispatch" ELSE "upload")
          /\ Store(NextKey)
          /\ uploaded' = Append(uploaded, NextKey)
    /\ UNCHANGED <<pubVars, netVars, answer>>

\* put_bytes of failed.json; an error is logged, and RuntimeError goes on.
MarkFailedS3 ==
    /\ pc = "mark"
    /\ \/ TryAgain /\ MayApply("failed") /\ UNCHANGED trouble
       \/ /\ failures' = 0 /\ Continue("finally")
          /\ MayApply("failed")
          /\ trouble' = IF "failed" \in folder' THEN trouble
                                                ELSE trouble \cup {<<"unmarked", "failed">>}
    /\ UNCHANGED <<pubVars, uploaded, netVars, answer>>

CrashS3 ==
    /\ pc \notin {"done", "crashed"}
    /\ LastCall
    /\ Continue("crashed")
    /\ failures' = 0
    /\ UNCHANGED <<pubVars, uploaded, attempt, answer, trouble>>

EndedS3 == pc \in {"done", "crashed"} /\ UNCHANGED s3Vars

-----------------------------------------------------------------------------
StepS3 ==
    \/ FetchS3("dataset") \/ FetchS3("params") \/ UploadS3 \/ MarkFailedS3
    \/ /\ \/ Deny \/ RefusePayload \/ Start \/ MakeTemp("dataset") \/ MakeTemp("params")
          \/ CheckInputs \/ Rollback \/ Dispatch \/ Finally
       /\ UNCHANGED failures

NextS3 == StepS3 \/ CrashS3 \/ EndedS3

S3Spec == S3Init /\ [][NextS3]_s3Vars

\* The worker thread is scheduled, attempts time out and sleeps end.
FairS3Spec == S3Spec /\ WF_s3Vars(StepS3)

-----------------------------------------------------------------------------
\* The attempts that the call to S3 that is going on has left.
AttemptsLeft == Attempts - failures

\* A bound on the steps that the request has left, every attempt of every call
\* counted: two downloads, three uploads, their rollback or the dispatches, two unlinks.
StepsLeft ==
    LET ToUpload == 4 * Attempts + 6
        Temp(f) == IF f \in tmp THEN 0 ELSE 1
        Unlink(f) == IF f \in tracked THEN 1 ELSE 0
    IN  CASE pc = "start" -> 6 * Attempts + 9
          [] pc = "dataset" -> ToUpload + Attempts + 1 + AttemptsLeft + Temp("dataset")
          [] pc = "params" -> ToUpload + AttemptsLeft + Temp("params")
          [] pc = "check" -> ToUpload
          [] pc = "upload" -> (3 - Len(uploaded)) * Attempts + AttemptsLeft + 5
          [] pc = "rollback" -> Len(uploaded) + 4
          [] pc = "dispatch" -> LastAttempt + 4 - attempt + Attempts
          [] pc = "mark" -> AttemptsLeft + 3
          [] pc = "finally" -> 1 + Unlink("dataset") + Unlink("params")
          [] OTHER -> 0

\* Every step brings the request nearer to its answer: no failure, in whatever
\* order failures come, sends it back to where it was, and a loop that is left
\* by a failure does not start anew (s3_store.py, _retry_s3; publisher.py, the
\* rollback; github_dispatch.py, the attempts).  StepsLeft is a natural number,
\* so a request ends after at most 6 * Attempts + 9 steps.
NearerToAnswer == [][StepsLeft' < StepsLeft /\ StepsLeft' \in Nat]_s3Vars

-----------------------------------------------------------------------------
\* The key a call in progress may have written by an attempt that failed.
InDoubt ==
    IF failures = 0 THEN {}
    ELSE IF pc = "upload" THEN {NextKey}
    ELSE IF pc = "mark" THEN {"failed"} ELSE {}

Publisher == INSTANCE TriggerPublisher WITH folder <- folder \ InDoubt

\* The loop of attempts is one call, as the publisher takes it for: it ends
\* with the object in place or with an error, and the publisher's order of
\* uploads, rollback and marker does not depend on which attempt worked.
RefinesPublisher == Publisher!Spec
=============================================================================
