----------------------- MODULE PublisherOverS3Proofs -----------------------
(***************************************************************************)
(* Proofs about PublisherOverS3: for any number of attempts at a call to   *)
(* S3, the publisher keeps its promises, and it implements the publisher   *)
(* of TriggerPublisher, to which such a call is one step.                  *)
(***************************************************************************)
EXTENDS PublisherOverS3, SequenceTheorems, TLAPS

-----------------------------------------------------------------------------
(* The uploads.                                                            *)

\* What uploaded may be before the last upload, and the keys it then stands for.
Partial == {<<>>, <<"dataset">>, <<"dataset", "params">>}
Uploads == Partial \cup {UploadOrder}

Stored(u) ==
    {k \in Objects : \/ k = "dataset" /\ Len(u) > 0
                     \/ k = "params" /\ Len(u) > 1
                     \/ k = "trigger" /\ Len(u) > 2}

NextOf(u) == UploadOrder[Len(u) + 1]

LEMMA SequencesOfUploads ==
    ASSUME NEW s \in Seq(Objects)
    PROVE  /\ Len(s) = 1 /\ s[1] = "dataset" => s = <<"dataset">>
           /\ Len(s) = 2 /\ s[1] = "dataset" /\ s[2] = "params" => s = <<"dataset", "params">>
           /\ Len(s) = 3 /\ s[1] = "dataset" /\ s[2] = "params" /\ s[3] = "trigger" =>
                 s = <<"dataset", "params", "trigger">>
<1>1. Len(s) = 1 /\ s[1] = "dataset" => s = <<"dataset">>
  OBVIOUS
<1>2. Len(s) = 2 /\ s[1] = "dataset" /\ s[2] = "params" => s = <<"dataset", "params">>
  OBVIOUS
<1>3. Len(s) = 3 /\ s[1] = "dataset" /\ s[2] = "params" /\ s[3] = "trigger" =>
         s = <<"dataset", "params", "trigger">>
  OBVIOUS
<1> QED BY <1>1, <1>2, <1>3

LEMMA PartialIsSeq == \A u \in Partial : u \in Seq(Objects)
<1>1. <<>> \in Seq(Objects)
  OBVIOUS
<1>2. <<"dataset">> \in Seq(Objects)
  BY DEF Objects, Inputs
<1>3. <<"dataset", "params">> \in Seq(Objects)
  BY DEF Objects, Inputs
<1> QED BY <1>1, <1>2, <1>3 DEF Partial

LEMMA AppendKey ==
    ASSUME NEW S, NEW u \in Seq(S), NEW k \in S
    PROVE  /\ Append(u, k) \in Seq(S)
           /\ Len(Append(u, k)) = Len(u) + 1
           /\ \A i \in 1..Len(u) : Append(u, k)[i] = u[i]
           /\ Append(u, k)[Len(u) + 1] = k
BY AppendProperties

\* The next upload, which is that of trigger.json only after both inputs.
LEMMA NextUpload ==
    ASSUME NEW u \in Partial
    PROVE  /\ NextOf(u) \in Inputs \cup {"trigger"}
           /\ NextOf(u) \notin Stored(u)
           /\ NextOf(u) = "trigger" => Stored(u) = Inputs
           /\ Append(u, NextOf(u)) \in Uploads
           /\ Stored(Append(u, NextOf(u))) = Stored(u) \cup {NextOf(u)}
           /\ Len(UploadOrder) = 3
           /\ Len(u) + 1 = 3 <=> Append(u, NextOf(u)) = UploadOrder
           /\ Len(u) + 1 # 3 => Append(u, NextOf(u)) \in Partial
           /\ "failed" \notin Stored(u) /\ "trigger" \notin Stored(u)
<1>1. CASE u = <<>>
  <2>1. NextOf(u) = "dataset" /\ Len(u) = 0 /\ Append(u, NextOf(u)) = <<"dataset">>
    BY <1>1 DEF NextOf, UploadOrder
  <2> QED BY <1>1, <2>1 DEF Stored, Objects, Inputs, Uploads, Partial, UploadOrder
<1>2. CASE u = <<"dataset">>
  <2>0. Len(u) = 1 /\ UploadOrder[2] = "params"
    BY <1>2 DEF UploadOrder
  <2>a. NextOf(u) = "params" /\ "params" \in Objects /\ u \in Seq(Objects) /\ u[1] = "dataset"
    BY <1>2, <2>0, PartialIsSeq DEF NextOf, Objects, Inputs
  <2>b. /\ Append(u, "params") \in Seq(Objects) /\ Len(Append(u, "params")) = 2
        /\ Append(u, "params")[1] = "dataset" /\ Append(u, "params")[2] = "params"
    <3>1. /\ Append(u, "params") \in Seq(Objects) /\ Len(Append(u, "params")) = Len(u) + 1
          /\ \A i \in 1..Len(u) : Append(u, "params")[i] = u[i]
          /\ Append(u, "params")[Len(u) + 1] = "params"
      BY <2>a, AppendKey
    <3> QED BY <2>0, <2>a, <3>1
  <2>1. NextOf(u) = "params" /\ Len(u) = 1 /\ Append(u, NextOf(u)) = <<"dataset", "params">>
    BY <2>0, <2>a, <2>b, SequencesOfUploads
  <2> QED BY <1>2, <2>1 DEF Stored, Objects, Inputs, Uploads, Partial, UploadOrder
<1>3. CASE u = <<"dataset", "params">>
  <2>0. Len(u) = 2 /\ UploadOrder[3] = "trigger"
    BY <1>3 DEF UploadOrder
  <2>1. NextOf(u) = "trigger" /\ Len(u) = 2
    BY <1>3, <2>0 DEF NextOf
  <2>a. "trigger" \in Objects /\ u \in Seq(Objects) /\ u[1] = "dataset" /\ u[2] = "params"
    BY <1>3, PartialIsSeq DEF Objects
  <2>b. /\ Append(u, "trigger") \in Seq(Objects) /\ Len(Append(u, "trigger")) = 3
        /\ Append(u, "trigger")[1] = "dataset" /\ Append(u, "trigger")[2] = "params"
        /\ Append(u, "trigger")[3] = "trigger"
    <3>1. /\ Append(u, "trigger") \in Seq(Objects) /\ Len(Append(u, "trigger")) = Len(u) + 1
          /\ \A i \in 1..Len(u) : Append(u, "trigger")[i] = u[i]
          /\ Append(u, "trigger")[Len(u) + 1] = "trigger"
      BY <2>a, AppendKey
    <3> QED BY <2>0, <2>a, <3>1
  <2>2. Append(u, NextOf(u)) = UploadOrder
    BY <2>1, <2>b, SequencesOfUploads DEF UploadOrder
  <2> QED BY <1>3, <2>1, <2>2 DEF Stored, Objects, Inputs, Uploads, Partial, UploadOrder
<1> QED BY <1>1, <1>2, <1>3 DEF Partial

\* One step of the rollback.
LEMMA LastUpload ==
    ASSUME NEW u \in Partial, u # <<>>
    PROVE  /\ Front(u) \in Partial
           /\ Last(u) \in Inputs
           /\ Stored(u) = Stored(Front(u)) \cup {Last(u)}
<1>1. CASE u = <<"dataset">>
  <2>1. Front(u) = <<>> /\ Last(u) = "dataset" /\ Len(u) = 1
    BY <1>1 DEF Front, Last
  <2> QED BY <1>1, <2>1 DEF Stored, Objects, Inputs, Partial
<1>2. CASE u = <<"dataset", "params">>
  <2>0. Len(u) = 2 /\ Last(u) = "params"
    BY <1>2 DEF Last
  <2>a. u \in Seq(Objects) /\ u[1] = "dataset" /\ 2 - 1 = 1
    BY <1>2, PartialIsSeq
  <2>b. SubSeq(u, 1, 1) \in Seq(Objects) /\ Len(SubSeq(u, 1, 1)) = 1 /\ SubSeq(u, 1, 1)[1] = "dataset"
    BY <2>0, <2>a, SubSeqProperties
  <2>1. Front(u) = <<"dataset">> /\ Last(u) = "params" /\ Len(u) = 2
    BY <2>0, <2>a, <2>b, SequencesOfUploads DEF Front
  <2> QED BY <1>2, <2>1 DEF Stored, Objects, Inputs, Partial
<1> QED BY <1>1, <1>2 DEF Partial

LEMMA StoredEnds == Stored(<<>>) = {} /\ Stored(UploadOrder) = Inputs \cup {"trigger"}
BY DEF Stored, UploadOrder, Objects, Inputs

LEMMA UploadsArePrefixes == \A u \in Uploads : IsPrefix(u, UploadOrder)
<1> SUFFICES ASSUME NEW u \in Uploads PROVE IsPrefix(u, UploadOrder)
  OBVIOUS
<1>1. CASE u = <<>>
  BY <1>1 DEF IsPrefix, UploadOrder
<1>2. CASE u = <<"dataset">>
  BY <1>2 DEF IsPrefix, UploadOrder
<1>3. CASE u = <<"dataset", "params">>
  BY <1>3 DEF IsPrefix, UploadOrder
<1>4. CASE u = UploadOrder
  BY <1>4 DEF IsPrefix, UploadOrder
<1> QED BY <1>1, <1>2, <1>3, <1>4 DEF Uploads, Partial

-----------------------------------------------------------------------------
(* The inductive invariant.                                                *)

Lost(k) == <<"lost", k>> \in trouble
Kept(k) == <<"kept", k>> \in trouble
Silent == <<"unanswered", "run">> \in trouble
Left(f) == <<"left", f>> \in trouble

TypesInv ==
    /\ payload \in Payloads
    /\ tmp \subseteq Inputs /\ tracked \subseteq Inputs
    /\ folder \subseteq Objects
    /\ uploaded \in Uploads
    /\ attempt \in 0..1
    /\ runs \in 0..2 /\ (runs > 1 => Silent)
    /\ failures \in 0..(Attempts - 1)
    /\ failures > 0 => pc \in {"dataset", "params", "upload", "mark"}

\* Only the file that is being filled is in nobody's list, or the one whose
\* unlink has raised.
TempInv ==
    /\ tracked \subseteq tmp
    /\ \A f \in tmp \ tracked : f = pc \/ (pc = "finally" /\ Left(f) /\ raised = "OSError")
    /\ pc \in Inputs => pc \notin tracked /\ (failures > 0 => pc \in tmp)
    /\ pc = "dataset" => tracked = {}

\* Nothing has been queued, and what is in the folder is lost or kept.
NothingDone ==
    /\ runs = 0
    /\ \A k \in folder : Lost(k) \/ Kept(k)
    /\ "trigger" \in folder => Lost("trigger")

\* What is behind the exception that is on its way, or behind none.
Outcome(exception) ==
    /\ exception \in {"none", "ValueError", "OSError", "RuntimeError", "OtherError"}
    /\ exception = "none" =>
         Complete /\ "failed" \notin folder /\ (runs > 0 \/ deployment.orchestrator = "noop")
    /\ exception = "OSError" => NothingDone
    /\ exception = "RuntimeError" =>
         Complete /\ (runs > 0 \/ "failed" \in folder \/ <<"unmarked", "failed">> \in trouble)
    /\ exception \in {"ValueError", "OtherError"} =>
         NothingDone \/ (Complete /\ <<"garbled", "run">> \in trouble)

Early == {"start", "dataset", "params", "check"}

EarlyInv ==
    /\ folder = {} /\ uploaded = <<>> /\ attempt = 0 /\ runs = 0 /\ raised = "none"
    /\ IF pc = "start" THEN tmp = {} /\ tracked = {} ELSE Valid(payload, deployment)

UploadInv ==
    /\ uploaded \in Partial /\ attempt = 0 /\ runs = 0 /\ raised = "none"
    /\ Stored(uploaded) \subseteq folder
    /\ folder \ InDoubt = Stored(uploaded)
    /\ Valid(payload, deployment)

RollbackInv ==
    /\ uploaded \in Partial /\ attempt = 0 /\ runs = 0
    /\ raised \in {"OSError", "OtherError"}
    /\ \A k \in folder : k \in Stored(uploaded) \/ Lost(k) \/ Kept(k)
    /\ "trigger" \in folder => Lost("trigger")
    /\ Valid(payload, deployment)

DispatchInv ==
    /\ folder = Inputs \cup {"trigger"} /\ raised = "none"
    /\ runs <= attempt /\ (runs > 0 => Silent)
    /\ Valid(payload, deployment)

MarkInv ==
    /\ Complete /\ raised = "RuntimeError"
    /\ failures = 0 => "failed" \notin folder
    /\ Valid(payload, deployment)

\* The files that an answered request has left.
TempDone ==
    /\ answer \in {200, 502} => tmp = {}
    /\ \A f \in tmp : Left(f) \/ (f = "params" /\ Left("dataset"))

DoneInv ==
    \/ answer \in {StatusOf(raised), 500} /\ Outcome(raised)
    \/ answer \in {400, 401, 413, 500, 501} /\ raised = "none" /\ folder = {} /\ runs = 0

CrashedInv ==
    /\ raised \in {"none", "ValueError", "OSError", "RuntimeError", "OtherError"}
    /\ "trigger" \in folder => Complete \/ Lost("trigger")
    /\ runs > 0 => Complete

PhaseInv ==
    /\ pc \in Early \cup {"upload", "rollback", "dispatch", "mark", "finally", "done", "crashed"}
    /\ pc # "done" => answer = 0
    /\ pc \notin {"done", "crashed"} => TempInv
    /\ pc = "done" => TempDone
    /\ pc \in Early => EarlyInv
    /\ pc = "upload" => UploadInv
    /\ pc = "rollback" => RollbackInv
    /\ pc = "dispatch" => DispatchInv
    /\ pc = "mark" => MarkInv
    /\ pc = "finally" => Outcome(raised)
    /\ pc = "done" => DoneInv
    /\ pc = "crashed" => CrashedInv

PubInv == TypesInv /\ PhaseInv

LEMMA InitPubInv == S3Init => PubInv
<1> SUFFICES ASSUME S3Init PROVE PubInv
  OBVIOUS
<1>1. TypesInv
  BY AttemptsAssumption DEF S3Init, Init, TypesInv, Uploads, Partial
<1>2. PhaseInv
  BY DEF S3Init, Init, PhaseInv, TempInv, EarlyInv, Early, Inputs
<1> QED BY <1>1, <1>2 DEF PubInv

LEMMA DenyKeeps ==
    ASSUME PubInv, Deny \/ RefusePayload, UNCHANGED failures
    PROVE  PubInv'
<1>1. /\ pc = "start" /\ pc' = "done" /\ answer' \in {400, 401, 413, 500, 501}
      /\ UNCHANGED <<raised, deployment, payload, tmp, tracked, folder, uploaded, attempt, runs, trouble, failures>>
  BY DEF Deny, RefusePayload, Continue, pubVars, inputVars, netVars
<1>2. tmp = {} /\ folder = {} /\ runs = 0 /\ raised = "none" /\ failures = 0
  BY <1>1 DEF PubInv, PhaseInv, TypesInv, EarlyInv, Early, Inputs
<1>3. TypesInv'
  BY <1>1, <1>2 DEF PubInv, TypesInv, Silent
<1>4. PhaseInv'
  BY <1>1, <1>2 DEF PubInv, PhaseInv, Early, DoneInv, TempDone, Inputs
<1> QED BY <1>3, <1>4 DEF PubInv

LEMMA StartKeeps == ASSUME PubInv, Start, UNCHANGED failures PROVE PubInv'
<1>1. /\ pc = "start"
      /\ \/ pc' = "finally" /\ raised' = "OSError"
         \/ pc' \in {"dataset", "check"} /\ raised' = raised /\ Valid(payload, deployment)
      /\ UNCHANGED <<answer, deployment, payload, tmp, tracked, folder, uploaded, attempt, runs, trouble, failures>>
  BY DEF Start, Continue, Raise, pubVars, inputVars, netVars
<1>2. folder = {} /\ runs = 0 /\ tmp = {} /\ tracked = {} /\ failures = 0 /\ answer = 0
  BY <1>1 DEF PubInv, PhaseInv, TypesInv, TempInv, EarlyInv, Early, Inputs
<1>3. TypesInv'
  BY <1>1, <1>2 DEF PubInv, TypesInv, Silent
<1>4. PhaseInv'
  BY <1>1, <1>2 DEF PubInv, PhaseInv, TempInv, EarlyInv, Early, Inputs, Outcome, NothingDone
<1> QED BY <1>3, <1>4 DEF PubInv

LEMMA MakeTempKeeps ==
    ASSUME PubInv, NEW f \in Inputs, MakeTemp(f), UNCHANGED failures
    PROVE  PubInv'
<1>1. /\ pc = f /\ f \notin tmp
      /\ \/ pc' = "finally" /\ raised' \in {"OSError", "OtherError"} /\ tmp' = tmp
         \/ pc' = pc /\ raised' = raised /\ tmp' = tmp \cup {f}
      /\ UNCHANGED <<answer, deployment, payload, tracked, folder, uploaded, attempt, runs, trouble, failures>>
  BY DEF MakeTemp, Continue, Raise, inputVars, netVars
<1>2. /\ folder = {} /\ runs = 0 /\ failures = 0 /\ answer = 0 /\ tmp \subseteq tracked
      /\ tracked \subseteq tmp
  BY <1>1 DEF PubInv, PhaseInv, TypesInv, TempInv, EarlyInv, Early, Inputs
<1>3. TypesInv'
  BY <1>1, <1>2 DEF PubInv, TypesInv, Silent
<1>4. PhaseInv'
  BY <1>1, <1>2 DEF PubInv, PhaseInv, TempInv, EarlyInv, Early, Inputs, Outcome, NothingDone
<1> QED BY <1>3, <1>4 DEF PubInv

LEMMA FetchKeeps ==
    ASSUME PubInv, NEW f \in Inputs, FetchS3(f)
    PROVE  PubInv'
<1>1. /\ pc = f /\ f \in tmp
      /\ UNCHANGED <<answer, deployment, payload, folder, uploaded, attempt, runs>>
  BY DEF FetchS3, inputVars, netVars
<1>2. /\ folder = {} /\ runs = 0 /\ answer = 0 /\ f \notin tracked
      /\ tmp \ tracked \subseteq {f} /\ tracked \subseteq tmp
      /\ EarlyInv /\ Valid(payload, deployment)
      /\ f = "dataset" => tracked = {}
  BY <1>1 DEF PubInv, PhaseInv, TypesInv, TempInv, EarlyInv, Early, Inputs
<1>3. Attempts - 1 \in Nat /\ failures \in 0..(Attempts - 1) /\ tmp \subseteq Inputs /\ tracked \subseteq Inputs
  BY AttemptsAssumption DEF PubInv, TypesInv
<1>4. CASE TryAgain /\ UNCHANGED <<tmp, tracked, trouble>>
  <2>1. /\ failures' \in 0..(Attempts - 1) /\ UNCHANGED <<pc, raised, tmp, tracked, trouble>>
    BY <1>3, <1>4 DEF TryAgain
  <2>2. TypesInv'
    BY <1>1, <2>1 DEF PubInv, TypesInv, Silent, Inputs
  <2>3. PhaseInv'
    BY <1>1, <1>2, <2>1 DEF PubInv, PhaseInv, TempInv, EarlyInv, Early, Inputs
  <2> QED BY <2>2, <2>3 DEF PubInv
<1>5. CASE /\ UNCHANGED tracked
           /\ \/ GiveUp("finally") /\ Discard(f)
              \/ failures' = 0 /\ DiscardRaises(f)
  <2>1. /\ failures' = 0 /\ pc' = "finally" /\ tracked' = tracked
        /\ \/ raised' \in {"OSError", "OtherError"} /\ tmp' = tmp \ {f} /\ trouble' = trouble
           \/ /\ raised' = "OSError" /\ tmp' = tmp
              /\ trouble' = trouble \cup {<<"left", f>>}
    BY <1>5 DEF GiveUp, Raise, Discard, DiscardRaises, LoopError
  <2>2. TypesInv'
    BY <1>1, <1>3, <2>1 DEF PubInv, TypesInv, Silent
  <2>3. TempInv'
    BY <1>1, <1>2, <1>3, <2>1 DEF TempInv, Left, Inputs
  <2>4. Outcome(raised)'
    BY <1>1, <1>2, <2>1 DEF Outcome, NothingDone
  <2>5. PhaseInv'
    BY <1>1, <1>2, <2>1, <2>3, <2>4 DEF PhaseInv, Early, Inputs
  <2> QED BY <2>2, <2>5 DEF PubInv
<1>6. CASE CallEnds(AfterFetch(f)) /\ tracked' = tracked \cup {f} /\ UNCHANGED <<tmp, trouble>>
  <2>1. /\ failures' = 0 /\ raised' = raised /\ tmp' = tmp /\ tracked' = tracked \cup {f}
        /\ trouble' = trouble
        /\ pc' = "check" \/ (f = "dataset" /\ pc' = "params")
    BY <1>6 DEF CallEnds, Continue, AfterFetch, Inputs
  <2>2. TypesInv'
    BY <1>1, <1>3, <2>1 DEF PubInv, TypesInv, Silent
  <2>3. PhaseInv'
    BY <1>1, <1>2, <2>1 DEF PhaseInv, TempInv, EarlyInv, Early, Inputs
  <2> QED BY <2>2, <2>3 DEF PubInv
<1> QED BY <1>4, <1>5, <1>6 DEF FetchS3

LEMMA CheckInputsKeeps ==
    ASSUME PubInv, CheckInputs, UNCHANGED failures
    PROVE  PubInv'
<1>1. /\ pc = "check"
      /\ \/ pc' = "finally" /\ raised' \in {"ValueError", "OSError", "OtherError"}
         \/ pc' = "upload" /\ raised' = raised
      /\ UNCHANGED <<answer, deployment, payload, tmp, tracked, folder, uploaded, attempt, runs, trouble, failures>>
  BY DEF CheckInputs, Continue, Raise, pubVars, inputVars, netVars
<1>2. /\ EarlyInv /\ Valid(payload, deployment) /\ failures = 0 /\ answer = 0
      /\ tmp \subseteq tracked /\ tracked \subseteq tmp
  BY <1>1 DEF PubInv, PhaseInv, TypesInv, TempInv, EarlyInv, Early, Inputs
<1>3. TypesInv'
  BY <1>1, <1>2 DEF PubInv, TypesInv, Silent
<1>4. UploadInv' \/ pc' # "upload"
  BY <1>1, <1>2, StoredEnds DEF UploadInv, EarlyInv, InDoubt, Partial
<1>5. PhaseInv'
  BY <1>1, <1>2, <1>4 DEF PubInv, PhaseInv, TempInv, EarlyInv, Early, Inputs, Outcome, NothingDone
<1> QED BY <1>3, <1>5 DEF PubInv

\* What is known while a key is uploaded: it is in the folder only when an
\* attempt that failed has put it there.
LEMMA UploadFacts ==
    ASSUME PubInv, pc = "upload"
    PROVE  /\ uploaded \in Partial /\ NextKey = NextOf(uploaded)
           /\ folder \in {Stored(uploaded), Stored(uploaded) \cup {NextKey}}
           /\ failures = 0 => folder = Stored(uploaded)
           /\ attempt = 0 /\ runs = 0 /\ raised = "none" /\ answer = 0
           /\ tmp \subseteq tracked /\ tracked \subseteq tmp
           /\ Valid(payload, deployment)
           /\ folder \subseteq Objects /\ payload \in Payloads
           /\ tmp \subseteq Inputs /\ tracked \subseteq Inputs
           /\ failures \in 0..(Attempts - 1) /\ Attempts - 1 \in Nat
<1>1. UploadInv /\ TempInv /\ answer = 0 /\ NextKey = NextOf(uploaded)
  BY DEF PubInv, PhaseInv, NextKey, NextOf
<1>2. NextKey \notin Stored(uploaded)
  BY <1>1, NextUpload DEF UploadInv
<1>3. folder \in {Stored(uploaded), Stored(uploaded) \cup {NextKey}} /\ (failures = 0 => folder = Stored(uploaded))
  BY <1>1, <1>2 DEF UploadInv, InDoubt
<1> QED
  BY <1>1, <1>3, AttemptsAssumption DEF UploadInv, TempInv, Inputs, PubInv, TypesInv

LEMMA UploadKeeps == ASSUME PubInv, UploadS3 PROVE PubInv'
<1>1. pc = "upload" /\ UNCHANGED <<answer, deployment, payload, tmp, tracked, attempt, runs>>
  BY DEF UploadS3, pubVars, inputVars, netVars
<1> DEFINE k == NextOf(uploaded)
<1>2. /\ uploaded \in Partial /\ NextKey = k
      /\ folder \in {Stored(uploaded), Stored(uploaded) \cup {k}}
      /\ attempt = 0 /\ runs = 0 /\ raised = "none" /\ answer = 0
      /\ tmp \subseteq tracked /\ tracked \subseteq tmp
      /\ Valid(payload, deployment) /\ payload \in Payloads
      /\ folder \subseteq Objects /\ tmp \subseteq Inputs /\ tracked \subseteq Inputs
      /\ failures \in 0..(Attempts - 1) /\ Attempts - 1 \in Nat
  BY <1>1, UploadFacts
<1>3. /\ k \in Inputs \cup {"trigger"} /\ k \in Objects
      /\ k \notin Stored(uploaded)
      /\ k = "trigger" => Stored(uploaded) = Inputs
      /\ Append(uploaded, k) \in Uploads
      /\ Stored(Append(uploaded, k)) = Stored(uploaded) \cup {k}
      /\ Len(UploadOrder) = 3
      /\ Len(uploaded) + 1 = 3 <=> Append(uploaded, k) = UploadOrder
      /\ Len(uploaded) + 1 # 3 => Append(uploaded, k) \in Partial
      /\ "failed" \notin Stored(uploaded) /\ "trigger" \notin Stored(uploaded)
  BY <1>2, NextUpload DEF Objects
<1> HIDE DEF k
<1>4. CASE TryAgain /\ MayApply(NextKey) /\ UNCHANGED <<trouble, uploaded>>
  <2>1. /\ failures' \in 1..(Attempts - 1) /\ failures' > 0 /\ UNCHANGED <<pc, raised, trouble, uploaded>>
        /\ folder' \in {folder, folder \cup {k}}
    BY <1>2, <1>4 DEF TryAgain, MayApply
  <2>2. TypesInv'
    BY <1>1, <1>2, <1>3, <2>1 DEF TypesInv, Uploads
  <2>3. InDoubt' = {k}
    BY <1>1, <1>2, <2>1 DEF InDoubt, NextKey
  <2>4. UploadInv'
    BY <1>1, <1>2, <1>3, <2>1, <2>3 DEF UploadInv
  <2>5. PhaseInv'
    BY <1>1, <1>2, <2>1, <2>4 DEF PhaseInv, TempInv, Early, Inputs
  <2> QED BY <2>2, <2>5 DEF PubInv
<1>5. CASE GiveUp("rollback") /\ MayApply(NextKey) /\ NoteLost(NextKey) /\ UNCHANGED uploaded
  <2>1. /\ failures' = 0 /\ pc' = "rollback" /\ raised' \in {"OSError", "OtherError"}
        /\ uploaded' = uploaded
        /\ folder' \in {folder, folder \cup {k}}
        /\ k \in folder' => <<"lost", k>> \in trouble'
    BY <1>2, <1>5 DEF GiveUp, Raise, LoopError, MayApply, NoteLost
  <2>2. TypesInv'
    BY <1>1, <1>2, <1>3, <2>1 DEF TypesInv, Uploads
  <2>3. RollbackInv'
    BY <1>1, <1>2, <1>3, <2>1 DEF RollbackInv, Lost, Kept
  <2>4. PhaseInv'
    BY <1>1, <1>2, <2>1, <2>3 DEF PhaseInv, TempInv, Early, Inputs
  <2> QED BY <2>2, <2>4 DEF PubInv
<1>6. CASE /\ CallEnds(IF Len(uploaded) + 1 = Len(UploadOrder) THEN "dispatch" ELSE "upload")
           /\ Store(NextKey)
           /\ uploaded' = Append(uploaded, NextKey)
  <2>1. /\ failures' = 0 /\ UNCHANGED <<raised, trouble>>
        /\ uploaded' = Append(uploaded, k)
        /\ folder' = folder \cup {k}
        /\ pc' = IF Len(uploaded) + 1 = 3 THEN "dispatch" ELSE "upload"
    BY <1>2, <1>3, <1>6 DEF CallEnds, Continue, Store
  <2>2. TypesInv'
    BY <1>1, <1>2, <1>3, <2>1 DEF TypesInv
  <2>3. folder' = Stored(uploaded')
    BY <1>2, <1>3, <2>1
  <2>4. pc' = "upload" => UploadInv'
    BY <1>1, <1>2, <1>3, <2>1, <2>3 DEF UploadInv, InDoubt
  <2>5. pc' = "dispatch" => DispatchInv'
    <3> SUFFICES ASSUME pc' = "dispatch" PROVE DispatchInv'
      OBVIOUS
    <3>1. uploaded' = UploadOrder
      BY <1>3, <2>1
    <3>2. folder' = Inputs \cup {"trigger"}
      BY <2>3, <3>1, StoredEnds
    <3> QED BY <1>1, <1>2, <2>1, <3>2 DEF DispatchInv
  <2>6. PhaseInv'
    BY <1>1, <1>2, <2>1, <2>4, <2>5 DEF PhaseInv, TempInv, Early, Inputs
  <2> QED BY <2>2, <2>6 DEF PubInv
<1> QED BY <1>4, <1>5, <1>6 DEF UploadS3

LEMMA RollbackKeeps == ASSUME PubInv, Rollback, UNCHANGED failures PROVE PubInv'
<1>1. /\ pc = "rollback" /\ raised' = raised
      /\ UNCHANGED <<answer, deployment, payload, tmp, tracked, attempt, runs, failures>>
  BY DEF Rollback, Continue, pubVars, inputVars, netVars
<1>2. /\ RollbackInv /\ failures = 0 /\ answer = 0
      /\ tmp \subseteq tracked /\ tracked \subseteq tmp
  BY <1>1 DEF PubInv, PhaseInv, TypesInv, TempInv, Early, Inputs
<1>3. CASE uploaded = <<>>
  <2>1. pc' = "finally" /\ UNCHANGED <<folder, uploaded, trouble>>
    BY <1>3 DEF Rollback, Continue
  <2>2. TypesInv'
    BY <1>1, <1>2, <2>1 DEF PubInv, TypesInv, Silent
  <2>3. NothingDone'
    BY <1>1, <1>2, <1>3, <2>1, StoredEnds DEF RollbackInv, NothingDone, Lost, Kept
  <2>4. PhaseInv'
    BY <1>1, <1>2, <2>1, <2>3 DEF PhaseInv, TempInv, Early, Inputs, RollbackInv, Outcome
  <2> QED BY <2>2, <2>4 DEF PubInv
<1>4. CASE uploaded # <<>>
  <2>1. /\ pc' = pc /\ uploaded' = Front(uploaded)
        /\ \/ folder' = folder \ {Last(uploaded)} /\ trouble' = trouble
           \/ folder' = folder /\ trouble' = trouble \cup {<<"kept", Last(uploaded)>>}
    BY <1>1, <1>4 DEF Rollback, Continue
  <2>2. /\ Front(uploaded) \in Partial /\ Last(uploaded) \in Inputs
        /\ Stored(uploaded) = Stored(Front(uploaded)) \cup {Last(uploaded)}
    BY <1>2, <1>4, LastUpload DEF RollbackInv
  <2>3. TypesInv'
    BY <1>1, <1>2, <2>1, <2>2 DEF PubInv, TypesInv, Silent, Uploads
  <2>4. RollbackInv'
    <3>1. \A k \in folder' : k \in Stored(uploaded') \/ Lost(k)' \/ Kept(k)'
      BY <1>2, <2>1, <2>2 DEF RollbackInv, Lost, Kept
    <3>2. "trigger" \in folder' => Lost("trigger")'
      BY <1>2, <2>1 DEF RollbackInv, Lost
    <3> QED BY <1>1, <1>2, <2>1, <2>2, <3>1, <3>2 DEF RollbackInv
  <2>5. PhaseInv'
    BY <1>1, <1>2, <2>1, <2>4 DEF PhaseInv, TempInv, Early, Inputs
  <2> QED BY <2>3, <2>5 DEF PubInv
<1> QED BY <1>3, <1>4

LEMMA DispatchKeeps == ASSUME PubInv, Dispatch, UNCHANGED failures PROVE PubInv'
<1>1. /\ pc = "dispatch"
      /\ UNCHANGED <<answer, deployment, payload, tmp, tracked, folder, uploaded, failures>>
      /\ \E n \in {0, 1} : runs' = runs + n
  BY DEF Dispatch, Ignored, Accepted, Refused, Unanswered, Garbled, Queue, pubVars, inputVars
<1>2. /\ DispatchInv /\ failures = 0 /\ answer = 0
      /\ tmp \subseteq tracked /\ tracked \subseteq tmp
      /\ attempt \in 0..1 /\ runs \in 0..2
  BY <1>1 DEF PubInv, PhaseInv, TypesInv, TempInv, Early, Inputs
<1>3. folder = Inputs \cup {"trigger"} /\ Complete /\ "failed" \notin folder
  BY <1>2 DEF DispatchInv, Complete, Inputs
<1>4. trouble \subseteq trouble' /\ attempt' \in 0..1 /\ runs' \in 0..2 /\ (runs' > 1 => Silent')
  BY <1>1, <1>2 DEF DispatchInv, Dispatch, Ignored, Accepted, Refused, Unanswered, Garbled,
                    LastAttempt, Continue, Raise, Silent
<1>5. TypesInv'
  BY <1>1, <1>2, <1>4 DEF PubInv, TypesInv
<1>6. \/ /\ pc' = "finally" /\ raised' = "none"
         /\ runs' > 0 \/ deployment.orchestrator = "noop"
      \/ pc' = "mark" /\ raised' = "RuntimeError"
      \/ /\ pc' = "finally" /\ raised' \in {"OtherError", "ValueError"}
         /\ <<"garbled", "run">> \in trouble'
      \/ /\ pc' = "dispatch" /\ raised' = raised /\ attempt' = 1
         /\ runs' <= 1 /\ Silent'
  <2>1. CASE Ignored /\ deployment.orchestrator = "noop"
    BY <1>2, <2>1 DEF DispatchInv, Ignored, Continue
  <2>2. CASE Accepted
    BY <1>2, <2>2 DEF DispatchInv, Accepted, Continue, Queue
  <2>3. CASE Refused
    BY <2>3 DEF Refused, Raise, AfterRefusal
  <2>4. CASE Unanswered
    BY <1>1, <1>2, <2>4 DEF DispatchInv, Unanswered, Continue, Raise, AfterRefusal, LastAttempt, Silent
  <2>5. CASE Garbled
    BY <2>5 DEF Garbled, Raise
  <2> QED BY <2>1, <2>2, <2>3, <2>4, <2>5 DEF Dispatch
<1>7. pc' = "dispatch" => DispatchInv'
  BY <1>1, <1>2, <1>6 DEF DispatchInv
<1>8. pc' = "mark" => MarkInv'
  BY <1>1, <1>2, <1>3, <1>6 DEF DispatchInv, MarkInv, Complete
<1>9. pc' = "finally" => Outcome(raised)'
  BY <1>1, <1>3, <1>6 DEF Outcome, Complete
<1>10. PhaseInv'
  BY <1>1, <1>2, <1>6, <1>7, <1>8, <1>9 DEF PhaseInv, TempInv, Early, Inputs
<1> QED BY <1>5, <1>10 DEF PubInv

LEMMA MarkKeeps == ASSUME PubInv, MarkFailedS3 PROVE PubInv'
<1>1. pc = "mark" /\ UNCHANGED <<answer, deployment, payload, tmp, tracked, uploaded, attempt, runs>>
  BY DEF MarkFailedS3, pubVars, inputVars, netVars
<1>2. /\ MarkInv /\ answer = 0 /\ tmp \subseteq tracked /\ tracked \subseteq tmp
      /\ failures \in 0..(Attempts - 1) /\ Attempts - 1 \in Nat
  BY <1>1, AttemptsAssumption DEF PubInv, PhaseInv, TypesInv, TempInv, Early, Inputs
<1>3. folder' \in {folder, folder \cup {"failed"}} /\ trouble \subseteq trouble'
  BY DEF MarkFailedS3, MayApply
<1>4. Complete' /\ folder' \subseteq Objects /\ (runs' > 1 => Silent')
  BY <1>1, <1>2, <1>3 DEF MarkInv, Complete, PubInv, TypesInv, Silent, Objects
<1>5. CASE TryAgain
  <2>1. failures' \in 1..(Attempts - 1) /\ failures' > 0 /\ UNCHANGED <<pc, raised>>
    BY <1>2, <1>5 DEF TryAgain
  <2>2. TypesInv'
    BY <1>1, <1>4, <2>1 DEF PubInv, TypesInv
  <2>3. MarkInv'
    BY <1>1, <1>2, <1>4, <2>1 DEF MarkInv
  <2>4. PhaseInv'
    BY <1>1, <1>2, <2>1, <2>3 DEF PhaseInv, TempInv, Early, Inputs
  <2> QED BY <2>2, <2>4 DEF PubInv
<1>6. CASE ~TryAgain
  <2>1. /\ failures' = 0 /\ pc' = "finally" /\ raised' = raised
        /\ "failed" \in folder' \/ <<"unmarked", "failed">> \in trouble'
    BY <1>6 DEF MarkFailedS3, Continue
  <2>2. TypesInv'
    BY <1>1, <1>2, <1>4, <2>1 DEF PubInv, TypesInv
  <2>3. Outcome(raised)'
    BY <1>2, <1>4, <2>1 DEF MarkInv, Outcome
  <2>4. PhaseInv'
    BY <1>1, <1>2, <2>1, <2>3 DEF PhaseInv, TempInv, Early, Inputs
  <2> QED BY <2>2, <2>4 DEF PubInv
<1> QED BY <1>5, <1>6

LEMMA FinallyKeeps == ASSUME PubInv, Finally, UNCHANGED failures PROVE PubInv'
<1>1. /\ pc = "finally" /\ raised' = raised
      /\ UNCHANGED <<deployment, payload, folder, uploaded, attempt, runs, failures>>
  BY DEF Finally, Continue, inputVars, netVars
<1>2. /\ Outcome(raised) /\ tracked \subseteq tmp /\ answer = 0 /\ failures = 0
      /\ \A f \in tmp \ tracked : Left(f) /\ raised = "OSError"
      /\ tmp \subseteq Inputs /\ tracked \subseteq Inputs
  BY <1>1 DEF PubInv, PhaseInv, TypesInv, TempInv, Early, Inputs
<1>3. raised \in {"none", "ValueError", "OSError", "RuntimeError", "OtherError"}
  BY <1>2 DEF Outcome
<1>4. trouble \subseteq trouble' /\ tmp' \subseteq Inputs /\ tracked' \subseteq Inputs
  BY <1>2 DEF Finally
<1>5. TypesInv'
  BY <1>1, <1>2, <1>4 DEF PubInv, TypesInv, Silent
<1>6. Outcome(raised)'
  BY <1>1, <1>2, <1>4 DEF Outcome, NothingDone, Complete, Lost, Kept
<1>7. CASE tracked = {} /\ answer' = StatusOf(raised) /\ pc' = "done" /\ UNCHANGED <<tmp, tracked, trouble>>
  <2>1. answer' \in {200, 502} => raised # "OSError"
    BY <1>3, <1>7 DEF StatusOf
  <2>2. TempDone'
    BY <1>2, <1>7, <2>1 DEF TempDone, Left
  <2>3. DoneInv'
    BY <1>1, <1>6, <1>7 DEF DoneInv, StatusOf
  <2>4. PhaseInv'
    BY <1>7, <2>2, <2>3 DEF PhaseInv, Early
  <2> QED BY <1>5, <2>4 DEF PubInv
<1>8. CASE /\ tmp' = tmp \ {NextTemp} /\ tracked' = tracked \ {NextTemp}
           /\ pc' = "finally" /\ UNCHANGED <<answer, trouble>>
  <2>1. TempInv'
    BY <1>1, <1>2, <1>8 DEF TempInv, Left, Inputs
  <2>2. PhaseInv'
    BY <1>2, <1>6, <1>8, <2>1 DEF PhaseInv, Early
  <2> QED BY <1>5, <2>2 DEF PubInv
<1>9. CASE /\ tracked # {} /\ trouble' = trouble \cup {<<"left", NextTemp>>}
           /\ answer' = 500 /\ pc' = "done" /\ UNCHANGED <<tmp, tracked>>
  <2>1. \A f \in tmp : Left(f)' \/ (f = "params" /\ Left("dataset")')
    <3>1. CASE "dataset" \in tracked
      BY <1>2, <1>9, <3>1 DEF NextTemp, Left, Inputs
    <3>2. CASE "dataset" \notin tracked
      BY <1>2, <1>9, <3>2 DEF NextTemp, Left, Inputs
    <3> QED BY <3>1, <3>2
  <2>2. TempDone'
    BY <1>9, <2>1 DEF TempDone
  <2>3. DoneInv'
    BY <1>6, <1>9 DEF DoneInv
  <2>4. PhaseInv'
    BY <1>9, <2>2, <2>3 DEF PhaseInv, Early
  <2> QED BY <1>5, <2>4 DEF PubInv
<1> QED BY <1>7, <1>8, <1>9 DEF Finally, Continue

LEMMA CrashKeeps == ASSUME PubInv, CrashS3 PROVE PubInv'
<1>1. /\ pc \notin {"done", "crashed"} /\ pc' = "crashed" /\ failures' = 0 /\ LastCall
      /\ UNCHANGED <<answer, deployment, payload, tmp, tracked, uploaded, attempt, raised, trouble>>
  BY DEF CrashS3, Continue, pubVars, inputVars
<1>2. answer = 0 /\ 0 \in 0..(Attempts - 1)
  BY <1>1, AttemptsAssumption DEF PubInv, PhaseInv
<1> SUFFICES /\ folder' \subseteq Objects
             /\ runs' \in 0..2 /\ (runs' > 1 => Silent')
             /\ CrashedInv'
  <2>1. ASSUME folder' \subseteq Objects, runs' \in 0..2, runs' > 1 => Silent'
        PROVE  TypesInv'
    BY <1>1, <1>2, <2>1 DEF PubInv, TypesInv
  <2>2. ASSUME CrashedInv' PROVE PhaseInv'
    BY <1>1, <1>2, <2>2 DEF PhaseInv, Early
  <2> QED BY <2>1, <2>2 DEF PubInv
<1>3. /\ folder \subseteq Objects /\ runs \in 0..2 /\ (runs > 1 => Silent)
      /\ attempt \in 0..1
  BY DEF PubInv, TypesInv
<1>4. CASE pc \in Early
  BY <1>1, <1>3, <1>4 DEF LastCall, Early, PubInv, PhaseInv, EarlyInv, CrashedInv, Silent
<1>5. CASE pc = "upload"
  <2>1. /\ uploaded \in Partial
        /\ folder \in {Stored(uploaded), Stored(uploaded) \cup {NextOf(uploaded)}}
        /\ runs = 0 /\ raised = "none"
    BY <1>5, UploadFacts
  <2>2. folder' \in {folder, folder \cup {NextOf(uploaded)}} /\ runs' = runs
    BY <1>1, <1>5 DEF LastCall, NextOf
  <2>3. /\ NextOf(uploaded) \in Inputs \cup {"trigger"}
        /\ NextOf(uploaded) = "trigger" => Stored(uploaded) = Inputs
        /\ "trigger" \notin Stored(uploaded)
    BY <2>1, NextUpload
  <2>4. "trigger" \in folder' => Complete'
    BY <2>1, <2>2, <2>3 DEF Complete
  <2> QED BY <1>1, <1>3, <2>1, <2>2, <2>3, <2>4 DEF CrashedInv, Objects, Silent
<1>6. CASE pc = "rollback"
  <2>1. folder' \subseteq folder /\ runs' = runs /\ RollbackInv
    BY <1>1, <1>6 DEF LastCall, PubInv, PhaseInv
  <2> QED BY <1>1, <1>3, <2>1 DEF RollbackInv, CrashedInv, Lost, Silent
<1>7. CASE pc = "dispatch"
  <2>1. folder' = folder /\ runs' \in {runs, runs + 1} /\ DispatchInv
    BY <1>1, <1>7 DEF LastCall, Queue, PubInv, PhaseInv
  <2> QED BY <1>1, <1>3, <2>1 DEF DispatchInv, CrashedInv, Complete, Silent, Objects
<1>8. CASE pc = "mark"
  <2>1. folder' \in {folder, folder \cup {"failed"}} /\ runs' = runs /\ MarkInv
    BY <1>1, <1>8 DEF LastCall, PubInv, PhaseInv
  <2> QED BY <1>1, <1>3, <2>1 DEF MarkInv, CrashedInv, Complete, Silent, Objects
<1>9. CASE pc = "finally"
  <2>1. folder' = folder /\ runs' = runs /\ Outcome(raised)
    BY <1>1, <1>9 DEF LastCall, PubInv, PhaseInv
  <2> QED BY <1>1, <1>3, <2>1 DEF Outcome, NothingDone, CrashedInv, Complete, Lost, Silent
<1> QED BY <1>1, <1>4, <1>5, <1>6, <1>7, <1>8, <1>9 DEF PubInv, PhaseInv

LEMMA StutterKeepsPubInv == ASSUME PubInv, UNCHANGED s3Vars PROVE PubInv'
<1>1. UNCHANGED <<pc, deployment, payload, tmp, tracked, folder, uploaded, attempt, runs,
                  raised, answer, trouble, failures>>
  BY DEF s3Vars, vars, pubVars, inputVars
<1>2. TypesInv'
  BY <1>1 DEF PubInv, TypesInv, Silent
<1>3. TempInv' <=> TempInv
  BY <1>1 DEF TempInv, Left
<1>4. /\ EarlyInv' <=> EarlyInv
      /\ DispatchInv' <=> DispatchInv
      /\ MarkInv' <=> MarkInv
  BY <1>1 DEF EarlyInv, DispatchInv, MarkInv, Silent, Complete
<1>5. UploadInv' <=> UploadInv
  BY <1>1 DEF UploadInv, InDoubt, NextKey
<1>6. RollbackInv' <=> RollbackInv
  BY <1>1 DEF RollbackInv, Lost, Kept
<1>7. /\ Outcome(raised)' <=> Outcome(raised)
      /\ DoneInv' <=> DoneInv
      /\ TempDone' <=> TempDone
      /\ CrashedInv' <=> CrashedInv
  BY <1>1 DEF DoneInv, TempDone, Left, Outcome, NothingDone, CrashedInv, Complete, Lost, Kept
<1>8. PhaseInv'
  BY <1>1, <1>3, <1>4, <1>5, <1>6, <1>7 DEF PubInv, PhaseInv
<1> QED BY <1>2, <1>8 DEF PubInv

LEMMA StepKeepsPubInv == PubInv /\ [NextS3]_s3Vars => PubInv'
<1> SUFFICES ASSUME PubInv, [NextS3]_s3Vars PROVE PubInv'
  OBVIOUS
<1>1. "dataset" \in Inputs /\ "params" \in Inputs
  BY DEF Inputs
<1>2. CASE StepS3
  BY <1>1, <1>2, DenyKeeps, StartKeeps, MakeTempKeeps, FetchKeeps, CheckInputsKeeps, UploadKeeps,
     RollbackKeeps, DispatchKeeps, MarkKeeps, FinallyKeeps
  DEF StepS3
<1> QED BY <1>2, CrashKeeps, StutterKeepsPubInv DEF NextS3, EndedS3

LEMMA PublisherInvariant == S3Spec => []PubInv
BY InitPubInv, StepKeepsPubInv, PTL DEF S3Spec

-----------------------------------------------------------------------------
(* The theorems.                                                           *)

\* Every variable keeps its kind, and two attempts queue at most two runs.
THEOREM PublisherTypes == S3Spec => []PublisherTypeOK
<1>1. PubInv => PublisherTypeOK
  <2> SUFFICES ASSUME PubInv PROVE PublisherTypeOK
    OBVIOUS
  <2>1. IsPrefix(uploaded, UploadOrder)
    BY UploadsArePrefixes DEF PubInv, TypesInv
  <2>2. raised \in {"none", "ValueError", "OSError", "RuntimeError", "OtherError"}
    BY DEF PubInv, PhaseInv, Early, EarlyInv, UploadInv, RollbackInv, DispatchInv, MarkInv,
           Outcome, DoneInv, CrashedInv
  <2>3. answer \in {0, 200, 400, 401, 413, 500, 501, 502}
    <3>1. StatusOf(raised) \in {200, 400, 500, 502}
      BY <2>2 DEF StatusOf
    <3> QED BY <3>1 DEF PubInv, PhaseInv, DoneInv
  <2> QED BY <2>1, <2>2, <2>3 DEF PubInv, TypesInv, PublisherTypeOK
<1> QED BY <1>1, PublisherInvariant, PTL

\* A request past its checks takes both inputs from one source (schemas.py).
THEOREM OneSourceOfInputs == S3Spec => []InputsFromOneSource
<1>1. PubInv => InputsFromOneSource
  <2> SUFFICES ASSUME PubInv, pc \notin {"start", "finally", "done", "crashed"}
               PROVE  InputsFromOneSource
    BY DEF InputsFromOneSource
  <2>1. Valid(payload, deployment) /\ payload \in Payloads
    BY DEF PubInv, TypesInv, PhaseInv, Early, EarlyInv, UploadInv, RollbackInv, DispatchInv, MarkInv
  <2>2. /\ payload.dataset_s3_uri \in Uris /\ payload.params_s3_uri \in Uris
        /\ payload.dataset_path \in Paths /\ payload.params_path \in Paths
    BY <2>1 DEF Payloads
  <2> QED
    BY <2>1, <2>2 DEF InputsFromOneSource, Valid, ValidUri, ValidPath, OneSource, HasS3, HasLocal,
                      Uris, Paths
<1> QED BY <1>1, PublisherInvariant, PTL

\* A run is queued only for a complete folder, and its inputs stay (publisher.py).
THEOREM InputsOfRunsStay == S3Spec => []RunsHaveInputs
<1>1. PubInv => RunsHaveInputs
  BY DEF PubInv, TypesInv, PhaseInv, Early, EarlyInv, UploadInv, RollbackInv, DispatchInv, MarkInv,
         Outcome, NothingDone, DoneInv, CrashedInv, RunsHaveInputs, Complete, StatusOf
<1> QED BY <1>1, PublisherInvariant, PTL

\* trigger.json guarantees the inputs, unless its own put raised after it was
\* applied (publisher.py, "Order is load-bearing").
THEOREM MarkerIsLast == S3Spec => []MarkerMeansComplete
<1>1. PubInv => MarkerMeansComplete
  <2> SUFFICES ASSUME PubInv, "trigger" \in folder
               PROVE  Complete \/ <<"lost", "trigger">> \in trouble
    BY DEF MarkerMeansComplete
  <2>1. CASE pc = "upload"
    <3>1. /\ folder \in {Stored(uploaded), Stored(uploaded) \cup {NextOf(uploaded)}}
          /\ uploaded \in Partial
      BY <2>1, UploadFacts
    <3> QED BY <3>1, NextUpload DEF Complete
  <2>2. CASE pc # "upload"
    BY <2>2 DEF PubInv, PhaseInv, Early, EarlyInv, RollbackInv, DispatchInv, MarkInv,
                Outcome, NothingDone, DoneInv, CrashedInv, Complete, Lost
  <2> QED BY <2>1, <2>2
<1> QED BY <1>1, PublisherInvariant, PTL

\* A request that fails before the dispatch leaves nothing but what was lost or
\* could not be deleted (publisher.py, the rollback).
THEOREM RollbackIsComplete == S3Spec => []RollbackLeavesNothing
<1>1. PubInv => RollbackLeavesNothing
  BY DEF PubInv, PhaseInv, DoneInv, Outcome, NothingDone, Lost, Kept, RollbackLeavesNothing
<1> QED BY <1>1, PublisherInvariant, PTL

\* 200 is answered only for a run that is queued, or for the no-op adapter.
THEOREM SuccessIsQueued == S3Spec => []SuccessMeansQueued
<1>1. PubInv => SuccessMeansQueued
  BY DEF PubInv, PhaseInv, DoneInv, Outcome, StatusOf, SuccessMeansQueued
<1> QED BY <1>1, PublisherInvariant, PTL

\* 400 is answered only when nothing was queued, unless the dispatch itself has
\* raised ValueError (app.py, the except clauses).
THEOREM BlameIsJust == S3Spec => []BlameMeansNotQueued
<1>1. PubInv => BlameMeansNotQueued
  BY DEF PubInv, PhaseInv, DoneInv, Outcome, NothingDone, StatusOf, BlameMeansNotQueued
<1> QED BY <1>1, PublisherInvariant, PTL

\* 502 is answered only when the trigger has been published: the loop of
\* attempts never ends with the dispatch's error (s3_store.py, _retry_s3).
THEOREM BadGatewayIsPublished == S3Spec => []BadGatewayMeansPublished
<1>1. PubInv => BadGatewayMeansPublished
  BY DEF PubInv, PhaseInv, DoneInv, Outcome, StatusOf, BadGatewayMeansPublished
<1> QED BY <1>1, PublisherInvariant, PTL

\* Two runs are queued only after a dispatch that went unanswered.
THEOREM SecondRunAfterSilence == S3Spec => []SecondRunNeedsSilence
<1>1. PubInv => SecondRunNeedsSilence
  BY DEF PubInv, TypesInv, Silent, SecondRunNeedsSilence
<1> QED BY <1>1, PublisherInvariant, PTL

\* A published trigger without a run carries failed.json, but for the named
\* exceptions (publisher.py, the hand-off).
THEOREM PendingIsNotSilent == S3Spec => []NoSilentPending
<1>1. PubInv => NoSilentPending
  BY DEF PubInv, PhaseInv, DoneInv, Outcome, NothingDone, Lost, NoSilentPending
<1> QED BY <1>1, PublisherInvariant, PTL

\* 200 and 502 leave no temporary file; another answer leaves one only when an
\* unlink has raised, for it or before the loop came to it (app.py, finally).
THEOREM TempFilesAreRemoved == S3Spec => []TempFilesRemoved
<1>1. PubInv => TempFilesRemoved
  BY DEF PubInv, PhaseInv, TempDone, Left, TempFilesRemoved
<1> QED BY <1>1, PublisherInvariant, PTL

-----------------------------------------------------------------------------
(* Every step brings the request nearer to its answer.                     *)

\* The uploads that are left, times the attempts of each.
LEMMA UploadsLeft ==
    ASSUME NEW u \in Partial
    PROVE  /\ Len(u) \in 0..2
           /\ u # <<>> => Len(Front(u)) = Len(u) - 1
           /\ Len(Append(u, NextOf(u))) = Len(u) + 1
           /\ (3 - Len(u)) * Attempts \in Nat
           /\ Len(u) = 0 => (3 - Len(u)) * Attempts = 3 * Attempts
           /\ Len(u) = 1 => (3 - Len(u)) * Attempts = 2 * Attempts
           /\ Len(u) = 2 => (3 - Len(u)) * Attempts = Attempts
<1>1. Attempts \in Nat
  BY AttemptsAssumption
<1>2. u \in Seq(Objects) /\ NextOf(u) \in Objects
  BY PartialIsSeq, NextUpload DEF Objects
<1>3. Len(u) \in 0..2
  BY DEF Partial
<1>4. u # <<>> => Len(Front(u)) = Len(u) - 1
  <2>1. CASE u = <<"dataset">>
    BY <2>1 DEF Front
  <2>2. CASE u = <<"dataset", "params">>
    <3>1. Len(u) = 2 /\ SubSeq(u, 1, 1) \in Seq(Objects) /\ Len(SubSeq(u, 1, 1)) = 1
      BY <1>2, <2>2, SubSeqProperties
    <3> QED BY <3>1 DEF Front
  <2> QED BY <2>1, <2>2 DEF Partial
<1>5. Len(Append(u, NextOf(u))) = Len(u) + 1
  BY <1>2, AppendProperties
<1>6. CASE Len(u) = 0
  BY <1>1, <1>3, <1>4, <1>5, <1>6
<1>7. CASE Len(u) = 1
  BY <1>1, <1>3, <1>4, <1>5, <1>7
<1>8. CASE Len(u) = 2
  BY <1>1, <1>3, <1>4, <1>5, <1>8
<1> QED BY <1>3, <1>6, <1>7, <1>8

Nearer == StepsLeft' < StepsLeft /\ StepsLeft' \in Nat

\* A failed attempt that is followed by another: one attempt less is left.
LEMMA TryAgainNearer ==
    ASSUME PubInv, TryAgain, UNCHANGED <<tmp, uploaded>>,
           pc \in {"dataset", "params", "upload", "mark"}
    PROVE  Nearer
<1>1. /\ AttemptsLeft' = AttemptsLeft - 1 /\ AttemptsLeft' \in Nat /\ AttemptsLeft \in Nat
      /\ Attempts \in Nat /\ UNCHANGED <<pc, tmp, uploaded>>
  BY AttemptsAssumption DEF TryAgain, AttemptsLeft, PubInv, TypesInv
<1>2. CASE pc \in {"dataset", "params"}
  <2>1. CASE pc = "dataset"
    BY <1>1, <2>1 DEF Nearer, StepsLeft
  <2>2. CASE pc = "params"
    BY <1>1, <2>2 DEF Nearer, StepsLeft
  <2> QED BY <1>2, <2>1, <2>2
<1>3. CASE pc = "upload"
  <2>1. (3 - Len(uploaded)) * Attempts \in Nat
    BY <1>3, UploadsLeft DEF PubInv, PhaseInv, UploadInv
  <2> QED BY <1>1, <1>3, <2>1 DEF Nearer, StepsLeft
<1>4. CASE pc = "mark"
  BY <1>1, <1>4 DEF Nearer, StepsLeft
<1> QED BY <1>2, <1>3, <1>4

\* The steps of the handler that are no calls to S3.
LEMMA HandlerNearer ==
    ASSUME PubInv, UNCHANGED failures,
           Deny \/ RefusePayload \/ Start \/ CheckInputs \/ Dispatch \/ Finally
    PROVE  Nearer
<1>1. /\ failures = 0 /\ failures' = 0 /\ Attempts \in Nat \ {0} /\ attempt \in 0..1
  BY AttemptsAssumption DEF PubInv, TypesInv, Deny, RefusePayload, Start, CheckInputs, Dispatch, Finally
<1>2. CASE Deny \/ RefusePayload
  BY <1>1, <1>2 DEF Deny, RefusePayload, Continue, Nearer, StepsLeft
<1>3. CASE Finally
  <2>1. /\ pc = "finally" /\ tracked \subseteq Inputs
        /\ \/ pc' = "done"
           \/ pc' = "finally" /\ tracked # {} /\ tracked' = tracked \ {NextTemp}
    BY <1>3 DEF Finally, Continue, PubInv, TypesInv
  <2>2. CASE pc' = "done"
    BY <2>1, <2>2 DEF Nearer, StepsLeft
  <2>3. CASE pc' = "finally" /\ tracked # {} /\ tracked' = tracked \ {NextTemp}
    <3>1. CASE "dataset" \in tracked
      BY <2>1, <2>3, <3>1 DEF NextTemp, Nearer, StepsLeft
    <3>2. CASE "dataset" \notin tracked
      BY <2>1, <2>3, <3>2 DEF NextTemp, Nearer, StepsLeft, Inputs
    <3> QED BY <3>1, <3>2
  <2> QED BY <2>1, <2>2, <2>3
<1>4. CASE Start
  <2>1. pc = "start" /\ pc' \in {"finally", "dataset", "check"}
    BY <1>4 DEF Start, Continue, Raise
  <2> QED BY <1>1, <2>1 DEF Nearer, StepsLeft, AttemptsLeft
<1>5. CASE CheckInputs
  <2>1. \/ pc = "check" /\ pc' = "finally"
        \/ pc = "check" /\ pc' = "upload" /\ uploaded' = <<>>
    BY <1>5 DEF CheckInputs, Continue, Raise, PubInv, PhaseInv, Early, EarlyInv
  <2>2. Len(<<>>) = 0
    OBVIOUS
  <2> QED BY <1>1, <2>1, <2>2 DEF Nearer, StepsLeft, AttemptsLeft
<1>6. CASE Dispatch
  <2>1. \/ pc = "dispatch" /\ pc' \in {"finally", "mark"}
        \/ pc = "dispatch" /\ pc' = "dispatch" /\ attempt' = attempt + 1 /\ attempt < LastAttempt
    BY <1>6 DEF Dispatch, Ignored, Accepted, Refused, Unanswered, Garbled, Continue, Raise,
       AfterRefusal
  <2> QED BY <1>1, <2>1 DEF Nearer, StepsLeft, AttemptsLeft, LastAttempt
<1> QED BY <1>2, <1>3, <1>4, <1>5, <1>6

LEMMA FetchNearer ==
    ASSUME PubInv, NEW f \in Inputs,
           FetchS3(f) \/ (MakeTemp(f) /\ UNCHANGED failures)
    PROVE  Nearer
<1>1. /\ Attempts \in Nat \ {0} /\ failures \in 0..(Attempts - 1) /\ pc \in {"dataset", "params"}
      /\ pc = f
  BY AttemptsAssumption DEF PubInv, TypesInv, FetchS3, MakeTemp, Inputs
<1>2. CASE MakeTemp(f) /\ UNCHANGED failures
  <2>1. \/ pc' = "finally"
        \/ pc' = pc /\ f \notin tmp /\ f \in tmp'
    BY <1>2 DEF MakeTemp, Continue, Raise
  <2> QED BY <1>1, <1>2, <2>1 DEF Nearer, StepsLeft, AttemptsLeft
<1>3. CASE /\ FetchS3(f)
           /\ GiveUp("finally") \/ (failures' = 0 /\ DiscardRaises(f)) \/ CallEnds(AfterFetch(f))
  <2>1. /\ failures' = 0 /\ f \in tmp
        /\ \/ pc' = "finally"
           \/ pc = "dataset" /\ pc' = "params"
           \/ pc = "params" /\ pc' = "check"
    BY <1>1, <1>3 DEF FetchS3, GiveUp, DiscardRaises, CallEnds, AfterFetch, Continue, Raise
  <2>2. CASE pc' = "finally"
    <3>1. StepsLeft' \in {1, 2, 3}
      BY <2>2 DEF StepsLeft
    <3>2. \E n \in {0, 1} : \/ StepsLeft = 4 * Attempts + 6 + Attempts + 1 + (Attempts - failures) + n
                           \/ StepsLeft = 4 * Attempts + 6 + (Attempts - failures) + n
      BY <1>1 DEF StepsLeft, AttemptsLeft
    <3>3. StepsLeft \in Nat /\ StepsLeft > 3
      BY <1>1, <3>2
    <3> QED BY <3>1, <3>3 DEF Nearer
  <2>3. CASE pc = "dataset" /\ pc' = "params"
    BY <1>1, <2>1, <2>3 DEF Nearer, StepsLeft, AttemptsLeft
  <2>4. CASE pc = "params" /\ pc' = "check"
    BY <1>1, <2>1, <2>4 DEF Nearer, StepsLeft, AttemptsLeft
  <2> QED BY <2>1, <2>2, <2>3, <2>4
<1>4. CASE FetchS3(f) /\ TryAgain /\ UNCHANGED tmp
  BY <1>1, <1>4, TryAgainNearer DEF FetchS3
<1> QED BY <1>2, <1>3, <1>4 DEF FetchS3

LEMMA UploadNearer == ASSUME PubInv, UploadS3 PROVE Nearer
<1>1. /\ pc = "upload" /\ uploaded \in Partial /\ NextKey = NextOf(uploaded) /\ attempt = 0
      /\ Attempts \in Nat \ {0} /\ failures \in 0..(Attempts - 1) /\ UNCHANGED attempt
  BY UploadFacts, AttemptsAssumption DEF UploadS3, netVars
<1>2. CASE TryAgain /\ UNCHANGED uploaded
  BY <1>1, <1>2, TryAgainNearer DEF UploadS3, pubVars
<1>3. CASE GiveUp("rollback") /\ UNCHANGED uploaded
  <2>1. pc' = "rollback" /\ uploaded' = uploaded
    BY <1>3 DEF GiveUp, Raise
  <2> QED BY <1>1, <2>1, UploadsLeft DEF Nearer, StepsLeft, AttemptsLeft
<1>4. CASE /\ CallEnds(IF Len(uploaded) + 1 = Len(UploadOrder) THEN "dispatch" ELSE "upload")
           /\ uploaded' = Append(uploaded, NextKey)
  <2>1. /\ failures' = 0 /\ Len(uploaded') = Len(uploaded) + 1 /\ Len(uploaded) \in 0..2
        /\ pc' = IF Len(uploaded) = 2 THEN "dispatch" ELSE "upload"
    <3>1. /\ Len(UploadOrder) = 3 /\ Len(uploaded) \in 0..2
          /\ Len(Append(uploaded, NextOf(uploaded))) = Len(uploaded) + 1
      BY <1>1, UploadsLeft, NextUpload
    <3>a. PICK n \in 0..2 : Len(uploaded) = n
      BY <3>1
    <3>2. (Len(uploaded) + 1 = Len(UploadOrder)) = (Len(uploaded) = 2)
      BY <3>1, <3>a
    <3>3. failures' = 0 /\ pc' = IF Len(uploaded) = 2 THEN "dispatch" ELSE "upload"
      BY <1>4, <3>2 DEF CallEnds, Continue
    <3>4. Len(uploaded') = Len(uploaded) + 1
      BY <1>1, <1>4, <3>1
    <3> QED BY <3>1, <3>3, <3>4
  <2>2. CASE Len(uploaded) = 0
    BY <1>1, <2>1, <2>2 DEF Nearer, StepsLeft, AttemptsLeft
  <2>3. CASE Len(uploaded) = 1
    BY <1>1, <2>1, <2>3 DEF Nearer, StepsLeft, AttemptsLeft
  <2>4. CASE Len(uploaded) = 2
    BY <1>1, <2>1, <2>4 DEF Nearer, StepsLeft, AttemptsLeft, LastAttempt
  <2> QED BY <2>1, <2>2, <2>3, <2>4
<1> QED BY <1>2, <1>3, <1>4 DEF UploadS3

LEMMA RollbackNearer == ASSUME PubInv, Rollback PROVE Nearer
<1>1. pc = "rollback" /\ uploaded \in Partial
  BY DEF Rollback, PubInv, PhaseInv, RollbackInv
<1>2. CASE uploaded = <<>>
  <2>1. pc' = "finally" /\ Len(uploaded) = 0
    BY <1>2 DEF Rollback, Continue
  <2> QED BY <1>1, <2>1 DEF Nearer, StepsLeft
<1>3. CASE uploaded # <<>>
  <2>1. pc' = "rollback" /\ Len(uploaded') = Len(uploaded) - 1 /\ Len(uploaded) \in 1..2
    <3>1. pc' = "rollback" /\ uploaded' = Front(uploaded)
      BY <1>3 DEF Rollback, Continue
    <3>2. Len(uploaded) \in 1..2
      BY <1>1, <1>3 DEF Partial
    <3> QED BY <1>1, <1>3, <3>1, <3>2, UploadsLeft
  <2> QED BY <1>1, <2>1 DEF Nearer, StepsLeft
<1> QED BY <1>2, <1>3

LEMMA MarkNearer == ASSUME PubInv, MarkFailedS3 PROVE Nearer
<1>1. pc = "mark" /\ Attempts \in Nat \ {0} /\ failures \in 0..(Attempts - 1)
  BY AttemptsAssumption DEF MarkFailedS3, PubInv, TypesInv
<1>2. CASE TryAgain
  BY <1>1, <1>2, TryAgainNearer DEF MarkFailedS3, pubVars, inputVars
<1>3. CASE Continue("finally")
  BY <1>1, <1>3 DEF Continue, Nearer, StepsLeft, AttemptsLeft
<1> QED BY <1>2, <1>3 DEF MarkFailedS3

\* Wherever it is, a request that has not ended has a step left.
LEMMA StepsLeftPositive ==
    ASSUME PubInv
    PROVE  /\ StepsLeft \in 0..(6 * Attempts + 9)
           /\ StepsLeft = 0 <=> pc \in {"done", "crashed"}
<1>1. /\ Attempts \in Nat \ {0} /\ failures \in 0..(Attempts - 1) /\ attempt \in 0..1
      /\ pc \in Early \cup {"upload", "rollback", "dispatch", "mark", "finally", "done", "crashed"}
  BY AttemptsAssumption DEF PubInv, TypesInv, PhaseInv
<1>2. /\ pc = "start" => StepsLeft = 6 * Attempts + 9
      /\ pc = "check" => StepsLeft = 4 * Attempts + 6
      /\ pc = "dispatch" => StepsLeft = 5 - attempt + Attempts
      /\ pc = "mark" => StepsLeft = Attempts - failures + 3
      /\ pc = "finally" => StepsLeft \in {1, 2, 3}
      /\ pc \in {"done", "crashed"} => StepsLeft = 0
  BY <1>1 DEF StepsLeft, AttemptsLeft, LastAttempt
<1>3. /\ pc = "dataset" => \E n \in {0, 1} :
            StepsLeft = 4 * Attempts + 6 + Attempts + 1 + (Attempts - failures) + n
      /\ pc = "params" => \E n \in {0, 1} :
            StepsLeft = 4 * Attempts + 6 + (Attempts - failures) + n
  BY DEF StepsLeft, AttemptsLeft
<1>4. CASE pc = "upload"
  <2>1. uploaded \in Partial
    BY <1>4 DEF PubInv, PhaseInv, UploadInv
  <2>2. (3 - Len(uploaded)) * Attempts \in {3 * Attempts, 2 * Attempts, Attempts}
    BY <2>1, UploadsLeft
  <2>3. StepsLeft = (3 - Len(uploaded)) * Attempts + (Attempts - failures) + 5
    BY <1>4 DEF StepsLeft, AttemptsLeft
  <2> QED BY <1>1, <1>4, <2>2, <2>3
<1>5. CASE pc = "rollback"
  <2>1. PICK n \in 0..2 : Len(uploaded) = n
    BY <1>5, UploadsLeft DEF PubInv, PhaseInv, RollbackInv
  <2>2. StepsLeft = n + 4
    BY <1>5, <2>1 DEF StepsLeft
  <2> QED BY <1>1, <1>5, <2>1, <2>2
<1>6. CASE pc \notin {"upload", "rollback"}
  <2>1. CASE pc \in {"dataset", "params"}
    BY <1>1, <1>3, <2>1
  <2>2. CASE pc \notin {"dataset", "params"}
    BY <1>1, <1>2, <1>6, <2>2 DEF Early
  <2> QED BY <2>1, <2>2
<1> QED BY <1>4, <1>5, <1>6

LEMMA CrashNearer == ASSUME PubInv, CrashS3 PROVE Nearer
<1>1. pc \notin {"done", "crashed"} /\ pc' = "crashed"
  BY DEF CrashS3, Continue
<1>2. StepsLeft \in Nat /\ StepsLeft # 0
  BY <1>1, StepsLeftPositive, AttemptsAssumption
<1>3. StepsLeft' = 0
  BY <1>1 DEF StepsLeft
<1> QED BY <1>2, <1>3 DEF Nearer

\* A request takes at most 6 * Attempts + 9 steps to its answer, every attempt
\* of every call counted: nothing that fails sends it back, whatever fails.
THEOREM RequestsEnd == S3Spec => NearerToAnswer /\ [](StepsLeft \in 0..(6 * Attempts + 9))
<1>1. PubInv /\ [NextS3]_s3Vars => [Nearer]_s3Vars
  <2> SUFFICES ASSUME PubInv, NextS3
               PROVE  Nearer \/ UNCHANGED s3Vars
    OBVIOUS
  <2>1. "dataset" \in Inputs /\ "params" \in Inputs
    BY DEF Inputs
  <2>2. CASE StepS3
    <3>1. CASE FetchS3("dataset") \/ FetchS3("params")
      BY <2>1, <3>1, FetchNearer
    <3>2. CASE /\ UNCHANGED failures
               /\ MakeTemp("dataset") \/ MakeTemp("params")
      BY <2>1, <3>2, FetchNearer
    <3>3. CASE UNCHANGED failures /\ (Deny \/ RefusePayload \/ Start \/ CheckInputs \/ Dispatch \/ Finally)
      BY <3>3, HandlerNearer
    <3> QED
      BY <2>2, <3>1, <3>2, <3>3, UploadNearer, RollbackNearer, MarkNearer DEF StepS3
  <2> QED BY <2>2, CrashNearer DEF NextS3, EndedS3
<1>2. PubInv => StepsLeft \in 0..(6 * Attempts + 9)
  BY StepsLeftPositive
<1> QED BY <1>1, <1>2, PublisherInvariant, PTL DEF S3Spec, NearerToAnswer, Nearer

-----------------------------------------------------------------------------
(* The refinement.                                                         *)

LEMMA NoDoubt ==
    /\ failures = 0 => folder \ InDoubt = folder
    /\ failures' = 0 => (folder \ InDoubt)' = folder'
BY DEF InDoubt

\* The operators on data are the same on both levels.
LEMMA SameData ==
    /\ \A p, d : Publisher!Valid(p, d) <=> Valid(p, d)
    /\ \A p : Publisher!Mode(p) = Mode(p)
    /\ \A uri : Publisher!ValidUri(uri) <=> ValidUri(uri)
    /\ \A path, d : Publisher!ValidPath(path, d) <=> ValidPath(path, d)
    /\ \A f : Publisher!AfterFetch(f) = AfterFetch(f)
    /\ \A e : Publisher!StatusOf(e) = StatusOf(e)
    /\ Publisher!UploadOrder = UploadOrder /\ Publisher!Inputs = Inputs
    /\ Publisher!Payloads = Payloads /\ Publisher!Deployments = Deployments
BY DEF Publisher!Valid, Valid, Publisher!ValidUri, ValidUri, Publisher!ValidPath, ValidPath,
       Publisher!OneSource, OneSource, Publisher!HasS3, HasS3, Publisher!HasLocal, HasLocal,
       Publisher!Mode, Mode, Publisher!AfterFetch, AfterFetch, Publisher!StatusOf, StatusOf,
       Publisher!UploadOrder, UploadOrder, Publisher!Inputs, Inputs,
       Publisher!Payloads, Payloads, Publisher!Uris, Uris, Publisher!Paths, Paths,
       Publisher!Deployments, Deployments, Publisher!Environments, Environments,
       Publisher!Loads, Loads, Publisher!ProdRules, ProdRules, Publisher!Deployment, Deployment,
       Publisher!Orchestrator, Orchestrator, Publisher!Backend, Backend

LEMMA InitRefines == S3Init => Publisher!Init
BY SameData, NoDoubt DEF S3Init, Init, Publisher!Init

\* The steps that make no call to S3 that is tried again.
LEMMA OtherStepsRefine ==
    ASSUME PubInv, UNCHANGED failures,
           \/ Deny \/ RefusePayload \/ Start \/ MakeTemp("dataset") \/ MakeTemp("params")
           \/ CheckInputs \/ Rollback \/ Dispatch \/ Finally
    PROVE  Publisher!Step
<1>1. failures = 0 /\ failures' = 0
  BY DEF PubInv, TypesInv, PhaseInv, TempInv, Inputs, Deny, RefusePayload, Start, MakeTemp, CheckInputs, Rollback,
         Dispatch, Finally
<1>2. folder \ InDoubt = folder /\ (folder \ InDoubt)' = folder'
  BY <1>1, NoDoubt
<1>3. CASE Deny
  BY <1>2, <1>3 DEF Deny, Publisher!Deny, Publisher!Step, Continue, Publisher!Continue, pubVars,
     Publisher!pubVars, inputVars, Publisher!inputVars, netVars, Publisher!netVars
<1>4. CASE RefusePayload
  <2>1. /\ Publisher!Valid(payload, deployment) <=> Valid(payload, deployment)
        /\ Publisher!FieldsValid <=> FieldsValid
    BY SameData DEF FieldsValid, Publisher!FieldsValid
  <2>2. Publisher!RefusePayload
    BY <1>2, <1>4, <2>1 DEF RefusePayload, Publisher!RefusePayload, Continue,
       Publisher!Continue, pubVars, Publisher!pubVars, inputVars, Publisher!inputVars,
       netVars, Publisher!netVars
  <2> QED BY <2>2 DEF Publisher!Step
<1>5. CASE Start
  <2>1. /\ Publisher!Valid(payload, deployment) <=> Valid(payload, deployment)
        /\ Publisher!Mode(payload) = Mode(payload)
    BY SameData
  <2>2. Publisher!Start
    BY <1>2, <1>5, <2>1 DEF Start, Publisher!Start, Continue, Publisher!Continue,
       Raise, Publisher!Raise, pubVars, Publisher!pubVars, inputVars, Publisher!inputVars,
       netVars, Publisher!netVars
  <2> QED BY <2>2 DEF Publisher!Step
<1>6. ASSUME NEW f \in Inputs, MakeTemp(f) PROVE Publisher!Step
  <2>1. Publisher!MakeTemp(f)
    BY <1>2, <1>6 DEF MakeTemp, Publisher!MakeTemp, Continue, Publisher!Continue,
       Raise, Publisher!Raise, inputVars, Publisher!inputVars, netVars, Publisher!netVars
  <2> QED BY <2>1, SameData DEF Publisher!Step
<1>7. CASE CheckInputs
  BY <1>2, <1>7 DEF CheckInputs, Publisher!CheckInputs, Publisher!Step, Continue, Publisher!Continue,
     Raise, Publisher!Raise, pubVars,
     Publisher!pubVars, inputVars, Publisher!inputVars, netVars, Publisher!netVars
<1>8. CASE Rollback
  BY <1>2, <1>8 DEF Rollback, Publisher!Rollback, Publisher!Step, Continue, Publisher!Continue,
     Front, Last, Publisher!Front, Publisher!Last, pubVars,
     Publisher!pubVars, inputVars, Publisher!inputVars, netVars, Publisher!netVars
<1>9. CASE Dispatch
  BY <1>2, <1>9 DEF Dispatch, Publisher!Dispatch, Publisher!Step, Continue, Publisher!Continue,
     Raise, Publisher!Raise, pubVars, Ignored, Publisher!Ignored, Accepted, Publisher!Accepted,
     Refused, Publisher!Refused, Unanswered, Publisher!Unanswered, Garbled, Publisher!Garbled,
     Queue, Publisher!Queue, LastAttempt, Publisher!LastAttempt,
     AfterRefusal, Publisher!AfterRefusal,
     Publisher!pubVars, inputVars, Publisher!inputVars, netVars, Publisher!netVars
<1>10. CASE Finally
  BY <1>2, <1>10, SameData DEF Finally, Publisher!Finally, Publisher!Step, Continue, Publisher!Continue,
     NextTemp, Publisher!NextTemp, inputVars, Publisher!inputVars, netVars, Publisher!netVars
<1> QED BY <1>3, <1>4, <1>5, <1>6, <1>7, <1>8, <1>9, <1>10 DEF Inputs

\* An attempt that fails and is followed by another changes nothing that the
\* caller knows of; the end of the loop is the call.
LEMMA FetchRefines ==
    ASSUME PubInv, NEW f \in Inputs, FetchS3(f)
    PROVE  Publisher!Step \/ UNCHANGED Publisher!vars
<1>1. pc = f /\ f \in tmp /\ UNCHANGED <<deployment, payload, folder, uploaded, attempt, runs, answer>>
  BY DEF FetchS3, inputVars, netVars
<1>2. /\ InDoubt = {} /\ folder \ InDoubt = folder
  BY <1>1 DEF InDoubt, Inputs
<1>3. CASE TryAgain /\ UNCHANGED <<tmp, tracked, trouble>>
  <2>1. UNCHANGED <<pc, raised>> /\ InDoubt' = {}
    BY <1>1, <1>3 DEF TryAgain, InDoubt, Inputs
  <2> QED BY <1>1, <1>2, <1>3, <2>1 DEF Publisher!vars, Publisher!pubVars, Publisher!inputVars
<1>4. CASE GiveUp("finally") /\ Discard(f) /\ UNCHANGED tracked
  <2>1. /\ failures' = 0 /\ (folder \ InDoubt)' = folder
        /\ \E exception \in {"OSError", "OtherError"} : Publisher!Raise(exception, "finally")
    BY <1>1, <1>4, NoDoubt DEF GiveUp, LoopError, Raise, Publisher!Raise
  <2>2. Publisher!Fetch(f)
    BY <1>1, <1>2, <1>4, <2>1 DEF Publisher!Fetch, Publisher!FetchFails, Publisher!Discard, Discard,
       Publisher!inputVars, Publisher!netVars
  <2> QED BY <2>2, SameData DEF Publisher!Step
<1>5. CASE failures' = 0 /\ DiscardRaises(f) /\ UNCHANGED tracked
  <2>1. (folder \ InDoubt)' = folder /\ Publisher!DiscardRaises(f)
    BY <1>1, <1>5, NoDoubt DEF DiscardRaises, Publisher!DiscardRaises, Raise, Publisher!Raise
  <2>2. Publisher!Fetch(f)
    BY <1>1, <1>2, <1>5, <2>1 DEF Publisher!Fetch, Publisher!inputVars, Publisher!netVars
  <2> QED BY <2>2, SameData DEF Publisher!Step
<1>6. CASE CallEnds(AfterFetch(f)) /\ tracked' = tracked \cup {f} /\ UNCHANGED <<tmp, trouble>>
  <2>1. /\ failures' = 0 /\ (folder \ InDoubt)' = folder
        /\ Publisher!Continue(Publisher!AfterFetch(f))
    BY <1>1, <1>6, NoDoubt DEF CallEnds, Continue, Publisher!Continue, AfterFetch, Publisher!AfterFetch
  <2>2. Publisher!Fetch(f)
    BY <1>1, <1>2, <1>6, <2>1 DEF Publisher!Fetch, Publisher!inputVars, Publisher!netVars
  <2> QED BY <2>2, SameData DEF Publisher!Step
<1> QED BY <1>3, <1>4, <1>5, <1>6 DEF FetchS3

LEMMA UploadRefines ==
    ASSUME PubInv, UploadS3
    PROVE  Publisher!Step \/ UNCHANGED Publisher!vars
<1>1. pc = "upload" /\ UNCHANGED <<answer, deployment, payload, tmp, tracked, attempt, runs>>
  BY DEF UploadS3, pubVars, inputVars, netVars
<1> DEFINE k == NextKey
<1>2. /\ k \notin Stored(uploaded) /\ folder \in {Stored(uploaded), Stored(uploaded) \cup {k}}
      /\ failures = 0 => folder = Stored(uploaded)
      /\ failures \in Nat
  BY <1>1, UploadFacts, NextUpload
<1>3. folder \ InDoubt = Stored(uploaded)
  BY <1>1, <1>2 DEF InDoubt
<1>4. k = Publisher!UploadOrder[Len(uploaded) + 1] /\ Len(Publisher!UploadOrder) = Len(UploadOrder)
  BY SameData DEF NextKey
<1>5. CASE TryAgain /\ MayApply(NextKey) /\ UNCHANGED <<trouble, uploaded>>
  <2>1. /\ failures' > 0 /\ UNCHANGED <<pc, raised, trouble, uploaded>> /\ NextKey' = NextKey
        /\ folder' \in {folder, folder \cup {k}}
    BY <1>2, <1>5 DEF TryAgain, MayApply, NextKey
  <2>2. (folder \ InDoubt)' = Stored(uploaded)
    BY <1>1, <1>2, <2>1 DEF InDoubt
  <2> QED
    BY <1>1, <1>3, <2>1, <2>2 DEF Publisher!vars, Publisher!pubVars, Publisher!inputVars
<1> HIDE DEF k
<1>6. CASE GiveUp("rollback") /\ MayApply(NextKey) /\ NoteLost(NextKey) /\ UNCHANGED uploaded
  <2>1. /\ failures' = 0 /\ (folder \ InDoubt)' = folder'
        /\ \E exception \in {"OSError", "OtherError"} : Publisher!Raise(exception, "rollback")
    BY <1>6, NoDoubt DEF GiveUp, LoopError, Raise, Publisher!Raise
  <2>2. /\ folder' \in {folder, folder \cup {k}} /\ uploaded' = uploaded
        /\ trouble' = IF k \in folder' THEN trouble \cup {<<"lost", k>>} ELSE trouble
    BY <1>6 DEF MayApply, NoteLost, k
  <2>3. Publisher!StoreRaises(k)
    <3>1. CASE k \in folder'
      <4>1. folder' = Stored(uploaded) \cup {k}
        BY <1>2, <2>2, <3>1
      <4> QED BY <1>3, <2>1, <2>2, <3>1, <4>1 DEF Publisher!StoreRaises
    <3>2. CASE k \notin folder'
      <4>1. folder' = Stored(uploaded)
        BY <1>2, <2>2, <3>2
      <4> QED BY <1>3, <2>1, <2>2, <3>2, <4>1 DEF Publisher!StoreRaises
    <3> QED BY <3>1, <3>2
  <2>4. Publisher!Upload
    BY <1>1, <1>4, <2>1, <2>2, <2>3 DEF Publisher!Upload, Publisher!pubVars, Publisher!inputVars,
       Publisher!netVars
  <2> QED BY <2>4 DEF Publisher!Step
<1>7. CASE /\ CallEnds(IF Len(uploaded) + 1 = Len(UploadOrder) THEN "dispatch" ELSE "upload")
           /\ Store(NextKey)
           /\ uploaded' = Append(uploaded, NextKey)
  <2>1. /\ failures' = 0 /\ (folder \ InDoubt)' = folder'
        /\ Publisher!Continue(IF Len(uploaded) + 1 = Len(Publisher!UploadOrder)
                                THEN "dispatch" ELSE "upload")
    BY <1>4, <1>7, NoDoubt DEF CallEnds, Continue, Publisher!Continue
  <2>2. folder' = Stored(uploaded) \cup {k} /\ UNCHANGED trouble /\ uploaded' = Append(uploaded, k)
    BY <1>2, <1>7 DEF Store, k
  <2>3. Publisher!Store(k)
    BY <1>3, <2>1, <2>2 DEF Publisher!Store
  <2>4. Publisher!Upload
    BY <1>1, <1>4, <2>1, <2>2, <2>3 DEF Publisher!Upload, Publisher!pubVars, Publisher!inputVars,
       Publisher!netVars
  <2> QED BY <2>4 DEF Publisher!Step
<1> QED BY <1>5, <1>6, <1>7 DEF UploadS3

LEMMA MarkRefines ==
    ASSUME PubInv, MarkFailedS3
    PROVE  Publisher!Step \/ UNCHANGED Publisher!vars
<1>1. pc = "mark" /\ UNCHANGED <<answer, deployment, payload, tmp, tracked, uploaded, attempt, runs>>
  BY DEF MarkFailedS3, pubVars, inputVars, netVars
<1>2. (failures = 0 => "failed" \notin folder) /\ failures \in Nat
  BY <1>1, AttemptsAssumption DEF PubInv, TypesInv, PhaseInv, MarkInv
<1>3. folder \ InDoubt = folder \ {"failed"}
  BY <1>1, <1>2 DEF InDoubt
<1>4. folder' \in {folder, folder \cup {"failed"}}
  BY DEF MarkFailedS3, MayApply
<1>5. CASE TryAgain /\ UNCHANGED trouble
  <2>1. failures' > 0 /\ UNCHANGED <<pc, raised, trouble>>
    BY <1>2, <1>5 DEF TryAgain
  <2>2. (folder \ InDoubt)' = folder \ {"failed"}
    BY <1>1, <1>4, <2>1 DEF InDoubt
  <2> QED
    BY <1>1, <1>3, <2>1, <2>2 DEF Publisher!vars, Publisher!pubVars, Publisher!inputVars
<1>6. CASE /\ failures' = 0 /\ Continue("finally")
           /\ trouble' = IF "failed" \in folder' THEN trouble
                                                 ELSE trouble \cup {<<"unmarked", "failed">>}
  <2>1. (folder \ InDoubt)' = folder' /\ Publisher!Continue("finally")
    BY <1>6, NoDoubt DEF Continue, Publisher!Continue
  <2>2. CASE "failed" \in folder'
    <3>1. folder' = (folder \ {"failed"}) \cup {"failed"} /\ trouble' = trouble
      BY <1>4, <1>6, <2>2
    <3>2. Publisher!MarkFailed
      BY <1>1, <1>3, <2>1, <3>1 DEF Publisher!MarkFailed, Publisher!Store, Publisher!pubVars,
         Publisher!inputVars, Publisher!netVars
    <3> QED BY <3>2 DEF Publisher!Step
  <2>3. CASE "failed" \notin folder'
    <3>1. folder' = folder \ {"failed"} /\ trouble' = trouble \cup {<<"unmarked", "failed">>}
      BY <1>4, <1>6, <2>3
    <3>2. Publisher!MarkFailed
      BY <1>1, <1>3, <2>1, <3>1 DEF Publisher!MarkFailed, Publisher!pubVars,
         Publisher!inputVars, Publisher!netVars
    <3> QED BY <3>2 DEF Publisher!Step
  <2> QED BY <2>2, <2>3
<1> QED BY <1>5, <1>6 DEF MarkFailedS3

\* The process is killed: what was in doubt is what the last call may have done.
LEMMA CrashRefines ==
    ASSUME PubInv, CrashS3
    PROVE  Publisher!Crash
<1>1. /\ pc \notin {"done", "crashed"} /\ failures' = 0 /\ LastCall /\ Continue("crashed")
      /\ UNCHANGED <<answer, deployment, payload, tmp, tracked, uploaded, attempt, trouble>>
  BY DEF CrashS3, pubVars, inputVars
<1>2. (folder \ InDoubt)' = folder' /\ Publisher!Continue("crashed")
  BY <1>1, NoDoubt DEF Continue, Publisher!Continue
<1> SUFFICES Publisher!LastCall
  BY <1>1, <1>2 DEF Publisher!Crash, Publisher!pubVars, Publisher!inputVars
<1>3. CASE pc = "upload"
  <2>1. /\ NextKey \notin Stored(uploaded)
        /\ folder \in {Stored(uploaded), Stored(uploaded) \cup {NextKey}}
        /\ failures = 0 => folder = Stored(uploaded)
        /\ folder' \in {folder, folder \cup {NextKey}} /\ runs' = runs
    BY <1>1, <1>3, UploadFacts, NextUpload DEF LastCall, NextKey
  <2>2. folder \ InDoubt = Stored(uploaded)
    BY <1>3, <2>1 DEF InDoubt
  <2>3. folder' \in {Stored(uploaded), Stored(uploaded) \cup {NextKey}}
    BY <2>1
  <2>4. NextKey = Publisher!UploadOrder[Len(uploaded) + 1]
    BY SameData DEF NextKey
  <2> QED BY <1>2, <1>3, <2>1, <2>2, <2>3, <2>4 DEF Publisher!LastCall
<1>4. CASE pc = "mark"
  <2>1. /\ folder' \in {folder, folder \cup {"failed"}} /\ runs' = runs
        /\ failures = 0 => "failed" \notin folder
    BY <1>1, <1>4 DEF LastCall, PubInv, PhaseInv, MarkInv
  <2>2. folder \ InDoubt = folder \ {"failed"}
    BY <1>4, <2>1 DEF InDoubt
  <2>3. folder' \in {folder \ {"failed"}, (folder \ {"failed"}) \cup {"failed"}}
    BY <2>1
  <2> QED BY <1>2, <1>4, <2>1, <2>2, <2>3 DEF Publisher!LastCall
<1>5. CASE pc \notin {"upload", "mark"}
  <2>1. folder \ InDoubt = folder
    BY <1>5 DEF InDoubt
  <2> QED BY <1>1, <1>2, <1>5, <2>1 DEF LastCall, Publisher!LastCall, Queue, Publisher!Queue,
     Last, Publisher!Last
<1> QED BY <1>3, <1>4, <1>5

LEMMA StepRefines == PubInv /\ [NextS3]_s3Vars => [Publisher!Next]_(Publisher!vars)
<1> SUFFICES ASSUME PubInv, [NextS3]_s3Vars
             PROVE  Publisher!Next \/ UNCHANGED Publisher!vars
  OBVIOUS
<1>1. "dataset" \in Inputs /\ "params" \in Inputs
  BY DEF Inputs
<1>2. CASE StepS3
  <2>1. Publisher!Step \/ UNCHANGED Publisher!vars
    BY <1>1, <1>2, FetchRefines, UploadRefines, MarkRefines, OtherStepsRefine DEF StepS3
  <2> QED BY <2>1 DEF Publisher!Next
<1>3. CASE CrashS3
  BY <1>3, CrashRefines DEF Publisher!Next
<1>4. CASE UNCHANGED s3Vars
  <2>1. UNCHANGED <<pc, deployment, payload, tmp, tracked, folder, uploaded, attempt, runs,
                    raised, answer, trouble, failures>>
    BY <1>4 DEF s3Vars, vars, pubVars, inputVars
  <2>2. (folder \ InDoubt)' = folder \ InDoubt
    BY <2>1 DEF InDoubt, NextKey
  <2> QED BY <2>1, <2>2 DEF Publisher!vars, Publisher!pubVars, Publisher!inputVars
<1> QED BY <1>2, <1>3, <1>4 DEF NextS3, EndedS3

\* The loop of attempts is one call to the publisher, however many attempts it
\* has (s3_store.py, _retry_s3, and its callers).
THEOREM LoopIsOneCall == S3Spec => RefinesPublisher
<1>1. S3Init => Publisher!Init
  BY InitRefines
<1>2. PubInv /\ [NextS3]_s3Vars => [Publisher!Next]_(Publisher!vars)
  BY StepRefines
<1> QED BY <1>1, <1>2, PublisherInvariant, PTL DEF S3Spec, RefinesPublisher, Publisher!Spec
=============================================================================
