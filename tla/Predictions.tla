----------------------------- MODULE Predictions -----------------------------
(***************************************************************************)
(* app.py, POST /predict and /predict/batch: what a request of either does *)
(* with its rows, the model it captured and the counters.  The served      *)
(* model changes under it as ServedModel says, which the model store       *)
(* implements; reloads are counted; the pages of Metrics are made.         *)
(***************************************************************************)
EXTENDS FeatureValidation, Metrics

CONSTANTS
    Workers,        \* the threads that answer requests
    Versions,       \* the versions that may be served
    None,           \* no model
    ContractOf,     \* the schema contract in the manifest of a version
    SentRows,       \* the rows that requests have
    MaxBatchSize,   \* APP_MAX_BATCH_SIZE
    MaxCalls        \* BOUND: requests and reloads begun

ASSUME PredictionsAssumption ==
    /\ ContractOf \in [Versions -> Contracts]
    /\ None \notin Versions \X Contracts
    /\ SentRows \subseteq Rows
    /\ MaxBatchSize \in Nat \ {0} /\ MaxCalls \in Nat

VARIABLES
    served,         \* the <<version, contract>> that is served, or None
    strict,         \* APP_STRICT_SCHEMA
    phase,          \* worker -> "free", "validating", "inferring" or "counting"
    call,           \* worker -> "predict" or "batch_predict"
    rows,           \* worker -> the rows of its request
    valid,          \* worker -> how many of them have been found valid
    loaded,         \* worker -> the <<version, contract>> it captured
    answers,        \* history: call -> the answer it came to -> how often
    calls           \* requests and reloads begun

requestVars == <<phase, call, rows, valid, loaded>>
vars == <<metricsVars, served, strict, requestVars, answers, calls>>

Requests == {"predict", "batch_predict"}

\* 200; an error document; one that lists columns; Flask's own page for an
\* exception that left the handler (413 or 500).
Answers == {"prediction", "error", "columns", "uncaught"}

\* The rows a payload in order may have.
Batches(c) == UNION {[1..n -> SentRows] : n \in 1..(IF c = "predict" THEN 1 ELSE MaxBatchSize)}

Init ==
    /\ MetricsInit
    /\ served = None
    /\ strict \in BOOLEAN
    /\ phase = [w \in Workers |-> "free"]
    /\ call = [w \in Workers |-> "predict"]
    /\ rows = [w \in Workers |-> <<>>]
    /\ valid = [w \in Workers |-> 0]
    /\ loaded = [w \in Workers |-> None]
    /\ answers = [c \in Requests |-> [a \in Answers |-> 0]]
    /\ calls = 0

-----------------------------------------------------------------------------
(* The served model and the reloads.                                       *)

\* ServedModel!Serve, with every version promoted and its manifest intact.
Swap ==
    /\ \E v \in Versions : served' = <<v, ContractOf[v]>>
    /\ UNCHANGED <<metricsVars, strict, requestVars, answers, calls>>

\* The reloader, or POST /reload, has come to the end of a reload and begins to
\* count it.
CountReload ==
    /\ calls < MaxCalls /\ calls' = calls + 1
    /\ \E ok \in BOOLEAN : IncReload(ok)
    /\ UNCHANGED <<pageVars, served, strict, requestVars, answers>>

-----------------------------------------------------------------------------
(* A request.                                                              *)

\* The request begins to be counted with its outcome: inc_predict of /predict,
\* with a latency, inc_batch of /predict/batch.
Count(c, latencies, ok, schema_error) ==
    IF c = "predict"
      THEN \E latency \in latencies : IncPredict(latency, ok, schema_error)
      ELSE IncBatch(ok, schema_error)

Elapsed == 0..MaxLatency

Note(c, answer) == answers' = [answers EXCEPT ![c][answer] = @ + 1]

\* The request has its answer, and a phase of the worker follows.
End(w, then) ==
    /\ phase' = [phase EXCEPT ![w] = then]
    /\ rows' = [rows EXCEPT ![w] = <<>>]
    /\ valid' = [valid EXCEPT ![w] = 0]
    /\ loaded' = [loaded EXCEPT ![w] = None]

\* The answer is counted, and sent when that is done.
Counted(w, c, latencies, answer) ==
    /\ Count(c, latencies, answer = "prediction", answer = "columns")
    /\ Note(c, answer)
    /\ End(w, "counting")

\* An exception that no clause of the handler is for: nothing is counted.
Uncounted(w, c) ==
    /\ UNCHANGED <<counters, due>>
    /\ Note(c, "uncaught")
    /\ End(w, "free")

\* A payload that is malformed or has too many rows, or no model is served; or a
\* body beyond MAX_CONTENT_LENGTH, for which get_json raises.
Refuse(w, c) ==
    /\ phase[w] = "free"
    /\ calls < MaxCalls /\ calls' = calls + 1
    /\ Counted(w, c, {0}, "error") \/ Uncounted(w, c)
    /\ UNCHANGED <<pageVars, served, strict, call>>

\* A payload in order; the served model is captured.
Capture(w, c) ==
    /\ phase[w] = "free" /\ served # None
    /\ calls < MaxCalls /\ calls' = calls + 1
    /\ phase' = [phase EXCEPT ![w] = "validating"]
    /\ call' = [call EXCEPT ![w] = c]
    /\ \E b \in Batches(c) : rows' = [rows EXCEPT ![w] = b]
    /\ loaded' = [loaded EXCEPT ![w] = served]
    /\ UNCHANGED <<metricsVars, served, strict, valid, answers>>

VerdictBy(w, contract) == Verdict(rows[w][valid[w] + 1], contract, strict)

\* Mutant of RowVerdict: the contract is that of the model served by now.
RowVerdictServed(w) == VerdictBy(w, served[2])

RowVerdict(w) == VerdictBy(w, loaded[w][2])

\* Mutant of ValidateRow: it asks for a row after the last.
ValidateRowBeyond(w) ==
    /\ phase[w] = "validating" /\ RowVerdict(w) = "accepted"
    /\ valid' = [valid EXCEPT ![w] = @ + 1]
    /\ phase' = [phase EXCEPT ![w] =
                   IF valid[w] = Len(rows[w]) THEN "inferring" ELSE "validating"]
    /\ UNCHANGED <<metricsVars, served, strict, call, rows, loaded, answers, calls>>

\* One more row is valid; when all are, the model's turn has come.
ValidateRow(w) ==
    /\ phase[w] = "validating" /\ RowVerdict(w) = "accepted"
    /\ valid' = [valid EXCEPT ![w] = @ + 1]
    /\ phase' = [phase EXCEPT ![w] =
                   IF valid[w] + 1 = Len(rows[w]) THEN "inferring" ELSE "validating"]
    /\ UNCHANGED <<metricsVars, served, strict, call, rows, loaded, answers, calls>>

RejectRow(w) ==
    /\ phase[w] = "validating" /\ RowVerdict(w) = "SchemaValidationError"
    /\ Counted(w, call[w], Elapsed, "columns")
    /\ UNCHANGED <<pageVars, served, strict, call, calls>>

\* No except clause is for an OverflowError.
RowOverflows(w) ==
    /\ phase[w] = "validating" /\ RowVerdict(w) = "OverflowError"
    /\ Uncounted(w, call[w])
    /\ UNCHANGED <<pageVars, served, strict, call, calls>>

\* Mutant of Infer: a failed prediction is not counted.
InferUncounted(w) ==
    /\ phase[w] = "inferring"
    /\ \/ Counted(w, call[w], Elapsed, "prediction")
       \/ UNCHANGED <<counters, due>> /\ Note(call[w], "error") /\ End(w, "free")
    /\ UNCHANGED <<pageVars, served, strict, call, calls>>

\* The model predicts from the contract's columns, or fails; or the frame has no
\* column of a name the contract gives (a KeyError: the rows were checked against
\* the names as strings), and no clause is for that.
Infer(w) ==
    /\ phase[w] = "inferring"
    /\ \/ Counted(w, call[w], Elapsed, "prediction")
       \/ Counted(w, call[w], Elapsed, "error")
       \/ Uncounted(w, call[w])
    /\ UNCHANGED <<pageVars, served, strict, call, calls>>

\* The writer that holds the lock goes on; at its end the lock is free, and the
\* answer of the request it counted is sent.
Write ==
    /\ Add
    /\ phase' = [w \in Workers |->
                   IF phase[w] = "counting" /\ Unlocked' THEN "free" ELSE phase[w]]
    /\ UNCHANGED <<pageVars, served, strict, call, rows, valid, loaded, answers, calls>>

-----------------------------------------------------------------------------
Request(w) ==
    \/ \E c \in Requests : Refuse(w, c) \/ Capture(w, c)
    \/ ValidateRow(w) \/ RejectRow(w) \/ RowOverflows(w) \/ Infer(w)

Page == Scrape /\ UNCHANGED <<served, strict, requestVars, answers, calls>>

Next == Swap \/ CountReload \/ Write \/ Page \/ \E w \in Workers : Request(w)

Spec == Init /\ [][Next]_vars

-----------------------------------------------------------------------------
\* Every variable holds a value of its kind.
PredictionsTypeOK ==
    /\ MetricsTypeOK
    /\ served \in (Versions \X Contracts) \cup {None}
    /\ strict \in BOOLEAN
    /\ phase \in [Workers -> {"free", "validating", "inferring", "counting"}]
    /\ call \in [Workers -> Requests]
    /\ rows \in [Workers -> Seq(Rows)]
    /\ valid \in [Workers -> Nat]
    /\ loaded \in [Workers -> (Versions \X Contracts) \cup {None}]
    /\ answers \in [Requests -> [Answers -> Nat]]
    /\ calls \in 0..MaxCalls
    /\ \A w \in Workers : phase[w] = "validating" => valid[w] < Len(rows[w])

\* The model that runs gets rows that fit its own contract, every one of a
\* batch, although another model is swapped in between: all its columns, with
\* a value where one is required, and nothing else when the check is strict
\* (app.py, predict and predict_batch; validation.py).
ModelSeesItsContract ==
    \A w \in Workers : phase[w] = "inferring" =>
        LET contract == ContractOf[loaded[w][1]] IN
        contract.columns # {} =>
            \A i \in DOMAIN rows[w] :
                /\ Fits(rows[w][i], contract)
                /\ strict => DOMAIN rows[w][i] = contract.columns

\* Whenever no write is going on, the counters of both calls follow from the
\* answers that requests came to: each is counted once, as what it was.  The one
\* exception is an exception that no clause of the handler is for (a body that is
\* too long, an integer no float can hold, a column the frame does not have),
\* which leaves no trace in the counters (app.py, predict and predict_batch).
AnswersAreCounted ==
    Unlocked =>
        \A c \in Requests :
            LET n == answers[c] IN
            /\ counters[Total[c]] = n["prediction"] + n["error"] + n["columns"]
            /\ counters[Errors[c]] = n["error"] + n["columns"]
            /\ c = "predict" =>
                  /\ counters["predict_schema_errors"] = n["columns"]
                  /\ counters[LatencyCount] = counters["predict_total"]
            /\ c = "batch_predict" => counters["batch_predict_schema_errors"] = n["columns"]
=============================================================================
