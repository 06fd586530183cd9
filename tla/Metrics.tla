------------------------------- MODULE Metrics -------------------------------
(***************************************************************************)
(* metrics.py, and the two pages that show the counters: GET /metrics and  *)
(* GET /admin/api/status.  A writer changes its counters one by one, and   *)
(* the lock keeps other writers out meanwhile.  The pages read the counters*)
(* one by one, without the lock: they may see a write half done.           *)
(***************************************************************************)
EXTENDS Naturals, Sequences

CONSTANT MaxLatency     \* BOUND: the longest latency observed, in ticks

ASSUME MetricsAssumption == MaxLatency \in Nat \ {0}

VARIABLES
    counters,       \* the counters, by name
    due,            \* what the writer that holds the lock has still to add to each
    page,           \* the page being made, or made last: "metrics" or "status"
    at,             \* where it is: "idle", "guard", "first", "second" or "list"
    next,           \* the place in Order it reads next
    told,           \* the counters it has read, by name
    average,        \* the two operands of its average latency, by name
    began,          \* history: the counters when the page was begun
    owed            \* history: what was due to the count when the sum was read

pageVars == <<page, at, next, told, average, began, owed>>
metricsVars == <<counters, due, pageVars>>

Calls == {"predict", "batch_predict", "reload"}

Total == [predict |-> "predict_total", batch_predict |-> "batch_predict_total",
          reload |-> "reload_total"]
Errors == [predict |-> "predict_errors", batch_predict |-> "batch_predict_errors",
           reload |-> "reload_errors"]
LatencySum == "predict_latency_sum_ms"
LatencyCount == "predict_latency_count"

Counters ==
    {"predict_total", "predict_errors", "predict_schema_errors",
     "batch_predict_total", "batch_predict_errors", "batch_predict_schema_errors",
     "reload_total", "reload_errors", LatencySum, LatencyCount}

MetricsInit ==
    /\ counters = [c \in Counters |-> 0]
    /\ due = [c \in Counters |-> 0]
    /\ page = "metrics" /\ at = "idle" /\ next = 1
    /\ told = <<>>
    /\ average = [c \in {LatencySum, LatencyCount} |-> 0]
    /\ began = counters /\ owed = 0

-----------------------------------------------------------------------------
(* The writers: each takes the lock, and then adds in the order of its     *)
(* lines.  All of them add to their total, so the lock is held as long as  *)
(* something is due.                                                       *)

Unlocked == \A c \in Counters : due[c] = 0

Bit(b) == IF b THEN 1 ELSE 0

IncPredict(latency, ok, schema_error) ==
    /\ Unlocked
    /\ due' = [due EXCEPT
           !["predict_total"] = 1,
           ![LatencySum] = latency,
           ![LatencyCount] = 1,
           !["predict_errors"] = Bit(~ok),
           !["predict_schema_errors"] = Bit(schema_error)]
    /\ UNCHANGED counters

IncBatch(ok, schema_error) ==
    /\ Unlocked
    /\ due' = [due EXCEPT
           !["batch_predict_total"] = 1,
           !["batch_predict_errors"] = Bit(~ok),
           !["batch_predict_schema_errors"] = Bit(schema_error)]
    /\ UNCHANGED counters

IncReload(ok) ==
    /\ Unlocked
    /\ due' = [due EXCEPT !["reload_total"] = 1, !["reload_errors"] = Bit(~ok)]
    /\ UNCHANGED counters

\* Mutant of WriterOrder: a failed call is counted as an error first.
WriterOrderErrorsFirst ==
    <<"predict_errors", "predict_total", LatencySum, LatencyCount, "predict_schema_errors",
      "batch_predict_errors", "batch_predict_total", "batch_predict_schema_errors",
      "reload_errors", "reload_total">>

\* The order of the lines in inc_predict, inc_batch and inc_reload.
WriterOrder ==
    <<"predict_total", LatencySum, LatencyCount, "predict_errors", "predict_schema_errors",
      "batch_predict_total", "batch_predict_errors", "batch_predict_schema_errors",
      "reload_total", "reload_errors">>

\* The writer's next += .
Add ==
    \E n \in DOMAIN WriterOrder :
        LET c == WriterOrder[n] IN
        /\ due[c] > 0
        /\ \A m \in 1..(n - 1) : due[WriterOrder[m]] = 0
        /\ counters' = [counters EXCEPT ![c] = @ + due[c]]
        /\ due' = [due EXCEPT ![c] = 0]

-----------------------------------------------------------------------------
(* The pages.                                                              *)

\* The order in which render() reads the counters.
RenderOrder ==
    <<"predict_total", "predict_errors", "predict_schema_errors",
      "batch_predict_total", "batch_predict_errors", "batch_predict_schema_errors",
      "reload_total", "reload_errors", LatencySum, LatencyCount>>

\* The order in which admin_status() does, after the average latency.
StatusOrder ==
    <<"predict_total", "predict_errors", "predict_schema_errors", LatencyCount,
      "batch_predict_total", "batch_predict_errors", "reload_total", "reload_errors">>

Order == IF page = "metrics" THEN RenderOrder ELSE StatusOrder

Open(p, from) ==
    /\ at = "idle"
    /\ page' = p /\ at' = from /\ next' = 1
    /\ told' = <<>>
    /\ average' = [c \in {LatencySum, LatencyCount} |-> 0]
    /\ began' = counters /\ owed' = 0
    /\ UNCHANGED <<counters, due>>

OpenMetrics == Open("metrics", "list")
OpenStatus == Open("status", "guard")

\* The average is made only if something has been observed.
ReadGuard ==
    /\ at = "guard"
    /\ at' = IF counters[LatencyCount] > 0 THEN "first" ELSE "list"
    /\ UNCHANGED <<counters, due, page, next, told, average, began, owed>>

\* Mutant of Operand: the count is read before the sum.
OperandSwapped == IF at = "first" THEN LatencyCount ELSE LatencySum

\* sum / count: the left operand is read first.
Operand == IF at = "first" THEN LatencySum ELSE LatencyCount

ReadOperand ==
    /\ at \in {"first", "second"}
    /\ average' = [average EXCEPT ![Operand] = counters[Operand]]
    /\ owed' = IF Operand = LatencySum THEN due[LatencyCount] ELSE owed
    /\ at' = IF at = "first" THEN "second" ELSE "list"
    /\ UNCHANGED <<counters, due, page, next, told, began>>

ReadNext ==
    /\ at = "list"
    /\ LET c == Order[next] IN
       told' = [n \in DOMAIN told \cup {c} |-> IF n = c THEN counters[c] ELSE told[n]]
    /\ next' = next + 1
    /\ at' = IF next = Len(Order) THEN "idle" ELSE "list"
    /\ UNCHANGED <<counters, due, page, average, began, owed>>

Scrape == OpenMetrics \/ OpenStatus \/ ReadGuard \/ ReadOperand \/ ReadNext

-----------------------------------------------------------------------------
\* Every variable of the metrics holds a value of its kind.
MetricsTypeOK ==
    /\ counters \in [Counters -> Nat] /\ began \in [Counters -> Nat]
    /\ due \in [Counters -> Nat] /\ owed \in {0, 1}
    /\ page \in {"metrics", "status"}
    /\ at \in {"idle", "guard", "first", "second", "list"}
    /\ next \in 1..(Len(Order) + 1)
    /\ at # "idle" => next <= Len(Order)
    /\ DOMAIN told \subseteq Counters /\ \A c \in DOMAIN told : told[c] \in Nat
    /\ average \in [{LatencySum, LatencyCount} -> Nat]

\* A page is not made of one moment, nor of whole writes: it may tell more
\* errors than calls, but by no more than the calls that were counted while it
\* was being made.  So a page that no write overlapped never does: a call is in
\* its total before it is in its errors (metrics.py, the three inc_ methods and
\* render; app.py, admin_status).
PagesTornByOverlapOnly ==
    \A call \in Calls : {Total[call], Errors[call]} \subseteq DOMAIN told =>
        told[Errors[call]] + began[Total[call]]
            <= told[Total[call]] + counters[Total[call]]

\* The average latency never divides by zero, and what it tells above the longest
\* latency observed is one observation at most: the one that was in the sum, and
\* due to the count, when the sum was read.  A page that reads its sum between
\* two writes tells no average above the longest latency, although requests are
\* counted before it reads the count (metrics.py, inc_predict; app.py,
\* admin_status).
AverageNearlyWithinLatencies ==
    /\ at \in {"first", "second"} => counters[LatencyCount] > 0
    /\ at \in {"list", "idle"} =>
           average[LatencySum] <= MaxLatency * (average[LatencyCount] + owed)
=============================================================================
