-------------------------- MODULE PredictionsProofs --------------------------
(***************************************************************************)
(* Proofs about Predictions: for any workers, versions, contracts, columns,*)
(* batch sizes, latencies and numbers of calls.                            *)
(***************************************************************************)
EXTENDS Predictions, TLAPS

-----------------------------------------------------------------------------
(* The check of a row.                                                     *)

\* A row that is accepted against a contract with columns fits it, and has no
\* other columns when the check is strict (validation.py, validate_features).
LEMMA AcceptedRowFits ==
    ASSUME NEW row, NEW contract, NEW str \in BOOLEAN,
           Verdict(row, contract, str) = "accepted", contract.columns # {}
    PROVE  /\ Fits(row, contract)
           /\ str => DOMAIN row = contract.columns
<1>1. /\ Missing(row, contract) = {}
      /\ Unexpected(row, contract, str) = {}
      /\ NullRequired(row, contract) = {}
  BY DEF Verdict
<1>2. Fits(row, contract)
  BY <1>1 DEF Fits, Missing, NullRequired, Checked
<1>3. ASSUME str PROVE DOMAIN row = contract.columns
  BY <1>1, <1>3 DEF Missing, Unexpected
<1> QED BY <1>2, <1>3

\* A row is accepted exactly when the contract is empty, or the row fits it, has
\* no other columns when the check is strict, and no checked value is an integer
\* that no float can hold: nothing that fits is turned away for another reason
\* (validation.py, validate_features and _is_null).
THEOREM VerdictIsExact ==
    ASSUME NEW row \in Rows, NEW contract \in Contracts, NEW str \in BOOLEAN
    PROVE  Verdict(row, contract, str) = "accepted" <=>
             \/ contract.columns = {}
             \/ /\ Fits(row, contract) /\ ~Overflows(row, contract)
                /\ str => DOMAIN row = contract.columns
<1>1. ASSUME contract.columns # {}, Verdict(row, contract, str) = "accepted"
      PROVE  ~Overflows(row, contract)
  BY <1>1 DEF Verdict
<1>2. ASSUME Fits(row, contract), ~Overflows(row, contract), str => DOMAIN row = contract.columns
      PROVE  Verdict(row, contract, str) = "accepted"
  <2>1. Missing(row, contract) = {} /\ NullRequired(row, contract) = {}
    BY <1>2 DEF Fits, Missing, NullRequired, Checked
  <2>2. Unexpected(row, contract, str) = {}
    BY <1>2 DEF Unexpected
  <2> QED BY <1>2, <2>1, <2>2 DEF Verdict
<1>3. contract.columns = {} => Verdict(row, contract, str) = "accepted"
  BY DEF Verdict
<1> QED BY <1>1, <1>2, <1>3, AcceptedRowFits

-----------------------------------------------------------------------------
(* The counters.                                                           *)

LEMMA TimesMonotone ==
    ASSUME NEW k \in Nat, NEW m \in Nat, NEW n \in Nat, m <= n
    PROVE  k * m <= k * n
<1>1. PICK d \in Nat : n = m + d
  BY SMT
<1>2. k * n = k * m + k * d
  BY <1>1, SMT
<1>3. k * d \in Nat /\ k * m \in Nat
  BY SMT
<1> QED BY <1>2, <1>3, SMT


\* What a moment's counters, and what is due to them, satisfy: errors are calls,
\* before a write, half-way and after it; no observation was longer than
\* MaxLatency, and at most one is due to the count.
Sane(c, d) ==
    /\ c \in [Counters -> Nat] /\ d \in [Counters -> Nat]
    /\ \A k \in Calls : /\ c[Errors[k]] <= c[Total[k]]
                        /\ c[Errors[k]] + d[Errors[k]] <= c[Total[k]] + d[Total[k]]
    /\ d[LatencyCount] \in {0, 1}
    /\ c[LatencySum] + d[LatencySum] <= MaxLatency * (c[LatencyCount] + d[LatencyCount])

Grow ==
    /\ Sane(counters', due')
    /\ \A c \in Counters : counters[c] <= counters'[c]

LEMMA BitType == \A b \in BOOLEAN : Bit(b) \in {0, 1}
BY DEF Bit

\* A writer that takes the lock finds nothing due.
LEMMA LockIsFree ==
    ASSUME Sane(counters, due), Unlocked
    PROVE  /\ \A c \in Counters : due[c] = 0 /\ counters[c] \in Nat
           /\ \A k \in Calls : counters[Errors[k]] <= counters[Total[k]]
           /\ counters[LatencySum] <= MaxLatency * counters[LatencyCount]
<1>1. \A c \in Counters : due[c] = 0 /\ counters[c] \in Nat
  BY DEF Sane, Unlocked
<1>2. LatencySum \in Counters /\ LatencyCount \in Counters
  BY DEF Counters, LatencySum, LatencyCount
<1>3. counters[LatencySum] + 0 <= MaxLatency * (counters[LatencyCount] + 0)
  BY <1>1, <1>2 DEF Sane
<1> QED BY <1>1, <1>2, <1>3 DEF Sane

LEMMA IncPredictGrows ==
    ASSUME Sane(counters, due), NEW latency \in 0..MaxLatency, NEW ok \in BOOLEAN,
           NEW schema_error \in BOOLEAN, IncPredict(latency, ok, schema_error)
    PROVE  Grow
<1> USE MetricsAssumption
<1>0. Bit(~ok) \in {0, 1} /\ Bit(schema_error) \in {0, 1}
  BY DEF Bit
<1>1. /\ Bit(~ok) \in {0, 1} /\ Bit(schema_error) \in {0, 1}
      /\ latency \in Nat /\ latency <= MaxLatency /\ counters' = counters
  BY <1>0 DEF IncPredict
<1>2. /\ due' \in [Counters -> Nat]
      /\ due'["predict_total"] = 1 /\ due'["predict_errors"] = Bit(~ok)
      /\ due'[LatencySum] = latency /\ due'[LatencyCount] = 1
      /\ \A c \in {"batch_predict_total", "batch_predict_errors", "reload_total",
                   "reload_errors"} : due'[c] = due[c]
  BY <1>1 DEF Sane, IncPredict, Counters, LatencySum, LatencyCount
<1>3. /\ \A c \in Counters : due[c] = 0 /\ counters[c] \in Nat
      /\ \A k \in Calls : counters[Errors[k]] <= counters[Total[k]]
      /\ counters[LatencySum] <= MaxLatency * counters[LatencyCount]
  BY LockIsFree DEF IncPredict
<1>4. \A k \in Calls : counters[Errors[k]] + due'[Errors[k]] <= counters[Total[k]] + due'[Total[k]]
  BY <1>1, <1>2, <1>3 DEF Calls, Errors, Total, Counters
<1>5. counters[LatencySum] + due'[LatencySum]
        <= MaxLatency * (counters[LatencyCount] + due'[LatencyCount])
  <2>1. counters[LatencySum] \in Nat /\ counters[LatencyCount] \in Nat
    BY <1>3 DEF Counters, LatencySum, LatencyCount
  <2>2. MaxLatency * (counters[LatencyCount] + 1) = MaxLatency * counters[LatencyCount] + MaxLatency
    BY <2>1
  <2>3. MaxLatency * counters[LatencyCount] \in Nat
    BY <2>1
  <2> QED BY <1>1, <1>2, <1>3, <2>1, <2>2, <2>3
<1>6. Sane(counters', due')
  BY <1>1, <1>2, <1>3, <1>4, <1>5 DEF Sane
<1> QED BY <1>1, <1>3, <1>6 DEF Grow

LEMMA IncBatchGrows ==
    ASSUME Sane(counters, due), NEW ok \in BOOLEAN, NEW schema_error \in BOOLEAN,
           IncBatch(ok, schema_error)
    PROVE  Grow
<1>1. Bit(~ok) \in {0, 1} /\ Bit(schema_error) \in {0, 1} /\ counters' = counters
  BY BitType DEF IncBatch
<1>2. /\ due' \in [Counters -> Nat]
      /\ due'["batch_predict_total"] = 1 /\ due'["batch_predict_errors"] = Bit(~ok)
      /\ \A c \in {"predict_total", "predict_errors", "reload_total", "reload_errors",
                   LatencySum, LatencyCount} : due'[c] = due[c]
  BY <1>1 DEF Sane, IncBatch, Counters, LatencySum, LatencyCount
<1>3. /\ \A c \in Counters : due[c] = 0 /\ counters[c] \in Nat
      /\ \A k \in Calls : counters[Errors[k]] <= counters[Total[k]]
  BY LockIsFree DEF IncBatch
<1>4. \A k \in Calls : counters[Errors[k]] + due'[Errors[k]] <= counters[Total[k]] + due'[Total[k]]
  BY <1>1, <1>2, <1>3 DEF Calls, Errors, Total, Counters
<1>5. Sane(counters', due')
  BY <1>1, <1>2, <1>3, <1>4 DEF Sane
<1> QED BY <1>1, <1>3, <1>5 DEF Grow

LEMMA IncReloadGrows ==
    ASSUME Sane(counters, due), NEW ok \in BOOLEAN, IncReload(ok)
    PROVE  Grow
<1>1. Bit(~ok) \in {0, 1} /\ counters' = counters
  BY BitType DEF IncReload
<1>2. /\ due' \in [Counters -> Nat]
      /\ due'["reload_total"] = 1 /\ due'["reload_errors"] = Bit(~ok)
      /\ \A c \in {"predict_total", "predict_errors", "batch_predict_total",
                   "batch_predict_errors", LatencySum, LatencyCount} : due'[c] = due[c]
  BY <1>1 DEF Sane, IncReload, Counters, LatencySum, LatencyCount
<1>3. /\ \A c \in Counters : due[c] = 0 /\ counters[c] \in Nat
      /\ \A k \in Calls : counters[Errors[k]] <= counters[Total[k]]
  BY LockIsFree DEF IncReload
<1>4. \A k \in Calls : counters[Errors[k]] + due'[Errors[k]] <= counters[Total[k]] + due'[Total[k]]
  BY <1>1, <1>2, <1>3 DEF Calls, Errors, Total, Counters
<1>5. Sane(counters', due')
  BY <1>1, <1>2, <1>3, <1>4 DEF Sane
<1> QED BY <1>1, <1>3, <1>5 DEF Grow

\* The errors of a call are added when nothing is due to its total any more.
LEMMA TotalsFirst ==
    /\ DOMAIN WriterOrder = 1..10
    /\ \A n \in 1..10 : WriterOrder[n] \in Counters
    /\ \A n \in 1..10 : \A k \in Calls :
           WriterOrder[n] = Errors[k] => \E m \in 1..(n - 1) : WriterOrder[m] = Total[k]
<1> DEFINE W == WriterOrder
<1>1. /\ Len(W) = 10 /\ DOMAIN W = 1..10
      /\ W[1] = "predict_total" /\ W[2] = LatencySum /\ W[3] = LatencyCount
      /\ W[4] = "predict_errors" /\ W[5] = "predict_schema_errors"
      /\ W[6] = "batch_predict_total" /\ W[7] = "batch_predict_errors"
      /\ W[8] = "batch_predict_schema_errors"
      /\ W[9] = "reload_total" /\ W[10] = "reload_errors"
  BY DEF WriterOrder
<1> HIDE DEF W
<1>2. \A n \in 1..10 : n \in {1, 2, 3, 4, 5, 6, 7, 8, 9, 10}
  OBVIOUS
<1>3. \A n \in 1..10 : W[n] \in Counters
  BY <1>1, <1>2 DEF Counters
<1>4. ASSUME NEW n \in 1..10, NEW k \in Calls, W[n] = Errors[k]
      PROVE  \E m \in 1..(n - 1) : W[m] = Total[k]
  <2>1. CASE k = "predict"
    <3>1. n = 4
      BY <1>1, <1>2, <1>4, <2>1 DEF Errors, LatencySum, LatencyCount
    <3> QED BY <1>1, <2>1, <3>1 DEF Total
  <2>2. CASE k = "batch_predict"
    <3>1. n = 7
      BY <1>1, <1>2, <1>4, <2>2 DEF Errors, LatencySum, LatencyCount
    <3> QED BY <1>1, <2>2, <3>1 DEF Total
  <2>3. CASE k = "reload"
    <3>1. n = 10
      BY <1>1, <1>2, <1>4, <2>3 DEF Errors, LatencySum, LatencyCount
    <3> QED BY <1>1, <2>3, <3>1 DEF Total
  <2> QED BY <2>1, <2>2, <2>3 DEF Calls
<1> QED BY <1>1, <1>3, <1>4 DEF W

\* An addition moves what is due into a counter, and leaves the sum of both.
LEMMA AddMoves ==
    ASSUME Sane(counters, due), Add
    PROVE  \E c \in Counters :
             /\ counters' = [counters EXCEPT ![c] = counters[c] + due[c]]
             /\ due' = [due EXCEPT ![c] = 0]
             /\ \A k \in Calls : c = Errors[k] => due[Total[k]] = 0
<1>1. PICK n \in DOMAIN WriterOrder :
        /\ \A m \in 1..(n - 1) : due[WriterOrder[m]] = 0
        /\ counters' = [counters EXCEPT ![WriterOrder[n]] = @ + due[WriterOrder[n]]]
        /\ due' = [due EXCEPT ![WriterOrder[n]] = 0]
  BY DEF Add
<1>2. WriterOrder[n] \in Counters
  BY TotalsFirst
<1>3. \A k \in Calls : WriterOrder[n] = Errors[k] => due[Total[k]] = 0
  BY <1>1, TotalsFirst
<1> QED BY <1>1, <1>2, <1>3

LEMMA AddGrows ==
    ASSUME Sane(counters, due), Add
    PROVE  /\ Grow
           /\ \A c \in Counters : counters'[c] + due'[c] = counters[c] + due[c]
<1>1. PICK a \in Counters :
        /\ counters' = [counters EXCEPT ![a] = counters[a] + due[a]]
        /\ due' = [due EXCEPT ![a] = 0]
        /\ \A k \in Calls : a = Errors[k] => due[Total[k]] = 0
  BY AddMoves
<1>2. counters \in [Counters -> Nat] /\ due \in [Counters -> Nat]
  BY DEF Sane
<1>3. counters' \in [Counters -> Nat] /\ due' \in [Counters -> Nat]
  BY <1>1, <1>2
<1>4. \A c \in Counters : /\ counters[c] \in Nat /\ due[c] \in Nat
                          /\ counters'[c] = IF c = a THEN counters[c] + due[c] ELSE counters[c]
                          /\ due'[c] = IF c = a THEN 0 ELSE due[c]
  BY <1>1, <1>2
<1>5. \A c \in Counters : /\ counters'[c] + due'[c] = counters[c] + due[c]
                          /\ counters[c] <= counters'[c]
  BY <1>4
<1>6. LatencySum \in Counters /\ LatencyCount \in Counters
  BY DEF Counters, LatencySum, LatencyCount
<1>7. \A k \in Calls : Errors[k] \in Counters /\ Total[k] \in Counters /\ Errors[k] # Total[k]
  BY DEF Calls, Errors, Total, Counters
<1>8. ASSUME NEW k \in Calls
      PROVE  /\ counters'[Errors[k]] <= counters'[Total[k]]
             /\ counters'[Errors[k]] + due'[Errors[k]] <= counters'[Total[k]] + due'[Total[k]]
  <2>1. counters[Errors[k]] + due[Errors[k]] <= counters[Total[k]] + due[Total[k]]
    BY DEF Sane
  <2>2. counters[Errors[k]] <= counters[Total[k]]
    BY DEF Sane
  <2>3. CASE a = Errors[k]
    <3>1. due[Total[k]] = 0
      BY <1>1, <2>3
    <3> QED BY <1>4, <1>7, <2>1, <2>3, <3>1
  <2>4. CASE a # Errors[k]
    BY <1>4, <1>7, <2>1, <2>2, <2>4
  <2> QED BY <2>3, <2>4
<1>9. due'[LatencyCount] \in {0, 1}
  BY <1>4, <1>6 DEF Sane
<1>10. counters'[LatencySum] + due'[LatencySum]
         <= MaxLatency * (counters'[LatencyCount] + due'[LatencyCount])
  BY <1>5, <1>6 DEF Sane
<1>11. Sane(counters', due')
  BY <1>3, <1>8, <1>9, <1>10 DEF Sane
<1> QED BY <1>5, <1>11 DEF Grow

-----------------------------------------------------------------------------
(* The pages.                                                              *)

\* The inductive invariant of the metrics: what has been told of a counter lies
\* between its value when the page was begun and now; and of the average, the
\* sum is bounded by the count that is, or will be, told with it, and what was
\* due to the count by then.
PageInv ==
    /\ Sane(counters, due) /\ began \in [Counters -> Nat]
    /\ owed \in {0, 1}
    /\ \A c \in Counters : began[c] <= counters[c]
    /\ page \in {"metrics", "status"}
    /\ at \in {"idle", "guard", "first", "second", "list"}
    /\ next \in 1..(Len(Order) + 1)
    /\ at # "idle" => next <= Len(Order)
    /\ at \in {"guard", "first", "second"} => page = "status" /\ next = 1
    /\ DOMAIN told \subseteq Counters
    /\ \A c \in DOMAIN told : told[c] \in Nat /\ began[c] <= told[c] /\ told[c] <= counters[c]
    /\ average \in [{LatencySum, LatencyCount} -> Nat]
    /\ at \in {"first", "second"} => counters[LatencyCount] > 0
    /\ at = "second" => average[LatencySum] <= MaxLatency * (counters[LatencyCount] + owed)
    /\ at \in {"guard", "list", "idle"} =>
           average[LatencySum] <= MaxLatency * (average[LatencyCount] + owed)

LEMMA Orders ==
    /\ Len(RenderOrder) = 10 /\ \A k \in 1..10 : RenderOrder[k] \in Counters
    /\ Len(StatusOrder) = 8 /\ \A k \in 1..8 : StatusOrder[k] \in Counters
BY DEF RenderOrder, StatusOrder, Counters, LatencySum, LatencyCount

LEMMA NextOrder == Order' = IF page' = "metrics" THEN RenderOrder ELSE StatusOrder
BY DEF Order, RenderOrder, StatusOrder, LatencySum, LatencyCount

LEMMA GrowKeepsPages ==
    ASSUME PageInv, Grow, UNCHANGED pageVars
    PROVE  PageInv'
<1> USE MetricsAssumption
<1>1. \A c \in Counters : counters[c] \in Nat /\ counters'[c] \in Nat /\ counters[c] <= counters'[c]
  BY DEF Grow, Sane, PageInv
<1>2. \A c \in Counters : began[c] \in Nat
  BY DEF PageInv
<1>3. LatencyCount \in Counters /\ LatencySum \in Counters
  BY DEF Counters, LatencyCount, LatencySum
<1>4. /\ Sane(counters', due') /\ began' \in [Counters -> Nat] /\ owed' = owed /\ owed \in {0, 1}
      /\ \A c \in Counters : began'[c] <= counters'[c]
  <2>1. began' = began /\ owed' = owed
    BY DEF pageVars
  <2>2. \A c \in Counters : began[c] <= counters[c]
    BY DEF PageInv
  <2> QED BY <1>1, <1>2, <2>1, <2>2 DEF PageInv, Grow
<1>5. /\ page' \in {"metrics", "status"}
      /\ at' \in {"idle", "guard", "first", "second", "list"}
      /\ next' \in 1..(Len(Order') + 1)
      /\ at' # "idle" => next' <= Len(Order')
      /\ at' \in {"guard", "first", "second"} => page' = "status" /\ next' = 1
  BY DEF PageInv, pageVars, Order
<1>6. /\ DOMAIN told' \subseteq Counters
      /\ \A c \in DOMAIN told' : told'[c] \in Nat /\ began'[c] <= told'[c] /\ told'[c] <= counters'[c]
  <2> SUFFICES ASSUME NEW c \in DOMAIN told
               PROVE  told[c] \in Nat /\ began[c] <= told[c] /\ told[c] <= counters'[c]
    BY DEF PageInv, pageVars
  <2>1. c \in Counters /\ told[c] \in Nat /\ began[c] <= told[c] /\ told[c] <= counters[c]
    BY DEF PageInv
  <2> QED BY <2>1, <1>1
<1>7. average' \in [{LatencySum, LatencyCount} -> Nat]
  BY DEF PageInv, pageVars
<1>8. at' \in {"first", "second"} => counters'[LatencyCount] > 0
  BY <1>1, <1>3 DEF PageInv, pageVars
<1>9. at' = "second" => average'[LatencySum] <= MaxLatency * (counters'[LatencyCount] + owed')
  <2> SUFFICES ASSUME at = "second"
               PROVE  average[LatencySum] <= MaxLatency * (counters'[LatencyCount] + owed)
    BY DEF pageVars
  <2> DEFINE before == counters[LatencyCount] + owed
             after == counters'[LatencyCount] + owed
  <2>1. average[LatencySum] <= MaxLatency * before /\ average[LatencySum] \in Nat
    BY DEF PageInv
  <2>2. before \in Nat /\ after \in Nat /\ before <= after
    BY <1>1, <1>3, <1>4
  <2> HIDE DEF before, after
  <2>3. MaxLatency * before <= MaxLatency * after
    BY <2>2, TimesMonotone
  <2>4. MaxLatency * before \in Nat /\ MaxLatency * after \in Nat
    BY <2>2
  <2>5. average[LatencySum] <= MaxLatency * after
    BY <2>1, <2>3, <2>4
  <2> QED BY <2>5 DEF after
<1>10. at' \in {"guard", "list", "idle"} =>
         average'[LatencySum] <= MaxLatency * (average'[LatencyCount] + owed')
  BY DEF PageInv, pageVars
<1> QED BY <1>4, <1>5, <1>6, <1>7, <1>8, <1>9, <1>10 DEF PageInv

LEMMA OpenKeepsPages ==
    ASSUME PageInv, OpenMetrics \/ OpenStatus
    PROVE  PageInv'
<1>1. /\ page' \in {"metrics", "status"} /\ at' \in {"list", "guard"} /\ next' = 1
      /\ at' = "guard" => page' = "status"
      /\ told' = <<>> /\ began' = counters /\ counters' = counters /\ due' = due /\ owed' = 0
      /\ average' = [c \in {LatencySum, LatencyCount} |-> 0]
  BY DEF OpenMetrics, OpenStatus, Open
<1>2. next' \in 1..(Len(Order') + 1) /\ next' <= Len(Order')
  <2>1. Order' = RenderOrder \/ Order' = StatusOrder
    BY NextOrder
  <2>2. Len(Order') = 8 \/ Len(Order') = 10
    BY <2>1, Orders
  <2>3. next' = 1
    BY <1>1
  <2>4. CASE Len(Order') = 8
    BY <2>3, <2>4
  <2>5. CASE Len(Order') = 10
    BY <2>3, <2>5
  <2> QED BY <2>2, <2>4, <2>5
<1>3. /\ Sane(counters', due') /\ began' \in [Counters -> Nat]
      /\ \A c \in Counters : began'[c] <= counters'[c]
  <2>1. Sane(counters, due) /\ counters \in [Counters -> Nat]
    BY DEF PageInv, Sane
  <2> QED BY <1>1, <2>1
<1>4. DOMAIN told' = {}
  BY <1>1
<1>5. /\ average' \in [{LatencySum, LatencyCount} -> Nat]
      /\ average'[LatencySum] <= MaxLatency * (average'[LatencyCount] + owed')
  <2>1. average'[LatencySum] = 0 /\ average'[LatencyCount] = 0
    BY <1>1 DEF LatencySum, LatencyCount
  <2>2. MaxLatency * 0 = 0
    BY MetricsAssumption, SMT
  <2> QED BY <1>1, <2>1, <2>2
<1> QED BY <1>1, <1>2, <1>3, <1>4, <1>5 DEF PageInv

\* The guard, the sum and the count are read in this order.
LEMMA AverageKeepsPages ==
    ASSUME PageInv, ReadGuard \/ ReadOperand
    PROVE  PageInv'
<1>1. /\ counters' = counters /\ due' = due /\ began' = began
      /\ page' = page /\ next' = next /\ told' = told
  BY DEF ReadGuard, ReadOperand
<1>2. page = "status" /\ next = 1
  BY DEF PageInv, ReadGuard, ReadOperand
<1>3. /\ Sane(counters', due') /\ began' \in [Counters -> Nat]
      /\ \A c \in Counters : began'[c] <= counters'[c]
      /\ page' \in {"metrics", "status"}
      /\ DOMAIN told' \subseteq Counters
      /\ \A c \in DOMAIN told' : told'[c] \in Nat /\ began'[c] <= told'[c] /\ told'[c] <= counters'[c]
  BY <1>1 DEF PageInv
<1>4. next' = 1 /\ page' = "status" /\ next' \in 1..(Len(Order') + 1) /\ next' <= Len(Order')
  <2>1. Order' = StatusOrder
    BY <1>1, <1>2, NextOrder
  <2>2. Len(Order') = 8
    BY <2>1, Orders
  <2> QED BY <1>1, <1>2, <2>2
<1>5. counters[LatencySum] \in Nat /\ counters[LatencyCount] \in Nat
  BY DEF PageInv, Sane, Counters, LatencySum, LatencyCount
<1>6. CASE ReadGuard
  <2>1. average' = average /\ owed' = owed /\ at' \in {"first", "list"} /\ at = "guard"
    BY <1>6 DEF ReadGuard
  <2>2. at' = "first" => counters'[LatencyCount] > 0
    BY <1>6, <1>1, <1>5 DEF ReadGuard
  <2>3. average[LatencySum] <= MaxLatency * (average[LatencyCount] + owed)
    BY <2>1 DEF PageInv
  <2> QED BY <1>1, <1>3, <1>4, <2>1, <2>2, <2>3 DEF PageInv
<1>7. CASE ReadOperand /\ at = "first"
  <2>1. /\ at' = "second" /\ owed' = due[LatencyCount]
        /\ average' = [average EXCEPT ![LatencySum] = counters[LatencySum]]
    BY <1>7 DEF ReadOperand, Operand
  <2>2. average' \in [{LatencySum, LatencyCount} -> Nat] /\ average'[LatencySum] = counters[LatencySum]
    BY <2>1, <1>5 DEF PageInv
  <2>3. owed' \in {0, 1} /\ counters'[LatencyCount] > 0
    BY <1>1, <1>7, <2>1 DEF PageInv, Sane
  <2>4. average'[LatencySum] <= MaxLatency * (counters'[LatencyCount] + owed')
    <3> DEFINE most == MaxLatency * (counters[LatencyCount] + due[LatencyCount])
    <3>1. counters[LatencySum] + due[LatencySum] <= most
      BY DEF PageInv, Sane
    <3>2. due[LatencySum] \in Nat /\ due[LatencyCount] \in Nat
      BY DEF PageInv, Sane, Counters, LatencySum, LatencyCount
    <3>3. most \in Nat
      BY <1>5, <3>2, MetricsAssumption
    <3> HIDE DEF most
    <3>4. counters[LatencySum] <= most
      BY <1>5, <3>1, <3>2, <3>3
    <3> QED BY <1>1, <2>1, <2>2, <3>4 DEF most
  <2> QED BY <1>3, <1>4, <2>1, <2>2, <2>3, <2>4 DEF PageInv
<1>8. CASE ReadOperand /\ at # "first"
  <2>1. /\ at = "second" /\ at' = "list" /\ owed' = owed
        /\ average' = [average EXCEPT ![LatencyCount] = counters[LatencyCount]]
    BY <1>8 DEF ReadOperand, Operand, LatencySum, LatencyCount
  <2>2. /\ average' \in [{LatencySum, LatencyCount} -> Nat]
        /\ average'[LatencySum] = average[LatencySum]
        /\ average'[LatencyCount] = counters[LatencyCount]
    BY <2>1, <1>5 DEF PageInv, LatencySum, LatencyCount
  <2>3. average'[LatencySum] <= MaxLatency * (average'[LatencyCount] + owed') /\ owed' \in {0, 1}
    BY <2>1, <2>2 DEF PageInv
  <2> QED BY <1>3, <1>4, <2>1, <2>2, <2>3 DEF PageInv
<1> QED BY <1>6, <1>7, <1>8

LEMMA ReadKeepsPages ==
    ASSUME PageInv, ReadNext
    PROVE  PageInv'
<1>1. /\ counters' = counters /\ due' = due /\ began' = began /\ page' = page
      /\ average' = average /\ owed' = owed
      /\ at = "list" /\ next' = next + 1
      /\ at' = IF next = Len(Order) THEN "idle" ELSE "list"
      /\ told' = [n \in DOMAIN told \cup {Order[next]} |->
                     IF n = Order[next] THEN counters[Order[next]] ELSE told[n]]
  BY DEF ReadNext
<1>2. Order' = Order /\ Len(Order) \in Nat /\ next \in 1..Len(Order) /\ Order[next] \in Counters
  <2>1. Order = RenderOrder \/ Order = StatusOrder
    BY DEF Order
  <2>2. Order' = Order
    BY <1>1, NextOrder DEF Order
  <2>3. Len(Order) \in {8, 10} /\ \A k \in 1..Len(Order) : Order[k] \in Counters
    BY <2>1, Orders
  <2>4. next \in 1..Len(Order)
    BY <1>1, <2>3 DEF PageInv
  <2> QED BY <2>2, <2>3, <2>4
<1>3. next' \in 1..(Len(Order') + 1) /\ (at' # "idle" => next' <= Len(Order'))
  BY <1>1, <1>2
<1>4. /\ DOMAIN told' \subseteq Counters
      /\ \A c \in DOMAIN told' : told'[c] \in Nat /\ began'[c] <= told'[c] /\ told'[c] <= counters'[c]
  <2>1. DOMAIN told' = DOMAIN told \cup {Order[next]}
    BY <1>1
  <2>2. \A c \in DOMAIN told : c \in Counters
    BY DEF PageInv
  <2> SUFFICES ASSUME NEW c \in DOMAIN told'
               PROVE  told'[c] \in Nat /\ began[c] <= told'[c] /\ told'[c] <= counters[c]
    BY <1>1, <1>2, <2>1, <2>2
  <2>3. c \in Counters
    BY <1>2, <2>1, <2>2
  <2>4. counters[c] \in Nat /\ began[c] \in Nat /\ began[c] <= counters[c]
    BY <2>3 DEF PageInv, Sane
  <2>5. CASE c = Order[next]
    BY <1>1, <2>1, <2>4, <2>5
  <2>6. CASE c # Order[next]
    <3>1. c \in DOMAIN told /\ told'[c] = told[c]
      BY <1>1, <2>1, <2>6
    <3> QED BY <3>1 DEF PageInv
  <2> QED BY <2>5, <2>6
<1>5. /\ Sane(counters', due') /\ began' \in [Counters -> Nat] /\ owed' \in {0, 1}
      /\ \A c \in Counters : began'[c] <= counters'[c]
  BY <1>1 DEF PageInv
<1>6. /\ average' \in [{LatencySum, LatencyCount} -> Nat]
      /\ average'[LatencySum] <= MaxLatency * (average'[LatencyCount] + owed')
      /\ page' \in {"metrics", "status"} /\ at' \in {"list", "idle"}
  BY <1>1 DEF PageInv
<1> QED BY <1>3, <1>4, <1>5, <1>6 DEF PageInv

LEMMA ScrapeKeepsPages ==
    ASSUME PageInv, Scrape
    PROVE  PageInv'
BY OpenKeepsPages, AverageKeepsPages, ReadKeepsPages DEF Scrape

\* What the pages promise follows.
LEMMA PageInvSuffices ==
    ASSUME PageInv
    PROVE  MetricsTypeOK /\ PagesTornByOverlapOnly /\ AverageNearlyWithinLatencies
<1>1. MetricsTypeOK
  BY DEF PageInv, MetricsTypeOK, Sane
<1>2. PagesTornByOverlapOnly
  <2> SUFFICES ASSUME NEW c \in Calls, {Total[c], Errors[c]} \subseteq DOMAIN told
               PROVE  told[Errors[c]] + began[Total[c]] <= told[Total[c]] + counters[Total[c]]
    BY DEF PagesTornByOverlapOnly
  <2>1. Total[c] \in Counters /\ Errors[c] \in Counters
    BY DEF PageInv
  <2>2. /\ told[Errors[c]] \in Nat /\ told[Total[c]] \in Nat
        /\ told[Errors[c]] <= counters[Errors[c]] /\ began[Total[c]] <= told[Total[c]]
    BY DEF PageInv
  <2>3. counters[Errors[c]] <= counters[Total[c]]
    BY DEF PageInv, Sane
  <2>4. counters[Errors[c]] \in Nat /\ counters[Total[c]] \in Nat /\ began[Total[c]] \in Nat
    BY <2>1 DEF PageInv, Sane
  <2> QED BY <2>2, <2>3, <2>4
<1>3. AverageNearlyWithinLatencies
  BY DEF PageInv, AverageNearlyWithinLatencies
<1> QED BY <1>1, <1>2, <1>3
-----------------------------------------------------------------------------
(* A request and its counting.                                             *)

LEMMA CountGrows ==
    ASSUME Sane(counters, due), NEW c \in Requests, NEW latencies \in SUBSET (0..MaxLatency),
           NEW ok \in BOOLEAN, NEW schema_error \in BOOLEAN,
           Count(c, latencies, ok, schema_error)
    PROVE  Grow
<1>1. CASE c = "predict"
  <2>1. PICK latency \in latencies : IncPredict(latency, ok, schema_error)
    BY <1>1 DEF Count
  <2> QED BY <2>1, IncPredictGrows
<1>2. CASE c # "predict"
  BY <1>2, IncBatchGrows DEF Count
<1> QED BY <1>1, <1>2

\* What the counters will be when the write that is going on has ended.
Booked(c) == counters[c] + due[c]

\* AnswersAreCounted, of what is booked: it holds during a write too.
AnswersAreBooked ==
    \A c \in Requests :
        LET n == answers[c] IN
        /\ Booked(Total[c]) = n["prediction"] + n["error"] + n["columns"]
        /\ Booked(Errors[c]) = n["error"] + n["columns"]
        /\ c = "predict" =>
              /\ Booked("predict_schema_errors") = n["columns"]
              /\ Booked(LatencyCount) = Booked("predict_total")
        /\ c = "batch_predict" => Booked("batch_predict_schema_errors") = n["columns"]

CountedNames ==
    {"predict_total", "predict_errors", "predict_schema_errors", LatencyCount,
     "batch_predict_total", "batch_predict_errors", "batch_predict_schema_errors"}

LEMMA CountedNamesAreCounters ==
    CountedNames \subseteq Counters
BY DEF CountedNames, Counters, LatencyCount, LatencySum

LEMMA SameBooksSameAnswers ==
    ASSUME AnswersAreBooked, \A k \in CountedNames : Booked(k)' = Booked(k),
           \A c \in Requests : \A a \in Answers \ {"uncaught"} : answers'[c][a] = answers[c][a]
    PROVE  AnswersAreBooked'
BY DEF AnswersAreBooked, CountedNames, Requests, Answers, Total, Errors

LEMMA BooksTell ==
    ASSUME counters \in [Counters -> Nat], AnswersAreBooked, Unlocked
    PROVE  AnswersAreCounted
<1>1. \A k \in CountedNames : Booked(k) = counters[k]
  <2> SUFFICES ASSUME NEW k \in CountedNames PROVE Booked(k) = counters[k]
    OBVIOUS
  <2>1. k \in Counters
    BY CountedNamesAreCounters
  <2>2. due[k] = 0 /\ counters[k] \in Nat
    BY <2>1 DEF Unlocked
  <2> QED BY <2>2 DEF Booked
<1> QED BY <1>1 DEF AnswersAreBooked, AnswersAreCounted, CountedNames, Requests, Total, Errors

LEMMA CountTells ==
    ASSUME counters \in [Counters -> Nat], due \in [Counters -> Nat],
           answers \in [Requests -> [Answers -> Nat]],
           NEW c \in Requests, NEW latencies, NEW answer \in Answers \ {"uncaught"},
           Count(c, latencies, answer = "prediction", answer = "columns"), Note(c, answer),
           AnswersAreBooked
    PROVE  AnswersAreBooked'
<1> DEFINE ok == answer = "prediction"
           schema_error == answer = "columns"
<1>1. /\ Bit(~ok) = (IF answer = "prediction" THEN 0 ELSE 1)
      /\ Bit(schema_error) = (IF answer = "columns" THEN 1 ELSE 0)
  BY DEF Bit
<1>2. CASE c = "predict"
  <2>1. PICK latency \in latencies : IncPredict(latency, ok, schema_error)
    BY <1>2 DEF Count
  <2>2. counters' = counters /\ \A k \in CountedNames : due[k] = 0 /\ counters[k] \in Nat
    BY <2>1, CountedNamesAreCounters DEF IncPredict, Unlocked
  <2>3. /\ due'["predict_total"] = 1
        /\ due'["predict_errors"] = Bit(~ok)
        /\ due'["predict_schema_errors"] = Bit(schema_error)
        /\ due'[LatencyCount] = 1
        /\ \A k \in {"batch_predict_total", "batch_predict_errors", "batch_predict_schema_errors"} :
             due'[k] = due[k]
    BY <2>1 DEF IncPredict, Counters, LatencyCount, LatencySum
  <2>4. /\ Booked("predict_total")' = Booked("predict_total") + 1
        /\ Booked("predict_errors")' = Booked("predict_errors") + Bit(~ok)
        /\ Booked("predict_schema_errors")' = Booked("predict_schema_errors") + Bit(schema_error)
        /\ Booked(LatencyCount)' = Booked(LatencyCount) + 1
        /\ \A k \in {"batch_predict_total", "batch_predict_errors", "batch_predict_schema_errors"} :
             Booked(k)' = Booked(k)
    BY <1>1, <2>2, <2>3 DEF Booked, CountedNames
  <2>5. /\ answers'["batch_predict"] = answers["batch_predict"]
        /\ answers'["predict"] = [answers["predict"] EXCEPT ![answer] = @ + 1]
    BY <1>2 DEF Note, Requests
  <2>6. \A k \in CountedNames : Booked(k) \in Nat
    BY <2>2 DEF Booked
  <2> HIDE DEF ok, schema_error
  <2> QED
    BY <1>1, <2>4, <2>5, <2>6 DEF AnswersAreBooked, Answers, Requests, Total, Errors, CountedNames
<1>3. CASE c = "batch_predict"
  <2>1. IncBatch(ok, schema_error)
    BY <1>3 DEF Count
  <2>2. counters' = counters /\ \A k \in CountedNames : due[k] = 0 /\ counters[k] \in Nat
    BY <2>1, CountedNamesAreCounters DEF IncBatch, Unlocked
  <2>3. /\ due'["batch_predict_total"] = 1
        /\ due'["batch_predict_errors"] = Bit(~ok)
        /\ due'["batch_predict_schema_errors"] = Bit(schema_error)
        /\ \A k \in {"predict_total", "predict_errors", "predict_schema_errors", LatencyCount} :
             due'[k] = due[k]
    BY <2>1 DEF IncBatch, Counters, LatencyCount, LatencySum
  <2>4. /\ Booked("batch_predict_total")' = Booked("batch_predict_total") + 1
        /\ Booked("batch_predict_errors")' = Booked("batch_predict_errors") + Bit(~ok)
        /\ Booked("batch_predict_schema_errors")' =
             Booked("batch_predict_schema_errors") + Bit(schema_error)
        /\ \A k \in {"predict_total", "predict_errors", "predict_schema_errors", LatencyCount} :
             Booked(k)' = Booked(k)
    BY <1>1, <2>2, <2>3 DEF Booked, CountedNames
  <2>5. /\ answers'["predict"] = answers["predict"]
        /\ answers'["batch_predict"] = [answers["batch_predict"] EXCEPT ![answer] = @ + 1]
    BY <1>3 DEF Note, Requests
  <2>6. \A k \in CountedNames : Booked(k) \in Nat
    BY <2>2 DEF Booked
  <2> HIDE DEF ok, schema_error
  <2> QED
    BY <1>1, <2>4, <2>5, <2>6 DEF AnswersAreBooked, Answers, Requests, Total, Errors, CountedNames
<1> QED BY <1>2, <1>3 DEF Requests

-----------------------------------------------------------------------------
(* The inductive invariant.                                                *)

RowAccepted(w, i) == Verdict(rows[w][i], loaded[w][2], strict) = "accepted"

\* A worker on a request holds a model with the contract of its own manifest,
\* and the rows found valid so far were accepted against it; all of them, when
\* its turn to infer has come.
Holds(w) ==
    /\ loaded[w] \in Versions \X Contracts
    /\ loaded[w][2] = ContractOf[loaded[w][1]]
    /\ \A i \in 1..valid[w] : RowAccepted(w, i)
    /\ valid[w] <= Len(rows[w])
    /\ phase[w] = "validating" => valid[w] < Len(rows[w])
    /\ phase[w] = "inferring" => valid[w] = Len(rows[w])

RequestTypes ==
    /\ served \in (Versions \X Contracts) \cup {None}
    /\ strict \in BOOLEAN
    /\ phase \in [Workers -> {"free", "validating", "inferring", "counting"}]
    /\ call \in [Workers -> Requests]
    /\ rows \in [Workers -> Seq(Rows)]
    /\ valid \in [Workers -> Nat]
    /\ loaded \in [Workers -> (Versions \X Contracts) \cup {None}]
    /\ calls \in 0..MaxCalls

RequestInv ==
    /\ RequestTypes
    /\ served # None => served[2] = ContractOf[served[1]]
    /\ \A w \in Workers : IF phase[w] \in {"free", "counting"} THEN valid[w] = 0 ELSE Holds(w)

CountInv ==
    /\ answers \in [Requests -> [Answers -> Nat]]
    /\ AnswersAreBooked

PredInv == PageInv /\ RequestInv /\ CountInv

LEMMA InitPredInv == Init => PredInv
<1> SUFFICES ASSUME Init PROVE PredInv
  OBVIOUS
<1>1. Sane(counters, due) /\ counters \in [Counters -> Nat]
  <2>1. counters = [c \in Counters |-> 0] /\ due = [c \in Counters |-> 0]
    BY DEF Init, MetricsInit
  <2>2. MaxLatency * 0 = 0 /\ 0 + 0 = 0
    BY MetricsAssumption, SMT
  <2> QED
    BY <2>1, <2>2 DEF Sane, Counters, LatencySum, LatencyCount, Calls, Errors, Total
<1>2. PageInv
  <2>1. /\ began = counters /\ page = "metrics" /\ at = "idle" /\ next = 1 /\ told = <<>>
        /\ average = [c \in {LatencySum, LatencyCount} |-> 0] /\ owed = 0
    BY DEF Init, MetricsInit
  <2>2. average[LatencySum] = 0 /\ average[LatencyCount] = 0 /\ MaxLatency * 0 = 0
    BY <2>1, MetricsAssumption
  <2>3. next \in 1..(Len(Order) + 1)
    BY <2>1, Orders DEF Order
  <2>4. DOMAIN told = {}
    BY <2>1
  <2>5. \A c \in Counters : counters[c] <= counters[c]
    BY <1>1
  <2> QED BY <1>1, <2>1, <2>2, <2>3, <2>4, <2>5 DEF PageInv
<1>3. RequestInv
  BY PredictionsAssumption DEF Init, RequestInv, RequestTypes, Requests
<1>4. CountInv
  <2>1. /\ counters = [c \in Counters |-> 0] /\ due = [c \in Counters |-> 0]
        /\ answers = [c \in Requests |-> [a \in Answers |-> 0]]
    BY DEF Init, MetricsInit
  <2>2. \A k \in CountedNames : Booked(k) = 0
    BY <2>1, CountedNamesAreCounters DEF Booked
  <2>3. AnswersAreBooked
    BY <2>1, <2>2 DEF AnswersAreBooked, CountedNames, Requests, Answers, Total, Errors
  <2> QED BY <2>1, <2>3 DEF CountInv
<1> QED BY <1>2, <1>3, <1>4 DEF PredInv

LEMMA CountersOfInv ==
    PredInv => /\ Sane(counters, due)
               /\ counters \in [Counters -> Nat] /\ due \in [Counters -> Nat]
BY DEF PredInv, PageInv, Sane

\* A step that neither counts nor answers.
LEMMA UncountedKeeps ==
    ASSUME PredInv, UNCHANGED <<metricsVars, answers>>
    PROVE  PageInv' /\ CountInv'
<1>1. PageInv'
  <2>1. Sane(counters', due')
    BY DEF PredInv, PageInv, metricsVars
  <2>2. UNCHANGED <<counters, due, page, at, next, told, average, began, owed>>
    BY DEF metricsVars, pageVars
  <2>3. Order' = Order
    BY <2>2, NextOrder DEF Order
  <2> QED BY <2>1, <2>2, <2>3 DEF PredInv, PageInv
<1>2. CountInv'
  BY DEF PredInv, CountInv, AnswersAreBooked, Booked, metricsVars
<1> QED BY <1>1, <1>2

LEMMA SwapKeeps == ASSUME PredInv, Swap PROVE PredInv'
<1>1. PageInv' /\ CountInv'
  BY UncountedKeeps DEF Swap
<1>3. PICK v \in Versions : served' = <<v, ContractOf[v]>>
  BY DEF Swap
<1>4. served' \in Versions \X Contracts /\ served'[2] = ContractOf[served'[1]]
  BY <1>3, PredictionsAssumption
<1>5. RequestInv'
  BY <1>4 DEF PredInv, RequestInv, RequestTypes, Holds, RowAccepted, Swap, requestVars
<1> QED BY <1>1, <1>5 DEF PredInv

LEMMA CountReloadKeeps == ASSUME PredInv, CountReload PROVE PredInv'
<1>1. PICK ok \in BOOLEAN : IncReload(ok)
  BY DEF CountReload
<1>2. Grow
  BY <1>1, IncReloadGrows, CountersOfInv
<1>3. PageInv'
  BY <1>2, GrowKeepsPages DEF PredInv, CountReload
<1>4. /\ answers' = answers /\ counters' = counters
      /\ \A k \in CountedNames : due'[k] = due[k]
  BY <1>1, CountersOfInv, CountedNamesAreCounters DEF CountReload, IncReload, CountedNames,
     LatencyCount, LatencySum
<1>5. CountInv'
  <2>1. \A k \in CountedNames : Booked(k)' = Booked(k)
    BY <1>4 DEF Booked
  <2>2. AnswersAreBooked'
    BY <1>4, <2>1, SameBooksSameAnswers DEF PredInv, CountInv
  <2> QED BY <1>4, <2>2 DEF PredInv, CountInv
<1>6. RequestInv'
  BY PredictionsAssumption DEF PredInv, RequestInv, RequestTypes, Holds, RowAccepted,
                              CountReload, requestVars
<1> QED BY <1>3, <1>5, <1>6 DEF PredInv

LEMMA PageKeeps == ASSUME PredInv, Page PROVE PredInv'
<1>1. PageInv'
  BY ScrapeKeepsPages DEF PredInv, Page
<1>2. counters' = counters /\ due' = due
  BY DEF Page, Scrape, OpenMetrics, OpenStatus, Open, ReadGuard, ReadOperand, ReadNext
<1>3. CountInv'
  BY <1>2 DEF PredInv, CountInv, AnswersAreBooked, Booked, Page
<1>4. RequestInv'
  BY DEF PredInv, RequestInv, RequestTypes, Holds, RowAccepted, Page, requestVars
<1> QED BY <1>1, <1>3, <1>4 DEF PredInv

\* The writer's next addition keeps the pages and the books, and frees a worker
\* at most.
LEMMA WriteKeeps == ASSUME PredInv, Write PROVE PredInv'
<1>1. Grow /\ \A c \in Counters : counters'[c] + due'[c] = counters[c] + due[c]
  BY AddGrows, CountersOfInv DEF Write
<1>2. PageInv'
  BY <1>1, GrowKeepsPages DEF PredInv, Write
<1>3. CountInv'
  <2>1. \A k \in CountedNames : Booked(k)' = Booked(k)
    BY <1>1, CountedNamesAreCounters DEF Booked
  <2>2. answers' = answers
    BY DEF Write
  <2>3. AnswersAreBooked'
    BY <2>1, <2>2, SameBooksSameAnswers DEF PredInv, CountInv
  <2> QED BY <2>2, <2>3 DEF PredInv, CountInv
<1>4. RequestInv'
  <2>1. /\ UNCHANGED <<served, strict, call, rows, valid, loaded, calls>>
        /\ phase' = [w \in Workers |->
                       IF phase[w] = "counting" /\ Unlocked' THEN "free" ELSE phase[w]]
    BY DEF Write
  <2>2. \A w \in Workers : \/ phase'[w] = phase[w]
                           \/ phase[w] = "counting" /\ phase'[w] = "free"
    BY <2>1
  <2>3. phase' \in [Workers -> {"free", "validating", "inferring", "counting"}]
    BY <2>1, <2>2 DEF PredInv, RequestInv, RequestTypes
  <2>4. RequestTypes'
    BY <2>1, <2>3 DEF PredInv, RequestInv, RequestTypes
  <2>5. ASSUME NEW u \in Workers
        PROVE  IF phase'[u] \in {"free", "counting"} THEN valid'[u] = 0 ELSE Holds(u)'
    BY <2>1, <2>2 DEF PredInv, RequestInv, Holds, RowAccepted
  <2> QED BY <2>1, <2>4, <2>5 DEF PredInv, RequestInv
<1> QED BY <1>2, <1>3, <1>4 DEF PredInv

\* A request that is over is forgotten by its worker.
LEMMA EndKeeps ==
    ASSUME PredInv, NEW w \in Workers, NEW then \in {"free", "counting"}, End(w, then),
           UNCHANGED <<served, strict, call>>, calls' \in 0..MaxCalls
    PROVE  RequestInv'
<1>1. <<>> \in Seq(Rows)
  OBVIOUS
<1>2. RequestTypes'
  BY <1>1 DEF PredInv, RequestInv, RequestTypes, End
<1>3. \A u \in Workers : IF phase'[u] \in {"free", "counting"} THEN valid'[u] = 0 ELSE Holds(u)'
  <2> SUFFICES ASSUME NEW u \in Workers
               PROVE  IF phase'[u] \in {"free", "counting"} THEN valid'[u] = 0 ELSE Holds(u)'
    OBVIOUS
  <2>1. CASE u = w
    BY <2>1 DEF PredInv, RequestInv, RequestTypes, End
  <2>2. CASE u # w
    BY <2>2 DEF PredInv, RequestInv, RequestTypes, End, Holds, RowAccepted
  <2> QED BY <2>1, <2>2
<1> QED BY <1>2, <1>3 DEF PredInv, RequestInv

\* A request that is counted keeps the pages and the books.
LEMMA CountedKeeps ==
    ASSUME PredInv, NEW w \in Workers, NEW c \in Requests,
           NEW latencies \in SUBSET (0..MaxLatency), NEW answer \in Answers \ {"uncaught"},
           Counted(w, c, latencies, answer), UNCHANGED <<pageVars, served, strict, call>>,
           calls' \in 0..MaxCalls
    PROVE  PredInv'
<1>1. Count(c, latencies, answer = "prediction", answer = "columns") /\ Note(c, answer)
  BY DEF Counted
<1>2. Grow
  BY <1>1, CountGrows, CountersOfInv
<1>3. PageInv'
  BY <1>2, GrowKeepsPages DEF PredInv
<1>4. AnswersAreBooked'
  BY <1>1, CountTells, CountersOfInv DEF PredInv, CountInv
<1>5. answers' \in [Requests -> [Answers -> Nat]]
  BY <1>1 DEF PredInv, CountInv, Note, Answers
<1>6. RequestInv'
  BY EndKeeps DEF Counted
<1> QED BY <1>3, <1>4, <1>5, <1>6 DEF PredInv, CountInv

LEMMA UncountedEndKeeps ==
    ASSUME PredInv, NEW w \in Workers, NEW c \in Requests, Uncounted(w, c),
           UNCHANGED <<pageVars, served, strict, call>>, calls' \in 0..MaxCalls
    PROVE  PredInv'
<1>1. counters' = counters /\ due' = due /\ Note(c, "uncaught")
  BY DEF Uncounted
<1>2. Grow
  <2>1. \A k \in Counters : counters[k] \in Nat
    BY CountersOfInv
  <2> QED BY <1>1, <2>1, CountersOfInv DEF Grow
<1>3. PageInv'
  BY <1>2, GrowKeepsPages DEF PredInv
<1>4. CountInv'
  <2>1. answers' \in [Requests -> [Answers -> Nat]]
    BY <1>1 DEF PredInv, CountInv, Note, Answers
  <2>2. \A d \in Requests : \A a \in Answers \ {"uncaught"} : answers'[d][a] = answers[d][a]
    BY <1>1 DEF PredInv, CountInv, Note, Answers
  <2>3. \A k \in CountedNames : Booked(k)' = Booked(k)
    BY <1>1 DEF Booked
  <2>4. AnswersAreBooked'
    BY <2>2, <2>3, SameBooksSameAnswers DEF PredInv, CountInv
  <2> QED BY <2>1, <2>4 DEF CountInv
<1>5. RequestInv'
  BY EndKeeps DEF Uncounted
<1> QED BY <1>3, <1>4, <1>5 DEF PredInv

LEMMA RefuseKeeps ==
    ASSUME PredInv, NEW w \in Workers, NEW c \in Requests, Refuse(w, c)
    PROVE  PredInv'
<1>1. /\ Counted(w, c, {0}, "error") \/ Uncounted(w, c)
      /\ UNCHANGED <<pageVars, served, strict, call>>
      /\ calls < MaxCalls /\ calls' = calls + 1
  BY DEF Refuse
<1>2. {0} \in SUBSET (0..MaxLatency) /\ "error" \in Answers \ {"uncaught"}
  BY MetricsAssumption DEF Answers
<1>3. calls' \in 0..MaxCalls
  BY <1>1, PredictionsAssumption DEF PredInv, RequestInv, RequestTypes
<1> QED BY <1>1, <1>2, <1>3, CountedKeeps, UncountedEndKeeps

LEMMA CaptureKeeps ==
    ASSUME PredInv, NEW w \in Workers, NEW c \in Requests, Capture(w, c)
    PROVE  PredInv'
<1>1. PageInv' /\ CountInv'
  BY UncountedKeeps DEF Capture
<1>2. PICK b \in Batches(c) : rows' = [rows EXCEPT ![w] = b]
  BY DEF Capture
<1>3. b \in Seq(Rows) /\ Len(b) > 0
  <2>1. PICK n \in 1..(IF c = "predict" THEN 1 ELSE MaxBatchSize) : b \in [1..n -> Rows]
    BY <1>2, PredictionsAssumption DEF Batches
  <2>2. n \in Nat /\ n > 0
    BY <2>1, PredictionsAssumption
  <2> QED BY <2>1, <2>2
<1>4. /\ served \in Versions \X Contracts /\ served[2] = ContractOf[served[1]]
      /\ valid[w] = 0
  BY DEF Capture, PredInv, RequestInv, RequestTypes
<1>5. RequestTypes'
  BY <1>2, <1>3, <1>4, PredictionsAssumption DEF Capture, PredInv, RequestInv, RequestTypes
<1>6. /\ served' = served
      /\ \A u \in Workers : IF phase'[u] \in {"free", "counting"} THEN valid'[u] = 0 ELSE Holds(u)'
  <2> SUFFICES ASSUME NEW u \in Workers
               PROVE  IF phase'[u] \in {"free", "counting"} THEN valid'[u] = 0 ELSE Holds(u)'
    BY DEF Capture
  <2>1. CASE u = w
    <3>1. /\ phase'[w] = "validating" /\ loaded'[w] = served /\ rows'[w] = b /\ valid'[w] = 0
      BY <1>2, <1>4 DEF Capture, PredInv, RequestInv, RequestTypes
    <3> QED BY <1>3, <1>4, <2>1, <3>1 DEF Holds
  <2>2. CASE u # w
    <3>1. /\ phase'[u] = phase[u] /\ loaded'[u] = loaded[u] /\ rows'[u] = rows[u]
          /\ valid'[u] = valid[u] /\ strict' = strict
      BY <1>2, <2>2 DEF Capture, PredInv, RequestInv, RequestTypes
    <3> QED BY <3>1 DEF PredInv, RequestInv, Holds, RowAccepted
  <2> QED BY <2>1, <2>2
<1>7. RequestInv'
  BY <1>5, <1>6 DEF PredInv, RequestInv
<1> QED BY <1>1, <1>7 DEF PredInv

LEMMA ValidateRowKeeps ==
    ASSUME PredInv, NEW w \in Workers, ValidateRow(w)
    PROVE  PredInv'
<1>1. PageInv' /\ CountInv'
  BY UncountedKeeps DEF ValidateRow
<1>2. /\ phase[w] = "validating" /\ RowAccepted(w, valid[w] + 1)
      /\ valid' = [valid EXCEPT ![w] = valid[w] + 1]
      /\ phase' = [phase EXCEPT ![w] =
                     IF valid[w] + 1 = Len(rows[w]) THEN "inferring" ELSE "validating"]
      /\ UNCHANGED <<served, strict, call, rows, loaded, calls>>
  BY DEF ValidateRow, RowVerdict, VerdictBy, RowAccepted
<1>3. RequestTypes'
  BY <1>2 DEF PredInv, RequestInv, RequestTypes
<1>4. \A u \in Workers : IF phase'[u] \in {"free", "counting"} THEN valid'[u] = 0 ELSE Holds(u)'
  <2> SUFFICES ASSUME NEW u \in Workers
               PROVE  IF phase'[u] \in {"free", "counting"} THEN valid'[u] = 0 ELSE Holds(u)'
    OBVIOUS
  <2>1. CASE u = w
    <3>1. Holds(w) /\ valid[w] < Len(rows[w]) /\ valid[w] \in Nat /\ Len(rows[w]) \in Nat
      <4>1. Holds(w) /\ rows[w] \in Seq(Rows) /\ valid[w] \in Nat
        BY <1>2 DEF PredInv, RequestInv, RequestTypes
      <4> QED BY <1>2, <4>1 DEF Holds
    <3>2. /\ valid'[w] = valid[w] + 1
          /\ phase'[w] = IF valid[w] + 1 = Len(rows[w]) THEN "inferring" ELSE "validating"
      BY <1>2 DEF PredInv, RequestInv, RequestTypes
    <3>3. \A i \in 1..valid'[w] : RowAccepted(w, i)'
      <4> SUFFICES ASSUME NEW i \in 1..valid'[w] PROVE RowAccepted(w, i)
        BY <1>2 DEF RowAccepted
      <4>1. i \in 1..valid[w] \/ i = valid[w] + 1
        BY <3>1, <3>2
      <4> QED BY <4>1, <1>2, <3>1 DEF Holds
    <3> QED BY <1>2, <2>1, <3>1, <3>2, <3>3 DEF Holds
  <2>2. CASE u # w
    BY <1>2, <2>2 DEF PredInv, RequestInv, RequestTypes, Holds, RowAccepted
  <2> QED BY <2>1, <2>2
<1>5. RequestInv'
  BY <1>2, <1>3, <1>4 DEF PredInv, RequestInv
<1> QED BY <1>1, <1>5 DEF PredInv

LEMMA RejectRowKeeps ==
    ASSUME PredInv, NEW w \in Workers, RejectRow(w)
    PROVE  PredInv'
<1>1. /\ Counted(w, call[w], Elapsed, "columns")
      /\ UNCHANGED <<pageVars, served, strict, call>> /\ calls' = calls
  BY DEF RejectRow
<1>2. Elapsed \in SUBSET (0..MaxLatency) /\ "columns" \in Answers \ {"uncaught"}
  BY DEF Elapsed, Answers
<1>3. call[w] \in Requests /\ calls' \in 0..MaxCalls
  BY <1>1 DEF PredInv, RequestInv, RequestTypes
<1> QED BY <1>1, <1>2, <1>3, CountedKeeps

LEMMA RowOverflowsKeeps ==
    ASSUME PredInv, NEW w \in Workers, RowOverflows(w)
    PROVE  PredInv'
<1>1. Uncounted(w, call[w]) /\ UNCHANGED <<pageVars, served, strict, call>> /\ calls' = calls
  BY DEF RowOverflows
<1>2. call[w] \in Requests /\ calls' \in 0..MaxCalls
  BY <1>1 DEF PredInv, RequestInv, RequestTypes
<1> QED BY <1>1, <1>2, UncountedEndKeeps

LEMMA InferKeeps ==
    ASSUME PredInv, NEW w \in Workers, Infer(w)
    PROVE  PredInv'
<1>1. /\ \/ Counted(w, call[w], Elapsed, "prediction")
         \/ Counted(w, call[w], Elapsed, "error")
         \/ Uncounted(w, call[w])
      /\ UNCHANGED <<pageVars, served, strict, call>> /\ calls' = calls
  BY DEF Infer
<1>2. /\ Elapsed \in SUBSET (0..MaxLatency)
      /\ "prediction" \in Answers \ {"uncaught"} /\ "error" \in Answers \ {"uncaught"}
  BY DEF Elapsed, Answers
<1>3. call[w] \in Requests /\ calls' \in 0..MaxCalls
  BY <1>1 DEF PredInv, RequestInv, RequestTypes
<1> QED BY <1>1, <1>2, <1>3, CountedKeeps, UncountedEndKeeps

LEMMA StutterKeepsPredInv == ASSUME PredInv, UNCHANGED vars PROVE PredInv'
<1>1. PageInv' /\ CountInv'
  BY UncountedKeeps DEF vars
<1>2. RequestInv'
  BY DEF vars, requestVars, PredInv, RequestInv, RequestTypes, Holds, RowAccepted
<1> QED BY <1>1, <1>2 DEF PredInv

LEMMA StepKeepsPredInv == PredInv /\ [Next]_vars => PredInv'
<1> SUFFICES ASSUME PredInv, [Next]_vars PROVE PredInv'
  OBVIOUS
<1>1. ASSUME NEW w \in Workers, Request(w) PROVE PredInv'
  BY <1>1, RefuseKeeps, CaptureKeeps, ValidateRowKeeps, RejectRowKeeps, RowOverflowsKeeps,
     InferKeeps DEF Request
<1> QED
  BY <1>1, SwapKeeps, CountReloadKeeps, WriteKeeps, PageKeeps, StutterKeepsPredInv DEF Next

LEMMA PredictionsInvariant == Spec => []PredInv
BY InitPredInv, StepKeepsPredInv, PTL DEF Spec

-----------------------------------------------------------------------------
(* The theorems.                                                           *)

\* Every variable keeps its kind, and a worker that validates has a row left.
THEOREM PredictionsTypes == Spec => []PredictionsTypeOK
<1>1. PredInv => PredictionsTypeOK
  BY PageInvSuffices DEF PredInv, RequestInv, RequestTypes, CountInv, PredictionsTypeOK, Holds
<1> QED BY <1>1, PredictionsInvariant, PTL

\* The model that runs gets rows that fit its own contract, whichever model is
\* served by then, in batches of any size (app.py, predict and predict_batch).
THEOREM RowsFitTheModel == Spec => []ModelSeesItsContract
<1>1. PredInv => ModelSeesItsContract
  <2> SUFFICES ASSUME PredInv, NEW w \in Workers, phase[w] = "inferring",
                      ContractOf[loaded[w][1]].columns # {}, NEW i \in DOMAIN rows[w]
               PROVE  /\ Fits(rows[w][i], ContractOf[loaded[w][1]])
                      /\ strict => DOMAIN rows[w][i] = ContractOf[loaded[w][1]].columns
    BY DEF ModelSeesItsContract
  <2>1. Holds(w) /\ valid[w] = Len(rows[w]) /\ strict \in BOOLEAN /\ i \in 1..Len(rows[w])
    <3>1. Holds(w) /\ rows[w] \in Seq(Rows) /\ strict \in BOOLEAN
      BY DEF PredInv, RequestInv, RequestTypes
    <3> QED BY <3>1 DEF Holds
  <2>2. Verdict(rows[w][i], ContractOf[loaded[w][1]], strict) = "accepted"
    BY <2>1 DEF Holds, RowAccepted
  <2> QED BY <2>1, <2>2, AcceptedRowFits
<1> QED BY <1>1, PredictionsInvariant, PTL

\* Between writes, the counters follow from the answers that requests came to
\* (metrics.py and its callers).
THEOREM EveryAnswerIsCounted == Spec => []AnswersAreCounted
<1>1. PredInv => AnswersAreCounted
  <2> SUFFICES ASSUME PredInv PROVE AnswersAreCounted
    OBVIOUS
  <2>1. ~Unlocked => AnswersAreCounted
    BY DEF AnswersAreCounted
  <2> QED BY <2>1, BooksTell, CountersOfInv DEF PredInv, CountInv
<1> QED BY <1>1, PredictionsInvariant, PTL

\* A page that reads half-done writes tells more errors than calls by no more than
\* the calls counted while it was made (metrics.py, the inc_ methods and render;
\* app.py, admin_status).
THEOREM PagesAreNearlyConsistent == Spec => []PagesTornByOverlapOnly
<1>1. PredInv => PagesTornByOverlapOnly
  BY PageInvSuffices DEF PredInv
<1> QED BY <1>1, PredictionsInvariant, PTL

\* The average latency exceeds the longest observed by at most the one observation
\* whose count was due when the sum was read, and no page divides by zero
\* (metrics.py, inc_predict; app.py, admin_status).
THEOREM AverageIsNearlyBounded == Spec => []AverageNearlyWithinLatencies
<1>1. PredInv => AverageNearlyWithinLatencies
  BY PageInvSuffices DEF PredInv
<1> QED BY <1>1, PredictionsInvariant, PTL
=============================================================================
