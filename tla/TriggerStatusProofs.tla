------------------------ MODULE TriggerStatusProofs ------------------------
(***************************************************************************)
(* Proofs about TriggerStatus: the status endpoint under any clients, for  *)
(* any trigger ids, any number of polls on their way at once and of        *)
(* promotions.                                                             *)
(***************************************************************************)
EXTENDS TriggerStatus, TLAPS

-----------------------------------------------------------------------------
(* The training side: what is known of a trigger stays true.               *)

WorldInv ==
    /\ objects \in [Ids -> SUBSET Objects]
    /\ run \in [Ids -> Runs]
    /\ newer \in [Ids -> BOOLEAN]
    /\ author \in Seq(Ids \cup {None}) /\ Len(author) <= MaxVersions
    /\ returned \subseteq 1..Len(author)
    /\ pointer \in returned \/ pointer = IF Len(author) = 0 THEN None ELSE Len(author)
    /\ \A i \in Ids :
         /\ "trigger" \in objects[i] => run[i] # "none"
         /\ run[i] = "failed" => "failed" \in objects[i]
         /\ run[i] = "promoted" => newer[i] /\ pointer # None

LEMMA PointerIsVersion == WorldInv => pointer \in Versions \cup {None} /\ returned \subseteq Versions
<1> SUFFICES ASSUME WorldInv PROVE pointer \in Versions \cup {None} /\ returned \subseteq Versions
  OBVIOUS
<1>1. PICK n \in Nat : n = Len(author)
  BY DEF WorldInv
<1>2. n <= MaxVersions /\ MaxVersions \in Nat
  BY <1>1, StatusAssumption DEF WorldInv
<1>3. returned \subseteq 1..n /\ (pointer \in returned \/ pointer = IF n = 0 THEN None ELSE n)
  BY <1>1 DEF WorldInv
<1>4. 1..n \subseteq Versions
  BY <1>1, <1>2 DEF Versions
<1>5. n # 0 => n \in 1..n
  OBVIOUS
<1> QED BY <1>3, <1>4, <1>5

\* Objects and promotions are never taken back; the pointer moves to a new version
\* or is put back to an old one; a run is promoted by a promotion.
WorldGrows ==
    /\ \A i \in Ids : objects[i] \subseteq objects'[i]
    /\ Len(author) <= Len(author') /\ returned \subseteq returned'
    /\ pointer' # pointer => pointer' \notin 1..Len(author) \/ pointer' \in returned'
    /\ pointer # None => pointer' # None
    /\ \A i \in Ids : run[i] # "none" => (newer[i] => newer'[i])
    /\ \A i \in Ids : run'[i] = "promoted" => run[i] = "promoted" \/ Len(author) < Len(author')

LEMMA PublishGrows ==
    ASSUME WorldInv, NEW i \in Ids, PublishQueued(i) \/ PublishRefused(i)
    PROVE  WorldInv' /\ WorldGrows /\ poll' = poll /\ run'[i] # "promoted"
<1>1. PICK r \in {"queued", "failed"}, s \in {{"trigger"}, {"trigger", "failed"}} :
          Publish(i, r, s) /\ (r = "failed" => "failed" \in s)
  BY DEF PublishQueued, PublishRefused
<1>2. PICK sameSecond \in BOOLEAN : newer' = [newer EXCEPT ![i] = sameSecond]
  BY <1>1 DEF Publish
<1>3. /\ run[i] = "none" /\ run' = [run EXCEPT ![i] = r]
      /\ objects' = [objects EXCEPT ![i] = objects[i] \cup s]
      /\ UNCHANGED <<pointer, author, returned, poll>>
  BY <1>1 DEF Publish, SetRun, AddObjects
<1>4. s \subseteq Objects /\ r \in Runs /\ r # "promoted" /\ r # "none"
  BY DEF Objects, Runs
<1>5. WorldInv'
  <2>1. run' \in [Ids -> Runs] /\ newer' \in [Ids -> BOOLEAN] /\ objects' \in [Ids -> SUBSET Objects]
    BY <1>2, <1>3, <1>4 DEF WorldInv
  <2>2. ASSUME NEW j \in Ids
        PROVE  /\ "trigger" \in objects'[j] => run'[j] # "none"
               /\ run'[j] = "failed" => "failed" \in objects'[j]
               /\ run'[j] = "promoted" => newer'[j] /\ pointer' # None
    BY <1>1, <1>2, <1>3, <1>4 DEF WorldInv
  <2> QED BY <1>3, <2>1, <2>2 DEF WorldInv
<1>6. WorldGrows
  BY <1>2, <1>3, <1>4 DEF WorldInv, WorldGrows
<1>7. run'[i] # "promoted"
  BY <1>3, <1>4 DEF WorldInv
<1> QED BY <1>3, <1>5, <1>6, <1>7

LEMMA NewPointerGrows ==
    ASSUME WorldInv, NEW by \in Ids \cup {None}, NewPointer(by)
    PROVE  /\ author' \in Seq(Ids \cup {None}) /\ Len(author') <= MaxVersions
           /\ returned' = returned /\ returned' \subseteq 1..Len(author')
           /\ pointer' = Len(author') /\ Len(author') # 0
           /\ Len(author) < Len(author') /\ pointer' \notin 1..Len(author)
           /\ newer' \in [Ids -> BOOLEAN]
           /\ pointer' # None
           /\ \A i \in Ids : run[i] # "none" => newer'[i]
           /\ objects' = objects /\ poll' = poll
<1> USE StatusAssumption
<1>1. Len(author) \in Nat /\ author' \in Seq(Ids \cup {None}) /\ Len(author') = Len(author) + 1
  BY DEF WorldInv, NewPointer
<1>2. pointer' = Len(author') /\ pointer' # None
  BY <1>1 DEF NewPointer, SetPointer
<1>3. newer' = [i \in Ids |-> newer[i] \/ run[i] # "none"]
  BY DEF NewPointer, SetPointer
<1>4. newer' \in [Ids -> BOOLEAN] /\ \A i \in Ids : run[i] # "none" => newer'[i]
  BY <1>3, Zenon
<1> QED BY <1>1, <1>2, <1>4 DEF WorldInv, NewPointer, SetPointer

LEMMA WorldKeeps ==
    ASSUME WorldInv, World
    PROVE  WorldInv' /\ WorldGrows /\ poll' = poll
<1>1. ASSUME NEW i \in Ids, StartRun(i) \/ FailRun(i)
      PROVE  WorldInv' /\ WorldGrows /\ poll' = poll
  <2>1. PICK r \in {"running", "failed"}, s \in {{"running"}, {"failed"}} :
            /\ run[i] # "none" /\ run' = [run EXCEPT ![i] = r] /\ (r = "failed" => s = {"failed"})
            /\ objects' = [objects EXCEPT ![i] = objects[i] \cup s]
            /\ UNCHANGED <<newer, pointer, author, returned, poll>>
    BY <1>1 DEF StartRun, FailRun, SetRun, AddObjects
  <2>2. s \subseteq Objects /\ r \in Runs /\ r # "promoted" /\ r # "none"
    BY DEF Objects, Runs
  <2> QED BY <2>1, <2>2 DEF WorldInv, WorldGrows
<1>2. ASSUME NEW i \in Ids, PromoteRun(i)
      PROVE  WorldInv' /\ WorldGrows /\ poll' = poll
  <2>1. run[i] = "running" /\ run' = [run EXCEPT ![i] = "promoted"] /\ NewPointer(i)
    BY <1>2 DEF PromoteRun, SetRun
  <2> QED BY <2>1, NewPointerGrows DEF WorldInv, WorldGrows, Runs
<1>3. ASSUME PromoteOther
      PROVE  WorldInv' /\ WorldGrows /\ poll' = poll
  <2>1. run' = run /\ NewPointer(None)
    BY <1>3 DEF PromoteOther
  <2> QED BY <2>1, NewPointerGrows DEF WorldInv, WorldGrows
<1>4. ASSUME PutBack
      PROVE  WorldInv' /\ WorldGrows /\ poll' = poll
  <2>1. PICK v \in 1..Len(author) : pointer' = v /\ returned' = {v} /\ returned = {}
    BY <1>4 DEF PutBack, SetPointer
  <2>2. newer' = [i \in Ids |-> newer[i] \/ run[i] # "none"]
    BY <1>4 DEF PutBack, SetPointer
  <2>3. newer' \in [Ids -> BOOLEAN] /\ \A i \in Ids : run[i] # "none" => newer'[i]
    BY <2>2, Zenon
  <2>4. UNCHANGED <<objects, run, author, poll>> /\ pointer' # None
    BY <1>4, <2>1, StatusAssumption DEF PutBack, SetPointer, WorldInv
  <2> QED BY <2>1, <2>3, <2>4 DEF WorldInv, WorldGrows
<1> QED BY <1>1, <1>2, <1>3, <1>4 DEF World

LEMMA WorldStands ==
    ASSUME WorldInv, UNCHANGED worldVars
    PROVE  WorldInv' /\ WorldGrows
BY DEF WorldInv, WorldGrows, worldVars

-----------------------------------------------------------------------------
(* The polls.                                                              *)

PollRecord ==
    [pc : {"idle", "trigger", "failed", "running", "pointer", "answered"},
     id : Ids \cup {None}, baseline : Versions \cup {None},
     running : BOOLEAN, status : Statuses \cup {"none"},
     failedBefore : BOOLEAN, overtaken : BOOLEAN]

\* What a poll r has read is there.
PollRead(r) ==
    /\ r \in PollRecord
    /\ r.pc # "idle" => r.id \in Ids
    /\ r.pc \in {"failed", "running", "pointer", "answered"} => "trigger" \in objects[r.id]
    /\ r.running => r.pc = "pointer" /\ "running" \in objects[r.id]
    /\ r.pc # "answered" => r.status = "none"
    /\ r.pc = "answered" => r.status \in Statuses
    /\ r.failedBefore => \/ r.pc = "failed" /\ "failed" \in objects[r.id]
                         \/ r.status = "failed"

ReadsInv ==
    /\ poll \in [1..Slots -> PollRecord]
    /\ \A p \in 1..Slots : PollRead(poll[p])

StatusInv == WorldInv /\ ReadsInv

LEMMA IdleRead == PollRead(Idle) /\ PollRead(Idle)'
<1>1. Idle \in PollRecord
  BY DEF Idle, PollRecord
<1> QED BY <1>1 DEF PollRead, Idle

\* Objects are never taken back, so what was read is still there.
LEMMA ReadStays == ASSUME WorldGrows PROVE \A r : PollRead(r) => PollRead(r)'
<1> SUFFICES ASSUME NEW r, PollRead(r) PROVE PollRead(r)'
  OBVIOUS
<1>1. r.pc # "idle" => objects[r.id] \subseteq objects'[r.id]
  BY DEF PollRead, WorldGrows
<1> QED BY <1>1 DEF PollRead

LEMMA ReadsStay ==
    ASSUME WorldGrows, ReadsInv, UNCHANGED poll
    PROVE  ReadsInv'
<1>1. ASSUME NEW p \in 1..Slots PROVE PollRead(poll[p])'
  <2>1. PollRead(poll[p]) /\ poll'[p] = poll[p]
    BY DEF ReadsInv
  <2> QED BY <2>1, ReadStays DEF PollRead
<1> QED BY <1>1 DEF ReadsInv

\* A step of one poll, which the training side does not see.
LEMMA OneRead ==
    ASSUME ReadsInv, UNCHANGED worldVars,
           NEW p \in 1..Slots, NEW r, PollRead(r), poll' = [poll EXCEPT ![p] = r]
    PROVE  ReadsInv'
<1>1. r \in PollRecord
  BY DEF PollRead
<1>2. ASSUME NEW q \in 1..Slots PROVE PollRead(poll[q])'
  <2>1. PollRead(poll'[q])
    BY DEF ReadsInv
  <2> QED BY <2>1 DEF PollRead, worldVars
<1> QED BY <1>1, <1>2 DEF ReadsInv

LEMMA AskRead ==
    ASSUME ReadsInv, NEW p \in 1..Slots, NEW i \in Ids, NEW b \in Versions \cup {None}, Ask(p, i, b)
    PROVE  ReadsInv' /\ UNCHANGED worldVars
<1> DEFINE r == [Idle EXCEPT !.pc = "trigger", !.id = i, !.baseline = b]
<1>1. poll' = [poll EXCEPT ![p] = r] /\ UNCHANGED worldVars
  BY DEF Ask
<1>2. PollRead(r)
  BY DEF PollRead, PollRecord, Idle
<1> HIDE DEF r
<1> QED BY <1>1, <1>2, OneRead

LEMMA FailRead ==
    ASSUME ReadsInv, UNCHANGED worldVars, NEW p \in 1..Slots, Fail(p)
    PROVE  ReadsInv'
BY IdleRead, OneRead DEF Fail

\* What the four reads of the handler make of a poll.
LEMMA HandlerRead ==
    ASSUME ReadsInv, NEW p \in 1..Slots, Handler(p) \/ PollFails(p)
    PROVE  ReadsInv' /\ UNCHANGED worldVars
<1>0. UNCHANGED worldVars
  BY DEF Handler, ReadTrigger, ReadFailed, ReadRunning, ReadPointer, PollFails
<1>1. PollRead(poll[p]) /\ poll[p] \in PollRecord
  BY DEF ReadsInv
<1>2. CASE Fail(p)
  BY <1>0, <1>2, FailRead
<1>3. CASE ReadTrigger(p) /\ "trigger" \in objects[poll[p].id]
  <2>1. PICK there \in BOOLEAN : there = ("failed" \in objects[poll[p].id])
    <3>1. ("failed" \in objects[poll[p].id]) \in BOOLEAN
      OBVIOUS
    <3> QED BY <3>1, Zenon
  <2> DEFINE r == [poll[p] EXCEPT !.pc = "failed", !.failedBefore = there]
  <2>2. poll' = [poll EXCEPT ![p] = r] /\ poll[p].pc = "trigger"
    BY <1>3, <2>1 DEF ReadTrigger, At, ReadsInv
  <2>3. PollRead(r)
    BY <1>1, <1>3, <2>1, <2>2 DEF PollRead, PollRecord
  <2> HIDE DEF r
  <2> QED BY <1>0, <2>2, <2>3, OneRead
<1>4. CASE ReadFailed(p)
  <2> DEFINE a == [poll[p] EXCEPT !.pc = "answered", !.status = "failed", !.running = FALSE]
             g == [poll[p] EXCEPT !.pc = "running"]
  <2>1. /\ poll[p].pc = "failed"
        /\ IF "failed" \in objects[poll[p].id]
             THEN poll' = [poll EXCEPT ![p] = a] ELSE poll' = [poll EXCEPT ![p] = g]
    BY <1>4 DEF ReadFailed, Reply, Goto, At, ReadsInv
  <2>2. PollRead(a)
    BY <1>1, <2>1 DEF PollRead, PollRecord, Statuses
  <2>3. "failed" \notin objects[poll[p].id] => PollRead(g)
    BY <1>1, <2>1 DEF PollRead, PollRecord
  <2> HIDE DEF a, g
  <2> QED BY <1>0, <2>1, <2>2, <2>3, OneRead
<1>5. CASE ReadRunning(p)
  <2>1. PICK there \in BOOLEAN : there = ("running" \in objects[poll[p].id])
    <3>1. ("running" \in objects[poll[p].id]) \in BOOLEAN
      OBVIOUS
    <3> QED BY <3>1, Zenon
  <2> DEFINE r == [poll[p] EXCEPT !.pc = "pointer", !.running = there]
  <2>2. poll' = [poll EXCEPT ![p] = r] /\ poll[p].pc = "running"
    BY <1>5, <2>1 DEF ReadRunning, At, ReadsInv
  <2>3. PollRead(r)
    BY <1>1, <2>1, <2>2 DEF PollRead, PollRecord
  <2> HIDE DEF r
  <2> QED BY <1>0, <2>2, <2>3, OneRead
<1>6. CASE ReadPointer(p)
  <2>1. PICK s \in {"completed", "running", "pending"} : s = Decide(p)
    BY DEF Decide
  <2> DEFINE r == [poll[p] EXCEPT !.pc = "answered", !.status = s, !.running = FALSE]
  <2>2. poll' = [poll EXCEPT ![p] = r] /\ poll[p].pc = "pointer"
    BY <1>6, <2>1 DEF ReadPointer, Reply, At, ReadsInv
  <2>3. PollRead(r)
    BY <1>1, <2>2 DEF PollRead, PollRecord, Statuses
  <2> HIDE DEF r
  <2> QED BY <1>0, <2>2, <2>3, OneRead
<1> QED BY <1>0, <1>2, <1>3, <1>4, <1>5, <1>6 DEF Handler, PollFails, ReadTrigger

LEMMA CollectRead ==
    ASSUME ReadsInv, NEW p \in 1..Slots, Collect(p)
    PROVE  ReadsInv' /\ UNCHANGED worldVars
<1>1. UNCHANGED worldVars
  BY DEF Collect
<1>2. ASSUME NEW q \in 1..Slots PROVE PollRead(poll'[q])
  <2>1. poll'[q] = Idle \/ poll'[q] = [poll[q] EXCEPT !.overtaken = TRUE]
    BY DEF Collect
  <2>2. PollRead(poll[q])
    BY DEF ReadsInv
  <2> QED BY <2>1, <2>2, IdleRead DEF PollRead, PollRecord
<1>3. poll' \in [1..Slots -> PollRecord]
  <2>1. poll' = [q \in 1..Slots |-> poll'[q]]
    BY DEF Collect
  <2> QED BY <1>2, <2>1 DEF PollRead
<1> QED BY <1>1, <1>2, <1>3 DEF ReadsInv, PollRead, worldVars

-----------------------------------------------------------------------------
(* The endpoint.                                                           *)

LEMMA InitWorldInv == StatusInit => WorldInv
BY StatusAssumption DEF StatusInit, WorldInv, Runs

LEMMA InitStatusInv == StatusInit => StatusInv
<1> SUFFICES ASSUME StatusInit PROVE ReadsInv
  BY InitWorldInv DEF StatusInv
<1>1. poll = [p \in 1..Slots |-> Idle]
  BY DEF StatusInit
<1> QED BY <1>1, IdleRead DEF ReadsInv, PollRead

LEMMA StepKeepsStatusInv == StatusInv /\ [StatusNext]_statusVars => StatusInv'
<1> SUFFICES ASSUME StatusInv, [StatusNext]_statusVars PROVE StatusInv'
  OBVIOUS
<1>1. CASE UNCHANGED worldVars /\ ReadsInv'
  BY <1>1, WorldStands DEF StatusInv
<1>2. CASE World
  BY <1>2, WorldKeeps, ReadsStay DEF StatusInv
<1>3. ASSUME NEW i \in Ids, PublishQueued(i) \/ PublishRefused(i) PROVE StatusInv'
  BY <1>3, PublishGrows, ReadsStay DEF StatusInv
<1>4. CASE UNCHANGED statusVars
  BY <1>4, WorldStands, ReadsStay DEF StatusInv, statusVars
<1>5. CASE \E p \in 1..Slots : Handler(p) \/ PollFails(p) \/ Collect(p)
  BY <1>1, <1>5, HandlerRead, CollectRead DEF StatusInv
<1>6. CASE \E p \in 1..Slots, i \in Ids, b \in Versions \cup {None} : Ask(p, i, b)
  BY <1>1, <1>6, AskRead DEF StatusInv
<1> QED BY <1>2, <1>3, <1>4, <1>5, <1>6 DEF StatusNext

\* Under any clients: a poll has read only what is there, and the training side
\* leaves an object or a promotion for every end of a run.
THEOREM EndpointInvariant == StatusSpec => []StatusInv
BY InitStatusInv, StepKeepsStatusInv, PTL DEF StatusSpec

\* Every variable of the endpoint keeps its kind.
THEOREM EndpointTypes == StatusSpec => []StatusTypeOK
<1>1. StatusInv => StatusTypeOK
  <2> SUFFICES ASSUME StatusInv PROVE StatusTypeOK
    OBVIOUS
  <2>1. pointer \in Versions \cup {None} /\ returned \subseteq Versions
    BY PointerIsVersion DEF StatusInv
  <2>2. \A p \in 1..Slots :
          /\ poll[p].pc \in {"failed", "running", "pointer"} =>
                poll[p].id \in Ids /\ "trigger" \in objects[poll[p].id]
          /\ poll[p].running => poll[p].id \in Ids /\ "running" \in objects[poll[p].id]
    BY DEF StatusInv, ReadsInv, PollRead
  <2> QED BY <2>1, <2>2 DEF StatusInv, WorldInv, ReadsInv, PollRecord, StatusTypeOK
<1> QED BY <1>1, EndpointInvariant, PTL

\* Whoever polls, with whatever baseline: a poll whose handling begins when
\* failed.json is there answers "failed" (app.py, the state machine comment of
\* trigger_status).
THEOREM EndpointFailureWins == StatusSpec => []FailureWins
<1>1. StatusInv => FailureWins
  BY DEF StatusInv, ReadsInv, PollRead, FailureWins
<1> QED BY <1>1, EndpointInvariant, PTL

\* Whoever polls, with whatever baseline: a poll that is about to read what the
\* end of its run has left tells that end (app.py, trigger_status).
THEOREM EndpointTellsEnd == StatusSpec => EndIsSeen
<1> DEFINE Told(p) ==
             /\ At(p, "failed") /\ run[poll[p].id] = "failed" /\ poll'[p].pc \notin {"failed", "idle"}
                => poll'[p].status = "failed"
             /\ (/\ At(p, "pointer") /\ run[poll[p].id] = "promoted" /\ poll[p].baseline # pointer
                 /\ poll'[p].pc \notin {"pointer", "idle"})
                => poll'[p].status = "completed"
<1>1. ASSUME StatusInv, StatusNext, NEW p \in 1..Slots PROVE Told(p)
  <2>1. PollRead(poll[p]) /\ poll[p] \in PollRecord
    BY <1>1 DEF StatusInv, ReadsInv
  <2>2. CASE poll'[p].pc \in {poll[p].pc, "idle"}
    BY <2>2 DEF At
  <2>3. CASE ReadTrigger(p) \/ ReadRunning(p)
    BY <2>3 DEF ReadTrigger, ReadRunning, At
  <2>4. CASE ReadFailed(p)
    <3>1. run[poll[p].id] = "failed" /\ poll[p].pc = "failed" => "failed" \in objects[poll[p].id]
      BY <1>1, <2>1 DEF PollRead, StatusInv, WorldInv
    <3>2. CASE poll[p].pc = "failed" /\ run[poll[p].id] = "failed"
      <4>1. Reply(p, "failed")
        BY <2>4, <3>1, <3>2 DEF ReadFailed
      <4>2. poll'[p].status = "failed"
        BY <1>1, <2>1, <4>1 DEF Reply, StatusInv, ReadsInv, PollRecord
      <4> QED BY <2>4, <4>2 DEF ReadFailed, At
    <3> QED BY <2>4, <3>2 DEF ReadFailed, At
  <2>5. CASE ReadPointer(p)
    <3>1. run[poll[p].id] = "promoted" /\ poll[p].pc = "pointer" =>
            newer[poll[p].id] /\ pointer # None
      BY <1>1, <2>1 DEF PollRead, StatusInv, WorldInv
    <3>2. run[poll[p].id] = "promoted" /\ poll[p].pc = "pointer" /\ poll[p].baseline # pointer =>
            Decide(p) = "completed"
      BY <3>1 DEF Decide, Moved
    <3>3. PICK s \in {"completed", "running", "pending"} : s = Decide(p)
      BY DEF Decide
    <3>4. poll'[p].status = s /\ poll[p].pc = "pointer"
      BY <1>1, <2>1, <2>5, <3>3 DEF ReadPointer, Reply, At, StatusInv, ReadsInv, PollRecord
    <3> QED BY <3>2, <3>3, <3>4 DEF At
  <2>6. \/ poll'[p].pc \in {poll[p].pc, "idle"} \/ Handler(p)
        \/ \E i \in Ids, b \in Versions \cup {None} : Ask(p, i, b)
    <3>1. CASE UNCHANGED poll
      BY <3>1
    <3>2. ASSUME NEW q \in 1..Slots, Collect(q)
          PROVE  poll'[p].pc \in {poll[p].pc, "idle"}
      BY <2>1, <3>2 DEF Collect, Idle, PollRecord
    <3>3. ASSUME NEW q \in 1..Slots, q # p,
                 Handler(q) \/ PollFails(q) \/ \E i \in Ids, b \in Versions \cup {None} : Ask(q, i, b)
          PROVE  poll'[p] = poll[p]
      BY <1>1, <3>3
      DEF Handler, ReadTrigger, ReadFailed, ReadRunning, ReadPointer, PollFails, Fail, Goto, Reply,
          Ask, StatusInv, ReadsInv
    <3>4. CASE PollFails(p)
      BY <1>1, <3>4 DEF PollFails, Fail, Idle, StatusInv, ReadsInv
    <3>5. World => UNCHANGED poll
      BY <1>1, WorldKeeps DEF StatusInv
    <3>6. \A i \in Ids : PublishQueued(i) \/ PublishRefused(i) => UNCHANGED poll
      BY <1>1, PublishGrows DEF StatusInv
    <3> QED BY <1>1, <3>1, <3>2, <3>3, <3>4, <3>5, <3>6 DEF StatusNext
  <2>7. ASSUME NEW i \in Ids, NEW b, Ask(p, i, b) PROVE Told(p)
    BY <2>7 DEF Ask, At
  <2> QED BY <2>2, <2>3, <2>4, <2>5, <2>6, <2>7 DEF Handler
<1>2. StatusInv /\ [StatusNext]_statusVars => [\A p \in 1..Slots : Told(p)]_statusVars
  BY <1>1
<1> HIDE DEF Told
<1>3. StatusInv /\ [StatusNext]_statusVars => [\A p \in 1..Slots : Told(p)]_statusVars
  BY <1>2
<1>4. StatusSpec => [][\A p \in 1..Slots : Told(p)]_statusVars
  BY <1>3, EndpointInvariant, PTL DEF StatusSpec
<1> QED BY <1>4 DEF Told, EndIsSeen
=============================================================================
