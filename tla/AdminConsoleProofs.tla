------------------------- MODULE AdminConsoleProofs -------------------------
(***************************************************************************)
(* Proofs about AdminConsole: for any trigger ids, any number of polls on  *)
(* their way at once and of promotions.  What is known of the training     *)
(* side, and of the endpoint under any clients, is in TriggerStatusProofs. *)
(***************************************************************************)
EXTENDS AdminConsole, TriggerStatusProofs

-----------------------------------------------------------------------------
(* What an answer vouches for, and what polls that came later will say.    *)

\* A version that has been promoted, or none.
Known(b) == b = None \/ b \in 1..Len(author)

\* The pointer has left the baseline, or the time of the trigger: it comes back
\* only to a version that it is put back to.
Left(i, b) == pointer # None /\ IF b # None THEN pointer # b \/ b \in returned ELSE newer[i]

Supports(s, i, b) ==
    /\ s = "failed" => "failed" \in objects[i]
    /\ s = "completed" => Left(i, b)
    /\ s = "running" => "running" \in objects[i]

LEMMA KnownStays == ASSUME WorldInv, WorldInv', WorldGrows
                    PROVE  \A b : Known(b) => Known(b)'
BY DEF WorldInv, WorldGrows, Known

LEMMA SupportsStays ==
    ASSUME WorldInv, WorldInv', WorldGrows
    PROVE  \A s, b : \A i \in Ids :
             "trigger" \in objects[i] /\ Known(b) /\ Supports(s, i, b) => Supports(s, i, b)'
<1> SUFFICES ASSUME NEW s, NEW b, NEW i \in Ids,
                    "trigger" \in objects[i], Known(b), Supports(s, i, b)
             PROVE  Supports(s, i, b)'
  OBVIOUS
<1>1. objects[i] \subseteq objects'[i] /\ (newer[i] => newer'[i])
  BY DEF WorldInv, WorldGrows
<1>2. Len(author) \in Nat /\ Len(author') \in Nat /\ Len(author) <= Len(author')
  BY DEF WorldInv, WorldGrows
<1>3. Left(i, b) => Left(i, b)'
  BY <1>1, <1>2 DEF Left, Known, WorldGrows
<1> QED BY <1>1, <1>3 DEF Supports

-----------------------------------------------------------------------------
(* The polls.                                                              *)

\* What a poll r has read is there, its baseline has been promoted, and its answer
\* is vouched for.
PollOK(r) ==
    /\ PollRead(r)
    /\ Known(r.baseline)
    /\ r.pc = "answered" => Supports(r.status, r.id, r.baseline)

\* A poll sent after the answer that is shown came will not fall behind it.
Follows(r, s) ==
    /\ s = "failed" => r.pc \in {"trigger", "failed"} \/ r.status = "failed"
    /\ s = "completed" => r.status \in {"none", "completed", "failed"}
    /\ s = "running" => /\ r.pc = "pointer" => r.running
                        /\ r.status # "pending"

FollowsShown(r) ==
    /\ r.pc # "idle" /\ ~r.overtaken
    /\ shown.id # None /\ shown.id = r.id /\ shown.baseline = r.baseline
    /\ shown.baseline \notin returned
    => Follows(r, shown.status)

\* What is shown is vouched for.
ShownOK ==
    /\ shown \in [id : Ids \cup {None}, baseline : Versions \cup {None},
                  status : Statuses \cup {"none"}]
    /\ shown.id # None =>
         /\ shown.status \in Statuses
         /\ Known(shown.baseline)
         /\ "trigger" \in objects[shown.id]
         /\ Supports(shown.status, shown.id, shown.baseline)

PollsInv ==
    /\ poll \in [1..Slots -> PollRecord]
    /\ \A p \in 1..Slots : PollOK(poll[p]) /\ FollowsShown(poll[p])
    /\ ShownOK

LEMMA KnownIsVersion == WorldInv => \A b : Known(b) => b \in Versions \cup {None}
BY StatusAssumption DEF WorldInv, Known, Versions

LEMMA IdleOK == /\ PollOK(Idle) /\ FollowsShown(Idle)
                /\ PollOK(Idle)' /\ FollowsShown(Idle)'
<1>1. Idle \in PollRecord
  BY DEF Idle, PollRecord
<1> QED BY <1>1 DEF PollOK, PollRead, FollowsShown, Idle, Known

LEMMA PollStays ==
    ASSUME WorldInv, WorldInv', WorldGrows
    PROVE  \A r : PollOK(r) => PollOK(r)'
<1> SUFFICES ASSUME NEW r, PollOK(r) PROVE PollOK(r)'
  OBVIOUS
<1>1. Known(r.baseline)'
  BY KnownStays DEF PollOK, PollRead
<1>2. r.pc # "idle" => objects[r.id] \subseteq objects'[r.id]
  BY DEF PollOK, PollRead, WorldGrows
<1>3. r.pc = "answered" => Supports(r.status, r.id, r.baseline)'
  BY SupportsStays DEF PollOK, PollRead
<1> QED BY <1>1, <1>2, <1>3 DEF PollOK, PollRead

LEMMA ShownStays ==
    ASSUME WorldInv, WorldInv', WorldGrows, ShownOK, UNCHANGED shown
    PROVE  ShownOK'
<1>1. shown.id # None => shown.id \in Ids
  BY DEF ShownOK
<1>2. shown.id # None => Known(shown.baseline)'
  BY KnownStays DEF ShownOK
<1>3. shown.id # None => "trigger" \in objects'[shown.id]
  BY <1>1 DEF ShownOK, WorldGrows
<1>4. shown.id # None => Supports(shown.status, shown.id, shown.baseline)'
  BY <1>1, SupportsStays DEF ShownOK
<1> QED BY <1>2, <1>3, <1>4 DEF ShownOK, Known, Supports, Left

\* The polls keep their invariant while the world grows and no poll moves.
LEMMA PollsStay ==
    ASSUME WorldInv, WorldInv', WorldGrows, PollsInv, UNCHANGED <<poll, shown>>
    PROVE  PollsInv'
<1>1. ASSUME NEW p \in 1..Slots PROVE PollOK(poll[p])' /\ FollowsShown(poll[p])'
  <2>1. PollOK(poll[p])'
    <3>1. poll'[p] = poll[p] /\ PollOK(poll[p])
      BY DEF PollsInv
    <3>2. \A r : PollOK(r) => PollOK(r)'
      BY PollStays
    <3> QED BY <3>1, <3>2 DEF PollOK, PollRead, Known, Supports, Left
  <2>2. FollowsShown(poll[p])'
    BY DEF PollsInv, FollowsShown, WorldGrows
  <2> QED BY <2>1, <2>2
<1>2. ShownOK'
  BY ShownStays DEF PollsInv
<1> QED BY <1>1, <1>2 DEF PollsInv

-----------------------------------------------------------------------------
(* A step of one poll.                                                     *)

LEMMA OnePoll ==
    ASSUME WorldInv, PollsInv, UNCHANGED <<worldVars, shown>>,
           NEW p \in 1..Slots, NEW r, poll' = [poll EXCEPT ![p] = r],
           PollOK(r), FollowsShown(r)
    PROVE  WorldInv' /\ PollsInv'
<1>1. WorldInv' /\ WorldGrows
  BY WorldStands
<1>2. r \in PollRecord
  BY DEF PollOK, PollRead
<1>3. poll' \in [1..Slots -> PollRecord]
  BY <1>2 DEF PollsInv
<1>4. ASSUME NEW q \in 1..Slots PROVE PollOK(poll[q])' /\ FollowsShown(poll[q])'
  <2>1. PollOK(poll'[q]) /\ FollowsShown(poll'[q])
    BY DEF PollsInv
  <2> QED BY <2>1 DEF PollOK, PollRead, FollowsShown, Known, Supports, Left, worldVars
<1>5. ShownOK'
  BY <1>1, ShownStays DEF PollsInv
<1> QED BY <1>1, <1>3, <1>4, <1>5 DEF PollsInv

LEMMA PollFacts ==
    ASSUME PollsInv, NEW p \in 1..Slots
    PROVE  PollOK(poll[p]) /\ FollowsShown(poll[p]) /\ poll[p] \in PollRecord
BY DEF PollsInv

LEMMA AskKeeps ==
    ASSUME WorldInv, PollsInv, UNCHANGED shown, NEW p \in 1..Slots,
           NEW i \in Ids, NEW b, Known(b), Ask(p, i, b)
    PROVE  WorldInv' /\ PollsInv'
<1> DEFINE r == [Idle EXCEPT !.pc = "trigger", !.id = i, !.baseline = b]
<1>1. poll' = [poll EXCEPT ![p] = r] /\ UNCHANGED worldVars
  BY DEF Ask
<1>2. /\ r.pc = "trigger" /\ r.id = i /\ r.baseline = b /\ r.running = FALSE
      /\ r.status = "none" /\ r.failedBefore = FALSE /\ r.overtaken = FALSE
  BY DEF Idle
<1>3. r \in PollRecord
  <2>1. Idle \in PollRecord
    BY DEF Idle, PollRecord
  <2> QED BY <2>1, KnownIsVersion DEF PollRecord
<1>4. PollOK(r)
  BY <1>2, <1>3 DEF PollOK, PollRead
<1>5. FollowsShown(r)
  BY <1>2 DEF FollowsShown, Follows
<1> HIDE DEF r
<1> QED BY <1>1, <1>4, <1>5, OnePoll

LEMMA FailKeeps ==
    ASSUME WorldInv, PollsInv, UNCHANGED <<worldVars, shown>>, NEW p \in 1..Slots, Fail(p)
    PROVE  WorldInv' /\ PollsInv'
BY IdleOK, OnePoll DEF Fail

LEMMA ReadTriggerKeeps ==
    ASSUME WorldInv, PollsInv, UNCHANGED shown, NEW p \in 1..Slots, ReadTrigger(p)
    PROVE  WorldInv' /\ PollsInv'
<1>1. CASE "trigger" \in objects[poll[p].id]
  <2>0. PICK there \in BOOLEAN : there = ("failed" \in objects[poll[p].id])
    <3>1. ("failed" \in objects[poll[p].id]) \in BOOLEAN
      OBVIOUS
    <3> QED BY <3>1, Zenon
  <2> DEFINE r == [poll[p] EXCEPT !.pc = "failed", !.failedBefore = there]
  <2>1. poll' = [poll EXCEPT ![p] = r] /\ UNCHANGED worldVars /\ poll[p].pc = "trigger"
    BY <1>1, <2>0 DEF ReadTrigger, At, PollsInv
  <2>2. PollOK(r)
    BY <1>1, <2>0, <2>1, PollFacts DEF PollOK, PollRead, PollRecord
  <2>3. FollowsShown(r)
    BY <2>1, PollFacts DEF PollOK, PollRead, PollRecord, FollowsShown, Follows
  <2> HIDE DEF r
  <2> QED BY <2>1, <2>2, <2>3, OnePoll
<1>2. CASE "trigger" \notin objects[poll[p].id]
  BY <1>2, FailKeeps DEF ReadTrigger
<1> QED BY <1>1, <1>2

LEMMA ReadFailedKeeps ==
    ASSUME WorldInv, PollsInv, UNCHANGED shown, NEW p \in 1..Slots, ReadFailed(p)
    PROVE  WorldInv' /\ PollsInv'
<1>1. CASE "failed" \in objects[poll[p].id]
  <2> DEFINE r == [poll[p] EXCEPT !.pc = "answered", !.status = "failed", !.running = FALSE]
  <2>1. poll' = [poll EXCEPT ![p] = r] /\ UNCHANGED worldVars /\ poll[p].pc = "failed"
    BY <1>1 DEF ReadFailed, Reply, At, PollsInv
  <2>2. PollOK(r)
    <3>1. PollOK(poll[p]) /\ poll[p] \in PollRecord
      BY PollFacts
    <3>2. /\ r \in PollRecord
          /\ r.pc = "answered" /\ r.status = "failed" /\ r.running = FALSE
          /\ r.id = poll[p].id /\ r.baseline = poll[p].baseline
      BY <3>1 DEF PollRecord, Statuses
    <3> HIDE DEF r
    <3> QED BY <1>1, <2>1, <3>1, <3>2 DEF PollOK, PollRead, Statuses, Supports
  <2>3. FollowsShown(r)
    BY <2>1, PollFacts DEF PollOK, PollRead, PollRecord, FollowsShown, Follows
  <2> HIDE DEF r
  <2> QED BY <2>1, <2>2, <2>3, OnePoll
<1>2. CASE "failed" \notin objects[poll[p].id]
  <2> DEFINE r == [poll[p] EXCEPT !.pc = "running"]
  <2>1. poll' = [poll EXCEPT ![p] = r] /\ UNCHANGED worldVars /\ poll[p].pc = "failed"
    BY <1>2 DEF ReadFailed, Goto, At, PollsInv
  <2>2. PollOK(r)
    BY <1>2, <2>1, PollFacts DEF PollOK, PollRead, PollRecord
  <2>3. FollowsShown(r)
    <3>1. shown.id = poll[p].id /\ shown.id # None => shown.status # "failed"
      BY <1>2 DEF PollsInv, ShownOK, Supports
    <3> QED BY <2>1, <3>1, PollFacts DEF PollOK, PollRead, PollRecord, FollowsShown, Follows
  <2> HIDE DEF r
  <2> QED BY <2>1, <2>2, <2>3, OnePoll
<1> QED BY <1>1, <1>2

LEMMA ReadRunningKeeps ==
    ASSUME WorldInv, PollsInv, UNCHANGED shown, NEW p \in 1..Slots, ReadRunning(p)
    PROVE  WorldInv' /\ PollsInv'
<1>0. PICK there \in BOOLEAN : there = ("running" \in objects[poll[p].id])
  <2>1. ("running" \in objects[poll[p].id]) \in BOOLEAN
    OBVIOUS
  <2> QED BY <2>1, Zenon
<1> DEFINE r == [poll[p] EXCEPT !.pc = "pointer", !.running = there]
<1>1. poll' = [poll EXCEPT ![p] = r] /\ UNCHANGED worldVars /\ poll[p].pc = "running"
  BY <1>0 DEF ReadRunning, At, PollsInv
<1>2. PollOK(r)
  BY <1>0, <1>1, PollFacts DEF PollOK, PollRead, PollRecord
<1>3. FollowsShown(r)
  <2>1. shown.id = poll[p].id /\ shown.id # None /\ shown.status = "running" =>
            "running" \in objects[poll[p].id]
    BY DEF PollsInv, ShownOK, Supports
  <2> QED BY <1>0, <1>1, <2>1, PollFacts DEF PollOK, PollRead, PollRecord, FollowsShown, Follows
<1> HIDE DEF r
<1> QED BY <1>1, <1>2, <1>3, OnePoll

LEMMA ReadPointerKeeps ==
    ASSUME WorldInv, PollsInv, UNCHANGED shown, NEW p \in 1..Slots, ReadPointer(p)
    PROVE  WorldInv' /\ PollsInv'
<1> DEFINE r == [poll[p] EXCEPT !.pc = "answered", !.status = Decide(p), !.running = FALSE]
<1>1. poll' = [poll EXCEPT ![p] = r] /\ UNCHANGED worldVars /\ poll[p].pc = "pointer"
  BY DEF ReadPointer, Reply, At, PollsInv
<1>2. /\ Decide(p) \in {"completed", "running", "pending"}
      /\ Decide(p) = "completed" => Left(poll[p].id, poll[p].baseline)
      /\ Left(poll[p].id, poll[p].baseline) /\ poll[p].baseline \notin returned =>
            Decide(p) = "completed"
      /\ Decide(p) = "running" => poll[p].running
      /\ Decide(p) = "pending" => ~poll[p].running
  BY PollFacts DEF Decide, Moved, Left, PollRecord
<1>3. PollOK(r)
  <2>1. PollOK(poll[p]) /\ poll[p] \in PollRecord
    BY PollFacts
  <2>2. /\ r \in PollRecord
        /\ r.pc = "answered" /\ r.status = Decide(p) /\ r.running = FALSE
        /\ r.id = poll[p].id /\ r.baseline = poll[p].baseline
        /\ r.failedBefore = poll[p].failedBefore
    BY <1>2, <2>1 DEF PollRecord, Statuses
  <2> HIDE DEF r
  <2> QED BY <1>1, <1>2, <2>1, <2>2 DEF PollOK, PollRead, Statuses, Supports
<1>4. FollowsShown(r)
  <2>1. shown.id = poll[p].id /\ shown.id # None /\ shown.baseline = poll[p].baseline
        /\ shown.baseline \notin returned /\ shown.status = "completed" => Decide(p) = "completed"
    BY <1>2 DEF PollsInv, ShownOK, Supports
  <2> QED BY <1>1, <1>2, <2>1, PollFacts DEF PollOK, PollRead, PollRecord, FollowsShown, Follows
<1> HIDE DEF r
<1> QED BY <1>1, <1>3, <1>4, OnePoll

\* After an answer is taken, the polls that are on their way are overtaken.
LEMMA TakeKeeps ==
    ASSUME WorldInv, PollsInv, NEW p \in 1..Slots, Take(p)
    PROVE  WorldInv' /\ PollsInv'
<1>1. WorldInv' /\ WorldGrows /\ UNCHANGED worldVars
  BY WorldStands DEF Take, Collect
<1>2. ASSUME NEW q \in 1..Slots
      PROVE  \/ poll'[q] = Idle
             \/ poll'[q] = [poll[q] EXCEPT !.overtaken = TRUE]
  BY DEF Take, Collect
<1>3. \A r : PollOK(r) => PollOK([r EXCEPT !.overtaken = TRUE])
  <2> SUFFICES ASSUME NEW r, PollOK(r) PROVE PollOK([r EXCEPT !.overtaken = TRUE])
    OBVIOUS
  <2>1. r \in PollRecord
    BY DEF PollOK, PollRead
  <2> DEFINE o == [r EXCEPT !.overtaken = TRUE]
  <2>2. /\ o \in PollRecord
        /\ o.pc = r.pc /\ o.id = r.id /\ o.baseline = r.baseline /\ o.running = r.running
        /\ o.status = r.status /\ o.failedBefore = r.failedBefore
    BY <2>1 DEF PollRecord
  <2>3. PollRead(o)
    BY <2>2 DEF PollOK, PollRead
  <2> HIDE DEF o
  <2> QED BY <2>2, <2>3 DEF PollOK, o
<1>4. ASSUME NEW q \in 1..Slots PROVE PollOK(poll'[q]) /\ (poll'[q].pc = "idle" \/ poll'[q].overtaken)
  <2>1. CASE poll'[q] = Idle
    BY <2>1, IdleOK DEF Idle
  <2>2. CASE poll'[q] = [poll[q] EXCEPT !.overtaken = TRUE]
    BY <1>3, <2>2, PollFacts DEF PollRecord
  <2> QED BY <1>2, <2>1, <2>2
<1>5. poll' \in [1..Slots -> PollRecord]
  <2>1. DOMAIN poll' = 1..Slots /\ poll' = [q \in 1..Slots |-> poll'[q]]
    BY DEF Take, Collect
  <2> QED BY <1>4, <2>1 DEF PollOK, PollRead
<1>6. ASSUME NEW q \in 1..Slots PROVE PollOK(poll[q])' /\ FollowsShown(poll[q])'
  BY <1>1, <1>4 DEF PollOK, PollRead, FollowsShown, Known, Supports, Left, worldVars
<1>7. ShownOK'
  <2>1. shown' = [id |-> poll[p].id, baseline |-> poll[p].baseline, status |-> poll[p].status]
        /\ poll[p].pc = "answered"
    BY DEF Take, Collect, At
  <2>2. PollOK(poll[p]) /\ poll[p] \in PollRecord
    BY PollFacts
  <2> QED BY <1>1, <2>1, <2>2 DEF ShownOK, PollOK, PollRead, PollRecord, Known, Supports, Left, worldVars
<1> QED BY <1>1, <1>5, <1>6, <1>7 DEF PollsInv

LEMMA HandlerKeeps ==
    ASSUME WorldInv, PollsInv, UNCHANGED shown, NEW p \in 1..Slots, Handler(p) \/ PollFails(p)
    PROVE  WorldInv' /\ PollsInv' /\ UNCHANGED worldVars
<1>1. UNCHANGED worldVars
  BY DEF Handler, ReadTrigger, ReadFailed, ReadRunning, ReadPointer, PollFails
<1> QED
  BY <1>1, ReadTriggerKeeps, ReadFailedKeeps, ReadRunningKeeps, ReadPointerKeeps, FailKeeps
  DEF Handler, PollFails

-----------------------------------------------------------------------------
(* The page.                                                               *)

\* The baseline of a page that has submitted a trigger with one stays where it
\* is, below the version that the trigger's run promotes.
PageInv ==
    /\ Known(text) /\ Known(baseline)
    /\ field \in Ids \cup {None}
    /\ polling \in BOOLEAN /\ based \in BOOLEAN
    /\ submit \in {"no", "sent"} \cup Ids
    /\ fired \in Ids \cup {None}
    /\ based => baseline # None
    /\ fired # None =>
         baseline # None /\ (run[fired] = "promoted" => baseline < Len(author))

ConsoleInv == WorldInv /\ PollsInv /\ PageInv

\* The page and the polls stay as they are while the world grows.
LEMMA PageStays ==
    ASSUME WorldInv, WorldInv', WorldGrows, PageInv, UNCHANGED pageVars
    PROVE  PageInv'
<1>1. Known(text)' /\ Known(baseline)'
  BY KnownStays DEF PageInv, pageVars, Known
<1>2. fired # None =>
        baseline # None /\ (run'[fired] = "promoted" => baseline < Len(author'))
  <2> SUFFICES ASSUME fired # None, run'[fired] = "promoted"
               PROVE  baseline < Len(author')
    BY DEF PageInv
  <2>1. fired \in Ids /\ baseline \in 1..Len(author)
    BY DEF PageInv, Known
  <2>2. Len(author) \in Nat /\ Len(author') \in Nat /\ Len(author) <= Len(author')
    BY DEF WorldInv, WorldGrows
  <2> QED BY <2>1, <2>2 DEF PageInv, WorldGrows
<1> QED BY <1>1, <1>2 DEF PageInv, pageVars

LEMMA InitConsoleInv == ConsoleInit => ConsoleInv
<1> SUFFICES ASSUME ConsoleInit PROVE ConsoleInv
  OBVIOUS
<1>1. WorldInv
  BY InitWorldInv DEF ConsoleInit
<1>2. ShownOK
  BY DEF ConsoleInit, Nothing, ShownOK
<1>3. \A p \in 1..Slots : poll[p] = Idle /\ poll \in [1..Slots -> {Idle}]
  BY DEF ConsoleInit, StatusInit
<1>4. PollsInv
  <2>1. Idle \in PollRecord /\ PollOK(Idle) /\ FollowsShown(Idle)
    BY IdleOK DEF PollOK, PollRead
  <2>2. poll = [p \in 1..Slots |-> Idle]
    BY DEF ConsoleInit, StatusInit
  <2> QED BY <1>2, <1>3, <2>1, <2>2 DEF PollsInv
<1>5. PageInv
  BY DEF ConsoleInit, PageInv, Known
<1> QED BY <1>1, <1>4, <1>5 DEF ConsoleInv

LEMMA WorldStepKeeps == ASSUME ConsoleInv, World, UNCHANGED pageVars PROVE ConsoleInv'
<1>1. WorldInv' /\ WorldGrows /\ UNCHANGED <<poll, shown>>
  BY WorldKeeps DEF ConsoleInv, pageVars
<1> QED BY <1>1, PollsStay, PageStays DEF ConsoleInv

LEMMA ServeKeeps == ASSUME ConsoleInv, NEW p \in 1..Slots, Serve(p) PROVE ConsoleInv'
<1>1. WorldInv' /\ PollsInv' /\ UNCHANGED worldVars /\ UNCHANGED pageVars
  BY HandlerKeeps DEF ConsoleInv, Serve, pageVars
<1>2. PageInv'
  BY <1>1, WorldStands, PageStays DEF ConsoleInv
<1> QED BY <1>1, <1>2 DEF ConsoleInv

LEMMA TakeStepKeeps == ASSUME ConsoleInv, NEW p \in 1..Slots, Take(p) PROVE ConsoleInv'
<1>1. WorldInv' /\ PollsInv'
  BY TakeKeeps DEF ConsoleInv
<1>2. PageInv'
  BY DEF ConsoleInv, Take, Collect, PageInv, worldVars, Known
<1> QED BY <1>1, <1>2 DEF ConsoleInv

\* The actions of the page that touch neither the world nor the polls.
LEMMA QuietKeeps ==
    ASSUME ConsoleInv, Refresh \/ Submit \/ SubmitFails \/ \E i \in Ids \cup {None} : Type(i)
    PROVE  ConsoleInv'
<1>1. UNCHANGED statusVars /\ UNCHANGED shown
  BY DEF Refresh, Submit, SubmitFails, Type
<1>2. WorldInv' /\ WorldGrows /\ PollsInv'
  BY <1>1, WorldStands, PollsStay DEF ConsoleInv, statusVars
<1>3. PageInv'
  <2>1. CASE Refresh
    <3>1. PICK v \in {None} \cup 1..Len(author) :
            text' \in {text, v} /\ baseline' = Rebased(v)
      BY <2>1 DEF Refresh
    <3>2. Len(author) \in Nat /\ Known(v)
      BY <3>1 DEF ConsoleInv, WorldInv, PageInv, Known
    <3>3. UNCHANGED <<author, run, field, polling, submit, based, fired>>
      BY <1>1, <2>1 DEF Refresh, statusVars, worldVars
    <3>4. baseline' = IF baseline = None THEN v ELSE baseline
      BY <3>1 DEF Rebased
    <3> QED BY <3>1, <3>2, <3>3, <3>4 DEF ConsoleInv, PageInv, Known
  <2>2. CASE Submit
    <3>1. UNCHANGED <<author, run, text, field, polling>>
      BY <1>1, <2>2 DEF Submit, statusVars, worldVars
    <3>2. /\ submit' = "sent" /\ fired' = None
          /\ baseline' = IF text # None THEN text ELSE baseline
          /\ based' = (baseline' # None)
      BY <2>2 DEF Submit
    <3>3. based' \in BOOLEAN /\ (based' => baseline' # None)
      BY <3>2
    <3> QED BY <3>1, <3>2, <3>3 DEF ConsoleInv, PageInv, Known
  <2>3. CASE SubmitFails
    BY <1>1, <2>3 DEF SubmitFails, statusVars, worldVars, ConsoleInv, PageInv, Known
  <2>4. CASE \E i \in Ids \cup {None} : Type(i)
    <3>1. PICK i \in Ids \cup {None} : Type(i)
      BY <2>4
    <3>2. field' = i /\ polling' \in BOOLEAN
      BY <3>1 DEF Type, ConsoleInv, PageInv
    <3>3. UNCHANGED <<author, run, text, baseline, submit, based, fired>>
      BY <1>1, <3>1 DEF Type, statusVars, worldVars
    <3> QED BY <3>2, <3>3 DEF ConsoleInv, PageInv, Known
  <2> QED BY <2>1, <2>2, <2>3, <2>4
<1> QED BY <1>2, <1>3 DEF ConsoleInv

\* A trigger is made.
LEMMA PublishKeeps ==
    ASSUME ConsoleInv, NEW i \in Ids, Created(i) \/ Refused(i)
    PROVE  ConsoleInv'
<1>1. PublishQueued(i) \/ PublishRefused(i)
  BY DEF Created, Refused
<1>2. WorldInv' /\ WorldGrows /\ poll' = poll /\ run'[i] # "promoted"
  BY <1>1, PublishGrows DEF ConsoleInv
<1>3. /\ submit' \in {"no", "sent"} \cup Ids
      /\ based' = FALSE /\ fired' = IF based THEN i ELSE None
      /\ UNCHANGED <<text, baseline, field, polling, shown>>
  BY DEF Created, Refused, Fired
<1>4. PollsInv'
  BY <1>2, <1>3, PollsStay DEF ConsoleInv
<1>5. PageInv'
  <2>1. Known(text)' /\ Known(baseline)'
    BY <1>2, <1>3, KnownStays DEF ConsoleInv, PageInv, Known
  <2> QED BY <1>2, <1>3, <2>1 DEF ConsoleInv, PageInv
<1> QED BY <1>2, <1>4, <1>5 DEF ConsoleInv

LEMMA PollOfKeeps ==
    ASSUME ConsoleInv, NEW i \in Ids \cup {None}, PollOf(i) \/ UNCHANGED statusVars, UNCHANGED shown
    PROVE  WorldInv' /\ PollsInv' /\ UNCHANGED worldVars
<1>1. CASE UNCHANGED statusVars
  BY <1>1, WorldStands, PollsStay DEF ConsoleInv, statusVars
<1>2. CASE i # None /\ PollOf(i)
  <2>1. PICK p \in 1..Slots : Ask(p, i, baseline)
    BY <1>2 DEF PollOf
  <2> QED BY <1>2, <2>1, AskKeeps DEF ConsoleInv, PageInv, Ask
<1> QED BY <1>1, <1>2 DEF PollOf

LEMMA AutoPollKeeps ==
    ASSUME ConsoleInv, TakeId \/ ToggleAutoPoll \/ Poll
    PROVE  ConsoleInv'
<1>1. PICK i \in Ids \cup {None} : PollOf(i) \/ UNCHANGED statusVars
  BY DEF TakeId, ToggleAutoPoll, Poll, StartAutoPoll, ConsoleInv, PageInv
<1>2. UNCHANGED <<text, baseline, shown, based, fired>>
  BY DEF TakeId, ToggleAutoPoll, Poll, pageVars
<1>3. WorldInv' /\ PollsInv' /\ UNCHANGED worldVars
  BY <1>1, <1>2, PollOfKeeps
<1>4. field' \in Ids \cup {None} /\ polling' \in BOOLEAN /\ submit' \in {"no", "sent"} \cup Ids
  BY DEF TakeId, ToggleAutoPoll, Poll, StartAutoPoll, pageVars, ConsoleInv, PageInv
<1>5. PageInv'
  BY <1>2, <1>3, <1>4 DEF ConsoleInv, PageInv, Known, worldVars
<1> QED BY <1>3, <1>5 DEF ConsoleInv

LEMMA StepKeepsConsoleInv == ConsoleInv /\ [Next]_vars => ConsoleInv'
<1> SUFFICES ASSUME ConsoleInv, [Next]_vars PROVE ConsoleInv'
  OBVIOUS
<1>1. CASE UNCHANGED vars
  <2>1. UNCHANGED worldVars /\ UNCHANGED <<poll, shown>> /\ UNCHANGED pageVars
    BY <1>1 DEF vars, statusVars, pageVars
  <2> QED BY <2>1, WorldStands, PollsStay, PageStays DEF ConsoleInv
<1>2. CASE Next
  BY <1>2, WorldStepKeeps, ServeKeeps, TakeStepKeeps, QuietKeeps, PublishKeeps, AutoPollKeeps
  DEF Next
<1> QED BY <1>1, <1>2

LEMMA ConsoleInvariant == Spec => []ConsoleInv
BY InitConsoleInv, StepKeepsConsoleInv, PTL DEF Spec

-----------------------------------------------------------------------------
(* The endpoint below the page.                                            *)

\* A baseline of the page is a version, so a poll of the page is one that the
\* endpoint answers to any client.
LEMMA PollOfIsAsk ==
    ASSUME ConsoleInv, NEW i \in Ids \cup {None}, PollOf(i) \/ UNCHANGED statusVars
    PROVE  [StatusNext]_statusVars
<1>1. baseline \in Versions \cup {None}
  BY KnownIsVersion DEF ConsoleInv, PageInv
<1> QED BY <1>1 DEF PollOf, StatusNext

\* Every behaviour of the page is, below it, one of the endpoint under any
\* clients (app.py, trigger_status; admin.html, pollTrigger).
THEOREM ConsoleIsAClient == Spec => StatusSpec
<1>1. ASSUME ConsoleInv, [Next]_vars PROVE [StatusNext]_statusVars
  <2>1. CASE UNCHANGED vars
    BY <2>1 DEF vars
  <2>2. CASE World /\ UNCHANGED pageVars
    BY <2>2 DEF StatusNext
  <2>3. CASE Refresh \/ Submit \/ SubmitFails \/ \E i \in Ids \cup {None} : Type(i)
    BY <2>3 DEF Refresh, Submit, SubmitFails, Type
  <2>4. CASE \E i \in Ids : Created(i) \/ Refused(i)
    BY <2>4 DEF Created, Refused, StatusNext
  <2>5. CASE TakeId \/ ToggleAutoPoll \/ Poll
    <3>1. PICK i \in Ids \cup {None} : PollOf(i) \/ UNCHANGED statusVars
      BY <1>1, <2>5 DEF TakeId, ToggleAutoPoll, Poll, StartAutoPoll, ConsoleInv, PageInv
    <3> QED BY <1>1, <3>1, PollOfIsAsk
  <2>6. CASE \E p \in 1..Slots : Serve(p) \/ Take(p)
    BY <2>6 DEF Serve, Take, StatusNext
  <2> QED BY <1>1, <2>1, <2>2, <2>3, <2>4, <2>5, <2>6 DEF Next
<1>2. ConsoleInit => StatusInit
  BY DEF ConsoleInit
<1> QED BY <1>1, <1>2, ConsoleInvariant, PTL DEF Spec, StatusSpec

\* What the endpoint tells any client it tells the page: the end of a run, to a
\* poll that is about to read what that end has left.
COROLLARY ConsoleIsToldTheEnd == Spec => EndIsSeen
BY ConsoleIsAClient, EndpointTellsEnd

-----------------------------------------------------------------------------
(* The theorems.                                                           *)

\* Every variable keeps its kind, and a poll has read only what is there.
THEOREM ConsoleTypes == Spec => []ConsoleTypeOK
<1>1. ConsoleInv => ConsoleTypeOK
  <2> SUFFICES ASSUME ConsoleInv PROVE ConsoleTypeOK
    OBVIOUS
  <2>1. \A b : Known(b) => b \in Versions \cup {None}
    BY KnownIsVersion DEF ConsoleInv
  <2>2. pointer \in Versions \cup {None} /\ returned \subseteq Versions
    BY PointerIsVersion DEF ConsoleInv
  <2>3. \A p \in 1..Slots :
          /\ poll[p].pc \in {"failed", "running", "pointer"} =>
                poll[p].id \in Ids /\ "trigger" \in objects[poll[p].id]
          /\ poll[p].running => poll[p].id \in Ids /\ "running" \in objects[poll[p].id]
    BY DEF ConsoleInv, PollsInv, PollOK, PollRead
  <2>4. StatusTypeOK
    BY <2>2, <2>3 DEF ConsoleInv, WorldInv, PollsInv, PollRecord, StatusTypeOK
  <2>5. shown \in [id : Ids \cup {None}, baseline : Versions \cup {None},
                  status : Statuses \cup {"none"}]
    BY DEF ConsoleInv, PollsInv, ShownOK
  <2> QED BY <2>1, <2>4, <2>5 DEF ConsoleInv, PageInv, ConsoleTypeOK
<1> QED BY <1>1, ConsoleInvariant, PTL

\* A poll whose handling begins when failed.json is there answers "failed"
\* (app.py, the state machine comment of trigger_status).
THEOREM FailureAlwaysWins == Spec => []FailureWins
BY ConsoleIsAClient, EndpointFailureWins

\* The version that the run of the page's own trigger promotes never becomes
\* the page's baseline (admin.html, the submit handler and render).
THEOREM OwnRunIsAlwaysSeen == Spec => []OwnRunIsSeen
<1>1. ConsoleInv => OwnRunIsSeen
  <2> SUFFICES ASSUME ConsoleInv, fired # None, run[fired] = "promoted", PromotionIsBaseline
               PROVE  baseline \in returned
    BY DEF OwnRunIsSeen
  <2>1. baseline < Len(author) /\ Len(author) \in Nat /\ baseline \in 1..Len(author)
    BY DEF ConsoleInv, PageInv, WorldInv, Known
  <2>2. pointer = Len(author) \/ pointer \in returned
    BY <2>1 DEF ConsoleInv, WorldInv
  <2> QED BY <2>1, <2>2 DEF PromotionIsBaseline
<1> QED BY <1>1, ConsoleInvariant, PTL

\* Only an answer that is taken changes the panel.
LEMMA ShownMoves ==
    ASSUME Next, shown' # shown
    PROVE  \E p \in 1..Slots : Take(p)
BY DEF Next, pageVars, Refresh, Submit, SubmitFails, Created, Refused, TakeId, ToggleAutoPoll,
       Poll, Type, Serve

\* What the panel tells of a trigger goes back only by the late answer of a poll
\* that another answer has overtaken (app.py, trigger_status; admin.html,
\* pollTrigger).
THEOREM OnlyLateAnswersGoBack == Spec => AnswersNeverGoBack
<1> DEFINE Back == /\ shown.id # None
                   /\ shown'.id = shown.id /\ shown'.baseline = shown.baseline
                   /\ Rank(shown'.status) < Rank(shown.status)
           Late == \/ shown.baseline \in returned
                   \/ \E p \in 1..Slots :
                        poll[p].overtaken /\ At(p, "answered") /\ poll'[p] = Idle
<1>1. ASSUME ConsoleInv, Next, Back PROVE Late
  <2>1. shown.status \in Statuses
    BY <1>1 DEF ConsoleInv, PollsInv, ShownOK
  <2>2. \A s \in Statuses : Rank(s) \in 1..4
    BY DEF Statuses, Rank
  <2>3. shown' # shown
    <3>1. ~(Rank(shown.status) < Rank(shown.status))
      BY <2>1, <2>2
    <3> QED BY <1>1, <3>1
  <2>4. PICK p \in 1..Slots : Take(p)
    BY <1>1, <2>3, ShownMoves
  <2>5. /\ poll[p].pc = "answered" /\ poll'[p] = Idle
        /\ shown' = [id |-> poll[p].id, baseline |-> poll[p].baseline, status |-> poll[p].status]
    BY <2>4 DEF Take, Collect, At
  <2>6. PollOK(poll[p]) /\ FollowsShown(poll[p])
    BY <1>1, PollFacts DEF ConsoleInv
  <2>7. ~poll[p].overtaken /\ shown.baseline \notin returned =>
            Follows(poll[p], shown.status) /\ poll[p].status \in Statuses
    BY <1>1, <2>5, <2>6 DEF PollOK, PollRead, FollowsShown
  <2>8. ~poll[p].overtaken /\ shown.baseline \notin returned =>
            ~(Rank(poll[p].status) < Rank(shown.status))
    BY <2>1, <2>5, <2>7 DEF Follows, Statuses, Rank
  <2> QED BY <1>1, <2>5, <2>8 DEF At
<1>2. ConsoleInv /\ [Next]_vars => [Back => Late]_vars
  BY <1>1
<1> HIDE DEF Back, Late
<1>3. ConsoleInv /\ [Next]_vars => [Back => Late]_vars
  BY <1>2
<1>4. Spec => [][Back => Late]_vars
  BY <1>3, ConsoleInvariant, PTL DEF Spec
<1> QED BY <1>4 DEF Back, Late, AnswersNeverGoBack
=============================================================================
