---------------------------- MODULE TriggerStatus ----------------------------
(***************************************************************************)
(* app.py, GET /trigger-status/<id>: a client polls whether the run of its *)
(* trigger has come to an end.  The handler reads trigger.json,            *)
(* failed.json, running.json and the channel pointer one after the other   *)
(* and decides from the four; the training side, which is not in this      *)
(* repository, writes them meanwhile.  A poll may carry a baseline: the    *)
(* version that was served before the trigger was made.  Several polls may *)
(* be on their way at once, and an answer waits until its client takes it. *)
(* StatusSpec is the endpoint under any clients: they poll any trigger with *)
(* any baseline; AdminConsole is one of them, the page of the console.     *)
(***************************************************************************)
EXTENDS Naturals, Sequences

CONSTANTS
    Ids,            \* trigger ids
    Slots,          \* BOUND: polls on their way at once
    None,           \* no version, no pointer, no baseline
    MaxVersions     \* BOUND: versions promoted

ASSUME StatusAssumption ==
    /\ Slots \in Nat /\ MaxVersions \in Nat
    /\ None \notin Nat \cup Ids

VARIABLES
    objects,        \* id -> the objects of its trigger folder
    run,            \* id -> the state of its training run
    newer,          \* id -> the pointer's updated_at is later than the time in the id
    pointer,        \* the version of the channel pointer, or None
    author,         \* history: version -> the trigger whose run promoted it
    returned,       \* history: the versions the pointer was put back to
    poll            \* poll -> where it is, what it asks and what it has read

worldVars == <<objects, run, newer, pointer, author, returned>>
statusVars == <<worldVars, poll>>

Objects == {"trigger", "running", "failed"}
Runs == {"none", "queued", "running", "promoted", "failed"}
Statuses == {"pending", "running", "completed", "failed"}
Versions == 1..MaxVersions

\* A poll: its id and baseline, whether running.json was there, its answer; and
\* as history, whether failed.json was there when its handling began and whether
\* the answer of another poll has been taken since it was sent.
Idle == [pc |-> "idle", id |-> None, baseline |-> None, running |-> FALSE,
         status |-> "none", failedBefore |-> FALSE, overtaken |-> FALSE]

StatusInit ==
    /\ objects = [i \in Ids |-> {}]
    /\ run = [i \in Ids |-> "none"]
    /\ newer = [i \in Ids |-> FALSE]
    /\ pointer = None
    /\ author = <<>> /\ returned = {}
    /\ poll = [p \in 1..Slots |-> Idle]

-----------------------------------------------------------------------------
(* The training side.                                                      *)

AddObjects(i, s) == objects' = [objects EXCEPT ![i] = @ \cup s]
SetRun(i, r) == run' = [run EXCEPT ![i] = r]

\* publish_trigger.  The id holds its time of creation in whole seconds: it may
\* look older than a promotion earlier in the same second.
Publish(i, r, s) ==
    /\ run[i] = "none"
    /\ \E sameSecond \in BOOLEAN :
        /\ sameSecond => pointer # None
        /\ newer' = [newer EXCEPT ![i] = sameSecond]
    /\ SetRun(i, r) /\ AddObjects(i, s)
    /\ UNCHANGED <<pointer, author, returned, poll>>

\* The run is queued.
PublishQueued(i) == Publish(i, "queued", {"trigger"})

\* The dispatch is refused and failed.json says so, or it goes unanswered:
\* failed.json is there although the run is queued.
PublishRefused(i) == \E r \in {"queued", "failed"} : Publish(i, r, {"trigger", "failed"})

StartRun(i) ==
    /\ run[i] = "queued"
    /\ SetRun(i, "running") /\ AddObjects(i, {"running"})
    /\ UNCHANGED <<newer, pointer, author, returned, poll>>

\* A run fails, before or after it has said that it runs.
FailRun(i) ==
    /\ run[i] \in {"queued", "running"}
    /\ SetRun(i, "failed") /\ AddObjects(i, {"failed"})
    /\ UNCHANGED <<newer, pointer, author, returned, poll>>

\* A write of the pointer carries its own time, updated_at, a roll-back too.
SetPointer(v) ==
    /\ pointer' = v
    /\ newer' = [i \in Ids |-> newer[i] \/ run[i] # "none"]
    /\ UNCHANGED <<objects, poll>>

NewPointer(by) ==
    /\ Len(author) < MaxVersions
    /\ author' = Append(author, by)
    /\ SetPointer(Len(author'))
    /\ UNCHANGED returned

\* A run ends with the promotion of the version it made.  It may never do so: a run
\* that ends without one, and without failed.json, looks like one that goes on.
PromoteRun(i) == run[i] = "running" /\ SetRun(i, "promoted") /\ NewPointer(i)

\* A version made by no trigger of these is promoted.
PromoteOther == NewPointer(None) /\ UNCHANGED run

\* The pointer is put back to a version promoted before.  BOUND: once, and after
\* a run has been promoted.
PutBack ==
    /\ returned = {} /\ \E i \in Ids : run[i] = "promoted"
    /\ \E v \in 1..Len(author) \ {pointer} : SetPointer(v) /\ returned' = {v}
    /\ UNCHANGED <<run, author>>

World ==
    \/ \E i \in Ids : StartRun(i) \/ FailRun(i) \/ PromoteRun(i)
    \/ PromoteOther \/ PutBack

-----------------------------------------------------------------------------
(* The handler.                                                            *)

At(p, pc) == poll[p].pc = pc
Goto(p, pc) == poll' = [poll EXCEPT ![p].pc = pc]
Reply(p, status) ==
    poll' = [poll EXCEPT ![p].pc = "answered", ![p].status = status, ![p].running = FALSE]
Fail(p) == poll' = [poll EXCEPT ![p] = Idle]

\* A client sends a poll, in the first slot that is free.
Ask(p, i, b) ==
    /\ At(p, "idle") /\ \A q \in 1..p - 1 : ~At(q, "idle")
    /\ poll' = [poll EXCEPT ![p] = [Idle EXCEPT !.pc = "trigger", !.id = i, !.baseline = b]]
    /\ UNCHANGED worldVars

ReadTrigger(p) ==
    /\ At(p, "trigger")
    /\ IF "trigger" \in objects[poll[p].id]
        THEN poll' = [poll EXCEPT ![p].pc = "failed",
                                  ![p].failedBefore = "failed" \in objects[poll[p].id]]
        ELSE Fail(p)
    /\ UNCHANGED worldVars

\* Mutant of ReadFailed: a marker counts only for a run that has started.
ReadFailedIfRun(p) ==
    /\ At(p, "failed")
    /\ IF {"failed", "running"} \subseteq objects[poll[p].id]
        THEN Reply(p, "failed") ELSE Goto(p, "running")
    /\ UNCHANGED worldVars

ReadFailed(p) ==
    /\ At(p, "failed")
    /\ IF "failed" \in objects[poll[p].id] THEN Reply(p, "failed") ELSE Goto(p, "running")
    /\ UNCHANGED worldVars

\* Mutant of ReadRunning: a published trigger is taken for a running one.
ReadRunningAssumed(p) ==
    /\ At(p, "running")
    /\ poll' = [poll EXCEPT ![p].pc = "pointer", ![p].running = TRUE]
    /\ UNCHANGED worldVars

ReadRunning(p) ==
    /\ At(p, "running")
    /\ poll' = [poll EXCEPT ![p].pc = "pointer",
                            ![p].running = "running" \in objects[poll[p].id]]
    /\ UNCHANGED worldVars

\* Mutant of Moved: the timestamps are compared the wrong way round.
MovedBefore(p) ==
    IF poll[p].baseline # None THEN pointer # poll[p].baseline
                               ELSE ~newer[poll[p].id]

\* The pointer has left the baseline; without one, it is newer than the id.
Moved(p) ==
    IF poll[p].baseline # None THEN pointer # poll[p].baseline
                               ELSE newer[poll[p].id]

\* Mutant of Decide: running.json is looked at before the pointer.
DecideRunningFirst(p) ==
    IF poll[p].running THEN "running"
    ELSE IF pointer # None /\ Moved(p) THEN "completed" ELSE "pending"

Decide(p) ==
    IF pointer # None /\ Moved(p) THEN "completed"
    ELSE IF poll[p].running THEN "running" ELSE "pending"

ReadPointer(p) ==
    /\ At(p, "pointer")
    /\ Reply(p, Decide(p))
    /\ UNCHANGED worldVars

\* A read raises and nothing catches it, or the connection is lost: the client
\* gets a 500 or nothing, which is all the same to it.
PollFails(p) ==
    /\ ~At(p, "idle")
    /\ Fail(p)
    /\ UNCHANGED worldVars

\* An answer is taken, and overtakes the polls that are on their way.
Collect(p) ==
    /\ At(p, "answered")
    /\ poll' = [q \in 1..Slots |->
            IF q = p \/ At(q, "idle") THEN Idle ELSE [poll[q] EXCEPT !.overtaken = TRUE]]
    /\ UNCHANGED worldVars

Handler(p) == ReadTrigger(p) \/ ReadFailed(p) \/ ReadRunning(p) \/ ReadPointer(p)

StatusNext ==
    \/ \E p \in 1..Slots : Handler(p) \/ PollFails(p) \/ Collect(p)
    \/ \E p \in 1..Slots, i \in Ids, b \in Versions \cup {None} : Ask(p, i, b)
    \/ \E i \in Ids : PublishQueued(i) \/ PublishRefused(i)
    \/ World

StatusSpec == StatusInit /\ [][StatusNext]_statusVars

-----------------------------------------------------------------------------
\* Types; and a poll goes on past trigger.json only for a trigger that is
\* there, having seen running.json only if it is there (no object of a trigger
\* folder is deleted once the trigger is published).
StatusTypeOK ==
    /\ objects \in [Ids -> SUBSET Objects]
    /\ run \in [Ids -> Runs]
    /\ newer \in [Ids -> BOOLEAN]
    /\ author \in Seq(Ids \cup {None}) /\ Len(author) <= MaxVersions
    /\ pointer \in Versions \cup {None} /\ returned \subseteq Versions
    /\ poll \in [1..Slots -> [pc : {"idle", "trigger", "failed", "running", "pointer", "answered"},
                           id : Ids \cup {None}, baseline : Versions \cup {None},
                           running : BOOLEAN, status : Statuses \cup {"none"},
                           failedBefore : BOOLEAN, overtaken : BOOLEAN]]
    /\ \A p \in 1..Slots : poll[p].pc \in {"failed", "running", "pointer"} =>
            poll[p].id \in Ids /\ "trigger" \in objects[poll[p].id]
    /\ \A p \in 1..Slots : poll[p].running =>
            poll[p].id \in Ids /\ "running" \in objects[poll[p].id]

\* The failure marker wins: a poll whose handling begins when failed.json is
\* there answers "failed", whatever promotions have moved the pointer since
\* (app.py, the state machine comment;
\* test_failed_marker_overrides_completed_pointer).
FailureWins ==
    \A p \in 1..Slots : poll[p].failedBefore /\ poll[p].status # "none" =>
        poll[p].status = "failed"

\* A poll that is about to read what the end of its run has left tells that end,
\* and never that the run goes on: failed.json after a failure, and after a
\* promotion the pointer, unless it is the very baseline (app.py, the state
\* machine comment).
EndIsSeen ==
    [][\A p \in 1..Slots :
        /\ At(p, "failed") /\ run[poll[p].id] = "failed" /\ poll'[p].pc \notin {"failed", "idle"}
           => poll'[p].status = "failed"
        /\ (/\ At(p, "pointer") /\ run[poll[p].id] = "promoted" /\ poll[p].baseline # pointer
            /\ poll'[p].pc \notin {"pointer", "idle"})
           => poll'[p].status = "completed"]_statusVars

\* A poll with a baseline answers "completed" only if the version it found was
\* promoted by the run of that trigger: the docstring of trigger_status calls it
\* "exact and reliable regardless of unrelated promotions that happened between".
BaselineIsExact ==
    [][\A p \in 1..Slots :
        (/\ At(p, "pointer") /\ poll'[p].status = "completed"
         /\ poll[p].baseline # None) => author[pointer] = poll[p].id]_statusVars
=============================================================================
