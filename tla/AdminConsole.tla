---------------------------- MODULE AdminConsole ----------------------------
(***************************************************************************)
(* templates/admin.html: one open page of the admin console, over the      *)
(* status endpoint of TriggerStatus.  The page refreshes its view of the   *)
(* served model every 30 s, keeps a baseline version, submits triggers and *)
(* polls the trigger whose id stands in its input field, every 15 s or at  *)
(* a click.  No fetch waits for an earlier one: answers may come late and  *)
(* out of order.  The operator's clicks and inputs come at any time.       *)
(***************************************************************************)
EXTENDS TriggerStatus

VARIABLES
    text,           \* #kv-version: the version shown, or None for a dash
    baseline,       \* _baselineVersion
    field,          \* #ts-id: the id in the input field, or None
    polling,        \* _autoPollInterval is set
    shown,          \* the status panel: the last poll shown in it
    submit,         \* the trigger form: "no", "sent", or the id answered
    based,          \* history: the submission on its way was made with a baseline
    fired           \* history: the trigger it made, if it had a baseline

pageVars == <<text, baseline, field, polling, shown, submit, based, fired>>
vars == <<statusVars, pageVars>>

Nothing == [id |-> None, baseline |-> None, status |-> "none"]

ConsoleInit ==
    /\ StatusInit
    /\ text = None /\ baseline = None
    /\ field = None /\ polling = FALSE /\ shown = Nothing
    /\ submit = "no" /\ based = FALSE /\ fired = None

-----------------------------------------------------------------------------
(* The view of the served model.                                           *)

\* Mutant of Rebased: the baseline follows the served version.
RebasedAlways(v) == IF v # None THEN v ELSE baseline

\* The first version that is seen becomes the baseline.
Rebased(v) == IF baseline = None THEN v ELSE baseline

\* BOUND: a submission for each id.
CanSubmit == \E i \in Ids : run[i] = "none"

\* doRefresh and render.  /admin/api/status tells the model in memory: none while
\* the process is in standby, or a version as old as the last reload; and a late
\* answer, a stale reload or a restart may bring either back.  BOUND: the text is
\* kept as long as Submit may read it.
Refresh ==
    /\ \E served \in {None} \cup 1..Len(author) :
        /\ text' = IF CanSubmit THEN served ELSE text
        /\ baseline' = Rebased(served)
    /\ UNCHANGED <<statusVars, field, polling, shown, submit, based, fired>>

-----------------------------------------------------------------------------
(* The trigger form.                                                       *)

\* The text of the page, when it is a version, becomes the baseline.
Submit ==
    /\ submit = "no" /\ CanSubmit
    /\ submit' = "sent"
    /\ baseline' = IF text # None THEN text ELSE baseline
    /\ based' = (baseline' # None)
    /\ fired' = None
    /\ UNCHANGED <<statusVars, text, field, polling, shown>>

Fired(i) == based' = FALSE /\ fired' = IF based THEN i ELSE None

\* POST /trigger-train makes a trigger.
Created(i) ==
    /\ submit = "sent" /\ PublishQueued(i)
    /\ submit' = i /\ Fired(i)
    /\ UNCHANGED <<text, baseline, field, polling, shown>>

\* It makes one and answers that the dispatch was refused.
Refused(i) ==
    /\ submit = "sent" /\ PublishRefused(i)
    /\ submit' = "no" /\ Fired(i)
    /\ UNCHANGED <<text, baseline, field, polling, shown>>

\* It is refused before it makes one, or its answer is lost.
SubmitFails ==
    /\ submit # "no"
    /\ submit' = "no" /\ based' = FALSE
    /\ UNCHANGED <<statusVars, text, baseline, field, polling, shown, fired>>

-----------------------------------------------------------------------------
(* Polling.                                                                *)

\* pollTrigger: nothing is sent while the field is empty.
PollOf(i) ==
    IF i = None THEN UNCHANGED statusVars ELSE \E p \in 1..Slots : Ask(p, i, baseline)

\* startAutoPoll: the first poll goes out at once, unless the timer runs already.
StartAutoPoll(i) ==
    /\ polling' = TRUE
    /\ IF polling THEN UNCHANGED statusVars ELSE PollOf(i)

\* The id of the new trigger is put in the field.
TakeId ==
    /\ submit \in Ids
    /\ submit' = "no"
    /\ field' = submit
    /\ StartAutoPoll(submit)
    /\ UNCHANGED <<text, baseline, shown, based, fired>>

\* onTriggerIdInput: an empty field stops the timer.  An id is copied from where
\* its trigger was made: its random part is not guessed.
Type(i) ==
    /\ field # i /\ (i # None => run[i] # "none")
    /\ field' = i
    /\ polling' = (polling /\ i # None)
    /\ UNCHANGED <<statusVars, text, baseline, shown, submit, based, fired>>

ToggleAutoPoll ==
    /\ IF polling THEN polling' = FALSE /\ UNCHANGED statusVars ELSE StartAutoPoll(field)
    /\ UNCHANGED <<text, baseline, field, shown, submit, based, fired>>

\* The timer ticks, or the button is clicked.
Poll ==
    /\ field # None /\ PollOf(field)
    /\ UNCHANGED pageVars

Stops(s) == s \in {"completed", "failed"}

\* The answer of a poll comes: it is shown, whichever id the field holds by now,
\* and a status that is terminal stops the timer.
Take(p) ==
    /\ Collect(p)
    /\ shown' = [id |-> poll[p].id, baseline |-> poll[p].baseline, status |-> poll[p].status]
    /\ polling' = (polling /\ ~Stops(poll[p].status))
    /\ UNCHANGED <<text, baseline, field, submit, based, fired>>

-----------------------------------------------------------------------------
Serve(p) == (Handler(p) \/ PollFails(p)) /\ UNCHANGED pageVars

Next ==
    \/ World /\ UNCHANGED pageVars
    \/ Refresh \/ Submit \/ SubmitFails
    \/ \E i \in Ids : Created(i) \/ Refused(i)
    \/ TakeId \/ ToggleAutoPoll \/ Poll
    \/ \E i \in Ids \cup {None} : Type(i)
    \/ \E p \in 1..Slots : Serve(p) \/ Take(p)

Spec == ConsoleInit /\ [][Next]_vars

\* Among the steps of the polling one is always taken while there is one to take:
\* the timer sends polls, the process handles them, their answers reach the page.
\* And the polls do not fail for ever.
Polling ==
    \/ polling /\ Poll
    \/ \E p \in 1..Slots : (Handler(p) /\ UNCHANGED pageVars) \/ Take(p)

FairSpec ==
    /\ Spec
    /\ WF_poll(Polling)
    /\ <>[][\A p \in 1..Slots : ~PollFails(p)]_poll

-----------------------------------------------------------------------------
\* Types of the page's variables, and those of the endpoint below it.
ConsoleTypeOK ==
    /\ StatusTypeOK
    /\ text \in Versions \cup {None}
    /\ baseline \in Versions \cup {None}
    /\ field \in Ids \cup {None}
    /\ polling \in BOOLEAN /\ based \in BOOLEAN
    /\ shown \in [id : Ids \cup {None}, baseline : Versions \cup {None},
                  status : Statuses \cup {"none"}]
    /\ submit \in {"no", "sent"} \cup Ids
    /\ fired \in Ids \cup {None}

PromotionIsBaseline == baseline # None /\ pointer # None /\ baseline = pointer

\* The timer is set for a trigger whose run has failed, or was promoted.
Untold(i) ==
    /\ polling /\ field = i
    /\ run[i] = "failed" \/ (run[i] = "promoted" /\ ~PromotionIsBaseline)

\* A timer set for a trigger whose run has been promoted or has failed is not
\* left running: an answer ends it, unless the operator turns to another id, or
\* the pointer names the page's baseline: the page has taken that very promotion
\* for it (see OwnRunIsSeen), or the pointer was put back to it.
EndIsTold == \A i \in Ids : []<>~Untold(i)

\* The page that submitted a trigger with a baseline does not take the version
\* its run promotes for the baseline, however its refreshes come: it sees the
\* run complete, unless the pointer was put back to that baseline.  (A page that
\* had seen no version yet has no such luck: if the version is loaded and
\* rendered before the next poll, the polls go on.)
OwnRunIsSeen ==
    fired # None /\ run[fired] = "promoted" /\ PromotionIsBaseline => baseline \in returned

Rank(s) == CASE s = "pending" -> 1 [] s = "running" -> 2
             [] s = "completed" -> 3 [] s = "failed" -> 4

\* What the panel tells of a trigger goes back - from completed to running, from
\* failed to anything - only when the pointer was put back to the baseline, or an
\* answer of a poll sent before the last answer came is shown after it: each
\* answer is made of four reads, and those of polls made one after the other never
\* contradict each other.
AnswersNeverGoBack ==
    [][/\ shown.id # None
       /\ shown'.id = shown.id /\ shown'.baseline = shown.baseline
       /\ Rank(shown'.status) < Rank(shown.status)
       => \/ shown.baseline \in returned
          \/ \E p \in 1..Slots : poll[p].overtaken /\ At(p, "answered") /\ poll'[p] = Idle]_vars
=============================================================================
