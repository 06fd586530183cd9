----------------------------- MODULE ServedModel -----------------------------
(***************************************************************************)
(* What the serving process promises about the model it serves, whatever   *)
(* its threads do: it starts with none, and from then on changes it only   *)
(* in one step to a model that is intact under a promoted version; it      *)
(* never goes back to none.  ModelStore implements this.                   *)
(***************************************************************************)
CONSTANTS
    Versions,       \* the versions that may be promoted
    Models,         \* the models that may be served
    None            \* no model

VARIABLES
    promoted,       \* versions the channel pointer has named so far
    intact,         \* <<version, model>> pairs that were stored with a
                    \* manifest of this model that gives their digest
    served          \* the <<version, model>> pair that is served, or None

vars == <<promoted, intact, served>>

Init == served = None

\* The training side publishes; a version promoted once, and a pair intact
\* once, stays so.
Publish ==
    /\ promoted \subseteq promoted'
    /\ intact \subseteq intact'
    /\ UNCHANGED served

Serve(v, m) ==
    /\ v \in promoted
    /\ <<v, m>> \in intact
    /\ served' = <<v, m>>
    /\ UNCHANGED <<promoted, intact>>

Next == Publish \/ \E v \in Versions, m \in Models : Serve(v, m)

Spec == Init /\ [][Next]_vars
=============================================================================
