----------------------------- MODULE TaskNotice -----------------------------
(***************************************************************************)
(* What the client promises of the modal that tells a user about a task:   *)
(* while it says a task is running no other task takes its place; it ends  *)
(* by saying what became of that task, or that contact with it was lost;   *)
(* and it goes only once it has said so.  Nothing is promised once a poll  *)
(* of another task writes to the modal.                                    *)
(* Both stores of TaskTracking implement this specification.               *)
(***************************************************************************)
CONSTANTS Tasks, NoTask

VARIABLES
    fate,       \* fate[t]: "open", or what became of task t
    notice,     \* the task the modal is about
    says,       \* "nothing", "running" or an outcome
    lost,       \* tasks contact was lost with
    stuck,      \* a task that was over was shown as running
    excused     \* two tasks are polled for one modal

vars == <<fate, notice, says, lost, stuck, excused>>

Outcomes == {"completed", "failed", "cancelled"}

Init ==
    /\ fate = [t \in Tasks |-> "open"]
    /\ notice = NoTask /\ says = "nothing"
    /\ lost = {} /\ stuck = FALSE /\ excused = FALSE

End(t) ==
    /\ fate[t] = "open"
    /\ \E o \in Outcomes : fate' = [fate EXCEPT ![t] = o]
    /\ UNCHANGED <<notice, says, lost, stuck, excused>>

Show(t) ==
    /\ says = "running" => stuck
    /\ notice' = t /\ says' = "running"
    /\ UNCHANGED stuck \/ stuck' = TRUE
    /\ UNCHANGED <<fate, lost, excused>>

Report ==
    /\ says = "running" /\ says' \in Outcomes
    /\ \/ says' = fate[notice] /\ UNCHANGED lost
       \/ says' = "failed" /\ lost' = lost \cup {notice}
    /\ UNCHANGED <<fate, notice, stuck, excused>>

\* What was said is put away; "failed" stays for what is wrong with the scope
\* itself.
Close ==
    /\ says # "running"
    /\ notice' = NoTask /\ says' \in {"nothing", "failed"}
    /\ UNCHANGED <<fate, lost, stuck, excused>>

Escape == excused' = TRUE

Next ==
    \/ Escape
    \/ ~excused /\ \/ \E t \in Tasks : End(t) \/ Show(t)
                   \/ Report \/ Close

Spec == Init /\ [][Next]_vars

-----------------------------------------------------------------------------

\* An outcome the modal tells is that of its task, unless contact was lost.
TellsTheTruth ==
    (~excused /\ notice # NoTask /\ says \in Outcomes) =>
        says = fate[notice] \/ (says = "failed" /\ notice \in lost)

=============================================================================
