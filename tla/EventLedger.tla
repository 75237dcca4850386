---------------------------- MODULE EventLedger ----------------------------
(***************************************************************************)
(* What the event table promises to the people who upload: an event id is  *)
(* given to one upload at a time, an upload adds events one by one, and    *)
(* events disappear only when the upload that committed them is withdrawn. *)
(* Nothing is promised of an id once an upload withdrawn before has been   *)
(* withdrawn again and has taken it along.                                 *)
(* FolderUpload implements this specification.                             *)
(***************************************************************************)
CONSTANT Uploads

VARIABLES
    events,     \* rows of dim_event: [id, by, hash]
    withdrawn,  \* uploads whose events have been withdrawn
    lost        \* ids of events that a repeated withdrawal has removed

Init == events = {} /\ withdrawn = {} /\ lost = {}

\* Upload u adds one event under an id nobody holds.
Commit(u) ==
    /\ \E e \in events' \ events :
        /\ e.by = u
        /\ \A x \in events : x.id # e.id
        /\ events' = events \cup {e}
    /\ UNCHANGED <<withdrawn, lost>>

\* Some of u's events are removed for the first time; of anybody else's only
\* what carries an id already lost.
Withdraw(u) ==
    /\ u \notin withdrawn
    /\ events' \subseteq events
    /\ \A x \in events \ events' : x.by = u \/ x.id \in lost
    /\ withdrawn' = withdrawn \cup {u}
    /\ UNCHANGED lost

\* u is withdrawn again: whatever this removes, its id is lost.
WithdrawAgain(u) ==
    /\ u \in withdrawn
    /\ events' \subseteq events
    /\ lost \subseteq lost'
    /\ \A x \in events \ events' : x.id \in lost'
    /\ UNCHANGED withdrawn

Next == \E u \in Uploads : Commit(u) \/ Withdraw(u) \/ WithdrawAgain(u)

Spec == Init /\ [][Next]_<<events, withdrawn, lost>>

-----------------------------------------------------------------------------
(* What follows from this specification alone.                             *)

\* No two events have one id, whatever was withdrawn, twice or at all.
OneHolder == \A x, y \in events : x.id = y.id => x = y

=============================================================================
