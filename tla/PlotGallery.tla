----------------------------- MODULE PlotGallery -----------------------------
(***************************************************************************)
(* What the dashboard promises about the plots it shows: they are all of   *)
(* one set of events, the one rendered; another set is shown in an empty   *)
(* gallery, and plots come one by one.  Once a fetch has escaped from its  *)
(* grid nothing is promised any more.                                      *)
(* PlotRender implements this specification.                               *)
(***************************************************************************)
CONSTANTS Keys, Selections, None

VARIABLES
    plots,      \* plots[k]: the set of events that plot k was computed for
    rendered,   \* the set of events the gallery shows
    escaped     \* a fetch has lost its grid

vars == <<plots, rendered, escaped>>

Empty == [k \in Keys |-> None]

Init ==
    /\ plots = Empty
    /\ rendered \in Selections \cup {None}
    /\ escaped = FALSE

\* A plot comes, of the events that are rendered.
Hang(k) ==
    /\ rendered # None
    /\ plots' = [plots EXCEPT ![k] = rendered]
    /\ UNCHANGED <<rendered, escaped>>

\* The gallery is emptied, for another set of events, the same again, or none.
Rehang(sel) ==
    /\ plots' = Empty
    /\ rendered' = sel
    /\ UNCHANGED escaped

Escape == escaped' = TRUE

Next ==
    \/ Escape
    \/ ~escaped /\ \/ \E k \in Keys : Hang(k)
                   \/ \E sel \in Selections \cup {None} : Rehang(sel)

Spec == Init /\ [][Next]_vars

-----------------------------------------------------------------------------
(* What follows from this specification alone.                             *)

\* The gallery never mixes two sets of events.
OfRendered == ~escaped => \A k \in Keys : plots[k] \in {None, rendered}

=============================================================================
