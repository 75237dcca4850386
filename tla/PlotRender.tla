----------------------------- MODULE PlotRender -----------------------------
(***************************************************************************)
(* Rendering plots on the dashboard: the store of plots                    *)
(* (stores/render-store.ts), the grid that starts and stops a render       *)
(* (components/dashboard/plot-grid/PlotGrid.tsx), its hook that fetches    *)
(* one plot after another (hooks/use-sequential-plot-data.ts), and the     *)
(* viewer that fetches one plot when it is missing                         *)
(* (hooks/use-lazy-plot-fetch.ts).  The tabs mount one of the two views.   *)
(*                                                                         *)
(* A set of events is one value, and a plot is the set it was computed     *)
(* for.  React runs the effects of a view after every change, with what    *)
(* was rendered before them, until nothing changes: Becomes.               *)
(***************************************************************************)
EXTENDS Naturals, FiniteSets

CONSTANTS
    Selections,     \* sets of event ids that can be selected
    None,           \* the empty set; no plot
    NumPlots,       \* DEFAULT_PLOT_KEYS_ARRAY.length, at most MAX_CACHED_PLOTS
    MaxMoves,       \* bound: clicks
    MaxFailures     \* bound: fetches that fail

ASSUME RenderAssumption ==
    /\ None \notin Selections
    /\ NumPlots \in Nat \ {0} /\ MaxMoves \in Nat /\ MaxFailures \in Nat

Keys == 1..NumPlots

VARIABLES
    rendering,  \* isRendering
    cached,     \* cachedPlots
    loading,    \* loadingPlots
    errors,     \* keys of plotErrors
    selected,   \* selected_event_ids of the session
    rendered,   \* rendered_event_ids of the session
    grid,       \* refs and state of the mounted PlotGrid and its hook
    cycles,     \* calls of startSequentialFetch that have not returned
    tab,        \* "grid" or "interactive"
    chosen,     \* selectedPlotKey, 0 for null
    lazy,       \* the viewer's useLazyPlotFetch
    moves, failures,
    orphaned,   \* history: a grid was unmounted while its cycle went on
    flickered   \* history: the session was read again under the viewer

page == <<rendering, cached, loading, errors, selected, rendered, grid, cycles, tab,
          chosen, lazy>>
vars == <<page, moves, failures, orphaned, flickered>>

NoPlots == [k \in Keys |-> None]
Loaded(plots) == {k \in Keys : plots[k] # None}

\* prev is previousRenderedCountRef: "null", "zero" or "some".
NewGrid == [started |-> FALSE, streaming |-> FALSE, prev |-> "null"]

\* own: of the mounted grid; live: fetchIdRef still has the cycle's number.
Cycle(sel) == [own |-> TRUE, live |-> TRUE, aborted |-> FALSE, sel |-> sel, key |-> 1]

DroppedNever(c) == FALSE
Dropped(c) == c.aborted \/ ~c.live

NoRequest == [key |-> 0, sel |-> None]
NoDeps == [key |-> 0, sel |-> None, has |-> FALSE]
NewLazy == [loading |-> FALSE, error |-> FALSE, fetched |-> NoRequest,
            req |-> NoRequest, deps |-> NoDeps]

\* A page is loaded with what the session holds.
Init ==
    /\ rendering = FALSE /\ cached = NoPlots /\ loading = {} /\ errors = {}
    /\ selected \in Selections \cup {None} /\ rendered \in Selections \cup {None}
    /\ grid = [NewGrid EXCEPT !.prev = IF rendered = None THEN "zero" ELSE "some"]
    /\ cycles = {}
    /\ tab = "grid" /\ chosen = 0 /\ lazy = NewLazy
    /\ moves = 0 /\ failures = 0
    /\ orphaned = FALSE /\ flickered = FALSE

-----------------------------------------------------------------------------
(* The hook's three operations, on a record w of the page.                 *)

Page == [rendering |-> rendering, cached |-> cached, loading |-> loading,
         errors |-> errors, selected |-> selected, rendered |-> rendered, grid |-> grid,
         cycles |-> cycles, tab |-> tab, chosen |-> chosen, lazy |-> lazy]

Own(cs, Change(_)) == {IF c.own THEN Change(c) ELSE c : c \in cs}
SupersededLater(c) == [c EXCEPT !.aborted = TRUE]
Superseded(c) == [c EXCEPT !.aborted = TRUE, !.live = FALSE]
Aborted(c) == [c EXCEPT !.aborted = TRUE]

Starts(w, sel) ==
    [w EXCEPT !.cached = NoPlots, !.loading = Keys, !.errors = {},
              !.grid.started = TRUE, !.grid.streaming = TRUE,
              !.cycles = Own(@, Superseded) \cup {Cycle(sel)}]

\* stopFetch
StopsLoosely(w) == [w EXCEPT !.grid.streaming = FALSE, !.cycles = Own(@, Superseded)]
Stops(w) == [w EXCEPT !.grid.streaming = FALSE, !.loading = {}, !.cycles = Own(@, Superseded)]

\* reset aborts too, but does not move fetchIdRef on.
Resets(w) == [w EXCEPT !.cached = NoPlots, !.loading = {}, !.errors = {},
                       !.grid.streaming = FALSE, !.cycles = Own(@, Aborted)]

-----------------------------------------------------------------------------
(* The effects of PlotGrid: c is what was rendered, w what they change.    *)

Triggers(c, w) ==
    IF ~c.rendering THEN [w EXCEPT !.grid.started = FALSE]
    ELSE IF ~c.grid.started /\ c.selected # None
         THEN [Starts(w, c.selected) EXCEPT !.rendered = c.selected]
    ELSE w

Cancels(c, w) == IF ~c.rendering /\ c.grid.streaming THEN Stops(w) ELSE w

CompleteIfAll(c) == Loaded(c.cached) = Keys
CompleteIfAny(c) == Loaded(c.cached) # {}
Complete(c) ==
    \/ Loaded(c.cached) = Keys
    \/ /\ ~c.grid.streaming /\ c.rendering /\ c.loading = {}
       /\ Loaded(c.cached) # {} \/ c.errors # {}

Finishes(c, w) ==
    IF (c.rendering \/ c.grid.streaming) /\ Complete(c)
    THEN [w EXCEPT !.rendering = FALSE] ELSE w

Clears(c, w) ==
    LET cleared == c.grid.prev = "some" /\ c.rendered = None
        v == IF cleared /\ Loaded(c.cached) # {} THEN Resets(w) ELSE w
    IN  [v EXCEPT !.grid.prev = IF c.rendered = None THEN "zero" ELSE "some"]

GridEffects(c) == Clears(c, Finishes(c, Cancels(c, Triggers(c, c))))

\* The effect of useLazyPlotFetch, with its clean-up, when what it depends on
\* is not what it was.
Watches(z, deps) ==
    LET y == [z EXCEPT !.deps = deps, !.req = NoRequest]
        want == [key |-> deps.key, sel |-> deps.sel]
    IN  IF deps = z.deps THEN z
        ELSE IF deps.key = 0 \/ deps.sel = None \/ deps.has \/ z.fetched = want THEN y
        ELSE [y EXCEPT !.fetched = want, !.req = want, !.loading = TRUE, !.error = FALSE]

Deps(w) == [key |-> w.chosen, sel |-> w.rendered,
            has |-> w.chosen # 0 /\ w.cached[w.chosen] # None]

\* The effects of the view that is mounted.
Effects(w) ==
    IF w.tab = "grid" THEN GridEffects([w EXCEPT !.lazy = NewLazy])
    ELSE [w EXCEPT !.lazy = Watches(w.lazy, Deps(w))]

\* The page is w, and after three rounds of effects nothing changes any more.
Becomes(w) ==
    \E u \in {Effects(w)} : \E v \in {Effects(u)} : \E z \in {Effects(v)} :
        /\ rendering' = z.rendering /\ cached' = z.cached /\ loading' = z.loading
        /\ errors' = z.errors /\ selected' = z.selected /\ rendered' = z.rendered
        /\ grid' = z.grid /\ cycles' = z.cycles
        /\ tab' = z.tab /\ chosen' = z.chosen /\ lazy' = z.lazy

Move == moves < MaxMoves /\ moves' = moves + 1 /\ UNCHANGED failures
History == <<orphaned, flickered>>

-----------------------------------------------------------------------------
(* The user.                                                               *)

\* Events are checked and unchecked, or pruned by a filter.
Select(sel) ==
    /\ tab = "grid" /\ selected # sel /\ Move
    /\ Becomes([Page EXCEPT !.selected = sel])
    /\ UNCHANGED History

\* handleRender: the button is "Render" or "Stop".
Render ==
    /\ tab = "grid" /\ selected # None /\ Move
    /\ Becomes([Page EXCEPT !.rendering = ~@])
    /\ UNCHANGED History

\* handleClear
Clear ==
    /\ tab = "grid" /\ rendered # None /\ Move
    /\ Becomes([Page EXCEPT !.rendered = None, !.chosen = 0, !.rendering = FALSE])
    /\ UNCHANGED History

\* handleExpand: the grid is unmounted, and nothing aborts its cycle.
Expand(k) ==
    /\ tab = "grid" /\ k \notin loading \cup errors /\ Move
    /\ Becomes([Page EXCEPT !.tab = "interactive", !.chosen = k, !.grid = NewGrid,
                            !.cycles = {[c EXCEPT !.own = FALSE] : c \in @}])
    /\ orphaned' = (orphaned \/ \E c \in cycles : c.own /\ ~Dropped(c))
    /\ UNCHANGED flickered

\* onReturnToGrid: the clean-up of the viewer aborts, a new grid is mounted.
ReturnToGrid ==
    /\ tab = "interactive" /\ Move
    /\ Becomes([Page EXCEPT !.tab = "grid", !.grid = NewGrid])
    /\ UNCHANGED History

\* The session query is evicted and read again: for a moment the viewer has
\* no rendered events, then a new array of the same.
Reread ==
    /\ tab = "interactive" /\ rendered # None /\ Move
    /\ Becomes([Page EXCEPT !.lazy = Watches(@, [Deps(Page) EXCEPT !.sel = None])])
    /\ flickered' = TRUE /\ UNCHANGED orphaned

-----------------------------------------------------------------------------
(* The answers.                                                            *)

\* What is left when c has dealt with its plot.  Only the latest call of its
\* hook ends the streaming.
Returns(w, c) ==
    [w EXCEPT !.cycles = @ \ {c},
              !.grid.streaming = @ /\ ~(c.own /\ c.live),
              !.loading = IF c.live /\ c.aborted THEN {} ELSE @]

GoesOn(w, c) ==
    IF c.key = NumPlots THEN Returns(w, c)
    ELSE [w EXCEPT !.cycles = (@ \ {c}) \cup {[c EXCEPT !.key = @ + 1]}]

Unloads(w, c) == IF c.live THEN [w EXCEPT !.loading = @ \ {c.key}] ELSE w

Caches(w, k, sel) == [w EXCEPT !.cached[k] = sel]

Arrives(w, c) == GoesOn(Unloads([Caches(w, c.key, c.sel) EXCEPT !.errors = @ \ {c.key}], c), c)

\* fetchAndDecodePlot returns, for a cycle that is not superseded or aborted,
\* throws for one that is, or fails.
PlotArrives(c) ==
    /\ c \in cycles
    /\ Becomes(IF Dropped(c) THEN Returns(Unloads(Page, c), c) ELSE Arrives(Page, c))
    /\ UNCHANGED <<moves, failures, History>>

Failure == failures < MaxFailures /\ failures' = failures + 1 /\ UNCHANGED <<moves, History>>

PlotFails(c) ==
    /\ c \in cycles /\ ~Dropped(c) /\ Failure
    /\ Becomes(GoesOn(Unloads([Page EXCEPT !.errors = @ \cup {c.key}], c), c))

AnsweredLoading == [lazy EXCEPT !.req = NoRequest]
Answered == [lazy EXCEPT !.req = NoRequest, !.loading = FALSE]

LazyArrives ==
    /\ lazy.req # NoRequest
    /\ Becomes([Caches(Page, lazy.req.key, lazy.req.sel) EXCEPT !.lazy = Answered])
    /\ UNCHANGED <<moves, failures, History>>

LazyFails ==
    /\ lazy.req # NoRequest /\ Failure
    /\ Becomes([Page EXCEPT !.lazy = [Answered EXCEPT !.error = TRUE]])

-----------------------------------------------------------------------------
Next ==
    \/ \E sel \in Selections \cup {None} : Select(sel)
    \/ Render \/ Clear
    \/ \E k \in Keys : Expand(k)
    \/ ReturnToGrid \/ Reread
    \/ \E c \in cycles : PlotArrives(c) \/ PlotFails(c)
    \/ LazyArrives \/ LazyFails

\* A fetch ends: it has a timeout.
Answers == (\E c \in cycles : PlotArrives(c) \/ PlotFails(c)) \/ LazyArrives \/ LazyFails

Spec == Init /\ [][Next]_vars /\ WF_vars(Answers)

-----------------------------------------------------------------------------
Events == Selections \cup {None}

\* The components have the values the code gives them, and at most one cycle
\* of the mounted grid is live: a new one supersedes those before.
TypeOK ==
    /\ rendering \in BOOLEAN
    /\ cached \in [Keys -> Events]
    /\ loading \subseteq Keys /\ errors \subseteq Keys
    /\ selected \in Events /\ rendered \in Events
    /\ grid \in [started : BOOLEAN, streaming : BOOLEAN, prev : {"null", "zero", "some"}]
    /\ cycles \subseteq [own : BOOLEAN, live : BOOLEAN, aborted : BOOLEAN,
                         sel : Selections, key : Keys]
    /\ \A c, d \in cycles : c.own /\ c.live /\ d.own /\ d.live => c = d
    /\ tab \in {"grid", "interactive"} /\ chosen \in Keys \cup {0}
    /\ lazy \in [loading : BOOLEAN, error : BOOLEAN,
                 fetched : [key : Keys \cup {0}, sel : Events],
                 req : [key : Keys \cup {0}, sel : Events],
                 deps : [key : Keys \cup {0}, sel : Events, has : BOOLEAN]]
    /\ moves \in 0..MaxMoves /\ failures \in 0..MaxFailures
    /\ orphaned \in BOOLEAN /\ flickered \in BOOLEAN

\* A plot on show is of the events that were rendered, whatever was clicked
\* and whichever fetch came late (use-sequential-plot-data.ts:66-68,
\* use-lazy-plot-fetch.ts:44), as long as no cycle lost its grid.
PlotsOfRendered == ~orphaned => \A k \in Keys : cached[k] \in {None, rendered}

\* Plots come and go as in a gallery of one set of events: a plot that comes is of
\* what is rendered, and another set is rendered only with no plot left of the one
\* before (startSequentialFetch and reset in use-sequential-plot-data.ts).
Gallery == INSTANCE PlotGallery WITH plots <- cached, escaped <- orphaned
ImplementsGallery == Gallery!Spec

\* A plot that shows a spinner has a cycle that will come to it: stopping,
\* clearing, restarting and changing tabs leave no spinner behind
\* (use-sequential-plot-data.ts:79-83, 93-98, 113).
SpinnersEnd == \A k \in loading : \E c \in cycles : c.live /\ ~c.aborted /\ c.key <= k

\* A render that comes to its end by itself leaves no blank card: each plot is
\* there or has its error (PlotGrid.tsx:139-161).
FinishedIsFull ==
    [][rendering /\ ~rendering' /\ moves' = moves =>
         orphaned \/ \A k \in Keys : cached'[k] = rendered' \/ k \in errors']_vars

\* A viewer that says it is loading has a request under way, unless a cycle
\* without a grid or a second read of the session made its effect abort the
\* request and think it made already (use-lazy-plot-fetch.ts:31, 52-54).
ViewerLoads ==
    lazy.loading => lazy.req # NoRequest \/ orphaned \/ flickered

\* A render ends under the grid's eyes, whatever failed (PlotGrid.tsx:139-161).
RenderingEnds ==
    rendering /\ tab = "grid" ~> ~rendering \/ tab # "grid" \/ selected = None

\* "No re-fetch needed on tab switch - data persists across component
\* unmount/remount" (PlotGrid.tsx:185-186).
TabSwitchKeepsPlots == [][tab = "interactive" /\ tab' = "grid" => cached' = cached]_vars

=============================================================================
