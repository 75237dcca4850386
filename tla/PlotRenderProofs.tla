--------------------------- MODULE PlotRenderProofs ---------------------------
(***************************************************************************)
(* Proofs about PlotRender: its types, that plots are of the rendered      *)
(* events, that spinners and a loading viewer have somebody at work, and   *)
(* that a render that ends by itself is complete.                          *)
(*                                                                         *)
(* The predicates are about a page as a record, for the effects pass three *)
(* pages nobody sees between one state and the next.                       *)
(***************************************************************************)
EXTENDS PlotRender, TLAPS

CycleType == [own : BOOLEAN, live : BOOLEAN, aborted : BOOLEAN, sel : Selections, key : Keys]
GridType == [started : BOOLEAN, streaming : BOOLEAN, prev : {"null", "zero", "some"}]
RequestType == [key : Keys \cup {0}, sel : Events]
DepsType == [key : Keys \cup {0}, sel : Events, has : BOOLEAN]
LazyType == [loading : BOOLEAN, error : BOOLEAN, fetched : RequestType, req : RequestType,
             deps : DepsType]
PageType == [rendering : BOOLEAN, cached : [Keys -> Events], loading : SUBSET Keys,
             errors : SUBSET Keys, selected : Events, rendered : Events, grid : GridType,
             cycles : SUBSET CycleType, tab : {"grid", "interactive"}, chosen : Keys \cup {0},
             lazy : LazyType]

\* A cycle is at work until it is dropped.
Works(c) == c.live /\ ~c.aborted

\* The cycles of page w: a superseded one is not live, and one that is at
\* work for the mounted grid makes it stream.
CyclesSound(w) ==
    /\ \A c, d \in w.cycles : c.own /\ c.live /\ d.own /\ d.live => c = d
    /\ \A c \in w.cycles : c.live => ~c.aborted
    /\ \A c \in w.cycles : c.own /\ Works(c) => w.grid.streaming

Spins(w) == \A k \in w.loading : \E c \in w.cycles : Works(c) /\ c.key <= k

\* The viewer asks for the plot chosen, of what is rendered, and no grid streams.
Viewing(w) ==
    w.tab = "interactive" =>
      /\ w.chosen \in Keys /\ ~w.grid.streaming
      /\ w.lazy.req # NoRequest => w.lazy.req = [key |-> w.chosen, sel |-> w.rendered]

Sound(w) == w \in PageType /\ CyclesSound(w) /\ Spins(w) /\ Viewing(w)

\* The grid is about to start a cycle.
About(w) == w.rendering /\ ~w.grid.started /\ w.selected # None

Counted(w) == w.grid.prev = IF w.rendered = None THEN "zero" ELSE "some"

\* One round of effects leaves nothing to start or to finish, two leave
\* nothing to do.
Calm(w) ==
    /\ ~About(w)
    /\ w.rendering => ~Complete(w)
    /\ w.grid.prev = "some" => w.rendered # None
    /\ w.lazy = NewLazy

Settled(w) ==
    /\ Calm(w) /\ Counted(w)
    /\ ~w.rendering => ~w.grid.started /\ ~w.grid.streaming

\* Each plot is loading, there or failed.
Covered(w) == \A k \in Keys : k \in w.loading \/ w.cached[k] # None \/ k \in w.errors

\* No cycle lost its grid: who is at work works for what is rendered.
Tidy(w) ==
    /\ \A c \in w.cycles : Works(c) => c.own /\ c.sel = w.rendered /\ w.tab = "grid"
    /\ \A k \in Keys : w.cached[k] \in {None, w.rendered}
    /\ w.rendering => Covered(w) \/ (w.tab = "grid" /\ About(w))

\* The viewer has seen the page, and is at work if it says so.
Served(w) ==
    w.tab = "interactive" =>
      w.lazy.deps = Deps(w) /\ (w.lazy.loading => w.lazy.req # NoRequest)

\* The viewer's effect has run for the page that is on show.
Watching(w) == w.tab = "interactive" => w.lazy.deps = Deps(w)

\* Page w shows what page p does, with one more plot of it at most.
Hung(p, w) ==
    /\ w.rendered = p.rendered
    /\ w.cached = p.cached \/ \E k \in Keys : w.cached = [p.cached EXCEPT ![k] = p.rendered]

\* A round of effects keeps the plots and what is rendered, or empties the grid.
Kept(w, e) == e.cached = NoPlots \/ (e.cached = w.cached /\ e.rendered = w.rendered)

Counts ==
    /\ moves \in 0..MaxMoves /\ failures \in 0..MaxFailures
    /\ orphaned \in BOOLEAN /\ flickered \in BOOLEAN

IInv ==
    /\ Counts
    /\ Sound(Page)
    /\ tab = "grid" => Settled(Page)
    /\ ~orphaned => Tidy(Page)
    /\ ~orphaned /\ ~flickered => Served(Page)
    /\ Watching(Page)

-----------------------------------------------------------------------------
(* One round of effects under a grid.                                      *)

\* A selection was cleared: then nothing is rendering.
Unrendered(w) == w.grid.prev = "some" /\ w.rendered = None
Ready(w) == w.tab = "grid" /\ Unrendered(w) => ~w.rendering

\* What no effect of the grid changes.
Framed(w, e) ==
    /\ e \in PageType
    /\ e.tab = w.tab /\ e.selected = w.selected /\ e.chosen = w.chosen /\ e.lazy = NewLazy
    /\ e.grid.prev = IF w.rendered = None THEN "zero" ELSE "some"

\* The grid's own cycles are dropped, those of others stay.
OwnDropped(w, e) ==
    /\ \A c \in e.cycles : /\ c.own => ~c.live
                           /\ ~c.own => c \in w.cycles
    /\ \A c \in w.cycles : ~c.own => c \in e.cycles

\* The round starts a cycle, goes on, or ends what went on.
Begun(w, e) ==
    /\ e.rendering = ~Complete(w) /\ e.rendered = w.selected
    /\ e.cached = NoPlots /\ e.loading = Keys /\ e.errors = {}
    /\ e.grid.started = TRUE /\ e.grid.streaming = TRUE
    /\ e.cycles = Own(w.cycles, Superseded) \cup {Cycle(w.selected)}

Continued(w, e) ==
    /\ e.rendering = ~Complete(w) /\ e.rendered = w.rendered
    /\ e.cached = w.cached /\ e.loading = w.loading /\ e.errors = w.errors
    /\ e.grid.started = w.grid.started /\ e.grid.streaming = w.grid.streaming
    /\ e.cycles = w.cycles

Ended(w, e) ==
    /\ e.rendering = FALSE /\ e.rendered = w.rendered
    /\ IF Unrendered(w) THEN e.cached = NoPlots
       ELSE e.cached = w.cached /\ e.errors = w.errors
    /\ e.loading = {} \/ (e.loading = w.loading /\ ~w.grid.streaming)
    /\ e.grid.started = FALSE /\ e.grid.streaming = FALSE
    /\ OwnDropped(w, e)

LEMMA NoPlotsIs == NoPlots \in [Keys -> Events] /\ Loaded(NoPlots) = {}
  BY DEF NoPlots, Events, Loaded

LEMMA KeysAre == 1 \in Keys /\ 0 \notin Keys /\ Keys # {} /\ NumPlots \in Keys
  BY RenderAssumption DEF Keys

LEMMA NewLazyIs ==
    NewLazy \in LazyType /\ NewLazy.loading = FALSE /\ NewLazy.req = NoRequest
  BY DEF NewLazy, LazyType, RequestType, DepsType, NoRequest, NoDeps, Events

LEMMA OwnTypes ==
    ASSUME NEW S \in SUBSET CycleType
    PROVE  Own(S, Superseded) \in SUBSET CycleType /\ Own(S, Aborted) \in SUBSET CycleType
  BY DEF Own, Superseded, Aborted, CycleType

LEMMA SupersededDropped ==
    ASSUME NEW S \in SUBSET CycleType
    PROVE  /\ \A c \in Own(S, Superseded) : (c.own => ~c.live) /\ (~c.own => c \in S)
           /\ \A c \in S : ~c.own => c \in Own(S, Superseded)
  BY DEF Own, Superseded, CycleType

LEMMA AbortedDropped ==
    ASSUME NEW S \in SUBSET CycleType, \A c \in S : c.own => ~c.live
    PROVE  /\ \A c \in Own(S, Aborted) : (c.own => ~c.live) /\ (~c.own => c \in S)
           /\ \A c \in S : ~c.own => c \in Own(S, Aborted)
  BY DEF Own, Aborted, CycleType

LEMMA CycleIs ==
    ASSUME NEW sel \in Events, sel # None
    PROVE  /\ Cycle(sel) \in CycleType /\ Works(Cycle(sel)) /\ Cycle(sel).own
           /\ Cycle(sel).sel = sel /\ Cycle(sel).key = 1
  BY KeysAre DEF Cycle, CycleType, Works, Events

LEMMA StartsIs ==
    ASSUME NEW w \in PageType, w.selected # None
    PROVE  LET e == [Starts(w, w.selected) EXCEPT !.rendered = w.selected] IN
           /\ e \in PageType
           /\ e.rendering = w.rendering /\ e.selected = w.selected /\ e.rendered = w.selected
           /\ e.cached = NoPlots /\ e.loading = Keys /\ e.errors = {}
           /\ e.grid.started = TRUE /\ e.grid.streaming = TRUE /\ e.grid.prev = w.grid.prev
           /\ e.cycles = Own(w.cycles, Superseded) \cup {Cycle(w.selected)}
           /\ e.tab = w.tab /\ e.chosen = w.chosen /\ e.lazy = w.lazy
  <1>1. w.selected \in Events /\ w.cycles \in SUBSET CycleType /\ w.grid \in GridType
    BY DEF PageType
  <1>2. Own(w.cycles, Superseded) \cup {Cycle(w.selected)} \in SUBSET CycleType
    BY <1>1, OwnTypes, CycleIs
  <1> QED  BY <1>1, <1>2, NoPlotsIs DEF Starts, PageType, GridType

LEMMA StopsIs ==
    ASSUME NEW w \in PageType
    PROVE  LET e == Stops(w) IN
           /\ e \in PageType
           /\ e.rendering = w.rendering /\ e.selected = w.selected /\ e.rendered = w.rendered
           /\ e.cached = w.cached /\ e.loading = {} /\ e.errors = w.errors
           /\ e.grid.started = w.grid.started /\ e.grid.streaming = FALSE
           /\ e.grid.prev = w.grid.prev
           /\ e.cycles = Own(w.cycles, Superseded)
           /\ e.tab = w.tab /\ e.chosen = w.chosen /\ e.lazy = w.lazy
  <1>1. w.cycles \in SUBSET CycleType /\ w.grid \in GridType
    BY DEF PageType
  <1>2. Own(w.cycles, Superseded) \in SUBSET CycleType
    BY <1>1, OwnTypes
  <1> QED  BY <1>1, <1>2 DEF Stops, PageType, GridType

LEMMA ResetsIs ==
    ASSUME NEW w \in PageType
    PROVE  LET e == Resets(w) IN
           /\ e \in PageType
           /\ e.rendering = w.rendering /\ e.selected = w.selected /\ e.rendered = w.rendered
           /\ e.cached = NoPlots /\ e.loading = {} /\ e.errors = {}
           /\ e.grid.started = w.grid.started /\ e.grid.streaming = FALSE
           /\ e.grid.prev = w.grid.prev
           /\ e.cycles = Own(w.cycles, Aborted)
           /\ e.tab = w.tab /\ e.chosen = w.chosen /\ e.lazy = w.lazy
  <1>1. w.cycles \in SUBSET CycleType /\ w.grid \in GridType
    BY DEF PageType
  <1>2. Own(w.cycles, Aborted) \in SUBSET CycleType
    BY <1>1, OwnTypes
  <1> QED  BY <1>1, <1>2, NoPlotsIs DEF Resets, PageType, GridType

\* The page a grid's effects are run on: the viewer is not mounted.
LEMMA UnviewedIs ==
    ASSUME NEW w \in PageType
    PROVE  LET c == [w EXCEPT !.lazy = NewLazy] IN
           /\ c \in PageType
           /\ c.rendering = w.rendering /\ c.selected = w.selected /\ c.rendered = w.rendered
           /\ c.cached = w.cached /\ c.loading = w.loading /\ c.errors = w.errors
           /\ c.grid = w.grid /\ c.cycles = w.cycles
           /\ c.tab = w.tab /\ c.chosen = w.chosen /\ c.lazy = NewLazy
  BY NewLazyIs DEF PageType

\* The last two effects on page a, which the first two made of c.
LEMMA LastEffects ==
    ASSUME NEW c \in PageType, NEW a \in PageType, NEW fin \in BOOLEAN, ~Unrendered(c),
           fin <=> (c.rendering \/ c.grid.streaming) /\ Complete(c)
    PROVE  LET e == Clears(c, Finishes(c, a)) IN
           /\ e \in PageType
           /\ e.rendering = (a.rendering /\ ~fin)
           /\ e.selected = a.selected /\ e.rendered = a.rendered
           /\ e.cached = a.cached /\ e.loading = a.loading /\ e.errors = a.errors
           /\ e.grid.started = a.grid.started /\ e.grid.streaming = a.grid.streaming
           /\ e.grid.prev = IF c.rendered = None THEN "zero" ELSE "some"
           /\ e.cycles = a.cycles
           /\ e.tab = a.tab /\ e.chosen = a.chosen /\ e.lazy = a.lazy
  <1> DEFINE d == [a EXCEPT !.rendering = a.rendering /\ ~fin]
             e == [d EXCEPT !.grid.prev = IF c.rendered = None THEN "zero" ELSE "some"]
  <1>1. Finishes(c, a) = d
    <2>1. CASE fin
      BY <2>1 DEF Finishes
    <2>2. CASE ~fin
      <3>1. d = a
        BY <2>2 DEF PageType
      <3> QED  BY <2>2, <3>1 DEF Finishes
    <2> QED  BY <2>1, <2>2
  <1>2. Clears(c, d) = e
    BY DEF Clears, Unrendered
  <1>3. a.grid \in GridType
    BY DEF PageType
  <1>4. /\ e \in PageType
        /\ e.rendering = (a.rendering /\ ~fin)
        /\ e.selected = a.selected /\ e.rendered = a.rendered
        /\ e.cached = a.cached /\ e.loading = a.loading /\ e.errors = a.errors
        /\ e.grid.started = a.grid.started /\ e.grid.streaming = a.grid.streaming
        /\ e.grid.prev = IF c.rendered = None THEN "zero" ELSE "some"
        /\ e.cycles = a.cycles
        /\ e.tab = a.tab /\ e.chosen = a.chosen /\ e.lazy = a.lazy
    BY <1>3 DEF PageType, GridType
  <1> QED  BY <1>1, <1>2, <1>4

LEMMA GridBegins ==
    ASSUME NEW w \in PageType, w.tab = "grid", Ready(w), About(w)
    PROVE  Framed(w, Effects(w)) /\ Begun(w, Effects(w))
  <1> DEFINE c == [w EXCEPT !.lazy = NewLazy]
             a == [Starts(c, c.selected) EXCEPT !.rendered = c.selected]
             e == Clears(c, Finishes(c, a))
             fin == Complete(w)
  <1>1. /\ c \in PageType
        /\ c.rendering = w.rendering /\ c.selected = w.selected /\ c.rendered = w.rendered
        /\ c.cached = w.cached /\ c.loading = w.loading /\ c.errors = w.errors
        /\ c.grid = w.grid /\ c.cycles = w.cycles
        /\ c.tab = w.tab /\ c.chosen = w.chosen /\ c.lazy = NewLazy
    BY UnviewedIs
  <1> HIDE DEF c
  <1>2. c.rendering /\ ~c.grid.started /\ c.selected # None
    BY <1>1 DEF About
  <1>3. Triggers(c, c) = a /\ Cancels(c, a) = a
    BY <1>2 DEF Triggers, Cancels
  <1>4. Effects(w) = e
    BY <1>3 DEF Effects, GridEffects, c
  <1>5. /\ a \in PageType
        /\ a.rendering = c.rendering /\ a.selected = c.selected /\ a.rendered = c.selected
        /\ a.cached = NoPlots /\ a.loading = Keys /\ a.errors = {}
        /\ a.grid.started = TRUE /\ a.grid.streaming = TRUE /\ a.grid.prev = c.grid.prev
        /\ a.cycles = Own(c.cycles, Superseded) \cup {Cycle(c.selected)}
        /\ a.tab = c.tab /\ a.chosen = c.chosen /\ a.lazy = c.lazy
    BY <1>1, <1>2, StartsIs
  <1> HIDE DEF a
  <1>6. Complete(c) = Complete(w) /\ Complete(w) \in BOOLEAN
    BY <1>1 DEF Complete
  <1>7. fin \in BOOLEAN /\ (fin <=> (c.rendering \/ c.grid.streaming) /\ Complete(c))
    BY <1>2, <1>6
  <1>8. ~Unrendered(c)
    BY <1>1, <1>2 DEF Ready, Unrendered
  <1> HIDE DEF fin
  <1>9. /\ e \in PageType
        /\ e.rendering = (a.rendering /\ ~fin)
        /\ e.selected = a.selected /\ e.rendered = a.rendered
        /\ e.cached = a.cached /\ e.loading = a.loading /\ e.errors = a.errors
        /\ e.grid.started = a.grid.started /\ e.grid.streaming = a.grid.streaming
        /\ e.grid.prev = IF c.rendered = None THEN "zero" ELSE "some"
        /\ e.cycles = a.cycles
        /\ e.tab = a.tab /\ e.chosen = a.chosen /\ e.lazy = a.lazy
    BY <1>1, <1>5, <1>7, <1>8, LastEffects
  <1> HIDE DEF e
  <1>10. a.rendering = TRUE
    BY <1>2, <1>5, <1>1 DEF PageType
  <1>11. Framed(w, e)
    BY <1>1, <1>5, <1>9 DEF Framed
  <1>12. e.rendering = ~Complete(w)
    BY <1>9, <1>10 DEF fin
  <1>13. Begun(w, e)
    BY <1>1, <1>5, <1>9, <1>12 DEF Begun
  <1> QED  BY <1>4, <1>11, <1>13

LEMMA GridContinues ==
    ASSUME NEW w \in PageType, w.tab = "grid", Ready(w), w.rendering, ~About(w)
    PROVE  Framed(w, Effects(w)) /\ Continued(w, Effects(w))
  <1> DEFINE c == [w EXCEPT !.lazy = NewLazy]
             e == Clears(c, Finishes(c, c))
             fin == Complete(w)
  <1>1. /\ c \in PageType
        /\ c.rendering = w.rendering /\ c.selected = w.selected /\ c.rendered = w.rendered
        /\ c.cached = w.cached /\ c.loading = w.loading /\ c.errors = w.errors
        /\ c.grid = w.grid /\ c.cycles = w.cycles
        /\ c.tab = w.tab /\ c.chosen = w.chosen /\ c.lazy = NewLazy
    BY UnviewedIs
  <1> HIDE DEF c
  <1>2. c.rendering /\ ~(~c.grid.started /\ c.selected # None)
    BY <1>1 DEF About
  <1>3. Triggers(c, c) = c /\ Cancels(c, c) = c
    BY <1>2 DEF Triggers, Cancels
  <1>4. Effects(w) = e
    BY <1>3 DEF Effects, GridEffects, c
  <1>6. Complete(c) = Complete(w) /\ Complete(w) \in BOOLEAN
    BY <1>1 DEF Complete
  <1>7. fin \in BOOLEAN /\ (fin <=> (c.rendering \/ c.grid.streaming) /\ Complete(c))
    BY <1>2, <1>6
  <1>8. ~Unrendered(c)
    BY <1>1, <1>2 DEF Ready, Unrendered
  <1> HIDE DEF fin
  <1>9. /\ e \in PageType
        /\ e.rendering = (c.rendering /\ ~fin)
        /\ e.selected = c.selected /\ e.rendered = c.rendered
        /\ e.cached = c.cached /\ e.loading = c.loading /\ e.errors = c.errors
        /\ e.grid.started = c.grid.started /\ e.grid.streaming = c.grid.streaming
        /\ e.grid.prev = IF c.rendered = None THEN "zero" ELSE "some"
        /\ e.cycles = c.cycles
        /\ e.tab = c.tab /\ e.chosen = c.chosen /\ e.lazy = c.lazy
    BY <1>1, <1>7, <1>8, LastEffects
  <1> HIDE DEF e
  <1>10. c.rendering = TRUE
    BY <1>2, <1>1 DEF PageType
  <1>11. Framed(w, e)
    BY <1>1, <1>9 DEF Framed
  <1>12. e.rendering = ~Complete(w)
    BY <1>9, <1>10 DEF fin
  <1>13. Continued(w, e)
    BY <1>1, <1>9, <1>12 DEF Continued
  <1> QED  BY <1>4, <1>11, <1>13

\* Finishing changes nothing of a page that is not rendering.
LEMMA FinishesNothing ==
    ASSUME NEW c, NEW a \in PageType, ~a.rendering
    PROVE  Finishes(c, a) = a
  BY DEF Finishes, PageType

\* Clearing the selection resets the grid, if it has plots.
LEMMA ClearsIs ==
    ASSUME NEW c \in PageType, NEW a \in PageType, Unrendered(c), a.cached = c.cached,
           \A d \in a.cycles : d.own => ~d.live
    PROVE  LET e == Clears(c, a) IN
           /\ e \in PageType
           /\ e.rendering = a.rendering
           /\ e.selected = a.selected /\ e.rendered = a.rendered
           /\ e.cached = NoPlots /\ (e.loading = {} \/ e.loading = a.loading)
           /\ e.grid.started = a.grid.started
           /\ e.grid.streaming = TRUE => a.grid.streaming
           /\ e.grid.prev = "zero"
           /\ \A d \in e.cycles : (d.own => ~d.live) /\ (~d.own => d \in a.cycles)
           /\ \A d \in a.cycles : ~d.own => d \in e.cycles
           /\ e.tab = a.tab /\ e.chosen = a.chosen /\ e.lazy = a.lazy
  <1> DEFINE r == Resets(a)
             q(v) == [v EXCEPT !.grid.prev = "zero"]
  <1>1. \A v \in PageType :
           /\ q(v) \in PageType
           /\ q(v).rendering = v.rendering /\ q(v).selected = v.selected
           /\ q(v).rendered = v.rendered /\ q(v).cached = v.cached
           /\ q(v).loading = v.loading /\ q(v).cycles = v.cycles
           /\ q(v).grid.started = v.grid.started
           /\ q(v).grid.streaming = v.grid.streaming /\ q(v).grid.prev = "zero"
           /\ q(v).tab = v.tab /\ q(v).chosen = v.chosen /\ q(v).lazy = v.lazy
    BY DEF PageType, GridType
  <1>2. a.cycles \in SUBSET CycleType
    BY DEF PageType
  <1>3. CASE Loaded(c.cached) # {}
    <2>1. Clears(c, a) = q(r)
      BY <1>3 DEF Clears, Unrendered
    <2>2. /\ r \in PageType
          /\ r.rendering = a.rendering /\ r.selected = a.selected /\ r.rendered = a.rendered
          /\ r.cached = NoPlots /\ r.loading = {}
          /\ r.grid.started = a.grid.started /\ r.grid.streaming = FALSE
          /\ r.cycles = Own(a.cycles, Aborted)
          /\ r.tab = a.tab /\ r.chosen = a.chosen /\ r.lazy = a.lazy
      BY ResetsIs
    <2> HIDE DEF r, q
    <2>3. /\ \A d \in r.cycles : (d.own => ~d.live) /\ (~d.own => d \in a.cycles)
          /\ \A d \in a.cycles : ~d.own => d \in r.cycles
      BY <1>2, <2>2, AbortedDropped
    <2> QED  BY <1>1, <2>1, <2>2, <2>3
  <1>4. CASE Loaded(c.cached) = {}
    <2>1. Clears(c, a) = q(a)
      BY <1>4 DEF Clears, Unrendered
    <2>2. \A k \in Keys : a.cached[k] = None
      BY <1>4 DEF Loaded
    <2>3. a.cached \in [Keys -> Events]
      BY DEF PageType
    <2>4. a.cached = NoPlots
      BY <2>2, <2>3, NoPlotsIs DEF NoPlots
    <2> HIDE DEF q
    <2>5. \A d \in a.cycles : (d.own => ~d.live) /\ (~d.own => d \in a.cycles)
      OBVIOUS
    <2> QED  BY <1>1, <2>1, <2>4, <2>5
  <1> QED  BY <1>3, <1>4

LEMMA GridEnds ==
    ASSUME NEW w \in PageType, w.tab = "grid", CyclesSound(w), ~w.rendering
    PROVE  Framed(w, Effects(w)) /\ Ended(w, Effects(w))
  <1> DEFINE c == [w EXCEPT !.lazy = NewLazy]
             a == [c EXCEPT !.grid.started = FALSE]
             b == Cancels(c, a)
             e == Clears(c, Finishes(c, b))
             fin == c.grid.streaming /\ Complete(c)
  <1>1. /\ c \in PageType
        /\ c.rendering = w.rendering /\ c.selected = w.selected /\ c.rendered = w.rendered
        /\ c.cached = w.cached /\ c.loading = w.loading /\ c.errors = w.errors
        /\ c.grid = w.grid /\ c.cycles = w.cycles
        /\ c.tab = w.tab /\ c.chosen = w.chosen /\ c.lazy = NewLazy
    BY UnviewedIs
  <1> HIDE DEF c
  <1>2. ~c.rendering /\ c.grid.streaming \in BOOLEAN /\ c.cycles \in SUBSET CycleType
    BY <1>1 DEF PageType, GridType
  <1>3. Triggers(c, c) = a
    BY <1>2 DEF Triggers
  <1>4. Effects(w) = e
    BY <1>3 DEF Effects, GridEffects, c
  <1>5. /\ a \in PageType
        /\ a.rendering = FALSE /\ a.selected = c.selected /\ a.rendered = c.rendered
        /\ a.cached = c.cached /\ a.loading = c.loading /\ a.errors = c.errors
        /\ a.grid.started = FALSE /\ a.grid.streaming = c.grid.streaming
        /\ a.cycles = c.cycles
        /\ a.tab = c.tab /\ a.chosen = c.chosen /\ a.lazy = c.lazy
    BY <1>1, <1>2 DEF PageType, GridType
  <1> HIDE DEF a
  <1>6. /\ b \in PageType
        /\ b.rendering = FALSE /\ b.selected = c.selected /\ b.rendered = c.rendered
        /\ b.cached = c.cached /\ b.errors = c.errors
        /\ b.loading = {} \/ (b.loading = c.loading /\ ~c.grid.streaming)
        /\ b.grid.started = FALSE /\ b.grid.streaming = FALSE
        /\ \A d \in b.cycles : (d.own => ~d.live) /\ (~d.own => d \in c.cycles)
        /\ \A d \in c.cycles : ~d.own => d \in b.cycles
        /\ b.tab = c.tab /\ b.chosen = c.chosen /\ b.lazy = c.lazy
    <2>1. CASE c.grid.streaming
      <3>1. b = Stops(a)
        BY <1>2, <2>1 DEF Cancels
      <3>2. /\ \A d \in Own(a.cycles, Superseded) :
                 (d.own => ~d.live) /\ (~d.own => d \in a.cycles)
            /\ \A d \in a.cycles : ~d.own => d \in Own(a.cycles, Superseded)
        BY <1>2, <1>5, SupersededDropped
      <3>3. /\ b \in PageType
            /\ b.rendering = a.rendering /\ b.selected = a.selected /\ b.rendered = a.rendered
            /\ b.cached = a.cached /\ b.loading = {} /\ b.errors = a.errors
            /\ b.grid.started = a.grid.started /\ b.grid.streaming = FALSE
            /\ b.cycles = Own(a.cycles, Superseded)
            /\ b.tab = a.tab /\ b.chosen = a.chosen /\ b.lazy = a.lazy
        BY <1>5, <3>1, StopsIs
      <3> HIDE DEF b
      <3> DEFINE X == Own(a.cycles, Superseded)
      <3>4. b.cycles = X /\ \A d \in X : (d.own => ~d.live) /\ (~d.own => d \in c.cycles)
        BY <1>5, <3>2, <3>3
      <3>5. \A d \in c.cycles : ~d.own => d \in X
        BY <1>5, <3>2
      <3> HIDE DEF X
      <3> QED  BY <1>5, <3>3, <3>4, <3>5
    <2>2. CASE ~c.grid.streaming
      <3>1. b = a
        BY <2>2 DEF Cancels
      <3>2. \A d \in w.cycles : d.own => ~d.live
        BY <1>1, <2>2 DEF CyclesSound, Works
      <3> HIDE DEF b
      <3>3. \A d \in b.cycles : (d.own => ~d.live) /\ (~d.own => d \in c.cycles)
        BY <1>1, <1>5, <3>1, <3>2
      <3>4. b.grid.streaming = FALSE
        BY <1>2, <1>5, <2>2, <3>1
      <3> QED  BY <1>5, <2>2, <3>1, <3>3, <3>4
    <2> QED  BY <2>1, <2>2
  <1> HIDE DEF b
  <1>7. CASE ~Unrendered(w)
    <2>1. ~Unrendered(c)
      BY <1>1, <1>7 DEF Unrendered
    <2>2. fin \in BOOLEAN /\ (fin <=> (c.rendering \/ c.grid.streaming) /\ Complete(c))
      BY <1>2 DEF Complete
    <2> HIDE DEF fin
    <2>3. /\ e \in PageType
          /\ e.rendering = (b.rendering /\ ~fin)
          /\ e.selected = b.selected /\ e.rendered = b.rendered
          /\ e.cached = b.cached /\ e.loading = b.loading /\ e.errors = b.errors
          /\ e.grid.started = b.grid.started /\ e.grid.streaming = b.grid.streaming
          /\ e.grid.prev = IF c.rendered = None THEN "zero" ELSE "some"
          /\ e.cycles = b.cycles
          /\ e.tab = b.tab /\ e.chosen = b.chosen /\ e.lazy = b.lazy
      BY <1>1, <1>6, <2>1, <2>2, LastEffects
    <2> HIDE DEF e
    <2>4. Framed(w, e)
      BY <1>1, <1>6, <2>3 DEF Framed
    <2>5. OwnDropped(w, e)
      BY <1>1, <1>6, <2>3 DEF OwnDropped
    <2>6. e.rendering = FALSE
      BY <1>6, <2>3
    <2>7. e.loading = {} \/ (e.loading = w.loading /\ ~w.grid.streaming)
      BY <1>1, <1>6, <2>3
    <2>8. Ended(w, e)
      BY <1>1, <1>6, <1>7, <2>3, <2>5, <2>6, <2>7 DEF Ended
    <2> QED  BY <1>4, <2>4, <2>8
  <1>8. CASE Unrendered(w)
    <2>1. Unrendered(c) /\ w.rendered = None
      BY <1>1, <1>8 DEF Unrendered
    <2>2. e = Clears(c, b)
      BY <1>6, FinishesNothing
    <2> HIDE DEF e
    <2>3. /\ e \in PageType
          /\ e.rendering = b.rendering
          /\ e.selected = b.selected /\ e.rendered = b.rendered
          /\ e.cached = NoPlots /\ (e.loading = {} \/ e.loading = b.loading)
          /\ e.grid.started = b.grid.started
          /\ e.grid.streaming = TRUE => b.grid.streaming
          /\ e.grid.prev = "zero"
          /\ \A d \in e.cycles : (d.own => ~d.live) /\ (~d.own => d \in b.cycles)
          /\ \A d \in b.cycles : ~d.own => d \in e.cycles
          /\ e.tab = b.tab /\ e.chosen = b.chosen /\ e.lazy = b.lazy
      BY <1>1, <1>6, <2>1, <2>2, ClearsIs
    <2>4. Framed(w, e)
      BY <1>1, <1>6, <2>1, <2>3 DEF Framed
    <2>5. OwnDropped(w, e)
      BY <1>1, <1>6, <2>3 DEF OwnDropped
    <2>6. e.rendering = FALSE
      BY <1>6, <2>3
    <2>7. e.loading = {} \/ (e.loading = w.loading /\ ~w.grid.streaming)
      BY <1>1, <1>6, <2>3
    <2>8. e.grid.streaming \in BOOLEAN
      BY <2>3 DEF PageType, GridType
    <2>9. e.grid.streaming = FALSE
      BY <1>6, <2>3, <2>8
    <2>10. Ended(w, e)
      BY <1>1, <1>6, <1>8, <2>3, <2>5, <2>6, <2>7, <2>9 DEF Ended
    <2> QED  BY <1>4, <2>4, <2>10
  <1> QED  BY <1>7, <1>8

-----------------------------------------------------------------------------
(* What a round keeps.                                                     *)

\* The page has nothing to serve that the viewer has not seen.
Serves(w) == w.lazy.loading => w.lazy.req # NoRequest /\ w.lazy.deps = Deps(w)

\* A render is still going on, or has ended with every card full.
Full(w) == \A k \in Keys : w.cached[k] = w.rendered \/ k \in w.errors
EndsFull(w) == (w.rendering /\ Covered(w) /\ ~About(w)) \/ (~w.rendering /\ Full(w))

LEMMA BegunSound ==
    ASSUME NEW w, Sound(w), w.tab = "grid", About(w), NEW e, Framed(w, e), Begun(w, e)
    PROVE  Sound(e) /\ Calm(e) /\ (Tidy(w) => Tidy(e))
  <1> DEFINE new == Cycle(w.selected)
  <1>1. w \in PageType /\ e \in PageType /\ e.tab = "grid"
    BY DEF Sound, Framed
  <1>2. w.selected \in Events /\ w.selected # None /\ w.cycles \in SUBSET CycleType
    BY <1>1 DEF PageType, About
  <1>3. new \in CycleType /\ Works(new) /\ new.own /\ new.sel = w.selected /\ new.key = 1
    BY <1>2, CycleIs
  <1> DEFINE X == Own(w.cycles, Superseded)
  <1>4. e.cycles = X \cup {new}
    BY DEF Begun
  <1>a. \A c \in X : (c.own => ~c.live) /\ (~c.own => c \in w.cycles)
    BY <1>2, SupersededDropped
  <1> HIDE DEF new, X
  <1>5. \A c \in e.cycles : c = new \/ ((c.own => ~c.live) /\ (~c.own => c \in w.cycles))
    BY <1>4, <1>a
  <1>6. CyclesSound(e)
    <2>1. \A c, d \in e.cycles : c.own /\ c.live /\ d.own /\ d.live => c = d
      BY <1>5
    <2>2. \A c \in e.cycles : c.live => ~c.aborted
      BY <1>3, <1>5 DEF Works, Sound, CyclesSound
    <2>3. e.grid.streaming
      BY DEF Begun
    <2> QED  BY <2>1, <2>2, <2>3 DEF CyclesSound
  <1>7. Spins(e)
    <2>1. \A k \in e.loading : 1 <= k
      BY <1>1 DEF PageType, Keys
    <2> QED  BY <1>3, <1>4, <2>1 DEF Spins
  <1>8. Viewing(e)
    BY <1>1 DEF Viewing
  <1>9. Calm(e)
    <2>1. ~About(e)
      BY DEF About, Begun
    <2>2. e.rendering => ~Complete(e)
      BY NoPlotsIs, KeysAre DEF Complete, Begun
    <2>3. e.rendered # None
      BY <1>2 DEF Begun
    <2>4. e.lazy = NewLazy
      BY DEF Framed
    <2> QED  BY <2>1, <2>2, <2>3, <2>4 DEF Calm
  <1>10. ASSUME Tidy(w)
         PROVE  Tidy(e)
    <2>1. \A c \in e.cycles : Works(c) => c = new
      BY <1>5, <1>10 DEF Tidy, Works
    <2>2. e.rendered = w.selected
      BY DEF Begun
    <2>3. \A k \in Keys : e.cached[k] = None
      BY DEF Begun, NoPlots
    <2>4. Covered(e)
      BY DEF Begun, Covered
    <2> QED  BY <1>1, <1>3, <2>1, <2>2, <2>3, <2>4 DEF Tidy
  <1> QED  BY <1>1, <1>6, <1>7, <1>8, <1>9, <1>10 DEF Sound

LEMMA ContinuedSound ==
    ASSUME NEW w, Sound(w), w.tab = "grid", Ready(w), w.rendering, ~About(w),
           NEW e, Framed(w, e), Continued(w, e)
    PROVE  /\ Sound(e) /\ Calm(e)
           /\ Calm(w) => Settled(e)
           /\ Tidy(w) => Tidy(e)
           /\ Tidy(w) /\ EndsFull(w) => EndsFull(e)
  <1>1. w \in PageType /\ e \in PageType /\ e.tab = "grid" /\ e.selected = w.selected
    BY DEF Sound, Framed
  <1>2. /\ e.rendering = ~Complete(w) /\ e.rendered = w.rendered
        /\ e.cached = w.cached /\ e.loading = w.loading /\ e.errors = w.errors
        /\ e.grid.started = w.grid.started /\ e.grid.streaming = w.grid.streaming
        /\ e.cycles = w.cycles
    BY DEF Continued
  <1>3. CyclesSound(e)
    BY <1>2 DEF Sound, CyclesSound
  <1>4. Spins(e)
    BY <1>2 DEF Sound, Spins
  <1>5. Viewing(e)
    BY <1>1 DEF Viewing
  <1>6. ~About(e)
    BY <1>1, <1>2 DEF About
  <1>7. e.rendering => ~Complete(e)
    BY <1>2 DEF Complete
  <1>8. Counted(e)
    BY <1>2 DEF Counted, Framed
  <1>9. Calm(e)
    BY <1>6, <1>7, <1>8 DEF Calm, Counted, Framed
  <1>10. ASSUME Calm(w)
         PROVE  Settled(e)
    <2>1. e.rendering
      BY <1>2, <1>10 DEF Calm
    <2> QED  BY <1>8, <1>9, <2>1 DEF Settled
  <1>11. ASSUME Tidy(w)
         PROVE  Tidy(e) /\ (EndsFull(w) => EndsFull(e))
    <2>1. Covered(e)
      BY <1>2, <1>11 DEF Tidy, Covered
    <2>2. Tidy(e)
      BY <1>1, <1>2, <1>11, <2>1 DEF Tidy
    <2>3. ASSUME Complete(w)
          PROVE  Full(e)
      <3>1. CASE Loaded(w.cached) = Keys
        BY <1>2, <1>11, <3>1 DEF Loaded, Tidy, Full
      <3>2. CASE w.loading = {}
        BY <1>2, <1>11, <2>1, <3>2 DEF Covered, Tidy, Full
      <3> QED  BY <2>3, <3>1, <3>2 DEF Complete
    <2>4. EndsFull(e)
      BY <1>2, <1>6, <2>1, <2>3 DEF EndsFull
    <2> QED  BY <2>2, <2>4
  <1> QED  BY <1>1, <1>3, <1>4, <1>5, <1>9, <1>10, <1>11 DEF Sound

LEMMA EndedSound ==
    ASSUME NEW w, Sound(w), w.tab = "grid", ~w.rendering, NEW e, Framed(w, e), Ended(w, e)
    PROVE  /\ Sound(e) /\ Settled(e)
           /\ Tidy(w) => Tidy(e)
           /\ Tidy(w) /\ EndsFull(w) => EndsFull(e)
  <1>1. w \in PageType /\ e \in PageType /\ e.tab = "grid"
    BY DEF Sound, Framed
  <1>2. /\ e.rendering = FALSE /\ e.rendered = w.rendered
        /\ IF Unrendered(w) THEN e.cached = NoPlots
           ELSE e.cached = w.cached /\ e.errors = w.errors
        /\ e.loading = {} \/ (e.loading = w.loading /\ ~w.grid.streaming)
        /\ e.grid.started = FALSE /\ e.grid.streaming = FALSE
        /\ OwnDropped(w, e)
    BY DEF Ended
  <1>3. CyclesSound(e)
    BY <1>2 DEF Sound, CyclesSound, OwnDropped, Works
  <1>4. Spins(e)
    <2>1. CASE e.loading = {}
      BY <2>1 DEF Spins
    <2>2. CASE e.loading = w.loading /\ ~w.grid.streaming
      <3>1. \A c \in w.cycles : Works(c) => c \in e.cycles
        BY <1>2, <2>2 DEF Sound, CyclesSound, OwnDropped
      <3> QED  BY <2>2, <3>1 DEF Sound, Spins
    <2> QED  BY <1>2, <2>1, <2>2
  <1>5. Viewing(e)
    BY <1>1 DEF Viewing
  <1>6. Counted(e)
    BY <1>2 DEF Counted, Framed
  <1>7. Settled(e)
    BY <1>2, <1>6 DEF Settled, Calm, Counted, About, Framed
  <1>8. ASSUME Tidy(w)
        PROVE  Tidy(e) /\ (EndsFull(w) => EndsFull(e))
    <2>1. \A c \in e.cycles : ~Works(c)
      BY <1>2, <1>8 DEF Tidy, OwnDropped, Works
    <2>2. \A k \in Keys : e.cached[k] \in {None, e.rendered}
      BY <1>2, <1>8 DEF Tidy, NoPlots
    <2>3. EndsFull(w) => Full(e)
      BY <1>2 DEF EndsFull, Full, NoPlots, Unrendered
    <2> QED  BY <1>2, <2>1, <2>2, <2>3 DEF Tidy, EndsFull
  <1> QED  BY <1>1, <1>3, <1>4, <1>5, <1>7, <1>8 DEF Sound

\* A selection was cleared: the first round leaves a tidy page.
LEMMA ClearedTidy ==
    ASSUME NEW w, w \in PageType, ~w.rendering, Unrendered(w), w.tab = "grid",
           NEW e, Framed(w, e), Ended(w, e), \A c \in w.cycles : Works(c) => c.own
    PROVE  Tidy(e)
  <1>1. \A c \in e.cycles : ~Works(c)
    BY DEF Ended, OwnDropped, Works
  <1>2. \A k \in Keys : e.cached[k] = None
    BY DEF Ended, NoPlots
  <1> QED  BY <1>1, <1>2 DEF Tidy, Ended

-----------------------------------------------------------------------------
(* A round under the viewer, and the three rounds.                         *)

LEMMA WatchesIs ==
    ASSUME NEW z \in LazyType, NEW deps \in DepsType
    PROVE  LET y == Watches(z, deps) IN
           /\ y \in LazyType /\ y.deps = deps
           /\ y.req # NoRequest =>
                (y.req = z.req /\ deps = z.deps) \/ y.req = [key |-> deps.key, sel |-> deps.sel]
           /\ (z.loading => z.req # NoRequest /\ z.deps = deps) =>
                (y.loading => y.req # NoRequest)
           /\ deps.sel = None => y = z \/ y.req = NoRequest
  <1> DEFINE want == [key |-> deps.key, sel |-> deps.sel]
             x == [z EXCEPT !.deps = deps, !.req = NoRequest]
             f == [x EXCEPT !.fetched = want, !.req = want, !.loading = TRUE, !.error = FALSE]
  <1>1. NoRequest \in RequestType /\ want \in RequestType
    BY DEF NoRequest, RequestType, DepsType, Events
  <1>2. x \in LazyType /\ x.deps = deps /\ x.req = NoRequest /\ x.loading = z.loading
    BY <1>1 DEF LazyType
  <1>3. f \in LazyType /\ f.deps = deps /\ f.req = want
    BY <1>1, <1>2 DEF LazyType
  <1>4. deps.key # 0 => want # NoRequest
    BY DEF NoRequest
  <1>5. CASE deps = z.deps
    <2>1. Watches(z, deps) = z
      BY <1>5 DEF Watches
    <2> QED  BY <1>5, <2>1
  <1>6. CASE deps # z.deps /\ (deps.key = 0 \/ deps.sel = None \/ deps.has \/ z.fetched = want)
    <2>1. Watches(z, deps) = x
      BY <1>6 DEF Watches
    <2> HIDE DEF x
    <2> QED  BY <1>2, <1>6, <2>1
  <1>7. CASE deps # z.deps /\ ~(deps.key = 0 \/ deps.sel = None \/ deps.has \/ z.fetched = want)
    <2>1. Watches(z, deps) = f
      BY <1>7 DEF Watches
    <2> HIDE DEF f, want
    <2> QED  BY <1>3, <1>4, <1>7, <2>1 DEF want
  <1> QED  BY <1>5, <1>6, <1>7

LEMMA DepsIs ==
    ASSUME NEW w \in PageType
    PROVE  /\ Deps(w) \in DepsType
           /\ Deps(w).key = w.chosen /\ Deps(w).sel = w.rendered
  BY DEF Deps, DepsType, PageType

\* What a round makes of page w.
Rounds(w, e) ==
    /\ Sound(e) /\ Ready(e) /\ e.tab = w.tab
    /\ w.tab = "grid" => Calm(e) /\ (Calm(w) => Settled(e))
    /\ Tidy(w) => Tidy(e)
    /\ w.tab = "grid" /\ Tidy(w) /\ EndsFull(w) => EndsFull(e)
    /\ w.tab = "interactive" => e.rendering = w.rendering
    /\ Serves(w) => Serves(e) /\ Served(e)
    /\ Watching(e)
    /\ Kept(w, e)

LEMMA ViewerRound ==
    ASSUME NEW w, Sound(w), w.tab = "interactive"
    PROVE  Rounds(w, Effects(w))
  <1> DEFINE y == Watches(w.lazy, Deps(w))
             e == [w EXCEPT !.lazy = y]
  <1>1. Effects(w) = e
    BY DEF Effects
  <1>2. w \in PageType /\ w.lazy \in LazyType
    BY DEF Sound, PageType
  <1>3. /\ y \in LazyType /\ y.deps = Deps(w)
        /\ y.req # NoRequest =>
             \/ y.req = w.lazy.req
             \/ y.req = [key |-> Deps(w).key, sel |-> Deps(w).sel]
        /\ Serves(w) => (y.loading => y.req # NoRequest)
    BY <1>2, WatchesIs, DepsIs DEF Serves
  <1> HIDE DEF y
  <1>4. /\ e \in PageType
        /\ e.rendering = w.rendering /\ e.cached = w.cached /\ e.loading = w.loading
        /\ e.errors = w.errors /\ e.selected = w.selected /\ e.rendered = w.rendered
        /\ e.grid = w.grid /\ e.cycles = w.cycles
        /\ e.tab = w.tab /\ e.chosen = w.chosen /\ e.lazy = y
    BY <1>2, <1>3 DEF PageType
  <1> HIDE DEF e
  <1>5. Deps(e) = Deps(w)
    BY <1>4 DEF Deps
  <1>6. Viewing(e)
    BY <1>2, <1>3, <1>4, DepsIs DEF Sound, Viewing
  <1>7. Sound(e)
    BY <1>4, <1>6 DEF Sound, CyclesSound, Spins
  <1>8. e.tab # "grid"
    BY <1>4
  <1>9. Ready(e)
    BY <1>8 DEF Ready
  <1>10. Tidy(w) => Tidy(e)
    BY <1>4 DEF Tidy, Covered, About
  <1>11. Serves(w) => Serves(e) /\ Served(e)
    BY <1>3, <1>4, <1>5 DEF Serves, Served
  <1>12. Watching(e)
    BY <1>3, <1>4, <1>5 DEF Watching
  <1>13. Kept(w, e)
    BY <1>4 DEF Kept
  <1> QED  BY <1>1, <1>4, <1>7, <1>9, <1>10, <1>11, <1>12, <1>13 DEF Rounds

LEMMA GridRound ==
    ASSUME NEW w, Sound(w), Ready(w), w.tab = "grid"
    PROVE  Rounds(w, Effects(w)) /\ Framed(w, Effects(w)) /\ (~w.rendering => Ended(w, Effects(w)))
  <1> DEFINE e == Effects(w)
  <1>1. w \in PageType /\ CyclesSound(w)
    BY DEF Sound
  <1> SUFFICES Rounds(w, e) /\ Framed(w, e) /\ (~w.rendering => Ended(w, e))
    OBVIOUS
  <1>2. ASSUME Framed(w, e), Calm(e)
        PROVE  e.tab = w.tab /\ Ready(e) /\ Serves(e) /\ Served(e) /\ Watching(e)
    BY <1>2, NewLazyIs DEF Framed, Calm, Ready, Unrendered, Serves, Served, Watching
  <1>3. CASE About(w)
    <2>1. Framed(w, e) /\ Begun(w, e)
      BY <1>1, <1>3, GridBegins
    <2> HIDE DEF e
    <2>2. Sound(e) /\ Calm(e) /\ (Tidy(w) => Tidy(e))
      BY <1>3, <2>1, BegunSound
    <2>3. w.rendering /\ ~Calm(w) /\ ~EndsFull(w)
      BY <1>3 DEF About, Calm, EndsFull
    <2>4. Kept(w, e)
      BY <2>1 DEF Begun, Kept
    <2> QED  BY <1>2, <2>1, <2>2, <2>3, <2>4 DEF Rounds
  <1>4. CASE w.rendering /\ ~About(w)
    <2>1. Framed(w, e) /\ Continued(w, e)
      BY <1>1, <1>4, GridContinues
    <2> HIDE DEF e
    <2>2. /\ Sound(e) /\ Calm(e) /\ (Calm(w) => Settled(e))
          /\ Tidy(w) => Tidy(e)
          /\ Tidy(w) /\ EndsFull(w) => EndsFull(e)
      BY <1>4, <2>1, ContinuedSound
    <2>3. Kept(w, e)
      BY <2>1 DEF Continued, Kept
    <2> QED  BY <1>2, <1>4, <2>1, <2>2, <2>3 DEF Rounds
  <1>5. CASE ~w.rendering
    <2>1. Framed(w, e) /\ Ended(w, e)
      BY <1>1, <1>5, GridEnds
    <2> HIDE DEF e
    <2>2. /\ Sound(e) /\ Settled(e)
          /\ Tidy(w) => Tidy(e)
          /\ Tidy(w) /\ EndsFull(w) => EndsFull(e)
      BY <1>5, <2>1, EndedSound
    <2>3. Calm(e)
      BY <2>2 DEF Settled
    <2>4. Kept(w, e)
      BY <2>1 DEF Ended, Kept
    <2> QED  BY <1>2, <2>1, <2>2, <2>3, <2>4 DEF Rounds
  <1> QED  BY <1>3, <1>4, <1>5

LEMMA Round ==
    ASSUME NEW w, Sound(w), Ready(w)
    PROVE  Rounds(w, Effects(w))
  <1>1. w.tab \in {"grid", "interactive"}
    BY DEF Sound, PageType
  <1> QED  BY <1>1, GridRound, ViewerRound

\* What the effects make of page w in the end.
After(w, z) ==
    /\ Sound(z) /\ z.tab = w.tab
    /\ w.tab = "grid" => Settled(z)
    /\ Tidy(w) => Tidy(z)
    /\ w.tab = "grid" /\ Tidy(w) /\ EndsFull(w) => EndsFull(z)
    /\ w.tab = "interactive" => z.rendering = w.rendering
    /\ Serves(w) => Served(z)
    /\ Watching(z)
    /\ Kept(w, z)

\* What is cleared leaves a tidy page, if each cycle at work is the grid's.
Cleared(w) ==
    /\ ~w.rendering /\ Unrendered(w) /\ w.tab = "grid"
    /\ \A c \in w.cycles : Works(c) => c.own

LEMMA BecomesAfter ==
    ASSUME NEW w, Becomes(w), Sound(w), Ready(w)
    PROVE  After(w, Page') /\ (Cleared(w) => Tidy(Page') /\ cached' = NoPlots)
  <1> DEFINE u == Effects(w)
             v == Effects(u)
             z == Effects(v)
  <1>1. Rounds(w, u)
    BY Round
  <1>2. Rounds(u, v)
    BY <1>1, Round DEF Rounds
  <1>3. Rounds(v, z)
    BY <1>2, Round DEF Rounds
  <1>4. Cleared(w) => Tidy(u) /\ u.cached = NoPlots
    BY GridRound, ClearedTidy DEF Cleared, Sound, Ended
  <1>5. /\ rendering' = z.rendering /\ cached' = z.cached /\ loading' = z.loading
        /\ errors' = z.errors /\ selected' = z.selected /\ rendered' = z.rendered
        /\ grid' = z.grid /\ cycles' = z.cycles
        /\ tab' = z.tab /\ chosen' = z.chosen /\ lazy' = z.lazy
    BY DEF Becomes
  <1> HIDE DEF u, v, z
  <1>6. z \in PageType
    BY <1>3 DEF Rounds, Sound
  <1>7. Page' = [rendering |-> rendering', cached |-> cached', loading |-> loading',
                 errors |-> errors', selected |-> selected', rendered |-> rendered',
                 grid |-> grid', cycles |-> cycles', tab |-> tab', chosen |-> chosen',
                 lazy |-> lazy']
    BY DEF Page
  <1>8. Page' = z
    BY <1>5, <1>6, <1>7 DEF PageType
  <1>9. Kept(w, z)
    BY <1>1, <1>2, <1>3 DEF Rounds, Kept
  <1>10. After(w, z)
    BY <1>1, <1>2, <1>3, <1>9 DEF Rounds, After
  <1>11. Cleared(w) => Tidy(z) /\ z.cached = NoPlots
    BY <1>2, <1>3, <1>4 DEF Rounds, Kept
  <1> QED  BY <1>5, <1>8, <1>10, <1>11

-----------------------------------------------------------------------------
(* The invariant, of the page as a record.                                 *)

LEMMA PageIs ==
    /\ Page.rendering = rendering /\ Page.cached = cached /\ Page.loading = loading
    /\ Page.errors = errors /\ Page.selected = selected /\ Page.rendered = rendered
    /\ Page.grid = grid /\ Page.cycles = cycles
    /\ Page.tab = tab /\ Page.chosen = chosen /\ Page.lazy = lazy
  BY DEF Page

LEMMA NextPageIs ==
    /\ Page'.rendering = rendering' /\ Page'.cached = cached' /\ Page'.loading = loading'
    /\ Page'.errors = errors' /\ Page'.selected = selected' /\ Page'.rendered = rendered'
    /\ Page'.grid = grid' /\ Page'.cycles = cycles'
    /\ Page'.tab = tab' /\ Page'.chosen = chosen' /\ Page'.lazy = lazy'
  BY DEF Page

\* What a step does to the gallery.
Shows ==
    ~orphaned' =>
      /\ ~orphaned
      /\ \/ cached' = NoPlots /\ rendered' \in Events
         \/ Hung(Page, Page')

\* The invariant, and the gallery's step, follow from what is true of the page
\* an action makes.
LEMMA BecomesSound ==
    ASSUME NEW w, Becomes(w), Sound(w), Ready(w), Counts',
           ~orphaned' => ~orphaned /\ ((Tidy(w) /\ Hung(Page, w)) \/ Cleared(w)),
           ~orphaned' /\ ~flickered' => Serves(w)
    PROVE  IInv' /\ Shows
  <1>1. After(w, Page') /\ (Cleared(w) => Tidy(Page') /\ cached' = NoPlots)
    BY BecomesAfter
  <1>2. /\ Sound(Page')
        /\ tab' = "grid" => Settled(Page')
        /\ ~orphaned' => Tidy(Page')
        /\ ~orphaned' /\ ~flickered' => Served(Page')
        /\ Watching(Page')
    BY <1>1, NextPageIs DEF After
  <1>3. Sound(Page)'
    BY <1>2 DEF Sound, CyclesSound, Spins, Viewing
  <1>4. (tab = "grid" => Settled(Page))'
    BY <1>2 DEF Settled, Calm, Counted, About, Complete
  <1>5. (~orphaned => Tidy(Page))'
    BY <1>2 DEF Tidy, About, Covered
  <1>6. (~orphaned /\ ~flickered => Served(Page))'
    BY <1>2 DEF Served, Deps
  <1>7. Watching(Page)'
    BY <1>2 DEF Watching, Deps
  <1>8. Shows
    <2>1. rendered' \in Events
      BY <1>2, NextPageIs DEF Sound, PageType
    <2>2. Kept(w, Page')
      BY <1>1 DEF After
    <2> QED  BY <1>1, <2>1, <2>2, NextPageIs DEF Shows, Kept, Hung
  <1> QED  BY <1>3, <1>4, <1>5, <1>6, <1>7, <1>8 DEF IInv

LEMMA InitSound == Init => IInv
  <1> SUFFICES ASSUME Init
               PROVE  IInv
    OBVIOUS
  <1>1. Counts
    <2>1. moves = 0 /\ failures = 0 /\ orphaned = FALSE /\ flickered = FALSE
      BY DEF Init
    <2>2. moves \in 0..MaxMoves /\ failures \in 0..MaxFailures
      BY <2>1, RenderAssumption
    <2> QED  BY <2>1, <2>2 DEF Counts
  <1>2. grid \in GridType /\ grid.started = FALSE /\ grid.streaming = FALSE
        /\ grid.prev = IF rendered = None THEN "zero" ELSE "some"
    BY DEF Init, NewGrid, GridType
  <1>3. Page \in PageType
    BY <1>2, NoPlotsIs, NewLazyIs DEF Init, Page, PageType, Events
  <1> DEFINE p == Page
  <1>4. /\ p.rendering = FALSE /\ p.cached = NoPlots /\ p.loading = {} /\ p.cycles = {}
        /\ p.grid.started = FALSE /\ p.grid.streaming = FALSE
        /\ p.grid.prev = IF p.rendered = None THEN "zero" ELSE "some"
        /\ p.tab = "grid" /\ p.lazy = NewLazy /\ tab = "grid"
    BY <1>2, PageIs DEF Init
  <1> HIDE DEF p
  <1>5. Sound(p)
    BY <1>3, <1>4 DEF Sound, CyclesSound, Spins, Viewing, p
  <1>6. Settled(p)
    BY <1>4 DEF Settled, Calm, Counted, About
  <1>7. Tidy(p)
    BY <1>4 DEF Tidy, NoPlots
  <1>8. Served(p) /\ Watching(p)
    BY <1>4 DEF Served, Watching
  <1> QED  BY <1>1, <1>5, <1>6, <1>7, <1>8 DEF IInv, p

-----------------------------------------------------------------------------
(* The user.                                                               *)

LEMMA MoveCounts ==
    ASSUME Counts, Move, orphaned' \in BOOLEAN, flickered' \in BOOLEAN
    PROVE  Counts'
  BY RenderAssumption DEF Counts, Move

\* What the invariant says of a mounted grid.
LEMMA GridSound ==
    ASSUME IInv, tab = "grid"
    PROVE  /\ Page \in PageType /\ CyclesSound(Page) /\ Spins(Page)
           /\ Page.tab = "grid" /\ ~About(Page) /\ Counted(Page) /\ lazy = NewLazy
           /\ rendering => ~Complete(Page)
           /\ ~rendering => ~grid.started /\ ~grid.streaming
           /\ ~orphaned => Tidy(Page) /\ (rendering => Covered(Page))
  BY PageIs DEF IInv, Sound, Settled, Calm, Tidy

LEMMA SelectKeeps ==
    ASSUME IInv, NEW sel \in Selections \cup {None}, Select(sel)
    PROVE  IInv' /\ Shows
  <1> DEFINE p == Page
             w == [p EXCEPT !.selected = sel]
  <1>1. tab = "grid" /\ Move /\ Becomes(w) /\ UNCHANGED <<orphaned, flickered>>
    BY DEF Select, History
  <1>2. /\ p \in PageType /\ CyclesSound(p) /\ Spins(p)
        /\ p.tab = "grid" /\ ~About(p) /\ Counted(p) /\ p.lazy = NewLazy
        /\ ~orphaned => Tidy(p) /\ (p.rendering => Covered(p))
    BY <1>1, GridSound, PageIs
  <1> HIDE DEF p
  <1>3. /\ w \in PageType
        /\ w.rendering = p.rendering /\ w.cached = p.cached /\ w.loading = p.loading
        /\ w.errors = p.errors /\ w.selected = sel /\ w.rendered = p.rendered
        /\ w.grid = p.grid /\ w.cycles = p.cycles
        /\ w.tab = p.tab /\ w.chosen = p.chosen /\ w.lazy = p.lazy
    BY <1>2 DEF PageType, Events
  <1> HIDE DEF w
  <1>4. Sound(w)
    BY <1>2, <1>3 DEF Sound, CyclesSound, Spins, Viewing
  <1>5. Ready(w)
    BY <1>2, <1>3 DEF Ready, Unrendered, Counted
  <1>6. (~orphaned => Tidy(w)) /\ Hung(Page, w)
    BY <1>2, <1>3 DEF Tidy, Covered, Hung, p
  <1>7. Serves(w)
    BY <1>2, <1>3, NewLazyIs DEF Serves
  <1>8. Counts'
    BY <1>1, MoveCounts DEF IInv, Counts
  <1> QED  BY <1>1, <1>4, <1>5, <1>6, <1>7, <1>8, BecomesSound

LEMMA RenderKeeps ==
    ASSUME IInv, Render
    PROVE  IInv' /\ Shows
  <1> DEFINE p == Page
             w == [p EXCEPT !.rendering = ~@]
  <1>1. /\ tab = "grid" /\ selected # None /\ Move /\ Becomes(w)
        /\ UNCHANGED <<orphaned, flickered>>
    BY DEF Render, History
  <1>2. /\ p \in PageType /\ CyclesSound(p) /\ Spins(p) /\ p.selected # None
        /\ p.tab = "grid" /\ ~About(p) /\ Counted(p) /\ p.lazy = NewLazy
        /\ ~p.rendering => ~p.grid.started
        /\ ~orphaned => Tidy(p)
    BY <1>1, GridSound, PageIs
  <1> HIDE DEF p
  <1>3. /\ w \in PageType
        /\ w.rendering = ~p.rendering /\ w.cached = p.cached /\ w.loading = p.loading
        /\ w.errors = p.errors /\ w.selected = p.selected /\ w.rendered = p.rendered
        /\ w.grid = p.grid /\ w.cycles = p.cycles
        /\ w.tab = p.tab /\ w.chosen = p.chosen /\ w.lazy = p.lazy
    BY <1>2 DEF PageType
  <1> HIDE DEF w
  <1>4. Sound(w)
    BY <1>2, <1>3 DEF Sound, CyclesSound, Spins, Viewing
  <1>5. Ready(w)
    BY <1>2, <1>3 DEF Ready, Unrendered, Counted
  <1>6. (~orphaned => Tidy(w)) /\ Hung(Page, w)
    BY <1>2, <1>3 DEF Tidy, About, Hung, p
  <1>7. Serves(w)
    BY <1>2, <1>3, NewLazyIs DEF Serves
  <1>8. Counts'
    BY <1>1, MoveCounts DEF IInv, Counts
  <1> QED  BY <1>1, <1>4, <1>5, <1>6, <1>7, <1>8, BecomesSound

LEMMA ClearKeeps ==
    ASSUME IInv, Clear
    PROVE  IInv' /\ Shows
  <1> DEFINE p == Page
             w == [p EXCEPT !.rendered = None, !.chosen = 0, !.rendering = FALSE]
  <1>1. /\ tab = "grid" /\ rendered # None /\ Move /\ Becomes(w)
        /\ UNCHANGED <<orphaned, flickered>>
    BY DEF Clear, History
  <1>2. /\ p \in PageType /\ CyclesSound(p) /\ Spins(p) /\ p.rendered # None
        /\ p.tab = "grid" /\ Counted(p) /\ p.lazy = NewLazy
        /\ ~orphaned => Tidy(p)
    BY <1>1, GridSound, PageIs
  <1> HIDE DEF p
  <1>3. /\ w \in PageType
        /\ w.rendering = FALSE /\ w.cached = p.cached /\ w.loading = p.loading
        /\ w.errors = p.errors /\ w.selected = p.selected /\ w.rendered = None
        /\ w.grid = p.grid /\ w.cycles = p.cycles
        /\ w.tab = p.tab /\ w.lazy = p.lazy
    BY <1>2 DEF PageType, Events
  <1> HIDE DEF w
  <1>4. Sound(w)
    BY <1>2, <1>3 DEF Sound, CyclesSound, Spins, Viewing
  <1>5. Ready(w)
    BY <1>3 DEF Ready
  <1>6. ~orphaned => Cleared(w)
    BY <1>2, <1>3 DEF Tidy, Cleared, Unrendered, Counted
  <1>7. Serves(w)
    BY <1>2, <1>3, NewLazyIs DEF Serves
  <1>8. Counts'
    BY <1>1, MoveCounts DEF IInv, Counts
  <1> QED  BY <1>1, <1>4, <1>5, <1>6, <1>7, <1>8, BecomesSound

LEMMA NewGridIs ==
    NewGrid \in GridType /\ ~NewGrid.started /\ ~NewGrid.streaming /\ NewGrid.prev = "null"
  BY DEF NewGrid, GridType

LEMMA DisownedIs ==
    ASSUME NEW S \in SUBSET CycleType
    PROVE  LET R == {[c EXCEPT !.own = FALSE] : c \in S} IN
           /\ R \in SUBSET CycleType
           /\ \A d \in R : ~d.own /\ \E c \in S : d.live = c.live /\ d.aborted = c.aborted
           /\ \A c \in S : \E d \in R : d.live = c.live /\ d.aborted = c.aborted /\ d.key = c.key
  <1> DEFINE g(c) == [c EXCEPT !.own = FALSE]
             R == {g(c) : c \in S}
  <1>1. \A c \in S : /\ g(c) \in CycleType /\ ~g(c).own /\ g(c).live = c.live
                     /\ g(c).aborted = c.aborted /\ g(c).key = c.key
    BY DEF CycleType
  <1> HIDE DEF g
  <1>2. /\ R \in SUBSET CycleType
        /\ \A d \in R : ~d.own /\ \E c \in S : d.live = c.live /\ d.aborted = c.aborted
        /\ \A c \in S :
             \E d \in R : d.live = c.live /\ d.aborted = c.aborted /\ d.key = c.key
    BY <1>1
  <1> QED  BY <1>2 DEF g

LEMMA ExpandKeeps ==
    ASSUME IInv, NEW k \in Keys, Expand(k)
    PROVE  IInv' /\ Shows
  <1> DEFINE p == Page
             R == {[c EXCEPT !.own = FALSE] : c \in p.cycles}
             w == [p EXCEPT !.tab = "interactive", !.chosen = k, !.grid = NewGrid,
                            !.cycles = {[c EXCEPT !.own = FALSE] : c \in @}]
  <1>1. /\ tab = "grid" /\ Move /\ Becomes(w) /\ flickered' = flickered
        /\ orphaned' = (orphaned \/ \E c \in cycles : c.own /\ ~Dropped(c))
    BY DEF Expand
  <1>2. /\ p \in PageType /\ CyclesSound(p) /\ Spins(p)
        /\ ~About(p) /\ p.lazy = NewLazy /\ p.cycles = cycles
        /\ ~orphaned => Tidy(p) /\ (p.rendering => Covered(p))
    BY <1>1, GridSound, PageIs
  <1> HIDE DEF p
  <1>3. p.cycles \in SUBSET CycleType
    BY <1>2 DEF PageType
  <1>4. /\ R \in SUBSET CycleType
        /\ \A d \in R : ~d.own /\ \E c \in p.cycles : d.live = c.live /\ d.aborted = c.aborted
        /\ \A c \in p.cycles :
             \E d \in R : d.live = c.live /\ d.aborted = c.aborted /\ d.key = c.key
    BY <1>3, DisownedIs
  <1>5. w = [p EXCEPT !.tab = "interactive", !.chosen = k, !.grid = NewGrid, !.cycles = R]
    BY <1>2 DEF PageType
  <1> HIDE DEF R, w
  <1>6. /\ w \in PageType
        /\ w.rendering = p.rendering /\ w.cached = p.cached /\ w.loading = p.loading
        /\ w.errors = p.errors /\ w.rendered = p.rendered
        /\ w.grid = NewGrid /\ w.cycles = R
        /\ w.tab = "interactive" /\ w.chosen = k /\ w.lazy = p.lazy
    BY <1>2, <1>4, <1>5, NewGridIs DEF PageType
  <1>7. CyclesSound(w)
    BY <1>2, <1>4, <1>6 DEF CyclesSound
  <1>8. Spins(w)
    BY <1>2, <1>4, <1>6 DEF Spins, Works
  <1>9. Sound(w)
    BY <1>2, <1>6, <1>7, <1>8, NewLazyIs, NewGridIs DEF Sound, Viewing
  <1>10. Ready(w)
    BY <1>6 DEF Ready
  <1>11. ASSUME ~orphaned'
         PROVE  ~orphaned /\ Tidy(w) /\ Hung(Page, w)
    <2>1. ~orphaned /\ Tidy(p) /\ (p.rendering => Covered(p)) /\ \A c \in p.cycles : ~(c.own /\ Works(c))
      BY <1>1, <1>2, <1>11 DEF Dropped, Works
    <2>2. \A c \in w.cycles : ~Works(c)
      BY <2>1, <1>4, <1>6 DEF Tidy, Works
    <2> QED  BY <2>1, <2>2, <1>6 DEF Tidy, Covered, Hung, p
  <1>12. Serves(w)
    BY <1>2, <1>6, NewLazyIs DEF Serves
  <1>13. Counts'
    <2>1. orphaned' \in BOOLEAN /\ flickered' \in BOOLEAN
      BY <1>1 DEF IInv, Counts
    <2> QED  BY <2>1, <1>1, MoveCounts DEF IInv
  <1> QED  BY <1>1, <1>9, <1>10, <1>11, <1>12, <1>13, BecomesSound

LEMMA ReturnKeeps ==
    ASSUME IInv, ReturnToGrid
    PROVE  IInv' /\ Shows
  <1> DEFINE p == Page
             w == [p EXCEPT !.tab = "grid", !.grid = NewGrid]
  <1>1. tab = "interactive" /\ Move /\ Becomes(w) /\ UNCHANGED <<orphaned, flickered>>
    BY DEF ReturnToGrid, History
  <1>2. /\ Sound(p) /\ p.tab = "interactive" /\ p \in PageType
        /\ ~orphaned => Tidy(p)
        /\ ~orphaned /\ ~flickered => Served(p)
    BY <1>1, PageIs DEF IInv, Sound
  <1> HIDE DEF p
  <1>3. /\ w \in PageType
        /\ w.rendering = p.rendering /\ w.cached = p.cached /\ w.loading = p.loading
        /\ w.errors = p.errors /\ w.rendered = p.rendered
        /\ w.grid = NewGrid /\ w.cycles = p.cycles
        /\ w.tab = "grid" /\ w.chosen = p.chosen /\ w.lazy = p.lazy
    BY <1>2, NewGridIs DEF PageType
  <1> HIDE DEF w
  <1>4. (~orphaned => Tidy(w)) /\ Hung(Page, w)
    BY <1>2, <1>3 DEF Tidy, Covered, Hung, p
  <1>5. CyclesSound(w)
    BY <1>2, <1>3 DEF Sound, CyclesSound, Viewing
  <1>6. Sound(w)
    BY <1>2, <1>3, <1>5 DEF Sound, Spins, Viewing
  <1>7. Ready(w)
    BY <1>3, NewGridIs DEF Ready, Unrendered
  <1>8. ~orphaned /\ ~flickered => Serves(w)
    BY <1>2, <1>3 DEF Served, Serves, Deps
  <1>9. Counts'
    BY <1>1, MoveCounts DEF IInv, Counts
  <1> QED  BY <1>1, <1>4, <1>6, <1>7, <1>8, <1>9, BecomesSound

LEMMA RereadKeeps ==
    ASSUME IInv, Reread
    PROVE  IInv' /\ Shows
  <1> DEFINE p == Page
             deps == [Deps(p) EXCEPT !.sel = None]
             y == Watches(p.lazy, deps)
             w == [p EXCEPT !.lazy = Watches(@, [Deps(Page) EXCEPT !.sel = None])]
  <1>1. /\ tab = "interactive" /\ Move /\ Becomes(w)
        /\ flickered' = TRUE /\ orphaned' = orphaned
    BY DEF Reread
  <1>2. /\ Sound(p) /\ p.tab = "interactive" /\ p \in PageType
        /\ ~orphaned => Tidy(p)
    BY <1>1, PageIs DEF IInv, Sound
  <1>3. w = [p EXCEPT !.lazy = y]
    BY <1>2 DEF PageType
  <1>4. p.lazy \in LazyType /\ deps \in DepsType /\ deps.sel = None
    BY <1>2, DepsIs DEF PageType, DepsType, Events
  <1> HIDE DEF p, w, deps
  <1>5. y \in LazyType /\ (y.req # NoRequest => y.req = p.lazy.req)
    BY <1>4, WatchesIs
  <1> HIDE DEF y
  <1>6. /\ w \in PageType
        /\ w.rendering = p.rendering /\ w.cached = p.cached /\ w.loading = p.loading
        /\ w.errors = p.errors /\ w.selected = p.selected /\ w.rendered = p.rendered
        /\ w.grid = p.grid /\ w.cycles = p.cycles
        /\ w.tab = "interactive" /\ w.chosen = p.chosen /\ w.lazy = y
    BY <1>2, <1>3, <1>5 DEF PageType
  <1>7. Sound(w)
    BY <1>2, <1>5, <1>6 DEF Sound, CyclesSound, Spins, Viewing
  <1>8. Ready(w)
    BY <1>6 DEF Ready
  <1>9. (~orphaned => Tidy(w)) /\ Hung(Page, w)
    BY <1>2, <1>6 DEF Tidy, Covered, About, Hung, p
  <1>10. Counts'
    <2>1. orphaned' \in BOOLEAN /\ flickered' \in BOOLEAN
      BY <1>1 DEF IInv, Counts
    <2> QED  BY <2>1, <1>1, MoveCounts DEF IInv
  <1> QED  BY <1>1, <1>7, <1>8, <1>9, <1>10, BecomesSound

-----------------------------------------------------------------------------
(* The answers.  Each is a page w from which the effects go on; w keeps    *)
(* what FinishedIsFull is about.                                           *)

\* w is what an answer makes of page p.
Brings(p, w) ==
    /\ Sound(w) /\ Ready(w)
    /\ ~orphaned => Tidy(w) /\ Hung(p, w)
    /\ ~orphaned /\ p.rendering /\ p.tab = "grid" => EndsFull(w)
    /\ ~orphaned /\ ~flickered => Serves(w)
    /\ w.tab = p.tab /\ w.rendering = p.rendering

\* Page q is p but for its plots, loading plots, errors, cycles, streaming and viewer.
Alike(p, q) ==
    /\ q \in PageType
    /\ q.rendering = p.rendering /\ q.selected = p.selected /\ q.rendered = p.rendered
    /\ q.grid.started = p.grid.started /\ q.grid.prev = p.grid.prev
    /\ q.grid.streaming => p.grid.streaming
    /\ q.tab = p.tab /\ q.chosen = p.chosen

LEMMA UnloadsIs ==
    ASSUME NEW w \in PageType, NEW c \in CycleType
    PROVE  LET e == Unloads(w, c) IN
           /\ e \in PageType
           /\ e.rendering = w.rendering /\ e.selected = w.selected /\ e.rendered = w.rendered
           /\ e.cached = w.cached /\ e.errors = w.errors
           /\ e.loading = IF c.live THEN w.loading \ {c.key} ELSE w.loading
           /\ e.grid = w.grid /\ e.cycles = w.cycles
           /\ e.tab = w.tab /\ e.chosen = w.chosen /\ e.lazy = w.lazy
  <1>1. CASE c.live
    BY <1>1 DEF Unloads, PageType
  <1>2. CASE ~c.live
    BY <1>2 DEF Unloads
  <1> QED  BY <1>1, <1>2

LEMMA ReturnsIs ==
    ASSUME NEW w \in PageType, NEW c \in CycleType
    PROVE  LET e == Returns(w, c) IN
           /\ e \in PageType
           /\ e.rendering = w.rendering /\ e.selected = w.selected /\ e.rendered = w.rendered
           /\ e.cached = w.cached /\ e.errors = w.errors
           /\ e.loading = IF c.live /\ c.aborted THEN {} ELSE w.loading
           /\ e.grid.started = w.grid.started /\ e.grid.prev = w.grid.prev
           /\ e.grid.streaming = (w.grid.streaming /\ ~(c.own /\ c.live))
           /\ e.cycles = w.cycles \ {c}
           /\ e.tab = w.tab /\ e.chosen = w.chosen /\ e.lazy = w.lazy
  <1>1. w.grid \in GridType
    BY DEF PageType
  <1> QED  BY <1>1 DEF Returns, PageType, GridType

LEMMA NextIs ==
    ASSUME NEW c \in CycleType, c.key # NumPlots
    PROVE  LET d == [c EXCEPT !.key = @ + 1] IN
           /\ d \in CycleType /\ d.own = c.own /\ d.live = c.live /\ d.aborted = c.aborted
           /\ d.sel = c.sel /\ d.key = c.key + 1
  <1>1. c.key \in 1..NumPlots /\ NumPlots \in Nat
    BY RenderAssumption DEF CycleType, Keys
  <1>2. c.key + 1 \in Keys
    BY <1>1 DEF Keys
  <1> QED  BY <1>2 DEF CycleType

\* A cycle that is at work goes on to its next plot, or is at its end.
LEMMA GoesOnIs ==
    ASSUME NEW w \in PageType, NEW c \in CycleType, Works(c)
    PROVE  LET e == GoesOn(w, c) IN
           /\ Alike(w, e)
           /\ e.cached = w.cached /\ e.errors = w.errors /\ e.loading = w.loading
           /\ e.lazy = w.lazy
           /\ ~c.own => e.grid.streaming = w.grid.streaming
           /\ \/ c.key = NumPlots /\ e.cycles = w.cycles \ {c}
              \/ /\ c.key # NumPlots /\ e.grid.streaming = w.grid.streaming
                 /\ \E d \in CycleType :
                      /\ e.cycles = (w.cycles \ {c}) \cup {d}
                      /\ d.own = c.own /\ Works(d) /\ d.sel = c.sel /\ d.key = c.key + 1
  <1>1. w.grid.streaming \in BOOLEAN
    BY DEF PageType, GridType
  <1>2. CASE c.key = NumPlots
    <2>1. GoesOn(w, c) = Returns(w, c)
      BY <1>2 DEF GoesOn
    <2> DEFINE e == Returns(w, c)
    <2>2. /\ e \in PageType
          /\ e.rendering = w.rendering /\ e.selected = w.selected /\ e.rendered = w.rendered
          /\ e.cached = w.cached /\ e.errors = w.errors
          /\ e.loading = IF c.live /\ c.aborted THEN {} ELSE w.loading
          /\ e.grid.started = w.grid.started /\ e.grid.prev = w.grid.prev
          /\ e.grid.streaming = (w.grid.streaming /\ ~(c.own /\ c.live))
          /\ e.cycles = w.cycles \ {c}
          /\ e.tab = w.tab /\ e.chosen = w.chosen /\ e.lazy = w.lazy
      BY ReturnsIs
    <2> HIDE DEF e
    <2>3. e.loading = w.loading
      BY <2>2 DEF Works
    <2>4. Alike(w, e)
      BY <2>2 DEF Alike
    <2>5. ~c.own => e.grid.streaming = w.grid.streaming
      BY <1>1, <2>2
    <2> QED  BY <1>2, <2>1, <2>2, <2>3, <2>4, <2>5 DEF e
  <1>3. CASE c.key # NumPlots
    <2> DEFINE d == [c EXCEPT !.key = @ + 1]
               e == [w EXCEPT !.cycles = (@ \ {c}) \cup {d}]
    <2>1. GoesOn(w, c) = e
      BY <1>3 DEF GoesOn
    <2>2. /\ d \in CycleType /\ d.own = c.own /\ Works(d)
          /\ d.sel = c.sel /\ d.key = c.key + 1
      BY <1>3, NextIs DEF Works
    <2> HIDE DEF d
    <2>3. /\ e \in PageType
          /\ e.rendering = w.rendering /\ e.selected = w.selected /\ e.rendered = w.rendered
          /\ e.cached = w.cached /\ e.errors = w.errors /\ e.loading = w.loading
          /\ e.grid = w.grid
          /\ e.cycles = (w.cycles \ {c}) \cup {d}
          /\ e.tab = w.tab /\ e.chosen = w.chosen /\ e.lazy = w.lazy
      BY <2>2 DEF PageType
    <2> HIDE DEF e
    <2>4. Alike(w, e)
      BY <2>3 DEF Alike
    <2> QED  BY <1>3, <2>1, <2>2, <2>3, <2>4
  <1> QED  BY <1>2, <1>3

\* What the invariant says of the page.
Holding(p) ==
    /\ Sound(p)
    /\ p.tab = "grid" => Settled(p)
    /\ ~orphaned => Tidy(p)
    /\ ~orphaned /\ ~flickered => Served(p)

LEMMA PageHolds == IInv => Holding(Page)
  BY PageIs DEF IInv, Holding

\* An answer brings a page like the one before, on which as much is covered.
LEMMA AlikeBrings ==
    ASSUME NEW p, Holding(p), NEW w, Alike(p, w),
           CyclesSound(w), Spins(w), Viewing(w),
           ~orphaned =>
             /\ \A c \in w.cycles : Works(c) => c.own /\ c.sel = p.rendered /\ p.tab = "grid"
             /\ \A k \in Keys : w.cached[k] \in {None, p.rendered}
             /\ Covered(p) => Covered(w)
             /\ Hung(p, w),
           ~orphaned /\ ~flickered => Serves(w)
    PROVE  Brings(p, w)
  <1>1. /\ w.rendering = p.rendering /\ w.selected = p.selected /\ w.rendered = p.rendered
        /\ w.grid.started = p.grid.started /\ w.grid.prev = p.grid.prev
        /\ w.tab = p.tab /\ w \in PageType
    BY DEF Alike
  <1>2. Sound(w)
    BY <1>1 DEF Sound
  <1>3. p.tab = "grid" => ~About(p) /\ (p.grid.prev = "some" => p.rendered # None)
    BY DEF Holding, Settled, Calm
  <1>4. Ready(w)
    BY <1>1, <1>3 DEF Ready, Unrendered
  <1>5. About(w) = About(p)
    BY <1>1 DEF About
  <1>6. ASSUME ~orphaned
        PROVE  Tidy(w) /\ (p.rendering /\ p.tab = "grid" => EndsFull(w))
    <2>1. w.rendering => Covered(w)
      BY <1>1, <1>3, <1>6 DEF Holding, Tidy
    <2> QED  BY <1>1, <1>3, <1>5, <1>6, <2>1 DEF Tidy, EndsFull
  <1> QED  BY <1>1, <1>2, <1>4, <1>6 DEF Brings

LEMMA LateBrings ==
    ASSUME NEW p, Holding(p), NEW c \in p.cycles, Dropped(c)
    PROVE  Brings(p, Returns(Unloads(p, c), c))
  <1> DEFINE u == Unloads(p, c)
             w == Returns(u, c)
  <1>1. p \in PageType /\ c \in CycleType /\ ~c.live /\ ~Works(c)
    BY DEF Holding, Sound, CyclesSound, Dropped, Works, PageType
  <1>2. /\ u \in PageType
        /\ u.rendering = p.rendering /\ u.selected = p.selected /\ u.rendered = p.rendered
        /\ u.cached = p.cached /\ u.errors = p.errors
        /\ u.loading = p.loading
        /\ u.grid = p.grid /\ u.cycles = p.cycles
        /\ u.tab = p.tab /\ u.chosen = p.chosen /\ u.lazy = p.lazy
    BY <1>1, UnloadsIs
  <1> HIDE DEF u
  <1>3. p.grid.streaming \in BOOLEAN
    BY <1>1 DEF PageType, GridType
  <1>4. /\ w \in PageType
        /\ w.rendering = u.rendering /\ w.selected = u.selected /\ w.rendered = u.rendered
        /\ w.cached = u.cached /\ w.errors = u.errors
        /\ w.loading = IF c.live /\ c.aborted THEN {} ELSE u.loading
        /\ w.grid.started = u.grid.started /\ w.grid.prev = u.grid.prev
        /\ w.grid.streaming = (u.grid.streaming /\ ~(c.own /\ c.live))
        /\ w.cycles = u.cycles \ {c}
        /\ w.tab = u.tab /\ w.chosen = u.chosen /\ w.lazy = u.lazy
    BY <1>1, <1>2, ReturnsIs
  <1> HIDE DEF w
  <1>5. w.loading = p.loading /\ w.grid.streaming = p.grid.streaming
    BY <1>1, <1>2, <1>3, <1>4
  <1>6. Alike(p, w)
    BY <1>2, <1>4, <1>5 DEF Alike
  <1>7. CyclesSound(w) /\ Spins(w) /\ Viewing(w)
    <2>1. CyclesSound(w)
      BY <1>2, <1>4, <1>5 DEF Holding, Sound, CyclesSound
    <2>2. Spins(w)
      BY <1>1, <1>2, <1>4, <1>5 DEF Holding, Sound, Spins
    <2>3. Viewing(w)
      BY <1>2, <1>4, <1>5 DEF Holding, Sound, Viewing
    <2> QED  BY <2>1, <2>2, <2>3
  <1>8. ~orphaned =>
          /\ \A d \in w.cycles : Works(d) => d.own /\ d.sel = p.rendered /\ p.tab = "grid"
          /\ \A k \in Keys : w.cached[k] \in {None, p.rendered}
          /\ Covered(p) => Covered(w)
          /\ Hung(p, w)
    BY <1>2, <1>4, <1>5 DEF Holding, Tidy, Covered, Hung
  <1>9. ~orphaned /\ ~flickered => Serves(w)
    <2>1. Deps(w) = Deps(p)
      BY <1>2, <1>4 DEF Deps
    <2>2. p.tab \in {"grid", "interactive"}
      BY <1>1 DEF PageType
    <2>3. p.tab = "grid" => p.lazy = NewLazy
      BY DEF Holding, Settled, Calm
    <2> QED  BY <1>2, <1>4, <2>1, <2>2, <2>3, NewLazyIs DEF Holding, Served, Serves
  <1> QED  BY <1>6, <1>7, <1>8, <1>9, AlikeBrings DEF w, u

\* A cycle at work is done with its plot: q is p with the plot or its error.
LEMMA DoneBrings ==
    ASSUME NEW p, Holding(p), NEW c \in p.cycles, Works(c), NEW q, Alike(p, q),
           q.cycles = p.cycles, q.loading = p.loading \ {c.key}, q.lazy = p.lazy,
           q.grid = p.grid,
           \A k \in Keys \ {c.key} :
             q.cached[k] = p.cached[k] /\ (k \in p.errors => k \in q.errors),
           \/ q.cached[c.key] = c.sel
           \/ q.cached[c.key] = p.cached[c.key] /\ c.key \in q.errors
    PROVE  Brings(p, GoesOn(q, c))
  <1> DEFINE w == GoesOn(q, c)
  <1>1. p \in PageType /\ c \in CycleType /\ q \in PageType
    BY DEF Holding, Sound, PageType, Alike
  <1>2. c.key \in Keys /\ c.sel # None /\ c.live
    BY <1>1, RenderAssumption DEF CycleType, Works
  <1>3. /\ Alike(q, w)
        /\ w.cached = q.cached /\ w.errors = q.errors /\ w.loading = q.loading
        /\ w.lazy = q.lazy
        /\ ~c.own => w.grid.streaming = q.grid.streaming
        /\ \/ c.key = NumPlots /\ w.cycles = q.cycles \ {c}
           \/ /\ c.key # NumPlots /\ w.grid.streaming = q.grid.streaming
              /\ \E d \in CycleType :
                   /\ w.cycles = (q.cycles \ {c}) \cup {d}
                   /\ d.own = c.own /\ Works(d) /\ d.sel = c.sel /\ d.key = c.key + 1
    BY <1>1, GoesOnIs
  <1> HIDE DEF w
  <1>4. Alike(p, w)
    BY <1>3 DEF Alike
  <1>5. CyclesSound(w)
    <2>1. /\ \A x, y \in p.cycles : x.own /\ x.live /\ y.own /\ y.live => x = y
          /\ \A x \in p.cycles : x.live => ~x.aborted
          /\ \A x \in p.cycles : x.own /\ Works(x) => p.grid.streaming
      BY DEF Holding, Sound, CyclesSound
    <2>2. CASE c.key = NumPlots /\ w.cycles = q.cycles \ {c}
      <3>1. ~c.own \/ \A x \in w.cycles : ~(x.own /\ x.live)
        BY <1>2, <2>1, <2>2
      <3>2. \A x \in w.cycles : x.own /\ Works(x) => w.grid.streaming
        BY <1>3, <2>1, <2>2, <3>1 DEF Works
      <3> QED  BY <2>1, <2>2, <3>2 DEF CyclesSound
    <2>3. CASE c.key # NumPlots /\ w.grid.streaming = q.grid.streaming
      <3>1. PICK d \in CycleType :
              /\ w.cycles = (q.cycles \ {c}) \cup {d}
              /\ d.own = c.own /\ Works(d) /\ d.sel = c.sel /\ d.key = c.key + 1
        BY <1>3, <2>3
      <3>2. \A x, y \in w.cycles : x.own /\ x.live /\ y.own /\ y.live => x = y
        BY <1>2, <2>1, <3>1
      <3>3. \A x \in w.cycles : x.live => ~x.aborted
        BY <2>1, <3>1 DEF Works
      <3>4. \A x \in w.cycles : x.own /\ Works(x) => w.grid.streaming
        BY <2>1, <2>3, <3>1
      <3> QED  BY <3>2, <3>3, <3>4 DEF CyclesSound
    <2> QED  BY <1>3, <2>2, <2>3
  <1>6. Spins(w)
    <2> SUFFICES ASSUME NEW k \in w.loading
                 PROVE  \E x \in w.cycles : Works(x) /\ x.key <= k
      BY DEF Spins
    <2>1. k \in p.loading /\ k # c.key /\ k \in Keys
      BY <1>1, <1>3 DEF PageType
    <2>2. PICK y \in p.cycles : Works(y) /\ y.key <= k
      BY <2>1 DEF Holding, Sound, Spins
    <2>3. CASE y # c
      BY <1>3, <2>2, <2>3
    <2>4. CASE y = c
      <3>1. c.key \in 1..NumPlots /\ k \in 1..NumPlots /\ c.key < k /\ NumPlots \in Nat
        BY <1>2, <2>1, <2>2, <2>4, RenderAssumption DEF Keys
      <3>2. c.key # NumPlots /\ c.key + 1 <= k
        BY <3>1
      <3> QED  BY <1>3, <3>2
    <2> QED  BY <2>3, <2>4
  <1>7. Viewing(w)
    BY <1>3, <1>4 DEF Holding, Sound, Viewing, Alike
  <1>8. ASSUME ~orphaned
        PROVE  /\ \A d \in w.cycles : Works(d) => d.own /\ d.sel = p.rendered /\ p.tab = "grid"
               /\ \A k \in Keys : w.cached[k] \in {None, p.rendered}
               /\ Covered(p) => Covered(w)
               /\ Hung(p, w)
               /\ Serves(w)
    <2>1. Tidy(p)
      BY <1>8 DEF Holding
    <2>2. c.own /\ c.sel = p.rendered /\ p.tab = "grid"
      BY <2>1 DEF Tidy
    <2>3. \A d \in w.cycles : Works(d) => d.own /\ d.sel = p.rendered
      BY <1>3, <2>1, <2>2 DEF Tidy
    <2>4. \A k \in Keys : w.cached[k] \in {None, p.rendered}
      BY <1>3, <2>1, <2>2 DEF Tidy
    <2>5. Covered(p) => Covered(w)
      BY <1>2, <1>3 DEF Covered
    <2>6. w.lazy = NewLazy
      BY <1>3, <2>2 DEF Holding, Settled, Calm
    <2>7. q.cached = p.cached \/ q.cached = [p.cached EXCEPT ![c.key] = p.rendered]
      <3>1. p.cached \in [Keys -> Events] /\ q.cached \in [Keys -> Events]
        BY <1>1 DEF PageType
      <3>2. CASE q.cached[c.key] = c.sel
        BY <2>2, <3>1, <3>2
      <3>3. CASE q.cached[c.key] = p.cached[c.key]
        BY <3>1, <3>3
      <3> QED  BY <3>2, <3>3
    <2>8. Hung(p, w)
      BY <1>2, <1>3, <1>4, <2>7 DEF Hung, Alike
    <2> QED  BY <2>2, <2>3, <2>4, <2>5, <2>6, <2>8, NewLazyIs DEF Serves
  <1> QED  BY <1>4, <1>5, <1>6, <1>7, <1>8, AlikeBrings DEF w

LEMMA ArrivesBrings ==
    ASSUME NEW p, Holding(p), NEW c \in p.cycles, Works(c)
    PROVE  Brings(p, Arrives(p, c))
  <1> DEFINE a == [Caches(p, c.key, c.sel) EXCEPT !.errors = @ \ {c.key}]
             q == Unloads(a, c)
  <1>1. p \in PageType /\ c \in CycleType /\ c.key \in Keys /\ c.sel \in Events /\ c.live
    BY DEF Holding, Sound, PageType, CycleType, Events, Works
  <1>2. /\ a \in PageType
        /\ a.rendering = p.rendering /\ a.selected = p.selected /\ a.rendered = p.rendered
        /\ a.cached = [p.cached EXCEPT ![c.key] = c.sel] /\ a.errors = p.errors \ {c.key}
        /\ a.loading = p.loading /\ a.grid = p.grid /\ a.cycles = p.cycles
        /\ a.tab = p.tab /\ a.chosen = p.chosen /\ a.lazy = p.lazy
    BY <1>1 DEF Caches, PageType
  <1>3. Arrives(p, c) = GoesOn(q, c)
    BY DEF Arrives
  <1> HIDE DEF a
  <1>4. /\ q \in PageType
        /\ q.rendering = a.rendering /\ q.selected = a.selected /\ q.rendered = a.rendered
        /\ q.cached = a.cached /\ q.errors = a.errors
        /\ q.loading = a.loading \ {c.key}
        /\ q.grid = a.grid /\ q.cycles = a.cycles
        /\ q.tab = a.tab /\ q.chosen = a.chosen /\ q.lazy = a.lazy
    BY <1>1, <1>2, UnloadsIs
  <1> HIDE DEF q
  <1>5. p.cached \in [Keys -> Events]
    BY <1>1 DEF PageType
  <1>6. /\ \A k \in Keys \ {c.key} :
             q.cached[k] = p.cached[k] /\ (k \in p.errors => k \in q.errors)
        /\ q.cached[c.key] = c.sel
    BY <1>1, <1>2, <1>4, <1>5
  <1>7. Alike(p, q)
    BY <1>2, <1>4 DEF Alike
  <1>8. /\ q.cycles = p.cycles /\ q.loading = p.loading \ {c.key} /\ q.lazy = p.lazy
        /\ q.grid = p.grid
    BY <1>2, <1>4
  <1>9. Brings(p, GoesOn(q, c))
    BY <1>6, <1>7, <1>8, DoneBrings
  <1> QED  BY <1>3, <1>9

LEMMA FailsBrings ==
    ASSUME NEW p, Holding(p), NEW c \in p.cycles, Works(c)
    PROVE  Brings(p, GoesOn(Unloads([p EXCEPT !.errors = @ \cup {c.key}], c), c))
  <1> DEFINE a == [p EXCEPT !.errors = @ \cup {c.key}]
             q == Unloads(a, c)
  <1>1. p \in PageType /\ c \in CycleType /\ c.key \in Keys /\ c.live
    BY DEF Holding, Sound, PageType, CycleType, Works
  <1>2. /\ a \in PageType
        /\ a.rendering = p.rendering /\ a.selected = p.selected /\ a.rendered = p.rendered
        /\ a.cached = p.cached /\ a.errors = p.errors \cup {c.key}
        /\ a.loading = p.loading /\ a.grid = p.grid /\ a.cycles = p.cycles
        /\ a.tab = p.tab /\ a.chosen = p.chosen /\ a.lazy = p.lazy
    BY <1>1 DEF PageType
  <1> HIDE DEF a
  <1>4. /\ q \in PageType
        /\ q.rendering = a.rendering /\ q.selected = a.selected /\ q.rendered = a.rendered
        /\ q.cached = a.cached /\ q.errors = a.errors
        /\ q.loading = a.loading \ {c.key}
        /\ q.grid = a.grid /\ q.cycles = a.cycles
        /\ q.tab = a.tab /\ q.chosen = a.chosen /\ q.lazy = a.lazy
    BY <1>1, <1>2, UnloadsIs
  <1> HIDE DEF q
  <1>5. Alike(p, q)
    BY <1>2, <1>4 DEF Alike
  <1>6. Brings(p, GoesOn(q, c))
    BY <1>2, <1>4, <1>5, DoneBrings
  <1> QED  BY <1>6 DEF q, a

\* The viewer's request is answered: only the viewer and its plot change.
LEMMA ViewerBrings ==
    ASSUME NEW p, Holding(p), p.lazy.req # NoRequest, NEW w \in PageType,
           w.rendering = p.rendering, w.selected = p.selected, w.rendered = p.rendered,
           w.loading = p.loading, w.errors = p.errors, w.grid = p.grid, w.cycles = p.cycles,
           w.tab = p.tab, w.chosen = p.chosen,
           w.lazy.req = NoRequest, ~w.lazy.loading,
           w.cached = p.cached \/ w.cached = [p.cached EXCEPT ![p.lazy.req.key] = p.lazy.req.sel]
    PROVE  Brings(p, w)
  <1>1. p \in PageType /\ p.tab # "grid"
    BY NewLazyIs DEF Holding, Sound, Settled, Calm
  <1>2. p.tab = "interactive" /\ p.cached \in [Keys -> Events]
    BY <1>1 DEF PageType
  <1>3. p.chosen \in Keys /\ p.lazy.req = [key |-> p.chosen, sel |-> p.rendered]
    BY <1>2 DEF Holding, Sound, Viewing
  <1>4. \A k \in Keys : w.cached[k] = p.cached[k] \/ w.cached[k] = p.rendered
    BY <1>2, <1>3
  <1>5. Alike(p, w)
    BY DEF Alike
  <1>6. CyclesSound(w) /\ Spins(w)
    BY DEF Holding, Sound, CyclesSound, Spins
  <1>7. Viewing(w)
    BY DEF Holding, Sound, Viewing
  <1>8. ASSUME Tidy(p)
        PROVE  /\ \A c \in w.cycles : Works(c) => c.own /\ c.sel = p.rendered /\ p.tab = "grid"
               /\ \A k \in Keys : w.cached[k] \in {None, p.rendered}
               /\ Covered(p) => Covered(w)
               /\ Hung(p, w)
    <2>1. /\ \A c \in w.cycles : Works(c) => c.own /\ c.sel = p.rendered /\ p.tab = "grid"
          /\ \A k \in Keys : w.cached[k] \in {None, p.rendered}
          /\ Covered(p) => Covered(w)
      BY <1>4, <1>8 DEF Tidy, Covered
    <2>2. p.lazy.req.key \in Keys /\ p.lazy.req.sel = p.rendered
      BY <1>3
    <2>3. Hung(p, w)
      BY <2>2 DEF Hung
    <2> QED  BY <2>1, <2>3
  <1>9. Serves(w)
    BY DEF Serves
  <1> QED  BY <1>5, <1>6, <1>7, <1>8, <1>9, AlikeBrings DEF Holding

\* What a step may do to a render that ends by itself.
Fills ==
    rendering /\ ~rendering' =>
      orphaned \/ \A k \in Keys : cached'[k] = rendered' \/ k \in errors'

LEMMA BringsKeeps ==
    ASSUME IInv, NEW w, Becomes(w), Brings(Page, w), Counts', UNCHANGED <<orphaned, flickered>>
    PROVE  IInv' /\ Fills /\ Shows
  <1>1. IInv' /\ Shows
    BY BecomesSound DEF Brings
  <1>2. After(w, Page')
    BY BecomesAfter DEF Brings
  <1>3. tab \in {"grid", "interactive"} /\ w.tab = tab /\ w.rendering = rendering
    BY PageIs DEF IInv, Sound, PageType, Brings
  <1>4. ASSUME rendering, ~rendering', ~orphaned
        PROVE  \A k \in Keys : cached'[k] = rendered' \/ k \in errors'
    <2>1. tab = "grid"
      BY <1>2, <1>3, <1>4, NextPageIs DEF After
    <2>2. EndsFull(w) /\ Tidy(w)
      BY <1>4, <2>1, PageIs DEF Brings
    <2>3. EndsFull(Page')
      BY <1>2, <1>3, <2>1, <2>2 DEF After
    <2> QED  BY <1>4, <2>3, NextPageIs DEF EndsFull, Full
  <1> QED  BY <1>1, <1>4 DEF Fills

LEMMA PlotArrivesKeeps ==
    ASSUME IInv, NEW c \in cycles, PlotArrives(c)
    PROVE  IInv' /\ Fills /\ Shows
  <1> DEFINE w == IF Dropped(c) THEN Returns(Unloads(Page, c), c) ELSE Arrives(Page, c)
  <1>1. Becomes(w) /\ UNCHANGED <<moves, failures, orphaned, flickered>>
    BY DEF PlotArrives, History
  <1>2. Holding(Page) /\ c \in Page.cycles
    BY PageHolds, PageIs
  <1>3. Dropped(c) \/ Works(c)
    BY DEF Dropped, Works
  <1>4. Brings(Page, w)
    BY <1>2, <1>3, LateBrings, ArrivesBrings
  <1>5. Counts'
    BY <1>1 DEF IInv, Counts
  <1> HIDE DEF w
  <1> QED  BY <1>1, <1>4, <1>5, BringsKeeps

LEMMA FailureCounts ==
    ASSUME Counts, Failure
    PROVE  Counts' /\ UNCHANGED <<orphaned, flickered>>
  BY RenderAssumption DEF Counts, Failure, History

LEMMA PlotFailsKeeps ==
    ASSUME IInv, NEW c \in cycles, PlotFails(c)
    PROVE  IInv' /\ Fills /\ Shows
  <1> DEFINE w == GoesOn(Unloads([Page EXCEPT !.errors = @ \cup {c.key}], c), c)
  <1>1. Becomes(w) /\ Failure /\ ~Dropped(c)
    BY DEF PlotFails
  <1>2. Holding(Page) /\ c \in Page.cycles /\ Works(c)
    BY <1>1, PageHolds, PageIs DEF Dropped, Works
  <1>3. Brings(Page, w)
    BY <1>2, FailsBrings
  <1>4. Counts' /\ UNCHANGED <<orphaned, flickered>>
    BY <1>1, FailureCounts DEF IInv
  <1> HIDE DEF w
  <1> QED  BY <1>1, <1>3, <1>4, BringsKeeps

LEMMA LazyArrivesKeeps ==
    ASSUME IInv, LazyArrives
    PROVE  IInv' /\ Fills /\ Shows
  <1> DEFINE p == Page
             w == [Caches(p, lazy.req.key, lazy.req.sel) EXCEPT !.lazy = Answered]
  <1>1. Becomes(w) /\ UNCHANGED <<moves, failures, orphaned, flickered>> /\ lazy.req # NoRequest
    BY DEF LazyArrives, History
  <1>2. Holding(p) /\ p.lazy = lazy /\ p \in PageType
    BY PageHolds, PageIs DEF Holding, Sound
  <1> HIDE DEF p
  <1>3. p.tab # "grid"
    BY <1>1, <1>2, NewLazyIs DEF Holding, Settled, Calm
  <1>4. lazy \in LazyType /\ lazy.req.key \in Keys /\ lazy.req.sel \in Events
    BY <1>1, <1>2, <1>3 DEF Holding, Sound, Viewing, PageType
  <1>5. Answered \in LazyType /\ Answered.req = NoRequest /\ ~Answered.loading
    BY <1>4 DEF Answered, LazyType, NoRequest, RequestType, Events
  <1>6. /\ w \in PageType
        /\ w.rendering = p.rendering /\ w.selected = p.selected /\ w.rendered = p.rendered
        /\ w.cached = [p.cached EXCEPT ![lazy.req.key] = lazy.req.sel]
        /\ w.loading = p.loading /\ w.errors = p.errors
        /\ w.grid = p.grid /\ w.cycles = p.cycles
        /\ w.tab = p.tab /\ w.chosen = p.chosen /\ w.lazy = Answered
    BY <1>2, <1>4, <1>5 DEF Caches, PageType
  <1> HIDE DEF w
  <1>7. Brings(p, w)
    BY <1>1, <1>2, <1>5, <1>6, ViewerBrings
  <1>8. Counts'
    BY <1>1 DEF IInv, Counts
  <1> QED  BY <1>1, <1>7, <1>8, BringsKeeps DEF p

LEMMA LazyFailsKeeps ==
    ASSUME IInv, LazyFails
    PROVE  IInv' /\ Fills /\ Shows
  <1> DEFINE p == Page
             y == [Answered EXCEPT !.error = TRUE]
             w == [p EXCEPT !.lazy = y]
  <1>1. Becomes(w) /\ Failure /\ lazy.req # NoRequest
    BY DEF LazyFails
  <1>2. Holding(p) /\ p.lazy = lazy /\ p \in PageType
    BY PageHolds, PageIs DEF Holding, Sound
  <1> HIDE DEF p
  <1>3. lazy \in LazyType
    BY <1>2 DEF PageType
  <1>4. y \in LazyType /\ y.req = NoRequest /\ ~y.loading
    BY <1>3 DEF Answered, LazyType, NoRequest, RequestType, Events
  <1> HIDE DEF y
  <1>5. /\ w \in PageType
        /\ w.rendering = p.rendering /\ w.selected = p.selected /\ w.rendered = p.rendered
        /\ w.cached = p.cached /\ w.loading = p.loading /\ w.errors = p.errors
        /\ w.grid = p.grid /\ w.cycles = p.cycles
        /\ w.tab = p.tab /\ w.chosen = p.chosen /\ w.lazy = y
    BY <1>2, <1>4 DEF PageType
  <1> HIDE DEF w
  <1>6. Brings(p, w)
    BY <1>1, <1>2, <1>4, <1>5, ViewerBrings
  <1>7. Counts' /\ UNCHANGED <<orphaned, flickered>>
    BY <1>1, FailureCounts DEF IInv
  <1> QED  BY <1>1, <1>6, <1>7, BringsKeeps DEF p

-----------------------------------------------------------------------------
(* The theorems.                                                           *)

LEMMA StaysKeeps ==
    ASSUME IInv, UNCHANGED vars
    PROVE  IInv'
  <1>1. Page' = Page /\ UNCHANGED <<tab, moves, failures, orphaned, flickered>>
    BY DEF Page, vars, page
  <1>2. Counts'
    BY <1>1 DEF IInv, Counts
  <1>3. (Sound(Page))'
    BY <1>1 DEF IInv, Sound, CyclesSound, Spins, Viewing
  <1>4. (tab = "grid" => Settled(Page))'
    BY <1>1 DEF IInv, Settled, Calm, Counted, About, Complete
  <1>5. (~orphaned => Tidy(Page))'
    BY <1>1 DEF IInv, Tidy, About, Covered
  <1>6. (~orphaned /\ ~flickered => Served(Page))'
    BY <1>1 DEF IInv, Served, Deps
  <1>7. Watching(Page)'
    BY <1>1 DEF IInv, Watching, Deps
  <1> QED  BY <1>2, <1>3, <1>4, <1>5, <1>6, <1>7 DEF IInv

\* A step is the user's, and is counted, or an answer.
LEMMA StepKeeps ==
    ASSUME IInv, Next
    PROVE  IInv' /\ (Move \/ Fills) /\ Shows
  <1>1. ASSUME NEW sel \in Selections \cup {None}, Select(sel)
        PROVE  IInv' /\ Move /\ Shows
    BY <1>1, SelectKeeps DEF Select
  <1>2. CASE Render
    BY <1>2, RenderKeeps DEF Render
  <1>3. CASE Clear
    BY <1>3, ClearKeeps DEF Clear
  <1>4. ASSUME NEW k \in Keys, Expand(k)
        PROVE  IInv' /\ Move /\ Shows
    BY <1>4, ExpandKeeps DEF Expand
  <1>5. CASE ReturnToGrid
    BY <1>5, ReturnKeeps DEF ReturnToGrid
  <1>6. CASE Reread
    BY <1>6, RereadKeeps DEF Reread
  <1>7. ASSUME NEW c \in cycles, PlotArrives(c) \/ PlotFails(c)
        PROVE  IInv' /\ Fills /\ Shows
    BY <1>7, PlotArrivesKeeps, PlotFailsKeeps
  <1>8. CASE LazyArrives
    BY <1>8, LazyArrivesKeeps
  <1>9. CASE LazyFails
    BY <1>9, LazyFailsKeeps
  <1> QED  BY <1>1, <1>2, <1>3, <1>4, <1>5, <1>6, <1>7, <1>8, <1>9 DEF Next

LEMMA Invariance == Spec => []IInv
  <1>1. Init => IInv
    BY InitSound
  <1>2. IInv /\ [Next]_vars => IInv'
    BY StepKeeps, StaysKeeps
  <1> QED  BY <1>1, <1>2, PTL DEF Spec

\* The components of the page have the values the code gives them, and no two
\* live cycles are the grid's.
THEOREM TypeCorrect == Spec => []TypeOK
  <1>1. IInv => TypeOK
    <2> SUFFICES ASSUME IInv
                 PROVE  TypeOK
      OBVIOUS
    <2>1. Page \in PageType /\ CyclesSound(Page) /\ Counts
      BY DEF IInv, Sound
    <2>2. /\ rendering \in BOOLEAN /\ cached \in [Keys -> Events]
          /\ loading \subseteq Keys /\ errors \subseteq Keys
          /\ selected \in Events /\ rendered \in Events
          /\ grid \in GridType /\ cycles \subseteq CycleType
          /\ tab \in {"grid", "interactive"} /\ chosen \in Keys \cup {0}
          /\ lazy \in LazyType
      BY <2>1, PageIs DEF PageType
    <2>3. \A c, d \in cycles : c.own /\ c.live /\ d.own /\ d.live => c = d
      BY <2>1, PageIs DEF CyclesSound
    <2> QED  BY <2>1, <2>2, <2>3 DEF TypeOK, Counts, GridType, CycleType, LazyType,
                                     RequestType, DepsType
  <1> QED  BY <1>1, Invariance, PTL

\* Whatever was clicked and whichever answer was late, a plot on show is of the
\* events that were rendered, unless a cycle lost its grid.
THEOREM PlotsOfRenderedHolds == Spec => []PlotsOfRendered
  <1>1. IInv => PlotsOfRendered
    BY PageIs DEF IInv, Tidy, PlotsOfRendered
  <1> QED  BY <1>1, Invariance, PTL

\* A spinner always has a cycle at work that has not passed its plot.
THEOREM SpinnersEndHolds == Spec => []SpinnersEnd
  <1>1. IInv => SpinnersEnd
    BY PageIs DEF IInv, Sound, Spins, Works, SpinnersEnd
  <1> QED  BY <1>1, Invariance, PTL

\* A viewer that says it is loading waits for a request, unless a cycle lost
\* its grid or the session was read again.
THEOREM ViewerLoadsHolds == Spec => []ViewerLoads
  <1>1. IInv => ViewerLoads
    <2> SUFFICES ASSUME IInv, lazy.loading, ~orphaned, ~flickered
                 PROVE  lazy.req # NoRequest
      BY DEF ViewerLoads
    <2>1. tab \in {"grid", "interactive"}
      BY PageIs DEF IInv, Sound, PageType
    <2>2. CASE tab = "grid"
      BY <2>2, PageIs, NewLazyIs DEF IInv, Settled, Calm
    <2>3. CASE tab = "interactive"
      BY <2>3, PageIs DEF IInv, Served
    <2> QED  BY <2>1, <2>2, <2>3
  <1> QED  BY <1>1, Invariance, PTL

\* A render that ends by itself leaves each card with its plot or its error.
THEOREM FinishedIsFullHolds == Spec => FinishedIsFull
  <1>1. IInv /\ [Next]_vars =>
          [rendering /\ ~rendering' /\ moves' = moves =>
             orphaned \/ \A k \in Keys : cached'[k] = rendered' \/ k \in errors']_vars
    <2> SUFFICES ASSUME IInv, Next, rendering, ~rendering', moves' = moves
                 PROVE  orphaned \/ \A k \in Keys : cached'[k] = rendered' \/ k \in errors'
      OBVIOUS
    <2>1. ~Move
      BY RenderAssumption DEF Move, IInv, Counts
    <2> QED  BY <2>1, StepKeeps DEF Fills
  <1> QED  BY <1>1, Invariance, PTL DEF Spec, FinishedIsFull

\* The plots come and go as in a gallery of one set of events: each step of the
\* dashboard hangs one plot of what is rendered, empties the gallery, or leaves
\* it, until a fetch escapes from its grid.
THEOREM GalleryImplemented == Spec => ImplementsGallery
  <1>1. Init => Gallery!Init
    BY DEF Init, Gallery!Init, Gallery!Empty, NoPlots
  <1>2. IInv /\ [Next]_vars => [Gallery!Next]_(Gallery!vars)
    <2>1. ASSUME UNCHANGED vars
          PROVE  UNCHANGED Gallery!vars
      BY <2>1 DEF vars, page, Gallery!vars
    <2>2. ASSUME IInv, Next
          PROVE  Gallery!Next \/ UNCHANGED Gallery!vars
      <3>1. Shows /\ IInv'
        BY <2>2, StepKeeps
      <3>2. orphaned \in BOOLEAN /\ orphaned' \in BOOLEAN
        BY <2>2, <3>1 DEF IInv, Counts
      <3>3. CASE orphaned'
        BY <3>2, <3>3 DEF Gallery!Next, Gallery!Escape
      <3>4. CASE ~orphaned' /\ cached' = NoPlots /\ rendered' \in Events
        <4>1. ~orphaned /\ orphaned' = orphaned
          BY <3>1, <3>2, <3>4 DEF Shows
        <4>2. Gallery!Rehang(rendered')
          BY <3>4, <4>1 DEF Gallery!Rehang, Gallery!Empty, NoPlots
        <4> QED  BY <3>4, <4>1, <4>2 DEF Gallery!Next, Events
      <3>5. CASE ~orphaned' /\ Hung(Page, Page')
        <4>1. ~orphaned /\ orphaned' = orphaned
          BY <3>1, <3>2, <3>5 DEF Shows
        <4>2. /\ rendered' = rendered
              /\ cached' = cached \/ \E k \in Keys : cached' = [cached EXCEPT ![k] = rendered]
          BY <3>5, PageIs, NextPageIs DEF Hung
        <4>3. CASE cached' = cached
          BY <4>1, <4>2, <4>3 DEF Gallery!vars
        <4>4. ASSUME NEW k \in Keys, cached' = [cached EXCEPT ![k] = rendered]
              PROVE  Gallery!Next \/ UNCHANGED Gallery!vars
          <5>1. CASE rendered # None
            BY <4>1, <4>2, <4>4, <5>1 DEF Gallery!Next, Gallery!Hang
          <5>2. CASE rendered = None
            <6>1. cached \in [Keys -> Events] /\ cached[k] = None
              BY <2>2, <4>1, <5>2, PageIs DEF IInv, Sound, PageType, Tidy
            <6>2. cached' = cached
              BY <4>4, <5>2, <6>1
            <6> QED  BY <4>1, <4>2, <6>2 DEF Gallery!vars
          <5> QED  BY <5>1, <5>2
        <4> QED  BY <4>2, <4>3, <4>4
      <3> QED  BY <3>1, <3>3, <3>4, <3>5 DEF Shows
    <2> QED  BY <2>1, <2>2
  <1> QED  BY <1>1, <1>2, Invariance, PTL DEF Spec, ImplementsGallery, Gallery!Spec

\* The page at rest is a fixpoint of the effects: React has nothing left to run
\* between two steps, for three rounds always suffice.
THEOREM EffectsSettled == Spec => [](Effects(Page) = Page)
  <1>1. ASSUME NEW w \in PageType, w.tab = "grid", Settled(w)
        PROVE  Effects(w) = w
    <2>1. w.grid \in GridType /\ w.lazy = NewLazy
      BY <1>1 DEF PageType, Settled, Calm
    <2>2. [w EXCEPT !.lazy = NewLazy] = w
      BY <2>1 DEF PageType
    <2>3. Triggers(w, w) = w
      <3>1. CASE w.rendering
        BY <1>1, <3>1 DEF Triggers, Settled, Calm, About
      <3>2. CASE ~w.rendering
        <4>1. [w EXCEPT !.grid.started = FALSE] = w
          BY <1>1, <2>1, <3>2 DEF Settled, PageType, GridType
        <4> QED  BY <3>2, <4>1 DEF Triggers
      <3> QED  BY <3>1, <3>2
    <2>4. Cancels(w, w) = w
      BY <1>1 DEF Cancels, Settled
    <2>5. Finishes(w, w) = w
      BY <1>1 DEF Finishes, Settled, Calm
    <2>6. Clears(w, w) = w
      <3>1. ~(w.grid.prev = "some" /\ w.rendered = None)
        BY <1>1 DEF Settled, Calm
      <3>2. [w EXCEPT !.grid.prev = IF w.rendered = None THEN "zero" ELSE "some"] = w
        BY <1>1, <2>1 DEF Settled, Counted, PageType, GridType
      <3> QED  BY <3>1, <3>2 DEF Clears
    <2> QED  BY <1>1, <2>2, <2>3, <2>4, <2>5, <2>6 DEF Effects, GridEffects
  <1>2. ASSUME NEW w \in PageType, w.tab = "interactive", Watching(w)
        PROVE  Effects(w) = w
    <2>1. Watches(w.lazy, Deps(w)) = w.lazy
      BY <1>2 DEF Watching, Watches
    <2> QED  BY <1>2, <2>1 DEF Effects, PageType
  <1>3. IInv => Effects(Page) = Page
    <2> SUFFICES ASSUME IInv
                 PROVE  Effects(Page) = Page
      OBVIOUS
    <2>1. Page \in PageType /\ Page.tab \in {"grid", "interactive"}
      BY DEF IInv, Sound, PageType
    <2>2. CASE Page.tab = "grid"
      BY <1>1, <2>1, <2>2, PageIs DEF IInv
    <2>3. CASE Page.tab = "interactive"
      BY <1>2, <2>1, <2>3 DEF IInv
    <2> QED  BY <2>1, <2>2, <2>3
  <1> QED  BY <1>3, Invariance, PTL

\* What PlotGallery promises is enough, without the effects and the cycles: in
\* any of its behaviours all plots are of the set that is rendered.
THEOREM GalleryOfRendered == Gallery!Spec => []Gallery!OfRendered
  <1> DEFINE Inv == DOMAIN cached = Keys /\ Gallery!OfRendered
  <1>1. Gallery!Init => orphaned \/ Inv
    BY DEF Gallery!Init, Gallery!Empty, Gallery!OfRendered
  <1>2. (orphaned \/ Inv) /\ [Gallery!Next]_(Gallery!vars) => (orphaned \/ Inv)'
    <2>1. ASSUME orphaned \/ Inv, UNCHANGED Gallery!vars
          PROVE  (orphaned \/ Inv)'
      BY <2>1 DEF Gallery!vars, Gallery!OfRendered
    <2>2. CASE Gallery!Escape
      BY <2>2 DEF Gallery!Escape
    <2>3. ASSUME Inv, ~orphaned, NEW k \in Keys, Gallery!Hang(k)
          PROVE  Inv'
      BY <2>3 DEF Gallery!Hang, Gallery!OfRendered
    <2>4. ASSUME NEW sel \in Events, Gallery!Rehang(sel)
          PROVE  Inv'
      BY <2>4 DEF Gallery!Rehang, Gallery!Empty, Gallery!OfRendered
    <2> QED  BY <2>1, <2>2, <2>3, <2>4 DEF Gallery!Next, Events
  <1>3. (orphaned \/ Inv) => Gallery!OfRendered
    BY DEF Gallery!OfRendered
  <1> QED  BY <1>1, <1>2, <1>3, PTL DEF Gallery!Spec

===============================================================================
