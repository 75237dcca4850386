------------------------- MODULE MetadataDialogProofs -------------------------
(***************************************************************************)
(* Proofs about MetadataDialog: its types, that unsaved edits are asked    *)
(* about, that a save is of its own scope, that Reset goes back to what    *)
(* the row has held, and that edits survive.                               *)
(***************************************************************************)
EXTENDS MetadataDialog, FiniteSetTheorems, TLAPS

Dialogs == [shown : Scopes \cup {NoScope}, pending : Scopes \cup {NoScope},
            prompt : {"none", "close", "scope"}, told : BOOLEAN, forgiven : BOOLEAN]
Snaps == [draft : Values \cup {Blank}, mark : BOOLEAN]
Eds == [draft : Values \cup {Blank}, base : Values \cup {Blank}, mark : BOOLEAN,
        snap : Snaps, key : Keys, astray : BOOLEAN]

\* v was made for scope k, or is something its row has held by history h.
Own(h, k, v) == v.of = k \/ v \in h[k]

\* Panel p, mounted for scope `at' (or for none), with cache c and history h:
\* a panel that was read has values, and its scope is still cached.
Filled(p, c, at) ==
    /\ p \in Eds
    /\ p.key[1] # NoScope => IsRow(c[p.key[1]]) /\ p.draft \in Values /\ p.base \in Values
    /\ p.mark => p.draft \in Values
    /\ p.snap # NoSnap => p.snap.draft \in Values
    /\ panel = "map" => p.key[1] \in {NoScope, at}
    /\ panel = "schedule" => p.snap = NoSnap

\* What it holds is its scope's, unless something strayed into it.  The
\* baseline, and a clean draft over a snapshot, may be foreign as long as the
\* scope is not on show: they are overwritten before it is again.
Owned(p, h, at) ==
    p.key[1] # NoScope /\ ~p.astray =>
      /\ p.mark \/ p.snap = NoSnap \/ p.key[1] = at => Own(h, p.key[1], p.draft)
      /\ p.snap # NoSnap => Own(h, p.key[1], p.snap.draft)
      /\ p.key[1] = at \/ panel = "schedule" => p.base \in h[p.key[1]]

\* The panel has seen the data of the scope on show.
Seen(p, c, at) == at # NoScope /\ IsRow(c[at]) => p.key[1] = at

Cached(c, h) ==
    \A s \in Scopes : /\ c[s] \in Values \cup {NoRow, NoData}
                      /\ IsRow(c[s]) => c[s] \in h[s]

RowType ==
    /\ panel \in Panels
    /\ row \in [Scopes -> Values \cup {NoRow}]
    /\ cache \in [Scopes -> Values \cup {NoRow, NoData}]
    /\ held \in [Scopes -> SUBSET (Values \cup {NoRow})]
    /\ fetch \subseteq Scopes
SaveType == saves \subseteq Saves /\ \A x, y \in saves : x.own /\ y.own => x = y
DialogType == dlg \in Dialogs /\ (dlg.shown = NoScope => dlg = Closed /\ ed = Unread)
CountType == tokens \in 0..MaxTokens /\ moves \in 0..MaxMoves

\* A row is what it has held last; what is cached of it is something it has
\* held, and a row that is there stays.
RowsSound ==
    /\ Cached(cache, held)
    /\ \A s \in Scopes : /\ row[s] \in held[s]
                         /\ IsRow(cache[s]) => row[s] # NoRow
                         /\ panel # "schedule" => row[s] # NoRow

PanelSound ==
    /\ Filled(ed, cache, dlg.shown)
    /\ Owned(ed, held, dlg.shown)
    /\ Seen(ed, cache, dlg.shown)

\* A save that is not of a file is of a row, and what was taken was held.
SavesSound ==
    \A x \in saves : /\ ~x.file => /\ row[x.of] # NoRow
                                   /\ panel = "schedule" => IsRow(cache[x.of])
                     /\ x.at # "put" => x.value \in held[x.of]

IInv ==
    /\ RowType /\ SaveType /\ DialogType /\ CountType
    /\ RowsSound /\ PanelSound /\ SavesSound
    /\ AsksBeforeLosing /\ WritesAreOwn

-----------------------------------------------------------------------------
(* Values, rows and panels.                                                *)

LEMMA Marks ==
    /\ NoRow \notin Values /\ NoData \notin Values /\ Blank \notin Values
    /\ NoRow # NoData
  <1>1. DOMAIN NoRow = {"row"} /\ DOMAIN NoData = {"data"} /\ DOMAIN Blank = {"blank"}
    BY DEF NoRow, NoData, Blank
  <1>2. \A v \in Values : "of" \in DOMAIN v
    BY DEF Values
  <1>3. "of" \notin {"row"} /\ "of" \notin {"data"} /\ "of" \notin {"blank"} /\ {"row"} # {"data"}
    OBVIOUS
  <1> QED  BY <1>1, <1>2, <1>3

LEMMA RowIs ==
    ASSUME NEW d \in Values \cup {NoRow, NoData}
    PROVE  IsRow(d) <=> d \in Values
  BY Marks DEF IsRow

LEMMA FreshIs ==
    ASSUME NEW s \in Scopes, NEW d \in Values
    PROVE  Fresh(s, d) \in Eds /\ Fresh(s, d).key[1] = s
  <1>1. KeyOf(s, d) \in Keys /\ KeyOf(s, d)[1] = s
    BY DEF KeyOf, Keys, Values
  <1>2. NoSnap \in Snaps
    BY DEF NoSnap, Snaps
  <1> QED  BY <1>1, <1>2 DEF Fresh, Eds

LEMMA UnreadIs ==
    /\ Unread \in Eds /\ Unread.key[1] = NoScope /\ ~Unread.mark /\ Unread.snap = NoSnap
    /\ Unread.draft = Unread.base
  <1>1. <<NoScope, 0>> \in Keys /\ <<NoScope, 0>>[1] = NoScope
    BY DialogAssumption DEF Keys
  <1>2. NoSnap \in Snaps
    BY DEF NoSnap, Snaps
  <1> QED  BY <1>1, <1>2 DEF Unread, Eds

LEMMA ClosedIs ==
    /\ Closed \in Dialogs /\ Closed.shown = NoScope /\ Closed.prompt = "none"
  BY DEF Closed, Dialogs

LEMMA UnreadSound ==
    ASSUME NEW c, NEW h, NEW at
    PROVE  Filled(Unread, c, at) /\ Owned(Unread, h, at)
  BY UnreadIs DEF Filled, Owned

\* The data of scope s meet a panel that was mounted for whatever scope.
LEMMA HydratedSound ==
    ASSUME panel \in Panels, NEW c, NEW h, Cached(c, h), NEW p, NEW at, NEW s \in Scopes,
           Filled(p, c, at), Owned(p, h, at)
    PROVE  /\ Filled(Hydrated(p, s, c[s]), c, s)
           /\ Owned(Hydrated(p, s, c[s]), h, s)
           /\ Seen(Hydrated(p, s, c[s]), c, s)
  <1> DEFINE d == c[s]
  <1>1. d \in Values \cup {NoRow, NoData} /\ (IsRow(d) => d \in h[s] /\ d \in Values)
    BY DEF Cached, IsRow
  <1>2. CASE ~IsRow(d)
    <2>1. CASE panel = "map"
      <3>1. Hydrated(p, s, d) = Unread
        BY <1>2, <2>1 DEF Hydrated, IsRow
      <3> QED  BY <3>1, <1>2, UnreadSound DEF Seen
    <2>2. CASE panel # "map"
      <3>1. Hydrated(p, s, d) = p
        BY <1>2, <2>2 DEF Hydrated, IsRow
      <3>2. p.key[1] # NoScope => p.key[1] # s
        BY <1>2 DEF Filled
      <3>3. panel = "schedule" => p.snap = NoSnap
        BY DEF Filled
      <3>4. Owned(p, h, s)
        BY <3>2, <3>3 DEF Owned
      <3> QED  BY <3>1, <3>4, <1>2, <2>2 DEF Seen, Filled
    <2> QED  BY <2>1, <2>2
  <1>3. CASE IsRow(d) /\ (panel = "map" \/ p.key # KeyOf(s, d))
    <2>1. Hydrated(p, s, d) = Fresh(s, d)
      BY <1>3 DEF Hydrated, IsRow
    <2> DEFINE r == Fresh(s, d)
    <2>5. d \in Values /\ d \in h[s]
      BY <1>1, <1>3
    <2>7. r.draft = d /\ r.base = d /\ r.mark = FALSE /\ r.snap = NoSnap
      BY DEF Fresh
    <2>8. r \in Eds /\ r.key[1] = s
      BY <2>5, FreshIs
    <2> HIDE DEF r
    <2>2. Filled(r, c, s)
      BY <2>5, <2>7, <2>8, <1>3 DEF Filled
    <2>3. Owned(r, h, s)
      BY <2>5, <2>7, <2>8 DEF Owned, Own
    <2>4. Seen(r, c, s)
      BY <2>8 DEF Seen
    <2> QED  BY <2>1, <2>2, <2>3, <2>4 DEF r
  <1>4. CASE IsRow(d) /\ panel = "metadata" /\ p.key = KeyOf(s, d)
    <2> DEFINE q == [p EXCEPT !.base = d, !.draft = IF p.mark THEN @ ELSE d]
    <2>1. Hydrated(p, s, d) = q
      BY <1>4 DEF Hydrated, IsRow
    <2>2. p \in Eds /\ p.key[1] = s
      BY <1>4 DEF Filled, KeyOf
    <2>3. /\ q \in Eds /\ q.base = d /\ q.draft = IF p.mark THEN p.draft ELSE d
          /\ q.key = p.key /\ q.mark = p.mark /\ q.snap = p.snap /\ q.astray = p.astray
      BY <2>2, <1>1, <1>4 DEF Eds
    <2> HIDE DEF q
    <2>4. Filled(q, c, s)
      BY <2>2, <2>3, <1>1, <1>4 DEF Filled
    <2>5. Owned(q, h, s)
      <3>1. s # NoScope
        BY DialogAssumption
      <3> QED  BY <2>2, <2>3, <3>1, <1>1, <1>4 DEF Owned, Own
    <2> QED  BY <2>1, <2>2, <2>3, <2>4, <2>5 DEF Seen
  <1>5. CASE IsRow(d) /\ panel = "schedule" /\ p.key = KeyOf(s, d)
    <2>1. Hydrated(p, s, d) = p
      BY <1>5 DEF Hydrated, IsRow
    <2>2. p.key[1] = s
      BY <1>5 DEF KeyOf
    <2>3. p.snap = NoSnap
      BY <1>5 DEF Filled
    <2>4. Filled(p, c, s)
      BY <1>5 DEF Filled
    <2>5. Owned(p, h, s)
      BY <2>3, <1>5 DEF Owned
    <2> QED  BY <2>1, <2>2, <2>4, <2>5 DEF Seen
  <1> QED  BY <1>2, <1>3, <1>4, <1>5 DEF Panels

\* Straying, and a longer history, leave less to be said.
LEMMA OwnedStays ==
    ASSUME NEW p, NEW q, NEW h, NEW g, NEW at, Owned(p, h, at), p.key[1] \in Scopes \cup {NoScope},
           q.key = p.key, q.draft = p.draft, q.base = p.base, q.mark = p.mark, q.snap = p.snap,
           p.astray => q.astray, \A s \in Scopes : h[s] \subseteq g[s]
    PROVE  Owned(q, g, at)
  BY DEF Owned, Own

-----------------------------------------------------------------------------
(* What a step leaves behind.                                              *)

LEMMA DirtyIs ==
    ASSUME NEW p \in Eds
    PROVE  IsDirty(p) \in BOOLEAN
  BY DEF IsDirty, Eds

\* A panel that was just opened is clean.
LEMMA OpenedIsClean ==
    ASSUME NEW s \in Scopes, NEW c, NEW h, Cached(c, h)
    PROVE  ~IsDirty(Hydrated(Unread, s, c[s]))
  <1>1. IsRow(c[s]) => c[s] \in Values
    BY DEF Cached, IsRow
  <1>2. CASE ~IsRow(c[s])
    BY <1>2, UnreadIs DEF Hydrated, IsDirty
  <1>3. CASE IsRow(c[s])
    <2>1. Unread.key # KeyOf(s, c[s])
      BY UnreadIs, DialogAssumption DEF KeyOf
    <2>2. Hydrated(Unread, s, c[s]) = Fresh(s, c[s])
      BY <1>3, <2>1 DEF Hydrated
    <2> QED  BY <1>1, <1>3, <2>2 DEF IsDirty, Fresh
  <1> QED  BY <1>2, <1>3

\* The step leaves a sound panel and a dialog that asks.
LEMMA CommitsSound ==
    ASSUME panel \in Panels, panel' = panel, ed \in Eds, Cached(cache', held'),
           NEW p, NEW d \in Dialogs, NEW f \in SUBSET Scopes, Commits(p, d, f),
           d.shown # NoScope, IsDirty(ed) /\ ~d.told => d.forgiven,
           Filled(p, cache', d.shown), Owned(p, held', d.shown), Seen(p, cache', d.shown)
    PROVE  /\ dlg' \in Dialogs /\ dlg'.shown # NoScope /\ fetch' \subseteq Scopes
           /\ PanelSound' /\ AsksBeforeLosing'
  <1> DEFINE t == Told(ed, p, d.told)
             applies == d.pending # NoScope /\ ~t
             there == IF applies THEN d.pending ELSE d.shown
             q == IF there # d.shown THEN Hydrated(p, there, cache'[there]) ELSE p
             u == Told(p, q, t)
  <1>1. there \in Scopes
    BY DEF Dialogs
  <1>2. p \in Eds
    BY DEF Filled
  <1>3. Filled(q, cache', there) /\ Owned(q, held', there) /\ Seen(q, cache', there)
    <2>1. CASE there # d.shown
      BY <2>1, <1>1, HydratedSound
    <2>2. CASE there = d.shown
      BY <2>2
    <2> QED  BY <2>1, <2>2
  <1>4. q \in Eds
    BY <1>3 DEF Filled
  <1>5. t \in BOOLEAN /\ u \in BOOLEAN
    BY <1>2, <1>4, DirtyIs DEF Told, Dialogs
  <1>6. /\ ed' = [q EXCEPT !.astray = @ \/ (d.forgiven /\ IsDirty(q))]
        /\ dlg' = [shown |-> there,
                   pending |-> IF applies THEN NoScope ELSE d.pending,
                   prompt |-> IF d.pending # NoScope /\ t THEN "scope" ELSE d.prompt,
                   told |-> u,
                   forgiven |-> d.forgiven /\ IsDirty(q) /\ ~u]
        /\ fetch' = f \cup (IF there # d.shown THEN {there} ELSE {})
    BY DEF Commits
  <1>7. IsDirty(q) /\ ~u => d.forgiven
    <2> SUFFICES ASSUME IsDirty(q), ~u  PROVE d.forgiven
      OBVIOUS
    <2>1. IsDirty(p) /\ ~t
      BY <1>5 DEF Told
    <2>2. IsDirty(ed) /\ ~d.told
      BY <2>1, DirtyIs, <1>2 DEF Told, Dialogs
    <2> QED  BY <2>2
  <1>8. IsDirty(q) \in BOOLEAN
    BY <1>4, DirtyIs
  <1> HIDE DEF t, q, u, there
  <1>9. /\ ed' \in Eds /\ ed'.draft = q.draft /\ ed'.base = q.base /\ ed'.mark = q.mark
        /\ ed'.snap = q.snap /\ ed'.key = q.key /\ (q.astray => ed'.astray)
    BY <1>4, <1>6, <1>8 DEF Eds, Dialogs
  <1>10. dlg' \in Dialogs /\ dlg'.shown = there /\ fetch' \subseteq Scopes
    BY <1>1, <1>5, <1>6, <1>8 DEF Dialogs
  <1>11. Filled(ed', cache', there) /\ Seen(ed', cache', there)
    BY <1>3, <1>9 DEF Filled, Seen
  <1>12. Owned(ed', held', there)
    BY <1>3, <1>9 DEF Owned, Own
  <1>13. PanelSound'
    <2>1. Filled(ed, cache, dlg.shown)'
      BY <1>10, <1>11 DEF Filled
    <2>2. Owned(ed, held, dlg.shown)' /\ Seen(ed, cache, dlg.shown)'
      BY <1>10, <1>11, <1>12 DEF Owned, Own, Seen
    <2> QED  BY <2>1, <2>2 DEF PanelSound
  <1>14. AsksBeforeLosing'
    <2>1. IsDirty(ed)' = IsDirty(q)
      BY <1>9 DEF IsDirty
    <2>2. dlg'.told = u /\ dlg'.forgiven = (d.forgiven /\ IsDirty(q) /\ ~u)
      BY <1>6
    <2> QED  BY <2>1, <2>2, <1>7 DEF AsksBeforeLosing
  <1> QED  BY <1>1, <1>10, <1>13, <1>14, DialogAssumption

-----------------------------------------------------------------------------
(* Steps that leave parts alone.                                           *)

LEMMA RowsStay ==
    ASSUME IInv, UNCHANGED <<panel, row, cache, held>>, fetch' \subseteq Scopes
    PROVE  RowType' /\ RowsSound' /\ Cached(cache', held')
  BY DEF IInv, RowType, RowsSound, Cached

LEMMA PanelStays ==
    ASSUME IInv, panel' = panel, ed' = ed, dlg'.shown = dlg.shown, cache' = cache,
           \A s \in Scopes : held[s] \subseteq held'[s]
    PROVE  PanelSound'
  <1>1. Filled(ed, cache, dlg.shown) /\ Owned(ed, held, dlg.shown) /\ Seen(ed, cache, dlg.shown)
    BY DEF IInv, PanelSound
  <1>2. ed.key[1] \in Scopes \cup {NoScope}
    BY <1>1 DEF Filled, Eds, Keys
  <1>3. Owned(ed', held', dlg'.shown)
    BY <1>1, <1>2 DEF Owned, Own
  <1>4. Filled(ed, cache, dlg.shown)' /\ Owned(ed, held, dlg.shown)' /\ Seen(ed, cache, dlg.shown)'
    BY <1>1, <1>3 DEF Filled, Owned, Own, Seen
  <1> QED  BY <1>4 DEF PanelSound

LEMMA AsksStays ==
    ASSUME IInv, panel' = panel, ed' = ed, dlg'.shown = dlg.shown, dlg'.told = dlg.told,
           dlg'.forgiven = dlg.forgiven
    PROVE  AsksBeforeLosing'
  BY DEF IInv, AsksBeforeLosing, IsDirty

\* Saves that are left are as they were but for owner and stage.
LEMMA SavesStay ==
    ASSUME IInv, panel' = panel, row' = row, held' = held,
           \A s \in Scopes : IsRow(cache[s]) => IsRow(cache'[s]),
           \A x \in saves' : \E y \in saves :
             /\ x.of = y.of /\ x.value = y.value /\ x.file = y.file /\ x.sound = y.sound
             /\ x.at # "put" => y.at # "put"
    PROVE  SavesSound' /\ WritesAreOwn'
  <1> SUFFICES ASSUME NEW x \in saves'
               PROVE  /\ ~x.file => /\ row[x.of] # NoRow
                                    /\ panel = "schedule" => IsRow(cache'[x.of])
                      /\ x.at # "put" => x.value \in held[x.of]
                      /\ x.sound => x.value.of = x.of \/ x.value \in held[x.of]
    BY DEF SavesSound, WritesAreOwn, IsRow
  <1>1. PICK y \in saves :
             /\ x.of = y.of /\ x.value = y.value /\ x.file = y.file /\ x.sound = y.sound
             /\ x.at # "put" => y.at # "put"
    OBVIOUS
  <1>2. y.of \in Scopes
    BY DEF IInv, SaveType, Saves
  <1>3. /\ ~y.file => /\ row[y.of] # NoRow
                      /\ panel = "schedule" => IsRow(cache[y.of])
        /\ y.at # "put" => y.value \in held[y.of]
        /\ y.sound => y.value.of = y.of \/ y.value \in held[y.of]
    BY DEF IInv, SavesSound, WritesAreOwn
  <1> QED  BY <1>1, <1>2, <1>3

LEMMA SameSaves ==
    ASSUME IInv, UNCHANGED <<panel, row, held, saves>>,
           \A s \in Scopes : IsRow(cache[s]) => IsRow(cache'[s])
    PROVE  SaveType' /\ SavesSound' /\ WritesAreOwn'
  <1>1. \A x \in saves' : \E y \in saves : x = y
    OBVIOUS
  <1>2. SavesSound' /\ WritesAreOwn'
    BY <1>1, SavesStay
  <1> QED  BY <1>2 DEF IInv, SaveType

\* A row gets another value.
LEMMA RowsStep ==
    ASSUME IInv, NEW s \in Scopes, NEW v \in Values, Rows(s, v),
           UNCHANGED <<panel, cache, fetch, ed, dlg>>
    PROVE  /\ RowType' /\ RowsSound' /\ PanelSound'
           /\ \A x \in Scopes : /\ held[x] \subseteq held'[x]
                                /\ row[x] # NoRow => row'[x] # NoRow
           /\ v \in held'[s]
  <1>1. RowType
    BY DEF IInv
  <1>2. \A x \in Scopes : /\ row'[x] = IF x = s THEN v ELSE row[x]
                          /\ held'[x] = IF x = s THEN held[x] \cup {v} ELSE held[x]
    BY <1>1 DEF RowType, Rows
  <1>3. RowType'
    BY <1>1, <1>2 DEF RowType, Rows
  <1>4. \A x \in Scopes : /\ held[x] \subseteq held'[x]
                          /\ row[x] # NoRow => row'[x] # NoRow
    BY <1>2, Marks
  <1>5. RowsSound'
    <2>1. \A x \in Scopes : row'[x] \in held'[x] /\ (x = s => row'[x] # NoRow)
      BY <1>2, Marks DEF IInv, RowsSound
    <2> QED  BY <2>1, <1>4 DEF IInv, RowsSound, Cached
  <1>6. PanelSound'
    BY <1>4, PanelStays
  <1> QED  BY <1>2, <1>3, <1>4, <1>5, <1>6

-----------------------------------------------------------------------------
(* The dialog.                                                             *)

LEMMA OpenKeeps ==
    ASSUME IInv, NEW s \in Scopes, Open(s)
    PROVE  IInv'
  <1>1. /\ UNCHANGED <<panel, row, cache, saves, tokens, held>> /\ fetch' \subseteq Scopes
        /\ moves' \in 0..MaxMoves
    BY DialogAssumption DEF IInv, RowType, CountType, Open, Moves
  <1>2. ed' = Hydrated(Unread, s, cache[s]) /\ dlg' = [Closed EXCEPT !.shown = s]
    BY DEF Open
  <1>3. dlg' \in Dialogs /\ dlg'.shown = s /\ s # NoScope
    BY <1>2, DialogAssumption DEF Closed, Dialogs
  <1>4. Cached(cache, held) /\ panel \in Panels
    BY DEF IInv, RowsSound, RowType
  <1>5. /\ Filled(Hydrated(Unread, s, cache[s]), cache, s)
        /\ Owned(Hydrated(Unread, s, cache[s]), held, s)
        /\ Seen(Hydrated(Unread, s, cache[s]), cache, s)
    BY <1>4, UnreadSound, HydratedSound
  <1>6. PanelSound'
    <2>1. Filled(ed', cache', dlg'.shown) /\ Owned(ed', held', dlg'.shown) /\ Seen(ed', cache', dlg'.shown)
      BY <1>1, <1>2, <1>3, <1>5
    <2> QED  BY <2>1, <1>1 DEF PanelSound, Filled, Owned, Own, Seen
  <1>7. AsksBeforeLosing'
    <2>1. ~IsDirty(ed')
      BY <1>2, <1>4, OpenedIsClean
    <2> QED  BY <2>1, <1>1 DEF AsksBeforeLosing, IsDirty
  <1>8. RowType' /\ RowsSound'
    BY <1>1, RowsStay
  <1>9. SaveType' /\ SavesSound' /\ WritesAreOwn'
    BY <1>1, SameSaves
  <1> QED  BY <1>1, <1>3, <1>6, <1>7, <1>8, <1>9 DEF IInv, DialogType, CountType

\* A step that leaves rows and saves alone and commits a sound panel.
LEMMA CommitsKeeps ==
    ASSUME IInv, UNCHANGED <<panel, row, cache, held, saves>>, CountType',
           NEW p, NEW d \in Dialogs, Commits(p, d, fetch), d.shown = dlg.shown, dlg.shown # NoScope,
           IsDirty(ed) /\ ~d.told => d.forgiven,
           Filled(p, cache, dlg.shown), Owned(p, held, dlg.shown), Seen(p, cache, dlg.shown)
    PROVE  IInv'
  <1>1. ed \in Eds /\ panel \in Panels /\ fetch \in SUBSET Scopes /\ Cached(cache', held')
    BY DEF IInv, PanelSound, Filled, RowType, RowsSound, Cached
  <1>2. Filled(p, cache', d.shown) /\ Owned(p, held', d.shown) /\ Seen(p, cache', d.shown)
    OBVIOUS
  <1>3. /\ dlg' \in Dialogs /\ dlg'.shown # NoScope /\ fetch' \subseteq Scopes
        /\ PanelSound' /\ AsksBeforeLosing'
    BY <1>1, <1>2, CommitsSound
  <1>4. RowType' /\ RowsSound'
    BY <1>3, RowsStay
  <1>5. SaveType' /\ SavesSound' /\ WritesAreOwn'
    BY SameSaves
  <1> QED  BY <1>3, <1>4, <1>5 DEF IInv, DialogType

LEMMA ReviewKeeps ==
    ASSUME IInv, NEW s \in Scopes, Review(s)
    PROVE  IInv'
  <1> DEFINE d == [dlg EXCEPT !.pending = s]
  <1>1. /\ UNCHANGED <<panel, row, cache, saves, tokens, held>> /\ CountType'
        /\ dlg.shown # NoScope /\ Commits(ed, d, fetch)
    BY DialogAssumption DEF IInv, CountType, Review, Moves
  <1>2. d \in Dialogs /\ d.shown = dlg.shown /\ d.told = dlg.told /\ d.forgiven = dlg.forgiven
    BY DEF IInv, DialogType, Dialogs
  <1> HIDE DEF d
  <1>3. IsDirty(ed) /\ ~d.told => d.forgiven
    BY <1>1, <1>2 DEF IInv, AsksBeforeLosing
  <1> QED  BY <1>1, <1>2, <1>3, CommitsKeeps DEF IInv, PanelSound

LEMMA ClosesKeeps ==
    ASSUME IInv, Closes
    PROVE  IInv'
  <1>1. /\ UNCHANGED <<panel, row, cache, fetch, held, tokens, moves>>
        /\ dlg' = Closed /\ ed' = Unread /\ saves' = {[x EXCEPT !.own = FALSE] : x \in saves}
    BY DEF Closes, keep
  <1>2. RowType' /\ RowsSound'
    BY <1>1, RowsStay DEF IInv, RowType
  <1>3. DialogType' /\ CountType'
    BY <1>1, ClosedIs DEF IInv, DialogType, CountType
  <1>4. PanelSound'
    <2>1. Filled(ed', cache', dlg'.shown) /\ Owned(ed', held', dlg'.shown) /\ Seen(ed', cache', dlg'.shown)
      BY <1>1, ClosedIs, UnreadSound DEF Seen
    <2> QED  BY <2>1, <1>1 DEF PanelSound, Filled, Owned, Own, Seen
  <1>5. AsksBeforeLosing'
    BY <1>1, ClosedIs DEF AsksBeforeLosing
  <1>6. \A x \in saves' : x \in Saves /\ ~x.own
    BY <1>1 DEF IInv, SaveType, Saves
  <1>7. \A x \in saves' : \E y \in saves :
          /\ x.of = y.of /\ x.value = y.value /\ x.file = y.file /\ x.sound = y.sound
          /\ x.at # "put" => y.at # "put"
    <2> SUFFICES ASSUME NEW x \in saves'
                 PROVE  \E y \in saves :
                          /\ x.of = y.of /\ x.value = y.value /\ x.file = y.file /\ x.sound = y.sound
                          /\ x.at # "put" => y.at # "put"
      OBVIOUS
    <2>1. PICK y \in saves : x = [y EXCEPT !.own = FALSE]
      BY <1>1
    <2>2. y \in Saves
      BY DEF IInv, SaveType
    <2>3. x.of = y.of /\ x.value = y.value /\ x.file = y.file /\ x.sound = y.sound /\ x.at = y.at
      BY <2>1, <2>2 DEF Saves
    <2> QED  BY <2>3
  <1>8. SaveType' /\ SavesSound' /\ WritesAreOwn'
    BY <1>1, <1>6, <1>7, SavesStay DEF SaveType
  <1> QED  BY <1>2, <1>3, <1>4, <1>5, <1>8 DEF IInv

\* A step that touches only the prompt.
LEMMA PromptKeeps ==
    ASSUME IInv, UNCHANGED <<keep, cache, fetch, ed, saves>>, dlg' \in Dialogs, dlg.shown # NoScope,
           dlg'.shown = dlg.shown, dlg'.told = dlg.told, dlg'.forgiven = dlg.forgiven
    PROVE  IInv'
  <1>1. RowType' /\ RowsSound' /\ CountType' /\ DialogType'
    BY RowsStay DEF IInv, RowType, CountType, DialogType, keep
  <1>2. PanelSound' /\ AsksBeforeLosing'
    BY PanelStays, AsksStays DEF keep
  <1>3. SaveType' /\ SavesSound' /\ WritesAreOwn'
    BY SameSaves DEF keep
  <1> QED  BY <1>1, <1>2, <1>3 DEF IInv

LEMMA RequestCloseKeeps ==
    ASSUME IInv, RequestClose
    PROVE  IInv'
  <1>1. CASE dlg.told
    <2>1. dlg' = [dlg EXCEPT !.prompt = "close"] /\ UNCHANGED <<keep, cache, fetch, ed, saves>>
      BY <1>1 DEF RequestClose
    <2>2. /\ dlg' \in Dialogs /\ dlg.shown # NoScope
          /\ dlg'.shown = dlg.shown /\ dlg'.told = dlg.told /\ dlg'.forgiven = dlg.forgiven
      BY <2>1 DEF RequestClose, IInv, DialogType, Dialogs
    <2> QED  BY <2>1, <2>2, PromptKeeps
  <1>2. CASE ~dlg.told
    BY <1>2, ClosesKeeps DEF RequestClose
  <1> QED  BY <1>1, <1>2

LEMMA PromptedIsShown ==
    ASSUME IInv, dlg.prompt # "none"
    PROVE  dlg.shown # NoScope
  BY ClosedIs DEF IInv, DialogType

LEMMA DiscardKeeps ==
    ASSUME IInv, Discard
    PROVE  IInv'
  <1>1. CASE dlg.prompt = "close" /\ Closes
    BY <1>1, ClosesKeeps
  <1>2. CASE dlg.prompt = "scope"
    <2> DEFINE d == [dlg EXCEPT !.prompt = "none", !.told = FALSE, !.forgiven = TRUE]
    <2>1. /\ UNCHANGED <<panel, row, cache, held, saves, tokens, moves>> /\ Commits(ed, d, fetch)
      BY <1>2 DEF Discard, keep
    <2>2. d \in Dialogs /\ d.shown = dlg.shown /\ d.forgiven
      BY DEF IInv, DialogType, Dialogs
    <2> HIDE DEF d
    <2>3. dlg.shown # NoScope /\ CountType'
      BY <1>2, <2>1, PromptedIsShown DEF IInv, CountType
    <2> QED  BY <2>1, <2>2, <2>3, CommitsKeeps DEF IInv, PanelSound
  <1> QED  BY <1>1, <1>2 DEF Discard

LEMMA KeepKeeps ==
    ASSUME IInv, Keep
    PROVE  IInv'
  <1>1. /\ dlg.prompt # "none" /\ UNCHANGED <<keep, cache, fetch, ed, saves>>
        /\ dlg' = [dlg EXCEPT !.prompt = "none",
                              !.pending = IF dlg.prompt = "scope" THEN NoScope ELSE @]
    BY DEF Keep
  <1>2. /\ dlg' \in Dialogs
        /\ dlg'.shown = dlg.shown /\ dlg'.told = dlg.told /\ dlg'.forgiven = dlg.forgiven
    BY <1>1 DEF IInv, DialogType, Dialogs
  <1> QED  BY <1>1, <1>2, PromptedIsShown, PromptKeeps

-----------------------------------------------------------------------------
(* The panel.                                                              *)

\* The panel becomes p.
LEMMA ChangesKeeps ==
    ASSUME IInv, CountType', NEW p, NEW d \in Dialogs, Changes(p, d), dlg.shown # NoScope,
           d.shown = dlg.shown, dlg.told => d.told, d.forgiven = dlg.forgiven,
           Filled(p, cache, dlg.shown), Owned(p, held, dlg.shown), p.key = ed.key
    PROVE  IInv'
  <1>1. UNCHANGED <<panel, row, cache, held, saves>> /\ Commits(p, d, fetch)
    BY DEF Changes
  <1>2. IsDirty(ed) /\ ~d.told => d.forgiven
    BY DEF IInv, AsksBeforeLosing
  <1>3. Seen(p, cache, dlg.shown)
    BY DEF IInv, PanelSound, Seen
  <1> QED  BY <1>1, <1>2, <1>3, CommitsKeeps

LEMMA TypeKeeps ==
    ASSUME IInv, NEW s \in Scopes, Type(s)
    PROVE  IInv'
  <1> DEFINE v == Value(s, tokens + 1, IF ed.draft = Blank THEN 0 ELSE ed.draft.id)
             p == [ed EXCEPT !.draft = v, !.mark = panel = "metadata", !.astray = @ \/ ed.key[1] # s]
  <1>1. /\ dlg.shown = s /\ s # NoScope /\ tokens < MaxTokens /\ tokens' = tokens + 1
        /\ moves' = moves
    BY DEF Type, At, Mints, Changes
  <1>2. CountType'
    BY <1>1, DialogAssumption DEF IInv, CountType
  <1>3. ed \in Eds /\ Filled(ed, cache, s) /\ Owned(ed, held, s)
    BY <1>1 DEF IInv, PanelSound, Filled
  <1>4. v \in Values /\ v.of = s
    <2>1. tokens + 1 \in 0..MaxTokens
      BY <1>1, <1>2 DEF CountType
    <2>2. ed.draft # Blank => ed.draft \in Values /\ ed.draft.id \in 0..MaxTokens
      BY <1>3 DEF Eds, Values
    <2> QED  BY <2>1, <2>2, DialogAssumption DEF Value, Values
  <1>5. PICK again \in BOOLEAN : Changes(p, [dlg EXCEPT !.told = @ \/ again])
    <2>1. v = Value(s, tokens + 1, IF ed.draft = Blank THEN 0 ELSE ed.draft.id)
      OBVIOUS
    <2> QED  BY DEF Type
  <1> HIDE DEF v
  <1>6. /\ p \in Eds /\ p.draft = v /\ p.base = ed.base /\ p.key = ed.key /\ p.snap = ed.snap
        /\ p.astray = (ed.astray \/ ed.key[1] # s)
    BY <1>3, <1>4 DEF Eds
  <1> DEFINE d == [dlg EXCEPT !.told = @ \/ again]
  <1>7. d \in Dialogs /\ d.shown = dlg.shown /\ (dlg.told => d.told) /\ d.forgiven = dlg.forgiven
    BY DEF IInv, DialogType, Dialogs
  <1> HIDE DEF p, d
  <1>8. Filled(p, cache, s)
    BY <1>3, <1>4, <1>6 DEF Filled
  <1>9. Owned(p, held, s)
    BY <1>3, <1>4, <1>6 DEF Owned, Own
  <1> QED  BY <1>1, <1>2, <1>5, <1>6, <1>7, <1>8, <1>9, ChangesKeeps DEF d

LEMMA ResetKeeps ==
    ASSUME IInv, NEW s \in Scopes, Reset(s)
    PROVE  IInv'
  <1> DEFINE snap == IF panel = "schedule" THEN NoSnap ELSE [draft |-> ed.draft, mark |-> ed.mark]
             p == [ed EXCEPT !.draft = ed.base, !.mark = FALSE, !.snap = snap]
  <1>1. /\ dlg.shown = s /\ s # NoScope /\ ed.snap = NoSnap /\ tokens' = tokens /\ moves' = moves
        /\ Changes(p, dlg)
    BY DEF Reset, At, Changes
  <1>2. ed \in Eds /\ Filled(ed, cache, s) /\ Owned(ed, held, s) /\ NoSnap \in Snaps
    BY <1>1 DEF IInv, PanelSound, Filled, NoSnap, Snaps
  <1>3. snap \in Snaps /\ (panel = "schedule" => snap = NoSnap)
        /\ (panel # "schedule" => snap.draft = ed.draft /\ snap.mark = ed.mark)
    BY <1>2 DEF Eds, Snaps
  <1>4. panel # "schedule" /\ snap = NoSnap => ed.draft = Blank
    BY <1>3 DEF NoSnap
  <1>5. snap # NoSnap => ed.draft \in Values
    <2> SUFFICES ASSUME ed.draft \notin Values, snap # NoSnap  PROVE FALSE
      OBVIOUS
    <2>1. ed.draft = Blank /\ ed.mark = FALSE
      BY <1>2 DEF Filled, Eds
    <2> QED  BY <2>1 DEF NoSnap
  <1> HIDE DEF snap
  <1>6. /\ p \in Eds /\ p.draft = ed.base /\ p.base = ed.base /\ p.mark = FALSE /\ p.key = ed.key
        /\ p.snap = snap /\ p.astray = ed.astray
    BY <1>2, <1>3 DEF Eds
  <1>7. dlg \in Dialogs /\ CountType'
    BY <1>1 DEF IInv, DialogType, CountType
  <1> HIDE DEF p
  <1>8. snap # NoSnap => panel # "schedule" /\ snap.draft = ed.draft
    BY <1>3
  <1>9. Filled(p, cache, s)
    BY <1>2, <1>3, <1>5, <1>6, <1>8 DEF Filled
  <1>10. Owned(p, held, s)
    <2> SUFFICES ASSUME ed.key[1] # NoScope, ~ed.astray
                 PROVE  /\ snap = NoSnap \/ ed.key[1] = s => Own(held, ed.key[1], ed.base)
                        /\ snap # NoSnap => Own(held, ed.key[1], snap.draft)
                        /\ ed.key[1] = s \/ panel = "schedule" => ed.base \in held[ed.key[1]]
      BY <1>6 DEF Owned
    <2>1. ed.draft \in Values
      BY <1>2 DEF Filled
    <2>2. panel # "schedule" => snap # NoSnap
      BY <2>1, <1>4, Marks
    <2>3. Own(held, ed.key[1], ed.draft)
      BY <1>1, <1>2 DEF Owned
    <2>4. ed.key[1] = s \/ panel = "schedule" => ed.base \in held[ed.key[1]]
      BY <1>2 DEF Owned
    <2> QED  BY <2>2, <2>3, <2>4, <1>8 DEF Own
  <1> QED  BY <1>1, <1>6, <1>7, <1>9, <1>10, ChangesKeeps

LEMMA RestoreKeeps ==
    ASSUME IInv, NEW s \in Scopes, Restore(s)
    PROVE  IInv'
  <1> DEFINE p == [ed EXCEPT !.draft = ed.snap.draft, !.mark = ed.snap.mark, !.snap = NoSnap]
  <1>1. /\ dlg.shown = s /\ s # NoScope /\ ed.snap # NoSnap /\ tokens' = tokens /\ moves' = moves
        /\ Changes(p, dlg)
    BY DEF Restore, At, Changes
  <1>2. ed \in Eds /\ Filled(ed, cache, s) /\ Owned(ed, held, s) /\ NoSnap \in Snaps
    BY <1>1 DEF IInv, PanelSound, Filled, NoSnap, Snaps
  <1>3. ed.snap.draft \in Values /\ ed.snap.mark \in BOOLEAN
    BY <1>1, <1>2 DEF Filled, Eds, Snaps
  <1>4. /\ p \in Eds /\ p.draft = ed.snap.draft /\ p.base = ed.base /\ p.key = ed.key
        /\ p.snap = NoSnap /\ p.astray = ed.astray
    BY <1>2, <1>3 DEF Eds
  <1>5. dlg \in Dialogs /\ CountType'
    BY <1>1 DEF IInv, DialogType, CountType
  <1> HIDE DEF p
  <1>6. Filled(p, cache, s)
    BY <1>2, <1>3, <1>4 DEF Filled
  <1>7. Owned(p, held, s)
    BY <1>1, <1>2, <1>4 DEF Owned, Own
  <1> QED  BY <1>1, <1>4, <1>5, <1>6, <1>7, ChangesKeeps

\* A request starts: it is of the scope on show.
LEMMA PostsKeeps ==
    ASSUME IInv, NEW s \in Scopes, NEW v \in Values, NEW file \in BOOLEAN, Posts(s, v, file),
           dlg.shown = s, ~Busy, CountType',
           ~file => row[s] # NoRow /\ (panel = "schedule" => IsRow(cache[s])),
           ed.key[1] = s /\ ~ed.astray => v.of = s \/ v \in held[s]
    PROVE  IInv'
  <1> DEFINE x == [of |-> s, value |-> v, file |-> file, own |-> TRUE, at |-> "put",
                   sound |-> ed.key[1] = s /\ ~ed.astray]
  <1>1. saves' = saves \cup {x} /\ UNCHANGED <<panel, row, cache, fetch, dlg, ed, moves, held>>
    BY DEF Posts
  <1>2. /\ x.of = s /\ x.value = v /\ x.file = file /\ x.own = TRUE /\ x.at = "put"
        /\ x.sound = (ed.key[1] = s /\ ~ed.astray) /\ x \in Saves
    <2>1. (ed.key[1] = s /\ ~ed.astray) \in BOOLEAN
      OBVIOUS
    <2> QED  BY <2>1 DEF Saves
  <1> HIDE DEF x
  <1>3. SaveType'
    BY <1>1, <1>2 DEF IInv, SaveType, Busy
  <1>4. SavesSound' /\ WritesAreOwn'
    BY <1>1, <1>2 DEF IInv, SavesSound, WritesAreOwn, IsRow
  <1>5. RowType' /\ RowsSound' /\ DialogType' /\ PanelSound' /\ AsksBeforeLosing'
    BY <1>1, RowsStay, PanelStays, AsksStays DEF IInv, RowType, DialogType
  <1> QED  BY <1>3, <1>4, <1>5 DEF IInv

LEMMA SaveKeeps ==
    ASSUME IInv, NEW s \in Scopes, Save(s)
    PROVE  IInv'
  <1>1. /\ dlg.shown = s /\ s # NoScope /\ ~Busy /\ SaveEnabled(s) /\ Posts(s, ed.draft, FALSE)
        /\ CountType'
    BY DEF Save, At, Posts, IInv, CountType
  <1>2. Filled(ed, cache, s) /\ Owned(ed, held, s) /\ Seen(ed, cache, s) /\ panel \in Panels
    BY <1>1 DEF IInv, PanelSound, RowType
  <1>3. panel # "metadata" => IsRow(cache[s]) /\ ed.key[1] = s
    BY <1>1, <1>2 DEF SaveEnabled, Panels, Seen
  <1>4. ed.draft \in Values
    BY <1>1, <1>2, <1>3 DEF SaveEnabled, Filled
  <1>5. row[s] # NoRow /\ (panel = "schedule" => IsRow(cache[s]))
    BY <1>3 DEF IInv, RowsSound
  <1>6. ed.key[1] = s /\ ~ed.astray => ed.draft.of = s \/ ed.draft \in held[s]
    BY <1>1, <1>2 DEF Owned, Own
  <1> QED  BY <1>1, <1>4, <1>5, <1>6, PostsKeeps

LEMMA UploadKeeps ==
    ASSUME IInv, NEW s \in Scopes, Upload(s)
    PROVE  IInv'
  <1>1. /\ dlg.shown = s /\ ~Busy /\ tokens < MaxTokens /\ tokens' = tokens + 1
    BY DEF Upload, At, Mints
  <1>2. PICK id \in IF panel = "map" THEN {0}
                    ELSE {tokens + 1} \cup {v.id : v \in held[s] \ {NoRow}} :
          Posts(s, Value(s, tokens + 1, id), TRUE)
    BY DEF Upload
  <1>3. CountType'
    BY <1>1, <1>2, DialogAssumption DEF IInv, CountType, Posts
  <1>4. tokens + 1 \in 0..MaxTokens /\ 0 \in 0..MaxTokens
    BY <1>1, <1>3, DialogAssumption DEF CountType
  <1>5. id \in 0..MaxTokens
    <2>1. held[s] \ {NoRow} \subseteq Values
      BY DEF IInv, RowType
    <2>2. \A v \in Values : v.id \in 0..MaxTokens
      BY DEF Values
    <2>3. CASE \E v \in held[s] \ {NoRow} : id = v.id
      BY <2>1, <2>2, <2>3
    <2> QED  BY <2>3, <1>2, <1>4
  <1>6. Value(s, tokens + 1, id) \in Values /\ Value(s, tokens + 1, id).of = s
    BY <1>4, <1>5 DEF Value, Values
  <1> QED  BY <1>1, <1>2, <1>3, <1>6, PostsKeeps

-----------------------------------------------------------------------------
(* Requests and answers.                                                   *)

\* Another value in a row, with the saves as they were.
LEMMA OthersKeeps ==
    ASSUME IInv, NEW s \in Scopes, Others(s)
    PROVE  IInv'
  <1>1. /\ UNCHANGED <<panel, cache, fetch, dlg, ed, saves, moves>>
        /\ tokens < MaxTokens /\ tokens' = tokens + 1
    BY DEF Others, Mints
  <1>2. PICK id \in IF panel # "schedule" THEN {0}
                    ELSE {tokens + 1} \cup (IF row[s] = NoRow THEN {} ELSE {row[s].id}) :
          Rows(s, Value(s, tokens + 1, id))
    BY DEF Others
  <1>3. CountType'
    BY <1>1, DialogAssumption DEF IInv, CountType
  <1>4. tokens + 1 \in 0..MaxTokens /\ 0 \in 0..MaxTokens
    BY <1>1, <1>3, DialogAssumption DEF CountType
  <1>5. id \in 0..MaxTokens
    <2>1. row[s] # NoRow => row[s].id \in 0..MaxTokens
      BY DEF IInv, RowType, Values
    <2> QED  BY <2>1, <1>2, <1>4
  <1>6. Value(s, tokens + 1, id) \in Values
    BY <1>4, <1>5 DEF Value, Values
  <1>7. /\ RowType' /\ RowsSound' /\ PanelSound'
        /\ \A x \in Scopes : /\ held[x] \subseteq held'[x]
                             /\ row[x] # NoRow => row'[x] # NoRow
    BY <1>1, <1>2, <1>6, RowsStep
  <1>8. DialogType' /\ AsksBeforeLosing' /\ SaveType'
    BY <1>1, AsksStays DEF IInv, DialogType, SaveType
  <1>9. SavesSound' /\ WritesAreOwn'
    <2>1. \A x \in saves : x.of \in Scopes
      BY DEF IInv, SaveType, Saves
    <2> QED  BY <2>1, <1>1, <1>7 DEF IInv, SavesSound, WritesAreOwn, IsRow
  <1> QED  BY <1>3, <1>7, <1>8, <1>9 DEF IInv

LEMMA TakesKeeps ==
    ASSUME IInv, NEW x \in saves, Takes(x)
    PROVE  IInv'
  <1> DEFINE v == [x.value EXCEPT !.id = IF x.file THEN @ ELSE row[x.of].id]
             y == [x EXCEPT !.at = "took", !.value = v]
  <1>1. /\ Rows(x.of, v) /\ saves' = (saves \ {x}) \cup {y}
        /\ UNCHANGED <<panel, cache, fetch, dlg, ed, tokens, moves>>
    BY DEF Takes
  <1>2. x \in Saves /\ (~x.file => row[x.of] # NoRow)
    BY DEF IInv, SaveType, SavesSound
  <1>3. x.of \in Scopes /\ x.value \in Values /\ (~x.file => row[x.of] \in Values)
    BY <1>2 DEF Saves, IInv, RowType
  <1>4. v \in Values
    BY <1>3 DEF Values
  <1> HIDE DEF v
  <1>5. /\ y \in Saves /\ y.of = x.of /\ y.value = v /\ y.file = x.file /\ y.own = x.own
        /\ y.at = "took"
    BY <1>2, <1>4 DEF Saves
  <1> HIDE DEF y
  <1>6. /\ RowType' /\ RowsSound' /\ PanelSound'
        /\ \A s \in Scopes : /\ held[s] \subseteq held'[s]
                             /\ row[s] # NoRow => row'[s] # NoRow
        /\ v \in held'[x.of]
    BY <1>1, <1>3, <1>4, RowsStep
  <1>7. SaveType'
    BY <1>1, <1>5 DEF IInv, SaveType
  <1>8. SavesSound' /\ WritesAreOwn'
    <2> SUFFICES ASSUME NEW z \in saves'
                 PROVE  /\ ~z.file => /\ row'[z.of] # NoRow
                                      /\ panel = "schedule" => IsRow(cache[z.of])
                        /\ z.at # "put" => z.value \in held'[z.of]
                        /\ z.sound => z.value.of = z.of \/ z.value \in held'[z.of]
      BY <1>1 DEF SavesSound, WritesAreOwn, IsRow
    <2>1. CASE z = y
      BY <2>1, <1>2, <1>3, <1>5, <1>6 DEF IInv, SavesSound
    <2>2. CASE z \in saves
      <3>1. z.of \in Scopes
        BY <2>2 DEF IInv, SaveType, Saves
      <3> QED  BY <2>2, <3>1, <1>6 DEF IInv, SavesSound, WritesAreOwn
    <2> QED  BY <2>1, <2>2, <1>1
  <1>9. DialogType' /\ AsksBeforeLosing' /\ CountType'
    BY <1>1, AsksStays DEF IInv, DialogType, CountType
  <1> QED  BY <1>6, <1>7, <1>8, <1>9 DEF IInv

LEMMA FailsKeeps ==
    ASSUME IInv, NEW x \in saves, Fails(x)
    PROVE  IInv'
  <1>1. saves' \subseteq saves /\ UNCHANGED <<panel, row, cache, held, fetch, dlg, ed, tokens, moves>>
    BY DEF Fails, keep
  <1>2. \A z \in saves' : \E y \in saves : z = y
    BY <1>1
  <1>3. SavesSound' /\ WritesAreOwn'
    BY <1>1, <1>2, SavesStay
  <1>4. RowType' /\ RowsSound' /\ PanelSound' /\ AsksBeforeLosing'
    BY <1>1, RowsStay, PanelStays, AsksStays DEF IInv, RowType
  <1>5. SaveType' /\ DialogType' /\ CountType'
    BY <1>1 DEF IInv, SaveType, DialogType, CountType
  <1> QED  BY <1>3, <1>4, <1>5 DEF IInv

\* The end of a save leaves a sound panel.
LEMMA EndsSound ==
    ASSUME IInv, NEW x \in saves, x.at # "put", dlg.shown # NoScope
    PROVE  /\ Filled(Ends(x), cache, dlg.shown) /\ Owned(Ends(x), held, dlg.shown)
           /\ Ends(x).key = ed.key
  <1> DEFINE at == dlg.shown
  <1>1. /\ ed \in Eds /\ Filled(ed, cache, at) /\ Owned(ed, held, at) /\ Seen(ed, cache, at)
        /\ NoSnap \in Snaps /\ panel \in Panels
    BY DEF IInv, PanelSound, Filled, RowType, NoSnap, Snaps
  <1>2. /\ x.value \in Values /\ x.value \in held[x.of]
        /\ ~x.file /\ panel = "schedule" => IsRow(cache[x.of])
    BY DEF IInv, SaveType, Saves, SavesSound
  <1>3. CASE x.own /\ ~x.file
    <2> DEFINE q == Saved(ed, x)
               r == [q EXCEPT !.astray = @ \/ x.of # at]
    <2>1. Ends(x) = r
      BY <1>3 DEF Ends
    <2>2. CASE panel = "metadata"
      <3>1. q = [ed EXCEPT !.base = x.value, !.mark = FALSE]
        BY <2>2 DEF Saved
      <3>2. /\ r \in Eds /\ r.base = x.value /\ r.mark = FALSE /\ r.draft = ed.draft /\ r.snap = ed.snap
            /\ r.key = ed.key /\ r.astray = (ed.astray \/ x.of # at)
        BY <3>1, <1>1, <1>2 DEF Eds
      <3> HIDE DEF r
      <3>3. Filled(r, cache, at)
        BY <3>2, <1>1, <1>2 DEF Filled
      <3>4. Owned(r, held, at)
        BY <3>2, <2>2, <1>1, <1>2 DEF Owned, Own
      <3> QED  BY <2>1, <3>2, <3>3, <3>4
    <2>3. CASE panel = "map"
      <3>1. q = [ed EXCEPT !.base = x.value, !.snap = NoSnap]
        BY <2>3 DEF Saved
      <3>2. /\ r \in Eds /\ r.base = x.value /\ r.mark = ed.mark /\ r.draft = ed.draft /\ r.snap = NoSnap
            /\ r.key = ed.key /\ r.astray = (ed.astray \/ x.of # at)
        BY <3>1, <1>1, <1>2 DEF Eds
      <3> HIDE DEF r
      <3>3. Filled(r, cache, at)
        BY <3>2, <1>1, <1>2 DEF Filled
      <3>4. Owned(r, held, at)
        BY <3>2, <2>3, <1>1, <1>2 DEF Owned, Own, Filled
      <3> QED  BY <2>1, <3>2, <3>3, <3>4
    <2>4. CASE panel = "schedule"
      <3>1. q = [ed EXCEPT !.base = x.value, !.draft = x.value]
        BY <2>4 DEF Saved
      <3>2. /\ r \in Eds /\ r.base = x.value /\ r.mark = ed.mark /\ r.draft = x.value /\ r.snap = ed.snap
            /\ r.key = ed.key /\ r.astray = (ed.astray \/ x.of # at)
        BY <3>1, <1>1, <1>2 DEF Eds
      <3> HIDE DEF r
      <3>3. Filled(r, cache, at)
        BY <3>2, <1>1, <1>2 DEF Filled
      <3>4. x.of = at => ed.key[1] = at
        BY <2>4, <1>1, <1>2, <1>3 DEF Seen
      <3>5. ed.snap = NoSnap
        BY <2>4, <1>1 DEF Filled
      <3>6. Owned(r, held, at)
        BY <3>2, <3>4, <3>5, <1>1, <1>2 DEF Owned, Own
      <3> QED  BY <2>1, <3>2, <3>3, <3>6
    <2> QED  BY <2>2, <2>3, <2>4, <1>1 DEF Panels
  <1>4. CASE x.own /\ x.file /\ panel = "map"
    <2> DEFINE r == [ed EXCEPT !.snap = NoSnap]
    <2>1. Ends(x) = r
      BY <1>4 DEF Ends
    <2>2. /\ r \in Eds /\ r.base = ed.base /\ r.mark = ed.mark /\ r.draft = ed.draft /\ r.snap = NoSnap
          /\ r.key = ed.key /\ r.astray = ed.astray
      BY <1>1 DEF Eds
    <2> HIDE DEF r
    <2>3. Filled(r, cache, at) /\ Owned(r, held, at)
      BY <2>2, <1>1, <1>4 DEF Filled, Owned
    <2> QED  BY <2>1, <2>2, <2>3
  <1>5. CASE ~x.own \/ (x.file /\ panel # "map")
    <2>1. Ends(x) = ed
      BY <1>5 DEF Ends
    <2> QED  BY <2>1, <1>1
  <1> QED  BY <1>3, <1>4, <1>5

\* An answer changes the panel, if there is one, and the stage of a save.
LEMMA AnswerKeeps ==
    ASSUME IInv, UNCHANGED <<keep, cache>>, SaveType', SavesSound', WritesAreOwn',
           NEW p, NEW f \in SUBSET Scopes,
           IF dlg.shown = NoScope THEN UNCHANGED <<dlg, ed, fetch>> ELSE Commits(p, dlg, f),
           dlg.shown # NoScope =>
             Filled(p, cache, dlg.shown) /\ Owned(p, held, dlg.shown) /\ p.key = ed.key
    PROVE  IInv'
  <1>1. UNCHANGED <<panel, row, cache, held, tokens, moves>>
    BY DEF keep
  <1>2. CASE dlg.shown = NoScope
    <2>1. RowType' /\ RowsSound' /\ PanelSound' /\ AsksBeforeLosing'
      BY <1>1, <1>2, RowsStay, PanelStays, AsksStays DEF IInv, RowType
    <2>2. DialogType' /\ CountType'
      BY <1>1, <1>2 DEF IInv, DialogType, CountType
    <2> QED  BY <2>1, <2>2 DEF IInv
  <1>3. CASE dlg.shown # NoScope
    <2>1. /\ ed \in Eds /\ panel \in Panels /\ Cached(cache', held') /\ dlg \in Dialogs
          /\ IsDirty(ed) /\ ~dlg.told => dlg.forgiven
      BY <1>1, <1>3 DEF IInv, PanelSound, Filled, RowType, RowsSound, Cached, DialogType, AsksBeforeLosing
    <2>2. Seen(p, cache', dlg.shown)
      BY <1>1, <1>3 DEF IInv, PanelSound, Seen
    <2>3. Filled(p, cache', dlg.shown) /\ Owned(p, held', dlg.shown)
      BY <1>1, <1>3
    <2>4. Commits(p, dlg, f)
      BY <1>3
    <2>5. /\ dlg' \in Dialogs /\ dlg'.shown # NoScope /\ fetch' \subseteq Scopes
          /\ PanelSound' /\ AsksBeforeLosing'
      BY <1>1, <1>3, <2>1, <2>2, <2>3, <2>4, CommitsSound
    <2>6. RowType' /\ RowsSound' /\ CountType'
      BY <1>1, <2>5, RowsStay DEF IInv, CountType
    <2> QED  BY <2>5, <2>6 DEF IInv, DialogType
  <1> QED  BY <1>2, <1>3

LEMMA AnsweredKeeps ==
    ASSUME IInv, NEW x \in saves, Answered(x)
    PROVE  IInv'
  <1> DEFINE y == [x EXCEPT !.at = "settling"]
             p == IF panel = "schedule" THEN ed ELSE Ends(x)
             again == {s \in Scopes : s = dlg.shown /\ (panel = "metadata" \/
                                        (panel = "schedule" /\ s = x.of))}
             f == fetch \cup again
  <1>1. /\ x.at = "took" /\ UNCHANGED <<keep, cache>>
        /\ saves' \subseteq (saves \ {x}) \cup {y}
        /\ IF dlg.shown = NoScope THEN UNCHANGED <<dlg, ed, fetch>> ELSE Commits(p, dlg, f)
    BY DEF Answered
  <1>2. x \in Saves
    BY DEF IInv, SaveType
  <1>3. /\ y \in Saves /\ y.of = x.of /\ y.value = x.value /\ y.file = x.file /\ y.own = x.own
        /\ y.sound = x.sound
    BY <1>2 DEF Saves
  <1> HIDE DEF y
  <1>4. SaveType'
    BY <1>1, <1>3 DEF IInv, SaveType
  <1>5. \A z \in saves' : \E w \in saves :
          /\ z.of = w.of /\ z.value = w.value /\ z.file = w.file /\ z.sound = w.sound
          /\ z.at # "put" => w.at # "put"
    BY <1>1, <1>3
  <1>6. SavesSound' /\ WritesAreOwn'
    BY <1>1, <1>5, SavesStay DEF keep
  <1>7. f \in SUBSET Scopes
    BY DEF IInv, RowType
  <1>8. dlg.shown # NoScope =>
          Filled(p, cache, dlg.shown) /\ Owned(p, held, dlg.shown) /\ p.key = ed.key
    BY <1>1, EndsSound DEF IInv, PanelSound
  <1> HIDE DEF p, f
  <1> QED  BY <1>1, <1>4, <1>6, <1>7, <1>8, AnswerKeeps

LEMMA SettlesKeeps ==
    ASSUME IInv, NEW x \in saves, Settles(x)
    PROVE  IInv'
  <1> DEFINE p == IF panel = "schedule" THEN Ends(x) ELSE ed
  <1>1. /\ x.at = "settling" /\ UNCHANGED <<keep, cache>> /\ saves' = saves \ {x}
        /\ IF dlg.shown = NoScope THEN UNCHANGED <<dlg, ed, fetch>> ELSE Commits(p, dlg, fetch)
    BY DEF Settles
  <1>2. SaveType' /\ \A z \in saves' : \E w \in saves : z = w
    BY <1>1 DEF IInv, SaveType
  <1>3. SavesSound' /\ WritesAreOwn'
    BY <1>1, <1>2, SavesStay DEF keep
  <1>4. dlg.shown # NoScope =>
          Filled(p, cache, dlg.shown) /\ Owned(p, held, dlg.shown) /\ p.key = ed.key
    BY <1>1, EndsSound DEF IInv, PanelSound
  <1> HIDE DEF p
  <1> QED  BY <1>1, <1>2, <1>3, <1>4, AnswerKeeps DEF IInv, RowType

LEMMA ArrivesKeeps ==
    ASSUME IInv, NEW s \in Scopes, Arrives(s)
    PROVE  IInv'
  <1>1. /\ s \in fetch /\ cache' = [cache EXCEPT ![s] = row[s]]
        /\ UNCHANGED <<panel, row, held, tokens, moves, saves>>
    BY DEF Arrives, keep
  <1>2. RowType /\ RowsSound
    BY DEF IInv
  <1>3. \A x \in Scopes : cache'[x] = IF x = s THEN row[s] ELSE cache[x]
    BY <1>1, <1>2 DEF RowType
  <1>4. \A x \in Scopes : IsRow(cache[x]) => IsRow(cache'[x])
    BY <1>2, <1>3, Marks DEF RowsSound, RowType, IsRow
  <1>5. cache' \in [Scopes -> Values \cup {NoRow, NoData}]
    BY <1>1, <1>2 DEF RowType
  <1>6. Cached(cache', held')
    BY <1>1, <1>2, <1>3 DEF RowsSound, Cached, RowType
  <1>7. RowsSound'
    <2>1. \A x \in Scopes : /\ row'[x] \in held'[x]
                            /\ IsRow(cache'[x]) => row'[x] # NoRow
                            /\ panel' # "schedule" => row'[x] # NoRow
      BY <1>1, <1>2, <1>3 DEF RowsSound, IsRow
    <2> QED  BY <2>1, <1>6 DEF RowsSound, Cached, IsRow
  <1>8. SaveType' /\ SavesSound' /\ WritesAreOwn'
    BY <1>1, <1>4, SameSaves
  <1>9. ed \in Eds /\ ed.key[1] \in Scopes \cup {NoScope}
    BY DEF IInv, PanelSound, Filled, Eds, Keys
  <1>10. Filled(ed, cache', dlg.shown) /\ Owned(ed, held, dlg.shown)
    BY <1>4, <1>9 DEF IInv, PanelSound, Filled
  <1>11. CASE s = dlg.shown /\ row[s] # cache[s]
    <2> DEFINE p == Hydrated(ed, s, row[s])
    <2>1. Commits(p, dlg, fetch \ {s}) /\ cache'[s] = row[s]
      BY <1>3, <1>11 DEF Arrives
    <2>2. Filled(p, cache', s) /\ Owned(p, held, s) /\ Seen(p, cache', s)
      <3>1. Cached(cache', held) /\ panel \in Panels
        BY <1>1, <1>2, <1>6 DEF RowType, Cached
      <3>2. /\ Filled(Hydrated(ed, s, cache'[s]), cache', s) /\ Owned(Hydrated(ed, s, cache'[s]), held, s)
            /\ Seen(Hydrated(ed, s, cache'[s]), cache', s)
        BY <3>1, <1>10, HydratedSound
      <3> QED  BY <2>1, <3>2
    <2> HIDE DEF p
    <2>3. /\ panel \in Panels /\ dlg \in Dialogs /\ dlg.shown # NoScope /\ fetch \ {s} \in SUBSET Scopes
          /\ IsDirty(ed) /\ ~dlg.told => dlg.forgiven
      BY <1>2, <1>11, DialogAssumption DEF RowType, IInv, DialogType, AsksBeforeLosing
    <2>4. Filled(p, cache', dlg.shown) /\ Owned(p, held', dlg.shown) /\ Seen(p, cache', dlg.shown)
      BY <2>2, <1>1, <1>11
    <2>5. /\ dlg' \in Dialogs /\ dlg'.shown # NoScope /\ fetch' \subseteq Scopes
          /\ PanelSound' /\ AsksBeforeLosing'
      BY <1>1, <1>6, <1>9, <2>1, <2>3, <2>4, CommitsSound
    <2>6. RowType' /\ DialogType' /\ CountType'
      BY <2>5, <1>1, <1>2, <1>5 DEF RowType, IInv, DialogType, CountType
    <2> QED  BY <2>5, <2>6, <1>7, <1>8 DEF IInv
  <1>12. CASE ~(s = dlg.shown /\ row[s] # cache[s])
    <2>1. fetch' = fetch \ {s} /\ UNCHANGED <<dlg, ed>>
      BY <1>12 DEF Arrives
    <2>2. Seen(ed, cache', dlg.shown)
      <3>1. dlg.shown # NoScope => dlg.shown \in Scopes /\ cache'[dlg.shown] = cache[dlg.shown]
        BY <1>3, <1>12 DEF IInv, DialogType, Dialogs
      <3> QED  BY <3>1 DEF IInv, PanelSound, Seen
    <2>3. PanelSound'
      <3>1. Filled(ed, cache, dlg.shown)'
        BY <2>1, <1>1, <1>10 DEF Filled
      <3>2. Owned(ed, held, dlg.shown)' /\ Seen(ed, cache, dlg.shown)'
        BY <2>1, <2>2, <1>1, <1>10 DEF Owned, Own, Seen
      <3> QED  BY <3>1, <3>2 DEF PanelSound
    <2>4. RowType' /\ DialogType' /\ CountType' /\ AsksBeforeLosing'
      BY <2>1, <1>1, <1>2, <1>5, AsksStays DEF RowType, IInv, DialogType, CountType
    <2> QED  BY <2>3, <2>4, <1>7, <1>8 DEF IInv
  <1> QED  BY <1>11, <1>12

\* Only requests for data start or end.
LEMMA FetchKeeps ==
    ASSUME IInv, UNCHANGED <<panel, row, cache, held, dlg, ed, saves>>, fetch' \subseteq Scopes, CountType'
    PROVE  IInv'
  <1>1. RowType' /\ RowsSound' /\ PanelSound' /\ AsksBeforeLosing'
    BY RowsStay, PanelStays, AsksStays
  <1>2. SaveType' /\ SavesSound' /\ WritesAreOwn'
    BY SameSaves
  <1> QED  BY <1>1, <1>2 DEF IInv, DialogType

LEMMA FetchFailsKeeps ==
    ASSUME IInv, NEW s \in Scopes, FetchFails(s)
    PROVE  IInv'
  BY FetchKeeps DEF FetchFails, keep, IInv, RowType, CountType

LEMMA RefetchKeeps ==
    ASSUME IInv, NEW s \in Scopes, Refetch(s)
    PROVE  IInv'
  <1>1. CountType'
    BY DialogAssumption DEF Refetch, Moves, IInv, CountType
  <1> QED  BY <1>1, FetchKeeps DEF Refetch, IInv, RowType

-----------------------------------------------------------------------------
(* The theorems.                                                           *)

LEMMA InitKeeps == Init => IInv
  <1> SUFFICES ASSUME Init  PROVE IInv
    OBVIOUS
  <1>1. \A s \in Scopes : Value(s, 0, 0) \in Values
    BY DialogAssumption DEF Value, Values
  <1>2. row \in [Scopes -> Values \cup {NoRow}]
        /\ \A s \in Scopes : row[s] \in Values \/ (row[s] = NoRow /\ panel = "schedule")
    BY <1>1 DEF Init
  <1>3. RowType
    BY <1>2 DEF Init, RowType
  <1>4. RowsSound
    BY <1>2, Marks DEF Init, RowsSound, Cached, IsRow
  <1>5. DialogType /\ CountType /\ SaveType
    BY ClosedIs, DialogAssumption DEF Init, DialogType, CountType, SaveType
  <1>6. PanelSound
    BY UnreadSound, ClosedIs DEF Init, PanelSound, Seen
  <1>7. SavesSound /\ AsksBeforeLosing /\ WritesAreOwn
    BY ClosedIs DEF Init, SavesSound, AsksBeforeLosing, WritesAreOwn
  <1> QED  BY <1>3, <1>4, <1>5, <1>6, <1>7 DEF IInv

LEMMA Inductive == IInv /\ [Next]_vars => IInv'
  <1> SUFFICES ASSUME IInv, [Next]_vars  PROVE IInv'
    OBVIOUS
  <1>1. CASE \E s \in Scopes : Open(s) \/ Review(s)
    BY <1>1, OpenKeeps, ReviewKeeps
  <1>2. CASE \E s \in Scopes : Type(s) \/ Reset(s) \/ Restore(s) \/ Save(s) \/ Upload(s)
    BY <1>2, TypeKeeps, ResetKeeps, RestoreKeeps, SaveKeeps, UploadKeeps
  <1>3. CASE \E s \in Scopes : Arrives(s) \/ FetchFails(s) \/ Refetch(s) \/ Others(s)
    BY <1>3, ArrivesKeeps, FetchFailsKeeps, RefetchKeeps, OthersKeeps
  <1>4. CASE RequestClose \/ Discard \/ Keep
    BY <1>4, RequestCloseKeeps, DiscardKeeps, KeepKeeps
  <1>5. CASE \E x \in saves : Takes(x) \/ Fails(x) \/ Answered(x) \/ Settles(x)
    BY <1>5, TakesKeeps, FailsKeeps, AnsweredKeeps, SettlesKeeps
  <1>6. CASE UNCHANGED vars
    BY <1>6, FetchKeeps DEF vars, IInv, RowType, CountType
  <1> QED  BY <1>1, <1>2, <1>3, <1>4, <1>5, <1>6 DEF Next

LEMMA Invariant == Spec => []IInv
  <1> QED  BY InitKeeps, Inductive, PTL DEF Spec

\* A closed dialog has no panel, and a mounted panel has at most one request
\* of its own; every variable has the values the code gives it
\* (MetadataEditDialog.tsx, the panels).
THEOREM TypeCorrect == Spec => []TypeOK
  <1>1. IInv => TypeOK
    <2> SUFFICES ASSUME IInv  PROVE TypeOK
      OBVIOUS
    <2>1. Cardinality({x \in saves : x.own}) <= 1
      <3> DEFINE S == {x \in saves : x.own}
      <3>1. CASE S = {}
        BY <3>1, FS_EmptySet
      <3>2. CASE S # {}
        <4>1. PICK x : x \in S
          BY <3>2
        <4>2. S = {x}
          BY <4>1 DEF IInv, SaveType
        <4>3. Cardinality({x}) = 1
          BY FS_Singleton
        <4> QED  BY <4>2, <4>3
      <3> QED  BY <3>1, <3>2
    <2>2. ed \in [draft : Values \cup {Blank}, base : Values \cup {Blank}, mark : BOOLEAN,
                  snap : [draft : Values \cup {Blank}, mark : BOOLEAN], key : Keys, astray : BOOLEAN]
      BY DEF IInv, PanelSound, Filled, Eds, Snaps
    <2> QED  BY <2>1, <2>2 DEF IInv, TypeOK, RowType, DialogType, Dialogs, SaveType, CountType
  <1> QED  BY <1>1, Invariant, PTL

\* The dialog never takes unsaved edits for none, but for those the user has
\* agreed to discard: closing it and changing its scope ask first.
THEOREM AsksBeforeLosingHolds == Spec => []AsksBeforeLosing
  <1>1. IInv => AsksBeforeLosing
    BY DEF IInv
  <1> QED  BY <1>1, Invariant, PTL

\* What a save carries to a scope was read from it or typed for it, if the
\* panel was read for the scope and nothing strayed into it since.
THEOREM WritesAreOwnHolds == Spec => []WritesAreOwn
  <1>1. IInv => WritesAreOwn
    BY DEF IInv
  <1> QED  BY <1>1, Invariant, PTL

\* What Reset goes back to is something the row of the scope has held, unless
\* something strayed into the panel.
THEOREM BaselineWasHeldHolds == Spec => []BaselineWasHeld
  <1>1. IInv => BaselineWasHeld
    BY DEF IInv, PanelSound, Owned, BaselineWasHeld
  <1> QED  BY <1>1, Invariant, PTL

\* The draft of the panel changes while the scope on show stays.
Lost == dlg.shown # NoScope /\ dlg'.shown = dlg.shown /\ IsDirty(ed) /\ ed'.draft # ed.draft

Reason ==
    \/ tokens' # tokens
    \/ \E s \in Scopes : Reset(s) \/ Restore(s)
    \/ ed'.key # ed.key
    \/ panel = "map" /\ cache' # cache
    \/ \E sv \in saves \ saves' : panel = "schedule" /\ sv.own /\ sv.at = "settling"

\* A step that commits a panel and keeps its scope keeps its draft.
LEMMA CommitsDraft ==
    ASSUME NEW p \in Eds, NEW d, NEW f, Commits(p, d, f), dlg'.shown = d.shown
    PROVE  ed'.draft = p.draft /\ ed'.key = p.key
  <1> DEFINE t == Told(ed, p, d.told)
             applies == d.pending # NoScope /\ ~t
             there == IF applies THEN d.pending ELSE d.shown
             q == IF there # d.shown THEN Hydrated(p, there, cache'[there]) ELSE p
  <1>1. dlg'.shown = there
    BY DEF Commits
  <1>2. ed' = [q EXCEPT !.astray = @ \/ (d.forgiven /\ IsDirty(q))]
    BY DEF Commits
  <1>3. q = p
    BY <1>1
  <1> HIDE DEF q
  <1> QED  BY <1>2, <1>3 DEF Eds

LEMMA LostHasReason ==
    ASSUME IInv, [Next]_vars, Lost
    PROVE  Reason
  <1>1. tokens \in Nat /\ ed \in Eds /\ dlg \in Dialogs /\ panel \in Panels
    BY DialogAssumption DEF IInv, CountType, PanelSound, Filled, DialogType, RowType
  <1>2. CASE \E s \in Scopes : Open(s)
    BY <1>2 DEF Open, Lost
  <1>3. ASSUME NEW s \in Scopes, Review(s)  PROVE FALSE
    <2> DEFINE d == [dlg EXCEPT !.pending = s]
    <2>1. Commits(ed, d, fetch) /\ d.shown = dlg.shown
      BY <1>1, <1>3 DEF Review, Dialogs
    <2> HIDE DEF d
    <2> QED  BY <2>1, <1>1, CommitsDraft DEF Lost
  <1>4. CASE \E s \in Scopes : Type(s) \/ Upload(s) \/ Others(s)
    <2>1. tokens' = tokens + 1
      BY <1>4 DEF Type, Upload, Others, Mints
    <2>2. tokens' # tokens
      BY <1>1, <2>1
    <2> QED  BY <2>2 DEF Reason
  <1>5. CASE \E s \in Scopes : Reset(s) \/ Restore(s)
    BY <1>5 DEF Reason
  <1>6. CASE \E s \in Scopes : Save(s) \/ FetchFails(s) \/ Refetch(s)
    BY <1>6 DEF Save, Posts, FetchFails, Refetch, Lost
  <1>7. ASSUME NEW s \in Scopes, Arrives(s)  PROVE Reason
    <2>1. s = dlg.shown /\ row[s] # cache[s]
          /\ Commits(Hydrated(ed, s, row[s]), dlg, fetch \ {s}) /\ cache' = [cache EXCEPT ![s] = row[s]]
      BY <1>7 DEF Arrives, Lost
    <2>2. CASE panel = "map"
      <3>1. cache'[s] # cache[s]
        BY <2>1 DEF IInv, RowType
      <3> QED  BY <2>2, <3>1 DEF Reason
    <2>3. CASE panel # "map"
      <3> DEFINE p == Hydrated(ed, s, row[s])
      <3>1. row[s] \in Values \cup {NoRow, NoData}
        BY DEF IInv, RowType
      <3>2. p \in Eds
        <4>1. CASE p = Fresh(s, row[s]) /\ IsRow(row[s])
          BY <4>1, <3>1, FreshIs, RowIs
        <4>2. CASE IsRow(row[s]) /\ p = [ed EXCEPT !.base = row[s], !.draft = IF ed.mark THEN @ ELSE row[s]]
          BY <4>2, <1>1, <3>1, RowIs DEF Eds
        <4>3. CASE p = ed
          BY <4>3, <1>1
        <4> QED  BY <2>3, <4>1, <4>2, <4>3 DEF Hydrated
      <3>3. ed'.draft = p.draft /\ ed'.key = p.key
        BY <2>1, <3>2, CommitsDraft DEF Lost
      <3>4. CASE p = Fresh(s, row[s]) /\ p.key # ed.key
        BY <3>3, <3>4 DEF Reason
      <3>5. CASE panel = "metadata" /\ p = [ed EXCEPT !.base = row[s], !.draft = IF ed.mark THEN @ ELSE row[s]]
        <4>1. ed.mark
          BY <3>5 DEF Lost, IsDirty
        <4>2. p.draft = ed.draft
          BY <3>5, <4>1, <1>1 DEF Eds
        <4> QED  BY <3>3, <4>2 DEF Lost
      <3>6. CASE p = ed
        BY <3>3, <3>6 DEF Lost
      <3>7. p = Fresh(s, row[s]) => p.key = KeyOf(s, row[s])
        BY DEF Fresh
      <3> QED  BY <2>3, <3>4, <3>5, <3>6, <3>7, <1>1 DEF Hydrated, Panels
    <2> QED  BY <2>2, <2>3
  <1>8. CASE RequestClose \/ Keep
    BY <1>8, ClosedIs DEF RequestClose, Keep, Closes, Lost
  <1>9. CASE Discard
    <2>1. CASE Closes
      BY <2>1, ClosedIs DEF Closes, Lost
    <2>2. CASE Commits(ed, [dlg EXCEPT !.prompt = "none", !.told = FALSE, !.forgiven = TRUE], fetch)
      <3>1. [dlg EXCEPT !.prompt = "none", !.told = FALSE, !.forgiven = TRUE].shown = dlg.shown
        BY <1>1 DEF Dialogs
      <3> QED  BY <2>2, <3>1, <1>1, CommitsDraft DEF Lost
    <2> QED  BY <1>9, <2>1, <2>2 DEF Discard
  <1>10. ASSUME NEW x \in saves, Takes(x) \/ Fails(x)  PROVE FALSE
    BY <1>10 DEF Takes, Fails, Lost
  <1>11. ASSUME NEW x \in saves, x.at # "put"
         PROVE  /\ Ends(x) \in Eds /\ Ends(x).key = ed.key
                /\ panel # "schedule" \/ ~x.own \/ x.file => Ends(x).draft = ed.draft
    <2>1. Ends(x) \in Eds /\ Ends(x).key = ed.key
      BY <1>11, EndsSound DEF Lost, Filled
    <2>2. ASSUME panel # "schedule" \/ ~x.own \/ x.file  PROVE Ends(x).draft = ed.draft
      <3>1. CASE x.own /\ ~x.file /\ panel = "metadata"
        <4>1. Saved(ed, x) = [ed EXCEPT !.base = x.value, !.mark = FALSE]
          BY <3>1 DEF Saved
        <4> QED  BY <3>1, <4>1, <1>1 DEF Ends, Eds
      <3>2. CASE x.own /\ ~x.file /\ panel = "map"
        <4>1. Saved(ed, x) = [ed EXCEPT !.base = x.value, !.snap = NoSnap]
          BY <3>2 DEF Saved
        <4> QED  BY <3>2, <4>1, <1>1 DEF Ends, Eds
      <3>3. CASE ~(x.own /\ ~x.file)
        BY <3>3, <1>1 DEF Ends, Eds
      <3> QED  BY <2>2, <3>1, <3>2, <3>3, <1>1 DEF Panels
    <2> QED  BY <2>1, <2>2
  <1>12. ASSUME NEW x \in saves, Answered(x)  PROVE FALSE
    <2> DEFINE p == IF panel = "schedule" THEN ed ELSE Ends(x)
    <2>1. x.at = "took" /\ \E f : Commits(p, dlg, f)
      BY <1>12 DEF Answered, Lost
    <2>2. p \in Eds /\ p.draft = ed.draft
      BY <2>1, <1>1, <1>11
    <2> HIDE DEF p
    <2> QED  BY <2>1, <2>2, CommitsDraft DEF Lost
  <1>13. ASSUME NEW x \in saves, Settles(x)  PROVE Reason
    <2> DEFINE p == IF panel = "schedule" THEN Ends(x) ELSE ed
    <2>1. x.at = "settling" /\ saves' = saves \ {x} /\ Commits(p, dlg, fetch)
      BY <1>13 DEF Settles, Lost
    <2>2. CASE panel = "schedule" /\ x.own
      BY <2>1, <2>2 DEF Reason
    <2>3. CASE ~(panel = "schedule" /\ x.own)
      <3>1. p \in Eds /\ p.draft = ed.draft
        BY <2>1, <2>3, <1>1, <1>11
      <3> HIDE DEF p
      <3> QED  BY <2>1, <3>1, CommitsDraft DEF Lost
    <2> QED  BY <2>2, <2>3
  <1>14. CASE UNCHANGED vars
    BY <1>14 DEF vars, Lost
  <1> QED
    BY <1>2, <1>3, <1>4, <1>5, <1>6, <1>7, <1>8, <1>9, <1>10, <1>12, <1>13, <1>14 DEF Next

\* Edits are lost only to the user, to the first reading of a scope or
\* schedule, to a new channel map, or to the end of the schedule's own save.
THEOREM EditsSurviveHolds == Spec => EditsSurvive
  <1>1. IInv /\ [Next]_vars => [Lost => Reason]_vars
    BY LostHasReason
  <1>2. [Lost => Reason]_vars =>
        [ (dlg.shown # NoScope /\ dlg'.shown = dlg.shown /\ IsDirty(ed) /\ ed'.draft # ed.draft) =>
          \/ tokens' # tokens
          \/ \E s \in Scopes : Reset(s) \/ Restore(s)
          \/ ed'.key # ed.key
          \/ panel = "map" /\ cache' # cache
          \/ \E sv \in saves \ saves' : panel = "schedule" /\ sv.own /\ sv.at = "settling" ]_vars
    BY DEF Lost, Reason
  <1> QED  BY <1>1, <1>2, Invariant, PTL DEF Spec, EditsSurvive

=============================================================================
