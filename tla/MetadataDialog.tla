---------------------------- MODULE MetadataDialog ----------------------------
(***************************************************************************)
(* The metadata editor (components/edit-metadata/MetadataEditDialog.tsx),  *)
(* its store, and one of its three panels: metadata, channel map or        *)
(* durability schedule.  The panels share only the dialog's dirty flags,   *)
(* so a behaviour follows one of them, chosen at the start, and the other  *)
(* two stay as they were read.  A panel's fields are one value here.       *)
(*                                                                         *)
(* The effects that React runs after a commit are part of the step that    *)
(* causes them.  A query answers with the row as it is when the answer     *)
(* comes: an invalidation restarts a request that is under way.            *)
(***************************************************************************)
EXTENDS Naturals, FiniteSets

CONSTANTS
    Scopes,         \* program/versions
    NoScope,        \* no scope: closed, or nothing pending
    MaxTokens,      \* bound: values that are typed, uploaded or set by others
    MaxMoves        \* bound: openings, scope changes and refetches

ASSUME DialogAssumption ==
    NoScope \notin Scopes /\ MaxTokens \in Nat /\ MaxMoves \in Nat

Panels == {"metadata", "map", "schedule"}

\* A value: the scope it was read, typed or uploaded for; its number; and
\* the schedule_id, 0 where there is none.
Value(s, n, id) == [of |-> s, n |-> n, id |-> id]
Blank == [blank |-> TRUE]       \* default draft
NoData == [data |-> FALSE]      \* query.data undefined
NoRow == [row |-> FALSE]        \* no schedule is attached
IsRow(d) == d \notin {NoData, NoRow}

VARIABLES
    panel,      \* the panel this behaviour follows
    row,        \* row[s]: the datum on the server
    cache,      \* cache[s]: data of the panel's query
    fetch,      \* scopes whose query is fetching
    dlg,        \* the dialog and its store
    ed,         \* the panel
    saves,      \* requests under way
    tokens,     \* values handed out
    moves,      \* openings, scope changes and refetches so far
    held,       \* history: values each row has had
    dropped     \* history: drafts the user agreed to discard

vars == <<panel, row, cache, fetch, dlg, ed, saves, tokens, moves, held, dropped>>
keep == <<panel, moves, held, row, tokens>>

\* dlg.forgiven is history: the user agreed to discard edits that are still
\* there.  ed.astray is history: since it was read for a scope, the panel was
\* left with such edits, or typed into or answered for another scope.
Closed == [shown |-> NoScope, pending |-> NoScope, prompt |-> "none",
           told |-> FALSE, forgiven |-> FALSE]
NoSnap == [draft |-> Blank, mark |-> FALSE]
Unread == [draft |-> Blank, base |-> Blank, mark |-> FALSE, snap |-> NoSnap,
           key |-> <<NoScope, 0>>, astray |-> FALSE]

IsDirty(p) == IF panel = "metadata" THEN p.mark ELSE p.draft # p.base
BusyPosting == \E sv \in saves : sv.own /\ sv.at = "put"
Busy == \E sv \in saves : sv.own

Init ==
    /\ panel \in Panels
    /\ row \in {r \in [Scopes -> {NoRow} \cup {Value(s, 0, 0) : s \in Scopes}] :
                  \A s \in Scopes : r[s] = Value(s, 0, 0) \/ (r[s] = NoRow /\ panel = "schedule")}
    /\ cache = [s \in Scopes |-> NoData]
    /\ fetch = {}
    /\ dlg = Closed
    /\ ed = Unread
    /\ saves = {}
    /\ tokens = 0 /\ moves = 0
    /\ held = [s \in Scopes |-> {row[s]}]
    /\ dropped = {}

-----------------------------------------------------------------------------
(* Effects.                                                                *)

KeyOf(s, d) == <<s, d.id>>
Fresh(s, d) == [draft |-> d, base |-> d, mark |-> FALSE, snap |-> NoSnap,
                key |-> KeyOf(s, d), astray |-> FALSE]

\* What data d of scope s makes of panel p: each panel has its own idea of
\* what a draft may lose to an answer.
HydratedAlways(p, s, d) == IF IsRow(d) THEN Fresh(s, d) ELSE p
HydratedSnap(p, s, d) == IF IsRow(d) THEN [Fresh(s, d) EXCEPT !.snap = p.snap] ELSE p
Hydrated(p, s, d) ==
    IF ~IsRow(d) THEN IF panel = "map" THEN Unread ELSE p
    ELSE IF panel = "map" \/ p.key # KeyOf(s, d) THEN Fresh(s, d)
    ELSE IF panel = "metadata" THEN [p EXCEPT !.base = d, !.draft = IF p.mark THEN @ ELSE d]
    ELSE p

\* onDirtyChange: the dialog's flag follows when the dirtiness changes.
ToldFalling(p, q, t) == IsDirty(q) /\ t
Told(p, q, t) == IF IsDirty(q) # IsDirty(p) THEN IsDirty(q) ELSE t

\* The step leaves panel p and dialog d; then the flag follows, a pending
\* scope is applied if the flag is down and asked about if it is up, and the
\* panel and the query see the scope on show.
Commits(p, d, f) ==
    LET t == Told(ed, p, d.told)
        applies == d.pending # NoScope /\ ~t
        there == IF applies THEN d.pending ELSE d.shown
        q == IF there # d.shown THEN Hydrated(p, there, cache'[there]) ELSE p
        u == Told(p, q, t)
    IN  /\ ed' = [q EXCEPT !.astray = @ \/ (d.forgiven /\ IsDirty(q))]
        /\ dlg' = [shown |-> there,
                   pending |-> IF applies THEN NoScope ELSE d.pending,
                   prompt |-> IF d.pending # NoScope /\ t THEN "scope" ELSE d.prompt,
                   told |-> u,
                   forgiven |-> d.forgiven /\ IsDirty(q) /\ ~u]
        /\ fetch' = f \cup (IF there # d.shown THEN {there} ELSE {})

-----------------------------------------------------------------------------
(* The dialog.                                                             *)

Moves == moves < MaxMoves /\ moves' = moves + 1

\* openMetadataEditDialog on a closed dialog mounts the panels, and their
\* queries are stale.
Open(s) ==
    /\ dlg.shown = NoScope /\ Moves
    /\ UNCHANGED cache
    /\ ed' = Hydrated(Unread, s, cache[s])
    /\ dlg' = [Closed EXCEPT !.shown = s]
    /\ fetch' = fetch \cup {s}
    /\ UNCHANGED <<panel, row, saves, tokens, held, dropped>>

\* "Review schedule" in the summary of a calculation of s, over the dialog.
Review(s) ==
    /\ dlg.shown # NoScope /\ dlg.prompt = "none" /\ Moves
    /\ UNCHANGED cache
    /\ Commits(ed, [dlg EXCEPT !.pending = s], fetch)
    /\ UNCHANGED <<panel, row, saves, tokens, held, dropped>>

\* closeMetadataEditDialog: the panels are unmounted, requests go on.
Closes ==
    /\ dlg' = Closed /\ ed' = Unread
    /\ saves' = {[sv EXCEPT !.own = FALSE] : sv \in saves}
    /\ UNCHANGED <<keep, cache, fetch>>

\* requestClose
RequestClose ==
    /\ dlg.shown # NoScope /\ dlg.prompt = "none"
    /\ IF dlg.told
       THEN dlg' = [dlg EXCEPT !.prompt = "close"] /\ UNCHANGED <<keep, cache, fetch, ed, saves>>
       ELSE Closes
    /\ UNCHANGED dropped

\* handleDiscardConfirmed: a scope change only lowers the dialog's flags.
Discard ==
    /\ dropped' = dropped \cup (IF IsDirty(ed) THEN {ed.draft} ELSE {})
    /\ \/ dlg.prompt = "close" /\ Closes
       \/ /\ dlg.prompt = "scope"
          /\ UNCHANGED <<keep, cache, saves>>
          /\ Commits(ed, [dlg EXCEPT !.prompt = "none", !.told = FALSE, !.forgiven = TRUE], fetch)

\* handleDiscardCancelled
Keep ==
    /\ dlg.prompt # "none"
    /\ dlg' = [dlg EXCEPT !.prompt = "none",
                          !.pending = IF dlg.prompt = "scope" THEN NoScope ELSE @]
    /\ UNCHANGED <<keep, cache, fetch, ed, saves, dropped>>

-----------------------------------------------------------------------------
(* The panel.                                                              *)

At(s) == s # NoScope /\ s = dlg.shown /\ dlg.prompt = "none"
Mints == tokens < MaxTokens /\ tokens' = tokens + 1

\* The panel becomes p and nothing else happens first.
Changes(p, d) ==
    /\ UNCHANGED <<cache, saves, dropped, panel, moves, held, row>>
    /\ Commits(p, d, fetch)

\* A field is changed; only the metadata panel locks its fields while it
\* saves.  Another field of a dirty panel reports it once more.
Type(s) ==
    /\ At(s) /\ Mints
    /\ IF panel = "metadata" THEN ~Busy ELSE IsRow(cache[s])
    /\ \E again \in BOOLEAN :
         /\ again => panel = "metadata" /\ ed.mark
         /\ Changes([ed EXCEPT !.draft = Value(s, tokens + 1, IF @ = Blank THEN 0 ELSE @.id),
                               !.mark = panel = "metadata", !.astray = @ \/ ed.key[1] # s],
                    [dlg EXCEPT !.told = @ \/ again])

\* handleReset and handleRestore share a button; the schedule has no snapshot.
ResetEnabled(s) ==
    CASE panel = "metadata" -> s \notin fetch
      [] panel = "map" -> s \notin fetch \/ IsRow(cache[s])
      [] panel = "schedule" -> IsRow(cache[s]) /\ IsDirty(ed)

Reset(s) ==
    /\ At(s) /\ ~Busy /\ ResetEnabled(s) /\ ed.snap = NoSnap
    /\ Changes([ed EXCEPT !.draft = ed.base, !.mark = FALSE,
                          !.snap = IF panel = "schedule" THEN NoSnap
                                   ELSE [draft |-> ed.draft, mark |-> ed.mark]], dlg)
    /\ UNCHANGED tokens

Restore(s) ==
    /\ At(s) /\ ~Busy /\ ResetEnabled(s) /\ ed.snap # NoSnap
    /\ Changes([ed EXCEPT !.draft = ed.snap.draft, !.mark = ed.snap.mark, !.snap = NoSnap], dlg)
    /\ UNCHANGED tokens

\* isMetadataSaveEnabled and its like
SaveEnabled(s) ==
    CASE panel = "metadata" -> ed.mark /\ s \notin fetch
      [] panel = "map" -> IsRow(cache[s])
      [] panel = "schedule" -> IsRow(cache[s]) /\ IsDirty(ed)

\* `sound' is history: the panel was read for s and nothing strayed into it.
Posts(s, v, file) ==
    /\ saves' = saves \cup
          {[of |-> s, value |-> v, file |-> file, own |-> TRUE, at |-> "put",
            sound |-> ed.key[1] = s /\ ~ed.astray]}
    /\ UNCHANGED <<panel, row, cache, fetch, dlg, ed, moves, held, dropped>>

\* handleSave, handleSaveChannelMap, handleSaveSchedule
Save(s) ==
    /\ At(s) /\ ~Busy /\ SaveEnabled(s)
    /\ Posts(s, ed.draft, FALSE)
    /\ UNCHANGED tokens

\* handleUploadChannelMap, handleExtractSchedule: a file the scope has had
\* before keeps its schedule_id.
Upload(s) ==
    /\ At(s) /\ ~Busy /\ panel # "metadata" /\ cache[s] # NoData /\ Mints
    /\ \E id \in IF panel = "map" THEN {0}
                 ELSE {tokens + 1} \cup {v.id : v \in held[s] \ {NoRow}} :
         Posts(s, Value(s, tokens + 1, id), TRUE)

-----------------------------------------------------------------------------
(* Requests and answers.                                                   *)

Rows(s, v) ==
    /\ row' = [row EXCEPT ![s] = v]
    /\ held' = [held EXCEPT ![s] = @ \cup {v}]

\* The server takes a save; rows go to the schedule attached by then.
Takes(sv) ==
    /\ sv.at = "put"
    /\ LET v == [sv.value EXCEPT !.id = IF sv.file THEN @ ELSE row[sv.of].id]
       IN  /\ Rows(sv.of, v)
           /\ saves' = (saves \ {sv}) \cup {[sv EXCEPT !.at = "took", !.value = v]}
    /\ UNCHANGED <<panel, cache, fetch, dlg, ed, tokens, moves, dropped>>

\* The request is refused, or its answer is lost.
Fails(sv) ==
    /\ sv.at \in {"put", "took"}
    /\ saves' = saves \ {sv}
    /\ UNCHANGED <<keep, cache, fetch, dlg, ed, dropped>>

\* What the end of a save makes of the panel, mounted for whatever scope.
SavedIsDraft(p, sv) == [p EXCEPT !.base = p.draft, !.mark = FALSE]
Saved(p, sv) ==
    CASE panel = "metadata" -> [p EXCEPT !.base = sv.value, !.mark = FALSE]
      [] panel = "map" -> [p EXCEPT !.base = sv.value, !.snap = NoSnap]
      [] panel = "schedule" -> [p EXCEPT !.base = sv.value, !.draft = sv.value]
Ends(sv) ==
    IF sv.own /\ ~sv.file
    THEN [Saved(ed, sv) EXCEPT !.astray = @ \/ sv.of # dlg.shown]
    ELSE IF sv.own /\ panel = "map" THEN [ed EXCEPT !.snap = NoSnap] ELSE ed

\* The answer arrives.  Metadata and schedule invalidate their query and wait
\* for it; the schedule changes its panel after that, the others before.
Answered(sv) ==
    /\ sv.at = "took"
    /\ LET again == {s \in Scopes : s = dlg.shown /\ (panel = "metadata" \/
                                       (panel = "schedule" /\ s = sv.of))}
       IN  /\ UNCHANGED <<cache, keep, dropped>>
           /\ saves' = (saves \ {sv}) \cup
                (IF panel = "map" THEN {} ELSE {[sv EXCEPT !.at = "settling"]})
           /\ IF dlg.shown = NoScope THEN UNCHANGED <<dlg, ed, fetch>>
              ELSE Commits(IF panel = "schedule" THEN ed ELSE Ends(sv), dlg, fetch \cup again)

Settles(sv) ==
    /\ sv.at = "settling" /\ fetch = {}
    /\ saves' = saves \ {sv}
    /\ UNCHANGED <<cache, keep, dropped>>
    /\ IF dlg.shown = NoScope THEN UNCHANGED <<dlg, ed, fetch>>
       ELSE Commits(IF panel = "schedule" THEN Ends(sv) ELSE ed, dlg, fetch)

\* The query of s answers; equal data are the same data (structural sharing).
Arrives(s) ==
    /\ s \in fetch
    /\ cache' = [cache EXCEPT ![s] = row[s]]
    /\ UNCHANGED <<keep, saves, dropped>>
    /\ IF s = dlg.shown /\ row[s] # cache[s]
       THEN Commits(Hydrated(ed, s, row[s]), dlg, fetch \ {s})
       ELSE fetch' = fetch \ {s} /\ UNCHANGED <<dlg, ed>>

FetchFails(s) ==
    /\ s \in fetch
    /\ fetch' = fetch \ {s}
    /\ UNCHANGED <<keep, cache, dlg, ed, saves, dropped>>

\* A derived task ends, or the connection comes back.
Refetch(s) ==
    /\ s = dlg.shown /\ s \notin fetch /\ Moves
    /\ fetch' = fetch \cup {s}
    /\ UNCHANGED <<panel, row, cache, dlg, ed, saves, tokens, held, dropped>>

\* Another user saves, or attaches a schedule.
Others(s) ==
    /\ Mints
    /\ \E id \in IF panel # "schedule" THEN {0}
                 ELSE {tokens + 1} \cup (IF row[s] = NoRow THEN {} ELSE {row[s].id}) :
         Rows(s, Value(s, tokens + 1, id))
    /\ UNCHANGED <<panel, cache, fetch, dlg, ed, saves, moves, dropped>>

Next ==
    \/ \E s \in Scopes : \/ Open(s) \/ Review(s)
                         \/ Type(s) \/ Reset(s) \/ Restore(s) \/ Save(s) \/ Upload(s)
                         \/ Arrives(s) \/ FetchFails(s) \/ Refetch(s) \/ Others(s)
    \/ RequestClose \/ Discard \/ Keep
    \/ \E sv \in saves : Takes(sv) \/ Fails(sv) \/ Answered(sv) \/ Settles(sv)

Spec == Init /\ [][Next]_vars

-----------------------------------------------------------------------------

Values == [of : Scopes, n : 0..MaxTokens, id : 0..MaxTokens]
Keys == (Scopes \cup {NoScope}) \X (0..MaxTokens)
Saves == [of : Scopes, value : Values, file : BOOLEAN, own : BOOLEAN,
          at : {"put", "took", "settling"}, sound : BOOLEAN]

\* Every variable has its type; a closed dialog has no panel, and a mounted
\* panel has at most one request of its own.
TypeOK ==
    /\ panel \in Panels
    /\ \A s \in Scopes : row[s] \in Values \cup {NoRow} /\ cache[s] \in Values \cup {NoRow, NoData}
    /\ fetch \subseteq Scopes
    /\ dlg \in [shown : Scopes \cup {NoScope}, pending : Scopes \cup {NoScope},
                prompt : {"none", "close", "scope"}, told : BOOLEAN, forgiven : BOOLEAN]
    /\ ed \in [draft : Values \cup {Blank}, base : Values \cup {Blank}, mark : BOOLEAN,
               snap : [draft : Values \cup {Blank}, mark : BOOLEAN], key : Keys, astray : BOOLEAN]
    /\ saves \subseteq Saves /\ Cardinality({sv \in saves : sv.own}) <= 1
    /\ dlg.shown = NoScope => dlg = Closed /\ ed = Unread
    /\ tokens \in 0..MaxTokens /\ moves \in 0..MaxMoves

\* The dialog never takes unsaved edits for none, except those the user has
\* agreed to discard: closing and switching ask first.
AsksBeforeLosing == (dlg.shown # NoScope /\ IsDirty(ed) /\ ~dlg.told) => dlg.forgiven

\* What a save carries to a scope was read from that scope or typed for it,
\* if the panel was read for the scope and nothing strayed into it since.
\* (Neither is looked at when a save starts or when it is answered.)
WritesAreOwn == \A sv \in saves : sv.sound => sv.value.of = sv.of \/ sv.value \in held[sv.of]

\* What Reset goes back to is something the row of the scope has held.
BaselineWasHeld ==
    (dlg.shown # NoScope /\ ed.key[1] = dlg.shown /\ ~ed.astray) => ed.base \in held[dlg.shown]

\* Edits are lost only to the user, to the first reading of a scope or
\* schedule, to a new channel map, or to the end of the schedule's own save.
EditsSurvive ==
    [][ (dlg.shown # NoScope /\ dlg'.shown = dlg.shown /\ IsDirty(ed) /\ ed'.draft # ed.draft) =>
          \/ tokens' # tokens
          \/ \E s \in Scopes : Reset(s) \/ Restore(s)
          \/ ed'.key # ed.key
          \/ panel = "map" /\ cache' # cache
          \/ \E sv \in saves \ saves' : panel = "schedule" /\ sv.own /\ sv.at = "settling" ]_vars

\* "Switching to ... will discard those changes": once the scope on show has
\* been read, the panel does not hold them any more.
DiscardDiscards ==
    (dlg.shown # NoScope /\ fetch = {} /\ IsDirty(ed)) =>
        (IsRow(cache[dlg.shown]) => ed.draft \notin dropped)

=============================================================================
