------------------------- MODULE DerivedTasksProofs -------------------------
(***************************************************************************)
(* DerivedTasks for any number of tasks and any sets of events, maps and   *)
(* schedules: its types, that the channel map is never rewritten under a   *)
(* worker, and that plots and base damage that count as current were made  *)
(* from the map in force.                                                  *)
(***************************************************************************)
EXTENDS DerivedTasks, FiniteSetTheorems, TLAPS

-----------------------------------------------------------------------------
(* The inductive invariant.                                                *)

\* Stages in which a follow-up holds the schedule it decides about.
Deciding == {"assess", "prereq", "lookup", "admit", "create"}

\* A worker, unless a row was taken from one that lived, has an active row and
\* the channel map of this moment; the rows it is about to fail have no worker.
TaskSound(t) ==
    /\ mem[t].op \in {"none", "followup", "damage"}
    /\ at[t] \in Deciding => mem[t].op = "followup" /\ mem[t].sched \in Schedules
    /\ at[t] = "unborn" => status[t] = "absent"
    /\ HasRow(t) => kind[t] \in Kinds
    /\ at[t] = "finish" => mem[t].out \in {"completed", "failed"}
    /\ ~overran =>
        /\ Live(t) => status[t] \in ActiveStatuses
        /\ at[t] = "admit" => \A u \in mem[t].ids : at[u] = "done"
        /\ \/ at[t] \in {"process", "write"}
           \/ at[t] = "starting" /\ kind[t] = "reprocess"
           => mem[t].map = chmap

Saves == {"save", "attach"}
Decisions == Saves \cup {"calculate", "backfill"}

\* What the event loop holds at each stage.
Fits(s, m) ==
    /\ s \in {"hydrate", "mark", "eligible", "bases", "rescale", "clear"} => m.op \in Saves
    /\ s \in {"prereq", "assess"} => m.op \in Decisions
    /\ s \in {"lookup", "admit"} => m.op \in Decisions \cup {"reprocess", "poll"}
    /\ s = "create" => m.op \in Decisions \cup {"reprocess"}
    /\ s \in {"remark", "activate", "remap"} => m.op = "reprocess"
    /\ m.op \in Decisions => m.sched \in Schedules
    /\ m.op = "reprocess" => m.map \in Maps

\* A reprocess that found no active task has the scope for itself.
Starting ==
    \/ at[Loop] \in {"remark", "activate", "remap"}
    \/ at[Loop] = "create" /\ mem[Loop].op = "reprocess"

LoopSound ==
    /\ Fits(at[Loop], mem[Loop])
    /\ ~overran =>
        /\ at[Loop] = "admit" => \A u \in mem[Loop].ids : at[u] = "done"
        /\ Starting => \A t \in Tasks : ~Live(t)
        /\ at[Loop] = "create" /\ mem[Loop].op = "reprocess" => mem[Loop].map = chmap

\* Between the marking of damage rows and the rewrite of the map no row is
\* current; between the new snapshot and the rewrite no plot is current that
\* was made from another map than the new one.
DataSound ==
    /\ PlotsOfTheMap /\ BasesOfTheMap
    /\ ~overran =>
        /\ at[Loop] = "remap" => \A e \in Pending :
               lttb[e].status = "current" => lttb[e].map = mem[Loop].map
        /\ at[Loop] \in {"activate", "remap"} =>
               \A e \in Events : damage[e].status # "current"

IInv ==
    /\ TypeOK /\ LoopSound /\ DataSound
    /\ \A t \in Tasks : TaskSound(t)

-----------------------------------------------------------------------------
(* A step of one actor.                                                    *)

ActorTypes ==
    /\ at \in [Actors -> LoopStages \cup TaskStages]
    /\ at[Loop] \in LoopStages /\ \A t \in Tasks : at[t] \in TaskStages
    /\ mem \in [Actors -> Frames]

RowTypes ==
    /\ status \in [Tasks -> TaskStatuses]
    /\ kind \in [Tasks -> Kinds \cup {"none"}]
    /\ overran \in BOOLEAN

ResultTypes ==
    /\ schedule \in SomeSchedule
    /\ chmap \in SomeMap
    /\ lttb \in [Events -> [map : SomeMap, status : {"absent", "current", "stale"}]]
    /\ damage \in [Events ->
           [status : {"none", "current", "stale", "error", "unavailable"},
            reason : {"none", "schedule_changed", "channel_reprocess_required"},
            sched : SomeSchedule, map : SomeMap]]
    /\ revived \subseteq Events

LEMMA TypesJoin == RowTypes' /\ ActorTypes' /\ ResultTypes' => TypeOK'
    BY DEF TypeOK, RowTypes, ActorTypes, ResultTypes

LEMMA ActorsAre ==
    /\ Loop \notin Tasks /\ Loop \in Actors
    /\ \A t \in Tasks : t \in Actors /\ t # Loop
    /\ \A a \in Actors : a = Loop \/ a \in Tasks
    BY DEF Actors, Tasks, Loop

\* The stages an actor may be in.
StagesOf(a) == IF a = Loop THEN LoopStages ELSE TaskStages

\* What is true of everyone but the actor whose step it is.
OthersKeep(a) ==
    /\ \A b \in Actors : b # a => at'[b] = at[b] /\ mem'[b] = mem[b]
    /\ \A t \in Tasks : t # a => TaskSound(t)'
    /\ a # Loop => LoopSound'

\* What a step does to the rows of tasks other than the actor's.
RowsKept(a) ==
    /\ kind' = kind /\ (overran => overran')
    /\ \A t \in Tasks : t # a =>
        /\ status[t] = "absent" => status'[t] = "absent"
        /\ ~overran' /\ Live(t) /\ status[t] \in ActiveStatuses =>
               status'[t] \in ActiveStatuses

LEMMA ActorStep ==
    ASSUME IInv, NEW a \in Actors, NEW s \in StagesOf(a), NEW m \in Frames,
           at' = [at EXCEPT ![a] = s], mem' = [mem EXCEPT ![a] = m],
           a # Loop => Live(a), chmap' = chmap, RowsKept(a)
    PROVE  ActorTypes' /\ at'[a] = s /\ mem'[a] = m /\ OthersKeep(a)
<1>1. TypeOK
    BY DEF IInv
<1>2. at'[a] = s /\ mem'[a] = m
    BY <1>1 DEF TypeOK
<1>3. \A b \in Actors : b # a => at'[b] = at[b] /\ mem'[b] = mem[b]
    BY <1>1 DEF TypeOK
<1>4. ActorTypes'
    <2>1. at' \in [Actors -> LoopStages \cup TaskStages]
        BY <1>1 DEF TypeOK, StagesOf
    <2>2. at'[Loop] \in LoopStages /\ \A t \in Tasks : at'[t] \in TaskStages
        BY <1>1, <1>2, <1>3, ActorsAre DEF TypeOK, StagesOf
    <2>3. mem' \in [Actors -> Frames]
        BY <1>1 DEF TypeOK
    <2> QED
        BY <2>1, <2>2, <2>3 DEF ActorTypes
<1>5. \A u \in Tasks : at[u] = "done" => at'[u] = "done"
    BY <1>3, ActorsAre DEF Live, ThreadStages
<1>6. ASSUME NEW t \in Tasks, t # a
      PROVE  TaskSound(t)'
    <2>1. TaskSound(t) /\ at'[t] = at[t] /\ mem'[t] = mem[t]
        BY <1>3, <1>6, ActorsAre DEF IInv
    <2>2. mem[t].ids \subseteq Tasks
        BY <1>1, ActorsAre DEF TypeOK, Frames
    <2>3. HasRow(t)' => HasRow(t)
        BY <1>6 DEF RowsKept, HasRow
    <2> QED
        BY <1>5, <1>6, <2>1, <2>2, <2>3 DEF TaskSound, RowsKept, Live
<1>7. ASSUME a # Loop
      PROVE  LoopSound'
    <2>1. a \in Tasks /\ Live(a) /\ at'[Loop] = at[Loop] /\ mem'[Loop] = mem[Loop]
        BY <1>3, <1>7, ActorsAre
    <2>2. Fits(at[Loop], mem[Loop])'
        BY <2>1 DEF IInv, LoopSound, Fits
    <2>3. mem[Loop].ids \subseteq Tasks
        BY <1>1, ActorsAre DEF TypeOK, Frames
    <2> QED
        BY <1>5, <2>1, <2>2, <2>3 DEF IInv, LoopSound, Starting, RowsKept
<1> QED
    BY <1>2, <1>3, <1>4, <1>6, <1>7 DEF OthersKeep

LEMMA NothingMoved ==
    ASSUME IInv, UNCHANGED <<rows, overran>>, NEW a \in Actors
    PROVE  RowsKept(a) /\ RowTypes'
    BY DEF IInv, TypeOK, RowsKept, RowTypes, rows

\* A step that leaves the plots, the map and the damage alone.
LEMMA DataKept ==
    ASSUME IInv, UNCHANGED <<chmap, lttb, damage, revived>>, overran => overran',
           at'[Loop] \in {"activate", "remap"} => at'[Loop] = at[Loop] /\ mem'[Loop] = mem[Loop]
    PROVE  DataSound'
<1>1. PlotsOfTheMap' /\ BasesOfTheMap'
    BY DEF IInv, DataSound, PlotsOfTheMap, BasesOfTheMap
<1> QED
    BY <1>1 DEF IInv, DataSound

LEMMA NoFrameTyped == NoFrame \in Frames /\ NoFrame.op = "none"
<1>1. [e \in Events |-> NoMap] \in [Events -> SomeMap]
    BY DEF SomeMap
<1> QED
    BY <1>1 DEF NoFrame, Frames, Ops, SomeMap, SomeSchedule

-----------------------------------------------------------------------------
(* Requests.                                                               *)

\* A step of the event loop that leaves the rows alone and does not come
\* into the start of a reprocess.
LEMMA LoopStep ==
    ASSUME IInv, NEW s \in LoopStages \ {"admit", "remark", "activate", "remap"},
           NEW m \in Frames, at' = [at EXCEPT ![Loop] = s], mem' = [mem EXCEPT ![Loop] = m],
           UNCHANGED <<rows, chmap, overran>>, Fits(s, m),
           s = "create" => m.op # "reprocess", DataSound', ResultTypes'
    PROVE  IInv'
<1>1. RowsKept(Loop) /\ RowTypes'
    BY NothingMoved, ActorsAre
<1>2. ActorTypes' /\ at'[Loop] = s /\ mem'[Loop] = m /\ OthersKeep(Loop)
    BY <1>1, ActorStep, ActorsAre DEF StagesOf
<1>3. LoopSound'
    BY <1>2 DEF LoopSound, Fits, Starting
<1>4. \A t \in Tasks : TaskSound(t)'
    BY <1>2, ActorsAre DEF OthersKeep
<1> QED
    BY <1>1, <1>2, <1>3, <1>4, TypesJoin DEF IInv

LEMMA BeginStep ==
    ASSUME IInv, NEW s \in {"mark", "hydrate", "prereq", "assess", "lookup", "cancel"},
           NEW m \in Frames, Begin(s, m), Fits(s, m), schedule' \in SomeSchedule
    PROVE  IInv'
<1>1. /\ at' = [at EXCEPT ![Loop] = s] /\ mem' = [mem EXCEPT ![Loop] = m]
      /\ UNCHANGED <<rows, chmap, overran>> /\ UNCHANGED <<lttb, damage, revived>>
    BY DEF Begin, Goto
<1>2. s \in LoopStages \ {"admit", "remark", "activate", "remap", "create"}
    BY DEF LoopStages
<1>3. at'[Loop] = s
    BY <1>1, ActorsAre DEF IInv, TypeOK
<1>4. DataSound'
    BY <1>1, <1>2, <1>3, DataKept
<1>5. ResultTypes'
    BY <1>1 DEF IInv, TypeOK, ResultTypes
<1> QED
    BY <1>1, <1>2, <1>4, <1>5, LoopStep

LEMMA RequestsSound ==
    ASSUME IInv, Requests
    PROVE  IInv'
<1>1. schedule \in SomeSchedule /\ Schedules \subseteq SomeSchedule /\ Draft \in Schedules
    BY ScopeAssumption DEF IInv, TypeOK, SomeSchedule
<1>2. ASSUME NEW x \in Schedules, Save(x)
      PROVE  IInv'
    <2> DEFINE m == [NoFrame EXCEPT !.op = "save", !.sched = x, !.prev = schedule]
    <2>1. m \in Frames /\ m.op = "save" /\ m.sched = x
        BY <1>1, NoFrameTyped DEF Frames, Ops
    <2>2. Begin("mark", m) /\ schedule' \in SomeSchedule
        BY <1>1, <1>2 DEF Save
    <2> HIDE DEF m
    <2> QED
        BY <2>1, <2>2, BeginStep DEF Fits, Saves, Decisions
<1>3. ASSUME NEW x \in Schedules, Attach(x)
      PROVE  IInv'
    <2> DEFINE m == [NoFrame EXCEPT !.op = "attach", !.sched = x]
    <2>1. m \in Frames /\ m.op = "attach" /\ m.sched = x
        BY <1>1, NoFrameTyped DEF Frames, Ops
    <2>2. Begin("hydrate", m) /\ schedule' \in SomeSchedule
        BY <1>1, <1>3 DEF Attach
    <2> HIDE DEF m
    <2> QED
        BY <2>1, <2>2, BeginStep DEF Fits, Saves, Decisions
<1>4. ASSUME NEW x \in Maps, StartReprocess(x)
      PROVE  IInv'
    <2> DEFINE m == [NoFrame EXCEPT !.op = "reprocess", !.map = x]
    <2>1. m \in Frames /\ m.op = "reprocess" /\ m.map = x
        BY NoFrameTyped DEF Frames, Ops, SomeMap
    <2>2. Begin("lookup", m) /\ schedule' \in SomeSchedule
        BY <1>1, <1>4 DEF StartReprocess
    <2> HIDE DEF m
    <2> QED
        BY <2>1, <2>2, BeginStep DEF Fits, Saves, Decisions
<1>5. ASSUME Calculate
      PROVE  IInv'
    <2> DEFINE m == [NoFrame EXCEPT !.op = "calculate", !.sched = schedule]
    <2>1. m \in Frames /\ m.op = "calculate" /\ m.sched \in Schedules
        BY <1>1, <1>5, NoFrameTyped DEF Frames, Ops, Calculate, SomeSchedule
    <2>2. Begin("prereq", m) /\ schedule' \in SomeSchedule
        BY <1>1, <1>5 DEF Calculate
    <2> HIDE DEF m
    <2> QED
        BY <2>1, <2>2, BeginStep DEF Fits, Saves, Decisions
<1>6. ASSUME Backfill
      PROVE  IInv'
    <2> DEFINE m == [NoFrame EXCEPT !.op = "backfill", !.sched = schedule]
    <2>1. m \in Frames /\ m.op = "backfill" /\ m.sched \in Schedules
        BY <1>1, <1>6, NoFrameTyped DEF Frames, Ops, Backfill, SomeSchedule
    <2>2. Begin("assess", m) /\ schedule' \in SomeSchedule
        BY <1>1, <1>6 DEF Backfill
    <2> HIDE DEF m
    <2> QED
        BY <2>1, <2>2, BeginStep DEF Fits, Saves, Decisions
<1>7. ASSUME Poll
      PROVE  IInv'
    <2> DEFINE m == [NoFrame EXCEPT !.op = "poll"]
    <2>1. m \in Frames /\ m.op = "poll"
        BY NoFrameTyped DEF Frames, Ops
    <2>2. Begin("lookup", m) /\ schedule' \in SomeSchedule
        BY <1>1, <1>7 DEF Poll
    <2> HIDE DEF m
    <2> QED
        BY <2>1, <2>2, BeginStep DEF Fits, Saves, Decisions
<1>8. ASSUME NEW t \in Tasks, CancelRead(t)
      PROVE  IInv'
    <2> DEFINE m == [NoFrame EXCEPT !.op = "cancel", !.ids = {t}]
    <2>1. m \in Frames /\ m.op = "cancel"
        BY NoFrameTyped DEF Frames, Ops
    <2>2. Begin("cancel", m) /\ schedule' \in SomeSchedule
        BY <1>1, <1>8 DEF CancelRead
    <2> HIDE DEF m
    <2> QED
        BY <2>1, <2>2, BeginStep DEF Fits, Saves, Decisions
<1> QED
    BY <1>2, <1>3, <1>4, <1>5, <1>6, <1>7, <1>8 DEF Requests

-----------------------------------------------------------------------------
(* Decisions of the event loop.                                            *)

LEMMA FramesKnown ==
    ASSUME IInv, NEW a \in Actors
    PROVE  mem[a] \in Frames /\ mem = [mem EXCEPT ![a] = mem[a]]
    BY DEF IInv, TypeOK

LEMMA ResultsKept ==
    ASSUME IInv, UNCHANGED results
    PROVE  ResultTypes'
    BY DEF IInv, TypeOK, ResultTypes, results

LEMMA LoopDecides ==
    ASSUME IInv, NEW s \in LoopStages \ {"admit", "remark", "activate", "remap"},
           NEW m \in Frames, at' = [at EXCEPT ![Loop] = s], mem' = [mem EXCEPT ![Loop] = m],
           UNCHANGED <<rows, results, overran>>, Fits(s, m), s = "create" => m.op # "reprocess"
    PROVE  IInv'
<1>1. at'[Loop] = s
    BY ActorsAre DEF IInv, TypeOK
<1>2. DataSound'
    BY <1>1, DataKept DEF results
<1> QED
    BY <1>2, LoopStep, ResultsKept DEF results

\* A handler that answers.
LEMMA LoopLeaves ==
    ASSUME IInv, NEW o, Leave(Loop, o)
    PROVE  /\ at' = [at EXCEPT ![Loop] = "idle"] /\ mem' = [mem EXCEPT ![Loop] = NoFrame]
           /\ NoFrame \in Frames /\ Fits("idle", NoFrame)
           /\ "idle" \in LoopStages \ {"admit", "remark", "activate", "remap", "create"}
           /\ at'[Loop] = "idle"
<1>1. at' = [at EXCEPT ![Loop] = "idle"] /\ mem' = [mem EXCEPT ![Loop] = NoFrame]
    BY DEF Leave, Goto, EndStage, EndFrame
<1>2. NoFrame \in Frames /\ Fits("idle", NoFrame)
    BY NoFrameTyped DEF Fits, Saves, Decisions
<1>3. at'[Loop] = "idle"
    BY <1>1, ActorsAre DEF IInv, TypeOK
<1> QED
    BY <1>1, <1>2, <1>3 DEF LoopStages

LEMMA LoopAnswers ==
    ASSUME IInv, NEW o, Leave(Loop, o), UNCHANGED <<rows, results, overran>>
    PROVE  IInv'
    BY LoopLeaves, LoopDecides

\* A handler that goes on with the frame it has.
LEMMA LoopGoesOn ==
    ASSUME IInv, NEW s \in LoopStages \ {"admit", "remark", "activate", "remap", "create"},
           Goto(Loop, s), UNCHANGED <<rows, mem, chmap, overran>>, Fits(s, mem[Loop]),
           DataSound', ResultTypes'
    PROVE  IInv'
<1>1. mem[Loop] \in Frames /\ mem' = [mem EXCEPT ![Loop] = mem[Loop]]
    BY FramesKnown, ActorsAre
<1> QED
    BY <1>1, LoopStep DEF Goto

LEMMA LoopGoesOnQuietly ==
    ASSUME IInv, NEW s \in LoopStages \ {"admit", "remark", "activate", "remap", "create"},
           Goto(Loop, s), UNCHANGED <<rows, mem, results, overran>>, Fits(s, mem[Loop])
    PROVE  IInv'
<1>1. mem[Loop] \in Frames /\ mem' = [mem EXCEPT ![Loop] = mem[Loop]]
    BY FramesKnown, ActorsAre
<1> QED
    BY <1>1, LoopDecides DEF Goto

LEMMA LoopPrereq ==
    ASSUME IInv, Prereq(Loop)
    PROVE  IInv'
<1>1. Fits("prereq", mem[Loop]) /\ UNCHANGED <<rows, results, overran>>
    BY DEF IInv, LoopSound, Prereq
<1>2. CASE Leave(Loop, "completed")
    BY <1>1, <1>2, LoopAnswers
<1>3. CASE Goto(Loop, "lookup") /\ UNCHANGED mem
    BY <1>1, <1>3, LoopGoesOnQuietly DEF Fits, LoopStages
<1>4. CASE mem[Loop].op \in Saves /\ Goto(Loop, "eligible") /\ UNCHANGED mem
    BY <1>1, <1>4, LoopGoesOnQuietly DEF Fits, LoopStages
<1>5. CASE mem[Loop].op \in Saves /\ Goto(Loop, "clear") /\ UNCHANGED mem
    BY <1>1, <1>5, LoopGoesOnQuietly DEF Fits, LoopStages
<1> QED
    BY <1>2, <1>3, <1>4, <1>5 DEF Prereq, Saves

LEMMA LoopAssess ==
    ASSUME IInv, Assess(Loop)
    PROVE  IInv'
<1>1. Fits("assess", mem[Loop]) /\ UNCHANGED <<rows, results, overran>>
    BY DEF IInv, LoopSound, Assess
<1>2. CASE Leave(Loop, "completed")
    BY <1>1, <1>2, LoopAnswers
<1>3. CASE Goto(Loop, "prereq") /\ UNCHANGED mem
    BY <1>1, <1>3, LoopGoesOnQuietly DEF Fits, LoopStages
<1> QED
    BY <1>2, <1>3 DEF Assess

LEMMA HydrateSound ==
    ASSUME IInv, Hydrate
    PROVE  IInv'
<1>1. /\ at[Loop] = "hydrate" /\ Goto(Loop, "mark") /\ schedule' = mem[Loop].sched
      /\ UNCHANGED <<rows, mem, chmap, lttb, damage, revived, overran>>
    BY DEF Hydrate
<1>2. Fits("mark", mem[Loop])
    BY <1>1 DEF IInv, LoopSound, Fits
<1>3. at'[Loop] = "mark"
    BY <1>1, ActorsAre DEF IInv, TypeOK, Goto
<1>4. DataSound'
    BY <1>1, <1>3, DataKept
<1>5. mem[Loop].sched \in SomeSchedule
    BY FramesKnown, ActorsAre DEF Frames
<1>6. ResultTypes'
    BY <1>1, <1>5 DEF IInv, TypeOK, ResultTypes
<1> QED
    BY <1>1, <1>2, <1>4, <1>6, LoopGoesOn DEF LoopStages

LEMMA EligibleSound ==
    ASSUME IInv, Eligible
    PROVE  IInv'
<1>1. /\ at[Loop] = "eligible" /\ UNCHANGED <<rows, mem, results, overran>>
      /\ Goto(Loop, "bases") \/ Goto(Loop, "clear")
    BY DEF Eligible
<1>2. Fits("bases", mem[Loop]) /\ Fits("clear", mem[Loop])
    BY <1>1 DEF IInv, LoopSound, Fits
<1> QED
    BY <1>1, <1>2, LoopGoesOnQuietly DEF LoopStages

LEMMA FrameWithBases ==
    ASSUME NEW f \in Frames, NEW T \in SUBSET Events, NEW B \in [Events -> SomeMap]
    PROVE  LET m == [f EXCEPT !.todo = T, !.bases = B]
           IN  m \in Frames /\ m.op = f.op /\ m.sched = f.sched
    BY DEF Frames

LEMMA ReadBasesSound ==
    ASSUME IInv, ReadBases
    PROVE  IInv'
<1> DEFINE T == {e \in Scheduled[mem[Loop].sched] : HasBase(e)}
           B == [e \in Events |-> damage[e].map]
           m == [mem[Loop] EXCEPT !.todo = T, !.bases = B]
<1>1. /\ at[Loop] = "bases" /\ at' = [at EXCEPT ![Loop] = "rescale"]
      /\ mem' = [mem EXCEPT ![Loop] = m] /\ UNCHANGED <<rows, results, overran>>
    BY DEF ReadBases, Goto
<1>2. mem[Loop].op \in Saves /\ mem[Loop].sched \in Schedules
    BY <1>1 DEF IInv, LoopSound, Fits, Saves, Decisions
<1>3. T \in SUBSET Events
    BY <1>2, ScopeAssumption
<1>4. B \in [Events -> SomeMap]
    BY DEF IInv, TypeOK
<1>5. m \in Frames /\ m.op = mem[Loop].op /\ m.sched = mem[Loop].sched
    <2> HIDE DEF T, B
    <2>1. mem[Loop] \in Frames
        BY FramesKnown, ActorsAre
    <2> QED
        BY <1>3, <1>4, <2>1, FrameWithBases
<1>6. Fits("rescale", m)
    BY <1>2, <1>5 DEF Fits, Saves, Decisions
<1> HIDE DEF m
<1> QED
    BY <1>1, <1>5, <1>6, LoopDecides DEF LoopStages

-----------------------------------------------------------------------------
(* Handlers that write damage, plots and the map.                          *)

\* Rows of damage that a step does not make current were current before.
LEMMA MarkedTyped ==
    ASSUME IInv, NEW reason \in {"schedule_changed", "channel_reprocess_required"}
    PROVE  /\ MarkedStale(reason) \in [Events ->
                  [status : {"none", "current", "stale", "error", "unavailable"},
                   reason : {"none", "schedule_changed", "channel_reprocess_required"},
                   sched : SomeSchedule, map : SomeMap]]
           /\ \A e \in Events : MarkedStale(reason)[e].status # "current"
<1>1. \A e \in Events : damage[e] \in
          [status : {"none", "current", "stale", "error", "unavailable"},
           reason : {"none", "schedule_changed", "channel_reprocess_required"},
           sched : SomeSchedule, map : SomeMap]
    BY DEF IInv, TypeOK
<1>2. \A e \in Events :
          LET d == [damage[e] EXCEPT !.status = "stale", !.reason = reason]
          IN  /\ d \in [status : {"none", "current", "stale", "error", "unavailable"},
                         reason : {"none", "schedule_changed", "channel_reprocess_required"},
                         sched : SomeSchedule, map : SomeMap]
              /\ d.status = "stale"
    BY <1>1
<1> QED
    BY <1>1, <1>2 DEF MarkedStale

\* Rows that are not current need no map.
LEMMA NoneCurrent ==
    ASSUME IInv, NEW s, UNCHANGED <<chmap, lttb, revived, overran>>, at'[Loop] = s,
           s # "remap", \A e \in Events : damage'[e].status # "current"
    PROVE  DataSound'
<1>1. PlotsOfTheMap'
    BY DEF IInv, DataSound, PlotsOfTheMap
<1>2. BasesOfTheMap'
    BY DEF BasesOfTheMap
<1> QED
    BY <1>1, <1>2 DEF DataSound

LEMMA MarkScheduleChangedSound ==
    ASSUME IInv, MarkScheduleChanged
    PROVE  IInv'
<1>1. /\ at[Loop] = "mark" /\ damage' = MarkedStale("schedule_changed") /\ Goto(Loop, "prereq")
      /\ UNCHANGED <<rows, mem, schedule, chmap, lttb, revived, overran>>
    BY DEF MarkScheduleChanged
<1>2. Fits("prereq", mem[Loop])
    BY <1>1 DEF IInv, LoopSound, Fits, Saves, Decisions
<1>3. at'[Loop] = "prereq"
    BY <1>1, ActorsAre DEF IInv, TypeOK, Goto
<1>4. DataSound'
    BY <1>1, <1>3, MarkedTyped, NoneCurrent
<1>5. ResultTypes'
    BY <1>1, MarkedTyped DEF IInv, TypeOK, ResultTypes
<1> QED
    BY <1>1, <1>2, <1>4, <1>5, LoopGoesOn DEF LoopStages

LEMMA ClearDamageSound ==
    ASSUME IInv, ClearDamage
    PROVE  IInv'
<1>1. /\ at[Loop] = "clear" /\ Goto(Loop, "lookup")
      /\ UNCHANGED <<rows, mem, schedule, chmap, lttb, overran>>
    BY DEF ClearDamage
<1>2. Fits("lookup", mem[Loop])
    BY <1>1 DEF IInv, LoopSound, Fits, Saves, Decisions
<1>3. at'[Loop] = "lookup"
    BY <1>1, ActorsAre DEF IInv, TypeOK, Goto
<1>4. CASE damage' = damage /\ revived' = revived
    <2>1. DataSound'
        BY <1>1, <1>3, <1>4, DataKept
    <2>2. ResultTypes'
        BY <1>1, <1>4 DEF IInv, TypeOK, ResultTypes
    <2> QED
        BY <1>1, <1>2, <2>1, <2>2, LoopGoesOn DEF LoopStages
<1>5. CASE damage' = [e \in Events |-> NoDamage] /\ revived' = {}
    <2>1. NoDamage.status = "none" /\ NoDamage \in
              [status : {"none", "current", "stale", "error", "unavailable"},
               reason : {"none", "schedule_changed", "channel_reprocess_required"},
               sched : SomeSchedule, map : SomeMap]
        BY DEF NoDamage, SomeSchedule, SomeMap
    <2>2. BasesOfTheMap' /\ PlotsOfTheMap'
        BY <1>1, <1>5, <2>1 DEF BasesOfTheMap, PlotsOfTheMap, IInv, DataSound
    <2>3. DataSound'
        BY <1>3, <2>2 DEF DataSound
    <2>4. ResultTypes'
        BY <1>1, <1>5, <2>1 DEF IInv, TypeOK, ResultTypes
    <2> QED
        BY <1>1, <1>2, <2>3, <2>4, LoopGoesOn DEF LoopStages
<1> QED
    BY <1>4, <1>5 DEF ClearDamage

LEMMA RescaleSound ==
    ASSUME IInv, Rescale
    PROVE  IInv'
<1>1. at[Loop] = "rescale" /\ UNCHANGED <<rows, schedule, chmap, lttb, overran>>
    BY DEF Rescale
<1>2. mem[Loop] \in Frames /\ Fits("rescale", mem[Loop])
    BY <1>1, FramesKnown, ActorsAre DEF IInv, LoopSound
<1>3. CASE Leave(Loop, "completed") /\ UNCHANGED <<damage, revived>>
    BY <1>1, <1>3, LoopAnswers DEF results
<1>4. ASSUME NEW e \in mem[Loop].todo,
             damage' = [damage EXCEPT ![e] =
                 [status |-> "current", reason |-> "none",
                  sched |-> mem[Loop].sched, map |-> mem[Loop].bases[e]]],
             revived' = IF mem[Loop].bases[e] = chmap
                        THEN revived \ {e} ELSE revived \cup {e},
             mem' = [mem EXCEPT ![Loop].todo = mem[Loop].todo \ {e}], UNCHANGED at
      PROVE  IInv'
    <2> DEFINE T == mem[Loop].todo \ {e}
               m == [mem[Loop] EXCEPT !.todo = T]
               d == [status |-> "current", reason |-> "none",
                     sched |-> mem[Loop].sched, map |-> mem[Loop].bases[e]]
    <2>1. e \in Events /\ mem[Loop].bases[e] \in SomeMap /\ mem[Loop].sched \in SomeSchedule
        BY <1>2, <1>4 DEF Frames
    <2>2. m \in Frames /\ m.op = mem[Loop].op /\ m.sched = mem[Loop].sched /\ m.map = mem[Loop].map
        BY <1>2 DEF Frames
    <2>3. Fits("rescale", m)
        BY <1>2, <2>2 DEF Fits
    <2>4. /\ d \in [status : {"none", "current", "stale", "error", "unavailable"},
                     reason : {"none", "schedule_changed", "channel_reprocess_required"},
                     sched : SomeSchedule, map : SomeMap]
          /\ d.map = mem[Loop].bases[e]
        BY <2>1
    <2>5. /\ at' = [at EXCEPT ![Loop] = "rescale"] /\ mem' = [mem EXCEPT ![Loop] = m]
          /\ at'[Loop] = "rescale" /\ damage' = [damage EXCEPT ![e] = d]
        BY <1>1, <1>4 DEF IInv, TypeOK
    <2> HIDE DEF m, d
    <2>6. \A x \in Events : damage'[x] = IF x = e THEN d ELSE damage[x]
        BY <2>1, <2>5 DEF IInv, TypeOK
    <2>7. BasesOfTheMap'
        BY <1>1, <1>4, <2>1, <2>4, <2>6 DEF IInv, DataSound, BasesOfTheMap
    <2>8. DataSound'
        BY <1>1, <2>5, <2>7 DEF IInv, DataSound, PlotsOfTheMap
    <2>9. ResultTypes'
        BY <1>1, <1>4, <2>1, <2>4, <2>5 DEF IInv, TypeOK, ResultTypes
    <2> QED
        BY <1>1, <2>2, <2>3, <2>5, <2>8, <2>9, LoopStep DEF LoopStages
<1> QED
    BY <1>3, <1>4 DEF Rescale

\* A step within the start of a reprocess: no worker lives, so the map may
\* change.
LEMMA StartStep ==
    ASSUME IInv, Starting, NEW s \in {"activate", "remap", "create"}, Goto(Loop, s),
           UNCHANGED <<rows, mem, overran>>, s = "create" => mem[Loop].map = chmap',
           mem[Loop].op = "reprocess", DataSound', ResultTypes'
    PROVE  IInv'
<1>1. TypeOK /\ at' = [at EXCEPT ![Loop] = s] /\ s \in LoopStages
    BY DEF IInv, Goto, LoopStages
<1>2. at'[Loop] = s /\ \A t \in Tasks : at'[t] = at[t]
    BY <1>1, ActorsAre DEF TypeOK
<1>3. ActorTypes'
    BY <1>1, <1>2 DEF TypeOK, ActorTypes
<1>4. RowTypes'
    BY <1>1 DEF TypeOK, RowTypes, rows
<1>5. ~overran => \A t \in Tasks : ~Live(t)
    BY DEF IInv, LoopSound
<1>6. \A t \in Tasks : TaskSound(t)'
    BY <1>2, <1>5 DEF IInv, TaskSound, Live, ThreadStages, HasRow, rows
<1>7. Fits(s, mem[Loop])
    BY <1>1 DEF IInv, LoopSound, Fits, Saves, Decisions, Starting
<1>8. LoopSound'
    BY <1>2, <1>5, <1>7 DEF LoopSound, Live
<1> QED
    BY <1>3, <1>4, <1>6, <1>8, TypesJoin DEF IInv

LEMMA MarkReprocessRequiredSound ==
    ASSUME IInv, MarkReprocessRequired
    PROVE  IInv'
<1>1. /\ at[Loop] = "remark" /\ damage' = MarkedStale("channel_reprocess_required")
      /\ Goto(Loop, "activate")
      /\ UNCHANGED <<rows, mem, schedule, chmap, lttb, revived, overran>>
    BY DEF MarkReprocessRequired
<1>2. Starting /\ mem[Loop].op = "reprocess"
    BY <1>1 DEF IInv, LoopSound, Fits, Starting
<1>3. at'[Loop] = "activate"
    BY <1>1, ActorsAre DEF IInv, TypeOK, Goto
<1>4. DataSound'
    BY <1>1, <1>3, MarkedTyped, NoneCurrent
<1>5. ResultTypes'
    BY <1>1, MarkedTyped DEF IInv, TypeOK, ResultTypes
<1> QED
    BY <1>1, <1>2, <1>4, <1>5, StartStep

LEMMA ActivateSnapshotSound ==
    ASSUME IInv, ActivateSnapshot
    PROVE  IInv'
<1> DEFINE P == [map : SomeMap, status : {"absent", "current", "stale"}]
           Odd(e) == e \in Pending /\ lttb[e].status = "current" /\ lttb[e].map # mem[Loop].map
<1>1. /\ at[Loop] = "activate" /\ Goto(Loop, "remap")
      /\ lttb' = [e \in Events |->
                    IF Odd(e) THEN [lttb[e] EXCEPT !.status = "stale"] ELSE lttb[e]]
      /\ UNCHANGED <<rows, mem, schedule, chmap, damage, revived, overran>>
    BY DEF ActivateSnapshot
<1>2. Starting /\ mem[Loop].op = "reprocess"
    BY <1>1 DEF IInv, LoopSound, Fits, Starting
<1>3. at'[Loop] = "remap"
    BY <1>1, ActorsAre DEF IInv, TypeOK, Goto
<1>4. \A e \in Events : lttb[e] \in P
    BY DEF IInv, TypeOK
<1>5. \A e \in Events : LET d == [lttb[e] EXCEPT !.status = "stale"]
                        IN  d \in P /\ d.status = "stale"
    BY <1>4
<1>6. \A e \in Events : lttb'[e] \in P /\ (lttb'[e].status = "current" => lttb'[e] = lttb[e] /\ ~Odd(e))
    BY <1>1, <1>4, <1>5
<1>7. ResultTypes'
    <2>1. lttb' \in [Events -> P]
        BY <1>1, <1>6
    <2> QED
        BY <1>1, <2>1 DEF IInv, TypeOK, ResultTypes
<1>8. \A e \in Pending : e \in Events
    BY ScopeAssumption
<1>9. PlotsOfTheMap'
    BY <1>1, <1>6, <1>8 DEF IInv, DataSound, PlotsOfTheMap
<1>10. BasesOfTheMap'
    BY <1>1 DEF IInv, DataSound, BasesOfTheMap
<1>11. \A e \in Pending : lttb'[e].status = "current" => lttb'[e].map = mem'[Loop].map
    BY <1>1, <1>6, <1>8
<1>12. ~overran' => \A e \in Events : damage'[e].status # "current"
    BY <1>1 DEF IInv, DataSound
<1>13. DataSound'
    BY <1>9, <1>10, <1>11, <1>12 DEF DataSound
<1> QED
    BY <1>1, <1>2, <1>7, <1>13, StartStep

LEMMA WriteChannelMapSound ==
    ASSUME IInv, WriteChannelMap
    PROVE  IInv'
<1>1. /\ at[Loop] = "remap" /\ chmap' = mem[Loop].map /\ Goto(Loop, "create")
      /\ UNCHANGED <<rows, mem, schedule, lttb, damage, revived, overran>>
    BY DEF WriteChannelMap
<1>2. Starting /\ mem[Loop].op = "reprocess" /\ mem[Loop].map \in SomeMap
    BY <1>1 DEF IInv, LoopSound, Fits, Starting, SomeMap
<1>3. at'[Loop] = "create"
    BY <1>1, ActorsAre DEF IInv, TypeOK, Goto
<1>4. ResultTypes'
    BY <1>1, <1>2 DEF IInv, TypeOK, ResultTypes
<1>5. PlotsOfTheMap' /\ BasesOfTheMap'
    BY <1>1 DEF IInv, DataSound, PlotsOfTheMap, BasesOfTheMap
<1>6. DataSound'
    BY <1>3, <1>5 DEF DataSound
<1> QED
    BY <1>1, <1>2, <1>4, <1>6, StartStep

-----------------------------------------------------------------------------
(* Rows: looking tasks up, failing, cancelling.                            *)

LEMMA UpdatedRows ==
    ASSUME IInv, NEW ts \in SUBSET Tasks, NEW s \in TaskStatuses, status' = Updated(ts, s)
    PROVE  /\ status' \in [Tasks -> TaskStatuses]
           /\ \A t \in Tasks : status[t] = "absent" => status'[t] = "absent"
           /\ \A t \in Tasks \ ts : status'[t] = status[t]
           /\ \A t \in ts : status'[t] \in {s, "absent"}
           /\ s \in ActiveStatuses =>
                 \A t \in Tasks : status[t] \in ActiveStatuses => status'[t] \in ActiveStatuses
    BY DEF IInv, TypeOK, Updated, HasRow, ActiveStatuses

LEMMA CancelWriteSound ==
    ASSUME IInv, CancelWrite
    PROVE  IInv'
<1>1. /\ status' = Updated(mem[Loop].ids, "cancelling") /\ Leave(Loop, "completed")
      /\ UNCHANGED <<kind, results, overran>>
    BY DEF CancelWrite
<1>2. mem[Loop].ids \in SUBSET Tasks
    BY FramesKnown, ActorsAre DEF Frames
<1>3. "cancelling" \in TaskStatuses /\ "cancelling" \in ActiveStatuses
    BY DEF TaskStatuses, ActiveStatuses
<1>4. RowsKept(Loop) /\ RowTypes'
    BY <1>1, <1>2, <1>3, UpdatedRows DEF RowsKept, RowTypes, IInv, TypeOK
<1>5. chmap' = chmap /\ UNCHANGED <<lttb, damage, revived>>
    BY <1>1 DEF results
<1>6. "idle" \in StagesOf(Loop) /\ Loop \in Actors
    BY ActorsAre DEF StagesOf, LoopStages
<1>7. ActorTypes' /\ at'[Loop] = "idle" /\ mem'[Loop] = NoFrame /\ OthersKeep(Loop)
    BY <1>1, <1>4, <1>5, <1>6, LoopLeaves, ActorStep
<1>8. LoopSound'
    BY <1>1, <1>7, LoopLeaves DEF LoopSound, Starting
<1>9. DataSound'
    BY <1>1, <1>5, <1>7, DataKept
<1>10. \A t \in Tasks : TaskSound(t)'
    BY <1>7, ActorsAre DEF OthersKeep
<1> QED
    BY <1>1, <1>4, <1>7, <1>8, <1>9, <1>10, ResultsKept, TypesJoin DEF IInv

\* A set of tasks has a latest one: seen through the segments from its tasks
\* to the last number, the smallest of which begins at it.
LEMMA LatestKnown ==
    ASSUME NEW ts \in SUBSET Tasks, ts # {}
    PROVE  Latest(ts) \in ts
<1> DEFINE Segments == {t..MaxTasks : t \in ts}
<1>0. MaxTasks \in Nat /\ ts \subseteq 1..MaxTasks
    BY ScopeAssumption DEF Tasks
<1>1. Segments \subseteq FiniteSubsetsOf(Nat)
    <2>1. ASSUME NEW t \in ts
          PROVE  t..MaxTasks \in SUBSET Nat /\ IsFiniteSet(t..MaxTasks)
        BY <1>0, FS_Interval
    <2> QED
        BY <2>1 DEF FiniteSubsetsOf
<1>2. Segments # {}
    OBVIOUS
<1>3. PICK s \in Segments :
        \A r \in Segments : ~ (<<r, s>> \in StrictSubsetOrdering(Nat))
    BY <1>1, <1>2, FS_StrictSubsetOrderingWellFounded, WFMin
<1>4. PICK t \in ts : s = t..MaxTasks
    OBVIOUS
<1>5. ASSUME NEW u \in ts, u > t
      PROVE  FALSE
    <2>1. u..MaxTasks \in Segments
        OBVIOUS
    <2>2. <<u..MaxTasks, s>> \in StrictSubsetOrdering(Nat)
        BY <1>0, <1>4, <1>5 DEF StrictSubsetOrdering
    <2> QED
        BY <1>3, <2>1, <2>2
<1>6. \A u \in ts : u <= t
    BY <1>0, <1>5
<1> QED
    BY <1>6 DEF Latest

\* A look-up: every row it takes or will fail has no worker, unless overran.
LEMMA LookupRows ==
    ASSUME IInv, NEW a \in Actors, Lookup(a)
    PROVE  \E found \in SUBSET Tasks :
              /\ mem' = [mem EXCEPT ![a].ids = found]
              /\ ~overran' => \A u \in found : at[u] = "done"
              /\ RowsKept(a) /\ RowTypes'
              /\ \A t \in Tasks : ~overran' /\ Live(t) => status'[t] = status[t]
              /\ \A t \in Tasks : HasRow(t)' => HasRow(t)
<1>1. Overdue \subseteq Tasks
    BY DEF Overdue
<1>2. PICK gone \in SUBSET Overdue, found \in SUBSET Overdue :
        /\ status' = Updated(gone, "absent")
        /\ overran' = (overran \/ \E t \in gone \cup found : Live(t))
        /\ mem' = [mem EXCEPT ![a].ids = found]
    BY DEF Lookup
<1>3. kind' = kind /\ gone \in SUBSET Tasks /\ "absent" \in TaskStatuses
    BY <1>1 DEF Lookup, TaskStatuses
<1>4. /\ status' \in [Tasks -> TaskStatuses]
      /\ \A t \in Tasks : status[t] = "absent" => status'[t] = "absent"
      /\ \A t \in Tasks \ gone : status'[t] = status[t]
    BY <1>2, <1>3, UpdatedRows
<1>5. (overran => overran') /\ overran' \in BOOLEAN
    BY <1>2
<1>6. ~overran' => \A t \in gone \cup found : ~Live(t)
    BY <1>2
<1>7. RowTypes'
    BY <1>3, <1>4, <1>5 DEF RowTypes, IInv, TypeOK
<1>8. \A t \in Tasks : ~overran' /\ Live(t) => status'[t] = status[t]
    BY <1>4, <1>6
<1>9. \A t \in Tasks : HasRow(t)' => HasRow(t)
    BY <1>4 DEF HasRow
<1>10. RowsKept(a)
    BY <1>3, <1>4, <1>5, <1>8 DEF RowsKept
<1>11. ASSUME ~overran', NEW u \in found
       PROVE  at[u] = "done"
    <2>1. u \in Tasks /\ status[u] \in ActiveStatuses /\ ~Live(u)
        BY <1>1, <1>6, <1>11 DEF Overdue
    <2>2. at[u] # "unborn" /\ at[u] \in TaskStages
        BY <2>1 DEF IInv, TaskSound, ActiveStatuses, TypeOK
    <2> QED
        BY <2>1, <2>2 DEF TaskStages, Live
<1>12. found \in SUBSET Tasks
    BY <1>1
<1> QED
    BY <1>2, <1>7, <1>8, <1>9, <1>10, <1>11, <1>12

LEMMA FrameWithIds ==
    ASSUME NEW f \in Frames, NEW I \in SUBSET Tasks
    PROVE  LET m == [f EXCEPT !.ids = I]
           IN  m \in Frames /\ m.op = f.op /\ m.sched = f.sched /\ m.map = f.map /\ m.ids = I
    BY DEF Frames

LEMMA LookupSound ==
    ASSUME IInv, NEW a \in Actors, Lookup(a)
    PROVE  IInv'
<1>1. at[a] = "lookup" /\ at' = [at EXCEPT ![a] = "admit"] /\ UNCHANGED results
    BY DEF Lookup, Goto
<1>2. PICK found \in SUBSET Tasks :
              /\ mem' = [mem EXCEPT ![a].ids = found]
              /\ ~overran' => \A u \in found : at[u] = "done"
              /\ RowsKept(a) /\ RowTypes'
              /\ \A t \in Tasks : ~overran' /\ Live(t) => status'[t] = status[t]
              /\ \A t \in Tasks : HasRow(t)' => HasRow(t)
    BY LookupRows
<1> DEFINE m == [mem[a] EXCEPT !.ids = found]
<1>3. /\ m \in Frames /\ m.op = mem[a].op /\ m.sched = mem[a].sched
      /\ m.map = mem[a].map /\ m.ids = found
    BY FramesKnown, FrameWithIds
<1>4. mem' = [mem EXCEPT ![a] = m]
    BY <1>2
<1> HIDE DEF m
<1>5. "admit" \in StagesOf(a) /\ (a # Loop => Live(a))
    BY <1>1 DEF StagesOf, LoopStages, TaskStages, ThreadStages, Live
<1>6. chmap' = chmap /\ UNCHANGED <<lttb, damage, revived>>
    BY <1>1 DEF results
<1>7. ActorTypes' /\ at'[a] = "admit" /\ mem'[a] = m /\ OthersKeep(a)
    BY <1>1, <1>2, <1>3, <1>4, <1>5, <1>6, ActorStep
<1>8. DataSound'
    BY <1>2, <1>6, <1>7, ActorsAre, DataKept DEF OthersKeep, RowsKept
<1>9. \A u \in found : at[u] = "done" => at'[u] = "done"
    BY <1>1, <1>7, ActorsAre DEF OthersKeep
<1>10. CASE a = Loop
    <2>1. Fits("admit", m)
        BY <1>1, <1>3, <1>10 DEF IInv, LoopSound, Fits
    <2>2. LoopSound'
        BY <1>2, <1>3, <1>7, <1>9, <1>10, <2>1 DEF LoopSound, Starting
    <2>3. \A t \in Tasks : TaskSound(t)'
        BY <1>7, <1>10, ActorsAre DEF OthersKeep
    <2> QED
        BY <1>1, <1>2, <1>7, <1>8, <2>2, <2>3, ResultsKept, TypesJoin DEF IInv
<1>11. CASE a \in Tasks
    <2>1. TaskSound(a) /\ Live(a)
        BY <1>5, <1>11, ActorsAre DEF IInv
    <2>2. TaskSound(a)'
        BY <1>1, <1>2, <1>3, <1>7, <1>9, <1>11, <2>1
        DEF TaskSound, Live, ThreadStages, Deciding, RowsKept
    <2>3. LoopSound' /\ \A t \in Tasks : TaskSound(t)'
        BY <1>7, <1>11, <2>2, ActorsAre DEF OthersKeep
    <2> QED
        BY <1>1, <1>2, <1>7, <1>8, <2>3, ResultsKept, TypesJoin DEF IInv
<1> QED
    BY <1>10, <1>11, ActorsAre

-----------------------------------------------------------------------------
(* Steps of an actor that leave plots, map and damage alone.               *)

LEMMA LoopRowStep ==
    ASSUME IInv, NEW s \in LoopStages \ {"activate", "remap", "admit"}, NEW m \in Frames,
           at' = [at EXCEPT ![Loop] = s], mem' = [mem EXCEPT ![Loop] = m],
           UNCHANGED results, RowsKept(Loop), RowTypes', Fits(s, m),
           s = "create" => m.op # "reprocess",
           s = "remark" /\ ~overran' => \A t \in Tasks : ~Live(t)
    PROVE  IInv'
<1>1. Loop \in Actors /\ s \in StagesOf(Loop) /\ UNCHANGED <<chmap, lttb, damage, revived>>
    BY ActorsAre DEF StagesOf, results
<1>2. ActorTypes' /\ at'[Loop] = s /\ mem'[Loop] = m /\ OthersKeep(Loop)
    BY <1>1, ActorStep
<1>3. LoopSound'
    <2>1. \A t \in Tasks : at'[t] = at[t]
        BY <1>2, ActorsAre DEF OthersKeep
    <2> QED
        BY <1>2, <2>1 DEF LoopSound, Starting, Live
<1>4. DataSound'
    BY <1>1, <1>2, DataKept DEF RowsKept
<1>5. \A t \in Tasks : TaskSound(t)'
    BY <1>2, ActorsAre DEF OthersKeep
<1> QED
    BY <1>2, <1>3, <1>4, <1>5, ResultsKept, TypesJoin DEF IInv

LEMMA ThreadStep ==
    ASSUME IInv, NEW t \in Tasks, Live(t), NEW s \in TaskStages \ {"unborn", "starting", "admit"},
           NEW m \in Frames, at' = [at EXCEPT ![t] = s], mem' = [mem EXCEPT ![t] = m],
           chmap' = chmap, ResultTypes', DataSound', RowsKept(t), RowTypes',
           m.op \in {"none", "followup", "damage"},
           s \in Deciding => m.op = "followup" /\ m.sched \in Schedules,
           s = "finish" => m.out \in {"completed", "failed"},
           HasRow(t)' => HasRow(t),
           s \in ThreadStages /\ ~overran' => status'[t] \in ActiveStatuses,
           s \in {"process", "write"} /\ ~overran' => m.map = chmap
    PROVE  IInv'
<1>1. t \in Actors /\ s \in StagesOf(t) /\ t # Loop
    BY ActorsAre DEF StagesOf
<1>2. ActorTypes' /\ at'[t] = s /\ mem'[t] = m /\ OthersKeep(t)
    BY <1>1, ActorStep
<1>3. TaskSound(t)'
    <2>1. TaskSound(t)
        BY DEF IInv
    <2> QED
        BY <1>2, <2>1 DEF TaskSound, Live, RowsKept
<1>4. LoopSound' /\ \A u \in Tasks : TaskSound(u)'
    BY <1>1, <1>2, <1>3 DEF OthersKeep
<1> QED
    BY <1>2, <1>4, TypesJoin DEF IInv

\* A thread's step that changes nothing but where it stands.
LEMMA ThreadGoes ==
    ASSUME IInv, NEW t \in Tasks, Live(t), NEW s \in TaskStages \ {"unborn", "starting", "admit"},
           NEW m \in Frames, at' = [at EXCEPT ![t] = s], mem' = [mem EXCEPT ![t] = m],
           UNCHANGED <<rows, results, overran>>,
           m.op \in {"none", "followup", "damage"},
           s \in Deciding => m.op = "followup" /\ m.sched \in Schedules,
           s = "finish" => m.out \in {"completed", "failed"},
           s \in {"process", "write"} /\ ~overran => m.map = chmap
    PROVE  IInv'
<1>1. t \in Actors /\ UNCHANGED <<chmap, lttb, damage, revived>>
    BY ActorsAre DEF results
<1>2. RowsKept(t) /\ RowTypes' /\ ResultTypes'
    BY <1>1, NothingMoved, ResultsKept
<1>3. at'[Loop] = at[Loop] /\ mem'[Loop] = mem[Loop]
    BY ActorsAre DEF IInv, TypeOK
<1>4. DataSound'
    BY <1>1, <1>3, DataKept
<1>5. (HasRow(t)' => HasRow(t)) /\ (~overran' => status'[t] \in ActiveStatuses)
    BY DEF IInv, TaskSound, HasRow, rows
<1> QED
    BY <1>1, <1>2, <1>4, <1>5, ThreadStep

LEMMA EndFrameTyped ==
    ASSUME NEW a \in Tasks, NEW o \in {"completed", "failed"}
    PROVE  /\ EndFrame(a, o) \in Frames /\ EndFrame(a, o).op = "none"
           /\ EndFrame(a, o).out = o /\ EndStage(a) = "finish"
    BY NoFrameTyped, ActorsAre DEF EndFrame, EndStage, Frames

LEMMA ThreadLeaves ==
    ASSUME IInv, NEW t \in Tasks, Live(t), NEW o \in {"completed", "failed"}, Leave(t, o),
           UNCHANGED <<rows, results, overran>>
    PROVE  IInv'
<1>1. at' = [at EXCEPT ![t] = "finish"] /\ mem' = [mem EXCEPT ![t] = EndFrame(t, o)]
    BY EndFrameTyped DEF Leave, Goto
<1>2. "finish" \in TaskStages \ {"unborn", "starting", "admit"} /\ "finish" \notin Deciding
    BY DEF TaskStages, ThreadStages, Deciding
<1> QED
    BY <1>1, <1>2, EndFrameTyped, ThreadGoes

-----------------------------------------------------------------------------
(* The start of a task.                                                    *)

LEMMA AdmitRows ==
    ASSUME IInv, NEW a \in Actors, Admit(a)
    PROVE  /\ RowsKept(a) /\ RowTypes'
           /\ \A t \in Tasks : ~overran /\ Live(t) => status'[t] = status[t]
           /\ \A t \in Tasks : HasRow(t)' => HasRow(t)
<1>1. at[a] = "admit" /\ status' = Updated(mem[a].ids, "failed") /\ UNCHANGED <<kind, results, overran>>
    BY DEF Admit
<1>2. mem[a].ids \in SUBSET Tasks /\ "failed" \in TaskStatuses
    BY FramesKnown DEF Frames, TaskStatuses
<1>3. /\ status' \in [Tasks -> TaskStatuses]
      /\ \A t \in Tasks : status[t] = "absent" => status'[t] = "absent"
      /\ \A t \in Tasks \ mem[a].ids : status'[t] = status[t]
    BY <1>1, <1>2, UpdatedRows
<1>4. ~overran => \A u \in mem[a].ids : at[u] = "done"
    BY <1>1, ActorsAre DEF IInv, LoopSound, TaskSound
<1>5. \A t \in Tasks : ~overran /\ Live(t) => status'[t] = status[t]
    BY <1>3, <1>4 DEF Live, ThreadStages
<1>6. RowTypes'
    BY <1>1, <1>3 DEF RowTypes, IInv, TypeOK
<1>7. RowsKept(a)
    BY <1>1, <1>3, <1>5 DEF RowsKept
<1> QED
    BY <1>3, <1>5, <1>6, <1>7 DEF HasRow

LEMMA LoopAdmit ==
    ASSUME IInv, Admit(Loop)
    PROVE  IInv'
<1> DEFINE m == [mem[Loop] EXCEPT !.ids = {}]
           active == {t \in Tasks : status'[t] \in ActiveStatuses}
<1>1. at[Loop] = "admit" /\ UNCHANGED <<kind, results, overran>> /\ Loop \in Actors
    BY ActorsAre DEF Admit
<1>2. RowsKept(Loop) /\ RowTypes'
    BY <1>1, AdmitRows
<1>3. Fits("admit", mem[Loop])
    BY <1>1 DEF IInv, LoopSound
<1>4. m \in Frames /\ m.op = mem[Loop].op /\ m.sched = mem[Loop].sched /\ m.map = mem[Loop].map
    BY <1>1, FramesKnown, FrameWithIds
<1>5. CASE Leave(Loop, "completed")
    BY <1>1, <1>2, <1>5, LoopLeaves, LoopRowStep
<1>6. CASE /\ mem[Loop].op = "reprocess" /\ Goto(Loop, "remark") /\ mem' = [mem EXCEPT ![Loop] = m]
           /\ ~(active # {} /\ kind[Latest(active)] \in Reused("reprocess"))
    <2>1. ASSUME ~overran, NEW t \in Tasks, Live(t)
          PROVE  FALSE
        <3>1. status[t] \in ActiveStatuses
            BY <2>1 DEF IInv, TaskSound
        <3>2. t \in active
            BY <1>1, <2>1, <3>1, AdmitRows
        <3>3. active \in SUBSET Tasks /\ active # {}
            BY <3>2
        <3>4. PICK u \in active : u = Latest(active)
            <4> HIDE DEF active
            <4> QED
                BY <3>3, LatestKnown
        <3>5. u \in Tasks /\ status'[u] \in ActiveStatuses
            BY <3>4
        <3>6. HasRow(u)
            BY <1>1, <3>5, AdmitRows DEF HasRow, ActiveStatuses
        <3>7. kind[u] \in Kinds
            BY <3>5, <3>6 DEF IInv, TaskSound
        <3> QED
            BY <1>6, <3>3, <3>4, <3>7 DEF Reused
    <2>2. Fits("remark", m)
        BY <1>3, <1>4, <1>6 DEF Fits, Saves, Decisions
    <2> HIDE DEF m
    <2> QED
        BY <1>1, <1>2, <1>4, <1>6, <2>1, <2>2, LoopRowStep DEF Goto, LoopStages
<1>7. CASE /\ mem[Loop].op \notin {"reprocess", "poll"} /\ Goto(Loop, "create")
           /\ mem' = [mem EXCEPT ![Loop] = m]
    <2>1. Fits("create", m)
        BY <1>3, <1>4, <1>7 DEF Fits, Saves, Decisions
    <2> HIDE DEF m
    <2> QED
        BY <1>1, <1>2, <1>4, <1>7, <2>1, LoopRowStep DEF Goto, LoopStages
<1> QED
    BY <1>5, <1>6, <1>7 DEF Admit

LEMMA ThreadAdmit ==
    ASSUME IInv, NEW t \in Tasks, Admit(t)
    PROVE  IInv'
<1> DEFINE m == [mem[t] EXCEPT !.ids = {}]
<1>1. /\ at[t] = "admit" /\ UNCHANGED <<kind, results, overran>> /\ t \in Actors
      /\ Live(t) /\ TaskSound(t)
    BY ActorsAre DEF Admit, IInv, Live, ThreadStages
<1>2. RowsKept(t) /\ RowTypes' /\ (HasRow(t)' => HasRow(t)) /\ ResultTypes'
    BY <1>1, AdmitRows, ResultsKept
<1>3. ~overran' => status'[t] \in ActiveStatuses
    BY <1>1, AdmitRows DEF TaskSound
<1>4. mem[t].op = "followup" /\ mem[t].sched \in Schedules
    BY <1>1 DEF TaskSound, Deciding
<1>5. m \in Frames /\ m.op = mem[t].op /\ m.sched = mem[t].sched
    BY <1>1, FramesKnown, FrameWithIds
<1>6. chmap' = chmap /\ UNCHANGED <<lttb, damage, revived>>
    BY <1>1 DEF results
<1>7. CASE Leave(t, "completed")
    <2>1. at' = [at EXCEPT ![t] = "finish"] /\ mem' = [mem EXCEPT ![t] = EndFrame(t, "completed")]
        BY <1>7, EndFrameTyped DEF Leave, Goto
    <2>2. at'[Loop] = at[Loop] /\ mem'[Loop] = mem[Loop]
        BY <2>1, ActorsAre DEF IInv, TypeOK
    <2>3. DataSound'
        BY <1>1, <1>6, <2>2, DataKept
    <2>4. "finish" \in TaskStages \ {"unborn", "starting", "admit"} /\ "finish" \notin Deciding
        BY DEF TaskStages, ThreadStages, Deciding
    <2> QED
        BY <1>1, <1>2, <1>3, <1>6, <2>1, <2>3, <2>4, EndFrameTyped, ThreadStep
<1>8. CASE Goto(t, "create") /\ mem' = [mem EXCEPT ![t] = m]
    <2> HIDE DEF m
    <2>1. at' = [at EXCEPT ![t] = "create"]
        BY <1>8 DEF Goto
    <2>2. at'[Loop] = at[Loop] /\ mem'[Loop] = mem[Loop]
        BY <1>8, <2>1, ActorsAre DEF IInv, TypeOK
    <2>3. DataSound'
        BY <1>1, <1>6, <2>2, DataKept
    <2>4. "create" \in TaskStages \ {"unborn", "starting", "admit"}
        BY DEF TaskStages, ThreadStages
    <2> QED
        BY <1>1, <1>2, <1>3, <1>4, <1>5, <1>6, <1>8, <2>1, <2>3, <2>4, ThreadStep
<1> QED
    BY <1>4, <1>7, <1>8 DEF Admit

\* The frame a new worker gets.
ReprocessFrame(m) == [NoFrame EXCEPT !.op = "followup", !.map = m, !.todo = Events]
DamageFrame(s) == [NoFrame EXCEPT !.op = "damage", !.sched = s, !.todo = Scheduled[s]]

LEMMA WorkerFramesTyped ==
    /\ \A m \in SomeMap : /\ ReprocessFrame(m) \in Frames
                          /\ ReprocessFrame(m).op = "followup" /\ ReprocessFrame(m).map = m
    /\ \A s \in Schedules : DamageFrame(s) \in Frames /\ DamageFrame(s).op = "damage"
<1>1. ASSUME NEW m \in SomeMap
      PROVE  /\ ReprocessFrame(m) \in Frames
             /\ ReprocessFrame(m).op = "followup" /\ ReprocessFrame(m).map = m
    BY NoFrameTyped DEF ReprocessFrame, Frames, Ops
<1>2. ASSUME NEW s \in Schedules
      PROVE  DamageFrame(s) \in Frames /\ DamageFrame(s).op = "damage"
    <2>1. Scheduled[s] \in SUBSET Events /\ s \in SomeSchedule
        BY ScopeAssumption DEF SomeSchedule
    <2> QED
        BY <2>1, NoFrameTyped DEF DamageFrame, Frames, Ops
<1> QED
    BY <1>1, <1>2

\* What a start does, told apart by what is started.
LEMMA CreateStarts ==
    ASSUME IInv, NEW a \in Actors, Create(a)
    PROVE  \E t \in Unborn : \E k \in Kinds : \E f \in Frames :
              /\ status' = [status EXCEPT ![t] = "queued"]
              /\ kind' = [kind EXCEPT ![t] = k]
              /\ at' = [at EXCEPT ![t] = "starting", ![a] = EndStage(a)]
              /\ mem' = [mem EXCEPT ![t] = f, ![a] = EndFrame(a, "completed")]
              /\ f.op \in {"followup", "damage"}
              /\ k = "reprocess" /\ ~overran => f.map = chmap
<1>1. at[a] = "create"
    BY DEF Create
<1>2. CASE mem[a].op = "reprocess"
    <2>1. PICK t \in Unborn :
              /\ status' = [status EXCEPT ![t] = "queued"]
              /\ kind' = [kind EXCEPT ![t] = "reprocess"]
              /\ at' = [at EXCEPT ![t] = "starting", ![a] = EndStage(a)]
              /\ mem' = [mem EXCEPT ![t] = ReprocessFrame(mem[a].map),
                                   ![a] = EndFrame(a, "completed")]
        BY <1>2 DEF Create, ReprocessFrame
    <2>2. a = Loop
        BY <1>1, <1>2, ActorsAre DEF IInv, TaskSound, Deciding
    <2>3. mem[a].map \in SomeMap /\ (~overran => mem[a].map = chmap)
        BY <1>1, <1>2, <2>2 DEF IInv, LoopSound, Fits, SomeMap
    <2>4. PICK f \in Frames : f = ReprocessFrame(mem[a].map)
        BY <2>3, WorkerFramesTyped
    <2>5. f.op = "followup" /\ (~overran => f.map = chmap)
        BY <2>3, <2>4, WorkerFramesTyped
    <2> QED
        BY <2>1, <2>4, <2>5 DEF Kinds
<1>3. CASE mem[a].op # "reprocess"
    <2>1. PICK t \in Unborn :
              /\ status' = [status EXCEPT ![t] = "queued"]
              /\ kind' = [kind EXCEPT ![t] = "damage"]
              /\ at' = [at EXCEPT ![t] = "starting", ![a] = EndStage(a)]
              /\ mem' = [mem EXCEPT ![t] = DamageFrame(mem[a].sched),
                                   ![a] = EndFrame(a, "completed")]
        BY <1>3 DEF Create, DamageFrame
    <2>2. mem[a].sched \in Schedules
        BY <1>1, <1>3, ActorsAre DEF IInv, LoopSound, Fits, TaskSound, Deciding
    <2>3. PICK f \in Frames : f = DamageFrame(mem[a].sched)
        BY <2>2, WorkerFramesTyped
    <2>4. f.op = "damage"
        BY <2>2, <2>3, WorkerFramesTyped
    <2> QED
        BY <2>1, <2>3, <2>4 DEF Kinds
<1> QED
    BY <1>2, <1>3

LEMMA EndTyped ==
    ASSUME NEW a \in Actors
    PROVE  /\ EndFrame(a, "completed") \in Frames /\ EndFrame(a, "completed").op = "none"
           /\ IF a = Loop THEN EndStage(a) = "idle"
              ELSE EndStage(a) = "finish" /\ EndFrame(a, "completed").out = "completed"
    BY NoFrameTyped, EndFrameTyped, ActorsAre DEF EndFrame, EndStage

LEMMA CreateSound ==
    ASSUME IInv, NEW a \in Actors, Create(a)
    PROVE  IInv'
<1>1. PICK t \in Unborn : \E k \in Kinds : \E f \in Frames :
              /\ status' = [status EXCEPT ![t] = "queued"]
              /\ kind' = [kind EXCEPT ![t] = k]
              /\ at' = [at EXCEPT ![t] = "starting", ![a] = EndStage(a)]
              /\ mem' = [mem EXCEPT ![t] = f, ![a] = EndFrame(a, "completed")]
              /\ f.op \in {"followup", "damage"}
              /\ k = "reprocess" /\ ~overran => f.map = chmap
    BY CreateStarts
<1>2. PICK k \in Kinds, f \in Frames :
              /\ status' = [status EXCEPT ![t] = "queued"]
              /\ kind' = [kind EXCEPT ![t] = k]
              /\ at' = [at EXCEPT ![t] = "starting", ![a] = EndStage(a)]
              /\ mem' = [mem EXCEPT ![t] = f, ![a] = EndFrame(a, "completed")]
              /\ f.op \in {"followup", "damage"}
              /\ k = "reprocess" /\ ~overran => f.map = chmap
    BY <1>1
<1>3. /\ at[a] = "create" /\ UNCHANGED <<results, overran>>
      /\ UNCHANGED <<chmap, lttb, damage, revived>>
    BY DEF Create, results
<1>4. t \in Tasks /\ at[t] = "unborn" /\ t # a /\ t # Loop /\ t \in Actors
    BY <1>3, ActorsAre DEF Unborn
<1>5. PICK e \in Frames : /\ e = EndFrame(a, "completed") /\ e.op = "none"
                          /\ a # Loop => e.out = "completed"
    BY EndTyped
<1>6. PICK s \in StagesOf(a) : s = EndStage(a) /\ s = IF a = Loop THEN "idle" ELSE "finish"
    BY EndTyped, ActorsAre DEF StagesOf, LoopStages, TaskStages, ThreadStages
<1>7. /\ at'[t] = "starting" /\ mem'[t] = f /\ at'[a] = s /\ mem'[a] = e
      /\ \A b \in Actors \ {t, a} : at'[b] = at[b] /\ mem'[b] = mem[b]
    BY <1>2, <1>4, <1>5, <1>6 DEF IInv, TypeOK
<1>8. ActorTypes'
    <2>1. mem' \in [Actors -> Frames]
        BY <1>2, <1>4, <1>5 DEF IInv, TypeOK
    <2>2. at' \in [Actors -> LoopStages \cup TaskStages]
        BY <1>2, <1>4, <1>6 DEF IInv, TypeOK, StagesOf, TaskStages, ThreadStages
    <2>3. at'[Loop] \in LoopStages /\ \A u \in Tasks : at'[u] \in TaskStages
        BY <1>4, <1>6, <1>7, ActorsAre
        DEF IInv, TypeOK, StagesOf, TaskStages, ThreadStages
    <2> QED
        BY <2>1, <2>2, <2>3 DEF ActorTypes
<1>9. /\ status'[t] = "queued" /\ kind'[t] = k
      /\ \A u \in Tasks \ {t} : status'[u] = status[u] /\ kind'[u] = kind[u]
    BY <1>2, <1>4 DEF IInv, TypeOK
<1>10. RowTypes'
    BY <1>2, <1>3, <1>4 DEF IInv, TypeOK, RowTypes, TaskStatuses
<1>11. \A u \in Tasks : at[u] = "done" => at'[u] = "done"
    BY <1>3, <1>4, <1>7, ActorsAre
<1>12. TaskSound(t)'
    BY <1>2, <1>3, <1>4, <1>7, <1>9
    DEF TaskSound, Deciding, Live, ThreadStages, HasRow, ActiveStatuses, Kinds
<1>13. a # Loop => TaskSound(a)'
    BY <1>3, <1>4, <1>5, <1>6, <1>7, <1>9, ActorsAre
    DEF IInv, TaskSound, Deciding, Live, ThreadStages, HasRow
<1>14. ASSUME NEW u \in Tasks, u # t, u # a
       PROVE  TaskSound(u)'
    <2>1. /\ TaskSound(u) /\ at'[u] = at[u] /\ mem'[u] = mem[u]
          /\ status'[u] = status[u] /\ kind'[u] = kind[u]
        BY <1>7, <1>9, <1>14, ActorsAre DEF IInv
    <2>2. mem[u].ids \subseteq Tasks
        BY FramesKnown, ActorsAre DEF Frames
    <2> QED
        BY <1>3, <1>11, <2>1, <2>2 DEF TaskSound, Live, HasRow
<1>15. LoopSound'
    <2>1. CASE a = Loop
        BY <1>5, <1>6, <1>7, <2>1 DEF LoopSound, Fits, Starting, Saves, Decisions
    <2>2. CASE a # Loop
        <3>1. at'[Loop] = at[Loop] /\ mem'[Loop] = mem[Loop] /\ a \in Tasks /\ Live(a)
            BY <1>3, <1>4, <1>7, <2>2, ActorsAre DEF Live, ThreadStages
        <3>2. mem[Loop].ids \subseteq Tasks
            BY FramesKnown, ActorsAre DEF Frames
        <3> QED
            BY <1>3, <1>11, <3>1, <3>2 DEF IInv, LoopSound, Fits, Starting
    <2> QED
        BY <2>1, <2>2
<1>16. DataSound'
    BY <1>3, <1>4, <1>6, <1>7, ActorsAre, DataKept
<1>17. \A u \in Tasks : TaskSound(u)'
    BY <1>4, <1>12, <1>13, <1>14, ActorsAre
<1> QED
    BY <1>3, <1>8, <1>10, <1>15, <1>16, <1>17, ResultsKept, TypesJoin DEF IInv

-----------------------------------------------------------------------------
(* Workers.                                                                *)

LEMMA ThreadPrereq ==
    ASSUME IInv, NEW t \in Tasks, Prereq(t)
    PROVE  IInv'
<1>1. at[t] = "prereq" /\ UNCHANGED <<rows, results, overran>> /\ Live(t)
    BY DEF Prereq, Live, ThreadStages
<1>2. mem[t].op = "followup" /\ mem[t].sched \in Schedules
    BY <1>1 DEF IInv, TaskSound, Deciding
<1>3. CASE Leave(t, "completed")
    BY <1>1, <1>3, ThreadLeaves
<1>4. CASE Goto(t, "lookup") /\ UNCHANGED mem
    <2>1. mem[t] \in Frames /\ mem' = [mem EXCEPT ![t] = mem[t]]
        BY <1>4, FramesKnown, ActorsAre
    <2> QED
        BY <1>1, <1>2, <1>4, <2>1, ThreadGoes DEF Goto, TaskStages, ThreadStages
<1> QED
    BY <1>2, <1>3, <1>4 DEF Prereq

LEMMA ThreadAssess ==
    ASSUME IInv, NEW t \in Tasks, Assess(t)
    PROVE  IInv'
<1>1. at[t] = "assess" /\ UNCHANGED <<rows, results, overran>> /\ Live(t)
    BY DEF Assess, Live, ThreadStages
<1>2. mem[t].op = "followup" /\ mem[t].sched \in Schedules
    BY <1>1 DEF IInv, TaskSound, Deciding
<1>3. CASE Leave(t, "completed")
    BY <1>1, <1>3, ThreadLeaves
<1>4. CASE Goto(t, "prereq") /\ UNCHANGED mem
    <2>1. mem[t] \in Frames /\ mem' = [mem EXCEPT ![t] = mem[t]]
        BY <1>4, FramesKnown, ActorsAre
    <2> QED
        BY <1>1, <1>2, <1>4, <2>1, ThreadGoes DEF Goto, TaskStages, ThreadStages
<1> QED
    BY <1>3, <1>4 DEF Assess

LEMMA WorkerStartSound ==
    ASSUME IInv, NEW t \in Tasks, WorkerStart(t)
    PROVE  IInv'
<1>1. /\ at[t] = "starting" /\ status' = Updated({t}, "running")
      /\ UNCHANGED <<kind, results, overran>> /\ Live(t) /\ TaskSound(t) /\ t \in Actors
    BY ActorsAre DEF WorkerStart, Live, ThreadStages, IInv
<1>2. "running" \in TaskStatuses /\ "running" \in ActiveStatuses /\ {t} \in SUBSET Tasks
    BY DEF TaskStatuses, ActiveStatuses
<1>3. /\ RowsKept(t) /\ RowTypes' /\ (HasRow(t)' => HasRow(t)) /\ ResultTypes'
      /\ status[t] \in ActiveStatuses => status'[t] \in ActiveStatuses
    <2>1. /\ status' \in [Tasks -> TaskStatuses]
          /\ \A u \in Tasks : status[u] = "absent" => status'[u] = "absent"
          /\ \A u \in Tasks \ {t} : status'[u] = status[u]
          /\ \A u \in Tasks : status[u] \in ActiveStatuses => status'[u] \in ActiveStatuses
        BY <1>1, <1>2, UpdatedRows
    <2> QED
        BY <1>1, <2>1, ResultsKept DEF RowsKept, RowTypes, IInv, TypeOK, HasRow
<1>4. ~overran' => status'[t] \in ActiveStatuses
    BY <1>1, <1>3 DEF TaskSound
<1>5. chmap' = chmap /\ UNCHANGED <<lttb, damage, revived>>
    BY <1>1 DEF results
<1>6. PICK s \in {"finish", "read", "process"}, m \in Frames :
        /\ at' = [at EXCEPT ![t] = s] /\ mem' = [mem EXCEPT ![t] = m]
        /\ m.op \in {"none", "followup", "damage"}
        /\ s = "finish" => m.out \in {"completed", "failed"}
        /\ s = "process" => m = mem[t] /\ kind[t] # "damage"
    <2>1. CASE Leave(t, "failed")
        BY <2>1, EndFrameTyped DEF Leave, Goto
    <2>2. CASE Goto(t, IF kind[t] = "damage" THEN "read" ELSE "process") /\ UNCHANGED mem
        BY <1>1, <2>2, FramesKnown DEF Goto, TaskSound
    <2> QED
        BY <2>1, <2>2 DEF WorkerStart
<1>7. s = "process" /\ ~overran' => m.map = chmap
    <2>1. ~overran => kind[t] \in Kinds
        BY <1>1 DEF TaskSound, HasRow, ActiveStatuses
    <2> QED
        BY <1>1, <1>6, <2>1 DEF TaskSound, Kinds
<1>8. at'[Loop] = at[Loop] /\ mem'[Loop] = mem[Loop]
    BY <1>6, ActorsAre DEF IInv, TypeOK
<1>9. DataSound'
    BY <1>1, <1>5, <1>8, DataKept
<1>10. s \in TaskStages \ {"unborn", "starting", "admit"} /\ s \notin Deciding /\ s # "write"
    BY DEF TaskStages, ThreadStages, Deciding
<1> QED
    BY <1>1, <1>3, <1>4, <1>5, <1>6, <1>7, <1>9, <1>10, ThreadStep

LEMMA FinishSound ==
    ASSUME IInv, NEW t \in Tasks, Finish(t)
    PROVE  IInv'
<1>1. /\ at[t] = "finish" /\ status' = Updated({t}, mem[t].out)
      /\ at' = [at EXCEPT ![t] = "done"] /\ mem' = [mem EXCEPT ![t] = NoFrame]
      /\ UNCHANGED <<kind, results, overran>> /\ Live(t) /\ t \in Actors
    BY ActorsAre DEF Finish, Goto, Live, ThreadStages
<1>2. PICK o \in {"completed", "failed"} : o = mem[t].out
    BY <1>1 DEF IInv, TaskSound
<1>3. o \in TaskStatuses /\ {t} \in SUBSET Tasks
    BY DEF TaskStatuses
<1>4. RowsKept(t) /\ RowTypes' /\ (HasRow(t)' => HasRow(t)) /\ ResultTypes'
    <2>1. /\ status' \in [Tasks -> TaskStatuses]
          /\ \A u \in Tasks : status[u] = "absent" => status'[u] = "absent"
          /\ \A u \in Tasks \ {t} : status'[u] = status[u]
        BY <1>1, <1>2, <1>3, UpdatedRows
    <2> QED
        BY <1>1, <2>1, ResultsKept DEF RowsKept, RowTypes, IInv, TypeOK, HasRow
<1>5. chmap' = chmap /\ UNCHANGED <<lttb, damage, revived>>
    BY <1>1 DEF results
<1>6. at'[Loop] = at[Loop] /\ mem'[Loop] = mem[Loop]
    BY <1>1, ActorsAre DEF IInv, TypeOK
<1>7. DataSound'
    BY <1>1, <1>5, <1>6, DataKept
<1>8. "done" \in TaskStages \ {"unborn", "starting", "admit"}
    BY DEF TaskStages, ThreadStages
<1> QED
    BY <1>1, <1>4, <1>5, <1>7, <1>8, NoFrameTyped, ThreadStep DEF Deciding, ThreadStages

\* A reprocess writes the plots of one event with the map it was given.
LEMMA ProcessArtifactSound ==
    ASSUME IInv, NEW t \in Tasks, ProcessArtifact(t)
    PROVE  IInv'
<1>1. /\ at[t] = "process" /\ UNCHANGED <<rows, schedule, chmap, damage, revived, overran>>
      /\ Live(t) /\ TaskSound(t) /\ t \in Actors /\ mem[t] \in Frames
    BY FramesKnown, ActorsAre DEF ProcessArtifact, Live, ThreadStages, IInv
<1>2. PICK e \in mem[t].todo :
        /\ \/ lttb' = [lttb EXCEPT ![e] = [map |-> mem[t].map, status |-> "current"]]
           \/ UNCHANGED lttb
        /\ mem' = [mem EXCEPT ![t].todo = mem[t].todo \ {e}]
    BY DEF ProcessArtifact
<1>3. PICK s \in {"decide", "process"} : at' = [at EXCEPT ![t] = s]
    BY DEF ProcessArtifact, Goto
<1> DEFINE T == mem[t].todo \ {e}
           m == [mem[t] EXCEPT !.todo = T]
<1>4. e \in Events /\ T \in SUBSET Events /\ mem[t].map \in SomeMap
    BY <1>1, <1>2 DEF Frames
<1>5. m \in Frames /\ m.op = mem[t].op /\ m.map = mem[t].map
    <2> HIDE DEF T
    <2> QED
        BY <1>1, <1>4 DEF Frames
<1>6. mem' = [mem EXCEPT ![t] = m]
    BY <1>2
<1> HIDE DEF m
<1>7. RowsKept(t) /\ RowTypes'
    BY <1>1, NothingMoved
<1>8. at'[Loop] = at[Loop] /\ mem'[Loop] = mem[Loop]
    BY <1>3, <1>6, ActorsAre DEF IInv, TypeOK
<1>9. ~overran => mem[t].map = chmap
    BY <1>1 DEF TaskSound
<1>10. lttb' \in [Events -> [map : SomeMap, status : {"absent", "current", "stale"}]]
    BY <1>2, <1>4 DEF IInv, TypeOK
<1>11. \A x \in Events : lttb'[x] = lttb[x] \/ lttb'[x].map = mem[t].map
    BY <1>2, <1>4 DEF IInv, TypeOK
<1>12. \A x \in Pending : x \in Events
    BY ScopeAssumption
<1>13. ~overran => at[Loop] # "remap"
    BY <1>1 DEF IInv, LoopSound, Starting
<1>14. DataSound'
    BY <1>1, <1>8, <1>9, <1>11, <1>12, <1>13
    DEF IInv, DataSound, PlotsOfTheMap, BasesOfTheMap
<1>15. ResultTypes'
    BY <1>1, <1>10 DEF IInv, TypeOK, ResultTypes
<1>16. (HasRow(t)' => HasRow(t)) /\ (~overran' => status'[t] \in ActiveStatuses)
    BY <1>1 DEF TaskSound, HasRow, rows
<1>17. s \in TaskStages \ {"unborn", "starting", "admit"} /\ s \notin Deciding
    BY DEF TaskStages, ThreadStages, Deciding
<1>18. m.op \in {"none", "followup", "damage"} /\ (~overran' => m.map = chmap)
    BY <1>1, <1>5, <1>9 DEF TaskSound
<1> QED
    BY <1>1, <1>3, <1>5, <1>6, <1>7, <1>14, <1>15, <1>16, <1>17, <1>18, ThreadStep

LEMMA FollowUpSound ==
    ASSUME IInv, NEW t \in Tasks, FollowUp(t)
    PROVE  IInv'
<1>1. at[t] = "decide" /\ UNCHANGED <<rows, results, overran>> /\ Live(t)
    BY DEF FollowUp, Live, ThreadStages
<1>2. CASE Leave(t, "completed")
    BY <1>1, <1>2, ThreadLeaves
<1>3. CASE /\ schedule # NoSchedule /\ Goto(t, "assess")
           /\ mem' = [mem EXCEPT ![t] = [NoFrame EXCEPT !.op = "followup", !.sched = schedule]]
    <2> DEFINE m == [NoFrame EXCEPT !.op = "followup", !.sched = schedule]
    <2>1. schedule \in Schedules /\ schedule \in SomeSchedule
        BY <1>3 DEF IInv, TypeOK, SomeSchedule
    <2>2. m \in Frames /\ m.op = "followup" /\ m.sched \in Schedules
        BY <2>1, NoFrameTyped DEF Frames, Ops
    <2> HIDE DEF m
    <2> QED
        BY <1>1, <1>3, <2>2, ThreadGoes DEF Goto, TaskStages, ThreadStages, m
<1> QED
    BY <1>2, <1>3 DEF FollowUp

LEMMA FrameWithMap ==
    ASSUME NEW f \in Frames, NEW x \in SomeMap
    PROVE  LET m == [f EXCEPT !.map = x] IN m \in Frames /\ m.op = f.op /\ m.map = x
    BY DEF Frames

LEMMA ReadSeriesSound ==
    ASSUME IInv, NEW t \in Tasks, ReadSeries(t)
    PROVE  IInv'
<1>1. at[t] = "read" /\ UNCHANGED <<rows, results, overran>> /\ Live(t) /\ TaskSound(t)
    BY DEF ReadSeries, Live, ThreadStages, IInv
<1>2. CASE mem' = [mem EXCEPT ![t].map = chmap] /\ Goto(t, "write")
    <2> DEFINE m == [mem[t] EXCEPT !.map = chmap]
    <2>1. m \in Frames /\ m.op = mem[t].op /\ m.map = chmap
        BY FramesKnown, FrameWithMap, ActorsAre DEF IInv, TypeOK
    <2>2. mem' = [mem EXCEPT ![t] = m]
        BY <1>2
    <2>3. mem[t].op \in {"none", "followup", "damage"}
        BY <1>1 DEF TaskSound
    <2> HIDE DEF m
    <2> QED
        BY <1>1, <1>2, <2>1, <2>2, <2>3, ThreadGoes DEF Goto, TaskStages, ThreadStages, Deciding
<1>3. CASE Leave(t, "completed")
    BY <1>1, <1>3, ThreadLeaves
<1>4. CASE Leave(t, "failed")
    BY <1>1, <1>4, ThreadLeaves
<1> QED
    BY <1>2, <1>3, <1>4 DEF ReadSeries

\* A calculation writes the result of one event, made from the map it read.
LEMMA WriteDamageSound ==
    ASSUME IInv, NEW t \in Tasks, WriteDamage(t)
    PROVE  IInv'
<1>1. /\ at[t] = "write" /\ at' = [at EXCEPT ![t] = "read"]
      /\ UNCHANGED <<rows, schedule, chmap, lttb, overran>>
      /\ Live(t) /\ TaskSound(t) /\ t \in Actors /\ mem[t] \in Frames
    BY FramesKnown, ActorsAre DEF WriteDamage, Goto, Live, ThreadStages, IInv
<1>2. PICK e \in mem[t].todo, result \in {"current", "error", "unavailable"} :
        /\ damage' = [damage EXCEPT ![e] =
              [status |-> result, reason |-> "none", sched |-> mem[t].sched,
               map |-> IF result = "current" THEN mem[t].map ELSE NoMap]]
        /\ revived' = revived \ {e}
        /\ mem' = [mem EXCEPT ![t].todo = mem[t].todo \ {e}, ![t].map = NoMap]
    BY DEF WriteDamage
<1> DEFINE T == mem[t].todo \ {e}
           m == [mem[t] EXCEPT !.todo = T, !.map = NoMap]
           d == [status |-> result, reason |-> "none", sched |-> mem[t].sched,
                 map |-> IF result = "current" THEN mem[t].map ELSE NoMap]
<1>3. e \in Events /\ T \in SUBSET Events /\ mem[t].map \in SomeMap /\ NoMap \in SomeMap
      /\ mem[t].sched \in SomeSchedule
    BY <1>1, <1>2 DEF Frames, SomeMap
<1>4. m \in Frames /\ m.op = mem[t].op
    <2> HIDE DEF T
    <2> QED
        BY <1>1, <1>3 DEF Frames
<1>5. /\ d \in [status : {"none", "current", "stale", "error", "unavailable"},
                 reason : {"none", "schedule_changed", "channel_reprocess_required"},
                 sched : SomeSchedule, map : SomeMap]
      /\ d.status = "current" => d.map = mem[t].map
    BY <1>3
<1>6. mem' = [mem EXCEPT ![t] = m] /\ damage' = [damage EXCEPT ![e] = d]
    <2>1. mem[t] = [mem[t] EXCEPT !.todo = mem[t].todo] /\ mem' = [mem EXCEPT ![t] = m]
        BY <1>1, <1>2 DEF Frames, IInv, TypeOK
    <2> QED
        BY <1>2, <2>1
<1> HIDE DEF m, d
<1>7. RowsKept(t) /\ RowTypes'
    BY <1>1, NothingMoved
<1>8. at'[Loop] = at[Loop] /\ mem'[Loop] = mem[Loop]
    BY <1>1, <1>6, ActorsAre DEF IInv, TypeOK
<1>9. ~overran => mem[t].map = chmap
    BY <1>1 DEF TaskSound
<1>10. \A x \in Events : damage'[x] = IF x = e THEN d ELSE damage[x]
    BY <1>3, <1>6 DEF IInv, TypeOK
<1>11. ~overran => at[Loop] \notin {"activate", "remap"}
    BY <1>1 DEF IInv, LoopSound, Starting
<1>12. BasesOfTheMap'
    BY <1>1, <1>2, <1>5, <1>9, <1>10 DEF IInv, DataSound, BasesOfTheMap
<1>13. DataSound'
    BY <1>1, <1>8, <1>11, <1>12 DEF IInv, DataSound, PlotsOfTheMap
<1>14. ResultTypes'
    BY <1>1, <1>2, <1>3, <1>5, <1>6 DEF IInv, TypeOK, ResultTypes
<1>15. (HasRow(t)' => HasRow(t)) /\ (~overran' => status'[t] \in ActiveStatuses)
    BY <1>1 DEF TaskSound, HasRow, rows
<1>16. "read" \in TaskStages \ {"unborn", "starting", "admit"} /\ "read" \notin Deciding
    BY DEF TaskStages, ThreadStages, Deciding
<1>17. m.op \in {"none", "followup", "damage"}
    BY <1>1, <1>4 DEF TaskSound
<1> QED
    BY <1>1, <1>4, <1>6, <1>7, <1>13, <1>14, <1>15, <1>16, <1>17, ThreadStep

LEMMA RefusedSound ==
    ASSUME IInv, NEW t \in Tasks, Refused(t)
    PROVE  IInv'
<1>1. Live(t) /\ Leave(t, "failed") /\ UNCHANGED <<rows, results, overran>>
    BY DEF Refused, Live, ThreadStages
<1> QED
    BY <1>1, ThreadLeaves

\* No worker survives a restart, and no handler.
LEMMA RestartSound ==
    ASSUME IInv, Restart
    PROVE  IInv'
<1>1. /\ at' = [a \in Actors |-> IF a = Loop THEN "idle"
                                 ELSE IF Live(a) THEN "done" ELSE at[a]]
      /\ mem' = [a \in Actors |-> NoFrame]
      /\ status' = Updated({t \in Tasks : status[t] \in ActiveStatuses}, "failed")
      /\ UNCHANGED <<kind, results, overran>>
    BY DEF Restart
<1>2. {t \in Tasks : status[t] \in ActiveStatuses} \in SUBSET Tasks /\ "failed" \in TaskStatuses
    BY DEF TaskStatuses
<1>3. /\ status' \in [Tasks -> TaskStatuses]
      /\ \A t \in Tasks : status[t] = "absent" => status'[t] = "absent"
    BY <1>1, <1>2, UpdatedRows
<1>4. RowTypes'
    BY <1>1, <1>3 DEF RowTypes, IInv, TypeOK
<1>5. /\ at'[Loop] = "idle" /\ mem'[Loop] = NoFrame
      /\ \A t \in Tasks : at'[t] = (IF Live(t) THEN "done" ELSE at[t]) /\ mem'[t] = NoFrame
    BY <1>1, ActorsAre
<1>6. \A t \in Tasks : at'[t] \in {"done", "unborn"} /\ (at'[t] = "unborn" => at[t] = "unborn")
    BY <1>5 DEF IInv, TypeOK, TaskStages, Live
<1>7. ActorTypes'
    BY <1>1, <1>5, <1>6, NoFrameTyped, ActorsAre DEF ActorTypes, LoopStages, TaskStages
<1>8. LoopSound'
    BY <1>5, NoFrameTyped DEF LoopSound, Fits, Starting, Saves, Decisions
<1>9. \A t \in Tasks : TaskSound(t)'
    BY <1>1, <1>3, <1>5, <1>6, NoFrameTyped
    DEF IInv, TaskSound, Deciding, Live, ThreadStages, HasRow
<1>10. DataSound'
    BY <1>1, <1>5, DataKept DEF results
<1> QED
    BY <1>1, <1>4, <1>7, <1>8, <1>9, <1>10, ResultsKept, TypesJoin DEF IInv

-----------------------------------------------------------------------------
(* The theorems.                                                           *)

LEMMA InitSound == Init => IInv
<1> SUFFICES ASSUME Init PROVE IInv
    OBVIOUS
<1>1. NoDamage \in [status : {"none", "current", "stale", "error", "unavailable"},
                    reason : {"none", "schedule_changed", "channel_reprocess_required"},
                    sched : SomeSchedule, map : SomeMap]
      /\ NoDamage.status = "none"
    BY DEF NoDamage, SomeSchedule, SomeMap
<1>2. /\ at[Loop] = "idle" /\ mem[Loop] = NoFrame
      /\ \A t \in Tasks : at[t] = "unborn" /\ mem[t] = NoFrame /\ status[t] = "absent"
    BY ActorsAre DEF Init
<1>3. TypeOK
    <2>1. chmap \in SomeMap /\ schedule \in SomeSchedule /\ revived \subseteq Events
          /\ overran \in BOOLEAN
        BY DEF Init, SomeMap, SomeSchedule
    <2>2. lttb \in [Events -> [map : SomeMap, status : {"absent", "current", "stale"}]]
        BY <2>1 DEF Init
    <2>3. damage \in [Events ->
           [status : {"none", "current", "stale", "error", "unavailable"},
            reason : {"none", "schedule_changed", "channel_reprocess_required"},
            sched : SomeSchedule, map : SomeMap]]
        BY <1>1 DEF Init
    <2>4. status \in [Tasks -> TaskStatuses] /\ kind \in [Tasks -> Kinds \cup {"none"}]
        BY DEF Init, TaskStatuses
    <2>5. mem \in [Actors -> Frames]
        BY NoFrameTyped DEF Init
    <2>6. at \in [Actors -> LoopStages \cup TaskStages]
        BY DEF Init, LoopStages, TaskStages
    <2>7. at[Loop] \in LoopStages /\ \A t \in Tasks : at[t] \in TaskStages
        BY <1>2 DEF LoopStages, TaskStages
    <2> QED
        BY <2>1, <2>2, <2>3, <2>4, <2>5, <2>6, <2>7 DEF TypeOK
<1>4. LoopSound
    BY <1>2, NoFrameTyped DEF LoopSound, Fits, Starting, Saves, Decisions
<1>5. \A t \in Tasks : TaskSound(t)
    BY <1>2, NoFrameTyped DEF TaskSound, Deciding, Live, ThreadStages, HasRow
<1>6. PlotsOfTheMap /\ BasesOfTheMap
    BY <1>1, ScopeAssumption DEF Init, PlotsOfTheMap, BasesOfTheMap
<1>7. DataSound
    BY <1>2, <1>6 DEF DataSound
<1> QED
    BY <1>3, <1>4, <1>5, <1>7 DEF IInv

LEMMA HandlingSound ==
    ASSUME IInv, Handling
    PROVE  IInv'
    BY HydrateSound, MarkScheduleChangedSound, EligibleSound, ReadBasesSound, RescaleSound,
       ClearDamageSound, MarkReprocessRequiredSound, ActivateSnapshotSound,
       WriteChannelMapSound, CancelWriteSound, LoopPrereq, LoopAssess, LookupSound,
       LoopAdmit, CreateSound, ActorsAre
    DEF Handling

LEMMA WorkerSound ==
    ASSUME IInv, NEW t \in Tasks, Worker(t)
    PROVE  IInv'
    BY WorkerStartSound, ProcessArtifactSound, FollowUpSound, ReadSeriesSound,
       WriteDamageSound, FinishSound, RefusedSound, ThreadPrereq, ThreadAssess,
       LookupSound, ThreadAdmit, CreateSound, ActorsAre
    DEF Worker

LEMMA StutterSound ==
    ASSUME IInv, UNCHANGED vars
    PROVE  IInv'
<1>1. UNCHANGED <<rows, at, mem, schedule, chmap, lttb, damage, revived, overran>>
    BY DEF vars, results
<1>2. TypeOK'
    BY <1>1 DEF IInv, TypeOK, rows
<1>3. LoopSound'
    BY <1>1 DEF IInv, LoopSound, Fits, Starting, Live
<1>4. DataSound'
    BY <1>1 DEF IInv, DataSound, PlotsOfTheMap, BasesOfTheMap
<1>5. \A t \in Tasks : TaskSound(t)'
    BY <1>1 DEF IInv, TaskSound, Live, HasRow, rows
<1> QED
    BY <1>2, <1>3, <1>4, <1>5 DEF IInv

LEMMA NextSound == IInv /\ [Next]_vars => IInv'
    BY RequestsSound, HandlingSound, WorkerSound, RestartSound, StutterSound DEF Next

LEMMA Inductive == Spec => []IInv
    BY InitSound, NextSound, PTL DEF Spec

\* Every variable keeps its type.
THEOREM TypeCorrect == Spec => []TypeOK
<1>1. IInv => TypeOK
    BY DEF IInv
<1> QED
    BY <1>1, Inductive, PTL

\* Plots of Pending events that count as current are made from the channel map
\* in force, also in the middle of the start of a reprocess.
THEOREM PlotsOfTheMapHolds == Spec => []PlotsOfTheMap
<1>1. IInv => PlotsOfTheMap
    BY DEF IInv, DataSound
<1> QED
    BY <1>1, Inductive, PTL

\* Base damage that counts as current was computed from the channel map in
\* force, unless a rescale brought it back.
THEOREM BasesOfTheMapHolds == Spec => []BasesOfTheMap
<1>1. IInv => BasesOfTheMap
    BY DEF IInv, DataSound
<1> QED
    BY <1>1, Inductive, PTL

\* The channel map is rewritten only while no worker of the scope lives.
THEOREM MapChangesAloneHolds == Spec => MapChangesAlone
<1>1. ASSUME IInv, [Next]_vars, chmap' # chmap, ~overran
      PROVE  \A t \in Tasks : ~Live(t)
    <2>1. Next /\ ~(UNCHANGED chmap)
        BY <1>1 DEF vars, results
    <2>2. ~Requests
        BY <2>1 DEF Requests, Save, Attach, StartReprocess, Calculate, Backfill, Poll,
                    CancelRead, Begin
    <2>3. \A a \in Actors : ~(Prereq(a) \/ Assess(a) \/ Lookup(a) \/ Admit(a) \/ Create(a))
        BY <2>1 DEF Prereq, Assess, Lookup, Admit, Create, results
    <2>4. ~Restart /\ \A t \in Tasks : ~Worker(t)
        BY <2>1, <2>3, ActorsAre
        DEF Restart, Worker, WorkerStart, ProcessArtifact, FollowUp, ReadSeries,
            WriteDamage, Finish, Refused, results
    <2>5. WriteChannelMap
        BY <2>1, <2>2, <2>3, <2>4, ActorsAre
        DEF Next, Handling, Hydrate, MarkScheduleChanged, Eligible, ReadBases, Rescale,
            ClearDamage, MarkReprocessRequired, ActivateSnapshot, CancelWrite, results
    <2> QED
        BY <1>1, <2>5 DEF WriteChannelMap, IInv, LoopSound, Starting
<1>2. IInv /\ [Next]_vars => [chmap' # chmap /\ ~overran => \A t \in Tasks : ~Live(t)]_vars
    BY <1>1
<1> QED
    BY <1>2, Inductive, PTL DEF Spec, MapChangesAlone

-----------------------------------------------------------------------------
(* The refinement of DerivedData.                                          *)

\* The data of the events of S, with the maps f has for them.
Pairs(S, f) == {<<x, f[x].map>> : x \in S}

\* DerivedData!Made, of any data and any map.
Replaced(data, e, m) == {d \in data : d[1] # e} \cup {<<e, m>>}

\* One event's datum is replaced.
LEMMA OneMade ==
    ASSUME NEW S, NEW R, NEW f, NEW g, NEW e, NEW m, g[e].map = m,
           \A x : x \in R <=> x \in S \/ x = e,
           \A x \in S : x # e => g[x].map = f[x].map
    PROVE  Pairs(R, g) = Replaced(Pairs(S, f), e, m)
<1>1. ASSUME NEW d, d \in Pairs(R, g)
      PROVE  d \in Replaced(Pairs(S, f), e, m)
    <2>1. PICK x \in R : d = <<x, g[x].map>>
        BY <1>1 DEF Pairs
    <2>2. CASE x = e
        BY <2>1, <2>2 DEF Replaced
    <2>3. CASE x # e
        BY <2>1, <2>3 DEF Pairs, Replaced
    <2> QED
        BY <2>2, <2>3
<1>2. ASSUME NEW d, d \in Replaced(Pairs(S, f), e, m)
      PROVE  d \in Pairs(R, g)
    <2>1. CASE d = <<e, m>>
        BY <2>1 DEF Pairs
    <2>2. CASE d \in Pairs(S, f) /\ d[1] # e
        <3>1. PICK x \in S : d = <<x, f[x].map>>
            BY <2>2 DEF Pairs
        <3>2. x # e /\ d = <<x, g[x].map>>
            BY <2>2, <3>1
        <3> QED
            BY <3>2 DEF Pairs
    <2> QED
        BY <1>2, <2>1, <2>2 DEF Replaced
<1> QED
    BY <1>1, <1>2

\* Some data no longer counts, the rest is as it was.
LEMMA FewerPairs ==
    ASSUME NEW S, NEW R \in SUBSET S, NEW f, NEW g, \A x \in R : g[x].map = f[x].map
    PROVE  Pairs(R, g) \subseteq Pairs(S, f)
    BY DEF Pairs

PlotsNow == {x \in Pending : lttb[x].status = "current"}
BasesNow == {x \in Events \ revived : damage[x].status = "current"}

LEMMA PairsAre ==
    /\ CurrentPlots = Pairs(PlotsNow, lttb) /\ CurrentBases = Pairs(BasesNow, damage)
    /\ CurrentPlots' = Pairs(PlotsNow', lttb') /\ CurrentBases' = Pairs(BasesNow', damage')
    BY DEF CurrentPlots, CurrentBases, Pairs, PlotsNow, BasesNow

\* A step that leaves plots, map and damage alone is work, or takes a row from
\* a worker.
LEMMA QuietStep ==
    ASSUME UNCHANGED <<chmap, lttb, damage, revived>>, overran \in BOOLEAN,
           overran' \in BOOLEAN, overran => overran'
    PROVE  Data!Next
<1>1. CurrentPlots' = CurrentPlots /\ CurrentBases' = CurrentBases
    BY DEF CurrentPlots, CurrentBases
<1>2. CASE overran'
    BY <1>2 DEF Data!Next, Data!Escape
<1>3. CASE ~overran'
    BY <1>1, <1>3 DEF Data!Next, Data!Work
<1> QED
    BY <1>2, <1>3

\* The actor of a step that brings data is the event loop or a worker that
\* lives on.
LEMMA WorkersKept ==
    ASSUME IInv, NEW a \in Actors, NEW s, at' = [at EXCEPT ![a] = s],
           a # Loop => Live(a) /\ s \in ThreadStages
    PROVE  Workers' = Workers
<1>1. \A t \in Tasks : at'[t] = IF t = a THEN s ELSE at[t]
    BY ActorsAre DEF IInv, TypeOK
<1>2. \A t \in Tasks : Live(t)' <=> Live(t)
    BY <1>1, ActorsAre DEF Live
<1> QED
    BY <1>2 DEF Workers

LEMMA WithdrawStep ==
    ASSUME CurrentPlots' \subseteq CurrentPlots, CurrentBases' \subseteq CurrentBases,
           UNCHANGED <<chmap, overran>>, Workers' = Workers, overran \in BOOLEAN
    PROVE  Data!Next
    BY DEF Data!Next, Data!Withdraw, Data!Escape

LEMMA ComputeStep ==
    ASSUME NEW e \in Events, CurrentPlots' = CurrentPlots,
           BasesNow' = BasesNow \cup {e}, damage'[e].map = chmap,
           \A x \in BasesNow : x # e => damage'[x].map = damage[x].map,
           UNCHANGED <<chmap, overran>>, Workers' = Workers, overran \in BOOLEAN
    PROVE  Data!Next
<1> DEFINE S == BasesNow
           R == BasesNow'
           f == damage
           g == damage'
           m == chmap
<1>1. CurrentBases' = {d \in CurrentBases : d[1] # e} \cup {<<e, chmap>>}
    <2>1. /\ g[e].map = m
          /\ \A x : x \in R <=> x \in S \/ x = e
          /\ \A x \in S : x # e => g[x].map = f[x].map
        OBVIOUS
    <2>2. CurrentBases = Pairs(S, f) /\ CurrentBases' = Pairs(R, g)
        BY PairsAre
    <2> HIDE DEF S, R, f, g, m
    <2>3. Pairs(R, g) = Replaced(Pairs(S, f), e, m)
        BY <2>1, OneMade
    <2> QED
        BY <2>2, <2>3 DEF m, Replaced
<1>2. Data!Compute(e)
    BY <1>1 DEF Data!Compute, Data!Made
<1> QED
    BY <1>2 DEF Data!Next, Data!Escape

\* The plot of one event is made.
LEMMA PlotMade ==
    ASSUME NEW e, PlotsNow' = PlotsNow \cup {e}, lttb'[e].map = chmap,
           \A x \in PlotsNow : x # e => lttb'[x].map = lttb[x].map
    PROVE  CurrentPlots' = Replaced(CurrentPlots, e, chmap)
<1> DEFINE S == PlotsNow
           R == PlotsNow'
           f == lttb
           g == lttb'
           m == chmap
<1>1. /\ g[e].map = m
      /\ \A x : x \in R <=> x \in S \/ x = e
      /\ \A x \in S : x # e => g[x].map = f[x].map
    OBVIOUS
<1>2. CurrentPlots = Pairs(S, f) /\ CurrentPlots' = Pairs(R, g)
    BY PairsAre
<1> HIDE DEF S, R, f, g, m
<1>3. Pairs(R, g) = Replaced(Pairs(S, f), e, m)
    BY ONLY <1>1, OneMade
<1> QED
    BY <1>2, <1>3 DEF m

LEMMA PlotStep ==
    ASSUME NEW e \in Events, CurrentBases' = CurrentBases,
           PlotsNow' = PlotsNow \cup {e}, lttb'[e].map = chmap,
           \A x \in PlotsNow : x # e => lttb'[x].map = lttb[x].map,
           UNCHANGED <<chmap, overran>>, Workers' = Workers, Workers # {},
           overran \in BOOLEAN
    PROVE  Data!Next
<1>1. CurrentPlots' = {d \in CurrentPlots : d[1] # e} \cup {<<e, chmap>>}
    BY PlotMade DEF Replaced
<1>2. Data!Plot(e)
    BY <1>1 DEF Data!Plot, Data!Made
<1> QED
    BY <1>2 DEF Data!Next, Data!Escape

\* The loop marks or clears damage and drops out-of-date plots.
LEMMA LoopWithdraws ==
    ASSUME IInv, NEW s, Goto(Loop, s), UNCHANGED <<chmap, overran>>, revived' = revived \/ revived' = {},
           \A e \in Events : damage'[e].status = "current" =>
               damage'[e] = damage[e] /\ revived' = revived,
           \A e \in Pending : lttb'[e].status = "current" => lttb'[e] = lttb[e]
    PROVE  Data!Next
<1>1. Workers' = Workers
    BY WorkersKept, ActorsAre DEF Goto
<1>2. BasesNow' \in SUBSET BasesNow /\ \A x \in BasesNow' : damage'[x].map = damage[x].map
    BY DEF BasesNow
<1>3. PlotsNow' \in SUBSET PlotsNow /\ \A x \in PlotsNow' : lttb'[x].map = lttb[x].map
    BY DEF PlotsNow
<1>4. CurrentBases' \subseteq CurrentBases /\ CurrentPlots' \subseteq CurrentPlots
    BY <1>2, <1>3, PairsAre, FewerPairs
<1> QED
    BY <1>1, <1>4, WithdrawStep DEF IInv, TypeOK

LEMMA RescaleRefines ==
    ASSUME IInv, Rescale
    PROVE  Data!Next
<1>1. UNCHANGED <<chmap, lttb, overran>> /\ overran \in BOOLEAN /\ mem[Loop] \in Frames
    BY FramesKnown, ActorsAre DEF Rescale, IInv, TypeOK
<1>2. CASE UNCHANGED <<damage, revived>>
    BY <1>1, <1>2, QuietStep
<1>3. ASSUME NEW e \in mem[Loop].todo,
             damage' = [damage EXCEPT ![e] =
                 [status |-> "current", reason |-> "none",
                  sched |-> mem[Loop].sched, map |-> mem[Loop].bases[e]]],
             revived' = IF mem[Loop].bases[e] = chmap
                        THEN revived \ {e} ELSE revived \cup {e},
             UNCHANGED at
      PROVE  Data!Next
    <2> DEFINE b == mem[Loop].bases[e]
    <2>1. e \in Events
        BY <1>1, <1>3 DEF Frames
    <2>2. damage'[e].status = "current" /\ damage'[e].map = b
        BY <1>3, <2>1 DEF IInv, TypeOK
    <2>3. \A x \in Events : x # e => damage'[x] = damage[x]
        BY <1>3 DEF IInv, TypeOK
    <2>4. CurrentPlots' = CurrentPlots /\ Workers' = Workers
        BY <1>1, <1>3 DEF CurrentPlots, Workers, Live
    <2>5. CASE b = chmap
        <3>1. BasesNow' = BasesNow \cup {e}
            BY <1>3, <2>1, <2>2, <2>3, <2>5 DEF BasesNow
        <3>2. \A x \in BasesNow : x # e => damage'[x].map = damage[x].map
            BY <2>3 DEF BasesNow
        <3> QED
            BY <1>1, <2>1, <2>2, <2>4, <2>5, <3>1, <3>2, ComputeStep
    <2>6. CASE b # chmap
        <3>1. BasesNow' \in SUBSET BasesNow
            BY <1>3, <2>1, <2>3, <2>6 DEF BasesNow
        <3>2. \A x \in BasesNow' : damage'[x].map = damage[x].map
            BY <1>3, <2>3, <2>6 DEF BasesNow
        <3>3. CurrentBases' \subseteq CurrentBases
            BY <3>1, <3>2, PairsAre, FewerPairs
        <3> QED
            BY <1>1, <2>4, <3>3, WithdrawStep
    <2> QED
        BY <2>5, <2>6
<1> QED
    BY <1>2, <1>3 DEF Rescale

LEMMA WriteDamageRefines ==
    ASSUME IInv, NEW t \in Tasks, WriteDamage(t)
    PROVE  Data!Next
<1>1. /\ at[t] = "write" /\ at' = [at EXCEPT ![t] = "read"]
      /\ UNCHANGED <<chmap, lttb, overran>> /\ overran \in BOOLEAN
      /\ Live(t) /\ TaskSound(t) /\ t \in Actors /\ mem[t] \in Frames
    BY FramesKnown, ActorsAre DEF WriteDamage, Goto, Live, ThreadStages, IInv, TypeOK
<1>2. PICK e \in mem[t].todo, result \in {"current", "error", "unavailable"} :
        /\ damage' = [damage EXCEPT ![e] =
              [status |-> result, reason |-> "none", sched |-> mem[t].sched,
               map |-> IF result = "current" THEN mem[t].map ELSE NoMap]]
        /\ revived' = revived \ {e}
    BY DEF WriteDamage
<1>3. e \in Events
    BY <1>1, <1>2 DEF Frames
<1>4. damage'[e].status = result /\ (result = "current" => damage'[e].map = mem[t].map)
    BY <1>2, <1>3 DEF IInv, TypeOK
<1>5. \A x \in Events : x # e => damage'[x] = damage[x]
    BY <1>2 DEF IInv, TypeOK
<1>6. CurrentPlots' = CurrentPlots
    BY <1>1 DEF CurrentPlots
<1>7. Workers' = Workers
    BY <1>1, WorkersKept DEF ThreadStages
<1>8. CASE overran
    BY <1>1, <1>8 DEF Data!Next, Data!Escape
<1>9. CASE ~overran /\ result = "current"
    <2>1. damage'[e].map = chmap
        BY <1>1, <1>4, <1>9 DEF TaskSound
    <2>2. BasesNow' = BasesNow \cup {e}
        BY <1>2, <1>3, <1>4, <1>5, <1>9 DEF BasesNow
    <2>3. \A x \in BasesNow : x # e => damage'[x].map = damage[x].map
        BY <1>5 DEF BasesNow
    <2> QED
        BY <1>1, <1>3, <1>6, <1>7, <2>1, <2>2, <2>3, ComputeStep
<1>10. CASE result # "current"
    <2>1. BasesNow' \in SUBSET BasesNow
        BY <1>2, <1>4, <1>5, <1>10 DEF BasesNow
    <2>2. \A x \in BasesNow' : damage'[x].map = damage[x].map
        BY <1>4, <1>5, <1>10 DEF BasesNow
    <2>3. CurrentBases' \subseteq CurrentBases
        BY <2>1, <2>2, PairsAre, FewerPairs
    <2> QED
        BY <1>1, <1>6, <1>7, <2>3, WithdrawStep
<1> QED
    BY <1>8, <1>9, <1>10

LEMMA ProcessArtifactRefines ==
    ASSUME IInv, NEW t \in Tasks, ProcessArtifact(t)
    PROVE  Data!Next
<1>1. /\ at[t] = "process" /\ UNCHANGED <<chmap, damage, revived, overran>>
      /\ overran \in BOOLEAN
      /\ Live(t) /\ TaskSound(t) /\ t \in Actors /\ mem[t] \in Frames
    BY FramesKnown, ActorsAre DEF ProcessArtifact, Live, ThreadStages, IInv, TypeOK
<1>2. PICK e \in mem[t].todo :
        \/ lttb' = [lttb EXCEPT ![e] = [map |-> mem[t].map, status |-> "current"]]
        \/ UNCHANGED lttb
    BY DEF ProcessArtifact
<1>3. PICK s \in {"decide", "process"} : at' = [at EXCEPT ![t] = s]
    BY DEF ProcessArtifact, Goto
<1>4. Workers' = Workers /\ Workers # {}
    BY <1>1, <1>3, WorkersKept DEF ThreadStages, Workers
<1>5. CurrentBases' = CurrentBases
    BY <1>1 DEF CurrentBases
<1>6. CASE overran
    BY <1>1, <1>6 DEF Data!Next, Data!Escape
<1>7. CASE UNCHANGED lttb
    BY <1>1, <1>7, QuietStep
<1>8. CASE ~overran /\ lttb' = [lttb EXCEPT ![e] = [map |-> mem[t].map, status |-> "current"]]
    <2>1. e \in Events /\ mem[t].map = chmap
        BY <1>1, <1>8 DEF TaskSound, Frames
    <2>2. lttb'[e].status = "current" /\ lttb'[e].map = chmap
        BY <1>8, <2>1 DEF IInv, TypeOK
    <2>3. \A x \in Events : x # e => lttb'[x] = lttb[x]
        BY <1>8 DEF IInv, TypeOK
    <2>4. \A x \in Pending : x \in Events
        BY ScopeAssumption
    <2>5. CASE e \in Pending
        <3>1. PlotsNow' = PlotsNow \cup {e}
            BY <2>2, <2>3, <2>4, <2>5 DEF PlotsNow
        <3>2. \A x \in PlotsNow : x # e => lttb'[x].map = lttb[x].map
            BY <2>3, <2>4 DEF PlotsNow
        <3> QED
            BY <1>1, <1>4, <1>5, <2>1, <2>2, <3>1, <3>2, PlotStep
    <2>6. CASE e \notin Pending
        <3>1. PlotsNow' \in SUBSET PlotsNow
            BY <2>3, <2>4, <2>6 DEF PlotsNow
        <3>2. \A x \in PlotsNow' : lttb'[x].map = lttb[x].map
            BY <2>3, <2>4, <2>6 DEF PlotsNow
        <3>3. CurrentPlots' \subseteq CurrentPlots
            BY <3>1, <3>2, PairsAre, FewerPairs
        <3> QED
            BY <1>1, <1>4, <1>5, <3>3, WithdrawStep
    <2> QED
        BY <2>5, <2>6
<1> QED
    BY <1>1, <1>2, <1>6, <1>7, <1>8

\* The map is rewritten when no worker lives, no base counts as current and no
\* plot but those of the new map.
LEMMA WriteChannelMapRefines ==
    ASSUME IInv, WriteChannelMap
    PROVE  Data!Next
<1>1. /\ at[Loop] = "remap" /\ chmap' = mem[Loop].map /\ Goto(Loop, "create")
      /\ UNCHANGED <<lttb, damage, revived, overran>> /\ overran \in BOOLEAN
    BY DEF WriteChannelMap, IInv, TypeOK
<1>2. CurrentPlots' = CurrentPlots /\ CurrentBases' = CurrentBases
    BY <1>1 DEF CurrentPlots, CurrentBases
<1>3. Workers' = Workers
    BY <1>1, WorkersKept, ActorsAre DEF Goto
<1>4. CASE overran
    BY <1>1, <1>4 DEF Data!Next, Data!Escape
<1>5. CASE ~overran
    <2>1. Workers = {}
        BY <1>1, <1>5 DEF IInv, LoopSound, Starting, Workers
    <2>2. CurrentBases = {}
        BY <1>1, <1>5 DEF IInv, DataSound, CurrentBases
    <2>3. \A e \in PlotsNow : lttb[e].map = mem[Loop].map
        BY <1>1, <1>5 DEF IInv, DataSound, PlotsNow
    <2>4. Data!AllOf(CurrentPlots, mem[Loop].map)
        BY <2>3, PairsAre DEF Data!AllOf, Pairs
    <2>5. mem[Loop].map \in Maps
        BY <1>1 DEF IInv, LoopSound, Fits
    <2>6. Data!Remap(mem[Loop].map)
        BY <1>1, <1>2, <1>3, <2>1, <2>2, <2>4 DEF Data!Remap
    <2> QED
        BY <1>5, <2>5, <2>6 DEF Data!Next
<1> QED
    BY <1>1, <1>4, <1>5

\* The handlers that only take data back.
LEMMA MarksRefine ==
    ASSUME IInv, MarkScheduleChanged \/ MarkReprocessRequired \/ ClearDamage \/ ActivateSnapshot
    PROVE  Data!Next
<1>1. CASE MarkScheduleChanged
    <2>1. \A e \in Events : damage'[e].status # "current"
        BY <1>1, MarkedTyped DEF MarkScheduleChanged
    <2> QED
        BY <1>1, <2>1, LoopWithdraws DEF MarkScheduleChanged
<1>2. CASE MarkReprocessRequired
    <2>1. \A e \in Events : damage'[e].status # "current"
        BY <1>2, MarkedTyped DEF MarkReprocessRequired
    <2> QED
        BY <1>2, <2>1, LoopWithdraws DEF MarkReprocessRequired
<1>3. CASE ClearDamage
    <2>1. \/ damage' = damage /\ revived' = revived
          \/ revived' = {} /\ \A e \in Events : damage'[e].status # "current"
        BY <1>3 DEF ClearDamage, NoDamage
    <2> QED
        BY <1>3, <2>1, LoopWithdraws DEF ClearDamage
<1>4. CASE ActivateSnapshot
    <2> DEFINE Odd(e) == e \in Pending /\ lttb[e].status = "current"
                                       /\ lttb[e].map # mem[Loop].map
    <2>1. lttb' = [e \in Events |->
                     IF Odd(e) THEN [lttb[e] EXCEPT !.status = "stale"] ELSE lttb[e]]
        BY <1>4 DEF ActivateSnapshot
    <2>2. \A e \in Events : [lttb[e] EXCEPT !.status = "stale"].status = "stale"
        BY DEF IInv, TypeOK
    <2> HIDE DEF Odd
    <2>3. \A e \in Pending : lttb'[e].status = "current" => lttb'[e] = lttb[e]
        BY <2>1, <2>2, ScopeAssumption
    <2> QED
        BY <1>4, <2>3, LoopWithdraws DEF ActivateSnapshot
<1> QED
    BY <1>1, <1>2, <1>3, <1>4

\* Steps that touch no plot, no damage and no map.
LEMMA QuietActors ==
    ASSUME NEW a \in Actors, Prereq(a) \/ Assess(a) \/ Lookup(a) \/ Admit(a) \/ Create(a)
    PROVE  UNCHANGED <<chmap, lttb, damage, revived>> /\ (overran => overran')
<1>1. CASE Prereq(a) \/ Assess(a)
    BY <1>1 DEF Prereq, Assess, results
<1>2. CASE Lookup(a)
    <2>1. PICK gone \in SUBSET Overdue : \E stale \in SUBSET (Overdue \ gone) :
            overran' = (overran \/ \E t \in gone \cup stale : Live(t))
        BY <1>2 DEF Lookup
    <2> QED
        BY <1>2, <2>1 DEF Lookup, results
<1>3. CASE Admit(a)
    BY <1>3 DEF Admit, results
<1>4. CASE Create(a)
    BY <1>4 DEF Create, results
<1> QED
    BY <1>1, <1>2, <1>3, <1>4

LEMMA QuietLoop ==
    ASSUME Requests \/ Restart \/ Hydrate \/ Eligible \/ ReadBases \/ CancelWrite
    PROVE  UNCHANGED <<chmap, lttb, damage, revived>> /\ (overran => overran')
<1>1. CASE Requests
    <2>1. \A stage, frame : Begin(stage, frame) =>
              UNCHANGED <<chmap, lttb, damage, revived>> /\ UNCHANGED overran
        BY DEF Begin
    <2> QED
        BY <1>1, <2>1 DEF Requests, Save, Attach, StartReprocess, Calculate, Backfill, Poll,
                          CancelRead
<1>2. CASE Restart \/ Hydrate \/ Eligible \/ ReadBases \/ CancelWrite
    BY <1>2 DEF Restart, Hydrate, Eligible, ReadBases, CancelWrite, results
<1> QED
    BY <1>1, <1>2

LEMMA QuietWorker ==
    ASSUME NEW t \in Tasks,
           WorkerStart(t) \/ FollowUp(t) \/ ReadSeries(t) \/ Finish(t) \/ Refused(t)
    PROVE  UNCHANGED <<chmap, lttb, damage, revived>> /\ (overran => overran')
    BY DEF WorkerStart, FollowUp, ReadSeries, Finish, Refused, results

\* The handlers and workers, however their steps interleave, bring and withdraw
\* derived data as DerivedData says: what counts as current was made from the
\* map in force, and the map changes alone.
THEOREM DataImplemented == Spec => ImplementsData
<1>1. Init => Data!Init
    <2> SUFFICES ASSUME Init PROVE Data!Init
        OBVIOUS
    <2>1. \A e \in PlotsNow : lttb[e].map = chmap
        BY ScopeAssumption DEF Init, PlotsNow
    <2>2. Data!AllOf(CurrentPlots, chmap)
        BY <2>1, PairsAre DEF Data!AllOf, Pairs
    <2>3. CurrentBases = {}
        BY DEF Init, CurrentBases, NoDamage
    <2>4. Workers = {}
        BY ActorsAre DEF Init, Workers, Live, ThreadStages
    <2> QED
        BY <2>2, <2>3, <2>4 DEF Init, Data!Init
<1>2. IInv /\ [Next]_vars => [Data!Next]_(Data!vars)
    <2>1. ASSUME UNCHANGED vars
          PROVE  UNCHANGED Data!vars
        BY <2>1 DEF vars, results, Data!vars, CurrentPlots, CurrentBases, Workers, Live
    <2>2. ASSUME IInv, Next
          PROVE  Data!Next
        <3>1. overran \in BOOLEAN /\ overran' \in BOOLEAN
            BY <2>2, NextSound DEF IInv, TypeOK
        <3>2. CASE Requests \/ Restart
            BY <3>1, <3>2, QuietLoop, QuietStep
        <3>3. CASE Handling
            <4>1. CASE Rescale \/ WriteChannelMap \/ MarkScheduleChanged \/ ClearDamage
                       \/ MarkReprocessRequired \/ ActivateSnapshot
                BY <2>2, <4>1, RescaleRefines, WriteChannelMapRefines, MarksRefine
            <4>2. CASE Hydrate \/ Eligible \/ ReadBases \/ CancelWrite
                BY <3>1, <4>2, QuietLoop, QuietStep
            <4>3. CASE \/ Prereq(Loop) \/ Assess(Loop) \/ Lookup(Loop)
                       \/ Admit(Loop) \/ Create(Loop)
                BY <3>1, <4>3, QuietActors, QuietStep, ActorsAre
            <4> QED
                BY <3>3, <4>1, <4>2, <4>3 DEF Handling
        <3>4. ASSUME NEW t \in Tasks, Worker(t)
              PROVE  Data!Next
            <4>1. CASE ProcessArtifact(t) \/ WriteDamage(t)
                BY <2>2, <4>1, ProcessArtifactRefines, WriteDamageRefines
            <4>2. CASE WorkerStart(t) \/ FollowUp(t) \/ ReadSeries(t) \/ Finish(t) \/ Refused(t)
                BY <3>1, <4>2, QuietWorker, QuietStep
            <4>3. CASE Prereq(t) \/ Assess(t) \/ Lookup(t) \/ Admit(t) \/ Create(t)
                BY <3>1, <4>3, QuietActors, QuietStep, ActorsAre
            <4> QED
                BY <3>4, <4>1, <4>2, <4>3 DEF Worker
        <3> QED
            BY <2>2, <3>2, <3>3, <3>4 DEF Next
    <2> QED
        BY <2>1, <2>2
<1> QED
    BY <1>1, <1>2, Inductive, PTL DEF Spec, ImplementsData, Data!Spec

\* What DerivedData promises is enough, without the rest of the machine: in any
\* of its behaviours everything current is of the map in force.
THEOREM DataOfTheMap == Data!Spec => []Data!OfTheMap
<1>1. Data!Init => Data!OfTheMap
    BY DEF Data!Init, Data!OfTheMap, Data!AllOf
<1>2. Data!OfTheMap /\ [Data!Next]_(Data!vars) => Data!OfTheMap'
    <2>1. ASSUME Data!OfTheMap, UNCHANGED Data!vars
          PROVE  Data!OfTheMap'
        BY <2>1 DEF Data!OfTheMap, Data!AllOf, Data!vars
    <2>2. ASSUME Data!OfTheMap, Data!Next
          PROVE  Data!OfTheMap'
        <3>1. CASE Data!Escape
            BY <3>1 DEF Data!Escape, Data!OfTheMap
        <3>2. ASSUME ~overran, NEW e \in Events, Data!Plot(e) \/ Data!Compute(e)
              PROVE  Data!OfTheMap'
            BY <2>2, <3>2 DEF Data!Plot, Data!Compute, Data!Made, Data!OfTheMap, Data!AllOf
        <3>3. ASSUME ~overran, NEW m \in Maps, Data!Remap(m)
              PROVE  Data!OfTheMap'
            BY <2>2, <3>3 DEF Data!Remap, Data!OfTheMap, Data!AllOf
        <3>4. CASE ~overran /\ (Data!Withdraw \/ Data!Work)
            BY <2>2, <3>4 DEF Data!Withdraw, Data!Work, Data!OfTheMap, Data!AllOf
        <3> QED
            BY <2>2, <3>1, <3>2, <3>3, <3>4 DEF Data!Next
    <2> QED
        BY <2>1, <2>2
<1> QED
    BY <1>1, <1>2, PTL DEF Data!Spec

=============================================================================
