---------------------------- MODULE DerivedTasks ----------------------------
(***************************************************************************)
(* Derived data of one program/version: channel reprocess                  *)
(* (server/services/ingestion.py), damage calculation and what starts it   *)
(* (damage_calculation_task.py, post_upload_precompute.py), rescaling      *)
(* (schedule_damage_rescale.py), and the schedule and damage routes.       *)
(*                                                                         *)
(* The event loop runs one handler at a time; every task has a thread.     *)
(* Both make the same decisions by the same functions, so both are actors  *)
(* here: at[a] is the stage actor a is in, mem[a] what it has read so far. *)
(* A step ends at a database call.  An event has one damage channel.       *)
(***************************************************************************)
EXTENDS Naturals, FiniteSets

CONSTANTS
    MaxTasks,       \* bound: derived tasks started in a behaviour
    Events,         \* events of the scope; each has raw data and an artifact
    Pending,        \* events whose status is Pending
    Maps, NoMap,    \* channel maps
    Schedules,      \* contents of the active schedule
    NoSchedule,     \* no schedule is attached
    Draft,          \* a schedule just attached, without event rows
    Scheduled,      \* Scheduled[s]: the events s matches to a pattern
    Scaling,        \* Scaling[s]: repeats, weights and multiplier of s
    Blank,          \* schedules with a blank repeats or weight
    Overtime,       \* TRUE: a worker may outlive its heartbeat limit or TTL
    Restarts        \* TRUE: the server may stop and start

Loop == 0
Tasks == 1..MaxTasks
Actors == {Loop} \cup Tasks

ASSUME ScopeAssumption ==
    /\ MaxTasks \in Nat
    /\ Pending \subseteq Events /\ IsFiniteSet(Events)
    /\ NoMap \notin Maps
    /\ Draft \in Schedules /\ NoSchedule \notin Schedules
    /\ Scheduled \in [Schedules -> SUBSET Events] /\ Scheduled[Draft] = {}
    /\ Blank \subseteq {s \in Schedules : Scheduled[s] # {}}
    /\ {Overtime, Restarts} \subseteq BOOLEAN

VARIABLES
    status,     \* status[t]: column status of t's row in upload_tasks
    kind,       \* kind[t]: its task_kind
    at, mem,    \* where each actor stands, and what it holds
    schedule,   \* the active durability schedule
    chmap,      \* dim_channel_map
    lttb,       \* lttb[e]: cross-plot data of e, with the map it was made from
    damage,     \* damage[e]: e's row of event_channel_damage
    revived,    \* history: events rescaled on a base of another map
    overran     \* history: a row was taken from a worker that lived

rows == <<status, kind>>
results == <<schedule, chmap, lttb, damage, revived>>
vars == <<rows, at, mem, results, overran>>

ActiveIgnoringCancelling == {"queued", "running"}
ActiveStatuses == {"queued", "running", "cancelling"}
Kinds == {"reprocess", "damage"}

HasRow(t) == status[t] # "absent"

\* Threads between their start and their end, and those not started yet.
ThreadStages == {"starting", "process", "decide", "assess", "prereq", "lookup",
                 "admit", "create", "read", "write", "finish"}
Live(t) == at[t] \in ThreadStages
Unborn == {t \in Tasks : at[t] = "unborn"}
Reprocessing == {t \in Tasks : Live(t) /\ kind[t] = "reprocess"}

NoFrame == [op |-> "none", sched |-> NoSchedule, prev |-> NoSchedule,
            map |-> NoMap, todo |-> {}, bases |-> [e \in Events |-> NoMap],
            ids |-> {}, out |-> "none"]

NoDamage == [status |-> "none", reason |-> "none", sched |-> NoSchedule, map |-> NoMap]

Init ==
    /\ status = [t \in Tasks |-> "absent"]
    /\ kind = [t \in Tasks |-> "none"]
    /\ at = [a \in Actors |-> IF a = Loop THEN "idle" ELSE "unborn"]
    /\ mem = [a \in Actors |-> NoFrame]
    /\ schedule = NoSchedule
    /\ chmap \in Maps \cup {NoMap}
    /\ lttb = [e \in Events |-> [map |-> chmap, status |->
                                  IF chmap = NoMap THEN "absent" ELSE "current"]]
    /\ damage = [e \in Events |-> NoDamage]
    /\ revived = {}
    /\ overran = FALSE

Goto(a, stage) == at' = [at EXCEPT ![a] = stage]

\* What is left of actor a when it is through: a handler answers, a worker has
\* its row to finish.
EndStage(a) == IF a = Loop THEN "idle" ELSE "finish"
EndFrame(a, outcome) == IF a = Loop THEN NoFrame ELSE [NoFrame EXCEPT !.out = outcome]

LeaveWithoutOutcome(a, outcome) ==
    Goto(a, EndStage(a)) /\ mem' = [mem EXCEPT ![a] = NoFrame]

Leave(a, outcome) ==
    Goto(a, EndStage(a)) /\ mem' = [mem EXCEPT ![a] = EndFrame(a, outcome)]

Updated(ts, s) == [t \in Tasks |-> IF t \in ts /\ HasRow(t) THEN s ELSE status[t]]

-----------------------------------------------------------------------------
(* What the decisions read.                                                *)

\* mark_event_channel_damage_stale touches current rows only.
MarkedStale(reason) ==
    [e \in Events |-> IF damage[e].status = "current"
                      THEN [damage[e] EXCEPT !.status = "stale", !.reason = reason]
                      ELSE damage[e]]

\* check_damage_prerequisites
Prerequisites(s) ==
    Scheduled[s] # {} /\ \A e \in Scheduled[s] : lttb[e].status = "current"

\* assess_scope_damage_repair_state; without a channel map there is no channel
\* to look at.
Complete(s) == chmap = NoMap \/ \A e \in Scheduled[s] : damage[e].status = "current"
StaleOnly(s) ==
    LET found == {damage[e].status : e \in Scheduled[s]}
    IN  ~Complete(s) /\ "stale" \in found /\ found \cap {"current", "error"} = {}

\* is_schedule_scaling_only_change, for a schedule without blanks
SameMatching(p, s) == p # NoSchedule /\ Scheduled[p] = Scheduled[s]
ScalingOnly(p, s) == SameMatching(p, s) /\ Scaling[p] # Scaling[s]

\* Rows with a base damage, and those a rescale may start from
\* (assess_rescale_eligibility).
HasBase(e) == damage[e].status \in {"current", "stale"}
Rescalable(e) ==
    HasBase(e) /\ (damage[e].status = "stale" => damage[e].reason = "schedule_changed")

\* Only a stale row of a reprocess keeps damage from being cleared.
PreserveStale ==
    \E e \in Events : damage[e].status = "stale" /\ damage[e].reason = "channel_reprocess_required"

\* The kinds of active task a start is content with.
Reused(op) == IF op \in {"backfill", "followup"} THEN {"damage"} ELSE Kinds

Latest(ts) == CHOOSE t \in ts : \A u \in ts : u <= t

-----------------------------------------------------------------------------
(* Steps both kinds of actor take.                                         *)

\* The schedule was saved or given: is all derived data there to compute from?
Prereq(a) ==
    /\ at[a] = "prereq"
    /\ LET m == mem[a]
           save == m.op \in {"save", "attach"}
           unreadable == SameMatching(m.prev, m.sched) /\ {m.prev, m.sched} \cap Blank # {}
       IN  IF ~Prerequisites(m.sched) \/ (save /\ unreadable)    \* int(None) raises
           THEN Leave(a, "completed")
           ELSE /\ Goto(a, IF ~save THEN "lookup"
                           ELSE IF ScalingOnly(m.prev, m.sched) THEN "eligible"
                           ELSE "clear")
                /\ UNCHANGED mem
    /\ UNCHANGED <<rows, results, overran>>

\* Does the scope need a calculation?  (follow-up and backfill)
Assess(a) ==
    /\ at[a] = "assess"
    /\ IF Complete(mem[a].sched) \/ (mem[a].op = "backfill" /\ StaleOnly(mem[a].sched))
       THEN Leave(a, "completed")
       ELSE Goto(a, "prereq") /\ UNCHANGED mem
    /\ UNCHANGED <<rows, results, overran>>

OverdueUnlessCancelling ==
    {t \in Tasks : status[t] \in ActiveIgnoringCancelling /\ (Overtime \/ ~Live(t))}

\* Rows a lookup may find without a heartbeat, or past their TTL.
Overdue == {t \in Tasks : status[t] \in ActiveStatuses /\ (Overtime \/ ~Live(t))}

\* find_active_derived_data_task, first half: drop expired rows, select rows
\* whose heartbeat is too old.  A follow-up raises here when the event loop is
\* creating a database at that moment (Refused).
Lookup(a) ==
    /\ at[a] = "lookup"
    /\ \E gone \in SUBSET Overdue : \E stale \in SUBSET (Overdue \ gone) :
        /\ status' = Updated(gone, "absent")
        /\ overran' = (overran \/ \E t \in gone \cup stale : Live(t))
        /\ mem' = [mem EXCEPT ![a].ids = stale]
    /\ Goto(a, "admit")
    /\ UNCHANGED <<kind, results>>

Refused(t) ==
    /\ at[t] = "lookup" /\ at[Loop] = "idle"
    /\ Leave(t, "failed")
    /\ UNCHANGED <<rows, results, overran>>

\* Second half: fail them, and look for an active task to reuse.
Admit(a) ==
    /\ at[a] = "admit"
    /\ status' = Updated(mem[a].ids, "failed")
    /\ LET active == {t \in Tasks : status'[t] \in ActiveStatuses}
       IN  IF \/ mem[a].op = "poll"
              \/ active # {} /\ kind[Latest(active)] \in Reused(mem[a].op)
           THEN Leave(a, "completed")
           ELSE /\ Goto(a, IF mem[a].op = "reprocess" THEN "remark" ELSE "create")
                /\ mem' = [mem EXCEPT ![a].ids = {}]
    /\ UNCHANGED <<kind, results, overran>>

\* create_upload_task and the start of the thread.
Create(a) ==
    /\ at[a] = "create"
    /\ \E t \in Unborn :
        LET reprocess == mem[a].op = "reprocess"
            frame == IF reprocess
                     THEN [NoFrame EXCEPT !.op = "followup", !.map = mem[a].map,
                                          !.todo = Events]
                     ELSE [NoFrame EXCEPT !.op = "damage", !.sched = mem[a].sched,
                                          !.todo = Scheduled[mem[a].sched]]
        IN  /\ \A u \in Unborn : t <= u
            /\ status' = [status EXCEPT ![t] = "queued"]
            /\ kind' = [kind EXCEPT ![t] = IF reprocess THEN "reprocess" ELSE "damage"]
            /\ at' = [at EXCEPT ![t] = "starting", ![a] = EndStage(a)]
            /\ mem' = [mem EXCEPT ![t] = frame, ![a] = EndFrame(a, "completed")]
    /\ UNCHANGED <<results, overran>>

-----------------------------------------------------------------------------
(* Handlers on the event loop.                                             *)

\* Enough tasks are left for this start and the follow-ups under way (bound).
Room(n) == Cardinality(Unborn) >= n + Cardinality(Reprocessing)

Begin(stage, frame) ==
    /\ at[Loop] = "idle"
    /\ Goto(Loop, stage)
    /\ mem' = [mem EXCEPT ![Loop] = frame]
    /\ UNCHANGED <<rows, chmap, lttb, damage, revived, overran>>

\* PUT /program-version/schedule
Save(s) ==
    /\ schedule # NoSchedule /\ s # Draft /\ Room(1)
    /\ schedule' = s
    /\ Begin("mark", [NoFrame EXCEPT !.op = "save", !.sched = s, !.prev = schedule])

\* POST /program-version/schedule: the artifact becomes active ...
Attach(s) ==
    /\ s # Draft /\ Room(1)
    /\ schedule' = Draft
    /\ Begin("hydrate", [NoFrame EXCEPT !.op = "attach", !.sched = s])

\* ... and is given its event rows.
Hydrate ==
    /\ at[Loop] = "hydrate"
    /\ schedule' = mem[Loop].sched
    /\ Goto(Loop, "mark")
    /\ UNCHANGED <<rows, mem, chmap, lttb, damage, revived, overran>>

MarkScheduleChanged ==
    /\ at[Loop] = "mark"
    /\ damage' = MarkedStale("schedule_changed")
    /\ Goto(Loop, "prereq")
    /\ UNCHANGED <<rows, mem, schedule, chmap, lttb, revived, overran>>

\* assess_rescale_eligibility; with a map every scheduled event has a channel.
Eligible ==
    /\ at[Loop] = "eligible"
    /\ Goto(Loop, IF \A e \in Scheduled[mem[Loop].sched] : Rescalable(e)
                  THEN "bases" ELSE "clear")
    /\ UNCHANGED <<rows, mem, results, overran>>

\* rescale_schedule_damage reads all bases at once ...
ReadBases ==
    /\ at[Loop] = "bases"
    /\ mem' = [mem EXCEPT
                 ![Loop].todo = {e \in Scheduled[mem[Loop].sched] : HasBase(e)},
                 ![Loop].bases = [e \in Events |-> damage[e].map]]
    /\ Goto(Loop, "rescale")
    /\ UNCHANGED <<rows, results, overran>>

\* ... and writes row by row.
Rescale ==
    /\ at[Loop] = "rescale"
    /\ \/ mem[Loop].todo = {} /\ Leave(Loop, "completed") /\ UNCHANGED <<damage, revived>>
       \/ \E e \in mem[Loop].todo :
            LET base == mem[Loop].bases[e]
            IN  /\ damage' = [damage EXCEPT ![e] =
                        [status |-> "current", reason |-> "none",
                         sched |-> mem[Loop].sched, map |-> base]]
                /\ revived' = IF base = chmap THEN revived \ {e} ELSE revived \cup {e}
                /\ mem' = [mem EXCEPT ![Loop].todo = mem[Loop].todo \ {e}]
                /\ UNCHANGED at
    /\ UNCHANGED <<rows, schedule, chmap, lttb, overran>>

ClearDamage ==
    /\ at[Loop] = "clear"
    /\ damage' = IF PreserveStale THEN damage ELSE [e \in Events |-> NoDamage]
    /\ revived' = IF PreserveStale THEN revived ELSE {}
    /\ Goto(Loop, "lookup")
    /\ UNCHANGED <<rows, mem, schedule, chmap, lttb, overran>>

\* POST /damage/calculate and /damage/backfill
Calculate ==
    /\ schedule # NoSchedule /\ Room(1)
    /\ Begin("prereq", [NoFrame EXCEPT !.op = "calculate", !.sched = schedule])
    /\ UNCHANGED schedule

Backfill ==
    /\ schedule # NoSchedule /\ Room(1)
    /\ Begin("assess", [NoFrame EXCEPT !.op = "backfill", !.sched = schedule])
    /\ UNCHANGED schedule

\* Saving a channel map starts a reprocess ...
StartReprocess(m) ==
    /\ Room(2)
    /\ Begin("lookup", [NoFrame EXCEPT !.op = "reprocess", !.map = m])
    /\ UNCHANGED schedule

MarkPendingReprocessRequired ==
    /\ at[Loop] = "remark"
    /\ damage' = [e \in Events |-> IF e \in Pending
                                   THEN MarkedStale("channel_reprocess_required")[e]
                                   ELSE damage[e]]
    /\ Goto(Loop, "activate")
    /\ UNCHANGED <<rows, mem, schedule, chmap, lttb, revived, overran>>

MarkReprocessRequired ==
    /\ at[Loop] = "remark"
    /\ damage' = MarkedStale("channel_reprocess_required")
    /\ Goto(Loop, "activate")
    /\ UNCHANGED <<rows, mem, schedule, chmap, lttb, revived, overran>>

ActivateWithoutMarking ==
    /\ at[Loop] = "activate"
    /\ Goto(Loop, "remap")
    /\ UNCHANGED <<rows, mem, results, overran>>

\* ... the new snapshot is active: plots of Pending events made from another
\* one are stale ...
ActivateSnapshot ==
    /\ at[Loop] = "activate"
    /\ lttb' = [e \in Events |->
                  IF /\ e \in Pending /\ lttb[e].status = "current"
                     /\ lttb[e].map # mem[Loop].map
                  THEN [lttb[e] EXCEPT !.status = "stale"] ELSE lttb[e]]
    /\ Goto(Loop, "remap")
    /\ UNCHANGED <<rows, mem, schedule, chmap, damage, revived, overran>>

\* ... and dim_channel_map is rewritten.
WriteChannelMap ==
    /\ at[Loop] = "remap"
    /\ chmap' = mem[Loop].map
    /\ Goto(Loop, "create")
    /\ UNCHANGED <<rows, mem, schedule, lttb, damage, revived, overran>>

\* A poll of a derived task drops expired rows; polls of uploads, discovery and
\* the inspect view also fail stale ones.  Lookup allows each.
Poll ==
    /\ Begin("lookup", [NoFrame EXCEPT !.op = "poll"])
    /\ UNCHANGED schedule

\* POST .../cancel: the check and the write are two calls.
CancelRead(t) ==
    /\ status[t] \in ActiveIgnoringCancelling
    /\ Begin("cancel", [NoFrame EXCEPT !.op = "cancel", !.ids = {t}])
    /\ UNCHANGED schedule

CancelWrite ==
    /\ at[Loop] = "cancel"
    /\ status' = Updated(mem[Loop].ids, "cancelling")
    /\ Leave(Loop, "completed")
    /\ UNCHANGED <<kind, results, overran>>

Requests ==
    \/ \E s \in Schedules : Save(s) \/ Attach(s)
    \/ \E m \in Maps : StartReprocess(m)
    \/ Calculate \/ Backfill \/ Poll
    \/ \E t \in Tasks : CancelRead(t)

Handling ==
    \/ Hydrate \/ MarkScheduleChanged \/ Eligible \/ ReadBases \/ Rescale
    \/ ClearDamage \/ MarkReprocessRequired \/ ActivateSnapshot
    \/ WriteChannelMap \/ CancelWrite
    \/ Prereq(Loop) \/ Assess(Loop) \/ Lookup(Loop) \/ Admit(Loop) \/ Create(Loop)

-----------------------------------------------------------------------------
(* Worker threads.  Neither kind looks at its row's status.                *)

\* The first update; a damage worker then validates the schedule it was given.
WorkerStart(t) ==
    /\ at[t] = "starting"
    /\ status' = Updated({t}, "running")
    /\ IF kind[t] = "damage" /\ mem[t].sched \in Blank
       THEN Leave(t, "failed")
       ELSE Goto(t, IF kind[t] = "damage" THEN "read" ELSE "process") /\ UNCHANGED mem
    /\ UNCHANGED <<kind, results, overran>>

\* One artifact of a reprocess: its plots are rewritten, or it fails.
ProcessArtifact(t) ==
    /\ at[t] = "process"
    /\ \E e \in mem[t].todo :
        /\ \/ lttb' = [lttb EXCEPT ![e] = [map |-> mem[t].map, status |-> "current"]]
           \/ UNCHANGED lttb
        /\ mem' = [mem EXCEPT ![t].todo = mem[t].todo \ {e}]
    /\ Goto(t, IF mem'[t].todo = {} THEN "decide" ELSE "process")
    /\ UNCHANGED <<rows, schedule, chmap, damage, revived, overran>>

\* run_after_channel_reprocess_completion takes the schedule of this moment.
FollowUp(t) ==
    /\ at[t] = "decide"
    /\ IF schedule = NoSchedule
       THEN Leave(t, "completed")
       ELSE /\ Goto(t, "assess")
            /\ mem' = [mem EXCEPT ![t] =
                          [NoFrame EXCEPT !.op = "followup", !.sched = schedule]]
    /\ UNCHANGED <<rows, results, overran>>

\* Damage of one event: the series is read with the map of this moment ...
ReadSeries(t) ==
    /\ at[t] = "read"
    /\ \/ /\ mem[t].todo # {}
          /\ mem' = [mem EXCEPT ![t].map = chmap]
          /\ Goto(t, "write")
       \/ mem[t].todo = {} /\ Leave(t, "completed")
       \/ Leave(t, "failed")                       \* unexpected exception
    /\ UNCHANGED <<rows, results, overran>>

\* ... and the result written under the schedule the task was started with.
WriteDamage(t) ==
    /\ at[t] = "write"
    /\ \E e \in mem[t].todo, result \in {"current", "error", "unavailable"} :
        /\ damage' = [damage EXCEPT ![e] =
              [status |-> result, reason |-> "none", sched |-> mem[t].sched,
               map |-> IF result = "current" THEN mem[t].map ELSE NoMap]]
        /\ revived' = revived \ {e}
        /\ mem' = [mem EXCEPT ![t].todo = mem[t].todo \ {e}, ![t].map = NoMap]
    /\ Goto(t, "read")
    /\ UNCHANGED <<rows, schedule, chmap, lttb, overran>>

Finish(t) ==
    /\ at[t] = "finish"
    /\ status' = Updated({t}, mem[t].out)
    /\ Goto(t, "done")
    /\ mem' = [mem EXCEPT ![t] = NoFrame]
    /\ UNCHANGED <<kind, results, overran>>

Worker(t) ==
    \/ WorkerStart(t) \/ ProcessArtifact(t) \/ FollowUp(t) \/ ReadSeries(t)
    \/ WriteDamage(t) \/ Finish(t) \/ Refused(t)
    \/ Prereq(t) \/ Assess(t) \/ Lookup(t) \/ Admit(t) \/ Create(t)

\* The server stops and starts: no thread is left, active rows are failed.
Restart ==
    /\ Restarts
    /\ at' = [a \in Actors |-> IF a = Loop THEN "idle"
                               ELSE IF Live(a) THEN "done" ELSE at[a]]
    /\ mem' = [a \in Actors |-> NoFrame]
    /\ status' = Updated({t \in Tasks : status[t] \in ActiveStatuses}, "failed")
    /\ UNCHANGED <<kind, results, overran>>

Next == Requests \/ Handling \/ Restart \/ \E t \in Tasks : Worker(t)

Spec == Init /\ [][Next]_vars

\* Threads run, the loop finishes a handler, and a row without a worker is
\* found by one of the polls that keep coming.
FindsOverdue(t) == Lookup(Loop) /\ ~Live(t) /\ (t \in mem'[Loop].ids \/ status'[t] = "absent")

Fairness ==
    /\ \A t \in Tasks : WF_vars(Worker(t)) /\ SF_vars(FindsOverdue(t))
    /\ WF_vars(Handling) /\ SF_vars(Poll)

FairSpec == Spec /\ Fairness

-----------------------------------------------------------------------------
(* Properties.                                                             *)

TaskStatuses == {"absent", "queued", "running", "cancelling", "completed", "failed"}
LoopStages == {"idle", "hydrate", "mark", "prereq", "eligible", "bases", "rescale",
               "clear", "lookup", "admit", "create", "assess", "remark", "activate",
               "remap", "cancel"}
TaskStages == ThreadStages \cup {"unborn", "done"}
Ops == {"none", "save", "attach", "calculate", "backfill", "reprocess", "followup",
        "damage", "poll", "cancel"}
SomeMap == Maps \cup {NoMap}
SomeSchedule == Schedules \cup {NoSchedule}
Frames == [op : Ops, sched : SomeSchedule, prev : SomeSchedule, map : SomeMap,
           todo : SUBSET Events, bases : [Events -> SomeMap],
           ids : SUBSET Tasks, out : {"none", "completed", "failed"}]

\* Types of all variables.
TypeOK ==
    /\ status \in [Tasks -> TaskStatuses]
    /\ kind \in [Tasks -> Kinds \cup {"none"}]
    /\ at \in [Actors -> LoopStages \cup TaskStages]
    /\ at[Loop] \in LoopStages /\ \A t \in Tasks : at[t] \in TaskStages
    /\ mem \in [Actors -> Frames]
    /\ schedule \in SomeSchedule
    /\ chmap \in SomeMap
    /\ lttb \in [Events -> [map : SomeMap, status : {"absent", "current", "stale"}]]
    /\ damage \in [Events ->
           [status : {"none", "current", "stale", "error", "unavailable"},
            reason : {"none", "schedule_changed", "channel_reprocess_required"},
            sched : SomeSchedule, map : SomeMap]]
    /\ revived \subseteq Events
    /\ overran \in BOOLEAN

\* Unless a live worker's row was taken from it, dim_channel_map is never
\* rewritten under a worker: neither one that rewrites plots with the map it was
\* given, nor one that reads the map event by event to compute damage.  A
\* reprocess is not started beside any active task, cancelled or not
\* (_start_channel_reprocess_task).
MapChangesAlone == [][chmap' # chmap /\ ~overran => \A t \in Tasks : ~Live(t)]_vars

\* Plots of a Pending event that count as current were made from the channel
\* map in force, even within the start of a reprocess, between the new
\* snapshot and the rewrite of dim_channel_map (_persist_channel_map_only).
PlotsOfTheMap ==
    ~overran =>
        \A e \in Pending : lttb[e].status = "current" => lttb[e].map = chmap

\* Base damage that counts as current was computed from the channel map in
\* force, whatever starts, restarts and cancels came between; a rescale is the
\* only step that breaks it (see RescaleUsesFreshBases).
BasesOfTheMap ==
    ~overran => \A e \in Events \ revived :
        damage[e].status = "current" => damage[e].map = chmap

\* What counts as current, and the map it was made from.
CurrentPlots == {<<e, lttb[e].map>> : e \in {x \in Pending : lttb[x].status = "current"}}
CurrentBases ==
    {<<e, damage[e].map>> : e \in {x \in Events \ revived : damage[x].status = "current"}}
Workers == {t \in Tasks : Live(t)}

\* Plots and bases become current one by one, from the map in force, and the map
\* changes when nobody works and nothing of the old one counts any more, whatever
\* handler and worker come between each other's steps.
Data == INSTANCE DerivedData WITH
    map <- chmap, plots <- CurrentPlots, bases <- CurrentBases,
    workers <- Workers, excused <- overran
ImplementsData == Data!Spec

\* A derived task that is active comes to rest: its worker ends it, or a poll
\* finds that the worker is gone (reconcile_stale_upload_tasks).
TasksSettle ==
    \A t \in Tasks : status[t] \in ActiveStatuses ~> status[t] \notin ActiveStatuses

-----------------------------------------------------------------------------
(* What documents say, and the code does not do.                           *)

\* "Repeated completion events or repeated backfill calls reuse the active
\* damage_calculation task instead of creating duplicates."
OneDamageTask ==
    Cardinality({t \in Tasks : Live(t) /\ kind[t] = "damage"}) <= 1

\* "Saved schedule event rows remain the source of truth for event matching,
\* repeats, weight, and multiplier": once no task runs and no request is under
\* way, damage that counts as current was scaled by the active schedule.
CurrentIsAsScheduled ==
    at[Loop] = "idle" /\ (\A t \in Tasks : ~Live(t)) =>
        \A e \in Events : damage[e].status = "current" =>
            damage[e].sched = schedule

\* "The rescale-only path must not use stale or error base damage as if it
\* were current": no rescaled row rests on a base made from another map.
RescaleUsesFreshBases == revived = {}

=============================================================================
