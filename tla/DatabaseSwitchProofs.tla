----------------------- MODULE DatabaseSwitchProofs -----------------------
(***************************************************************************)
(* DatabaseSwitch for any number of databases, users and tasks: its types, *)
(* that no switch takes the database from under a worker the server counts *)
(* on, and that what a user asks for lands where the user was looking.     *)
(***************************************************************************)
EXTENDS DatabaseSwitch, TLAPS

-----------------------------------------------------------------------------
(* The inductive invariant.                                                *)

\* What holds of the record r of every task.  Its status says what is known
\* of it; under a switch no worker runs that the server counts on; a user no
\* switch has missed asks of the active database.
TaskSound(r) ==
    /\ r.status \in {"sent", "held"} => r.kind \in {"rows", "export"} /\ r.owner \in Users
    /\ r.status = "held" \/ r.alive => r.home \in Databases
    /\ r.alive => r.kind \in {"rows", "export"} /\ r.status \in {"running", "over"}
    /\ r.alive => r.late \/ r.status = "over" \/ (slot = Free /\ r.home = active)
    /\ r.status = "sent" => r.shown = active \/ r.owner \in lapsed
    /\ r.status = "held" => r.home = r.shown \/ r.owner \in lapsed

TasksSound == \A t \in Tasks : TaskSound(task[t])

\* Under a switch no other user is known to be there: heartbeats need the
\* loop, which the switch blocks.
OthersAway == slot # Free => \A v \in Users \ {slot.by} : ~Present(v)

\* A user no switch has missed sees the active database, or is reading it.
HeardSeeActive ==
    \A u \in Users \ lapsed :
        page[u].data \in {NoDb, active} /\ fetch[u] \in {NoDb, active}

IInv == TypeOK /\ TasksSound /\ OthersAway /\ HeardSeeActive

-----------------------------------------------------------------------------
(* Steps of one task: the record r it becomes is sound.                    *)

OneTask(t, r) ==
    r \in TaskType /\ TaskSound(r) /\ task' = [task EXCEPT ![t] = r]

\* The user asks from a page that shows the active database, or was missed.
LEMMA SendMakes ==
    ASSUME IInv, NEW u \in Users, NEW t \in Tasks, Send(u, t)
    PROVE  \E r : OneTask(t, r)
<1>1. PICK k \in {"rows", "export"} :
        task' = [task EXCEPT ![t] = [Unborn EXCEPT !.kind = k, !.status = "sent",
                                       !.shown = page[u].data, !.owner = u]]
    BY DEF Send
<1>2. page[u].data \in Databases \cup {NoDb} /\ page[u].data # NoDb
    BY DEF IInv, TypeOK, PageType, Send
<1>3. page[u].data = active \/ u \in lapsed
    BY <1>2 DEF IInv, HeardSeeActive
<1> DEFINE r == [Unborn EXCEPT !.kind = k, !.status = "sent",
                               !.shown = page[u].data, !.owner = u]
<1>4. /\ r \in TaskType
      /\ r.status = "sent" /\ ~r.alive /\ r.kind \in {"rows", "export"}
      /\ r.owner = u /\ r.shown = page[u].data
    BY <1>2 DEF Unborn, TaskType
<1>5. task' = [task EXCEPT ![t] = r]
    BY <1>1
<1> HIDE DEF r
<1>6. TaskSound(r)
    BY <1>3, <1>4 DEF TaskSound
<1> QED
    BY <1>4, <1>5, <1>6 DEF OneTask

\* What was asked of the active database gets it.
LEMMA TakeMakes ==
    ASSUME IInv, NEW t \in Tasks, Take(t)
    PROVE  \E r : OneTask(t, r)
<1> DEFINE r == [task[t] EXCEPT !.status = "held", !.home = active]
<1>1. task[t] \in TaskType /\ active \in Databases /\ task[t].status = "sent"
    BY DEF IInv, TypeOK, Take
<1>2. TaskSound(task[t])
    BY DEF IInv, TasksSound
<1>3. /\ r \in TaskType
      /\ r.status = "held" /\ r.home = active
      /\ r.alive = task[t].alive /\ r.kind = task[t].kind
      /\ r.owner = task[t].owner /\ r.shown = task[t].shown
    BY <1>1 DEF TaskType
<1>4. task' = [task EXCEPT ![t] = r]
    BY <1>1 DEF Take, IInv, TypeOK
<1> HIDE DEF r
<1>5. TaskSound(r)
    BY <1>1, <1>2, <1>3 DEF TaskSound
<1> QED
    BY <1>3, <1>4, <1>5 DEF OneTask

\* A worker begins late unless its store is still the active one.
LEMMA StartMakes ==
    ASSUME IInv, NEW t \in Tasks, Start(t)
    PROVE  \E r : OneTask(t, r)
<1> DEFINE r == Begun(task[t].kind, task[t].home, FALSE)
<1>1. task[t] \in TaskType /\ task[t].status = "held" /\ slot = Free
    BY DEF IInv, TypeOK, Start, LoopFree
<1>2. task[t].kind \in {"rows", "export"} /\ task[t].home \in Databases
    BY <1>1 DEF IInv, TasksSound, TaskSound
<1>3. /\ r \in TaskType
      /\ r.status = "running" /\ r.alive /\ r.kind \in {"rows", "export"}
      /\ r.home = task[t].home
      /\ r.home # active => r.late
    BY <1>2 DEF Begun, Unborn, TaskType
<1>4. task' = [task EXCEPT ![t] = r]
    BY DEF Start
<1> HIDE DEF r
<1>5. TaskSound(r)
    BY <1>1, <1>2, <1>3 DEF TaskSound
<1> QED
    BY <1>3, <1>4, <1>5 DEF OneTask

\* So does the calculation that follows a reprocess.
LEMMA FollowUpMakes ==
    ASSUME IInv, NEW t \in Tasks, NEW n \in Tasks, FollowUp(t, n)
    PROVE  \E r : OneTask(n, r)
<1> DEFINE r == Begun("rows", task[t].home, task[t].status = "over")
<1>1. task[t] \in TaskType /\ task[t].alive /\ slot = Free
    BY DEF IInv, TypeOK, FollowUp
<1>2. task[t].home \in Databases
    BY <1>1 DEF IInv, TasksSound, TaskSound
<1>3. /\ r \in TaskType
      /\ r.status = "running" /\ r.alive /\ r.kind \in {"rows", "export"}
      /\ r.home = task[t].home
      /\ r.home # active => r.late
    BY <1>2 DEF Begun, Unborn, TaskType
<1>4. task' = [task EXCEPT ![n] = r]
    BY DEF FollowUp
<1> HIDE DEF r
<1>5. TaskSound(r)
    BY <1>1, <1>2, <1>3 DEF TaskSound
<1> QED
    BY <1>3, <1>4, <1>5 DEF OneTask

\* Nothing is asked of a task that is over.
LEMMA WorkerEndsMakes ==
    ASSUME NEW t \in Tasks, WorkerEnds(t)
    PROVE  \E r : OneTask(t, r)
<1> DEFINE r == [Unborn EXCEPT !.status = "over"]
<1>1. r \in TaskType /\ r.status = "over" /\ ~r.alive
    BY DEF Unborn, TaskType
<1>2. task' = [task EXCEPT ![t] = r]
    BY DEF WorkerEnds
<1> HIDE DEF r
<1>3. TaskSound(r)
    BY <1>1 DEF TaskSound
<1> QED
    BY <1>1, <1>2, <1>3 DEF OneTask

\* Such a step keeps the invariant, as it changes nothing else.
LEMMA OneTaskStep ==
    ASSUME IInv, NEW t \in Tasks, NEW r, OneTask(t, r),
           UNCHANGED <<server, client, switches, lapsed>>
    PROVE  IInv'
<1>1. /\ UNCHANGED <<active, files, version, slot, presence>>
      /\ UNCHANGED <<page, fetch, polled, missed, switches, lapsed>>
    BY DEF server, client
<1>2. task' \in [Tasks -> TaskType]
    BY DEF IInv, TypeOK, OneTask
<1>3. TypeOK'
    BY <1>1, <1>2 DEF IInv, TypeOK
<1>4. ASSUME NEW s \in Tasks
      PROVE  TaskSound(task[s])'
    <2>1. TaskSound(task'[s])
        BY DEF IInv, TypeOK, TasksSound, OneTask
    <2> QED
        BY <1>1, <2>1 DEF TaskSound
<1>5. OthersAway' /\ HeardSeeActive'
    BY <1>1 DEF IInv, OthersAway, HeardSeeActive, Present
<1> QED
    BY <1>3, <1>4, <1>5 DEF IInv, TasksSound

-----------------------------------------------------------------------------
(* Steps that only fail rows and records.                                  *)

\* Ended changes the status of some tasks and nothing else.
LEMMA EndedTasks ==
    ASSUME task \in [Tasks -> TaskType], NEW S
    PROVE  /\ Ended(S) \in [Tasks -> TaskType]
           /\ \A t \in Tasks :
                /\ Ended(S)[t].status = IF t \in S THEN "over" ELSE task[t].status
                /\ Ended(S)[t].kind = task[t].kind /\ Ended(S)[t].alive = task[t].alive
                /\ Ended(S)[t].late = task[t].late /\ Ended(S)[t].home = task[t].home
                /\ Ended(S)[t].shown = task[t].shown /\ Ended(S)[t].owner = task[t].owner
<1>1. ASSUME NEW t \in Tasks
      PROVE  [task[t] EXCEPT !.status = "over"] \in TaskType
    BY DEF TaskType
<1>2. Ended(S) \in [Tasks -> TaskType]
    BY <1>1 DEF Ended
<1>3. ASSUME NEW t \in Tasks
      PROVE  Ended(S)[t] = IF t \in S THEN [task[t] EXCEPT !.status = "over"] ELSE task[t]
    BY DEF Ended
<1>4. ASSUME NEW t \in Tasks, t \in S
      PROVE  /\ Ended(S)[t].status = "over"
             /\ Ended(S)[t].kind = task[t].kind /\ Ended(S)[t].alive = task[t].alive
             /\ Ended(S)[t].late = task[t].late /\ Ended(S)[t].home = task[t].home
             /\ Ended(S)[t].shown = task[t].shown /\ Ended(S)[t].owner = task[t].owner
    BY <1>3, <1>4 DEF TaskType
<1> QED
    BY <1>2, <1>3, <1>4

\* So tasks remain sound.
LEMMA EndedSound ==
    ASSUME IInv, NEW S
    PROVE  /\ Ended(S) \in [Tasks -> TaskType]
           /\ \A t \in Tasks : TaskSound(Ended(S)[t])
<1>1. task \in [Tasks -> TaskType]
    BY DEF IInv, TypeOK
<1>2. ASSUME NEW t \in Tasks
      PROVE  TaskSound(Ended(S)[t])
    <2>1. TaskSound(task[t])
        BY DEF IInv, TasksSound
    <2> QED
        BY <1>1, <2>1, EndedTasks DEF TaskSound
<1> QED
    BY <1>1, <1>2, EndedTasks

\* A poll that finds a worker silent.
LEMMA FindSilentStep ==
    ASSUME IInv, NEW t \in Tasks, FindSilent(t)
    PROVE  IInv'
<1>1. /\ UNCHANGED <<active, files, version, slot, presence>>
      /\ UNCHANGED <<page, fetch, polled, missed, switches, lapsed>>
      /\ task' = Ended({t})
    BY DEF FindSilent, server, client
<1>2. TypeOK'
    BY <1>1, EndedSound DEF IInv, TypeOK
<1>3. ASSUME NEW s \in Tasks
      PROVE  TaskSound(task[s])'
    BY <1>1, EndedSound DEF TaskSound
<1>4. OthersAway' /\ HeardSeeActive'
    BY <1>1 DEF IInv, OthersAway, HeardSeeActive, Present
<1> QED
    BY <1>2, <1>3, <1>4 DEF IInv, TasksSound

\* A deletion leaves the active database alone, and comes under no switch.
LEMMA DeleteStep ==
    ASSUME IInv, NEW u \in Admins, NEW d \in Databases, Delete(u, d)
    PROVE  IInv'
<1>1. PICK silent \in SUBSET RowsOf(active) : task' = Ended(silent)
    BY DEF Delete
<1>2. /\ UNCHANGED <<active, version, slot, presence>>
      /\ UNCHANGED <<page, fetch, polled, missed, switches, lapsed>>
      /\ slot = Free /\ d # active /\ files' = files \ {d}
    BY DEF Delete, client, LoopFree
<1>3. TypeOK'
    BY <1>1, <1>2, EndedSound DEF IInv, TypeOK
<1>4. ASSUME NEW s \in Tasks
      PROVE  TaskSound(task[s])'
    BY <1>1, <1>2, EndedSound DEF TaskSound
<1>5. OthersAway' /\ HeardSeeActive'
    BY <1>2 DEF IInv, OthersAway, HeardSeeActive, Present
<1> QED
    BY <1>3, <1>4, <1>5 DEF IInv, TasksSound

\* What is admitted: no worker on the active database is counted on, and
\* nobody else is there.
LEMMA SwitchBeginsStep ==
    ASSUME IInv, NEW u \in Admins, NEW d \in Databases, SwitchBegins(u, d)
    PROVE  IInv'
<1>1. PICK silent \in SUBSET RowsOf(active) :
        Admitted(u, "switch", silent) /\ task' = Ended(silent)
    BY DEF SwitchBegins
<1>2. /\ UNCHANGED <<active, files, version, presence>>
      /\ UNCHANGED <<page, fetch, polled, missed, lapsed>>
      /\ slot' = [by |-> u, target |-> d] /\ d \in files
      /\ switches < MaxSwitches /\ switches' = switches + 1
    BY DEF SwitchBegins, client
<1>3. TypeOK'
    <2>1. switches' \in 0 .. MaxSwitches
        BY <1>2, SwitchAssumption DEF IInv, TypeOK
    <2>2. slot' \in [by: Admins, target: files'] \cup {Free}
        BY <1>2 DEF IInv, TypeOK
    <2> QED
        BY <1>1, <1>2, <2>1, <2>2, EndedSound DEF IInv, TypeOK
<1>4. ASSUME NEW s \in Tasks
      PROVE  TaskSound(task[s])'
    <2>1. task \in [Tasks -> TaskType] /\ TaskSound(task[s])
        BY DEF IInv, TypeOK, TasksSound
    <2>2. TaskSound(task'[s])
        BY <1>1, EndedSound
    <2>3. ASSUME task'[s].alive, ~task'[s].late, task'[s].status # "over"
          PROVE  FALSE
        <3>1. /\ task[s].alive /\ ~task[s].late /\ task[s].status # "over"
              /\ s \notin silent
            BY <1>1, <2>1, <2>3, EndedTasks
        <3>2. /\ task[s].kind \in {"rows", "export"}
              /\ task[s].status = "running" /\ task[s].home = active
            BY <2>1, <3>1 DEF TaskSound
        <3>3. CASE task[s].kind = "rows"
            BY <1>1, <3>1, <3>2, <3>3 DEF Admitted, RowsOf, Running
        <3>4. CASE task[s].kind = "export"
            BY <1>1, <3>2, <3>4 DEF Admitted, Running
        <3> QED
            BY <3>2, <3>3, <3>4
    <2> QED
        BY <1>2, <2>2, <2>3 DEF TaskSound
<1>5. OthersAway'
    BY <1>1, <1>2 DEF OthersAway, Admitted, NobodyElse, Present
<1>6. HeardSeeActive'
    BY <1>2 DEF IInv, HeardSeeActive
<1> QED
    BY <1>3, <1>4, <1>5, <1>6 DEF IInv, TasksSound

\* The stores are swapped under no worker the server counts on, and every
\* user the switch could not know of is lapsed.
LEMMA SwappedStep ==
    ASSUME IInv, slot # Free, Swapped, slot' = Free,
           UNCHANGED <<files, version, presence, switches>>
    PROVE  IInv'
<1>1. /\ task' = Ended(RowsOf(slot.target)) /\ active' = slot.target
      /\ polled' = {}
    BY DEF Swapped
<1>2. slot.by \in Admins /\ slot.target \in files /\ files \subseteq Databases
    BY DEF IInv, TypeOK
<1>3. lapsed' \subseteq Users /\ missed' \subseteq Users
    BY DEF IInv, TypeOK, Swapped, Unheard
<1>4. \/ /\ slot.by \in Users => slot.by \in lapsed'
         /\ page' = page /\ fetch' = fetch
      \/ /\ page' = [u \in Users |-> IF u = slot.by THEN NewPage ELSE page[u]]
         /\ fetch' = [u \in Users |-> IF u = slot.by THEN slot.target ELSE fetch[u]]
    BY DEF Swapped
<1>5. NewPage \in PageType /\ NewPage.data = NoDb
    BY DEF NewPage, PageType
<1>6. page' \in [Users -> PageType] /\ fetch' \in [Users -> Databases \cup {NoDb}]
    BY <1>2, <1>4, <1>5 DEF IInv, TypeOK
<1>7. TypeOK'
    BY <1>1, <1>2, <1>3, <1>6, EndedSound DEF IInv, TypeOK
<1>8. ASSUME NEW v \in Users \ lapsed'
      PROVE  v = slot.by /\ ~Asking(v) /\ v \notin lapsed
    <2>1. lapsed \cup Unheard(slot.by) \subseteq lapsed'
        BY DEF Swapped
    <2>2. v # slot.by => ~Present(v)
        BY DEF IInv, OthersAway
    <2> QED
        BY <2>1, <2>2 DEF Unheard
<1>9. ASSUME NEW s \in Tasks
      PROVE  TaskSound(task[s])'
    <2>1. task \in [Tasks -> TaskType] /\ TaskSound(task[s])
        BY DEF IInv, TypeOK, TasksSound
    <2>2. TaskSound(task'[s])
        BY <1>1, EndedSound
    <2>3. task'[s].status \in {"sent", "held"} => task'[s].owner \in lapsed'
        <3>1. SUFFICES ASSUME task'[s].status \in {"sent", "held"},
                              task'[s].owner \notin lapsed'
                       PROVE  FALSE
            OBVIOUS
        <3>2. task[s].status \in {"sent", "held"} /\ task'[s].owner = task[s].owner
            BY <1>1, <2>1, <3>1, EndedTasks
        <3>3. task[s].owner \in Users \ lapsed'
            BY <2>1, <3>1, <3>2 DEF TaskSound
        <3>4. ~Asking(task[s].owner)
            BY <1>8, <3>3
        <3> QED
            BY <3>2, <3>4 DEF Asking
    <2> QED
        BY <2>2, <2>3 DEF TaskSound
<1>10. HeardSeeActive'
    <2>1. SUFFICES ASSUME NEW v \in Users \ lapsed'
                   PROVE  page'[v].data \in {NoDb, active'} /\ fetch'[v] \in {NoDb, active'}
        BY DEF HeardSeeActive
    <2>2. v = slot.by
        BY <1>8
    <2> QED
        BY <1>1, <1>4, <1>5, <2>2
<1> QED
    BY <1>7, <1>9, <1>10 DEF IInv, TasksSound, OthersAway

LEMMA SwitchEndsStep ==
    ASSUME IInv, SwitchEnds
    PROVE  IInv'
<1>1. slot # Free /\ slot' = Free /\ UNCHANGED <<files, version, presence, switches>>
    BY DEF SwitchEnds, LoopFree
<1>2. CASE Swapped
    BY <1>1, <1>2, SwappedStep
<1>3. CASE UNCHANGED <<active, task, client, lapsed>>
    <2>1. UNCHANGED <<page, fetch, polled, missed, active, task, lapsed>>
        BY <1>3 DEF client
    <2>2. TypeOK' /\ HeardSeeActive' /\ OthersAway'
        BY <1>1, <2>1 DEF IInv, TypeOK, HeardSeeActive, OthersAway
    <2>3. TasksSound'
        BY <1>1, <2>1 DEF IInv, TasksSound, TaskSound
    <2> QED
        BY <2>2, <2>3 DEF IInv
<1> QED
    BY <1>2, <1>3 DEF SwitchEnds

\* A restart leaves no worker and no request, and misses every user.
LEMMA RestartStep ==
    ASSUME IInv, Restart
    PROVE  IInv'
<1> DEFINE r == [Unborn EXCEPT !.status = "over"]
<1>1. /\ r \in TaskType /\ ~r.alive /\ r.status = "over"
      /\ Unborn \in TaskType /\ ~Unborn.alive /\ Unborn.status = "none"
    BY DEF Unborn, TaskType
<1>2. task' = [t \in Tasks |-> IF task[t] = Unborn THEN Unborn ELSE r]
    BY DEF Restart
<1> HIDE DEF r
<1>3. task' \in [Tasks -> TaskType]
    BY <1>1, <1>2
<1>4. TasksSound'
    BY <1>1, <1>2 DEF TasksSound, TaskSound
<1>5. /\ active' = Configured /\ files' = files \cup {Configured}
      /\ slot' = Free /\ lapsed' = Users /\ polled' = {} /\ page' = page
      /\ missed' = missed \cup {u \in Users : fetch[u] # NoDb}
      /\ presence' = [u \in Users |-> NoDb] /\ fetch' = [u \in Users |-> NoDb]
    BY DEF Restart
<1>6. version' \in [Databases -> 0 .. MaxVersion \cup {Unseen}]
    BY SwitchAssumption DEF IInv, TypeOK, Restart
<1>7. switches' \in 0 .. MaxSwitches
    BY SwitchAssumption DEF IInv, TypeOK, Restart
<1>8. TypeOK'
    BY <1>3, <1>5, <1>6, <1>7, SwitchAssumption DEF IInv, TypeOK
<1> QED
    BY <1>4, <1>5, <1>8 DEF IInv, OthersAway, HeardSeeActive

\* Steps that leave tasks, switches and the active database alone.
LEMMA QuietStep ==
    ASSUME IInv, TypeOK', OthersAway', HeardSeeActive',
           UNCHANGED <<active, slot, task, lapsed>>
    PROVE  IInv'
BY DEF IInv, TasksSound, TaskSound

\* A write raises a version within its bound, or makes a file.
LEMMA WrittenStep ==
    ASSUME IInv, NEW d \in Databases, Written(d),
           UNCHANGED <<active, slot, task, presence, client, switches, lapsed>>
    PROVE  IInv'
<1>1. UNCHANGED <<page, fetch, polled, missed>>
    BY DEF client
<1>2. version' \in [Databases -> 0 .. MaxVersion \cup {Unseen}]
    <2>1. version[d] \in 0 .. MaxVersion \cup {Unseen}
        BY DEF IInv, TypeOK
    <2>2. (IF d \in files THEN version[d] + 1 ELSE 0) \in 0 .. MaxVersion \cup {Unseen}
        BY <2>1, SwitchAssumption DEF Written, Unseen
    <2> QED
        BY <2>2 DEF IInv, TypeOK, Written
<1>3. files' = files \cup {d}
    BY DEF Written
<1>4. TypeOK'
    BY <1>1, <1>2, <1>3 DEF IInv, TypeOK
<1>5. OthersAway' /\ HeardSeeActive'
    BY <1>1 DEF IInv, OthersAway, HeardSeeActive, Present
<1> QED
    BY <1>4, <1>5, QuietStep

LEMMA CreateStep ==
    ASSUME IInv, NEW d \in Databases, Create(d)
    PROVE  IInv'
<1>1. /\ UNCHANGED <<active, slot, task, presence, page, fetch, polled, missed, switches, lapsed>>
      /\ files' = files \cup {d} /\ version' = [version EXCEPT ![d] = 0]
    BY DEF Create, client
<1>2. TypeOK'
    BY <1>1, SwitchAssumption DEF IInv, TypeOK
<1>3. OthersAway' /\ HeardSeeActive'
    BY <1>1 DEF IInv, OthersAway, HeardSeeActive, Present
<1> QED
    BY <1>1, <1>2, <1>3, QuietStep

-----------------------------------------------------------------------------
(* Pages.                                                                  *)

\* A page that reloads is missed no longer, unless it has a request under way.
LEMMA ReloadStep ==
    ASSUME IInv, NEW u \in Users, Reload(u)
    PROVE  IInv'
<1>1. /\ UNCHANGED <<active, files, version, slot, presence, task, switches>>
      /\ page' = [page EXCEPT ![u] = NewPage] /\ fetch' = [fetch EXCEPT ![u] = active]
      /\ missed' = missed \ {u} /\ polled' = polled \ {u}
      /\ lapsed' = IF Asking(u) THEN lapsed ELSE lapsed \ {u}
    BY DEF Reload, server
<1>2. NewPage \in PageType /\ NewPage.data = NoDb
    BY DEF NewPage, PageType
<1>3. TypeOK'
    BY <1>1, <1>2 DEF IInv, TypeOK
<1>4. OthersAway'
    BY <1>1 DEF IInv, OthersAway, Present
<1>5. HeardSeeActive'
    BY <1>1, <1>2 DEF IInv, TypeOK, HeardSeeActive
<1>6. ASSUME NEW s \in Tasks
      PROVE  TaskSound(task[s])'
    <2>1. TaskSound(task[s])
        BY DEF IInv, TasksSound
    <2>2. task[s].status \in {"sent", "held"} /\ task[s].owner \in lapsed
              => task[s].owner \in lapsed'
        BY <1>1 DEF Asking
    <2> QED
        BY <1>1, <2>1, <2>2 DEF TaskSound
<1> QED
    BY <1>3, <1>4, <1>5, <1>6 DEF IInv, TasksSound

LEMMA HeartbeatStep ==
    ASSUME IInv, NEW u \in Users, Heartbeat(u)
    PROVE  IInv'
<1>1. /\ UNCHANGED <<active, files, version, slot, task>>
      /\ UNCHANGED <<page, fetch, polled, missed, switches, lapsed>>
      /\ slot = Free /\ presence' = [presence EXCEPT ![u] = active]
    BY DEF Heartbeat, client, LoopFree
<1>2. TypeOK'
    BY <1>1 DEF IInv, TypeOK
<1>3. OthersAway' /\ HeardSeeActive'
    BY <1>1 DEF IInv, OthersAway, HeardSeeActive
<1> QED
    BY <1>1, <1>2, <1>3, QuietStep

LEMMA ExpireStep ==
    ASSUME IInv, NEW u \in Users, Expire(u)
    PROVE  IInv'
<1>1. /\ UNCHANGED <<active, files, version, slot, task>>
      /\ UNCHANGED <<page, fetch, polled, missed, switches, lapsed>>
      /\ presence' = [presence EXCEPT ![u] = NoDb]
    BY DEF Expire, client
<1>2. TypeOK'
    BY <1>1 DEF IInv, TypeOK
<1>3. active # NoDb
    BY SwitchAssumption DEF IInv, TypeOK
<1>4. OthersAway'
    BY <1>1, <1>3 DEF IInv, TypeOK, OthersAway, Present
<1>5. HeardSeeActive'
    BY <1>1 DEF IInv, HeardSeeActive
<1> QED
    BY <1>1, <1>2, <1>4, <1>5, QuietStep

\* What a page reads is read from the active database.
LEMMA SyncStep ==
    ASSUME IInv, NEW u \in Users, Sync(u)
    PROVE  IInv'
<1>1. /\ UNCHANGED <<active, files, version, slot, presence, task, switches, lapsed>>
      /\ page' = [page EXCEPT ![u].seen = version[active]]
      /\ polled' = polled \cup {u}
      /\ fetch' = fetch \/ fetch' = [fetch EXCEPT ![u] = active]
    BY DEF Sync, server
<1>2. missed' \subseteq Users
    BY DEF Sync, IInv, TypeOK
<1>3. version[active] \in 0 .. MaxVersion \cup {Unseen}
    BY DEF IInv, TypeOK
<1>4. /\ page' \in [Users -> PageType]
      /\ \A v \in Users : page'[v].data = page[v].data
    BY <1>1, <1>3 DEF IInv, TypeOK, PageType
<1>5. TypeOK'
    BY <1>1, <1>2, <1>4 DEF IInv, TypeOK
<1>6. OthersAway'
    BY <1>1 DEF IInv, OthersAway, Present
<1>7. HeardSeeActive'
    BY <1>1, <1>4 DEF IInv, TypeOK, HeardSeeActive
<1> QED
    BY <1>1, <1>5, <1>6, <1>7, QuietStep

LEMMA RefetchStep ==
    ASSUME IInv, NEW u \in Users, Refetch(u)
    PROVE  IInv'
<1>1. /\ UNCHANGED <<active, files, version, slot, presence, task, switches, lapsed>>
      /\ UNCHANGED <<page, polled, missed>>
      /\ fetch' = [fetch EXCEPT ![u] = active]
    BY DEF Refetch, server
<1>2. TypeOK'
    BY <1>1 DEF IInv, TypeOK
<1>3. OthersAway' /\ HeardSeeActive'
    BY <1>1 DEF IInv, TypeOK, OthersAway, Present, HeardSeeActive
<1> QED
    BY <1>1, <1>2, <1>3, QuietStep

LEMMA FetchArrivesStep ==
    ASSUME IInv, NEW u \in Users, FetchArrives(u)
    PROVE  IInv'
<1>1. /\ UNCHANGED <<active, files, version, slot, presence, task, switches, lapsed, polled>>
      /\ fetch[u] \in files
      /\ page' = [page EXCEPT ![u].data = fetch[u]]
      /\ fetch' = [fetch EXCEPT ![u] = NoDb]
    BY DEF FetchArrives, server
<1>2. missed' \subseteq Users
    BY DEF FetchArrives, IInv, TypeOK
<1>3. /\ page' \in [Users -> PageType]
      /\ \A v \in Users : page'[v].data = IF v = u THEN fetch[u] ELSE page[v].data
    BY <1>1 DEF IInv, TypeOK, PageType
<1>4. TypeOK'
    BY <1>1, <1>2, <1>3 DEF IInv, TypeOK
<1>5. OthersAway'
    BY <1>1 DEF IInv, OthersAway, Present
<1>6. HeardSeeActive'
    BY <1>1, <1>3 DEF IInv, TypeOK, HeardSeeActive
<1> QED
    BY <1>1, <1>4, <1>5, <1>6, QuietStep

LEMMA FetchFailsStep ==
    ASSUME IInv, NEW u \in Users, FetchFails(u)
    PROVE  IInv'
<1>1. /\ UNCHANGED <<active, slot, presence, task, page, polled, switches, lapsed>>
      /\ files' = files \cup {fetch[u]}
      /\ fetch[u] # NoDb /\ fetch' = [fetch EXCEPT ![u] = NoDb]
      /\ missed' = missed \cup {u}
    BY DEF FetchFails
<1>2. fetch[u] \in Databases
    BY <1>1 DEF IInv, TypeOK
<1>3. version' \in [Databases -> 0 .. MaxVersion \cup {Unseen}]
    BY <1>2, SwitchAssumption DEF IInv, TypeOK, FetchFails
<1>4. TypeOK'
    BY <1>1, <1>2, <1>3 DEF IInv, TypeOK
<1>5. OthersAway' /\ HeardSeeActive'
    BY <1>1 DEF IInv, TypeOK, OthersAway, Present, HeardSeeActive
<1> QED
    BY <1>1, <1>4, <1>5, QuietStep

-----------------------------------------------------------------------------
(* The theorems.                                                           *)

\* Nothing is asked at the start, and every page reads the active database.
LEMMA InitHolds == Init => IInv
<1> SUFFICES ASSUME Init PROVE IInv
    OBVIOUS
<1> USE SwitchAssumption DEF Init
<1>1. Unborn \in TaskType /\ Unborn.status = "none" /\ ~Unborn.alive
    BY DEF Unborn, TaskType
<1>2. NewPage \in PageType /\ NewPage.data = NoDb
    BY DEF NewPage, PageType
<1>3. TypeOK
    BY <1>1, <1>2 DEF TypeOK
<1>4. TasksSound
    BY <1>1 DEF TasksSound, TaskSound
<1>5. OthersAway /\ HeardSeeActive
    BY <1>2 DEF OthersAway, HeardSeeActive
<1> QED
    BY <1>3, <1>4, <1>5 DEF IInv

LEMMA TaskNextHolds == IInv /\ TaskNext => IInv'
<1> SUFFICES ASSUME IInv, NEW t \in Tasks,
                    \/ t \in Asked /\ \E u \in Users : Send(u, t)
                    \/ Take(t) \/ Start(t)
                    \/ \E n \in FollowUps : FollowUp(t, n)
                    \/ WorkerWrites(t) \/ WorkerEnds(t) \/ FindSilent(t)
             PROVE  IInv'
    BY DEF TaskNext
<1>1. CASE \E u \in Users : Send(u, t)
    <2>1. PICK u \in Users : Send(u, t)
        BY <1>1
    <2> QED
        BY <2>1, SendMakes, OneTaskStep DEF Send
<1>2. CASE Take(t)
    BY <1>2, TakeMakes, OneTaskStep DEF Take
<1>3. CASE Start(t)
    BY <1>3, StartMakes, OneTaskStep DEF Start
<1>4. CASE \E n \in FollowUps : FollowUp(t, n)
    <2>1. PICK n \in FollowUps : FollowUp(t, n)
        BY <1>4
    <2>2. n \in Tasks
        BY DEF Tasks
    <2> QED
        BY <2>1, <2>2, FollowUpMakes, OneTaskStep DEF FollowUp
<1>5. CASE WorkerWrites(t)
    <2>1. task[t].home \in Databases
        BY <1>5 DEF WorkerWrites, IInv, TasksSound, TaskSound
    <2> QED
        BY <1>5, <2>1, WrittenStep DEF WorkerWrites
<1>6. CASE WorkerEnds(t)
    BY <1>6, WorkerEndsMakes, OneTaskStep DEF WorkerEnds
<1>7. CASE FindSilent(t)
    BY <1>7, FindSilentStep
<1> QED
    BY <1>1, <1>2, <1>3, <1>4, <1>5, <1>6, <1>7

LEMMA DatabaseNextHolds == IInv /\ DatabaseNext => IInv'
<1> SUFFICES ASSUME IInv, DatabaseNext
             PROVE  IInv'
    OBVIOUS
<1>1. CASE \E u \in Admins, d \in Databases : SwitchBegins(u, d) \/ Delete(u, d)
    BY <1>1, SwitchBeginsStep, DeleteStep
<1>2. CASE SwitchEnds
    BY <1>2, SwitchEndsStep
<1>3. CASE Restart
    BY <1>3, RestartStep
<1>4. CASE Edit
    <2>1. active \in Databases
        BY DEF IInv, TypeOK
    <2> QED
        BY <1>4, <2>1, WrittenStep DEF Edit
<1>5. CASE \E d \in Databases : Create(d)
    BY <1>5, CreateStep
<1> QED
    BY <1>1, <1>2, <1>3, <1>4, <1>5 DEF DatabaseNext

LEMMA PageNextHolds == IInv /\ PageNext => IInv'
BY ReloadStep, HeartbeatStep, ExpireStep, SyncStep, RefetchStep,
   FetchArrivesStep, FetchFailsStep DEF PageNext

\* The invariant is inductive.
LEMMA NextHolds == IInv /\ [Next]_vars => IInv'
<1> SUFFICES ASSUME IInv, [Next]_vars
             PROVE  IInv'
    OBVIOUS
<1>1. CASE UNCHANGED vars
    <2>1. /\ UNCHANGED <<active, files, version, slot, presence, task>>
          /\ UNCHANGED <<page, fetch, polled, missed, switches, lapsed>>
        BY <1>1 DEF vars, server, client
    <2>2. TypeOK'
        BY <2>1 DEF IInv, TypeOK
    <2>3. OthersAway' /\ HeardSeeActive'
        BY <2>1 DEF IInv, OthersAway, Present, HeardSeeActive
    <2> QED
        BY <2>1, <2>2, <2>3, QuietStep
<1> QED
    BY <1>1, TaskNextHolds, DatabaseNextHolds, PageNextHolds DEF Next

LEMMA Invariant == Spec => []IInv
BY InitHolds, NextHolds, PTL DEF Spec

\* The variables have their types; the database the server works on, and the
\* one it is about to connect, exist (connect_database, delete_database).
THEOREM TypeCorrect == Spec => []TypeOK
<1>1. IInv => TypeOK
    BY DEF IInv
<1> QED
    BY <1>1, Invariant, PTL

\* No switch takes the database away under a worker the server counts on
\* (assert_can_switch_or_delete_database).
THEOREM WorkersOnActiveHolds == Spec => []WorkersOnActive
<1>1. IInv => WorkersOnActive
    BY DEF IInv, TasksSound, TaskSound, WorkersOnActive
<1> QED
    BY <1>1, Invariant, PTL

\* What a user asks for lands in the database the user was looking at, unless
\* a switch or a restart could not know of the user (assert_no_other_active_users).
THEOREM LandsWhereShownHolds == Spec => []LandsWhereShown
<1>1. IInv => LandsWhereShown
    BY DEF IInv, TasksSound, TaskSound, LandsWhereShown
<1> QED
    BY <1>1, Invariant, PTL

=============================================================================
