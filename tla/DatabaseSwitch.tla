--------------------------- MODULE DatabaseSwitch ---------------------------
(***************************************************************************)
(* Changing the database the server works on, while users look at it and   *)
(* workers write to it: the admission guards                               *)
(* (services/operation_admission.py), the presence of users                *)
(* (services/active_presence.py), the routes that create, connect and      *)
(* delete a database (routers/export.py), the tasks these routes ask       *)
(* about, and the pages that learn of a change from the version they poll  *)
(* (hooks/use-data-version-sync.ts, hooks/use-database-switch.ts).         *)
(*                                                                         *)
(* A handler runs on the event loop from its first to its last statement,  *)
(* but the store it works on was looked up before, in a thread, and the    *)
(* workers run in threads of their own.  A store that was closed opens its *)
(* file again when it is used.                                             *)
(***************************************************************************)
EXTENDS Integers, FiniteSets

CONSTANTS
    Databases,      \* managed files dashboard*.db
    Configured,     \* settings.database_path
    NoDb,           \* no database
    Users,          \* administrators, one page each
    Operator,       \* an administrator without a page on the data
    Asked,          \* uploads, derived tasks and exports users ask for
    FollowUps,      \* calculations a reprocess starts
    MaxVersion,     \* bound: data_version of a database
    MaxSwitches     \* bound: databases connected, and restarts

ASSUME SwitchAssumption ==
    /\ Configured \in Databases /\ NoDb \notin Databases
    /\ Operator \notin Users
    /\ MaxVersion \in Nat /\ MaxSwitches \in Nat

VARIABLES
    active,     \* app.state.db
    files,      \* the files that exist
    version,    \* version[d]: data_version of d; Unseen before it is created
    slot,       \* _active_exclusive_db_operation, held by a switch
    task,       \* task[t]: its request, its row or record, its worker
    presence,   \* presence[u]: the active_database of u's record
    page,       \* page[u]: where its data came from, lastSeenVersionRef
    fetch,      \* fetch[u]: the database a read under way works on
    switches,   \* how many switches and restarts there were
    lapsed,     \* history: users a switch could not know of
    polled,     \* history: pages that polled the version since the last switch
    missed      \* history: pages that could not learn of a switch

server == <<active, files, version, slot, presence>>
client == <<page, fetch, polled, missed>>
vars == <<server, task, client, switches, lapsed>>

-----------------------------------------------------------------------------

Free == [by |-> NoDb, target |-> NoDb]
Admins == Users \cup {Operator}
Tasks == Asked \cup FollowUps

\* A task is asked for ("sent"), has its store ("held"), and runs.
Unborn == [kind |-> "none", status |-> "none", alive |-> FALSE, late |-> FALSE,
           home |-> NoDb, shown |-> NoDb, owner |-> NoDb]
Unseen == -1
NewPage == [data |-> NoDb, seen |-> Unseen]

Init ==
    /\ active = Configured
    /\ files = {Configured}
    /\ version = [d \in Databases |-> IF d = Configured THEN 0 ELSE Unseen]
    /\ slot = Free
    /\ task = [t \in Tasks |-> Unborn]
    /\ presence = [u \in Users |-> NoDb]
    /\ page = [u \in Users |-> NewPage]
    /\ fetch = [u \in Users |-> Configured]
    /\ switches = 0
    /\ lapsed = {} /\ polled = {} /\ missed = {}

LoopFree == slot = Free
Present(u) == presence[u] = active
Stale(u) == page[u].data \notin {NoDb, active}
Behind(u) == Stale(u) \/ fetch[u] \notin {NoDb, active}
Asking(u) == \E t \in Tasks : task[t].status \in {"sent", "held"} /\ task[t].owner = u

Running(k) == {t \in Tasks : task[t].kind = k /\ task[t].status = "running"}
RowsOf(d) == {t \in Running("rows") : task[t].home = d}

\* Every committed write raises data_version; the connection of a stray
\* worker makes the file of a deleted database again, empty.
Written(d) ==
    /\ version[d] < MaxVersion \/ d \notin files
    /\ version' = [version EXCEPT ![d] = IF d \in files THEN @ + 1 ELSE 0]
    /\ files' = files \cup {d}

Ended(S) == [t \in Tasks |-> IF t \in S THEN [task[t] EXCEPT !.status = "over"] ELSE task[t]]

-----------------------------------------------------------------------------
(* Tasks.                                                                  *)

\* The user asks; the body of an upload may be under way for long.
Send(u, t) ==
    /\ page[u].data # NoDb /\ slot.by # u
    /\ task[t] = Unborn
    /\ \E k \in {"rows", "export"} :
         task' = [task EXCEPT ![t] = [Unborn EXCEPT !.kind = k, !.status = "sent",
                                        !.shown = page[u].data, !.owner = u]]
    /\ UNCHANGED <<server, client, switches, lapsed>>

\* get_database, in the thread pool: the loop need not be free.  An upload
\* then awaits its files, store in hand.
Take(t) ==
    /\ task[t].status = "sent"
    /\ task' = [task EXCEPT ![t].status = "held", ![t].home = active]
    /\ UNCHANGED <<server, client, switches, lapsed>>

\* A task is late when its store was replaced, or its starter given up,
\* before it began.
Begun(k, d, givenUp) ==
    [Unborn EXCEPT !.kind = k, !.home = d, !.status = "running", !.alive = TRUE,
                   !.late = givenUp \/ d # active]

\* start_upload_folder, start_parquet_export and the routes of derived
\* tasks.  The loop is free, so the slot they ask for is too.
Start(t) ==
    /\ LoopFree
    /\ task[t].status = "held"
    /\ task' = [task EXCEPT ![t] = Begun(@.kind, @.home, FALSE)]
    /\ UNCHANGED <<server, client, switches, lapsed>>

\* A reprocess starts the calculation that follows from its own thread:
\* assert_can_start_derived_task may find a switch under way.
FollowUp(t, n) ==
    /\ slot = Free
    /\ task[t].alive /\ task[t].kind = "rows" /\ task[n] = Unborn
    /\ task' = [task EXCEPT ![n] = Begun("rows", task[t].home, task[t].status = "over")]
    /\ UNCHANGED <<server, client, switches, lapsed>>

WorkerWrites(t) ==
    /\ task[t].alive /\ task[t].kind = "rows"
    /\ Written(task[t].home)
    /\ UNCHANGED <<active, slot, task, presence, client, switches, lapsed>>

WorkerEnds(t) ==
    /\ task[t].alive
    /\ task' = [task EXCEPT ![t] = [Unborn EXCEPT !.status = "over"]]
    /\ UNCHANGED <<server, client, switches, lapsed>>

\* A poll finds a worker silent for too long, and fails its row or record:
\* 180 s for a row of the active database, 120 s for an export.
FindSilent(t) ==
    /\ LoopFree
    /\ t \in RowsOf(active) \cup Running("export")
    /\ task' = Ended({t})
    /\ UNCHANGED <<server, client, switches, lapsed>>

-----------------------------------------------------------------------------
(* Databases.                                                              *)

NobodyElse(u) == \A v \in Users \ {u} : ~Present(v)

AdmittedOverExports(u, operation, silent) ==
    /\ silent = RowsOf(active)
    /\ operation = "switch" => NobodyElse(u)

AdmittedOverUsers(u, operation, silent) ==
    /\ silent = RowsOf(active)
    /\ Running("export") = {}

\* assert_can_switch_or_delete_database: rows found silent are failed
\* first, then no row may be active, no export, and, to switch, no other
\* user.
Admitted(u, operation, silent) ==
    /\ silent = RowsOf(active)
    /\ Running("export") = {}
    /\ operation = "switch" => NobodyElse(u)

\* connect_database blocks the loop; threads go on.
SwitchBegins(u, d) ==
    /\ LoopFree /\ switches < MaxSwitches
    /\ d \in files \ {active}
    /\ \E silent \in SUBSET RowsOf(active) :
         /\ Admitted(u, "switch", silent)
         /\ task' = Ended(silent)
    /\ slot' = [by |-> u, target |-> d]
    /\ switches' = switches + 1
    /\ UNCHANGED <<active, files, version, presence, client, lapsed>>

\* The users a switch by u cannot know of: no heartbeat arrived from this
\* database, or the request that is under way is u's own.
Unheard(u) == {v \in Users : IF v = u THEN Asking(v) ELSE ~Present(v)}

\* Start-up of the store fails the rows its last worker left; the page that
\* asked reloads, unless the answer is lost.
Swapped ==
    /\ active' = slot.target
    /\ task' = Ended(RowsOf(slot.target))
    /\ \/ /\ page' = [u \in Users |-> IF u = slot.by THEN NewPage ELSE page[u]]
          /\ fetch' = [u \in Users |-> IF u = slot.by THEN slot.target ELSE fetch[u]]
          /\ missed' = missed \ {slot.by}
          /\ lapsed' = lapsed \cup Unheard(slot.by)
       \/ /\ lapsed' = lapsed \cup Unheard(slot.by) \cup ({slot.by} \cap Users)
          /\ UNCHANGED <<page, fetch, missed>>
    /\ polled' = {}

SwitchEnds ==
    /\ ~LoopFree
    /\ \/ Swapped
       \/ UNCHANGED <<active, task, client, lapsed>>   \* the health checks fail
    /\ slot' = Free
    /\ UNCHANGED <<files, version, presence, switches>>

\* The name of a new database has its label and the time.
Create(d) ==
    /\ LoopFree
    /\ version[d] = Unseen
    /\ files' = files \cup {d}
    /\ version' = [version EXCEPT ![d] = 0]
    /\ UNCHANGED <<active, slot, task, presence, client, switches, lapsed>>

DeleteAny(u, d) ==
    /\ LoopFree
    /\ d \in files
    /\ \E silent \in SUBSET RowsOf(active) :
         /\ Admitted(u, "delete", silent)
         /\ task' = Ended(silent)
    /\ files' = files \ {d}
    /\ UNCHANGED <<active, version, slot, presence, client, switches, lapsed>>

\* delete_database asks about the active database, not about the target.
Delete(u, d) ==
    /\ LoopFree
    /\ d \in files \ {active}
    /\ \E silent \in SUBSET RowsOf(active) :
         /\ Admitted(u, "delete", silent)
         /\ task' = Ended(silent)
    /\ files' = files \ {d}
    /\ UNCHANGED <<active, version, slot, presence, client, switches, lapsed>>

\* A process that dies returns on the configured database, whatever was
\* connected, and makes its file again if it was deleted.
Restart ==
    /\ switches < MaxSwitches
    /\ active' = Configured
    /\ files' = files \cup {Configured}
    /\ version' = IF Configured \in files THEN version
                  ELSE [version EXCEPT ![Configured] = 0]
    /\ slot' = Free
    /\ task' = [t \in Tasks |-> IF task[t] = Unborn THEN Unborn
                                ELSE [Unborn EXCEPT !.status = "over"]]
    /\ presence' = [u \in Users |-> NoDb]
    /\ fetch' = [u \in Users |-> NoDb]
    /\ missed' = missed \cup {u \in Users : fetch[u] # NoDb}
    /\ polled' = {}
    /\ lapsed' = Users
    /\ switches' = switches + 1
    /\ UNCHANGED page

-----------------------------------------------------------------------------
(* Pages.                                                                  *)

Reload(u) ==
    /\ slot.by # u
    /\ page' = [page EXCEPT ![u] = NewPage]
    /\ fetch' = [fetch EXCEPT ![u] = active]
    /\ missed' = missed \ {u}
    /\ polled' = polled \ {u}
    /\ lapsed' = IF Asking(u) THEN lapsed ELSE lapsed \ {u}
    /\ UNCHANGED <<server, task, switches>>

\* Sent every 30 s by a page in sight; the record says which database is
\* active when it arrives.
Heartbeat(u) ==
    /\ LoopFree
    /\ presence' = [presence EXCEPT ![u] = active]
    /\ UNCHANGED <<active, files, version, slot, task, client, switches, lapsed>>

\* No heartbeat within the time to live, or a log out.
Expire(u) ==
    /\ presence' = [presence EXCEPT ![u] = NoDb]
    /\ UNCHANGED <<active, files, version, slot, task, client, switches, lapsed>>

\* Any other change a user makes: metadata, a schedule, a deletion.
Edit ==
    /\ LoopFree
    /\ Written(active)
    /\ UNCHANGED <<active, slot, task, presence, client, switches, lapsed>>

RisesAfterStoring(u, seen) == seen # Unseen /\ seen > page'[u].seen

\* The effect of useDataVersionSync: only a higher version invalidates.
Rises(u, seen) == page[u].seen # Unseen /\ seen > page[u].seen

\* The poll of the version, every 10 s, also in a hidden page.
Sync(u) ==
    /\ LoopFree /\ slot.by # u
    /\ page' = [page EXCEPT ![u].seen = version[active]]
    /\ polled' = polled \cup {u}
    /\ IF Rises(u, version[active])
       THEN fetch' = [fetch EXCEPT ![u] = active] /\ UNCHANGED missed
       ELSE /\ missed' = IF Behind(u) /\ u \notin polled
                            /\ page[u].seen \notin 0 .. version[active] - 1
                         THEN missed \cup {u} ELSE missed
            /\ UNCHANGED fetch
    /\ UNCHANGED <<server, task, switches, lapsed>>

Refetch(u) ==
    /\ slot.by # u
    /\ fetch' = [fetch EXCEPT ![u] = active]
    /\ UNCHANGED <<server, task, page, polled, missed, switches, lapsed>>

FetchArrives(u) ==
    /\ fetch[u] \in files
    /\ page' = [page EXCEPT ![u].data = fetch[u]]
    /\ fetch' = [fetch EXCEPT ![u] = NoDb]
    /\ missed' = IF fetch[u] = active THEN missed \ {u} ELSE missed
    /\ UNCHANGED <<server, task, polled, switches, lapsed>>

\* A read of a store that was deleted makes an empty file.
FetchFails(u) ==
    /\ fetch[u] # NoDb
    /\ files' = files \cup {fetch[u]}
    /\ version' = IF fetch[u] \in files THEN version
                  ELSE [version EXCEPT ![fetch[u]] = 0]
    /\ fetch' = [fetch EXCEPT ![u] = NoDb]
    /\ missed' = missed \cup {u}
    /\ UNCHANGED <<active, slot, presence, task, page, polled, switches, lapsed>>

-----------------------------------------------------------------------------

TaskNext ==
    \E t \in Tasks :
        \/ t \in Asked /\ \E u \in Users : Send(u, t)
        \/ Take(t) \/ Start(t)
        \/ \E n \in FollowUps : FollowUp(t, n)
        \/ WorkerWrites(t) \/ WorkerEnds(t) \/ FindSilent(t)

DatabaseNext ==
    \/ \E u \in Admins, d \in Databases : SwitchBegins(u, d) \/ Delete(u, d)
    \/ SwitchEnds \/ Restart \/ Edit
    \/ \E d \in Databases : Create(d)

PageNext ==
    \E u \in Users :
        \/ Reload(u) \/ Heartbeat(u) \/ Expire(u) \/ Sync(u)
        \/ Refetch(u) \/ FetchArrives(u) \/ FetchFails(u)

Next == TaskNext \/ DatabaseNext \/ PageNext

Spec == Init /\ [][Next]_vars

\* A handler runs to its end, the timer of the poll goes on in a hidden
\* page, and a request is answered or fails.
Fairness ==
    /\ WF_vars(SwitchEnds)
    /\ \A u \in Users : WF_vars(Sync(u)) /\ WF_vars(FetchArrives(u) \/ FetchFails(u))

FairSpec == Spec /\ Fairness

-----------------------------------------------------------------------------
(* Properties.                                                             *)

TaskType ==
    [kind: {"none", "rows", "export"},
     status: {"none", "sent", "held", "running", "over"},
     alive: BOOLEAN, late: BOOLEAN,
     home: Databases \cup {NoDb}, shown: Databases \cup {NoDb},
     owner: Users \cup {NoDb}]

PageType == [data: Databases \cup {NoDb}, seen: 0 .. MaxVersion \cup {Unseen}]

\* The types of the variables; the file of the database the server works on
\* exists, and so does that of the database it is about to connect
\* (routers/export.py: connect_database, delete_database).
TypeOK ==
    /\ active \in files /\ files \subseteq Databases
    /\ version \in [Databases -> 0 .. MaxVersion \cup {Unseen}]
    /\ slot \in [by: Admins, target: files] \cup {Free}
    /\ task \in [Tasks -> TaskType]
    /\ presence \in [Users -> Databases \cup {NoDb}]
    /\ page \in [Users -> PageType]
    /\ fetch \in [Users -> Databases \cup {NoDb}]
    /\ switches \in 0 .. MaxSwitches
    /\ lapsed \cup polled \cup missed \subseteq Users

\* No switch takes the database away under a worker the server still counts
\* as running: one that works on another database began there late, or was
\* given up as silent (operation_admission.py).
WorkersOnActive ==
    \A t \in Tasks : task[t].alive =>
        task[t].home = active \/ task[t].late \/ task[t].status = "over"

\* What a user asks for goes to the database the user was looking at, unless
\* a switch or a restart happened that could not know of the user: no
\* heartbeat had come, the answer was lost, or the user switched with an
\* upload of the user's own under way.
LandsWhereShown ==
    \A t \in Tasks : task[t].status = "held" /\ task[t].home # task[t].shown =>
        task[t].owner \in lapsed

\* A page that shows the data of a replaced database gets that of the active
\* one, unless a poll after the switch found no higher version than the last
\* one before it, or a read failed (hooks/use-data-version-sync.ts).
ViewsCatchUp ==
    \A u \in Users : Stale(u) ~> (~Stale(u) \/ u \in missed)

=============================================================================
