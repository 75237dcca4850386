---------------------------- MODULE FolderUpload ----------------------------
(***************************************************************************)
(* Folder upload: the routes of server/routers/upload.py, which run one at *)
(* a time on the server's event loop, the worker thread that               *)
(* server/services/ingestion.py starts for every upload, and the rows of   *)
(* upload_tasks and dim_event in server/storage/database.py that they      *)
(* share.  Every database call is one transaction under the store's lock,  *)
(* so a step below ends at a database call; a handler that reads and later *)
(* writes has a step for each, and the worker threads run in between.      *)
(*                                                                         *)
(* Time is abstracted: a poll may find any active row's heartbeat older    *)
(* than 180 s and any row past its 30-minute TTL.  The clean-up of a       *)
(* failed upload deletes an event with everything attached to it, so the   *)
(* tables keyed by event id are represented by the event row.              *)
(***************************************************************************)
EXTENDS Naturals, FiniteSets

CONSTANTS
    Tasks,          \* upload task ids
    Files,          \* data files a user may put in a folder
    Names,          \* base names of files, from which event ids are made
    Hashes,         \* digests of file contents
    NameOf,         \* NameOf[f]: base name of file f without its extension
    HashOf,         \* HashOf[f]: digest of the bytes of f
    RowsExpire      \* TRUE: uploads may outlive the TTL of their row

ASSUME FileAssumption ==
    /\ NameOf \in [Files -> Names]
    /\ HashOf \in [Files -> Hashes]

ASSUME FlagAssumption == RowsExpire \in BOOLEAN

VARIABLES
    status,     \* status[t]: column status of t's row, "absent" without a row
    recorded,   \* recorded[t]: event_ids in result_json of t's row
    events,     \* dim_event: [id, by: the committing task, hash]
    pc,         \* pc[t]: where t's worker thread stands
    job,        \* job[t]: the worker's inputs and snapshots
    created,    \* created[t]: the worker's created_events, then its result's event_ids
    current,    \* current[t]: id of the event the worker is writing
    loop,       \* the handler the event loop is in the middle of
    cleaned,    \* history: tasks whose clean-up has deleted events
    lost,       \* history: event ids deleted by a clean-up asked for again
    late,       \* history: commits since the row says "cancelling"
    overlap     \* history: pairs of uploads that were in progress together

row == <<status, recorded>>
thread == <<pc, job, created, current>>
history == <<cleaned, lost, late, overlap>>
vars == <<row, events, thread, loop, history>>

EventId == Names \X Nat
NoEvent == <<>>

-----------------------------------------------------------------------------
(* The rows of upload_tasks.                                               *)

ActiveWithoutCancelling == {"queued", "running"}
ActiveStatuses == {"queued", "running", "cancelling"}
TerminalStatuses == {"completed", "failed", "cancelled"}
CleanableStatuses == {"failed", "cancelled"}

UpsertingHasRow(t) == TRUE
HasRow(t) == status[t] # "absent"

\* UPDATE upload_tasks SET status = s WHERE task_id IN ts
Updated(ts, s) == [t \in Tasks |-> IF t \in ts /\ HasRow(t) THEN s ELSE status[t]]

\* UPDATE upload_tasks SET result_json = {event_ids: ids} WHERE task_id = t
Recording(t, ids) ==
    [u \in Tasks |-> IF u = t /\ HasRow(u) THEN ids ELSE recorded[u]]

\* The sets of rows a DELETE ... WHERE expires_at < now may hit.
ExpiredSets == IF RowsExpire THEN SUBSET {t \in Tasks : HasRow(t)} ELSE {{}}

-----------------------------------------------------------------------------
(* Event ids and duplicate detection.                                      *)

StoredIds == {x.id : x \in events}

NoStoredHashes == {}
StoredHashes == {x.hash : x \in events}

\* The base name, or the base name with the least numeric suffix not taken.
\* Suffix 0 stands for the bare name.
GenerateEventId(name, taken) ==
    <<name, CHOOSE n \in 0..Cardinality(taken) :
                /\ <<name, n>> \notin taken
                /\ \A m \in 0..(n - 1) : <<name, m>> \in taken>>

\* The primary key of dim_event admits the insert.
NoPrimaryKey(id) == TRUE
IdIsFree(id) == id \notin StoredIds

-----------------------------------------------------------------------------
(* Where the worker threads and the event loop stand.                      *)

Alive == {"starting", "prepare", "validate", "next", "commit",
          "committed", "finish"}
Outcomes == {"none"} \cup TerminalStatuses

Job == [mapped: BOOLEAN,            \* a channel map came with the upload
        unchecked: SUBSET Files,    \* files not validated yet
        pending: SUBSET Files,      \* validated files whose event is not committed
        file: SUBSET Files,         \* the file being written
        hashes: SUBSET Hashes,      \* existing_hashes
        ids: SUBSET EventId,        \* existing_event_ids
        outcome: Outcomes]          \* status the terminal update will write

NoJob == [mapped |-> FALSE, unchecked |-> {}, pending |-> {}, file |-> {},
          hashes |-> {}, ids |-> {}, outcome |-> "none"]

\* A handler between its read and its write: what it is about to write on.
Handler == [op: {"idle", "reconcile", "cancel", "cleanup"},
            tasks: SUBSET Tasks, ids: SUBSET EventId]

Idle == [op |-> "idle", tasks |-> {}, ids |-> {}]

Init ==
    /\ status = [t \in Tasks |-> "absent"]
    /\ recorded = [t \in Tasks |-> {}]
    /\ events = {}
    /\ pc = [t \in Tasks |-> "unborn"]
    /\ job = [t \in Tasks |-> NoJob]
    /\ created = [t \in Tasks |-> {}]
    /\ current = [t \in Tasks |-> NoEvent]
    /\ loop = Idle
    /\ cleaned = {}
    /\ lost = {}
    /\ late = [t \in Tasks |-> 0]
    /\ overlap = {}

-----------------------------------------------------------------------------
(* The worker thread of upload t.                                          *)

\* The locals of threads that end are gone (mapped is kept for the properties).
EndThreads(ts, place) ==
    /\ pc' = [t \in Tasks |-> IF t \in ts THEN place ELSE pc[t]]
    /\ job' = [t \in Tasks |-> IF t \in ts
                              THEN [NoJob EXCEPT !.mapped = job[t].mapped]
                              ELSE job[t]]
    /\ created' = [t \in Tasks |-> IF t \in ts THEN {} ELSE created[t]]
    /\ current' = [t \in Tasks |-> IF t \in ts THEN NoEvent ELSE current[t]]

MisreadCancelRequested(t) == status[t] = "cancelled"
CancelRequested(t) == status[t] = "cancelling"

WorkerOnly == UNCHANGED <<loop, history>>

Goto(t, place) == pc' = [pc EXCEPT ![t] = place]

SetJob(t, j) == job' = [job EXCEPT ![t] = j]

\* ingest returns: the outcome, and the event_ids its result carries.
Return(t, outcome, ids) ==
    /\ Goto(t, "finish")
    /\ SetJob(t, [job[t] EXCEPT !.outcome = outcome])
    /\ created' = [created EXCEPT ![t] = ids]
    /\ UNCHANGED <<row, events, current>>

\* cancel_result(): the events committed and appended so far.
StopIfCancelled(t) == CancelRequested(t) /\ Return(t, "cancelled", created[t])

\* A failure before the write phase, or caught by the outer handlers, returns
\* a result without event_ids.
FailWithoutIds(t) == Return(t, "failed", {})

\* The first statement of _run, whatever the row says by now.
WorkerStart(t) ==
    /\ pc[t] = "starting"
    /\ status' = Updated({t}, "running")
    /\ Goto(t, "prepare")
    /\ UNCHANGED <<recorded, events, job, created, current>>
    /\ WorkerOnly

\* _normalize_files, the batch's source artifacts and existing_hashes.  A cancel
\* that stops the conversion of RSP files leaves the files converted so far; only
\* when there are none is the upload stopped here.  The branch without a channel
\* map takes existing_event_ids here as well (two reads, taken as one step).
Prepare(t) ==
    /\ pc[t] = "prepare"
    /\ \/ StopIfCancelled(t)
       \/ FailWithoutIds(t)         \* no data file, mixed formats, bad RSP
       \/ \E batch \in SUBSET job[t].unchecked \ {{}} :
            /\ batch = job[t].unchecked \/ CancelRequested(t)
            /\ SetJob(t, [job[t] EXCEPT
                            !.unchecked = batch,
                            !.hashes = StoredHashes,
                            !.ids = IF job[t].mapped THEN {} ELSE StoredIds])
            /\ Goto(t, "validate")
            /\ UNCHANGED <<row, events, created, current>>
    /\ WorkerOnly

\* A valid file waits for the write phase (with a channel map).
SetAside(t, f) ==
    /\ SetJob(t, [job[t] EXCEPT !.unchecked = @ \ {f}, !.pending = @ \cup {f}])
    /\ UNCHANGED <<row, events, pc, created, current>>

\* The id of f's event is made; its transaction is next.
BeginEvent(t, f) ==
    /\ SetJob(t, [job[t] EXCEPT !.unchecked = @ \ {f}, !.pending = @ \ {f},
                                !.file = {f}])
    /\ current' = [current EXCEPT ![t] = GenerateEventId(NameOf[f], job[t].ids)]
    /\ Goto(t, "commit")
    /\ UNCHANGED <<row, events, created>>

\* Parse and validate one file; without a channel map its event is written
\* before the next file is looked at.
Validate(t) ==
    /\ pc[t] = "validate"
    /\ \E f \in job[t].unchecked :
        \/ StopIfCancelled(t)
        \/ FailWithoutIds(t)        \* parse or validation error
        \/ /\ ~CancelRequested(t)
           /\ HashOf[f] \notin job[t].hashes
           /\ IF job[t].mapped THEN SetAside(t, f) ELSE BeginEvent(t, f)
    /\ WorkerOnly

\* Every file is validated: the map branch persists the channel map and
\* snapshots existing_event_ids, the other branch has written its last event.
AllValidated(t) ==
    /\ pc[t] = "validate"
    /\ job[t].unchecked = {}
    /\ IF job[t].mapped
       THEN \/ FailWithoutIds(t)
            \/ /\ SetJob(t, [job[t] EXCEPT !.ids = StoredIds])
               /\ Goto(t, "next")
               /\ UNCHANGED <<row, events, created, current>>
       ELSE Return(t, "completed", created[t])
    /\ WorkerOnly

\* Head of the write loop of the map branch: the two cancel checks and the id.
NextEvent(t) ==
    /\ pc[t] = "next"
    /\ \E f \in job[t].pending :
        StopIfCancelled(t) \/ (~CancelRequested(t) /\ BeginEvent(t, f))
    /\ WorkerOnly

\* Every event is written: the success audit row, which may fail.
AllWritten(t) ==
    /\ pc[t] = "next"
    /\ job[t].pending = {}
    /\ Return(t, "completed", created[t]) \/ FailWithoutIds(t)
    /\ WorkerOnly

\* The transaction that writes one event, its measurements and its lineage.
CommitEvent(t) ==
    /\ pc[t] = "commit"
    /\ \/ Return(t, "failed", created[t]) /\ UNCHANGED late
       \/ /\ IdIsFree(current[t])
          /\ \E f \in job[t].file :
              /\ events' = events \cup {[id |-> current[t], by |-> t,
                                         hash |-> HashOf[f]]}
              /\ SetJob(t, [job[t] EXCEPT
                              !.ids = @ \cup {current[t]},
                              !.hashes = @ \cup IF job[t].mapped THEN {} ELSE {HashOf[f]}])
          /\ late' = [late EXCEPT ![t] =
                        IF status[t] = "cancelling" THEN @ + 1 ELSE @]
          /\ Goto(t, "committed")
          /\ UNCHANGED <<row, created, current>>
    /\ UNCHANGED <<loop, cleaned, lost, overlap>>

\* created_events.append and the list _record_committed_event keeps.
ForgetfulAppend(t) == {current[t]}
AppendCreated(t) == created[t] \cup {current[t]}

\* After the commit: a cancel check, then the retained artifact, created_events
\* and _record_committed_event.
AfterCommit(t) ==
    /\ pc[t] = "committed"
    /\ \/ StopIfCancelled(t)
       \/ ~CancelRequested(t) /\ FailWithoutIds(t)   \* _store_artifact raised
       \/ /\ ~CancelRequested(t)
          /\ created' = [created EXCEPT ![t] = AppendCreated(t)]
          /\ recorded' = Recording(t, AppendCreated(t))
          /\ current' = [current EXCEPT ![t] = NoEvent]
          /\ Goto(t, IF job[t].mapped THEN "next" ELSE "validate")
          /\ UNCHANGED <<status, events, job>>
    /\ WorkerOnly

\* The terminal update of the row, whatever the row says by now.
Finish(t) ==
    /\ pc[t] = "finish"
    /\ status' = Updated({t}, job[t].outcome)
    /\ recorded' = Recording(t, created[t])
    /\ EndThreads({t}, "done")
    /\ UNCHANGED events
    /\ WorkerOnly

Worker(t) ==
    \/ WorkerStart(t) \/ Prepare(t) \/ Validate(t) \/ AllValidated(t)
    \/ NextEvent(t) \/ AllWritten(t) \/ CommitEvent(t) \/ AfterCommit(t)
    \/ Finish(t)

-----------------------------------------------------------------------------
(* The routes, on the event loop.                                          *)

\* POST /upload/folder/start: start_upload_task drops expired rows, creates
\* the row and starts the thread.
StartUpload(t) ==
    /\ loop = Idle
    /\ pc[t] = "unborn"
    /\ \E gone \in ExpiredSets, batch \in SUBSET Files, mapped \in BOOLEAN :
        /\ status' = [Updated(gone, "absent") EXCEPT ![t] = "queued"]
        /\ recorded' = [u \in Tasks |-> IF u \in gone THEN {} ELSE recorded[u]]
        /\ SetJob(t, [job[t] EXCEPT !.unchecked = batch, !.mapped = mapped])
    /\ Goto(t, "starting")
    /\ overlap' = overlap \cup
            UNION {{<<t, u>>, <<u, t>>} : u \in {v \in Tasks : pc[v] \in Alive}}
    /\ UNCHANGED <<events, created, current, loop, cleaned, lost, late>>

\* A poll (also discovery, the event stream and every admission check): drop
\* expired rows and select the active rows whose heartbeat is too old.
PollRead ==
    /\ loop = Idle
    /\ \E gone \in ExpiredSets :
        /\ status' = Updated(gone, "absent")
        /\ recorded' = [u \in Tasks |-> IF u \in gone THEN {} ELSE recorded[u]]
        /\ \E stale \in SUBSET {t \in Tasks : status'[t] \in ActiveStatuses} :
            loop' = IF stale = {} THEN Idle
                    ELSE [op |-> "reconcile", tasks |-> stale, ids |-> {}]
    /\ UNCHANGED <<events, thread, history>>

\* The second statement of reconcile_stale_upload_tasks: UPDATE by task id.
PollWrite ==
    /\ loop.op = "reconcile"
    /\ status' = Updated(loop.tasks, "failed")
    /\ loop' = Idle
    /\ UNCHANGED <<recorded, events, thread, history>>

\* POST /upload/tasks/{id}/cancel: the status check of request_upload_task_cancel.
CancelRead(t) ==
    /\ loop = Idle
    /\ status[t] \in ActiveWithoutCancelling
    /\ loop' = [op |-> "cancel", tasks |-> {t}, ids |-> {}]
    /\ UNCHANGED <<row, events, thread, history>>

\* ... and its UPDATE by task id, in a transaction of its own.
CancelWrite ==
    /\ loop.op = "cancel"
    /\ status' = Updated(loop.tasks, "cancelling")
    /\ late' = [t \in Tasks |-> IF t \in loop.tasks THEN 0 ELSE late[t]]
    /\ loop' = Idle
    /\ UNCHANGED <<recorded, events, thread, cleaned, lost, overlap>>

\* cleanup_failed_folder_upload_task: the recorded ids that name an event.
ScopeCandidates(t) == StoredIds
CleanupCandidates(t) == recorded[t] \cap StoredIds

CleanupRead(t) ==
    /\ loop = Idle
    /\ status[t] \in CleanableStatuses
    /\ CleanupCandidates(t) # {}
    /\ loop' = [op |-> "cleanup", tasks |-> {t}, ids |-> CleanupCandidates(t)]
    /\ UNCHANGED <<row, events, thread, history>>

\* ... and the transaction that deletes them.  The row keeps its event_ids, so
\* the clean-up may be asked for again.
CleanupWrite ==
    /\ loop.op = "cleanup"
    /\ events' = {x \in events : x.id \notin loop.ids}
    /\ cleaned' = cleaned \cup loop.tasks
    /\ lost' = lost \cup IF loop.tasks \subseteq cleaned THEN loop.ids ELSE {}
    /\ loop' = Idle
    /\ UNCHANGED <<row, thread, late, overlap>>

Routes ==
    \/ \E t \in Tasks : StartUpload(t) \/ CancelRead(t) \/ CleanupRead(t)
    \/ PollRead \/ PollWrite \/ CancelWrite \/ CleanupWrite

\* The server stops and starts: the daemon threads are gone, and opening the
\* database fails every row left active.
Restart ==
    /\ EndThreads({t \in Tasks : pc[t] \in Alive}, "dead")
    /\ status' = Updated({t \in Tasks : status[t] \in ActiveStatuses}, "failed")
    /\ loop' = Idle
    /\ UNCHANGED <<recorded, events, history>>

Next == Routes \/ Restart \/ \E t \in Tasks : Worker(t)

Spec == Init /\ [][Next]_vars

\* Fairness.  Threads run, the event loop finishes a handler it is in, and a
\* row whose worker is gone is found stale by some later poll: its heartbeat
\* ages past the limit, and clients poll and discover tasks again and again.
\* Users need not do anything.
PollFinds(t) ==
    /\ pc[t] \notin Alive
    /\ PollRead
    /\ t \in loop'.tasks

Fairness ==
    /\ \A t \in Tasks : WF_vars(Worker(t)) /\ SF_vars(PollFinds(t))
    /\ WF_vars(PollWrite \/ CancelWrite \/ CleanupWrite)

FairSpec == Spec /\ Fairness

-----------------------------------------------------------------------------
(* Properties.                                                             *)

\* Types, and: a row that does not exist carries no result.
TypeOK ==
    /\ status \in [Tasks -> {"absent"} \cup ActiveStatuses \cup TerminalStatuses]
    /\ recorded \in [Tasks -> SUBSET EventId]
    /\ \A t \in Tasks : status[t] = "absent" => recorded[t] = {}
    /\ events \subseteq [id: EventId, by: Tasks, hash: Hashes]
    /\ pc \in [Tasks -> {"unborn", "done", "dead"} \cup Alive]
    /\ job \in [Tasks -> Job]
    /\ created \in [Tasks -> SUBSET EventId]
    /\ current \in [Tasks -> EventId \cup {NoEvent}]
    /\ loop \in Handler
    /\ cleaned \subseteq Tasks
    /\ lost \subseteq EventId
    /\ late \in [Tasks -> Nat]
    /\ overlap \subseteq Tasks \X Tasks

Own(t) == {x.id : x \in {y \in events : y.by = t}}

\* While the worker lives and its row exists, the row's event_ids list every
\* event it has committed, except the one it is committing: a row that is
\* failed or left behind at any moment misses at most one event.
RowKeepsUp ==
    \A t \in Tasks :
        pc[t] \in Alive /\ HasRow(t) => Own(t) \subseteq recorded[t] \cup {current[t]}

\* A completed upload reports all the events it committed: none is left in the
\* table that the task does not answer for.
CompletedReportsAll ==
    \A t \in Tasks : status[t] = "completed" => Own(t) \subseteq recorded[t]

\* Until its clean-up has run, every event id a task records still names the
\* event that task committed, unless a clean-up asked for again has deleted that
\* id: the first clean-up removes the task's own partial data.
RecordedIsOwn ==
    \A t \in Tasks \ cleaned :
        \A e \in recorded[t] \ lost : \E x \in events : x.id = e /\ x.by = t

\* After a cancel is accepted at most one more event is committed, the one
\* the worker had begun.
StopsAfterCancel ==
    \A t \in Tasks : status[t] = "cancelling" => late[t] <= 1

\* The same content is stored twice only by uploads that were in progress
\* together, or by one batch of files uploaded with a channel map.
DuplicatesNeedOverlap ==
    \A x, y \in events :
        x # y /\ x.hash = y.hash =>
            IF x.by = y.by THEN job[x.by].mapped ELSE <<x.by, y.by>> \in overlap

\* Uploads implement the ledger: ids are given to one upload at a time, and the
\* first clean-up of an upload removes nobody else's events.
Ledger == INSTANCE EventLedger WITH Uploads <- Tasks, withdrawn <- cleaned
ImplementsLedger == Ledger!Spec

\* No upload task stays active for ever: its worker ends it, or it is found
\* stale and failed, or its row expires.
UploadsSettle ==
    \A t \in Tasks :
        status[t] \in {"queued", "running", "cancelling"}
            ~> status[t] \in {"absent", "completed", "failed", "cancelled"}

-----------------------------------------------------------------------------
(* What the documentation promises and the code does not keep.             *)

\* docs/brainstorm/40_cancel_upload_plan/IMPLEMENTATION_MAP.md: if cancelled
\* after partial commits, clean-up guidance must be exposed; clean-up works on
\* the recorded event ids, so they must name every event of the upload.
CancelledRecordsAll ==
    \A t \in Tasks :
        status[t] = "cancelled" /\ t \notin cleaned => Own(t) \subseteq recorded[t]

\* Ibid.: "cancelling" means that the worker must stop at the next safe
\* checkpoint; the status is left for a terminal one only.
CancelIsNotForgotten ==
    [][\A t \in Tasks : status[t] = "cancelling" => status'[t] # "running"]_vars

\* Ibid.: a cancel request leaves terminal states without mutation.
CancelSparesTerminal ==
    [][\A t \in Tasks :
        status[t] \in TerminalStatuses => status'[t] # "cancelling"]_vars

\* Ibid.: clean-up must remove only data associated with the cancelled task.
CleanupRemovesOwn ==
    [][\A x \in events \ events' : loop.op = "cleanup" => x.by \in loop.tasks]_vars

=============================================================================
