------------------------ MODULE FolderUploadProofs -------------------------
(***************************************************************************)
(* What an upload's row says about its events, for any number of uploads   *)
(* and files.  Four invariants are inductive on top of the types:          *)
(*   Books      what a worker has committed, created and recorded;         *)
(*   Counted    how many events it commits after a cancel;                 *)
(*   Ownership  which events the recorded ids name;                        *)
(*   Distinct   what a worker has compared its files with.                 *)
(***************************************************************************)
EXTENDS FolderUploadTypes

-----------------------------------------------------------------------------
(* Frames: what a step leaves alone.                                       *)

\* A worker touches nothing of another upload.
LEMMA WorkerFrame ==
    ASSUME TypeInv, NEW t \in Tasks, Worker(t), NEW u \in Tasks, u # t
    PROVE  /\ status'[u] = status[u] /\ recorded'[u] = recorded[u]
           /\ pc'[u] = pc[u] /\ job'[u] = job[u]
           /\ created'[u] = created[u] /\ current'[u] = current[u]
           /\ late'[u] = late[u]
           /\ Own(u)' = Own(u)
<1> USE DEF TypeInv, TypeOK, row, history, WorkerOnly, Goto, SetJob
<1>1. ASSUME NEW o, NEW ids, Return(t, o, ids), UNCHANGED late
      PROVE  /\ status'[u] = status[u] /\ recorded'[u] = recorded[u]
             /\ pc'[u] = pc[u] /\ job'[u] = job[u]
             /\ created'[u] = created[u] /\ current'[u] = current[u]
             /\ late'[u] = late[u] /\ events' = events
    BY <1>1 DEF Return
<1> USE DEF StopIfCancelled, FailWithoutIds
<1>2. CASE WorkerStart(t)
    BY <1>2 DEF WorkerStart, Updated, Own
<1>3. CASE Prepare(t)
    BY <1>1, <1>3 DEF Prepare, Own
<1>4. CASE Validate(t)
    BY <1>1, <1>4 DEF Validate, SetAside, BeginEvent, Own
<1>5. CASE AllValidated(t)
    BY <1>1, <1>5 DEF AllValidated, Own
<1>6. CASE NextEvent(t)
    BY <1>1, <1>6 DEF NextEvent, BeginEvent, Own
<1>7. CASE AllWritten(t)
    BY <1>1, <1>7 DEF AllWritten, Own
<1>8. CASE CommitEvent(t)
    <2>1. CASE Return(t, "failed", created[t]) /\ UNCHANGED late
        BY <1>1, <2>1 DEF Own
    <2>2. CASE ~ (Return(t, "failed", created[t]) /\ UNCHANGED late)
        <3>1. PICK f \in job[t].file :
                events' = events \cup {[id |-> current[t], by |-> t, hash |-> HashOf[f]]}
            BY <1>8, <2>2 DEF CommitEvent
        <3>2. {y \in events' : y.by = u} = {y \in events : y.by = u}
            BY <3>1
        <3>3. /\ UNCHANGED <<status, recorded, created, current>>
              /\ pc'[u] = pc[u] /\ job'[u] = job[u] /\ late'[u] = late[u]
            BY <1>8, <2>2 DEF CommitEvent
        <3> QED
            BY <3>2, <3>3 DEF Own
    <2> QED
        BY <2>1, <2>2
<1>9. CASE AfterCommit(t)
    BY <1>1, <1>9 DEF AfterCommit, Recording, Own
<1>10. CASE Finish(t)
    BY <1>10 DEF Finish, Updated, Recording, EndThreads, Own
<1> QED
    BY <1>2, <1>3, <1>4, <1>5, <1>6, <1>7, <1>8, <1>9, <1>10 DEF Worker

-----------------------------------------------------------------------------
(* The books of an upload: RowKeepsUp and CompletedReportsAll.             *)

Writing == Alive \ {"finish"}

\* An event that is committed but not appended to created_events yet.
Behind(t) == IF pc[t] = "committed" THEN {current[t]} ELSE {}

Book(t) ==
    /\ pc[t] = "unborn" => status[t] = "absent" /\ Own(t) = {} /\ created[t] = {}
    /\ pc[t] \in Writing => Own(t) \subseteq created[t] \cup Behind(t)
    /\ pc[t] \in Writing /\ HasRow(t) => recorded[t] = created[t]
    /\ pc[t] = "finish" /\ HasRow(t) => Own(t) \subseteq recorded[t] \cup {current[t]}
    /\ pc[t] = "finish" /\ job[t].outcome = "completed" => Own(t) \subseteq created[t]
    /\ status[t] = "completed" => pc[t] = "done" /\ Own(t) \subseteq recorded[t]

Books == \A t \in Tasks : Book(t)

\* Whenever ingest returns, the row still tells of all events but the last one,
\* and a success reports them all.
LEMMA BookReturn ==
    ASSUME TypeInv, NEW t \in Tasks, Book(t), pc[t] \in Writing,
           NEW o, NEW ids, Return(t, o, ids),
           o = "completed" => ids = created[t] /\ pc[t] # "committed"
    PROVE  Book(t)'
<1>1. /\ pc'[t] = "finish" /\ job'[t].outcome = o /\ created'[t] = ids
      /\ UNCHANGED <<status, recorded, events, current>>
    BY DEF Return, Goto, SetJob, row, TypeInv, TypeOK, Job
<1>2. Own(t)' = Own(t)
    BY <1>1 DEF Own
<1> QED
    BY <1>1, <1>2 DEF Book, Behind, Writing, Alive, HasRow

LEMMA BookWorker ==
    ASSUME TypeInv, NEW t \in Tasks, Book(t), Worker(t)
    PROVE  Book(t)'
<1> USE DEF TypeInv, TypeOK, row, history, WorkerOnly, Goto, SetJob
<1>1. CASE WorkerStart(t)
    <2>1. Own(t)' = Own(t)
        BY <1>1 DEF WorkerStart, Own
    <2> QED
        BY <1>1, <2>1 DEF WorkerStart, Updated, HasRow, Book, Behind, Writing, Alive
<1> USE DEF StopIfCancelled, FailWithoutIds
<1>2. CASE Prepare(t)
    <2>1. CASE StopIfCancelled(t) \/ FailWithoutIds(t)
        BY <1>2, <2>1, BookReturn DEF Prepare, Writing, Alive
    <2>2. CASE ~ (StopIfCancelled(t) \/ FailWithoutIds(t))
        <3>1. pc[t] = "prepare" /\ pc' = [pc EXCEPT ![t] = "validate"]
                  /\ UNCHANGED <<status, recorded, events, created, current>>
            BY <1>2, <2>2 DEF Prepare
        <3>2. Own(t)' = Own(t)
            BY <3>1 DEF Own
        <3> QED
            BY <3>1, <3>2 DEF HasRow, Book, Behind, Writing, Alive
    <2> QED
        BY <2>1, <2>2
<1>3. CASE Validate(t)
    <2>1. CASE StopIfCancelled(t) \/ FailWithoutIds(t)
        BY <1>3, <2>1, BookReturn DEF Validate, Writing, Alive
    <2>2. CASE ~ (StopIfCancelled(t) \/ FailWithoutIds(t))
        <3>1. PICK f \in job[t].unchecked : SetAside(t, f) \/ BeginEvent(t, f)
            BY <1>3, <2>2 DEF Validate
        <3>2. Own(t)' = Own(t)
            BY <3>1 DEF SetAside, BeginEvent, Own
        <3> QED
            BY <1>3, <3>1, <3>2
               DEF Validate, SetAside, BeginEvent, HasRow, Book, Behind, Writing, Alive
    <2> QED
        BY <2>1, <2>2
<1>4. CASE AllValidated(t)
    <2>1. CASE FailWithoutIds(t) \/ Return(t, "completed", created[t])
        BY <1>4, <2>1, BookReturn DEF AllValidated, Writing, Alive
    <2>2. CASE ~ (FailWithoutIds(t) \/ Return(t, "completed", created[t]))
        <3>1. Own(t)' = Own(t)
            BY <1>4, <2>2 DEF AllValidated, Own
        <3> QED
            BY <1>4, <2>2, <3>1 DEF AllValidated, HasRow, Book, Behind, Writing, Alive
    <2> QED
        BY <2>1, <2>2
<1>5. CASE NextEvent(t)
    <2>1. CASE StopIfCancelled(t)
        BY <1>5, <2>1, BookReturn DEF NextEvent, Writing, Alive
    <2>2. CASE ~ StopIfCancelled(t)
        <3>1. PICK f \in job[t].pending : BeginEvent(t, f)
            BY <1>5, <2>2 DEF NextEvent
        <3>2. Own(t)' = Own(t)
            BY <3>1 DEF BeginEvent, Own
        <3> QED
            BY <1>5, <3>1, <3>2 DEF NextEvent, BeginEvent, HasRow, Book, Behind, Writing, Alive
    <2> QED
        BY <2>1, <2>2
<1>6. CASE AllWritten(t)
    BY <1>6, BookReturn DEF AllWritten, Writing, Alive
<1>7. CASE CommitEvent(t)
    <2>1. CASE Return(t, "failed", created[t])
        BY <1>7, <2>1, BookReturn DEF CommitEvent, Writing, Alive
    <2>2. CASE ~ Return(t, "failed", created[t])
        <3>1. PICK f \in job[t].file :
                events' = events \cup {[id |-> current[t], by |-> t, hash |-> HashOf[f]]}
            BY <1>7, <2>2 DEF CommitEvent
        <3> DEFINE e == [id |-> current[t], by |-> t, hash |-> HashOf[f]]
        <3>2. Own(t)' = Own(t) \cup {current[t]}
            <4>1. {y \in events' : y.by = t} = {y \in events : y.by = t} \cup {e}
                BY <3>1
            <4>2. e.id = current[t]
                OBVIOUS
            <4> HIDE DEF e
            <4> QED
                BY <4>1, <4>2 DEF Own
        <3> QED
            BY <1>7, <2>2, <3>2 DEF CommitEvent, HasRow, Book, Behind, Writing, Alive
    <2> QED
        BY <2>1, <2>2
<1>8. CASE AfterCommit(t)
    <2>1. CASE StopIfCancelled(t) \/ FailWithoutIds(t)
        BY <1>8, <2>1, BookReturn DEF AfterCommit, Writing, Alive
    <2>2. CASE ~ (StopIfCancelled(t) \/ FailWithoutIds(t))
        <3>1. Own(t)' = Own(t)
            BY <1>8, <2>2 DEF AfterCommit, Own
        <3>2. /\ created'[t] = created[t] \cup {current[t]}
              /\ HasRow(t) => recorded'[t] = created[t] \cup {current[t]}
              /\ pc'[t] \in {"next", "validate"} /\ status' = status
            BY <1>8, <2>2 DEF AfterCommit, AppendCreated, Recording
        <3> QED
            BY <1>8, <3>1, <3>2 DEF AfterCommit, HasRow, Book, Behind, Writing, Alive
    <2> QED
        BY <2>1, <2>2
<1>9. CASE Finish(t)
    <2>1. Own(t)' = Own(t)
        BY <1>9 DEF Finish, Own
    <2>2. /\ pc'[t] = "done"
          /\ HasRow(t) => status'[t] = job[t].outcome /\ recorded'[t] = created[t]
          /\ ~HasRow(t) => status'[t] = status[t]
        BY <1>9 DEF Finish, Updated, Recording, EndThreads
    <2> QED
        BY <1>9, <2>1, <2>2 DEF Finish, HasRow, Book, Behind, Writing, Alive
<1> QED
    BY <1>1, <1>2, <1>3, <1>4, <1>5, <1>6, <1>7, <1>8, <1>9 DEF Worker

LEMMA BookRoutes ==
    ASSUME TypeInv, Books, Routes \/ Restart, NEW t \in Tasks
    PROVE  Book(t)'
<1> USE DEF TypeInv, TypeOK, row, thread, history, Books
<1>1. ASSUME NEW u \in Tasks, StartUpload(u)
      PROVE  Book(t)'
    <2>1. /\ pc' = [pc EXCEPT ![u] = "starting"] /\ pc[u] = "unborn"
          /\ UNCHANGED <<events, created, current>>
          /\ \A v \in Tasks : v # u => job'[v] = job[v]
        BY <1>1 DEF StartUpload, Goto, SetJob
    <2>2. Own(t)' = Own(t)
        BY <2>1 DEF Own
    <2>3. \/ status'[t] = "absent" /\ recorded'[t] = {} /\ t # u
          \/ status'[t] = status[t] /\ recorded'[t] = recorded[t] /\ t # u
          \/ status'[t] = "queued" /\ recorded'[t] = {} /\ t = u
        BY <1>1 DEF StartUpload, Updated, HasRow, Book
    <2>4. CASE t = u
        BY <2>1, <2>2, <2>3, <2>4 DEF HasRow, Book, Behind, Writing, Alive
    <2>5. CASE t # u
        <3>1. pc'[t] = pc[t] /\ job'[t] = job[t] /\ Book(t)
            BY <2>1, <2>5
        <3> QED
            BY <2>1, <2>2, <2>3, <2>5, <3>1 DEF HasRow, Book, Behind
    <2> QED
        BY <2>4, <2>5
<1>2. CASE PollRead
    <2>1. /\ UNCHANGED <<events, pc, job, created, current>>
          /\ \/ status'[t] = "absent" /\ recorded'[t] = {}
             \/ status'[t] = status[t] /\ recorded'[t] = recorded[t]
        BY <1>2 DEF PollRead, Updated, HasRow
    <2>2. Own(t)' = Own(t)
        BY <2>1 DEF Own
    <2> QED
        BY <2>1, <2>2 DEF HasRow, Book, Behind, Writing, Alive
<1>3. ASSUME NEW ts, NEW s \in {"failed", "cancelling"}, status' = Updated(ts, s),
             UNCHANGED <<recorded, events, pc, job, created, current>>
      PROVE  Book(t)'
    <2>1. \/ status'[t] = status[t]
          \/ status[t] # "absent" /\ status'[t] = s
        BY <1>3 DEF Updated, HasRow
    <2>2. Own(t)' = Own(t)
        BY <1>3 DEF Own
    <2> QED
        BY <1>3, <2>1, <2>2 DEF HasRow, Book, Behind, Writing, Alive
<1>4. CASE PollWrite
    BY <1>3, <1>4 DEF PollWrite
<1>5. CASE CancelWrite
    BY <1>3, <1>5 DEF CancelWrite
<1>6. ASSUME NEW u \in Tasks, CancelRead(u) \/ CleanupRead(u)
      PROVE  Book(t)'
    <2>1. UNCHANGED <<status, recorded, events, pc, job, created, current>>
        BY <1>6 DEF CancelRead, CleanupRead
    <2> QED
        BY <2>1 DEF HasRow, Book, Behind, Writing, Alive, Own
<1>7. CASE CleanupWrite
    <2>1. UNCHANGED <<status, recorded, pc, job, created, current>> /\ events' \subseteq events
        BY <1>7 DEF CleanupWrite
    <2>2. Own(t)' \subseteq Own(t)
        BY <2>1 DEF Own
    <2> QED
        BY <2>1, <2>2 DEF HasRow, Book, Behind, Writing, Alive
<1>8. CASE Restart
    <2>1. /\ UNCHANGED <<recorded, events>>
          /\ \/ pc[t] \in Alive /\ pc'[t] = "dead"
             \/ pc[t] \notin Alive /\ pc'[t] = pc[t] /\ created'[t] = created[t]
          /\ \/ status[t] # "absent" /\ status'[t] = "failed"
             \/ status'[t] = status[t]
        BY <1>8 DEF Restart, EndThreads, Updated, HasRow
    <2>2. Own(t)' = Own(t)
        BY <2>1 DEF Own
    <2> QED
        BY <2>1, <2>2 DEF HasRow, Book, Behind, Writing, Alive
<1> QED
    BY <1>1, <1>2, <1>4, <1>5, <1>6, <1>7, <1>8 DEF Routes

LEMMA BooksInvariant == Spec => [](TypeInv /\ Books)
<1>1. Init => Books
    BY DEF Init, Books, Book, Own, HasRow, Behind, Writing, Alive
<1>2. TypeInv /\ Books /\ [Next]_vars => Books'
    <2> SUFFICES ASSUME TypeInv, Books, [Next]_vars, NEW t \in Tasks
                 PROVE  Book(t)'
        BY DEF Books
    <2>1. CASE UNCHANGED vars
        BY <2>1 DEF vars, row, thread, Books, Book, Own, HasRow, Behind, Writing, Alive
    <2>2. ASSUME NEW u \in Tasks, Worker(u)
          PROVE  Book(t)'
        <3>1. CASE u = t
            BY <2>2, <3>1, BookWorker DEF Books
        <3>2. CASE u # t
            BY <2>2, <3>2, WorkerFrame DEF Books, Book, HasRow, Behind
        <3> QED
            BY <3>1, <3>2
    <2> QED
        BY <2>1, <2>2, BookRoutes DEF Next
<1> QED
    BY <1>1, <1>2, TypeInvariant, PTL DEF Spec

\* While a worker lives and its row exists, the row lists every event the
\* upload has committed, except at most the one in hand: _record_committed_event
\* keeps up with the transactions whatever the routes do meanwhile.
THEOREM RowKeepsUpHolds == Spec => []RowKeepsUp
<1>1. TypeInv /\ Books => RowKeepsUp
    BY DEF TypeInv, TypeOK, Books, Book, RowKeepsUp, HasRow, Behind, Writing, Alive
<1> QED
    BY <1>1, BooksInvariant, PTL

\* A completed upload answers for every event it left in the table.
THEOREM CompletedReportsAllHolds == Spec => []CompletedReportsAll
<1>1. TypeInv /\ Books => CompletedReportsAll
    BY DEF Books, Book, CompletedReportsAll
<1> QED
    BY <1>1, BooksInvariant, PTL

-----------------------------------------------------------------------------
(* Commits after a cancel: StopsAfterCancel.                               *)

\* Under a cancel request nothing has been committed yet, or the one event in
\* hand has and the worker is about to look at the request.
Counted ==
    \A t \in Tasks : status[t] = "cancelling" =>
        /\ late[t] <= 1
        /\ pc[t] \in Writing \ {"committed"} => late[t] = 0

LEMMA CountedWorker ==
    ASSUME TypeInv, Counted, NEW t \in Tasks, Worker(t), status'[t] = "cancelling"
    PROVE  late'[t] <= 1 /\ (pc'[t] \in Writing \ {"committed"} => late'[t] = 0)
<1> USE DEF TypeInv, TypeOK, Counted, row, history, WorkerOnly, Goto, Writing, Alive,
            CancelRequested
<1>1. ASSUME NEW o, NEW ids, Return(t, o, ids)
      PROVE  pc'[t] = "finish" /\ status'[t] = status[t]
    BY <1>1 DEF Return
<1> USE DEF StopIfCancelled, FailWithoutIds
<1>2. CASE WorkerStart(t)
    BY <1>2 DEF WorkerStart, Updated, HasRow
<1>3. CASE Prepare(t)
    BY <1>1, <1>3 DEF Prepare
<1>4. CASE Validate(t)
    BY <1>1, <1>4 DEF Validate, SetAside, BeginEvent
<1>5. CASE AllValidated(t)
    BY <1>1, <1>5 DEF AllValidated
<1>6. CASE NextEvent(t)
    BY <1>1, <1>6 DEF NextEvent, BeginEvent
<1>7. CASE AllWritten(t)
    BY <1>1, <1>7 DEF AllWritten
<1>8. CASE CommitEvent(t)
    <2>1. CASE Return(t, "failed", created[t]) /\ UNCHANGED late
        BY <1>1, <2>1
    <2>2. CASE ~ (Return(t, "failed", created[t]) /\ UNCHANGED late)
        <3>1. /\ late' = [late EXCEPT ![t] = IF status[t] = "cancelling" THEN @ + 1 ELSE @]
              /\ pc[t] = "commit" /\ pc'[t] = "committed" /\ status' = status
            BY <1>8, <2>2 DEF CommitEvent
        <3> QED
            BY <3>1
    <2> QED
        BY <2>1, <2>2
<1>9. CASE AfterCommit(t)
    BY <1>1, <1>9 DEF AfterCommit
<1>10. CASE Finish(t)
    <2>1. status[t] = "absent" \/ status'[t] = job[t].outcome
        BY <1>10 DEF Finish, Updated, HasRow
    <2>2. job[t].outcome # "cancelling"
        BY <1>10 DEF Finish, Prepared, TerminalStatuses
    <2>3. status[t] = "absent" => status'[t] = "absent"
        BY <1>10 DEF Finish, Updated, HasRow
    <2> QED
        BY <2>1, <2>2, <2>3
<1> QED
    BY <1>2, <1>3, <1>4, <1>5, <1>6, <1>7, <1>8, <1>9, <1>10 DEF Worker

LEMMA CountedRoutes ==
    ASSUME TypeInv, Counted, Routes \/ Restart
    PROVE  Counted'
<1> USE DEF TypeInv, TypeOK, Counted, row, thread, history, Writing, Alive
<1>1. ASSUME NEW u \in Tasks, StartUpload(u)
      PROVE  Counted'
    <2>1. \A t \in Tasks : status'[t] = "cancelling" =>
            status[t] = "cancelling" /\ pc'[t] = pc[t] /\ late'[t] = late[t]
        BY <1>1 DEF StartUpload, Updated, HasRow, Goto
    <2> QED
        BY <2>1
<1>2. CASE PollRead
    BY <1>2 DEF PollRead, Updated, HasRow
<1>3. CASE PollWrite
    BY <1>3 DEF PollWrite, Updated, HasRow
<1>4. CASE CancelWrite
    BY <1>4 DEF CancelWrite, Updated, HasRow
<1>5. ASSUME NEW u \in Tasks, CancelRead(u) \/ CleanupRead(u)
      PROVE  Counted'
    BY <1>5 DEF CancelRead, CleanupRead
<1>6. CASE CleanupWrite
    BY <1>6 DEF CleanupWrite
<1>7. CASE Restart
    BY <1>7 DEF Restart, EndThreads, Updated, HasRow
<1> QED
    BY <1>1, <1>2, <1>3, <1>4, <1>5, <1>6, <1>7 DEF Routes

\* After a cancel is accepted at most one more event is committed: the checks in
\* ingest are close enough, whatever is cancelled, expired or restarted meanwhile.
THEOREM StopsAfterCancelHolds == Spec => []StopsAfterCancel
<1>1. Init => Counted
    BY DEF Init, Counted
<1>2. TypeInv /\ Counted /\ [Next]_vars => Counted'
    <2> SUFFICES ASSUME TypeInv, Counted, [Next]_vars
                 PROVE  Counted'
        OBVIOUS
    <2>1. CASE UNCHANGED vars
        BY <2>1 DEF vars, row, thread, history, Counted
    <2>2. ASSUME NEW u \in Tasks, Worker(u)
          PROVE  Counted'
        <3> SUFFICES ASSUME NEW t \in Tasks, status'[t] = "cancelling"
                     PROVE  late'[t] <= 1 /\ (pc'[t] \in Writing \ {"committed"} => late'[t] = 0)
            BY DEF Counted
        <3>1. CASE u = t
            BY <2>2, <3>1, CountedWorker
        <3>2. CASE u # t
            BY <2>2, <3>2, WorkerFrame DEF Counted
        <3> QED
            BY <3>1, <3>2
    <2> QED
        BY <2>1, <2>2, CountedRoutes DEF Next
<1>3. Counted => StopsAfterCancel
    BY DEF Counted, StopsAfterCancel
<1> QED
    BY <1>1, <1>2, <1>3, TypeInvariant, PTL DEF Spec

-----------------------------------------------------------------------------
(* Whose events the recorded ids name: RecordedIsOwn, and the ledger.      *)

Holds(t, ids) == \A e \in ids : \E x \in events : x.id = e /\ x.by = t

IdsUnique == \A x, y \in events : x.id = y.id => x = y

\* The ids t recorded, created or has in hand after a commit.
KnownIds(t) == recorded[t] \cup created[t] \cup Behind(t)

\* Until t is cleaned up, all of them that are not lost are its own.
Owns(t) == t \notin cleaned => Holds(t, KnownIds(t) \ lost)

\* The clean-up between its read and its write is of one upload; when it is the
\* first of that upload, it is about to delete the upload's own events.
CleanupIsOwn ==
    loop.op = "cleanup" =>
        \E t \in Tasks :
            /\ loop.tasks = {t}
            /\ t \notin cleaned => Holds(t, loop.ids \ lost)

Ownership == IdsUnique /\ CleanupIsOwn /\ \A t \in Tasks : Owns(t)

\* The three ways in which a step changes the event table.
LEMMA EventsStep ==
    ASSUME TypeInv, [Next]_vars
    PROVE  \/ UNCHANGED <<events, cleaned, lost>>
           \/ \E t \in Tasks, h \in Hashes :
                /\ events' = events \cup {[id |-> current[t], by |-> t, hash |-> h]}
                /\ IdIsFree(current[t])
                /\ UNCHANGED <<recorded, created, current, loop, cleaned, lost>>
                /\ pc[t] = "commit" /\ pc' = [pc EXCEPT ![t] = "committed"]
           \/ CleanupWrite
<1> USE DEF row, thread, history, WorkerOnly
<1>1. CASE UNCHANGED vars
    BY <1>1 DEF vars
<1>2. ASSUME NEW t \in Tasks, Worker(t), ~ CommitEvent(t)
      PROVE  UNCHANGED <<events, cleaned, lost>>
    BY <1>2 DEF Worker, WorkerStart, Prepare, Validate, SetAside, BeginEvent, AllValidated,
        NextEvent, AllWritten, AfterCommit, Finish, StopIfCancelled, FailWithoutIds, Return
<1>3. ASSUME NEW t \in Tasks, CommitEvent(t), ~ UNCHANGED <<events, cleaned, lost>>
      PROVE  \E h \in Hashes :
                /\ events' = events \cup {[id |-> current[t], by |-> t, hash |-> h]}
                /\ IdIsFree(current[t])
                /\ UNCHANGED <<recorded, created, current, loop, cleaned, lost>>
                /\ pc[t] = "commit" /\ pc' = [pc EXCEPT ![t] = "committed"]
    <2>1. ~ Return(t, "failed", created[t])
        BY <1>3 DEF CommitEvent, Return
    <2>2. PICK f \in job[t].file :
            events' = events \cup {[id |-> current[t], by |-> t, hash |-> HashOf[f]]}
        BY <1>3, <2>1 DEF CommitEvent
    <2>3. HashOf[f] \in Hashes
        BY FileAssumption DEF TypeInv, TypeOK, Job
    <2> QED
        BY <1>3, <2>1, <2>2, <2>3 DEF CommitEvent, Goto
<1>4. ASSUME Routes \/ Restart
      PROVE  UNCHANGED <<events, cleaned, lost>> \/ CleanupWrite
    BY <1>4 DEF Routes, Restart, StartUpload, PollRead, PollWrite, CancelRead, CancelWrite,
        CleanupRead
<1> QED
    BY <1>1, <1>2, <1>3, <1>4 DEF Next

\* A step that leaves the events alone makes no ids known that were not.
LEMMA KnownIdsWorker ==
    ASSUME TypeInv, NEW t \in Tasks, Worker(t), events' = events
    PROVE  KnownIds(t)' \subseteq KnownIds(t)
<1> USE DEF TypeInv, TypeOK, row, WorkerOnly, Goto, KnownIds, Behind
<1>1. ASSUME NEW o, NEW ids \in {{}, created[t]}, Return(t, o, ids)
      PROVE  KnownIds(t)' \subseteq KnownIds(t)
    BY <1>1 DEF Return
<1> USE DEF StopIfCancelled, FailWithoutIds
<1>2. CASE WorkerStart(t)
    BY <1>2 DEF WorkerStart
<1>3. CASE Prepare(t)
    BY <1>1, <1>3 DEF Prepare
<1>4. CASE Validate(t)
    BY <1>1, <1>4 DEF Validate, SetAside, BeginEvent
<1>5. CASE AllValidated(t)
    BY <1>1, <1>5 DEF AllValidated
<1>6. CASE NextEvent(t)
    BY <1>1, <1>6 DEF NextEvent, BeginEvent
<1>7. CASE AllWritten(t)
    BY <1>1, <1>7 DEF AllWritten
<1>8. CASE CommitEvent(t)
    <2>1. CASE Return(t, "failed", created[t])
        BY <1>1, <2>1
    <2>2. CASE ~ Return(t, "failed", created[t])
        <3>1. PICK f \in job[t].file :
                events' = events \cup {[id |-> current[t], by |-> t, hash |-> HashOf[f]]}
            BY <1>8, <2>2 DEF CommitEvent
        <3>2. [id |-> current[t], by |-> t, hash |-> HashOf[f]] \in events
            BY <3>1
        <3>3. current[t] \in StoredIds
            BY <3>2 DEF StoredIds
        <3> QED
            BY <1>8, <2>2, <3>3 DEF CommitEvent, IdIsFree
    <2> QED
        BY <2>1, <2>2
<1>9. CASE AfterCommit(t)
    BY <1>1, <1>9 DEF AfterCommit, AppendCreated, Recording
<1>10. CASE Finish(t)
    BY <1>10 DEF Finish, Recording, EndThreads
<1> QED
    BY <1>2, <1>3, <1>4, <1>5, <1>6, <1>7, <1>8, <1>9, <1>10 DEF Worker

LEMMA KnownIdsStep ==
    ASSUME TypeInv, [Next]_vars, events' = events, NEW t \in Tasks
    PROVE  KnownIds(t)' \subseteq KnownIds(t)
<1> USE DEF TypeInv, TypeOK, row, thread, history, WorkerOnly, Goto
<1>1. CASE UNCHANGED vars
    BY <1>1 DEF vars, KnownIds, Behind
<1>2. ASSUME NEW u \in Tasks, Worker(u)
      PROVE  KnownIds(t)' \subseteq KnownIds(t)
    <2>1. CASE u = t
        BY <1>2, <2>1, KnownIdsWorker
    <2>2. CASE u # t
        BY <1>2, <2>2, WorkerFrame DEF KnownIds, Behind
    <2> QED
        BY <2>1, <2>2
<1>3. CASE Routes
    <2>1. /\ recorded'[t] \subseteq recorded[t] /\ created'[t] = created[t]
          /\ current'[t] = current[t] /\ (pc'[t] = pc[t] \/ pc'[t] = "starting")
        BY <1>3 DEF Routes, StartUpload, PollRead, PollWrite, CancelRead, CancelWrite,
            CleanupRead, CleanupWrite
    <2> QED
        BY <2>1 DEF KnownIds, Behind
<1>4. CASE Restart
    BY <1>4 DEF Restart, EndThreads, KnownIds, Behind
<1> QED
    BY <1>1, <1>2, <1>3, <1>4 DEF Next

\* A clean-up is in progress because it was, or because it has just begun.
LEMMA LoopStep ==
    ASSUME [Next]_vars
    PROVE  loop'.op = "cleanup" => loop' = loop \/ \E t \in Tasks : CleanupRead(t)
<1> USE DEF row, thread, history, WorkerOnly, Idle
<1>1. CASE UNCHANGED vars
    BY <1>1 DEF vars
<1>2. ASSUME NEW t \in Tasks, Worker(t)
      PROVE  loop' = loop
    BY <1>2 DEF Worker, WorkerStart, Prepare, Validate, AllValidated, NextEvent, AllWritten,
        CommitEvent, AfterCommit, Finish
<1>3. CASE Routes
    <2>1. CASE PollRead
        <3>1. loop'.op # "cleanup"
            BY <2>1 DEF PollRead
        <3> QED
            BY <3>1
    <2>2. ASSUME NEW t \in Tasks, StartUpload(t)
          PROVE  loop' = loop
        BY <2>2 DEF StartUpload
    <2>3. ASSUME NEW t \in Tasks, CancelRead(t)
          PROVE  loop'.op # "cleanup"
        BY <2>3 DEF CancelRead
    <2>4. CASE PollWrite \/ CancelWrite \/ CleanupWrite
        <3>1. loop' = Idle
            BY <2>4 DEF PollWrite, CancelWrite, CleanupWrite
        <3> QED
            BY <3>1
    <2> QED
        BY <1>3, <2>1, <2>2, <2>3, <2>4 DEF Routes
<1>4. CASE Restart
    BY <1>4 DEF Restart
<1> QED
    BY <1>1, <1>2, <1>3, <1>4 DEF Next

LEMMA OwnershipStep ==
    ASSUME TypeInv, Ownership, [Next]_vars
    PROVE  Ownership'
<1> USE DEF TypeInv, TypeOK
<1>1. CASE UNCHANGED <<events, cleaned, lost>>
    <2>1. IdsUnique'
        BY <1>1 DEF Ownership, IdsUnique
    <2>2. ASSUME NEW t \in Tasks
          PROVE  Owns(t)'
        BY <1>1, KnownIdsStep DEF Ownership, Owns, Holds
    <2>3. CleanupIsOwn'
        <3>1. CASE \E t \in Tasks : CleanupRead(t)
            <4>1. PICK t \in Tasks : CleanupRead(t)
                BY <3>1
            <4>2. loop' = [op |-> "cleanup", tasks |-> {t}, ids |-> CleanupCandidates(t)]
                BY <4>1 DEF CleanupRead
            <4>3. t \notin cleaned => Holds(t, CleanupCandidates(t) \ lost)
                BY DEF Ownership, Owns, KnownIds, CleanupCandidates, Holds
            <4> QED
                BY <1>1, <4>2, <4>3 DEF CleanupIsOwn, Holds
        <3>2. CASE loop' = loop
            BY <1>1, <3>2 DEF Ownership, CleanupIsOwn, Holds
        <3> QED
            BY <3>1, <3>2, LoopStep DEF CleanupIsOwn
    <2> QED
        BY <2>1, <2>2, <2>3 DEF Ownership
<1>2. ASSUME NEW t \in Tasks, NEW h \in Hashes,
             events' = events \cup {[id |-> current[t], by |-> t, hash |-> h]},
             IdIsFree(current[t]),
             UNCHANGED <<recorded, created, current, loop, cleaned, lost>>,
             pc[t] = "commit", pc' = [pc EXCEPT ![t] = "committed"]
      PROVE  Ownership'
    <2> DEFINE e == [id |-> current[t], by |-> t, hash |-> h]
    <2>1. e \in events' /\ e.id = current[t] /\ e.by = t /\ events \subseteq events'
        BY <1>2
    <2>2. \A x \in events' : x = e \/ x \in events
        BY <1>2
    <2>3. \A x \in events : x.id # e.id
        BY <1>2 DEF IdIsFree, StoredIds
    <2> HIDE DEF e
    <2>4. IdsUnique'
        BY <2>2, <2>3 DEF Ownership, IdsUnique
    <2>5. ASSUME NEW u \in Tasks
          PROVE  Owns(u)'
        <3>1. KnownIds(u)' \subseteq KnownIds(u) \cup (IF u = t THEN {current[t]} ELSE {})
            BY <1>2 DEF KnownIds, Behind
        <3> QED
            BY <1>2, <2>1, <3>1 DEF Ownership, Owns, Holds
    <2>6. CleanupIsOwn'
        BY <1>2, <2>1 DEF Ownership, CleanupIsOwn, Holds
    <2> QED
        BY <2>4, <2>5, <2>6 DEF Ownership
<1>3. CASE CleanupWrite
    <2>1. PICK c \in Tasks : /\ loop.tasks = {c}
                             /\ c \notin cleaned => Holds(c, loop.ids \ lost)
        BY <1>3 DEF CleanupWrite, Ownership, CleanupIsOwn
    <2>2. /\ events' = {x \in events : x.id \notin loop.ids} /\ cleaned' = cleaned \cup {c}
          /\ lost' = lost \cup (IF c \in cleaned THEN loop.ids ELSE {})
          /\ loop' = Idle /\ UNCHANGED <<recorded, created, current, pc>>
        <3>1. loop.tasks \subseteq cleaned <=> c \in cleaned
            BY <2>1
        <3>2. lost' = lost \cup (IF loop.tasks \subseteq cleaned THEN loop.ids ELSE {})
            BY <1>3 DEF CleanupWrite
        <3>3. lost' = lost \cup (IF c \in cleaned THEN loop.ids ELSE {})
            <4> HIDE DEF TypeInv, TypeOK
            <4> QED
                BY <3>1, <3>2, Zenon
        <3> QED
            BY <1>3, <2>1, <3>3 DEF CleanupWrite, row, thread
    <2>3. IdsUnique'
        BY <2>2 DEF Ownership, IdsUnique
    <2>4. ASSUME NEW u \in Tasks, u \notin cleaned'
          PROVE  Holds(u, KnownIds(u) \ lost)'
        <3>1. SUFFICES ASSUME NEW i \in KnownIds(u) \ lost'
                       PROVE  \E x \in events' : x.id = i /\ x.by = u
            BY <2>2 DEF Holds, KnownIds, Behind
        <3>2. PICK x \in events : x.id = i /\ x.by = u
            BY <2>2, <2>4 DEF Ownership, Owns, Holds
        <3>3. x.id \notin loop.ids
            <4>1. CASE c \in cleaned
                BY <2>2, <3>2, <4>1
            <4>2. CASE c \notin cleaned
                <5>1. lost' = lost /\ Holds(c, loop.ids \ lost) /\ u # c
                    BY <2>1, <2>2, <2>4, <4>2
                <5>2. \A y \in events : y.id = x.id => y = x
                    BY <3>2 DEF Ownership, IdsUnique
                <5> QED
                    BY <3>2, <5>1, <5>2 DEF Holds
            <4> QED
                BY <4>1, <4>2
        <3> QED
            BY <2>2, <3>2, <3>3
    <2>5. CleanupIsOwn'
        BY <2>2 DEF CleanupIsOwn, Idle
    <2> QED
        BY <2>3, <2>4, <2>5 DEF Ownership, Owns
<1> QED
    BY <1>1, <1>2, <1>3, EventsStep

LEMMA OwnershipInvariant == Spec => [](TypeInv /\ Ownership)
<1>1. Init => Ownership
    BY DEF Init, Ownership, IdsUnique, CleanupIsOwn, Owns, Holds, KnownIds, Behind, Idle
<1>2. TypeInv /\ Ownership /\ [Next]_vars => Ownership'
    BY OwnershipStep
<1> QED
    BY <1>1, <1>2, TypeInvariant, PTL DEF Spec

\* Every event id a task records names the event that task committed, until the
\* task is cleaned up, except where a clean-up asked for again has deleted the id.
THEOREM RecordedIsOwnHolds == Spec => []RecordedIsOwn
<1>1. Ownership => RecordedIsOwn
    BY DEF Ownership, Owns, Holds, KnownIds, RecordedIsOwn
<1> QED
    BY <1>1, OwnershipInvariant, PTL

\* Uploads implement the ledger: a commit takes a free id, the first clean-up of
\* an upload removes events of that upload only or under ids already lost, and
\* what a clean-up asked for again removes is under ids that it makes lost.
THEOREM LedgerImplemented == Spec => ImplementsLedger
<1>1. Init => Ledger!Init
    BY DEF Init, Ledger!Init
<1>2. TypeInv /\ Ownership /\ [Next]_vars => [Ledger!Next]_<<events, cleaned, lost>>
    <2> SUFFICES ASSUME TypeInv, Ownership, [Next]_vars, ~ UNCHANGED <<events, cleaned, lost>>
                 PROVE  Ledger!Next
        OBVIOUS
    <2>1. ASSUME NEW t \in Tasks, NEW h \in Hashes, IdIsFree(current[t]),
                 UNCHANGED <<cleaned, lost>>,
                 events' = events \cup {[id |-> current[t], by |-> t, hash |-> h]}
          PROVE  Ledger!Next
        <3> DEFINE e == [id |-> current[t], by |-> t, hash |-> h]
        <3>1. e \in events' \ events /\ e.by = t /\ \A x \in events : x.id # e.id
            BY <2>1 DEF IdIsFree, StoredIds
        <3> QED
            BY <2>1, <3>1 DEF Ledger!Next, Ledger!Commit
    <2>2. CASE CleanupWrite
        <3>1. PICK c \in Tasks : /\ loop.tasks = {c}
                                 /\ c \notin cleaned => Holds(c, loop.ids \ lost)
            BY <2>2 DEF CleanupWrite, Ownership, CleanupIsOwn
        <3>2. /\ events' = {x \in events : x.id \notin loop.ids} /\ cleaned' = cleaned \cup {c}
              /\ lost' = lost \cup (IF c \in cleaned THEN loop.ids ELSE {})
            <4>1. loop.tasks \subseteq cleaned <=> c \in cleaned
                BY <3>1
            <4>2. lost' = lost \cup (IF loop.tasks \subseteq cleaned THEN loop.ids ELSE {})
                BY <2>2 DEF CleanupWrite
            <4>3. lost' = lost \cup (IF c \in cleaned THEN loop.ids ELSE {})
                BY <4>1, <4>2, Zenon
            <4> QED
                BY <2>2, <3>1, <4>3 DEF CleanupWrite
        <3>3. CASE c \notin cleaned
            <4>1. ASSUME NEW x \in events \ events', x.id \notin lost
                  PROVE  x.by = c
                <5>1. x.id \in loop.ids \ lost
                    BY <3>2, <4>1
                <5>2. PICK y \in events : y.id = x.id /\ y.by = c
                    BY <3>1, <3>3, <5>1 DEF Holds
                <5> QED
                    BY <5>2 DEF Ownership, IdsUnique
            <4> QED
                BY <3>2, <3>3, <4>1 DEF Ledger!Next, Ledger!Withdraw
        <3>4. CASE c \in cleaned
            BY <3>2, <3>4 DEF Ledger!Next, Ledger!WithdrawAgain
        <3> QED
            BY <3>3, <3>4
    <2> QED
        BY <2>1, <2>2, EventsStep
<1> QED
    BY <1>1, <1>2, OwnershipInvariant, PTL DEF Spec, ImplementsLedger, Ledger!Spec

-----------------------------------------------------------------------------
(* Duplicates: what a worker compares with, and who it meets.              *)

\* A worker past its snapshot of hashes.
Comparing == {"validate", "next", "commit", "committed"}

\* The snapshot misses only events of uploads that are in progress with this
\* one, and of its own when a channel map came with it; the files it is going
\* to write are not among those it knows.
Compared(t) ==
    /\ pc[t] \in {"unborn", "starting", "prepare"} => job[t].pending = {}
    /\ job[t].pending # {} => job[t].mapped
    /\ pc[t] \in Comparing =>
        /\ \A x \in events : x.by # t =>
               x.hash \in job[t].hashes \/ <<x.by, t>> \in overlap
        /\ \A x \in events : x.by = t /\ ~job[t].mapped => x.hash \in job[t].hashes
        /\ \A f \in job[t].pending : HashOf[f] \notin job[t].hashes
    /\ pc[t] = "commit" => \A f \in job[t].file : HashOf[f] \notin job[t].hashes

\* Two uploads in progress have met, and meeting is mutual.
Meeting ==
    /\ \A t, u \in Tasks : t # u /\ pc[t] \in Alive /\ pc[u] \in Alive => <<t, u>> \in overlap
    /\ \A t, u \in Tasks : <<t, u>> \in overlap => <<u, t>> \in overlap

\* Only an upload that was started has events.
Born == \A x \in events : pc[x.by] # "unborn"

Distinct ==
    /\ Meeting /\ Born /\ DuplicatesNeedOverlap
    /\ \A t \in Tasks : Compared(t)

LEMMA WorkerMeetsNobody ==
    ASSUME TypeInv, NEW t \in Tasks, Worker(t)
    PROVE  overlap' = overlap /\ pc[t] \in Alive /\ pc'[t] # "unborn"
<1> USE DEF TypeInv, TypeOK, WorkerOnly, history, Goto, Alive
<1>1. CASE WorkerStart(t)
    BY <1>1 DEF WorkerStart
<1> USE DEF StopIfCancelled, FailWithoutIds, Return
<1>2. CASE Prepare(t)
    BY <1>2 DEF Prepare
<1>3. CASE Validate(t)
    BY <1>3 DEF Validate, SetAside, BeginEvent
<1>4. CASE AllValidated(t)
    BY <1>4 DEF AllValidated
<1>5. CASE NextEvent(t)
    BY <1>5 DEF NextEvent, BeginEvent
<1>6. CASE AllWritten(t)
    BY <1>6 DEF AllWritten
<1>7. CASE CommitEvent(t)
    BY <1>7 DEF CommitEvent
<1>8. CASE AfterCommit(t)
    BY <1>8 DEF AfterCommit
<1>9. CASE Finish(t)
    BY <1>9 DEF Finish, EndThreads
<1> QED
    BY <1>1, <1>2, <1>3, <1>4, <1>5, <1>6, <1>7, <1>8, <1>9 DEF Worker

\* A worker's step but a commit: only its own snapshot is at stake.
LEMMA QuietStep ==
    ASSUME TypeInv, Distinct, NEW t \in Tasks, Worker(t), events' = events,
           job'[t].mapped = job[t].mapped, Compared(t)'
    PROVE  Distinct'
<1>1. overlap' = overlap /\ pc[t] \in Alive /\ pc'[t] # "unborn"
    BY WorkerMeetsNobody
<1>2. \A u \in Tasks : u # t => pc'[u] = pc[u] /\ job'[u] = job[u]
    BY WorkerFrame
<1>3. Meeting'
    BY <1>1, <1>2 DEF Distinct, Meeting
<1>4. \A x \in events : x.by \in Tasks
    BY DEF TypeInv, TypeOK
<1>5. Born'
    BY <1>1, <1>2, <1>4 DEF Distinct, Born
<1>6. DuplicatesNeedOverlap'
    <2>1. \A u \in Tasks : job'[u].mapped = job[u].mapped
        BY <1>2
    <2> QED
        BY <1>1, <1>4, <2>1 DEF Distinct, DuplicatesNeedOverlap
<1>7. ASSUME NEW u \in Tasks
      PROVE  Compared(u)'
    <2>1. CASE u = t
        BY <2>1
    <2>2. CASE u # t
        BY <1>1, <1>2, <2>2 DEF Distinct, Compared
    <2> QED
        BY <2>1, <2>2
<1> QED
    BY <1>3, <1>5, <1>6, <1>7 DEF Distinct

LEMMA ComparedReturn ==
    ASSUME TypeInv, Distinct, NEW t \in Tasks, Worker(t), NEW o, NEW ids, Return(t, o, ids)
    PROVE  Distinct'
<1>1. /\ pc'[t] = "finish" /\ job'[t].mapped = job[t].mapped
      /\ job'[t].pending = job[t].pending /\ events' = events
    BY DEF Return, Goto, SetJob, TypeInv, TypeOK, Job
<1>2. Compared(t)'
    BY <1>1 DEF Distinct, Compared, Comparing
<1> QED
    BY <1>1, <1>2, QuietStep

LEMMA ComparedBegin ==
    ASSUME TypeInv, Distinct, NEW t \in Tasks, Worker(t), NEW f \in Files, BeginEvent(t, f),
           pc[t] \in {"validate", "next"}, HashOf[f] \notin job[t].hashes
    PROVE  Distinct'
<1>1. /\ pc'[t] = "commit" /\ job'[t].mapped = job[t].mapped /\ events' = events
      /\ job'[t].pending = job[t].pending \ {f} /\ job'[t].file = {f}
      /\ job'[t].hashes = job[t].hashes
    BY DEF BeginEvent, Goto, SetJob, TypeInv, TypeOK, Job
<1>2. overlap' = overlap
    BY WorkerMeetsNobody
<1>3. Compared(t)'
    BY <1>1, <1>2 DEF Distinct, Compared, Comparing
<1> QED
    BY <1>1, <1>3, QuietStep

LEMMA DistinctWorker ==
    ASSUME TypeInv, Distinct, NEW t \in Tasks, Worker(t)
    PROVE  Distinct'
<1>0. overlap' = overlap
    BY WorkerMeetsNobody
<1>1. CASE WorkerStart(t)
    <2>1. pc'[t] = "prepare" /\ pc[t] = "starting" /\ job' = job /\ events' = events
        BY <1>1 DEF WorkerStart, Goto, TypeInv, TypeOK
    <2>2. Compared(t)'
        BY <2>1 DEF Distinct, Compared, Comparing
    <2> QED
        BY <2>1, <2>2, QuietStep
<1>2. CASE Prepare(t)
    <2>1. CASE StopIfCancelled(t) \/ FailWithoutIds(t)
        BY <2>1, ComparedReturn DEF StopIfCancelled, FailWithoutIds
    <2>2. CASE ~ (StopIfCancelled(t) \/ FailWithoutIds(t))
        <3>1. /\ pc'[t] = "validate" /\ pc[t] = "prepare" /\ events' = events
              /\ job'[t].hashes = StoredHashes /\ job'[t].mapped = job[t].mapped
              /\ job'[t].pending = job[t].pending
            <4>1. PICK batch, ids : job' = [job EXCEPT ![t] =
                    [job[t] EXCEPT !.unchecked = batch, !.hashes = StoredHashes, !.ids = ids]]
                BY <1>2, <2>2 DEF Prepare, SetJob
            <4>2. pc[t] = "prepare" /\ pc' = [pc EXCEPT ![t] = "validate"] /\ events' = events
                BY <1>2, <2>2 DEF Prepare, Goto
            <4>3. job[t] \in Job /\ pc'[t] = "validate"
                BY <4>2 DEF TypeInv, TypeOK
            <4>4. job'[t] = [job[t] EXCEPT !.unchecked = batch, !.hashes = StoredHashes, !.ids = ids]
                BY <4>1 DEF TypeInv, TypeOK
            <4> QED
                BY <4>2, <4>3, <4>4 DEF Job
        <3>2. Compared(t)'
            BY <1>0, <3>1 DEF Distinct, Compared, Comparing, StoredHashes
        <3> QED
            BY <3>1, <3>2, QuietStep
    <2> QED
        BY <2>1, <2>2
<1>3. CASE Validate(t)
    <2>1. CASE StopIfCancelled(t) \/ FailWithoutIds(t)
        BY <2>1, ComparedReturn DEF StopIfCancelled, FailWithoutIds
    <2>2. CASE ~ (StopIfCancelled(t) \/ FailWithoutIds(t))
        <3>1. PICK f \in job[t].unchecked :
                /\ HashOf[f] \notin job[t].hashes /\ pc[t] = "validate"
                /\ IF job[t].mapped THEN SetAside(t, f) ELSE BeginEvent(t, f)
            BY <1>3, <2>2 DEF Validate
        <3>2. f \in Files
            BY DEF TypeInv, TypeOK, Job
        <3>3. CASE BeginEvent(t, f)
            BY <3>1, <3>2, <3>3, ComparedBegin
        <3>4. CASE job[t].mapped /\ SetAside(t, f)
            <4>1. /\ pc' = pc /\ job'[t].mapped = job[t].mapped /\ events' = events
                  /\ job'[t].pending = job[t].pending \cup {f}
                  /\ job'[t].hashes = job[t].hashes
                BY <3>4 DEF SetAside, SetJob, TypeInv, TypeOK, Job
            <4>2. Compared(t)'
                BY <1>0, <3>1, <3>4, <4>1 DEF Distinct, Compared, Comparing
            <4> QED
                BY <4>1, <4>2, QuietStep
        <3> QED
            BY <3>1, <3>3, <3>4
    <2> QED
        BY <2>1, <2>2
<1>4. CASE AllValidated(t)
    <2>1. CASE FailWithoutIds(t) \/ Return(t, "completed", created[t])
        BY <2>1, ComparedReturn DEF FailWithoutIds
    <2>2. CASE ~ (FailWithoutIds(t) \/ Return(t, "completed", created[t]))
        <3>1. /\ pc'[t] = "next" /\ pc[t] = "validate" /\ events' = events
              /\ job'[t].hashes = job[t].hashes /\ job'[t].mapped = job[t].mapped
              /\ job'[t].pending = job[t].pending
            BY <1>4, <2>2 DEF AllValidated, Goto, SetJob, TypeInv, TypeOK, Job
        <3>2. Compared(t)'
            BY <1>0, <3>1 DEF Distinct, Compared, Comparing
        <3> QED
            BY <3>1, <3>2, QuietStep
    <2> QED
        BY <2>1, <2>2
<1>5. CASE NextEvent(t)
    <2>1. PICK f \in job[t].pending : StopIfCancelled(t) \/ BeginEvent(t, f)
        BY <1>5 DEF NextEvent
    <2>2. CASE StopIfCancelled(t)
        BY <2>2, ComparedReturn DEF StopIfCancelled
    <2>3. CASE BeginEvent(t, f)
        <3>1. pc[t] = "next" /\ f \in Files
            BY <1>5 DEF NextEvent, TypeInv, TypeOK, Job
        <3>2. HashOf[f] \notin job[t].hashes
            BY <3>1 DEF Distinct, Compared, Comparing
        <3> QED
            BY <2>3, <3>1, <3>2, ComparedBegin
    <2> QED
        BY <2>1, <2>2, <2>3
<1>6. CASE AllWritten(t)
    BY <1>6, ComparedReturn DEF AllWritten, FailWithoutIds
<1>7. CASE CommitEvent(t)
    <2>1. CASE Return(t, "failed", created[t])
        BY <2>1, ComparedReturn
    <2>2. CASE ~ Return(t, "failed", created[t])
        <3>1. PICK f \in job[t].file :
                /\ events' = events \cup {[id |-> current[t], by |-> t, hash |-> HashOf[f]]}
                /\ SetJob(t, [job[t] EXCEPT
                              !.ids = @ \cup {current[t]},
                              !.hashes = @ \cup IF job[t].mapped THEN {} ELSE {HashOf[f]}])
            BY <1>7, <2>2 DEF CommitEvent
        <3>2. PICK h \in Hashes : h = HashOf[f]
            BY FileAssumption DEF TypeInv, TypeOK, Job
        <3>3. /\ pc[t] = "commit" /\ pc'[t] = "committed"
              /\ job'[t].mapped = job[t].mapped /\ job'[t].pending = job[t].pending
              /\ job'[t].hashes = job[t].hashes \cup IF job[t].mapped THEN {} ELSE {h}
            <4>1. PICK H : H = job[t].hashes \cup IF job[t].mapped THEN {} ELSE {h}
                OBVIOUS
            <4>2. PICK I : I = job[t].ids \cup {current[t]}
                OBVIOUS
            <4>3. job' = [job EXCEPT ![t] = [job[t] EXCEPT !.ids = I, !.hashes = H]]
                BY <3>1, <3>2, <4>1, <4>2 DEF SetJob
            <4>4. job[t] \in Job /\ job'[t] = [job[t] EXCEPT !.ids = I, !.hashes = H]
                BY <4>3 DEF TypeInv, TypeOK
            <4>5. pc[t] = "commit" /\ pc' = [pc EXCEPT ![t] = "committed"]
                BY <1>7, <2>2 DEF CommitEvent, Goto
            <4>6. pc'[t] = "committed"
                BY <4>5 DEF TypeInv, TypeOK
            <4> QED
                BY <4>1, <4>4, <4>5, <4>6 DEF Job
        <3>4. h \notin job[t].hashes
            BY <3>2, <3>3 DEF Distinct, Compared
        <3>5. PICK e \in events' : /\ e.by = t /\ e.hash = h
                                  /\ \A x \in events' : x = e \/ x \in events
            BY <3>1, <3>2
        <3>6. events \subseteq events' /\ \A x \in events : x.by \in Tasks
            BY <3>1 DEF TypeInv, TypeOK
        <3>7. \A u \in Tasks : u # t => pc'[u] = pc[u] /\ job'[u] = job[u]
            BY WorkerFrame
        <3>8. pc[t] \in Alive
            BY WorkerMeetsNobody
        <3>9. Meeting'
            BY <1>0, <3>3, <3>7, <3>8 DEF Distinct, Meeting
        <3>10. Born'
            BY <3>3, <3>5, <3>6, <3>7 DEF Distinct, Born
        <3>11. \A x \in events : x.hash = h =>
                  IF x.by = t THEN job[t].mapped ELSE <<x.by, t>> \in overlap
            BY <3>3, <3>4 DEF Distinct, Compared, Comparing
        <3>12. \A x \in events : x.hash = h =>
                  x.by = t \/ (<<x.by, t>> \in overlap /\ <<t, x.by>> \in overlap)
            BY <3>6, <3>11 DEF Distinct, Meeting
        <3>13. \A u \in Tasks : job'[u].mapped = job[u].mapped
            BY <3>3, <3>7
        <3>14. DuplicatesNeedOverlap'
            <4> SUFFICES ASSUME NEW x \in events', NEW y \in events', x # y, x.hash = y.hash
                         PROVE  IF x.by = y.by THEN job'[x.by].mapped
                                ELSE <<x.by, y.by>> \in overlap'
                BY DEF DuplicatesNeedOverlap
            <4>1. CASE x \in events /\ y \in events
                BY <1>0, <3>6, <3>13, <4>1 DEF Distinct, DuplicatesNeedOverlap
            <4>2. CASE x = e /\ y \in events
                BY <1>0, <3>5, <3>11, <3>12, <3>13, <4>2
            <4>3. CASE y = e /\ x \in events
                BY <1>0, <3>5, <3>11, <3>12, <3>13, <4>3
            <4> QED
                BY <3>5, <4>1, <4>2, <4>3
        <3>15. ASSUME NEW u \in Tasks, u # t
               PROVE  Compared(u)'
            <4>1. pc[u] \in Comparing => <<t, u>> \in overlap
                BY <3>8, <3>15 DEF Distinct, Meeting, Comparing, Alive
            <4> QED
                BY <1>0, <3>5, <3>7, <3>15, <4>1 DEF Distinct, Compared, Comparing
        <3>16. Compared(t)'
            BY <1>0, <3>3, <3>4, <3>5 DEF Distinct, Compared, Comparing
        <3>17. \A u \in Tasks : Compared(u)'
            <4> TAKE u \in Tasks
            <4>1. CASE u = t
                BY <3>16, <4>1
            <4>2. CASE u # t
                BY <3>15, <4>2
            <4> QED
                BY <4>1, <4>2
        <3> QED
            BY <3>9, <3>10, <3>14, <3>17 DEF Distinct
    <2> QED
        BY <2>1, <2>2
<1>8. CASE AfterCommit(t)
    <2>1. CASE StopIfCancelled(t) \/ FailWithoutIds(t)
        BY <2>1, ComparedReturn DEF StopIfCancelled, FailWithoutIds
    <2>2. CASE ~ (StopIfCancelled(t) \/ FailWithoutIds(t))
        <3>1. /\ pc'[t] \in {"next", "validate"} /\ pc[t] = "committed"
              /\ events' = events /\ job' = job
            BY <1>8, <2>2 DEF AfterCommit, Goto, TypeInv, TypeOK
        <3>2. Compared(t)'
            BY <1>0, <3>1 DEF Distinct, Compared, Comparing
        <3> QED
            BY <3>1, <3>2, QuietStep
    <2> QED
        BY <2>1, <2>2
<1>9. CASE Finish(t)
    <2>1. /\ pc'[t] = "done" /\ events' = events
          /\ job'[t].pending = {} /\ job'[t].mapped = job[t].mapped
        BY <1>9 DEF Finish, EndThreads, NoJob
    <2>2. Compared(t)'
        BY <2>1 DEF Compared, Comparing
    <2> QED
        BY <2>1, <2>2, QuietStep
<1> QED
    BY <1>1, <1>2, <1>3, <1>4, <1>5, <1>6, <1>7, <1>8, <1>9 DEF Worker

LEMMA DistinctRoutes ==
    ASSUME TypeInv, Distinct, Routes \/ Restart
    PROVE  Distinct'
<1> USE DEF TypeInv, TypeOK
<1>1. ASSUME NEW t \in Tasks, StartUpload(t)
      PROVE  Distinct'
    <2>1. /\ pc[t] = "unborn" /\ pc' = [pc EXCEPT ![t] = "starting"] /\ events' = events
          /\ job'[t].pending = job[t].pending
          /\ \A u \in Tasks : u # t => job'[u] = job[u]
          /\ overlap' = overlap \cup
                UNION {{<<t, u>>, <<u, t>>} : u \in {v \in Tasks : pc[v] \in Alive}}
        BY <1>1 DEF StartUpload, Goto, SetJob, Job
    <2>2. pc'[t] = "starting" /\ \A u \in Tasks : u # t => pc'[u] = pc[u]
        BY <2>1
    <2>3. \A u \in Tasks : pc[u] \in Alive => <<t, u>> \in overlap' /\ <<u, t>> \in overlap'
        BY <2>1
    <2>4. overlap \subseteq overlap'
        BY <2>1
    <2>5. \A u, v \in Tasks : <<u, v>> \in overlap' => <<v, u>> \in overlap'
        BY <2>1 DEF Distinct, Meeting
    <2>6. Meeting'
        BY <2>2, <2>3, <2>4, <2>5 DEF Distinct, Meeting
    <2>7. \A x \in events : x.by \in Tasks /\ x.by # t
        BY <2>1 DEF Distinct, Born
    <2>8. Born'
        BY <2>1, <2>2, <2>7 DEF Distinct, Born
    <2>9. DuplicatesNeedOverlap'
        BY <2>1, <2>4, <2>7 DEF Distinct, DuplicatesNeedOverlap
    <2>10. ASSUME NEW u \in Tasks
           PROVE  Compared(u)'
        <3>1. CASE u = t
            BY <2>1, <2>2, <3>1 DEF Distinct, Compared, Comparing
        <3>2. CASE u # t
            BY <2>1, <2>2, <2>4, <3>2 DEF Distinct, Compared
        <3> QED
            BY <3>1, <3>2
    <2> QED
        BY <2>6, <2>8, <2>9, <2>10 DEF Distinct
<1>2. ASSUME UNCHANGED <<pc, job, overlap>>, events' \subseteq events
      PROVE  Distinct'
    <2>1. Meeting' /\ Born'
        BY <1>2 DEF Distinct, Meeting, Born
    <2>2. DuplicatesNeedOverlap'
        BY <1>2 DEF Distinct, DuplicatesNeedOverlap
    <2>3. \A u \in Tasks : Compared(u)'
        BY <1>2 DEF Distinct, Compared
    <2> QED
        BY <2>1, <2>2, <2>3 DEF Distinct
<1>3. CASE PollRead \/ PollWrite \/ CancelWrite \/ CleanupWrite
    BY <1>2, <1>3 DEF PollRead, PollWrite, CancelWrite, CleanupWrite, thread, history
<1>4. ASSUME NEW t \in Tasks, CancelRead(t) \/ CleanupRead(t)
      PROVE  Distinct'
    BY <1>2, <1>4 DEF CancelRead, CleanupRead, thread, history
<1>5. CASE Restart
    <2>1. /\ events' = events /\ overlap' = overlap
          /\ \A t \in Tasks :
                \/ pc[t] \in Alive /\ pc'[t] = "dead" /\ job'[t].pending = {}
                   /\ job'[t].mapped = job[t].mapped
                \/ pc[t] \notin Alive /\ pc'[t] = pc[t] /\ job'[t] = job[t]
        BY <1>5 DEF Restart, EndThreads, history, NoJob
    <2>2. "dead" \notin Alive /\ \A x \in events : x.by \in Tasks
        BY DEF Alive
    <2>3. Meeting' /\ Born'
        BY <2>1, <2>2 DEF Distinct, Meeting, Born
    <2>4. DuplicatesNeedOverlap'
        <3>1. \A u \in Tasks : job'[u].mapped = job[u].mapped
            BY <2>1
        <3> QED
            BY <2>1, <2>2, <3>1 DEF Distinct, DuplicatesNeedOverlap
    <2>5. \A u \in Tasks : Compared(u)'
        BY <2>1 DEF Distinct, Compared, Comparing, Alive
    <2> QED
        BY <2>3, <2>4, <2>5 DEF Distinct
<1> QED
    BY <1>1, <1>3, <1>4, <1>5 DEF Routes

\* The same content is stored twice only by uploads that were in progress together,
\* or by one batch that came with a channel map: existing_hashes is a snapshot, but
\* whatever was committed before it was taken is in it.
THEOREM DuplicatesNeedOverlapHolds == Spec => []DuplicatesNeedOverlap
<1>1. Init => Distinct
    BY DEF Init, Distinct, Meeting, Born, DuplicatesNeedOverlap, Compared, Comparing, NoJob, Alive
<1>2. TypeInv /\ Distinct /\ [Next]_vars => Distinct'
    <2> SUFFICES ASSUME TypeInv, Distinct, [Next]_vars
                 PROVE  Distinct'
        OBVIOUS
    <2>1. CASE UNCHANGED vars
        BY <2>1 DEF vars, thread, history, Distinct, Meeting, Born, DuplicatesNeedOverlap, Compared
    <2> QED
        BY <2>1, DistinctWorker, DistinctRoutes DEF Next
<1>3. Distinct => DuplicatesNeedOverlap
    BY DEF Distinct
<1> QED
    BY <1>1, <1>2, <1>3, TypeInvariant, PTL DEF Spec

\* What EventLedger promises is enough for ids: in any of its behaviours no two
\* events share one, even after a clean-up asked for again (_generate_event_id).
THEOREM LedgerGivesIdsOnce == Ledger!Spec => []Ledger!OneHolder
<1>1. Ledger!Init => Ledger!OneHolder
    BY DEF Ledger!Init, Ledger!OneHolder
<1>2. Ledger!OneHolder /\ [Ledger!Next]_<<events, cleaned, lost>> => Ledger!OneHolder'
    <2>1. ASSUME Ledger!OneHolder, events' \subseteq events
          PROVE  Ledger!OneHolder'
        BY <2>1 DEF Ledger!OneHolder
    <2>2. ASSUME Ledger!OneHolder, NEW t \in Tasks, Ledger!Commit(t)
          PROVE  Ledger!OneHolder'
        BY <2>2 DEF Ledger!Commit, Ledger!OneHolder
    <2> QED
        BY <2>1, <2>2 DEF Ledger!Next, Ledger!Withdraw, Ledger!WithdrawAgain
<1> QED
    BY <1>1, <1>2, PTL DEF Ledger!Spec

=============================================================================
