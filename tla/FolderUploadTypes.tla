------------------------- MODULE FolderUploadTypes -------------------------
(***************************************************************************)
(* FolderUpload keeps its types, for any number of uploads and files.      *)
(***************************************************************************)
EXTENDS FolderUpload, FiniteSetTheorems, TLAPS

USE DEF ActiveStatuses, TerminalStatuses, ActiveWithoutCancelling, CleanableStatuses

-----------------------------------------------------------------------------
(* Event ids.                                                              *)

\* Some suffix up to the number of taken ids is free: the pigeonhole principle.
LEMMA FreeSuffix ==
    ASSUME NEW name \in Names, NEW taken, IsFiniteSet(taken)
    PROVE  \E n \in 0..Cardinality(taken) : <<name, n>> \notin taken
<1> DEFINE k == Cardinality(taken)
           f == [n \in 0..k |-> <<name, n>>]
<1>1. k \in Nat
    BY FS_CardinalityType
<1>2. IsFiniteSet(0..k) /\ Cardinality(0..k) = k + 1
    BY <1>1, FS_Interval
<1>3. SUFFICES ASSUME \A n \in 0..k : <<name, n>> \in taken
               PROVE  FALSE
    OBVIOUS
<1>4. f \in [0..k -> taken]
    BY <1>3
<1>5. Cardinality(taken) < Cardinality(0..k)
    BY <1>1, <1>2
<1>6. \E m, n \in 0..k : m # n /\ f[m] = f[n]
    <2> HIDE DEF f
    <2> QED
        BY <1>2, <1>4, <1>5, FS_PigeonHole
<1> QED
    BY <1>6

\* The least suffix with a property exists: a set of naturals has a least
\* element, seen through the initial segments that end at its elements.
LEMMA LeastNatural ==
    ASSUME NEW S \in SUBSET Nat, S # {}
    PROVE  \E n \in S : \A m \in S : n <= m
<1> DEFINE Segments == {0..n : n \in S}
<1>1. Segments \subseteq FiniteSubsetsOf(Nat)
    <2>1. ASSUME NEW n \in S
          PROVE  0..n \in SUBSET Nat /\ IsFiniteSet(0..n)
        BY FS_Interval
    <2> QED
        BY <2>1 DEF FiniteSubsetsOf
<1>2. Segments # {}
    OBVIOUS
<1>3. PICK s \in Segments :
        \A r \in Segments : ~ (<<r, s>> \in StrictSubsetOrdering(Nat))
    BY <1>1, <1>2, FS_StrictSubsetOrderingWellFounded, WFMin
<1>4. PICK n \in S : s = 0..n
    OBVIOUS
<1>5. ASSUME NEW m \in S, m < n
      PROVE  FALSE
    <2>1. 0..m \in Segments
        OBVIOUS
    <2>2. <<0..m, s>> \in StrictSubsetOrdering(Nat)
        BY <1>4, <1>5 DEF StrictSubsetOrdering
    <2> QED
        BY <1>3, <2>1, <2>2
<1> QED
    BY <1>5

\* _generate_event_id returns an id, and one that is not taken.
LEMMA GeneratedIdIsFresh ==
    ASSUME NEW name \in Names, NEW taken, IsFiniteSet(taken)
    PROVE  /\ GenerateEventId(name, taken) \in EventId
           /\ GenerateEventId(name, taken) \notin taken
<1> DEFINE k == Cardinality(taken)
           Free == {n \in 0..k : <<name, n>> \notin taken}
<1>1. k \in Nat
    BY FS_CardinalityType
<1>2. Free # {} /\ Free \in SUBSET Nat
    BY <1>1, FreeSuffix
<1>3. PICK n \in Free : \A m \in Free : n <= m
    BY <1>2, LeastNatural
<1>4. \A m \in 0..(n - 1) : <<name, m>> \in taken
    BY <1>1, <1>3
<1> QED
    BY <1>1, <1>3, <1>4 DEF GenerateEventId, EventId

-----------------------------------------------------------------------------
(* Type correctness.  The ids a worker avoids are a finite set: this is    *)
(* what makes a free suffix exist.                                         *)

Status == {"absent"} \cup ActiveStatuses \cup TerminalStatuses

FiniteTables == IsFiniteSet(events) /\ \A t \in Tasks : IsFiniteSet(job[t].ids)

\* A worker about to write has an id, one about to finish has an outcome.
Prepared ==
    \A t \in Tasks :
        /\ pc[t] \in {"commit", "committed"} => current[t] \in EventId
        /\ pc[t] = "finish" => job[t].outcome \in TerminalStatuses

TypeInv == TypeOK /\ FiniteTables /\ Prepared

LEMMA UpdatedType ==
    ASSUME TypeOK, NEW s \in Status \ {"absent"}, NEW ts
    PROVE  /\ Updated(ts, s) \in [Tasks -> Status]
           /\ \A t \in Tasks : Updated(ts, s)[t] = "absent" <=> status[t] = "absent"
BY DEF TypeOK, Status, Updated, HasRow

LEMMA RecordingType ==
    ASSUME TypeOK, NEW t \in Tasks, NEW ids \in SUBSET EventId
    PROVE  /\ Recording(t, ids) \in [Tasks -> SUBSET EventId]
           /\ \A u \in Tasks : status[u] = "absent" => Recording(t, ids)[u] = {}
BY DEF TypeOK, Recording, HasRow

LEMMA StoredIdsFinite ==
    ASSUME TypeInv
    PROVE  StoredIds \subseteq EventId /\ IsFiniteSet(StoredIds)
<1>1. StoredIds \subseteq EventId
    BY DEF TypeInv, TypeOK, StoredIds
<1>2. IsFiniteSet(StoredIds)
    <2> DEFINE f == [x \in events |-> x.id]
    <2>1. f \in Surjection(events, StoredIds)
        BY DEF Surjection, StoredIds
    <2> QED
        BY <2>1, FS_Surjection DEF TypeInv, FiniteTables
<1> QED
    BY <1>1, <1>2

\* The jobs that the worker's steps make, field by field.
LEMMA JobFields ==
    ASSUME NEW j \in Job
    PROVE  /\ \A o \in Outcomes : [j EXCEPT !.outcome = o] \in Job
           /\ \A h \in SUBSET Hashes : [j EXCEPT !.hashes = h] \in Job
           /\ \A i \in SUBSET EventId : [j EXCEPT !.ids = i] \in Job
           /\ \A u \in SUBSET Files :
                /\ [j EXCEPT !.unchecked = u] \in Job
                /\ [j EXCEPT !.pending = u] \in Job
                /\ [j EXCEPT !.file = u] \in Job
           /\ \A m \in BOOLEAN : [j EXCEPT !.mapped = m] \in Job
BY DEF Job

\* Every way in which ingest returns keeps the types.
LEMMA ReturnType ==
    ASSUME TypeInv, NEW t \in Tasks, NEW outcome \in TerminalStatuses,
           NEW ids \in SUBSET EventId, Return(t, outcome, ids),
           UNCHANGED <<loop, cleaned, lost, overlap>>, late' \in [Tasks -> Nat]
    PROVE  TypeInv'
<1> USE DEF TypeInv, TypeOK, FiniteTables, Return, Goto, SetJob, row
<1>1. job' \in [Tasks -> Job]
    BY JobFields DEF Outcomes
<1>2. \A u \in Tasks : job'[u].ids = job[u].ids
                      /\ job'[u].outcome = IF u = t THEN outcome ELSE job[u].outcome
    BY DEF Job
<1>3. pc' \in [Tasks -> {"unborn", "done", "dead"} \cup Alive]
    BY DEF Alive
<1>4. Prepared'
    BY <1>2 DEF Prepared
<1> QED
    BY <1>1, <1>2, <1>3, <1>4

LEMMA EarlyReturnType ==
    ASSUME TypeInv, NEW t \in Tasks, StopIfCancelled(t) \/ FailWithoutIds(t), WorkerOnly
    PROVE  TypeInv'
<1>1. created[t] \in SUBSET EventId /\ {} \in SUBSET EventId
    BY DEF TypeInv, TypeOK
<1>2. late' \in [Tasks -> Nat] /\ UNCHANGED <<loop, cleaned, lost, overlap>>
    BY DEF TypeInv, TypeOK, WorkerOnly, history
<1> QED
    BY <1>1, <1>2, ReturnType DEF StopIfCancelled, FailWithoutIds

\* The threads that end leave well-formed locals.
LEMMA EndThreadsType ==
    ASSUME TypeInv, NEW ts, NEW place \in {"done", "dead"}, EndThreads(ts, place)
    PROVE  /\ pc' \in [Tasks -> {"unborn", "done", "dead"} \cup Alive]
           /\ job' \in [Tasks -> Job]
           /\ created' \in [Tasks -> SUBSET EventId]
           /\ current' \in [Tasks -> EventId \cup {NoEvent}]
           /\ \A t \in Tasks : IsFiniteSet(job'[t].ids)
           /\ Prepared'
<1> USE DEF TypeInv, TypeOK, EndThreads
<1>1. pc' \in [Tasks -> {"unborn", "done", "dead"} \cup Alive]
    OBVIOUS
<1>2. created' \in [Tasks -> SUBSET EventId] /\ current' \in [Tasks -> EventId \cup {NoEvent}]
    OBVIOUS
<1>3. ASSUME NEW t \in Tasks
      PROVE  job'[t] \in Job /\ IsFiniteSet(job'[t].ids)
    <2>1. CASE t \in ts
        <3>1. job'[t] = [NoJob EXCEPT !.mapped = job[t].mapped]
            BY <2>1
        <3>2. NoJob \in Job /\ job[t].mapped \in BOOLEAN
            BY DEF NoJob, Job, Outcomes
        <3> QED
            BY <3>1, <3>2, JobFields, FS_EmptySet DEF NoJob
    <2>2. CASE t \notin ts
        BY <2>2 DEF FiniteTables
    <2> QED
        BY <2>1, <2>2
<1>4. Prepared'
    BY DEF Prepared
<1> QED
    BY <1>1, <1>2, <1>3, <1>4 DEF EndThreads

\* A worker's own update of its job.
LEMMA SetJobType ==
    ASSUME TypeInv, NEW t \in Tasks, NEW j \in Job, IsFiniteSet(j.ids),
           SetJob(t, j)
    PROVE  /\ job' \in [Tasks -> Job]
           /\ \A u \in Tasks : /\ IsFiniteSet(job'[u].ids)
                               /\ u # t => job'[u] = job[u]
BY DEF TypeInv, TypeOK, FiniteTables, SetJob

LEMMA SetAsideType ==
    ASSUME TypeInv, NEW t \in Tasks, NEW f \in job[t].unchecked, SetAside(t, f), WorkerOnly
    PROVE  TypeInv'
<1> DEFINE j == [job[t] EXCEPT !.unchecked = job[t].unchecked \ {f},
                               !.pending = job[t].pending \cup {f}]
<1>1. SetJob(t, j)
    BY DEF SetAside
<1>2. j \in Job /\ j.ids = job[t].ids
    BY DEF Job, TypeInv, TypeOK
<1>3. /\ job' \in [Tasks -> Job]
      /\ \A u \in Tasks : IsFiniteSet(job'[u].ids) /\ (u # t => job'[u] = job[u])
    <2> HIDE DEF j
    <2> QED
        BY <1>1, <1>2, SetJobType DEF FiniteTables, TypeInv
<1> QED
    BY <1>1, <1>3 DEF SetAside, SetJob, WorkerOnly, FiniteTables, Prepared, TypeInv, TypeOK, row, history

LEMMA BeginEventType ==
    ASSUME TypeInv, NEW t \in Tasks, NEW f \in job[t].unchecked \cup job[t].pending,
           BeginEvent(t, f), WorkerOnly
    PROVE  TypeInv'
<1> DEFINE j == [job[t] EXCEPT !.unchecked = job[t].unchecked \ {f},
                               !.pending = job[t].pending \ {f},
                               !.file = {f}]
<1>1. SetJob(t, j)
    BY DEF BeginEvent
<1>2. f \in Files /\ j \in Job /\ j.ids = job[t].ids
    BY DEF Job, TypeInv, TypeOK
<1>3. /\ job' \in [Tasks -> Job]
      /\ \A u \in Tasks : IsFiniteSet(job'[u].ids) /\ (u # t => job'[u] = job[u])
    <2> HIDE DEF j
    <2> QED
        BY <1>1, <1>2, SetJobType DEF FiniteTables, TypeInv
<1>4. /\ current' \in [Tasks -> EventId \cup {NoEvent}]
      /\ current'[t] \in EventId
    BY <1>2, GeneratedIdIsFresh, FileAssumption
       DEF FiniteTables, TypeInv, TypeOK, BeginEvent
<1>5. pc' \in [Tasks -> {"unborn", "done", "dead"} \cup Alive]
    BY DEF BeginEvent, Goto, Alive, TypeInv, TypeOK
<1>6. Prepared'
    BY <1>3, <1>4 DEF BeginEvent, Goto, Prepared, TypeInv, TypeOK
<1> QED
    BY <1>3, <1>4, <1>5, <1>6
       DEF BeginEvent, WorkerOnly, FiniteTables, TypeInv, TypeOK, row, history

LEMMA TypeInit == Init => TypeInv
<1> SUFFICES ASSUME Init
             PROVE  TypeInv
    OBVIOUS
<1>1. NoJob \in Job /\ IsFiniteSet(NoJob.ids)
    BY FS_EmptySet DEF Job, NoJob, Outcomes
<1>2. Idle \in Handler
    BY DEF Idle, Handler
<1>3. TypeOK
    BY <1>1, <1>2 DEF Init, TypeOK
<1>4. FiniteTables
    BY <1>1, FS_EmptySet DEF Init, FiniteTables
<1>5. Prepared
    BY DEF Init, Prepared
<1> QED
    BY <1>3, <1>4, <1>5 DEF TypeInv

\* A step of a worker.
LEMMA TypeWorker ==
    ASSUME TypeInv, NEW t \in Tasks, Worker(t)
    PROVE  TypeInv'
<1> USE DEF TypeInv, TypeOK
<1> DEFINE Places == {"unborn", "done", "dead"} \cup Alive
<1>0. \A place \in Alive : Goto(t, place) => pc' \in [Tasks -> Places]
    BY DEF Goto
<1>1. CASE WorkerStart(t)
    <2>1. status' \in [Tasks -> Status]
              /\ \A u \in Tasks : status'[u] = "absent" <=> status[u] = "absent"
        BY <1>1, UpdatedType DEF WorkerStart, Status
    <2>2. pc' \in [Tasks -> Places]
        BY <1>0, <1>1 DEF WorkerStart, Alive
    <2>3. Prepared'
        BY <1>1 DEF WorkerStart, Goto, Prepared
    <2> QED
        BY <1>1, <2>1, <2>2, <2>3 DEF WorkerStart, WorkerOnly, FiniteTables, Status, history
<1>2. CASE Prepare(t)
    <2>1. CASE StopIfCancelled(t) \/ FailWithoutIds(t)
        BY <1>2, <2>1, EarlyReturnType DEF Prepare
    <2>2. CASE ~ (StopIfCancelled(t) \/ FailWithoutIds(t))
        <3> DEFINE ids == IF job[t].mapped THEN {} ELSE StoredIds
        <3>1. ids \in SUBSET EventId /\ IsFiniteSet(ids)
            BY StoredIdsFinite, FS_EmptySet
        <3>2. StoredHashes \in SUBSET Hashes
            BY DEF StoredHashes
        <3>3. PICK batch \in SUBSET job[t].unchecked :
                SetJob(t, [job[t] EXCEPT !.unchecked = batch, !.hashes = StoredHashes, !.ids = ids])
            BY <1>2, <2>2 DEF Prepare
        <3> DEFINE j == [job[t] EXCEPT !.unchecked = batch, !.hashes = StoredHashes, !.ids = ids]
        <3>4. j \in Job /\ j.ids = ids
            <4> HIDE DEF ids
            <4> QED
                BY <3>1, <3>2 DEF Job
        <3>5. /\ job' \in [Tasks -> Job]
              /\ \A u \in Tasks : IsFiniteSet(job'[u].ids) /\ (u # t => job'[u] = job[u])
            <4>1. SetJob(t, j)
                BY <3>3
            <4> HIDE DEF ids, j
            <4> QED
                BY <3>1, <3>4, <4>1, SetJobType
        <3>6. pc' \in [Tasks -> Places]
            BY <1>0, <1>2, <2>2 DEF Prepare, Alive
        <3>7. Prepared'
            BY <1>2, <2>2, <3>5 DEF Prepare, Goto, Prepared
        <3> QED
            BY <1>2, <2>2, <3>5, <3>6, <3>7 DEF Prepare, WorkerOnly, FiniteTables, row, history
    <2> QED
        BY <2>1, <2>2
<1>3. CASE Validate(t)
    BY <1>3, EarlyReturnType, SetAsideType, BeginEventType DEF Validate
<1>4. CASE AllValidated(t)
    <2>1. created[t] \in SUBSET EventId
              /\ (WorkerOnly => late' \in [Tasks -> Nat] /\ UNCHANGED <<loop, cleaned, lost, overlap>>)
        BY DEF WorkerOnly, history
    <2>2. CASE FailWithoutIds(t) \/ Return(t, "completed", created[t])
        BY <1>4, <2>1, <2>2, EarlyReturnType, ReturnType DEF AllValidated
    <2>3. CASE ~ (FailWithoutIds(t) \/ Return(t, "completed", created[t]))
        <3> DEFINE j == [job[t] EXCEPT !.ids = StoredIds]
        <3>1. SetJob(t, j)
            BY <1>4, <2>3 DEF AllValidated
        <3>2. j \in Job /\ IsFiniteSet(j.ids)
            BY StoredIdsFinite DEF Job
        <3>3. /\ job' \in [Tasks -> Job]
              /\ \A u \in Tasks : IsFiniteSet(job'[u].ids) /\ (u # t => job'[u] = job[u])
            <4> HIDE DEF j
            <4> QED
                BY <3>1, <3>2, SetJobType
        <3>4. pc' \in [Tasks -> Places]
            BY <1>0, <1>4, <2>3 DEF AllValidated, Alive
        <3>5. Prepared'
            BY <1>4, <2>3, <3>3 DEF AllValidated, Goto, Prepared
        <3> QED
            BY <1>4, <2>3, <3>3, <3>4, <3>5
               DEF AllValidated, WorkerOnly, FiniteTables, row, history
    <2> QED
        BY <2>2, <2>3
<1>5. CASE NextEvent(t)
    BY <1>5, EarlyReturnType, BeginEventType DEF NextEvent
<1>6. CASE AllWritten(t)
    <2>1. created[t] \in SUBSET EventId
              /\ (WorkerOnly => late' \in [Tasks -> Nat] /\ UNCHANGED <<loop, cleaned, lost, overlap>>)
        BY DEF WorkerOnly, history
    <2> QED
        BY <1>6, <2>1, EarlyReturnType, ReturnType DEF AllWritten
<1>7. CASE CommitEvent(t)
    <2>1. CASE Return(t, "failed", created[t]) /\ UNCHANGED late
        <3>1. created[t] \in SUBSET EventId /\ late' \in [Tasks -> Nat]
            BY <2>1
        <3> QED
            BY <1>7, <2>1, <3>1, ReturnType DEF CommitEvent
    <2>2. CASE ~ (Return(t, "failed", created[t]) /\ UNCHANGED late)
        <3>1. PICK f \in job[t].file :
                /\ events' = events \cup {[id |-> current[t], by |-> t, hash |-> HashOf[f]]}
                /\ SetJob(t, [job[t] EXCEPT
                              !.ids = @ \cup {current[t]},
                              !.hashes = @ \cup IF job[t].mapped THEN {} ELSE {HashOf[f]}])
                /\ late' = [late EXCEPT ![t] = IF status[t] = "cancelling" THEN @ + 1 ELSE @]
                /\ Goto(t, "committed")
                /\ UNCHANGED <<row, created, current, loop, cleaned, lost, overlap>>
            BY <1>7, <2>2 DEF CommitEvent
        <3> DEFINE j == [job[t] EXCEPT
                          !.ids = @ \cup {current[t]},
                          !.hashes = @ \cup IF job[t].mapped THEN {} ELSE {HashOf[f]}]
        <3>2. HashOf[f] \in Hashes /\ current[t] \in EventId
            BY <1>7, FileAssumption DEF Job, Prepared, CommitEvent
        <3>3. j \in Job /\ j.ids = job[t].ids \cup {current[t]}
            BY <3>2 DEF Job
        <3>4. /\ job' \in [Tasks -> Job]
              /\ \A u \in Tasks : IsFiniteSet(job'[u].ids) /\ (u # t => job'[u] = job[u])
            <4>1. SetJob(t, j)
                BY <3>1
            <4>2. IsFiniteSet(job[t].ids \cup {current[t]})
                <5>1. IsFiniteSet(job[t].ids)
                    BY DEF FiniteTables
                <5> HIDE DEF TypeInv, TypeOK
                <5> QED
                    BY <5>1, FS_AddElement, Zenon
            <4> HIDE DEF j
            <4> QED
                BY <3>3, <4>1, <4>2, SetJobType
        <3>5. events' \subseteq [id: EventId, by: Tasks, hash: Hashes]
            BY <3>1, <3>2
        <3>6. IsFiniteSet(events')
            BY <3>1, FS_AddElement DEF FiniteTables
        <3>7. late' \in [Tasks -> Nat]
            BY <3>1
        <3>8. pc' \in [Tasks -> Places]
            BY <1>0, <3>1 DEF Alive
        <3>9. Prepared'
            BY <3>1, <3>2, <3>4 DEF Goto, Prepared
        <3> QED
            BY <3>1, <3>4, <3>5, <3>6, <3>7, <3>8, <3>9 DEF FiniteTables, row
    <2> QED
        BY <2>1, <2>2
<1>8. CASE AfterCommit(t)
    <2>1. CASE StopIfCancelled(t) \/ FailWithoutIds(t)
        BY <1>8, <2>1, EarlyReturnType DEF AfterCommit
    <2>2. CASE ~ (StopIfCancelled(t) \/ FailWithoutIds(t))
        <3>1. AppendCreated(t) \in SUBSET EventId
            BY <1>8 DEF AfterCommit, AppendCreated, Prepared
        <3>2. pc' \in [Tasks -> Places]
            BY <1>0, <1>8, <2>2 DEF AfterCommit, Alive
        <3>3. Prepared'
            BY <1>8, <2>2 DEF AfterCommit, Goto, Prepared
        <3> QED
            BY <1>8, <2>2, <3>1, <3>2, <3>3, RecordingType
               DEF AfterCommit, WorkerOnly, FiniteTables, history
    <2> QED
        BY <2>1, <2>2
<1>9. CASE Finish(t)
    <2>1. job[t].outcome \in Status \ {"absent"}
        BY <1>9 DEF Finish, Prepared, Status
    <2> QED
        BY <1>9, <2>1, EndThreadsType, UpdatedType, RecordingType
           DEF Finish, WorkerOnly, FiniteTables, Status, history
<1> QED
    BY <1>1, <1>2, <1>3, <1>4, <1>5, <1>6, <1>7, <1>8, <1>9 DEF Worker

\* A step of a route, or a restart.
LEMMA TypeRoutes ==
    ASSUME TypeInv, Routes \/ Restart
    PROVE  TypeInv'
<1> USE DEF TypeInv, TypeOK, row, thread, history
<1> DEFINE Places == {"unborn", "done", "dead"} \cup Alive
<1>0. ASSUME NEW gone \in ExpiredSets
      PROVE  Updated(gone, "absent") \in [Tasks -> Status]
    BY DEF Updated, Status
<1>1. ASSUME NEW t \in Tasks, StartUpload(t)
      PROVE  TypeInv'
    <2>1. PICK gone \in ExpiredSets, batch \in SUBSET Files, mapped \in BOOLEAN :
            /\ status' = [Updated(gone, "absent") EXCEPT ![t] = "queued"]
            /\ recorded' = [u \in Tasks |-> IF u \in gone THEN {} ELSE recorded[u]]
            /\ SetJob(t, [job[t] EXCEPT !.unchecked = batch, !.mapped = mapped])
        BY <1>1 DEF StartUpload
    <2>2. status' \in [Tasks -> Status]
        BY <1>0, <2>1 DEF Status
    <2>3. /\ recorded' \in [Tasks -> SUBSET EventId]
          /\ \A u \in Tasks : status'[u] = "absent" => recorded'[u] = {}
        BY <2>1 DEF Updated
    <2> DEFINE j == [job[t] EXCEPT !.unchecked = batch, !.mapped = mapped]
    <2>4. SetJob(t, j) /\ j \in Job /\ j.ids = job[t].ids
        BY <2>1 DEF Job
    <2>5. /\ job' \in [Tasks -> Job]
          /\ \A u \in Tasks : IsFiniteSet(job'[u].ids) /\ (u # t => job'[u] = job[u])
        <3> HIDE DEF j
        <3> QED
            BY <2>4, SetJobType DEF FiniteTables
    <2>6. pc' \in [Tasks -> Places] /\ Prepared'
        BY <1>1, <2>5 DEF StartUpload, Goto, Alive, Prepared
    <2>7. overlap' \subseteq Tasks \X Tasks
        BY <1>1 DEF StartUpload
    <2> QED
        BY <1>1, <2>2, <2>3, <2>5, <2>6, <2>7 DEF StartUpload, FiniteTables, Status
<1>2. CASE PollRead
    <2>1. PICK gone \in ExpiredSets :
            /\ status' = Updated(gone, "absent")
            /\ recorded' = [u \in Tasks |-> IF u \in gone THEN {} ELSE recorded[u]]
            /\ \E stale \in SUBSET {t \in Tasks : status'[t] \in ActiveStatuses} :
                loop' = IF stale = {} THEN Idle
                        ELSE [op |-> "reconcile", tasks |-> stale, ids |-> {}]
        BY <1>2 DEF PollRead
    <2>2. status' \in [Tasks -> Status]
        BY <1>0, <2>1
    <2>3. /\ recorded' \in [Tasks -> SUBSET EventId]
          /\ \A u \in Tasks : status'[u] = "absent" => recorded'[u] = {}
        BY <2>1 DEF Updated
    <2>4. loop' \in Handler
        BY <2>1 DEF Handler, Idle
    <2> QED
        BY <1>2, <2>2, <2>3, <2>4 DEF PollRead, FiniteTables, Prepared, Status
<1>3. CASE PollWrite
    BY <1>3, UpdatedType DEF PollWrite, FiniteTables, Prepared, Status, Handler, Idle
<1>4. ASSUME NEW t \in Tasks, CancelRead(t)
      PROVE  TypeInv'
    BY <1>4 DEF CancelRead, FiniteTables, Prepared, Handler
<1>5. CASE CancelWrite
    BY <1>5, UpdatedType DEF CancelWrite, FiniteTables, Prepared, Status, Handler, Idle
<1>6. ASSUME NEW t \in Tasks, CleanupRead(t)
      PROVE  TypeInv'
    BY <1>6 DEF CleanupRead, CleanupCandidates, FiniteTables, Prepared, Handler
<1>7. CASE CleanupWrite
    <2>1. IsFiniteSet(events')
        BY <1>7, FS_Subset DEF CleanupWrite, FiniteTables
    <2>2. lost' \subseteq EventId
        BY <1>7 DEF CleanupWrite, Handler
    <2> QED
        BY <1>7, <2>1, <2>2 DEF CleanupWrite, FiniteTables, Prepared, Handler, Idle
<1>8. CASE Restart
    BY <1>8, UpdatedType, EndThreadsType
       DEF Restart, FiniteTables, Status, Handler, Idle
<1> QED
    BY <1>1, <1>2, <1>3, <1>4, <1>5, <1>6, <1>7, <1>8 DEF Routes

LEMMA TypeInvariant == Spec => []TypeInv
<1>1. TypeInv /\ [Next]_vars => TypeInv'
    <2> SUFFICES ASSUME TypeInv, [Next]_vars
                 PROVE  TypeInv'
        OBVIOUS
    <2>1. CASE UNCHANGED vars
        BY <2>1 DEF vars, row, thread, history, TypeInv, TypeOK, FiniteTables, Prepared
    <2> QED
        BY <2>1, TypeWorker, TypeRoutes DEF Next
<1> QED
    BY <1>1, TypeInit, PTL DEF Spec

\* Every behaviour keeps the types: statuses, ids and the workers' locals, with
\* any number of uploads, files, expiries, cancels, clean-ups and restarts.
THEOREM TypeCorrect == Spec => []TypeOK
<1>1. TypeInv => TypeOK
    BY DEF TypeInv
<1> QED
    BY <1>1, TypeInvariant, PTL

=============================================================================
