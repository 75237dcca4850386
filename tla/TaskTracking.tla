---------------------------- MODULE TaskTracking ----------------------------
(***************************************************************************)
(* How the client follows the derived tasks of one program/version:        *)
(* createDerivedTaskScopeStore (stores/derived-task-scope-store.ts), its    *)
(* two instances (channel-reprocess-store.ts, damage-calculation-store.ts),*)
(* the poll loop (lib/api/task-polling.ts) and the responses that start a   *)
(* poll.  The two stores meet where a reprocess names its follow-up, and   *)
(* where the server answers with a task of the other kind: no store asks   *)
(* what kind of task it is given to follow.                                *)
(*                                                                         *)
(* The browser runs one callback at a time; a step ends at an await.  The  *)
(* scopes of a store share nothing, so there is one scope here.            *)
(***************************************************************************)
EXTENDS Naturals, FiniteSets

CONSTANTS
    Tasks,          \* derived tasks of the scope
    NoTask,         \* taskId ""
    Blocked,        \* the follow-up of a reprocess whose schedule is unfit
    MaxRequests     \* bound: requests and page loads of a behaviour

Kinds == {"reprocess", "damage"}

ASSUME TaskAssumption ==
    /\ NoTask \notin Tasks /\ Blocked \notin Tasks /\ NoTask # Blocked
    /\ MaxRequests \in Nat

VARIABLES
    srv,        \* srv[t]: status of the task's row on the server
    kind,       \* kind[t]: its task_kind
    follow,     \* follow[t]: damage task t will name in its result, or neither
    inbox,      \* answers under way to this tab
    asked,      \* how many requests were sent
    entry,      \* entry[k]: state.scopes[scope] of a store
    poll,       \* poll[k][t]: where waitForTaskStatus and its caller stand
    crossed,    \* history: stores in which a poll outlived its entry
    rejoined,   \* history: a calculation was tracked anew as its poll ended
    gaveUp      \* history: gaveUp[k]: tasks whose poll ended in an exception

server == <<srv, kind, follow>>
client == <<entry, poll, crossed, rejoined, gaveUp>>
vars == <<server, inbox, asked, client>>

Active == {"running", "cancelling"}
Terminal == {"completed", "failed", "cancelled"}
OnServer == {t \in Tasks : srv[t] \in Active}
Unborn == {t \in Tasks : srv[t] = "absent"}

Absent == [task |-> NoTask, status |-> "none", step |-> "none", open |-> FALSE,
           origin |-> "none", report |-> FALSE]
Present(k) == entry[k] # Absent

NoPoll == [at |-> "off", seen |-> "none"]
Polled(k, t) == poll[k][t].at # "off"     \* activePolls.has(t)

Init ==
    /\ srv = [t \in Tasks |-> "absent"]
    /\ kind = [t \in Tasks |-> "none"]
    /\ follow = [t \in Tasks |-> NoTask]
    /\ inbox = {}
    /\ asked = 0
    /\ entry = [k \in Kinds |-> Absent]
    /\ poll = [k \in Kinds |-> [t \in Tasks |-> NoPoll]]
    /\ crossed = {}
    /\ rejoined = FALSE
    /\ gaveUp = [k \in Kinds |-> {}]

-----------------------------------------------------------------------------
(* The server, as DerivedTasks has it: a reprocess starts when no task is  *)
(* active; a calculation also beside one (a backfill, a follow-up, or a    *)
(* race of the two), and otherwise the active task is answered instead.    *)

Starts(t, k) ==
    /\ k = "reprocess" => OnServer = {}
    /\ srv' = [srv EXCEPT ![t] = "running"]
    /\ kind' = [kind EXCEPT ![t] = k]
    /\ UNCHANGED follow

Answer(k, t, origin, report) ==
    [store |-> k, task |-> t, origin |-> origin, report |-> report]

\* A channel map or a schedule is saved in this tab; a reprocess or a
\* calculation is started, or an active one reused whatever its kind.  (A
\* request that is refused or whose answer is lost is OthersStart or no step.)
Request(k) ==
    /\ asked < MaxRequests
    /\ asked' = asked + 1
    /\ \A j \in Kinds : ~entry[j].open      \* the modal covers the page
    /\ \/ \E t \in Unborn :
            /\ Starts(t, k)
            /\ inbox' = inbox \cup {Answer(k, t, "automatic", FALSE)}
       \/ \E t \in OnServer :
            /\ inbox' = inbox \cup {Answer(k, t, "automatic", FALSE)}
            /\ UNCHANGED server
       \/ /\ k = "damage"
          /\ inbox' = inbox \cup {Answer(k, NoTask, "automatic", TRUE)}
          /\ UNCHANGED server
    /\ UNCHANGED client

\* The database page is mounted and asks which tasks are active.
Discover ==
    /\ asked < MaxRequests
    /\ asked' = asked + 1
    /\ inbox' = inbox \cup {Answer(kind[t], t, "manual", FALSE) : t \in OnServer}
    /\ UNCHANGED <<server, client>>

\* Another tab or user starts a task, or cancels one.
OthersStart(t) ==
    /\ srv[t] = "absent"
    /\ \E k \in Kinds : Starts(t, k)
    /\ UNCHANGED <<inbox, asked, client>>

OthersCancel(t) ==
    /\ srv[t] = "running"
    /\ srv' = [srv EXCEPT ![t] = "cancelling"]
    /\ UNCHANGED <<kind, follow, inbox, asked, client>>

\* A reprocess that did its work starts a calculation, finds one active, or
\* finds the schedule unfit; it names this in its result when it completes.
FollowUpStarts(t) ==
    /\ kind[t] = "reprocess" /\ srv[t] \in Active /\ follow[t] = NoTask
    /\ \/ \E d \in Unborn :
            /\ srv' = [srv EXCEPT ![d] = "running"]
            /\ kind' = [kind EXCEPT ![d] = "damage"]
            /\ follow' = [follow EXCEPT ![t] = d]
       \/ \E d \in {d \in OnServer : kind[d] = "damage"} \cup {Blocked} :
            /\ follow' = [follow EXCEPT ![t] = d]
            /\ UNCHANGED <<srv, kind>>
    /\ UNCHANGED <<inbox, asked, client>>

WorkerEnds(t) ==
    /\ srv[t] \in Active
    /\ \E s \in Terminal : srv' = [srv EXCEPT ![t] = s]
    /\ UNCHANGED <<kind, follow, inbox, asked, client>>

-----------------------------------------------------------------------------
(* The stores.                                                             *)

\* createRunningState.  No caller asks for a closed modal.
Running(t, origin) == [task |-> t, status |-> "running", step |-> "progress",
                       open |-> TRUE, origin |-> origin, report |-> FALSE]

\* reopenModal
ReopenedToSummary(v) == [v EXCEPT !.open = TRUE, !.step = IF @ = "none" THEN @ ELSE "summary"]
Reopened(v) == [v EXCEPT !.open = TRUE,
                         !.step = IF @ = "none" THEN "none"
                                  ELSE IF v.status \in Active THEN "progress"
                                  ELSE "summary"]

\* track: what the entry of k becomes.
Tracks(k, t, origin) ==
    IF entry[k].task = t /\ Polled(k, t) THEN Reopened(entry[k]) ELSE Running(t, origin)

PollFrom(p, k, t) ==
    IF Polled(k, t) THEN p ELSE [p EXCEPT ![k][t] = [NoPoll EXCEPT !.at = "ask"]]

\* setScheduleDamageReport of a report.
Reported ==
    IF Present("damage") THEN [entry["damage"] EXCEPT !.report = TRUE]
    ELSE [Absent EXCEPT !.status = "failed", !.step = "summary",
                        !.origin = "manual", !.report = TRUE]

\* What the histories note of a track.
Notes(k, t) ==
    /\ crossed' = IF \E u \in Tasks \ {t} : Polled(k, u) THEN crossed \cup {k} ELSE crossed
    /\ rejoined' = (rejoined \/ (k = "damage" /\ poll[k][t].at = "invalidate"
                                  /\ entry[k].task # t))

\* The answer arrives: track, or setScheduleDamageReport.
Deliver(a) ==
    /\ a \in inbox
    /\ inbox' = inbox \ {a}
    /\ IF a.report
       THEN /\ entry' = [entry EXCEPT !["damage"] = Reported]
            /\ UNCHANGED <<poll, crossed, rejoined>>
       ELSE /\ entry' = [entry EXCEPT ![a.store] =
                           [Tracks(a.store, a.task, a.origin) EXCEPT
                              !.report = IF a.origin = "automatic" THEN FALSE ELSE @]]
            /\ poll' = PollFrom(poll, a.store, a.task)
            /\ Notes(a.store, a.task)
    /\ UNCHANGED <<server, asked, gaveUp>>

CloseSummaryForGood(k) ==
    /\ entry[k].open /\ entry[k].step = "summary"
    /\ entry' = [entry EXCEPT ![k] = Absent]
    /\ UNCHANGED <<server, inbox, asked, poll, crossed, rejoined, gaveUp>>

\* closeSummary: an entry with a schedule report stays, without its task.
CloseSummary(k) ==
    /\ entry[k].open /\ entry[k].step = "summary"
    /\ entry' = [entry EXCEPT ![k] =
                   IF @.report
                   THEN [@ EXCEPT !.task = NoTask, !.status = "failed", !.open = FALSE]
                   ELSE Absent]
    /\ UNCHANGED <<server, inbox, asked, poll, crossed, rejoined, gaveUp>>

\* The banner of a task that runs behind a closed modal.
Reopen(k) ==
    /\ entry[k].status \in Active /\ ~entry[k].open
    /\ entry' = [entry EXCEPT ![k] = Reopened(@)]
    /\ UNCHANGED <<server, inbox, asked, poll, crossed, rejoined, gaveUp>>

-----------------------------------------------------------------------------
(* The polls.                                                              *)

\* updateScopeByKey: only an entry that is there is changed.
Update(k, v) == [entry EXCEPT ![k] = IF Present(k) THEN v ELSE Absent]

\* The ends waitForDerivedDataTask knows, and the status the stores give them.
IsOver(seen) == seen \notin Active
IsTerminal(seen) == seen \in Terminal

FailedOrCompleted(seen) == IF seen = "failed" THEN seen ELSE "completed"
TerminalStatus(seen) == IF seen \in {"failed", "cancelled"} THEN seen ELSE "completed"

\* readPrecomputeFollowUp: what the result names.
FollowUpOfFailure(t) == IF poll["reprocess"][t].seen = "failed" THEN follow[t] ELSE NoTask
FollowUp(t) == IF poll["reprocess"][t].seen = "completed" THEN follow[t] ELSE NoTask

\* fetchStatus: the server answers from the row; a task that has ended may
\* have lost it.
PollAsk(k, t) ==
    /\ poll[k][t].at = "ask"
    /\ \E s \in {srv[t]} \cup (IF srv[t] \in Terminal THEN {"gone"} ELSE {}) :
         poll' = [poll EXCEPT ![k][t].at = "answer", ![k][t].seen = s]
    /\ UNCHANGED <<server, inbox, asked, entry, crossed, rejoined, gaveUp>>

\* onUpdate with an event that is not terminal.
Progressed(v, seen) == IF seen = "cancelling" THEN [v EXCEPT !.status = seen] ELSE v

PollGoesOn(k, t) ==
    /\ poll[k][t].at = "answer" /\ poll[k][t].seen \in Active
    /\ entry' = Update(k, Progressed(entry[k], poll[k][t].seen))
    /\ poll' = [poll EXCEPT ![k][t] = [NoPoll EXCEPT !.at = "ask"]]
    /\ UNCHANGED <<server, inbox, asked, crossed, rejoined, gaveUp>>

\* pollChannelReprocessTask awaits the invalidation before its last update.
ReprocessEnds(t) ==
    /\ poll["reprocess"][t].at = "answer" /\ IsTerminal(poll["reprocess"][t].seen)
    /\ poll' = [poll EXCEPT !["reprocess"][t].at = "invalidate"]
    /\ UNCHANGED <<server, inbox, asked, entry, crossed, rejoined, gaveUp>>

\* What the result names goes to the damage store, then the last update here.
ReprocessReports(t) ==
    LET d == FollowUp(t)
        done == Update("reprocess",
                  [entry["reprocess"] EXCEPT
                     !.status = TerminalStatus(poll["reprocess"][t].seen), !.step = "summary"])
        off == [poll EXCEPT !["reprocess"][t] = NoPoll]
    IN  /\ poll["reprocess"][t].at = "invalidate"
        /\ \/ /\ d \in Tasks
              /\ entry' = [done EXCEPT !["damage"] =
                             [Tracks("damage", d, "automatic") EXCEPT !.report = FALSE]]
              /\ poll' = PollFrom(off, "damage", d)
              /\ Notes("damage", d)
           \/ /\ d \notin Tasks
              /\ entry' = IF d = Blocked THEN [done EXCEPT !["damage"] = Reported] ELSE done
              /\ poll' = off
              /\ UNCHANGED <<crossed, rejoined>>
        /\ UNCHANGED <<server, inbox, asked, gaveUp>>

\* resolveDamageCalculationCompletionBehavior: whether the summary is shown;
\* an automatic calculation that failed only shows a toast.
ShowsSummary(v, seen) ==
    /\ ~(v.origin = "automatic" /\ seen = "failed")
    /\ ~(v.origin = "automatic" /\ seen = "completed" /\ ~v.open)

\* pollDamageCalculationTask makes its last update, then invalidates.  A
\* failure may bring a report of its own.
DamageEnds(t) ==
    LET v == entry["damage"]
        seen == poll["damage"][t].seen
    IN  /\ poll["damage"][t].at = "answer" /\ IsTerminal(seen)
        /\ \E r \in BOOLEAN :
             entry' = Update("damage",
                        [v EXCEPT !.status = TerminalStatus(seen), !.step = "summary",
                                  !.open = ShowsSummary(v, seen),
                                  !.report = seen = "failed" /\ (r \/ @)])
        /\ poll' = [poll EXCEPT !["damage"][t] = IF seen = "completed"
                                  THEN [@ EXCEPT !.at = "invalidate"] ELSE NoPoll]
        /\ UNCHANGED <<server, inbox, asked, crossed, rejoined, gaveUp>>

DamageInvalidated(t) ==
    /\ poll["damage"][t].at = "invalidate"
    /\ poll' = [poll EXCEPT !["damage"][t] = NoPoll]
    /\ UNCHANGED <<server, inbox, asked, entry, crossed, rejoined, gaveUp>>

\* classifyDerivedTaskPollError: 5xx, 429, 408 and no connection are retried
\* until the window is over.
PollRetries(k, t) ==
    /\ poll[k][t].at = "answer" /\ poll[k][t].seen # "gone"
    /\ poll' = [poll EXCEPT ![k][t] = [NoPoll EXCEPT !.at = "ask"]]
    /\ UNCHANGED <<server, inbox, asked, entry, crossed, rejoined, gaveUp>>

PollThrowsUncaught(k, t) ==
    /\ poll[k][t].at = "answer"
    /\ poll' = [poll EXCEPT ![k][t] = NoPoll]
    /\ gaveUp' = [gaveUp EXCEPT ![k] = @ \cup {t}]
    /\ UNCHANGED <<server, inbox, asked, entry, crossed, rejoined>>

\* Any other error, a dropped row among them, and the end of the window.
PollThrows(k, t) ==
    /\ poll[k][t].at = "answer"
    /\ entry' = Update(k, [entry[k] EXCEPT !.status = "failed", !.step = "summary",
                                           !.open = IF k = "damage" THEN TRUE ELSE @])
    /\ poll' = [poll EXCEPT ![k][t] = NoPoll]
    /\ gaveUp' = [gaveUp EXCEPT ![k] = @ \cup {t}]
    /\ UNCHANGED <<server, inbox, asked, crossed, rejoined>>

PollSettles(k, t) ==
    \/ PollGoesOn(k, t) \/ PollThrows(k, t)
    \/ k = "reprocess" /\ (ReprocessEnds(t) \/ ReprocessReports(t))
    \/ k = "damage" /\ (DamageEnds(t) \/ DamageInvalidated(t))

Polls(k, t) == PollAsk(k, t) \/ PollRetries(k, t) \/ PollSettles(k, t)

Next ==
    \/ \E k \in Kinds : Request(k) \/ CloseSummary(k) \/ Reopen(k)
    \/ Discover
    \/ \E a \in inbox : Deliver(a)
    \/ \E t \in Tasks : \/ OthersStart(t) \/ OthersCancel(t)
                        \/ FollowUpStarts(t) \/ WorkerEnds(t)
                        \/ \E k \in Kinds : Polls(k, t)

Spec == Init /\ [][Next]_vars

\* Workers end (DerivedTasks!TasksSettle), timers fire, every fetch is
\* answered or fails, and the retry window comes to an end.
Fairness ==
    \A t \in Tasks :
        /\ WF_vars(WorkerEnds(t))
        /\ \A k \in Kinds : WF_vars(Polls(k, t)) /\ SF_vars(PollSettles(k, t))

FairSpec == Spec /\ Fairness

-----------------------------------------------------------------------------

Statuses == {"none"} \cup Active \cup Terminal
Entries == [task : Tasks \cup {NoTask}, status : Statuses,
            step : {"none", "progress", "summary"}, open : BOOLEAN,
            origin : {"none", "automatic", "manual"}, report : BOOLEAN]
PollStates == [at : {"off", "ask", "answer", "invalidate"},
               seen : {"none", "gone", "absent"} \cup Active \cup Terminal]
Answers == [store : Kinds, task : Tasks \cup {NoTask},
            origin : {"automatic", "manual"}, report : BOOLEAN]

\* Every variable has its type, and a modal that says a task is running is
\* about a task and shows its progress, unless a poll outlived its entry.
TypeOK ==
    /\ srv \in [Tasks -> {"absent"} \cup Active \cup Terminal]
    /\ kind \in [Tasks -> Kinds \cup {"none"}]
    /\ follow \in [Tasks -> Tasks \cup {NoTask, Blocked}]
    /\ inbox \subseteq Answers
    /\ asked \in 0..MaxRequests
    /\ entry \in [Kinds -> Entries]
    /\ poll \in [Kinds -> [Tasks -> PollStates]]
    /\ crossed \subseteq Kinds /\ rejoined \in BOOLEAN
    /\ gaveUp \in [Kinds -> SUBSET Tasks]
    /\ \A k \in Kinds \ crossed :
         entry[k].status \in Active => entry[k].task \in Tasks /\ entry[k].step = "progress"

\* What the modal says of a task is what became of that task: completed and
\* cancelled are the row's status, failed is it too unless contact was lost.
\* (No update looks at whose entry it changes: without `crossed' this fails.)
OutcomeIsOwn ==
    \A k \in Kinds :
        LET v == entry[k] IN
        (v.task # NoTask /\ v.status \in Terminal /\ k \notin crossed) =>
            \/ v.status = srv[v.task]
            \/ v.status = "failed" /\ v.task \in gaveUp[k]

\* A modal that shows progress cannot be closed, so something must still be
\* about to end it: a poll of the store that has its last update to make.
\* (A calculation tracked anew while its old poll only invalidates has none.)
LastUpdates(k) == {"ask", "answer"} \cup (IF k = "reprocess" THEN {"invalidate"} ELSE {})

RunningIsPolled ==
    \A k \in Kinds :
        (entry[k].status \in Active /\ ~(k = "damage" /\ rejoined)) =>
            \E t \in Tasks : poll[k][t].at \in LastUpdates(k)

\* The modal of each store is a TaskNotice: a step shows a task in it only
\* when it says of none that it is running, ends with what became of the task
\* shown, or puts away what was said.
Fate == [t \in Tasks |-> IF srv[t] \in Terminal THEN srv[t] ELSE "open"]
Says(v) == IF v.status = "none" THEN "nothing"
           ELSE IF v.status \in Active THEN "running" ELSE v.status

ReprocessNotice == INSTANCE TaskNotice WITH
    fate <- Fate, notice <- entry["reprocess"].task, says <- Says(entry["reprocess"]),
    lost <- gaveUp["reprocess"], stuck <- FALSE, excused <- "reprocess" \in crossed

DamageNotice == INSTANCE TaskNotice WITH
    fate <- Fate, notice <- entry["damage"].task, says <- Says(entry["damage"]),
    lost <- gaveUp["damage"], stuck <- rejoined, excused <- "damage" \in crossed

ImplementsNotice == ReprocessNotice!Spec /\ DamageNotice!Spec

\* The report that a schedule is not fit for damage stays with the scope,
\* past failures and past the closing of their summaries, until an answer or a
\* follow-up names a calculation or one ends otherwise than by failing.
ReportKept ==
    [][ (entry["damage"].report /\ ~entry'["damage"].report) =>
          \/ \E a \in inbox \ inbox' : a.store = "damage" /\ ~a.report
          \/ \E t \in Tasks :
               /\ poll["reprocess"][t].at = "invalidate" /\ follow[t] \in Tasks
               /\ ~Polled("reprocess", t)'
          \/ \E t \in Tasks :
               /\ poll["damage"][t].at = "answer"
               /\ poll["damage"][t].seen \in {"completed", "cancelled"}
               /\ entry'["damage"].status = poll["damage"][t].seen ]_vars

\* Under fairness, a modal that shows progress comes to its summary.
ProgressEnds ==
    \A k \in Kinds :
        (entry[k].step = "progress") ~>
            (entry[k].step # "progress" \/ (k = "damage" /\ rejoined))

\* Under fairness, the calculation a completed reprocess names is shown to who
\* follows the reprocess as one, unless contact was lost.
FollowUpSeen ==
    \A t \in Tasks :
        (Polled("reprocess", t) /\ srv[t] = "completed" /\ follow[t] \in Tasks) ~>
            (entry["damage"].task = follow[t] \/ t \in gaveUp["reprocess"])

=============================================================================
