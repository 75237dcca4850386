------------------------ MODULE TaskTrackingProofs ------------------------
(***************************************************************************)
(* TaskTracking for any set of tasks: its types, that a modal in progress  *)
(* has a poll that will end it, that a summary tells the truth, and that   *)
(* the modal of each store is a TaskNotice.                                *)
(***************************************************************************)
EXTENDS TaskTracking, TLAPS

-----------------------------------------------------------------------------
(* The inductive invariant.                                                *)

\* A task gets its kind when it is started.
KindsKnown == \A t \in Tasks : srv[t] # "absent" => kind[t] \in Kinds

\* An answer names a task that was started; a report is for the damage store.
InboxSound ==
    \A a \in inbox : IF a.report THEN a.store = "damage"
                     ELSE a.task \in Tasks /\ srv[a.task] # "absent"

\* What follows a reprocess was started.
FollowSound ==
    \A t \in Tasks : follow[t] \in Tasks => srv[follow[t]] # "absent"

\* A terminal status is the last one, so a poll that saw it saw what is.
PollRight(p, t) ==
    /\ p.at # "off" => srv[t] # "absent"
    /\ p.at = "answer" => p.seen \in {"gone"} \cup Active \cup Terminal
    /\ p.at = "invalidate" => p.seen \in Terminal
    /\ p.at \in {"answer", "invalidate"} /\ p.seen \in Terminal => p.seen = srv[t]

PollSound == \A k \in Kinds : \A t \in Tasks : PollRight(poll[k][t], t)

\* A store in which no poll outlived its entry has no poll with a last update
\* to make but that of its entry, and its entry awaits it.
Live(k, t) == poll[k][t].at \in LastUpdates(k)
LivePoll ==
    \A k \in Kinds \ crossed : \A u \in Tasks :
        Live(k, u) => entry[k].task = u /\ entry[k].status \in Active

IInv ==
    /\ TypeOK /\ KindsKnown /\ InboxSound /\ FollowSound /\ PollSound
    /\ LivePoll /\ OutcomeIsOwn /\ RunningIsPolled

-----------------------------------------------------------------------------
(* What a step does to the notices.  A step of the server leaves the client *)
(* alone and ends at most one task; a step of the client shows a task in a  *)
(* store, tells of the one shown, puts the entry away or changes nothing    *)
(* that matters, for each of the stores.                                    *)

Stuck(k) == k = "damage" /\ rejoined

FateStep ==
    \/ Fate' = Fate
    \/ \E t \in Tasks : \E o \in Terminal :
         Fate[t] = "open" /\ Fate' = [Fate EXCEPT ![t] = o]

Quiet(k) ==
    /\ entry'[k].task = entry[k].task /\ Says(entry'[k]) = Says(entry[k])
    /\ gaveUp'[k] = gaveUp[k] /\ Stuck(k)' = Stuck(k)

Shows(k) ==
    /\ Says(entry[k]) = "running" => Stuck(k)
    /\ entry'[k].task \in Tasks /\ Says(entry'[k]) = "running"
    /\ gaveUp'[k] = gaveUp[k] /\ (Stuck(k) => Stuck(k)')

Tells(k) ==
    /\ Says(entry[k]) = "running" /\ Says(entry'[k]) \in Terminal
    /\ entry[k].task \in Tasks /\ entry'[k].task = entry[k].task
    /\ \/ Says(entry'[k]) = srv[entry[k].task] /\ gaveUp'[k] = gaveUp[k]
       \/ Says(entry'[k]) = "failed" /\ gaveUp'[k] = gaveUp[k] \cup {entry[k].task}
    /\ Stuck(k)' = Stuck(k)

PutsAway(k) ==
    /\ Says(entry[k]) # "running" /\ Says(entry'[k]) \in {"nothing", "failed"}
    /\ entry'[k].task = NoTask
    /\ gaveUp'[k] = gaveUp[k] /\ Stuck(k)' = Stuck(k)

StoreStep(k) ==
    /\ k \in crossed => k \in crossed'
    /\ k \in crossed' \/ Quiet(k) \/ Shows(k) \/ Tells(k) \/ PutsAway(k)

ClientStep == UNCHANGED server /\ \A k \in Kinds : StoreStep(k)

\* A step of the model: it keeps the invariant, and is one for the notices.
Good == IInv' /\ (ClientStep \/ (UNCHANGED client /\ FateStep))

-----------------------------------------------------------------------------
(* Steps of the server and of others: what was started stays so, tasks     *)
(* that are over keep their status.                                        *)

ServerStep ==
    /\ srv' \in [Tasks -> {"absent"} \cup Active \cup Terminal]
    /\ kind' \in [Tasks -> Kinds \cup {"none"}]
    /\ follow' \in [Tasks -> Tasks \cup {NoTask, Blocked}]
    /\ \A t \in Tasks : srv[t] # "absent" => srv'[t] # "absent"
    /\ \A t \in Tasks : srv[t] \in Terminal => srv'[t] = srv[t]
    /\ KindsKnown' /\ FollowSound' /\ FateStep

\* No task ends.
LEMMA FateStands ==
    ASSUME \A t \in Tasks : srv'[t] = srv[t] \/ (srv[t] \notin Terminal /\ srv'[t] \notin Terminal)
    PROVE  FateStep
<1>1. Fate' = Fate
    BY DEF Fate
<1> QED
    BY <1>1 DEF FateStep

LEMMA StartsStep ==
    ASSUME IInv, NEW t \in Tasks, srv[t] = "absent", NEW k \in Kinds, Starts(t, k)
    PROVE  ServerStep /\ srv'[t] # "absent"
<1>1. /\ srv' = [srv EXCEPT ![t] = "running"] /\ kind' = [kind EXCEPT ![t] = k]
      /\ follow' = follow
    BY DEF Starts
<1>2. /\ srv' \in [Tasks -> {"absent"} \cup Active \cup Terminal]
      /\ kind' \in [Tasks -> Kinds \cup {"none"}]
      /\ follow' \in [Tasks -> Tasks \cup {NoTask, Blocked}]
    BY <1>1 DEF IInv, TypeOK, Active
<1>3. \A s \in Tasks : srv[s] \in Terminal => srv'[s] = srv[s]
    BY <1>1 DEF IInv, TypeOK, Terminal
<1>4. \A s \in Tasks : srv[s] # "absent" => srv'[s] # "absent"
    BY <1>1 DEF IInv, TypeOK
<1>5. KindsKnown'
    BY <1>1 DEF IInv, TypeOK, KindsKnown
<1>6. FollowSound'
    BY <1>1, <1>4 DEF IInv, FollowSound
<1>7. FateStep
    <2>1. \A s \in Tasks : srv'[s] = srv[s] \/ (s = t /\ srv[s] = "absent" /\ srv'[s] = "running")
        BY <1>1 DEF IInv, TypeOK
    <2> QED
        BY <2>1, FateStands DEF Terminal
<1>8. srv'[t] # "absent"
    BY <1>1 DEF IInv, TypeOK
<1> QED
    BY <1>2, <1>3, <1>4, <1>5, <1>6, <1>7, <1>8 DEF ServerStep

LEMMA OthersCancelStep ==
    ASSUME IInv, NEW t \in Tasks, OthersCancel(t)
    PROVE  ServerStep
<1>1. /\ srv[t] = "running" /\ srv' = [srv EXCEPT ![t] = "cancelling"]
      /\ kind' = kind /\ follow' = follow
    BY DEF OthersCancel
<1>2. KindsKnown'
    BY <1>1 DEF IInv, TypeOK, KindsKnown
<1>3. FateStep
    <2>1. \A s \in Tasks : srv'[s] = srv[s] \/ (srv[s] = "running" /\ srv'[s] = "cancelling")
        BY <1>1 DEF IInv, TypeOK
    <2> QED
        BY <2>1, FateStands DEF Terminal
<1> QED
    BY <1>1, <1>2, <1>3 DEF IInv, TypeOK, ServerStep, FollowSound, Active, Terminal

LEMMA FollowUpStartsStep ==
    ASSUME IInv, NEW t \in Tasks, FollowUpStarts(t)
    PROVE  ServerStep
<1>1. srv[t] \in Active
    BY DEF FollowUpStarts
<1>2. CASE \E d \in Unborn :
             /\ srv' = [srv EXCEPT ![d] = "running"]
             /\ kind' = [kind EXCEPT ![d] = "damage"]
             /\ follow' = [follow EXCEPT ![t] = d]
    <2>1. PICK d \in Unborn :
             /\ srv' = [srv EXCEPT ![d] = "running"]
             /\ kind' = [kind EXCEPT ![d] = "damage"]
             /\ follow' = [follow EXCEPT ![t] = d]
        BY <1>2
    <2>2. d \in Tasks /\ srv[d] = "absent"
        BY DEF Unborn
    <2>3. /\ srv' \in [Tasks -> {"absent"} \cup Active \cup Terminal]
          /\ kind' \in [Tasks -> Kinds \cup {"none"}]
          /\ follow' \in [Tasks -> Tasks \cup {NoTask, Blocked}]
        BY <2>1, <2>2 DEF IInv, TypeOK, Active, Kinds
    <2>4. \A s \in Tasks : srv[s] # "absent" => srv'[s] # "absent"
        BY <2>1 DEF IInv, TypeOK
    <2>5. \A s \in Tasks : srv'[s] = srv[s] \/ (srv[s] = "absent" /\ srv'[s] = "running")
        BY <2>1, <2>2 DEF IInv, TypeOK
    <2>6. KindsKnown'
        BY <2>1 DEF IInv, TypeOK, KindsKnown, Kinds
    <2>7. srv'[d] # "absent"
        BY <2>1, <2>2 DEF IInv, TypeOK
    <2>8. FollowSound'
        BY <2>1, <2>4, <2>7 DEF IInv, TypeOK, FollowSound
    <2>9. FateStep
        BY <2>5, FateStands DEF Terminal
    <2>10. \A s \in Tasks : srv[s] \in Terminal => srv'[s] = srv[s]
        BY <2>5 DEF Terminal
    <2> QED
        BY <2>3, <2>4, <2>6, <2>8, <2>9, <2>10 DEF ServerStep
<1>3. CASE \E d \in {d \in OnServer : kind[d] = "damage"} \cup {Blocked} :
             follow' = [follow EXCEPT ![t] = d] /\ UNCHANGED <<srv, kind>>
    <2>1. PICK d \in {d \in OnServer : kind[d] = "damage"} \cup {Blocked} :
             follow' = [follow EXCEPT ![t] = d] /\ UNCHANGED <<srv, kind>>
        BY <1>3
    <2>2. (d \in Tasks /\ srv[d] # "absent") \/ d = Blocked
        BY DEF OnServer, Active
    <2>3. follow' \in [Tasks -> Tasks \cup {NoTask, Blocked}]
        BY <2>1, <2>2 DEF IInv, TypeOK
    <2>4. FollowSound'
        BY <2>1, <2>2, TaskAssumption DEF IInv, TypeOK, FollowSound
    <2>5. FateStep
        BY <2>1, FateStands
    <2> QED
        BY <2>1, <2>3, <2>4, <2>5 DEF IInv, TypeOK, KindsKnown, ServerStep
<1> QED
    BY <1>2, <1>3 DEF FollowUpStarts

LEMMA WorkerEndsStep ==
    ASSUME IInv, NEW t \in Tasks, WorkerEnds(t)
    PROVE  ServerStep
<1>1. srv[t] \in Active
    BY DEF WorkerEnds
<1>2. PICK s \in Terminal : srv' = [srv EXCEPT ![t] = s] /\ UNCHANGED <<kind, follow>>
    BY DEF WorkerEnds
<1>3. /\ srv' \in [Tasks -> {"absent"} \cup Active \cup Terminal]
      /\ srv'[t] = s /\ \A u \in Tasks \ {t} : srv'[u] = srv[u]
    BY <1>2 DEF IInv, TypeOK
<1>4. KindsKnown' /\ FollowSound'
    BY <1>1, <1>2, <1>3 DEF IInv, TypeOK, KindsKnown, FollowSound, Active, Terminal
<1>5. FateStep
    <2>1. Fate[t] = "open" /\ Fate' = [Fate EXCEPT ![t] = s]
        BY <1>1, <1>3 DEF Fate, Active, Terminal
    <2> QED
        BY <2>1 DEF FateStep
<1>6. /\ \A u \in Tasks : srv[u] # "absent" => srv'[u] # "absent"
      /\ \A u \in Tasks : srv[u] \in Terminal => srv'[u] = srv[u]
    BY <1>1, <1>3 DEF Active, Terminal
<1> QED
    BY <1>2, <1>3, <1>4, <1>5, <1>6 DEF IInv, TypeOK, ServerStep

\* A step that starts nothing.
LEMMA ServerStands ==
    ASSUME IInv, UNCHANGED server
    PROVE  ServerStep
<1>1. FateStep
    BY FateStands DEF server
<1> QED
    BY <1>1 DEF IInv, TypeOK, KindsKnown, FollowSound, ServerStep, server

\* Such a step leaves the stores right.
LEMMA ServerFrame ==
    ASSUME IInv, ServerStep, UNCHANGED client,
           inbox' \subseteq Answers, InboxSound', asked' \in 0..MaxRequests
    PROVE  Good
<1>1. UNCHANGED <<entry, poll, crossed, rejoined, gaveUp>>
    BY DEF client
<1>2. \A k \in Kinds : entry[k].task \in Tasks \cup {NoTask}
    BY DEF IInv, TypeOK, Entries
<1>3. TypeOK'
    BY <1>1 DEF IInv, TypeOK, ServerStep
<1>4. PollSound'
    BY <1>1 DEF IInv, PollSound, PollRight, ServerStep
<1>5. LivePoll' /\ RunningIsPolled'
    BY <1>1 DEF IInv, LivePoll, Live, RunningIsPolled
<1>6. OutcomeIsOwn'
    <2>1. ASSUME NEW k \in Kinds, entry[k].task # NoTask, entry[k].status \in Terminal,
                 entry[k].status = srv[entry[k].task]
          PROVE  entry[k].status = srv'[entry[k].task]
        <3>1. entry[k].task \in Tasks
            BY <1>2, <2>1
        <3> QED
            BY <2>1, <3>1 DEF ServerStep
    <2> QED
        BY <1>1, <2>1 DEF IInv, OutcomeIsOwn
<1> QED
    BY <1>3, <1>4, <1>5, <1>6 DEF IInv, ServerStep, Good

\* What a request, a page load and another user's start or cancel bring.
LEMMA AnswerSound ==
    ASSUME IInv, ServerStep, NEW k \in Kinds, NEW t, NEW o \in {"automatic", "manual"},
           NEW r \in BOOLEAN,
           IF r THEN t = NoTask /\ k = "damage" ELSE t \in Tasks /\ srv'[t] # "absent",
           inbox' = inbox \cup {Answer(k, t, o, r)}
    PROVE  inbox' \subseteq Answers /\ InboxSound'
<1>1. /\ Answer(k, t, o, r) \in Answers
      /\ Answer(k, t, o, r).report = r /\ Answer(k, t, o, r).task = t
      /\ Answer(k, t, o, r).store = k
    BY DEF Answer, Answers
<1>2. \A a \in inbox : IF a.report THEN a.store = "damage"
                       ELSE a.task \in Tasks /\ srv'[a.task] # "absent"
    BY DEF IInv, InboxSound, ServerStep
<1>3. InboxSound'
    BY <1>1, <1>2 DEF InboxSound
<1> QED
    BY <1>1, <1>3 DEF IInv, TypeOK

LEMMA AskedStep ==
    ASSUME IInv, asked < MaxRequests, asked' = asked + 1
    PROVE  asked' \in 0..MaxRequests
BY TaskAssumption DEF IInv, TypeOK

LEMMA OnServerKnown ==
    ASSUME IInv, NEW t \in OnServer
    PROVE  t \in Tasks /\ srv[t] # "absent" /\ kind[t] \in Kinds
BY DEF OnServer, Active, IInv, KindsKnown

LEMMA RequestStep ==
    ASSUME IInv, NEW k \in Kinds, Request(k)
    PROVE  Good
<1>1. UNCHANGED client /\ asked' \in 0..MaxRequests
    BY AskedStep DEF Request
<1>2. CASE \E t \in Unborn : Starts(t, k) /\ inbox' = inbox \cup {Answer(k, t, "automatic", FALSE)}
    <2>1. PICK t \in Unborn : Starts(t, k) /\ inbox' = inbox \cup {Answer(k, t, "automatic", FALSE)}
        BY <1>2
    <2>2. t \in Tasks /\ ServerStep /\ srv'[t] # "absent"
        BY <2>1, StartsStep DEF Unborn
    <2> QED
        BY <1>1, <2>1, <2>2, AnswerSound, ServerFrame
<1>3. CASE \E t \in OnServer :
             inbox' = inbox \cup {Answer(k, t, "automatic", FALSE)} /\ UNCHANGED server
    <2>1. PICK t \in OnServer :
             inbox' = inbox \cup {Answer(k, t, "automatic", FALSE)} /\ UNCHANGED server
        BY <1>3
    <2>2. ServerStep
        BY <2>1, ServerStands
    <2>3. t \in Tasks /\ srv'[t] # "absent"
        BY <2>1, OnServerKnown DEF server
    <2> QED
        BY <1>1, <2>1, <2>2, <2>3, AnswerSound, ServerFrame
<1>4. CASE /\ k = "damage"
           /\ inbox' = inbox \cup {Answer(k, NoTask, "automatic", TRUE)}
           /\ UNCHANGED server
    <2>1. ServerStep
        BY <1>4, ServerStands
    <2> QED
        BY <1>1, <1>4, <2>1, AnswerSound, ServerFrame
<1> QED
    BY <1>2, <1>3, <1>4 DEF Request

LEMMA DiscoverStep ==
    ASSUME IInv, Discover
    PROVE  Good
<1>1. UNCHANGED client /\ UNCHANGED server /\ asked' \in 0..MaxRequests
    BY AskedStep DEF Discover
<1>2. ServerStep
    BY <1>1, ServerStands
<1> DEFINE new == {Answer(kind[t], t, "manual", FALSE) : t \in OnServer}
<1>3. inbox' = inbox \cup new
    BY DEF Discover
<1>4. ASSUME NEW t \in OnServer
      PROVE  /\ Answer(kind[t], t, "manual", FALSE) \in Answers
             /\ ~Answer(kind[t], t, "manual", FALSE).report
             /\ Answer(kind[t], t, "manual", FALSE).task = t
             /\ t \in Tasks /\ srv[t] # "absent"
    BY OnServerKnown DEF Answer, Answers
<1>5. \A a \in new : a \in Answers /\ ~a.report /\ a.task \in Tasks /\ srv[a.task] # "absent"
    BY <1>4
<1> HIDE DEF new
<1>6. inbox' \subseteq Answers
    BY <1>3, <1>5 DEF IInv, TypeOK
<1>7. InboxSound'
    BY <1>1, <1>3, <1>5 DEF IInv, InboxSound, server
<1> QED
    BY <1>1, <1>2, <1>6, <1>7, ServerFrame

\* Steps of the server that send nothing.
LEMMA SilentStep ==
    ASSUME IInv, ServerStep, UNCHANGED <<inbox, asked, client>>
    PROVE  Good
<1>1. inbox' \subseteq Answers /\ asked' \in 0..MaxRequests
    BY DEF IInv, TypeOK
<1>2. InboxSound'
    BY DEF IInv, InboxSound, ServerStep
<1> QED
    BY <1>1, <1>2, ServerFrame

LEMMA OthersStep ==
    ASSUME IInv, NEW t \in Tasks,
           OthersStart(t) \/ OthersCancel(t) \/ FollowUpStarts(t) \/ WorkerEnds(t)
    PROVE  Good
<1>1. CASE OthersStart(t)
    BY <1>1, StartsStep, SilentStep DEF OthersStart
<1>2. CASE OthersCancel(t)
    BY <1>2, OthersCancelStep, SilentStep DEF OthersCancel
<1>3. CASE FollowUpStarts(t)
    BY <1>3, FollowUpStartsStep, SilentStep DEF FollowUpStarts
<1>4. CASE WorkerEnds(t)
    BY <1>4, WorkerEndsStep, SilentStep DEF WorkerEnds
<1> QED
    BY <1>1, <1>2, <1>3, <1>4

-----------------------------------------------------------------------------
(* Steps of the stores and of the polls leave the server alone.            *)

\* What the invariant says of the entry of one store.
EntrySound(k) ==
    /\ k \notin crossed =>
         /\ \A u \in Tasks : Live(k, u) => entry[k].task = u /\ entry[k].status \in Active
         /\ entry[k].status \in Active => entry[k].task \in Tasks /\ entry[k].step = "progress"
         /\ entry[k].task # NoTask /\ entry[k].status \in Terminal =>
              \/ entry[k].status = srv[entry[k].task]
              \/ entry[k].status = "failed" /\ entry[k].task \in gaveUp[k]
    /\ entry[k].status \in Active /\ ~Stuck(k) => \E t \in Tasks : Live(k, t)

LEMMA EntriesSound ==
    ASSUME IInv
    PROVE  \A k \in Kinds : EntrySound(k)
BY DEF IInv, TypeOK, LivePoll, OutcomeIsOwn, RunningIsPolled, EntrySound, Live, Stuck

LEMMA ClientFrame ==
    ASSUME IInv, UNCHANGED <<server, asked>>, inbox' \subseteq inbox,
           entry' \in [Kinds -> Entries], poll' \in [Kinds -> [Tasks -> PollStates]],
           crossed' \subseteq Kinds, rejoined' \in BOOLEAN, gaveUp' \in [Kinds -> SUBSET Tasks],
           PollSound', \A k \in Kinds : EntrySound(k)' /\ StoreStep(k)
    PROVE  Good
<1>1. UNCHANGED <<srv, kind, follow, asked>>
    BY DEF server
<1>2. TypeOK'
    BY <1>1 DEF IInv, TypeOK, EntrySound
<1>3. KindsKnown' /\ FollowSound'
    BY <1>1 DEF IInv, KindsKnown, FollowSound
<1>4. InboxSound'
    BY <1>1 DEF IInv, InboxSound
<1>5. LivePoll' /\ OutcomeIsOwn' /\ RunningIsPolled'
    BY DEF EntrySound, LivePoll, OutcomeIsOwn, RunningIsPolled, Live, Stuck
<1> QED
    BY <1>2, <1>3, <1>4, <1>5 DEF IInv, Good, ClientStep

\* An entry that is not there follows no task.
LEMMA AbsentEntry ==
    /\ Absent \in Entries
    /\ Absent.task = NoTask /\ Absent.status = "none" /\ ~Absent.report /\ ~Absent.open
    /\ Absent.origin = "none" /\ Absent.step = "none"
BY DEF Absent, Entries, Statuses

\* What a notice says of an entry.
LEMMA SaysForm ==
    ASSUME NEW v \in Entries
    PROVE  /\ (Says(v) = "running") <=> (v.status \in Active)
           /\ v.status \in Terminal => Says(v) = v.status
           /\ v.status = "none" => Says(v) = "nothing"
BY DEF Says, Entries, Statuses, Active, Terminal

LEMMA Updated ==
    ASSUME IInv, NEW k \in Kinds, NEW v \in Entries
    PROVE  /\ Update(k, v) \in [Kinds -> Entries]
           /\ Update(k, v)[k] = IF entry[k] # Absent THEN v ELSE Absent
           /\ \A j \in Kinds \ {k} : Update(k, v)[j] = entry[j]
BY AbsentEntry DEF IInv, TypeOK, Update, Present

\* The poll p of a task is what its next step makes of it.
LEMMA PollStep ==
    ASSUME IInv, NEW k \in Kinds, NEW t \in Tasks, NEW p \in PollStates, UNCHANGED server,
           poll' = [poll EXCEPT ![k][t] = p], PollRight(p, t)
    PROVE  /\ poll' \in [Kinds -> [Tasks -> PollStates]] /\ PollSound'
           /\ poll'[k] = [poll[k] EXCEPT ![t] = p]
           /\ \A j \in Kinds \ {k} : poll'[j] = poll[j]
<1>1. /\ poll' \in [Kinds -> [Tasks -> PollStates]]
      /\ poll'[k] = [poll[k] EXCEPT ![t] = p]
      /\ \A j \in Kinds \ {k} : poll'[j] = poll[j]
    BY DEF IInv, TypeOK
<1>2. poll'[k][t] = p /\ \A u \in Tasks \ {t} : poll'[k][u] = poll[k][u]
    BY <1>1 DEF IInv, TypeOK
<1>3. PollSound'
    BY <1>1, <1>2 DEF IInv, PollSound, PollRight, server
<1> QED
    BY <1>1, <1>3

\* The poll records the steps make.
LEMMA OffPoll ==
    /\ NoPoll \in PollStates /\ NoPoll.at = "off"
    /\ \A t : PollRight(NoPoll, t)
    /\ \A k : NoPoll.at \notin LastUpdates(k)
BY DEF NoPoll, PollStates, PollRight, LastUpdates

LEMMA AskPoll ==
    /\ [NoPoll EXCEPT !.at = "ask"] \in PollStates /\ [NoPoll EXCEPT !.at = "ask"].at = "ask"
    /\ \A k : [NoPoll EXCEPT !.at = "ask"].at \in LastUpdates(k)
BY DEF NoPoll, PollStates, LastUpdates

LEMMA PollForms ==
    /\ \A p \in PollStates : /\ [p EXCEPT !.at = "invalidate"] \in PollStates
                             /\ [p EXCEPT !.at = "invalidate"].at = "invalidate"
                             /\ [p EXCEPT !.at = "invalidate"].seen = p.seen
    /\ \A p \in PollStates : \A s \in {"gone"} \cup Active \cup Terminal :
         /\ [p EXCEPT !.at = "answer", !.seen = s] \in PollStates
         /\ [p EXCEPT !.at = "answer", !.seen = s].at = "answer"
         /\ [p EXCEPT !.at = "answer", !.seen = s].seen = s
BY DEF NoPoll, PollStates, Active, Terminal

\* A store that is not concerned stays right.
LEMMA OtherStore ==
    ASSUME IInv, NEW k \in Kinds, UNCHANGED server, entry'[k] = entry[k], poll'[k] = poll[k],
           gaveUp'[k] = gaveUp[k], k \in crossed' <=> k \in crossed, Stuck(k)' = Stuck(k)
    PROVE  EntrySound(k)' /\ StoreStep(k)
<1>1. EntrySound(k)
    BY EntriesSound
<1>2. UNCHANGED srv
    BY DEF server
<1>3. EntrySound(k)'
    BY <1>1, <1>2 DEF EntrySound, Live
<1>4. StoreStep(k)
    BY DEF StoreStep, Quiet
<1> QED
    BY <1>3, <1>4

\* A step of a poll that leaves the stores alone, and its last update to make
\* if it had one.
LEMMA PollOnly ==
    ASSUME IInv, NEW k \in Kinds, NEW t \in Tasks, NEW p \in PollStates,
           UNCHANGED <<server, inbox, asked, entry, crossed, rejoined, gaveUp>>,
           poll' = [poll EXCEPT ![k][t] = p], PollRight(p, t),
           p.at \in LastUpdates(k) <=> poll[k][t].at \in LastUpdates(k)
    PROVE  Good
<1>1. UNCHANGED server
    OBVIOUS
<1>2. /\ poll' \in [Kinds -> [Tasks -> PollStates]] /\ PollSound'
      /\ poll'[k] = [poll[k] EXCEPT ![t] = p]
      /\ \A j \in Kinds \ {k} : poll'[j] = poll[j]
    BY <1>1, PollStep
<1>3. ASSUME NEW j \in Kinds
      PROVE  EntrySound(j)' /\ StoreStep(j)
    <2>1. EntrySound(j)
        BY EntriesSound
    <2>2. UNCHANGED srv /\ Stuck(j)' = Stuck(j)
        BY DEF server, Stuck
    <2>3. \A u \in Tasks : poll'[j][u].at \in LastUpdates(j) <=> poll[j][u].at \in LastUpdates(j)
        BY <1>2 DEF IInv, TypeOK
    <2>4. \A u \in Tasks : Live(j, u)' <=> Live(j, u)
        BY <2>3 DEF Live
    <2>5. EntrySound(j)'
        BY <2>1, <2>2, <2>4 DEF EntrySound
    <2>6. StoreStep(j)
        BY <2>2 DEF StoreStep, Quiet
    <2> QED
        BY <2>5, <2>6
<1> QED
    BY <1>2, <1>3, ClientFrame DEF IInv, TypeOK

\* A poll whose row is asked for, asked for again, or whose task has ended.
LEMMA PollAskStep ==
    ASSUME IInv, NEW k \in Kinds, NEW t \in Tasks, PollAsk(k, t)
    PROVE  Good
<1>1. PICK s \in {srv[t]} \cup (IF srv[t] \in Terminal THEN {"gone"} ELSE {}) :
        poll' = [poll EXCEPT ![k][t].at = "answer", ![k][t].seen = s]
    BY DEF PollAsk
<1>2. poll[k][t] \in PollStates /\ poll[k][t].at = "ask"
    BY DEF PollAsk, IInv, TypeOK
<1>3. srv[t] # "absent"
    BY <1>2 DEF IInv, PollSound, PollRight
<1>4. srv[t] \in Active \cup Terminal
    BY <1>3 DEF IInv, TypeOK
<1>5. s \in {"gone"} \cup Active \cup Terminal /\ (s \in Terminal => s = srv[t])
    BY <1>1, <1>4 DEF Terminal
<1> DEFINE p == [poll[k][t] EXCEPT !.at = "answer", !.seen = s]
<1>6. p \in PollStates /\ p.at = "answer" /\ p.seen = s
    BY <1>2, <1>5, PollForms
<1>7. poll' = [poll EXCEPT ![k][t] = p]
    BY <1>1, <1>2 DEF IInv, TypeOK
<1> HIDE DEF p
<1>8. PollRight(p, t)
    BY <1>3, <1>5, <1>6 DEF PollRight
<1>9. p.at \in LastUpdates(k) /\ poll[k][t].at \in LastUpdates(k)
    BY <1>2, <1>6 DEF LastUpdates
<1> QED
    BY <1>6, <1>7, <1>8, <1>9, PollOnly DEF PollAsk

\* The poll that asks again.
LEMMA AskRight ==
    ASSUME IInv, NEW k \in Kinds, NEW t \in Tasks, Polled(k, t)
    PROVE  PollRight([NoPoll EXCEPT !.at = "ask"], t)
<1>1. srv[t] # "absent"
    BY DEF IInv, PollSound, PollRight, Polled
<1> QED
    BY <1>1, AskPoll DEF PollRight

LEMMA PollRetriesStep ==
    ASSUME IInv, NEW k \in Kinds, NEW t \in Tasks, PollRetries(k, t)
    PROVE  Good
<1> DEFINE p == [NoPoll EXCEPT !.at = "ask"]
<1>1. poll' = [poll EXCEPT ![k][t] = p] /\ poll[k][t].at = "answer"
    BY DEF PollRetries
<1>2. p \in PollStates /\ p.at \in LastUpdates(k) /\ PollRight(p, t)
    BY <1>1, AskPoll, AskRight DEF Polled
<1>3. poll[k][t].at \in LastUpdates(k)
    BY <1>1 DEF LastUpdates
<1> HIDE DEF p
<1> QED
    BY <1>1, <1>2, <1>3, PollOnly DEF PollRetries

LEMMA ReprocessEndsStep ==
    ASSUME IInv, NEW t \in Tasks, ReprocessEnds(t)
    PROVE  Good
<1> DEFINE k == "reprocess"
           p == [poll[k][t] EXCEPT !.at = "invalidate"]
<1>1. /\ k \in Kinds /\ poll[k][t] \in PollStates
      /\ poll[k][t].at = "answer" /\ poll[k][t].seen \in Terminal
    BY DEF ReprocessEnds, IsTerminal, Kinds, IInv, TypeOK
<1>2. p \in PollStates /\ p.at = "invalidate" /\ p.seen = poll[k][t].seen
    BY <1>1, PollForms
<1>3. poll' = [poll EXCEPT ![k][t] = p]
    BY <1>1 DEF ReprocessEnds, IInv, TypeOK
<1>4. poll[k][t].seen = srv[t] /\ srv[t] # "absent"
    BY <1>1 DEF IInv, PollSound, PollRight
<1> HIDE DEF p
<1>5. PollRight(p, t)
    BY <1>1, <1>2, <1>4 DEF PollRight
<1>6. p.at \in LastUpdates(k) /\ poll[k][t].at \in LastUpdates(k)
    BY <1>1, <1>2 DEF LastUpdates
<1> HIDE DEF k
<1> QED
    BY <1>1, <1>2, <1>3, <1>5, <1>6, PollOnly DEF ReprocessEnds

LEMMA DamageInvalidatedStep ==
    ASSUME IInv, NEW t \in Tasks, DamageInvalidated(t)
    PROVE  Good
<1> DEFINE k == "damage"
<1>1. k \in Kinds /\ poll' = [poll EXCEPT ![k][t] = NoPoll] /\ poll[k][t].at = "invalidate"
    BY DEF DamageInvalidated, Kinds
<1>2. poll[k][t].at \notin LastUpdates(k)
    BY <1>1 DEF LastUpdates
<1> HIDE DEF k
<1> QED
    BY <1>1, <1>2, OffPoll, PollOnly DEF DamageInvalidated

-----------------------------------------------------------------------------
(* Steps of the stores alone.                                              *)

\* An entry keeps its task and its status, or is put away when it says of no
\* task that it is running.
LEMMA EntryStore ==
    ASSUME IInv, NEW k \in Kinds, NEW v \in Entries, UNCHANGED server,
           entry'[k] = v, poll'[k] = poll[k], gaveUp'[k] = gaveUp[k],
           k \in crossed' <=> k \in crossed, Stuck(k)' = Stuck(k),
           \/ /\ v.task = entry[k].task /\ v.status = entry[k].status
              /\ v.status \in Active => v.step \in {entry[k].step, "progress"}
           \/ /\ v.task = NoTask /\ v.status \in {"none", "failed"}
              /\ k \notin crossed => entry[k].status \notin Active
    PROVE  EntrySound(k)' /\ StoreStep(k)
<1>1. EntrySound(k)
    BY EntriesSound
<1>2. UNCHANGED srv
    BY DEF server
<1>3. \A u \in Tasks : Live(k, u)' <=> Live(k, u)
    BY DEF Live
<1>4. entry[k] \in Entries
    BY DEF IInv, TypeOK
<1>5. CASE /\ v.task = entry[k].task /\ v.status = entry[k].status
           /\ v.status \in Active => v.step \in {entry[k].step, "progress"}
    <2>1. EntrySound(k)'
        BY <1>1, <1>2, <1>3, <1>5 DEF EntrySound
    <2>2. Says(v) = Says(entry[k])
        BY <1>5 DEF Says
    <2>3. StoreStep(k)
        BY <1>5, <2>2 DEF StoreStep, Quiet
    <2> QED
        BY <2>1, <2>3
<1>6. CASE /\ v.task = NoTask /\ v.status \in {"none", "failed"}
           /\ k \notin crossed => entry[k].status \notin Active
    <2>1. v.status \notin Active
        BY <1>6 DEF Active
    <2>2. EntrySound(k)'
        BY <1>1, <1>3, <1>6, <2>1 DEF EntrySound
    <2>3. Says(v) \in {"nothing", "failed"}
        BY <1>6 DEF Says, Active
    <2>4. k \notin crossed => Says(entry[k]) # "running"
        BY <1>4, <1>6, SaysForm
    <2>5. StoreStep(k)
        BY <1>6, <2>3, <2>4 DEF StoreStep, PutsAway
    <2> QED
        BY <2>2, <2>5
<1> QED
    BY <1>5, <1>6

LEMMA EntryOnly ==
    ASSUME IInv, NEW k \in Kinds, NEW v \in Entries, entry' = [entry EXCEPT ![k] = v],
           UNCHANGED <<server, asked, poll, crossed, rejoined, gaveUp>>, inbox' \subseteq inbox,
           \/ /\ v.task = entry[k].task /\ v.status = entry[k].status
              /\ v.status \in Active => v.step \in {entry[k].step, "progress"}
           \/ /\ v.task = NoTask /\ v.status \in {"none", "failed"}
              /\ k \notin crossed => entry[k].status \notin Active
    PROVE  Good
<1>1. /\ entry' \in [Kinds -> Entries]
      /\ entry'[k] = v /\ \A j \in Kinds \ {k} : entry'[j] = entry[j]
    BY DEF IInv, TypeOK
<1>2. UNCHANGED server /\ \A j \in Kinds : Stuck(j)' = Stuck(j)
    BY DEF Stuck
<1>3. EntrySound(k)' /\ StoreStep(k)
    BY <1>1, <1>2, EntryStore
<1>4. ASSUME NEW j \in Kinds, j # k
      PROVE  EntrySound(j)' /\ StoreStep(j)
    BY <1>1, <1>2, <1>4, OtherStore
<1>5. PollSound'
    BY <1>2 DEF IInv, PollSound, PollRight, server
<1>6. \A j \in Kinds : EntrySound(j)' /\ StoreStep(j)
    BY <1>3, <1>4
<1> QED
    BY <1>1, <1>5, <1>6, ClientFrame DEF IInv, TypeOK

LEMMA CloseSummaryStep ==
    ASSUME IInv, NEW k \in Kinds, CloseSummary(k)
    PROVE  Good
<1> DEFINE closed == [entry[k] EXCEPT !.task = NoTask, !.status = "failed", !.open = FALSE]
<1> DEFINE v == IF entry[k].report THEN closed ELSE Absent
<1>1. entry[k] \in Entries /\ entry[k].step = "summary"
    BY DEF CloseSummary, IInv, TypeOK
<1>2. closed \in Entries /\ closed.task = NoTask /\ closed.status = "failed"
    BY <1>1 DEF Entries, Statuses, Terminal
<1>3. entry' = [entry EXCEPT ![k] = v]
    BY DEF CloseSummary, IInv, TypeOK
<1> HIDE DEF closed
<1>4. v \in Entries /\ v.task = NoTask /\ v.status \in {"none", "failed"}
    BY <1>2, AbsentEntry
<1> HIDE DEF v
<1>5. k \notin crossed => entry[k].status \notin Active
    BY <1>1, EntriesSound DEF EntrySound
<1> QED
    BY <1>3, <1>4, <1>5, EntryOnly DEF CloseSummary, server

LEMMA ReopenedForm ==
    ASSUME NEW v \in Entries
    PROVE  /\ Reopened(v) \in Entries
           /\ Reopened(v).task = v.task /\ Reopened(v).status = v.status
           /\ Reopened(v).report = v.report
           /\ v.status \in Active => Reopened(v).step \in {v.step, "progress"}
BY DEF Reopened, Entries

LEMMA ReopenStep ==
    ASSUME IInv, NEW k \in Kinds, Reopen(k)
    PROVE  Good
<1> DEFINE v == Reopened(entry[k])
<1>1. entry[k] \in Entries /\ entry' = [entry EXCEPT ![k] = v]
    BY DEF IInv, TypeOK, Reopen
<1>2. /\ v \in Entries /\ v.task = entry[k].task /\ v.status = entry[k].status
      /\ v.status \in Active => v.step \in {entry[k].step, "progress"}
    BY <1>1, ReopenedForm
<1> HIDE DEF v
<1> QED
    BY <1>1, <1>2, EntryOnly DEF Reopen, server

-----------------------------------------------------------------------------
(* A task is tracked.                                                      *)

LEMMA TracksForm ==
    ASSUME IInv, NEW k \in Kinds, NEW t \in Tasks, NEW o \in {"automatic", "manual"}
    PROVE  /\ Tracks(k, t, o) \in Entries /\ Tracks(k, t, o).task = t
           /\ IF entry[k].task = t /\ Polled(k, t)
              THEN /\ Tracks(k, t, o).status = entry[k].status
                   /\ entry[k].status \in Active =>
                        Tracks(k, t, o).step \in {entry[k].step, "progress"}
              ELSE Tracks(k, t, o).status = "running" /\ Tracks(k, t, o).step = "progress"
<1>1. entry[k] \in Entries
    BY DEF IInv, TypeOK
<1>2. /\ Running(t, o) \in Entries /\ Running(t, o).task = t
      /\ Running(t, o).status = "running" /\ Running(t, o).step = "progress"
    BY DEF Running, Entries, Statuses, Active
<1> QED
    BY <1>1, <1>2, ReopenedForm DEF Tracks

\* The entry v that a track makes is right, and what the notice may become.
LEMMA TrackStore ==
    ASSUME IInv, NEW k \in Kinds, NEW t \in Tasks, NEW v \in Entries,
           UNCHANGED server, gaveUp'[k] = gaveUp[k], Notes(k, t),
           entry'[k] = v, v.task = t,
           IF entry[k].task = t /\ Polled(k, t)
           THEN /\ v.status = entry[k].status
                /\ entry[k].status \in Active => v.step \in {entry[k].step, "progress"}
           ELSE v.status = "running" /\ v.step = "progress",
           poll'[k] = [poll[k] EXCEPT ![t] = IF Polled(k, t) THEN poll[k][t]
                                             ELSE [NoPoll EXCEPT !.at = "ask"]]
    PROVE  EntrySound(k)' /\ StoreStep(k)
<1> DEFINE kept == entry[k].task = t /\ Polled(k, t)
<1>1. EntrySound(k)
    BY EntriesSound
<1>2. UNCHANGED srv /\ entry[k] \in Entries
    BY DEF server, IInv, TypeOK
<1>3. /\ k \in crossed => k \in crossed'
      /\ Stuck(k) => Stuck(k)'
      /\ kept => Stuck(k)' = Stuck(k)
      /\ k \notin crossed' => \A u \in Tasks : u # t => ~Polled(k, u)
    BY DEF Notes, Stuck, IInv, TypeOK
<1>4. /\ \A u \in Tasks \ {t} : poll'[k][u] = poll[k][u]
      /\ Polled(k, t) => poll'[k][t] = poll[k][t]
      /\ ~Polled(k, t) => poll'[k][t] = [NoPoll EXCEPT !.at = "ask"]
    BY DEF IInv, TypeOK
<1>5. \A u \in Tasks : Live(k, u) => Polled(k, u)
    BY DEF Live, Polled, LastUpdates
<1>6. /\ \A u \in Tasks \ {t} : Live(k, u)' <=> Live(k, u)
      /\ Polled(k, t) => (Live(k, t)' <=> Live(k, t))
      /\ ~Polled(k, t) => Live(k, t)'
    BY <1>4, AskPoll DEF Live
<1>7. v.status \in Active => v.step \in {entry[k].step, "progress"}
    BY DEF Active
<1>8. "running" \in Active /\ "running" \notin Terminal
    BY DEF Active, Terminal
<1>9. k \notin crossed' =>
        /\ \A u \in Tasks : Live(k, u)' => v.task = u /\ v.status \in Active
        /\ v.status \in Active => v.task \in Tasks /\ v.step = "progress"
        /\ v.task # NoTask /\ v.status \in Terminal =>
             \/ v.status = srv'[v.task]
             \/ v.status = "failed" /\ v.task \in gaveUp'[k]
    <2> SUFFICES ASSUME k \notin crossed'
                 PROVE  /\ \A u \in Tasks : Live(k, u)' => v.task = u /\ v.status \in Active
                        /\ v.status \in Active => v.task \in Tasks /\ v.step = "progress"
                        /\ v.task # NoTask /\ v.status \in Terminal =>
                             \/ v.status = srv'[v.task]
                             \/ v.status = "failed" /\ v.task \in gaveUp'[k]
        OBVIOUS
    <2>1. k \notin crossed /\ \A u \in Tasks : u # t => ~Polled(k, u)
        BY <1>3
    <2>2. ASSUME NEW u \in Tasks, Live(k, u)' PROVE v.task = u /\ v.status \in Active
        <3>1. u = t
            BY <1>5, <1>6, <2>1, <2>2
        <3>2. CASE ~Polled(k, t)
            BY <1>8, <3>1, <3>2
        <3>3. CASE Polled(k, t)
            <4>1. Live(k, t)
                BY <1>6, <2>2, <3>1, <3>3
            <4>2. entry[k].task = t /\ entry[k].status \in Active
                BY <1>1, <2>1, <4>1 DEF EntrySound
            <4> QED
                BY <3>1, <3>3, <4>2
        <3> QED
            BY <3>2, <3>3
    <2>3. v.status \in Active => v.task \in Tasks /\ v.step = "progress"
        BY <1>1, <1>7, <2>1 DEF EntrySound
    <2>4. v.task # NoTask /\ v.status \in Terminal =>
             \/ v.status = srv'[v.task]
             \/ v.status = "failed" /\ v.task \in gaveUp'[k]
        BY <1>1, <1>2, <1>8, <2>1 DEF EntrySound
    <2> QED
        BY <2>2, <2>3, <2>4
<1>10. ASSUME v.status \in Active, ~Stuck(k)'
       PROVE  \E u \in Tasks : Live(k, u)'
    <2>1. CASE ~Polled(k, t) \/ Live(k, t)
        BY <1>5, <1>6, <2>1
    <2>2. CASE Polled(k, t) /\ ~Live(k, t)
        <3>1. poll[k][t] \in PollStates
            BY DEF IInv, TypeOK
        <3>2. k = "damage" /\ poll[k][t].at = "invalidate"
            BY <2>2, <3>1 DEF Live, LastUpdates, Polled, PollStates, Kinds
        <3>3. entry[k].task = t /\ ~Stuck(k)
            BY <1>3, <1>10, <3>2 DEF Notes, Stuck
        <3>4. PICK u \in Tasks : Live(k, u)
            BY <1>1, <1>10, <2>2, <3>3 DEF EntrySound
        <3>5. u # t
            BY <2>2, <3>4
        <3> QED
            BY <1>6, <3>4, <3>5
    <2> QED
        BY <2>1, <2>2
<1>11. EntrySound(k)'
    BY <1>9, <1>10 DEF EntrySound
<1>12. StoreStep(k)
    <2>1. CASE k \in crossed'
        BY <2>1 DEF StoreStep
    <2>2. CASE kept
        <3>1. Says(v) = Says(entry[k])
            BY <2>2 DEF Says
        <3> QED
            BY <1>3, <2>2, <3>1 DEF StoreStep, Quiet
    <2>3. CASE ~kept /\ k \notin crossed'
        <3>1. Says(v) = "running"
            BY <1>8, <2>3, SaysForm
        <3>2. ASSUME Says(entry[k]) = "running", ~Stuck(k) PROVE FALSE
            <4>1. PICK u \in Tasks : Live(k, u)
                BY <1>1, <1>2, <3>2, SaysForm DEF EntrySound
            <4>2. u = t /\ Polled(k, t)
                BY <1>3, <1>5, <2>3, <4>1
            <4>3. entry[k].task = t
                BY <1>1, <1>3, <2>3, <4>1, <4>2 DEF EntrySound
            <4> QED
                BY <2>3, <4>2, <4>3
        <3>3. Shows(k)
            BY <1>3, <3>1, <3>2 DEF Shows
        <3> QED
            BY <1>3, <3>3 DEF StoreStep
    <2> QED
        BY <2>1, <2>2, <2>3
<1> QED
    BY <1>11, <1>12

LEMMA NotesType ==
    ASSUME IInv, NEW k \in Kinds, NEW t, Notes(k, t)
    PROVE  /\ crossed' \subseteq Kinds /\ rejoined' \in BOOLEAN
           /\ \A j \in Kinds \ {k} : (j \in crossed' <=> j \in crossed)
           /\ \A j \in Kinds \ {k} : Stuck(j)' = Stuck(j)
BY DEF IInv, TypeOK, Notes, Stuck, Kinds

\* The poll of a tracked task.
LEMMA TrackedRight ==
    ASSUME IInv, NEW k \in Kinds, NEW t \in Tasks, srv[t] # "absent",
           NEW p, p = IF Polled(k, t) THEN poll[k][t] ELSE [NoPoll EXCEPT !.at = "ask"]
    PROVE  p \in PollStates /\ PollRight(p, t)
<1>1. CASE Polled(k, t)
    BY <1>1 DEF IInv, TypeOK, PollSound
<1>2. CASE ~Polled(k, t)
    BY <1>2, AskPoll DEF PollRight
<1> QED
    BY <1>1, <1>2

\* An answer that names a task.
LEMMA DeliverTask ==
    ASSUME IInv, NEW a \in inbox, Deliver(a), ~a.report
    PROVE  Good
<1> DEFINE k == a.store
           t == a.task
           w == Tracks(k, t, a.origin)
           v == [w EXCEPT !.report = IF a.origin = "automatic" THEN FALSE ELSE @]
           p == IF Polled(k, t) THEN poll[k][t] ELSE [NoPoll EXCEPT !.at = "ask"]
<1>1. k \in Kinds /\ t \in Tasks /\ srv[t] # "absent" /\ a.origin \in {"automatic", "manual"}
    BY DEF IInv, TypeOK, InboxSound, Answers
<1>2. /\ w \in Entries /\ w.task = t
      /\ IF entry[k].task = t /\ Polled(k, t)
         THEN /\ w.status = entry[k].status
              /\ entry[k].status \in Active => w.step \in {entry[k].step, "progress"}
         ELSE w.status = "running" /\ w.step = "progress"
    BY <1>1, TracksForm
<1>3. /\ entry' = [entry EXCEPT ![k] = v] /\ poll' = PollFrom(poll, k, t) /\ Notes(k, t)
      /\ UNCHANGED <<server, asked, gaveUp>> /\ inbox' \subseteq inbox
    BY DEF Deliver
<1> HIDE DEF w
<1>4. v \in Entries /\ v.task = w.task /\ v.status = w.status /\ v.step = w.step
    BY <1>2 DEF Entries
<1> HIDE DEF v
<1>5. poll' = [poll EXCEPT ![k][t] = p]
    BY <1>1, <1>3 DEF PollFrom, IInv, TypeOK
<1>6. p \in PollStates /\ PollRight(p, t)
    BY <1>1, TrackedRight
<1>7. UNCHANGED server
    BY <1>3
<1> HIDE DEF p
<1>8. /\ poll' \in [Kinds -> [Tasks -> PollStates]] /\ PollSound'
      /\ poll'[k] = [poll[k] EXCEPT ![t] = p]
      /\ \A j \in Kinds \ {k} : poll'[j] = poll[j]
    BY <1>1, <1>5, <1>6, <1>7, PollStep
<1>9. /\ entry' \in [Kinds -> Entries]
      /\ entry'[k] = v /\ \A j \in Kinds \ {k} : entry'[j] = entry[j]
    BY <1>1, <1>3, <1>4 DEF IInv, TypeOK
<1>10. EntrySound(k)' /\ StoreStep(k)
    <2>1. poll'[k] = [poll[k] EXCEPT ![t] = IF Polled(k, t) THEN poll[k][t]
                                            ELSE [NoPoll EXCEPT !.at = "ask"]]
        BY <1>8 DEF p
    <2>2. /\ v.task = t
          /\ IF entry[k].task = t /\ Polled(k, t)
             THEN /\ v.status = entry[k].status
                  /\ entry[k].status \in Active => v.step \in {entry[k].step, "progress"}
             ELSE v.status = "running" /\ v.step = "progress"
        BY <1>2, <1>4
    <2>3. gaveUp'[k] = gaveUp[k]
        BY <1>3
    <2> HIDE DEF k, t
    <2> QED
        BY <1>1, <1>3, <1>4, <1>7, <1>9, <2>1, <2>2, <2>3, TrackStore
<1>11. crossed' \subseteq Kinds /\ rejoined' \in BOOLEAN /\ gaveUp' \in [Kinds -> SUBSET Tasks]
    BY <1>1, <1>3, NotesType DEF IInv, TypeOK
<1>12. ASSUME NEW j \in Kinds, j # k
       PROVE  EntrySound(j)' /\ StoreStep(j)
    <2>1. (j \in crossed' <=> j \in crossed) /\ Stuck(j)' = Stuck(j)
        BY <1>1, <1>3, <1>12, NotesType
    <2> QED
        BY <1>3, <1>7, <1>8, <1>9, <1>12, <2>1, OtherStore
<1>13. UNCHANGED <<server, asked>> /\ inbox' \subseteq inbox
    BY <1>3
<1> HIDE DEF k, t
<1>14. \A j \in Kinds : EntrySound(j)' /\ StoreStep(j)
    BY <1>10, <1>12
<1> QED
    BY <1>8, <1>9, <1>11, <1>13, <1>14, ClientFrame

\* The entry of the damage store once a report is there.
LEMMA ReportedForm ==
    ASSUME IInv
    PROVE  /\ Reported \in Entries /\ Reported.report
           /\ \/ /\ Reported.task = entry["damage"].task
                 /\ Reported.status = entry["damage"].status
                 /\ Reported.step = entry["damage"].step
              \/ /\ Reported.task = NoTask /\ Reported.status = "failed"
                 /\ entry["damage"].status \notin Active
<1>1. "damage" \in Kinds /\ entry["damage"] \in Entries
    BY DEF IInv, TypeOK, Kinds
<1>2. CASE Present("damage")
    BY <1>1, <1>2 DEF Reported, Entries
<1>3. CASE ~Present("damage")
    <2>1. entry["damage"] = Absent
        BY <1>3 DEF Present
    <2>2. Reported = [Absent EXCEPT !.status = "failed", !.step = "summary",
                                    !.origin = "manual", !.report = TRUE]
        BY <1>3 DEF Reported
    <2>3. entry["damage"].status \notin Active
        BY <2>1, AbsentEntry DEF Active
    <2> QED
        BY <2>2, <2>3 DEF Absent, Entries, Statuses, Terminal
<1> QED
    BY <1>2, <1>3

\* A report, which names none.
LEMMA DeliverReport ==
    ASSUME IInv, NEW a \in inbox, Deliver(a), a.report
    PROVE  Good
<1> DEFINE k == "damage"
<1>1. k \in Kinds
    BY DEF Kinds
<1>2. entry' = [entry EXCEPT ![k] = Reported]
    BY DEF Deliver
<1>3. UNCHANGED <<server, asked, poll, crossed, rejoined, gaveUp>> /\ inbox' \subseteq inbox
    BY DEF Deliver
<1>4. /\ Reported \in Entries
      /\ \/ /\ Reported.task = entry[k].task /\ Reported.status = entry[k].status
            /\ Reported.step = entry[k].step
         \/ /\ Reported.task = NoTask /\ Reported.status = "failed"
            /\ entry[k].status \notin Active
    BY ReportedForm
<1> HIDE DEF k
<1> QED
    BY <1>1, <1>2, <1>3, <1>4, EntryOnly

-----------------------------------------------------------------------------
(* A poll has an answer.                                                   *)

LEMMA PollGoesOnStep ==
    ASSUME IInv, NEW k \in Kinds, NEW t \in Tasks, PollGoesOn(k, t)
    PROVE  Good
<1> DEFINE p == [NoPoll EXCEPT !.at = "ask"]
           v == Progressed(entry[k], poll[k][t].seen)
<1>1. poll[k][t].at = "answer" /\ Polled(k, t) /\ entry[k] \in Entries
    BY DEF PollGoesOn, Polled, IInv, TypeOK
<1>2. /\ entry' = Update(k, v) /\ poll' = [poll EXCEPT ![k][t] = p]
      /\ UNCHANGED <<server, inbox, asked, crossed, rejoined, gaveUp>>
    BY DEF PollGoesOn
<1>3. /\ v \in Entries /\ v.task = entry[k].task /\ v.step = entry[k].step
      /\ v.status \in {entry[k].status, "cancelling"}
    BY <1>1 DEF Progressed, Entries, Statuses, Active
<1>4. p \in PollStates /\ p.at = "ask" /\ p.at \in LastUpdates(k) /\ PollRight(p, t)
    BY <1>1, AskPoll, AskRight
<1>5. UNCHANGED server /\ UNCHANGED srv
    BY <1>2 DEF server
<1> HIDE DEF p, v
<1>6. /\ poll' \in [Kinds -> [Tasks -> PollStates]] /\ PollSound'
      /\ poll'[k] = [poll[k] EXCEPT ![t] = p]
      /\ \A j \in Kinds \ {k} : poll'[j] = poll[j]
    BY <1>2, <1>4, <1>5, PollStep
<1>7. /\ entry' \in [Kinds -> Entries]
      /\ entry'[k] = IF entry[k] # Absent THEN v ELSE Absent
      /\ \A j \in Kinds \ {k} : entry'[j] = entry[j]
    BY <1>2, <1>3, Updated
<1>8. \A u \in Tasks : Live(k, u)' <=> Live(k, u)
    <2>1. poll'[k][t] = p /\ \A u \in Tasks \ {t} : poll'[k][u] = poll[k][u]
        BY <1>6 DEF IInv, TypeOK
    <2>2. poll[k][t].at \in LastUpdates(k)
        BY <1>1 DEF LastUpdates
    <2> QED
        BY <1>4, <2>1, <2>2 DEF Live
<1>9. EntrySound(k)
    BY EntriesSound
<1>10. Live(k, t)
    BY <1>1 DEF Live, LastUpdates
<1>11. CASE k \in crossed
    <2>1. k \in crossed'
        BY <1>2, <1>11
    <2>2. \E u \in Tasks : Live(k, u)'
        BY <1>8, <1>10
    <2> QED
        <3>1. EntrySound(k)' /\ StoreStep(k)
            BY <2>1, <2>2 DEF EntrySound, StoreStep
        <3>2. ASSUME NEW j \in Kinds, j # k PROVE EntrySound(j)' /\ StoreStep(j)
            BY <1>2, <1>5, <1>6, <1>7, <3>2, OtherStore DEF Stuck
        <3>3. \A j \in Kinds : EntrySound(j)' /\ StoreStep(j)
            BY <3>1, <3>2
        <3> QED
            BY <1>2, <1>6, <1>7, <3>3, ClientFrame DEF IInv, TypeOK
<1>12. CASE k \notin crossed
    <2>1. entry[k].task = t /\ entry[k].status \in Active /\ entry[k].step = "progress"
        BY <1>9, <1>10, <1>12 DEF EntrySound
    <2>2. entry[k] # Absent
        BY <2>1, AbsentEntry DEF Active
    <2>3. entry'[k] = v /\ v.status \in Active /\ v.task = t /\ v.step = "progress"
        BY <1>3, <1>7, <2>1, <2>2 DEF Active
    <2>4. v.status \notin Terminal
        BY <2>3 DEF Active, Terminal
    <2>5. \E u \in Tasks : Live(k, u)'
        BY <1>8, <1>10
    <2>6. \A u \in Tasks : Live(k, u) => u = t
        BY <1>9, <1>12, <2>1 DEF EntrySound
    <2>7. EntrySound(k)'
        BY <1>8, <2>3, <2>4, <2>5, <2>6 DEF EntrySound
    <2>8. Says(entry'[k]) = Says(entry[k])
        BY <1>1, <1>3, <2>1, <2>3, SaysForm
    <2>9. StoreStep(k)
        BY <1>2, <2>1, <2>3, <2>8 DEF StoreStep, Quiet, Stuck
    <2>10. ASSUME NEW j \in Kinds, j # k PROVE EntrySound(j)' /\ StoreStep(j)
        BY <1>2, <1>5, <1>6, <1>7, <2>10, OtherStore DEF Stuck
    <2>11. \A j \in Kinds : EntrySound(j)' /\ StoreStep(j)
        BY <2>7, <2>9, <2>10
    <2> QED
        BY <1>2, <1>6, <1>7, <2>11, ClientFrame DEF IInv, TypeOK
<1> QED
    BY <1>11, <1>12

\* A last update: the entry, if it is there, gets the status of the task, or
\* "failed" as contact was lost.
LEMMA LastStore ==
    ASSUME IInv, NEW k \in Kinds, NEW t \in Tasks, Live(k, t),
           NEW v \in Entries, NEW p \in PollStates, UNCHANGED server,
           entry'[k] = IF entry[k] # Absent THEN v ELSE Absent,
           v.task = entry[k].task, v.status \in Terminal,
           \/ v.status = srv[t] /\ gaveUp'[k] = gaveUp[k]
           \/ v.status = "failed" /\ gaveUp'[k] = gaveUp[k] \cup {t},
           poll'[k] = [poll[k] EXCEPT ![t] = p], p.at \notin LastUpdates(k),
           k \in crossed' <=> k \in crossed, Stuck(k)' = Stuck(k)
    PROVE  EntrySound(k)' /\ StoreStep(k)
<1>1. EntrySound(k)
    BY EntriesSound
<1>2. UNCHANGED srv /\ entry[k] \in Entries
    BY DEF server, IInv, TypeOK
<1>3. v.status \notin Active /\ "none" \notin Active
    BY DEF Active, Terminal
<1>4. entry'[k].status \notin Active
    BY <1>3, AbsentEntry
<1>5. CASE k \in crossed
    BY <1>4, <1>5 DEF EntrySound, StoreStep
<1>6. CASE k \notin crossed
    <2>1. entry[k].task = t /\ entry[k].status \in Active
        BY <1>1, <1>6 DEF EntrySound
    <2>2. entry'[k] = v
        BY <1>3, <2>1, AbsentEntry
    <2>3. \A u \in Tasks : ~Live(k, u)'
        <3>1. \A u \in Tasks : Live(k, u) => u = t
            BY <1>1, <1>6, <2>1 DEF EntrySound
        <3>2. poll'[k][t] = p /\ \A u \in Tasks \ {t} : poll'[k][u] = poll[k][u]
            BY DEF IInv, TypeOK
        <3> QED
            BY <3>1, <3>2 DEF Live
    <2>4. v.status = srv'[t] \/ (v.status = "failed" /\ t \in gaveUp'[k])
        BY <1>2
    <2>5. EntrySound(k)'
        BY <1>4, <2>1, <2>2, <2>3, <2>4 DEF EntrySound
    <2>6. Says(entry[k]) = "running" /\ Says(v) = v.status
        BY <1>2, <2>1, SaysForm
    <2>7. Tells(k)
        BY <2>1, <2>2, <2>6 DEF Tells
    <2> QED
        BY <1>6, <2>5, <2>7 DEF StoreStep
<1> QED
    BY <1>5, <1>6

\* A step of a poll that makes its last update and does nothing else.
LEMMA LastUpdate ==
    ASSUME IInv, NEW k \in Kinds, NEW t \in Tasks, Live(k, t),
           NEW v \in Entries, NEW p \in PollStates,
           UNCHANGED <<server, inbox, asked, crossed, rejoined>>,
           entry' = Update(k, v), v.task = entry[k].task, v.status \in Terminal,
           \/ v.status = srv[t] /\ gaveUp' = gaveUp
           \/ v.status = "failed" /\ gaveUp' = [gaveUp EXCEPT ![k] = @ \cup {t}],
           poll' = [poll EXCEPT ![k][t] = p], p.at \notin LastUpdates(k), PollRight(p, t)
    PROVE  Good
<1>1. UNCHANGED server /\ \A j \in Kinds : Stuck(j)' = Stuck(j)
    BY DEF Stuck
<1>2. /\ poll' \in [Kinds -> [Tasks -> PollStates]] /\ PollSound'
      /\ poll'[k] = [poll[k] EXCEPT ![t] = p]
      /\ \A j \in Kinds \ {k} : poll'[j] = poll[j]
    BY <1>1, PollStep
<1>3. /\ entry' \in [Kinds -> Entries]
      /\ entry'[k] = IF entry[k] # Absent THEN v ELSE Absent
      /\ \A j \in Kinds \ {k} : entry'[j] = entry[j]
    BY Updated
<1>4. /\ gaveUp' \in [Kinds -> SUBSET Tasks]
      /\ \A j \in Kinds \ {k} : gaveUp'[j] = gaveUp[j]
      /\ \/ v.status = srv[t] /\ gaveUp'[k] = gaveUp[k]
         \/ v.status = "failed" /\ gaveUp'[k] = gaveUp[k] \cup {t}
    BY DEF IInv, TypeOK
<1>5. EntrySound(k)' /\ StoreStep(k)
    BY <1>1, <1>2, <1>3, <1>4, LastStore
<1>6. ASSUME NEW j \in Kinds, j # k
      PROVE  EntrySound(j)' /\ StoreStep(j)
    BY <1>1, <1>2, <1>3, <1>4, <1>6, OtherStore
<1>7. \A j \in Kinds : EntrySound(j)' /\ StoreStep(j)
    BY <1>5, <1>6
<1> QED
    BY <1>2, <1>3, <1>4, <1>7, ClientFrame DEF IInv, TypeOK

LEMMA PollThrowsStep ==
    ASSUME IInv, NEW k \in Kinds, NEW t \in Tasks, PollThrows(k, t)
    PROVE  Good
<1> DEFINE v == [entry[k] EXCEPT !.status = "failed", !.step = "summary",
                                 !.open = IF k = "damage" THEN TRUE ELSE @]
<1>1. Live(k, t) /\ entry[k] \in Entries
    BY DEF PollThrows, Live, LastUpdates, IInv, TypeOK
<1>2. v \in Entries /\ v.task = entry[k].task /\ v.status = "failed" /\ v.status \in Terminal
    BY <1>1 DEF Entries, Statuses, Terminal
<1>3. /\ entry' = Update(k, v) /\ poll' = [poll EXCEPT ![k][t] = NoPoll]
      /\ gaveUp' = [gaveUp EXCEPT ![k] = @ \cup {t}]
      /\ UNCHANGED <<server, inbox, asked, crossed, rejoined>>
    BY DEF PollThrows
<1> HIDE DEF v
<1> QED
    BY <1>1, <1>2, <1>3, OffPoll, LastUpdate

LEMMA DamageEndsStep ==
    ASSUME IInv, NEW t \in Tasks, DamageEnds(t)
    PROVE  Good
<1> DEFINE k == "damage"
           e == entry["damage"]
           seen == poll["damage"][t].seen
           p == IF seen = "completed" THEN [poll["damage"][t] EXCEPT !.at = "invalidate"]
                ELSE NoPoll
<1>1. /\ poll[k][t].at = "answer" /\ seen \in Terminal
      /\ k \in Kinds /\ e \in Entries /\ poll[k][t] \in PollStates
    BY DEF DamageEnds, IsTerminal, Kinds, IInv, TypeOK
<1>2. seen = srv[t] /\ srv[t] # "absent"
    BY <1>1 DEF IInv, PollSound, PollRight
<1>3. PICK r \in BOOLEAN :
        entry' = Update("damage",
                   [e EXCEPT !.status = TerminalStatus(seen), !.step = "summary",
                             !.open = ShowsSummary(e, seen),
                             !.report = seen = "failed" /\ (r \/ @)])
    BY DEF DamageEnds
<1> DEFINE v == [e EXCEPT !.status = TerminalStatus(seen), !.step = "summary",
                          !.open = ShowsSummary(e, seen),
                          !.report = seen = "failed" /\ (r \/ @)]
<1>4. TerminalStatus(seen) = seen
    BY <1>1 DEF TerminalStatus, Terminal
<1>5. v \in Entries /\ v.task = e.task /\ v.status = seen
    BY <1>1, <1>4 DEF Entries, Statuses, ShowsSummary
<1>6. /\ poll' = [poll EXCEPT ![k][t] = p]
      /\ UNCHANGED <<server, inbox, asked, crossed, rejoined, gaveUp>>
    BY <1>1 DEF DamageEnds, IInv, TypeOK
<1>7. p \in PollStates /\ p.at \in {"off", "invalidate"} /\ (p.at = "invalidate" => p.seen = seen)
    BY <1>1, PollForms, OffPoll
<1>8. p.at \notin LastUpdates(k)
    BY <1>7 DEF LastUpdates
<1>9. PollRight(p, t)
    BY <1>1, <1>2, <1>7 DEF PollRight
<1>10. entry' = Update(k, v) /\ v.task = entry[k].task
    BY <1>3, <1>5
<1>11. Live(k, t)
    BY <1>1 DEF Live, LastUpdates
<1>12. v.status = srv[t] /\ v.status \in Terminal
    BY <1>1, <1>2, <1>5
<1> HIDE DEF v, p, k
<1> QED
    BY <1>1, <1>5, <1>6, <1>7, <1>8, <1>9, <1>10, <1>11, <1>12, LastUpdate

\* What a reprocess that reports makes of its own store.
LEMMA ReportForm ==
    ASSUME IInv, NEW t \in Tasks, poll["reprocess"][t].at = "invalidate",
           NEW r, r = [entry["reprocess"] EXCEPT
                         !.status = TerminalStatus(poll["reprocess"][t].seen),
                         !.step = "summary"]
    PROVE  /\ r \in Entries /\ r.task = entry["reprocess"].task
           /\ r.status = srv[t] /\ r.status \in Terminal
           /\ Live("reprocess", t)
<1> DEFINE seen == poll["reprocess"][t].seen
<1>1. /\ seen \in Terminal /\ seen = srv[t] /\ entry["reprocess"] \in Entries
    BY DEF Kinds, IInv, TypeOK, PollSound, PollRight
<1>2. TerminalStatus(seen) = seen
    BY <1>1 DEF TerminalStatus, Terminal
<1>3. r \in Entries /\ r.task = entry["reprocess"].task /\ r.status = seen
    BY <1>1, <1>2 DEF Entries, Statuses
<1>4. Live("reprocess", t)
    BY DEF Live, LastUpdates
<1> QED
    BY <1>1, <1>3, <1>4

\* The end of a reprocess that has a follow-up: its poll ends, and the
\* follow-up is tracked in the other store.
LEMMA FollowUpTracked ==
    ASSUME IInv, NEW t \in Tasks, ReprocessReports(t), FollowUp(t) \in Tasks
    PROVE  Good
<1>1. PICK d \in Tasks : d = FollowUp(t)
    OBVIOUS
<1> DEFINE e == entry["reprocess"]
           r == [e EXCEPT !.status = TerminalStatus(poll["reprocess"][t].seen),
                          !.step = "summary"]
           w == Tracks("damage", d, "automatic")
           v == [w EXCEPT !.report = FALSE]
           p == IF Polled("damage", d) THEN poll["damage"][d] ELSE [NoPoll EXCEPT !.at = "ask"]
<1>2. /\ poll["reprocess"][t].at = "invalidate"
      /\ "reprocess" \in Kinds /\ "damage" \in Kinds /\ "reprocess" # "damage"
    BY DEF ReprocessReports, Kinds
<1>3. d = follow[t] /\ srv[d] # "absent"
    BY <1>1, TaskAssumption DEF FollowUp, IInv, FollowSound
<1>4. /\ entry' = [Update("reprocess", r) EXCEPT !["damage"] = v]
      /\ poll' = PollFrom([poll EXCEPT !["reprocess"][t] = NoPoll], "damage", d)
      /\ Notes("damage", d) /\ UNCHANGED <<server, inbox, asked, gaveUp>>
    BY <1>1 DEF ReprocessReports
<1>5. /\ r \in Entries /\ r.task = e.task /\ r.status = srv[t] /\ r.status \in Terminal
      /\ Live("reprocess", t)
    BY <1>2, ReportForm
<1>6. /\ w \in Entries /\ w.task = d
      /\ IF entry["damage"].task = d /\ Polled("damage", d)
         THEN /\ w.status = entry["damage"].status
              /\ entry["damage"].status \in Active => w.step \in {entry["damage"].step, "progress"}
         ELSE w.status = "running" /\ w.step = "progress"
    BY <1>2, TracksForm
<1> HIDE DEF w
<1>7. v \in Entries /\ v.task = d /\ v.status = w.status /\ v.step = w.step
    BY <1>6 DEF Entries
<1> HIDE DEF r, v
<1>8. /\ entry' \in [Kinds -> Entries] /\ entry'["damage"] = v
      /\ entry'["reprocess"] = IF e # Absent THEN r ELSE Absent
    BY <1>2, <1>4, <1>5, <1>7, Updated
<1>9. p \in PollStates /\ PollRight(p, d)
    BY <1>2, <1>3, TrackedRight
<1>10. p = IF Polled("damage", d) THEN poll["damage"][d] ELSE [NoPoll EXCEPT !.at = "ask"]
    OBVIOUS
<1>11. poll' = [[poll EXCEPT !["reprocess"][t] = NoPoll] EXCEPT !["damage"][d] = p]
    BY <1>2, <1>4 DEF PollFrom, IInv, TypeOK
<1> HIDE DEF p
<1>12. /\ poll' \in [Kinds -> [Tasks -> PollStates]]
       /\ poll'["reprocess"] = [poll["reprocess"] EXCEPT ![t] = NoPoll]
       /\ poll'["damage"] = [poll["damage"] EXCEPT ![d] = p]
    BY <1>2, <1>9, <1>11, OffPoll DEF IInv, TypeOK
<1>13. UNCHANGED server /\ UNCHANGED srv
    BY <1>4 DEF server
<1>14. PollSound'
    <2>1. ASSUME NEW u \in Tasks
          PROVE  PollRight(poll'["reprocess"][u], u) /\ PollRight(poll'["damage"][u], u)
        <3>1. /\ poll'["reprocess"][u] \in {NoPoll, poll["reprocess"][u]}
              /\ poll'["damage"][u] = IF u = d THEN p ELSE poll["damage"][u]
            BY <1>2, <1>12 DEF IInv, TypeOK
        <3>2. PollRight(poll["reprocess"][u], u) /\ PollRight(poll["damage"][u], u)
            BY <1>2 DEF IInv, PollSound
        <3>3. PollRight(NoPoll, u)
            BY OffPoll
        <3> QED
            BY <1>9, <3>1, <3>2, <3>3
    <2>2. \A k \in Kinds : \A u \in Tasks : PollRight(poll'[k][u], u)
        BY <2>1 DEF Kinds
    <2> QED
        BY <1>13, <2>2 DEF PollSound, PollRight
<1>15. EntrySound("damage")' /\ StoreStep("damage")
    <2>1. gaveUp'["damage"] = gaveUp["damage"]
        BY <1>4
    <2>2. /\ v.task = d
          /\ IF entry["damage"].task = d /\ Polled("damage", d)
             THEN /\ v.status = entry["damage"].status
                  /\ entry["damage"].status \in Active =>
                       v.step \in {entry["damage"].step, "progress"}
             ELSE v.status = "running" /\ v.step = "progress"
        BY <1>6, <1>7
    <2>3. poll'["damage"] = [poll["damage"] EXCEPT ![d] =
                               IF Polled("damage", d) THEN poll["damage"][d]
                               ELSE [NoPoll EXCEPT !.at = "ask"]]
        BY <1>10, <1>12
    <2> QED
        BY <1>2, <1>4, <1>7, <1>8, <1>13, <2>1, <2>2, <2>3, TrackStore
<1>16. EntrySound("reprocess")' /\ StoreStep("reprocess")
    <2>1. /\ "reprocess" \in crossed' <=> "reprocess" \in crossed
          /\ Stuck("reprocess")' = Stuck("reprocess")
        BY <1>2, <1>4, NotesType
    <2>2. gaveUp'["reprocess"] = gaveUp["reprocess"]
        BY <1>4
    <2> QED
        BY <1>2, <1>5, <1>8, <1>12, <1>13, <2>1, <2>2, OffPoll, LastStore
<1>17. \A k \in Kinds : EntrySound(k)' /\ StoreStep(k)
    BY <1>15, <1>16 DEF Kinds
<1>18. crossed' \subseteq Kinds /\ rejoined' \in BOOLEAN /\ gaveUp' \in [Kinds -> SUBSET Tasks]
    BY <1>2, <1>4, NotesType DEF IInv, TypeOK
<1> QED
    BY <1>4, <1>8, <1>12, <1>14, <1>17, <1>18, ClientFrame

\* The end of a reprocess whose schedule is unfit: the report goes to the
\* damage store.
LEMMA FollowUpReported ==
    ASSUME IInv, NEW t \in Tasks, ReprocessReports(t), FollowUp(t) \notin Tasks,
           FollowUp(t) = Blocked
    PROVE  Good
<1> DEFINE e == entry["reprocess"]
           r == [e EXCEPT !.status = TerminalStatus(poll["reprocess"][t].seen),
                          !.step = "summary"]
<1>1. /\ poll["reprocess"][t].at = "invalidate"
      /\ "reprocess" \in Kinds /\ "damage" \in Kinds /\ "reprocess" # "damage"
    BY DEF ReprocessReports, Kinds
<1>2. /\ entry' = [Update("reprocess", r) EXCEPT !["damage"] = Reported]
      /\ poll' = [poll EXCEPT !["reprocess"][t] = NoPoll]
      /\ UNCHANGED <<server, inbox, asked, crossed, rejoined, gaveUp>>
    BY DEF ReprocessReports
<1>3. /\ r \in Entries /\ r.task = e.task /\ r.status = srv[t] /\ r.status \in Terminal
      /\ Live("reprocess", t)
    BY <1>1, ReportForm
<1> HIDE DEF r
<1>4. /\ Reported \in Entries
      /\ \/ /\ Reported.task = entry["damage"].task
            /\ Reported.status = entry["damage"].status
            /\ Reported.step = entry["damage"].step
         \/ /\ Reported.task = NoTask /\ Reported.status = "failed"
            /\ entry["damage"].status \notin Active
    BY ReportedForm
<1>5. /\ entry' \in [Kinds -> Entries] /\ entry'["damage"] = Reported
      /\ entry'["reprocess"] = IF e # Absent THEN r ELSE Absent
    BY <1>1, <1>2, <1>3, <1>4, Updated
<1>6. UNCHANGED server /\ \A k \in Kinds : Stuck(k)' = Stuck(k) /\ gaveUp'[k] = gaveUp[k]
    BY <1>2 DEF Stuck
<1>7. /\ poll' \in [Kinds -> [Tasks -> PollStates]] /\ PollSound'
      /\ poll'["reprocess"] = [poll["reprocess"] EXCEPT ![t] = NoPoll]
      /\ poll'["damage"] = poll["damage"]
    <2>1. PollRight(NoPoll, t) /\ NoPoll \in PollStates
        BY OffPoll
    <2> QED
        BY <1>1, <1>2, <1>6, <2>1, PollStep
<1>8. EntrySound("damage")' /\ StoreStep("damage")
    BY <1>1, <1>2, <1>4, <1>5, <1>6, <1>7, EntryStore
<1>9. EntrySound("reprocess")' /\ StoreStep("reprocess")
    BY <1>1, <1>2, <1>3, <1>5, <1>6, <1>7, OffPoll, LastStore
<1>10. \A k \in Kinds : EntrySound(k)' /\ StoreStep(k)
    BY <1>8, <1>9 DEF Kinds
<1> QED
    BY <1>2, <1>5, <1>7, <1>10, ClientFrame DEF IInv, TypeOK

LEMMA ReprocessReportsStep ==
    ASSUME IInv, NEW t \in Tasks, ReprocessReports(t)
    PROVE  Good
<1>1. CASE FollowUp(t) \in Tasks
    BY <1>1, FollowUpTracked
<1>2. CASE FollowUp(t) \notin Tasks /\ FollowUp(t) = Blocked
    BY <1>2, FollowUpReported
<1>3. CASE FollowUp(t) \notin Tasks /\ FollowUp(t) # Blocked
    <2> DEFINE k == "reprocess"
               r == [entry["reprocess"] EXCEPT
                       !.status = TerminalStatus(poll["reprocess"][t].seen),
                       !.step = "summary"]
    <2>1. k \in Kinds /\ poll[k][t].at = "invalidate"
        BY DEF ReprocessReports, Kinds
    <2>2. /\ entry' = Update(k, r) /\ poll' = [poll EXCEPT ![k][t] = NoPoll]
          /\ UNCHANGED <<server, inbox, asked, crossed, rejoined, gaveUp>>
        BY <1>3 DEF ReprocessReports
    <2>3. /\ r \in Entries /\ r.task = entry[k].task /\ r.status = srv[t]
          /\ r.status \in Terminal /\ Live(k, t)
        BY <2>1, ReportForm
    <2> HIDE DEF r, k
    <2> QED
        BY <2>1, <2>2, <2>3, OffPoll, LastUpdate
<1> QED
    BY <1>1, <1>2, <1>3

-----------------------------------------------------------------------------
(* The report that a schedule is unfit.                                    *)

ReportLost == entry["damage"].report /\ ~entry'["damage"].report

\* What may take a report away, as ReportKept has it.
Dismissed ==
    \/ \E a \in inbox \ inbox' : a.store = "damage" /\ ~a.report
    \/ \E t \in Tasks :
         /\ poll["reprocess"][t].at = "invalidate" /\ follow[t] \in Tasks
         /\ ~Polled("reprocess", t)'
    \/ \E t \in Tasks :
         /\ poll["damage"][t].at = "answer"
         /\ poll["damage"][t].seen \in {"completed", "cancelled"}
         /\ entry'["damage"].status = poll["damage"][t].seen

\* An update keeps the report if its value does.
LEMMA UpdateKeeps ==
    ASSUME IInv, NEW k \in Kinds, NEW v \in Entries, entry' = Update(k, v),
           v.report = entry[k].report
    PROVE  ~ReportLost
<1>1. "damage" \in Kinds
    BY DEF Kinds
<1>2. entry'["damage"] = IF "damage" # k THEN entry["damage"]
                         ELSE IF entry[k] # Absent THEN v ELSE Absent
    BY <1>1, Updated
<1>3. CASE k # "damage"
    BY <1>2, <1>3 DEF ReportLost
<1>4. CASE k = "damage"
    <2>1. entry[k].report => entry'["damage"] = v
        BY <1>2, <1>4, AbsentEntry
    <2> QED
        BY <1>4, <2>1 DEF ReportLost
<1> QED
    BY <1>3, <1>4

LEMMA DeliverDismisses ==
    ASSUME IInv, NEW a \in inbox, Deliver(a), ReportLost
    PROVE  Dismissed
<1>1. a.store \in Kinds /\ entry \in [Kinds -> Entries] /\ "damage" \in Kinds
    BY DEF IInv, TypeOK, Kinds, Answers
<1>2. CASE a.report
    <2>1. entry'["damage"] = Reported
        BY <1>1, <1>2 DEF Deliver
    <2> QED
        BY <2>1, ReportedForm DEF ReportLost
<1>3. CASE ~a.report /\ a.store # "damage"
    BY <1>1, <1>3 DEF Deliver, ReportLost
<1>4. CASE ~a.report /\ a.store = "damage"
    BY <1>4 DEF Deliver, Dismissed
<1> QED
    BY <1>2, <1>3, <1>4

LEMMA ClosingKeeps ==
    ASSUME IInv, NEW k \in Kinds, CloseSummary(k) \/ Reopen(k)
    PROVE  ~ReportLost
<1>1. entry \in [Kinds -> Entries] /\ "damage" \in Kinds /\ entry[k] \in Entries
    BY DEF IInv, TypeOK, Kinds
<1>2. CASE CloseSummary(k)
    <2> DEFINE closed == [entry[k] EXCEPT !.task = NoTask, !.status = "failed", !.open = FALSE]
    <2>1. closed.report = entry[k].report
        BY <1>1 DEF Entries
    <2>2. entry' = [entry EXCEPT ![k] = IF entry[k].report THEN closed ELSE Absent]
        BY <1>1, <1>2 DEF CloseSummary
    <2> HIDE DEF closed
    <2> QED
        BY <1>1, <2>1, <2>2 DEF ReportLost
<1>3. CASE Reopen(k)
    BY <1>1, <1>3, ReopenedForm DEF Reopen, ReportLost
<1> QED
    BY <1>2, <1>3

LEMMA PollKeeps ==
    ASSUME IInv, NEW k \in Kinds, NEW t \in Tasks, PollGoesOn(k, t) \/ PollThrows(k, t)
    PROVE  ~ReportLost
<1>1. entry[k] \in Entries
    BY DEF IInv, TypeOK
<1>2. CASE PollGoesOn(k, t)
    <2> DEFINE v == Progressed(entry[k], poll[k][t].seen)
    <2>1. v \in Entries /\ v.report = entry[k].report
        BY <1>1 DEF Progressed, Entries, Statuses, Active
    <2>2. entry' = Update(k, v)
        BY <1>2 DEF PollGoesOn
    <2> HIDE DEF v
    <2> QED
        BY <1>1, <2>1, <2>2, UpdateKeeps
<1>3. CASE PollThrows(k, t)
    <2> DEFINE v == [entry[k] EXCEPT !.status = "failed", !.step = "summary",
                                     !.open = IF k = "damage" THEN TRUE ELSE @]
    <2>1. v \in Entries /\ v.report = entry[k].report
        BY <1>1 DEF Entries, Statuses, Terminal
    <2>2. entry' = Update(k, v)
        BY <1>3 DEF PollThrows
    <2> HIDE DEF v
    <2> QED
        BY <1>1, <2>1, <2>2, UpdateKeeps
<1> QED
    BY <1>2, <1>3

LEMMA FollowUpDismisses ==
    ASSUME IInv, NEW t \in Tasks, ReprocessReports(t), ReportLost
    PROVE  Dismissed
<1> DEFINE r == [entry["reprocess"] EXCEPT
                   !.status = TerminalStatus(poll["reprocess"][t].seen),
                   !.step = "summary"]
<1>1. /\ poll["reprocess"][t].at = "invalidate"
      /\ "reprocess" \in Kinds /\ "damage" \in Kinds /\ "damage" # "reprocess"
    BY DEF ReprocessReports, Kinds
<1>2. r \in Entries
    BY <1>1, ReportForm
<1>3. CASE FollowUp(t) \notin Tasks
    <2>1. entry' = Update("reprocess", r)
            \/ entry' = [Update("reprocess", r) EXCEPT !["damage"] = Reported]
        BY <1>3 DEF ReprocessReports
    <2> HIDE DEF r
    <2> DEFINE u == Update("reprocess", r)
    <2>2. u \in [Kinds -> Entries] /\ u["damage"] = entry["damage"]
        BY <1>1, <1>2, Updated
    <2>3. entry' = u \/ entry' = [u EXCEPT !["damage"] = Reported]
        BY <2>1
    <2> HIDE DEF u
    <2>4. entry'["damage"] \in {entry["damage"], Reported}
        BY <1>1, <2>2, <2>3
    <2> QED
        BY <2>4, ReportedForm DEF ReportLost
<1>4. CASE FollowUp(t) \in Tasks
    <2>1. PICK d \in Tasks : d = FollowUp(t)
        BY <1>4
    <2>2. follow[t] \in Tasks
        BY <1>4, TaskAssumption DEF FollowUp
    <2>3. poll' = PollFrom([poll EXCEPT !["reprocess"][t] = NoPoll], "damage", d)
        BY <1>4, <2>1 DEF ReprocessReports
    <2>4. poll'["reprocess"][t] = NoPoll
        BY <1>1, <2>3 DEF PollFrom, IInv, TypeOK
    <2> QED
        BY <1>1, <2>2, <2>4, OffPoll DEF Dismissed, Polled
<1> QED
    BY <1>3, <1>4

LEMMA DamageEndDismisses ==
    ASSUME IInv, NEW t \in Tasks, DamageEnds(t), ReportLost
    PROVE  Dismissed
<1> DEFINE e == entry["damage"]
           seen == poll["damage"][t].seen
<1>1. /\ poll["damage"][t].at = "answer" /\ seen \in Terminal
      /\ "damage" \in Kinds /\ e \in Entries
    BY DEF DamageEnds, IsTerminal, Kinds, IInv, TypeOK
<1>2. PICK r \in BOOLEAN :
        entry' = Update("damage",
                   [e EXCEPT !.status = TerminalStatus(seen), !.step = "summary",
                             !.open = ShowsSummary(e, seen),
                             !.report = seen = "failed" /\ (r \/ @)])
    BY DEF DamageEnds
<1> DEFINE v == [e EXCEPT !.status = TerminalStatus(seen), !.step = "summary",
                          !.open = ShowsSummary(e, seen),
                          !.report = seen = "failed" /\ (r \/ @)]
<1>3. TerminalStatus(seen) = seen
    BY <1>1 DEF TerminalStatus, Terminal
<1>4. /\ v \in Entries /\ v.status = seen
      /\ v.report = (seen = "failed" /\ (r \/ e.report))
    BY <1>1, <1>3 DEF Entries, Statuses, ShowsSummary
<1>5. entry' = Update("damage", v)
    BY <1>2
<1> HIDE DEF v
<1>6. e.report /\ entry'["damage"] = v
    BY <1>1, <1>4, <1>5, Updated, AbsentEntry DEF ReportLost
<1>7. seen # "failed"
    BY <1>4, <1>6 DEF ReportLost
<1> QED
    BY <1>1, <1>4, <1>6, <1>7 DEF Dismissed, Terminal

\* Nothing else takes it away.
LEMMA ReportStep == IInv /\ [Next]_vars => [ReportLost => Dismissed]_vars
<1> SUFFICES ASSUME IInv, Next, ReportLost PROVE Dismissed
    OBVIOUS
<1>1. CASE \E k \in Kinds : Request(k) \/ CloseSummary(k) \/ Reopen(k)
    BY <1>1, ClosingKeeps DEF Request, client, ReportLost
<1>2. CASE Discover
    BY <1>2 DEF Discover, client, ReportLost
<1>3. CASE \E a \in inbox : Deliver(a)
    BY <1>3, DeliverDismisses
<1>4. CASE \E t \in Tasks : \/ OthersStart(t) \/ OthersCancel(t)
                            \/ FollowUpStarts(t) \/ WorkerEnds(t)
    BY <1>4 DEF OthersStart, OthersCancel, FollowUpStarts, WorkerEnds, client, ReportLost
<1>5. CASE \E t \in Tasks : \E k \in Kinds : Polls(k, t)
    <2>1. PICK t \in Tasks, k \in Kinds : Polls(k, t)
        BY <1>5
    <2>2. CASE \/ PollAsk(k, t) \/ PollRetries(k, t)
               \/ ReprocessEnds(t) \/ DamageInvalidated(t)
        BY <2>2 DEF PollAsk, PollRetries, ReprocessEnds, DamageInvalidated, ReportLost
    <2> QED
        BY <2>1, <2>2, PollKeeps, FollowUpDismisses, DamageEndDismisses
           DEF Polls, PollSettles
<1> QED
    BY <1>1, <1>2, <1>3, <1>4, <1>5 DEF Next

-----------------------------------------------------------------------------
(* The invariant is inductive, and every step is one for the notices.      *)

\* At the start nothing is known and nothing polled.
LEMMA InitHolds == Init => IInv
<1> SUFFICES ASSUME Init PROVE IInv
    OBVIOUS
<1> USE DEF Init
<1>1. \A k \in Kinds : entry[k] = Absent /\ \A t \in Tasks : poll[k][t] = NoPoll
    OBVIOUS
<1>2. TypeOK
    <2>1. entry \in [Kinds -> Entries]
        BY AbsentEntry
    <2>2. poll \in [Kinds -> [Tasks -> PollStates]]
        BY OffPoll
    <2>3. asked \in 0..MaxRequests
        BY TaskAssumption
    <2>4. \A k \in Kinds : entry[k].status \notin Active
        BY <1>1, AbsentEntry DEF Active
    <2> QED
        BY <2>1, <2>2, <2>3, <2>4 DEF TypeOK
<1>3. KindsKnown /\ InboxSound /\ FollowSound
    BY TaskAssumption DEF KindsKnown, InboxSound, FollowSound
<1>4. PollSound
    BY <1>1, OffPoll DEF PollSound
<1>5. LivePoll
    BY <1>1, OffPoll DEF LivePoll, Live
<1>6. OutcomeIsOwn /\ RunningIsPolled
    BY <1>1, AbsentEntry DEF OutcomeIsOwn, RunningIsPolled, Active
<1> QED
    BY <1>2, <1>3, <1>4, <1>5, <1>6 DEF IInv

LEMMA StepGood == IInv /\ [Next]_vars => Good
<1> SUFFICES ASSUME IInv, [Next]_vars PROVE Good
    OBVIOUS
<1>1. CASE \E k \in Kinds : Request(k) \/ CloseSummary(k) \/ Reopen(k)
    BY <1>1, RequestStep, CloseSummaryStep, ReopenStep
<1>2. CASE Discover
    BY <1>2, DiscoverStep
<1>3. CASE \E a \in inbox : Deliver(a)
    BY <1>3, DeliverTask, DeliverReport
<1>4. CASE \E t \in Tasks : \/ OthersStart(t) \/ OthersCancel(t)
                            \/ FollowUpStarts(t) \/ WorkerEnds(t)
    BY <1>4, OthersStep
<1>5. CASE \E t \in Tasks : \E k \in Kinds : Polls(k, t)
    <2>1. PICK t \in Tasks, k \in Kinds : Polls(k, t)
        BY <1>5
    <2> QED
        BY <2>1, PollAskStep, PollRetriesStep, PollGoesOnStep, PollThrowsStep,
           ReprocessEndsStep, ReprocessReportsStep, DamageEndsStep, DamageInvalidatedStep
           DEF Polls, PollSettles
<1>6. CASE UNCHANGED vars
    <2>1. UNCHANGED <<server, inbox, asked, client>>
        BY <1>6 DEF vars
    <2> QED
        BY <2>1, ServerStands, SilentStep
<1> QED
    BY <1>1, <1>2, <1>3, <1>4, <1>5, <1>6 DEF Next

LEMMA NextHolds == IInv /\ [Next]_vars => IInv'
BY StepGood DEF Good

LEMMA Invariant == Spec => []IInv
BY InitHolds, NextHolds, PTL DEF Spec

\* The notices start as they must.
LEMMA NoticeStarts == Init => ReprocessNotice!Init /\ DamageNotice!Init
<1> SUFFICES ASSUME Init PROVE ReprocessNotice!Init /\ DamageNotice!Init
    OBVIOUS
<1>1. Fate = [t \in Tasks |-> "open"]
    BY DEF Init, Fate, Terminal
<1>2. \A k \in Kinds : entry[k].task = NoTask /\ Says(entry[k]) = "nothing"
    BY AbsentEntry DEF Init, Says
<1>3. gaveUp["reprocess"] = {} /\ gaveUp["damage"] = {} /\ crossed = {} /\ rejoined = FALSE
    BY DEF Init, Kinds
<1> QED
    BY <1>1, <1>2, <1>3 DEF ReprocessNotice!Init, DamageNotice!Init, Kinds

\* A step of the model is one of the notice of the reprocess store.
LEMMA ReprocessNoticed ==
    ASSUME IInv, [Next]_vars
    PROVE  [ReprocessNotice!Next]_(ReprocessNotice!vars)
<1> USE DEF ReprocessNotice!Next, ReprocessNotice!vars
<1>1. Good
    BY StepGood
<1>2. "reprocess" \in Kinds /\ Stuck("reprocess") = FALSE /\ Stuck("reprocess")' = FALSE
    BY DEF Kinds, Stuck
<1>3. CASE UNCHANGED client /\ FateStep
    <2>1. UNCHANGED <<entry, crossed, gaveUp>>
        BY <1>3 DEF client
    <2>2. CASE Fate' = Fate
        BY <2>1, <2>2
    <2>3. CASE \E t \in Tasks : \E o \in Terminal :
                 Fate[t] = "open" /\ Fate' = [Fate EXCEPT ![t] = o]
        <3>1. CASE "reprocess" \in crossed
            BY <2>1, <3>1 DEF ReprocessNotice!Escape
        <3>2. CASE "reprocess" \notin crossed
            BY <2>1, <2>3, <3>2 DEF ReprocessNotice!End, ReprocessNotice!Outcomes, Terminal
        <3> QED
            BY <3>1, <3>2
    <2> QED
        BY <1>3, <2>2, <2>3 DEF FateStep
<1>4. CASE ClientStep
    <2>1. StoreStep("reprocess") /\ UNCHANGED srv
        BY <1>2, <1>4 DEF ClientStep, server
    <2>2. Fate' = Fate
        BY <2>1 DEF Fate
    <2>3. CASE "reprocess" \in crossed'
        BY <2>3 DEF ReprocessNotice!Escape
    <2>4. CASE "reprocess" \notin crossed'
        <3>1. "reprocess" \notin crossed
            BY <2>1, <2>4 DEF StoreStep
        <3>2. CASE Quiet("reprocess")
            BY <2>2, <2>4, <3>1, <3>2 DEF Quiet
        <3>3. CASE Shows("reprocess")
            <4>1. PICK t \in Tasks : entry'["reprocess"].task = t
                BY <3>3 DEF Shows
            <4>2. ReprocessNotice!Show(t)
                BY <1>2, <2>2, <2>4, <3>1, <3>3, <4>1 DEF Shows, ReprocessNotice!Show
            <4> QED
                BY <3>1, <4>2
        <3>4. CASE Tells("reprocess")
            <4>1. Says(entry'["reprocess"]) = srv[entry["reprocess"].task] =>
                    Says(entry'["reprocess"]) = Fate[entry["reprocess"].task]
                BY <3>4 DEF Tells, Fate
            <4>2. ReprocessNotice!Report
                BY <1>2, <2>2, <2>4, <3>1, <3>4, <4>1
                   DEF Tells, ReprocessNotice!Report, ReprocessNotice!Outcomes, Terminal
            <4> QED
                BY <3>1, <4>2
        <3>5. CASE PutsAway("reprocess")
            <4>1. ReprocessNotice!Close
                BY <1>2, <2>2, <2>4, <3>1, <3>5 DEF PutsAway, ReprocessNotice!Close
            <4> QED
                BY <3>1, <4>1
        <3> QED
            BY <2>1, <2>4, <3>2, <3>3, <3>4, <3>5 DEF StoreStep
    <2> QED
        BY <2>3, <2>4
<1> QED
    BY <1>1, <1>3, <1>4 DEF Good

\* And one of the notice of the damage store.
LEMMA DamageNoticed ==
    ASSUME IInv, [Next]_vars
    PROVE  [DamageNotice!Next]_(DamageNotice!vars)
<1> USE DEF DamageNotice!Next, DamageNotice!vars
<1>1. Good
    BY StepGood
<1>2. "damage" \in Kinds /\ Stuck("damage") = rejoined /\ Stuck("damage")' = rejoined'
      /\ rejoined \in BOOLEAN /\ rejoined' \in BOOLEAN
    BY <1>1 DEF Kinds, Stuck, Good, IInv, TypeOK
<1>3. CASE UNCHANGED client /\ FateStep
    <2>1. UNCHANGED <<entry, crossed, gaveUp, rejoined>>
        BY <1>3 DEF client
    <2>2. CASE Fate' = Fate
        BY <2>1, <2>2
    <2>3. CASE \E t \in Tasks : \E o \in Terminal :
                 Fate[t] = "open" /\ Fate' = [Fate EXCEPT ![t] = o]
        <3>1. CASE "damage" \in crossed
            BY <2>1, <3>1 DEF DamageNotice!Escape
        <3>2. CASE "damage" \notin crossed
            BY <2>1, <2>3, <3>2 DEF DamageNotice!End, DamageNotice!Outcomes, Terminal
        <3> QED
            BY <3>1, <3>2
    <2> QED
        BY <1>3, <2>2, <2>3 DEF FateStep
<1>4. CASE ClientStep
    <2>1. StoreStep("damage") /\ UNCHANGED srv
        BY <1>2, <1>4 DEF ClientStep, server
    <2>2. Fate' = Fate
        BY <2>1 DEF Fate
    <2>3. CASE "damage" \in crossed'
        BY <2>3 DEF DamageNotice!Escape
    <2>4. CASE "damage" \notin crossed'
        <3>1. "damage" \notin crossed
            BY <2>1, <2>4 DEF StoreStep
        <3>2. CASE Quiet("damage")
            BY <1>2, <2>2, <2>4, <3>1, <3>2 DEF Quiet
        <3>3. CASE Shows("damage")
            <4>1. PICK t \in Tasks : entry'["damage"].task = t
                BY <3>3 DEF Shows
            <4>2. /\ Says(entry["damage"]) = "running" => rejoined
                  /\ Says(entry'["damage"]) = "running" /\ gaveUp'["damage"] = gaveUp["damage"]
                BY <1>2, <3>3 DEF Shows
            <4>3. rejoined' = rejoined \/ rejoined' = TRUE
                BY <1>2, <3>3 DEF Shows
            <4>4. DamageNotice!Show(t)
                BY <2>2, <2>4, <3>1, <4>1, <4>2, <4>3 DEF DamageNotice!Show
            <4> QED
                BY <3>1, <4>4
        <3>4. CASE Tells("damage")
            <4>1. Says(entry'["damage"]) = srv[entry["damage"].task] =>
                    Says(entry'["damage"]) = Fate[entry["damage"].task]
                BY <3>4 DEF Tells, Fate
            <4>2. DamageNotice!Report
                BY <1>2, <2>2, <2>4, <3>1, <3>4, <4>1
                   DEF Tells, DamageNotice!Report, DamageNotice!Outcomes, Terminal
            <4> QED
                BY <3>1, <4>2
        <3>5. CASE PutsAway("damage")
            <4>1. DamageNotice!Close
                BY <1>2, <2>2, <2>4, <3>1, <3>5 DEF PutsAway, DamageNotice!Close
            <4> QED
                BY <3>1, <4>1
        <3> QED
            BY <2>1, <2>4, <3>2, <3>3, <3>4, <3>5 DEF StoreStep
    <2> QED
        BY <2>3, <2>4
<1> QED
    BY <1>1, <1>3, <1>4 DEF Good

-----------------------------------------------------------------------------
(* The theorems.                                                           *)

\* The variables have their types; a modal that says a task is running is
\* about one and shows its progress (createDerivedTaskScopeStore).
THEOREM TypeCorrect == Spec => []TypeOK
<1>1. IInv => TypeOK
    BY DEF IInv
<1> QED
    BY <1>1, Invariant, PTL

\* A modal in progress, which cannot be closed, has a poll that will end it,
\* unless a calculation was tracked anew while its old poll only invalidated.
THEOREM RunningIsPolledHolds == Spec => []RunningIsPolled
<1>1. IInv => RunningIsPolled
    BY DEF IInv
<1> QED
    BY <1>1, Invariant, PTL

\* A summary says what became of its task, or that contact was lost, unless
\* a poll outlived its entry: no update asks whose entry it changes.
THEOREM OutcomeIsOwnHolds == Spec => []OutcomeIsOwn
<1>1. IInv => OutcomeIsOwn
    BY DEF IInv
<1> QED
    BY <1>1, Invariant, PTL

\* The modal of each store (track, the polls' updates, closeSummary) is a
\* TaskNotice: until a poll outlives its entry, a task is shown when none is
\* said to run, told of once, and put away after that.
THEOREM NoticeImplemented == Spec => ImplementsNotice
<1>1. IInv /\ [Next]_vars => [ReprocessNotice!Next]_(ReprocessNotice!vars)
    BY ReprocessNoticed
<1>2. IInv /\ [Next]_vars => [DamageNotice!Next]_(DamageNotice!vars)
    BY DamageNoticed
<1> QED
    BY <1>1, <1>2, NoticeStarts, Invariant, PTL
       DEF Spec, ImplementsNotice, ReprocessNotice!Spec, DamageNotice!Spec

\* The report that a schedule is not fit for damage stays with the scope until
\* an answer or a follow-up names a calculation, or one ends without failing.
THEOREM ReportKeptHolds == Spec => ReportKept
<1>1. IInv /\ [Next]_vars => [ReportLost => Dismissed]_vars
    BY ReportStep
<1>2. [ReportLost => Dismissed]_vars =>
        [ (entry["damage"].report /\ ~entry'["damage"].report) =>
          \/ \E a \in inbox \ inbox' : a.store = "damage" /\ ~a.report
          \/ \E t \in Tasks :
               /\ poll["reprocess"][t].at = "invalidate" /\ follow[t] \in Tasks
               /\ ~Polled("reprocess", t)'
          \/ \E t \in Tasks :
               /\ poll["damage"][t].at = "answer"
               /\ poll["damage"][t].seen \in {"completed", "cancelled"}
               /\ entry'["damage"].status = poll["damage"][t].seen ]_vars
    BY DEF ReportLost, Dismissed
<1> QED
    BY <1>1, <1>2, Invariant, PTL DEF Spec, ReportKept

-----------------------------------------------------------------------------
(* What TaskNotice promises is enough for the truth of what is told.       *)

\* A notice is of a task or of none.
ReprocessNoticeSound ==
    "reprocess" \notin crossed =>
        entry["reprocess"].task \in Tasks \cup {NoTask} /\ ReprocessNotice!TellsTheTruth
DamageNoticeSound ==
    "damage" \notin crossed =>
        entry["damage"].task \in Tasks \cup {NoTask} /\ DamageNotice!TellsTheTruth

LEMMA ReprocessTruthKept ==
    ASSUME ReprocessNoticeSound, [ReprocessNotice!Next]_(ReprocessNotice!vars)
    PROVE  ReprocessNoticeSound'
<1> SUFFICES ASSUME "reprocess" \notin crossed'
             PROVE  /\ (entry["reprocess"].task \in Tasks \cup {NoTask})'
                    /\ ReprocessNotice!TellsTheTruth'
    BY DEF ReprocessNoticeSound
<1> USE DEF ReprocessNotice!TellsTheTruth, ReprocessNotice!Outcomes
<1>1. CASE UNCHANGED ReprocessNotice!vars
    BY <1>1 DEF ReprocessNotice!vars, ReprocessNoticeSound
<1>2. CASE ReprocessNotice!Next
    <2>1. "reprocess" \notin crossed /\ ~ReprocessNotice!Escape
        BY <1>2 DEF ReprocessNotice!Next, ReprocessNotice!Escape
    <2>2. entry["reprocess"].task \in Tasks \cup {NoTask} /\ ReprocessNotice!TellsTheTruth
        BY <2>1 DEF ReprocessNoticeSound
    <2>3. CASE \E t \in Tasks : ReprocessNotice!End(t)
        <3>1. PICK t \in Tasks : ReprocessNotice!End(t)
            BY <2>3
        <3>2. PICK o : Fate' = [Fate EXCEPT ![t] = o] /\ Fate[t] = "open"
            BY <3>1 DEF ReprocessNotice!End
        <3>3. \A u \in Tasks : u = t \/ Fate'[u] = Fate[u]
            BY <3>2 DEF Fate
        <3> QED
            BY <2>1, <2>2, <3>1, <3>2, <3>3 DEF ReprocessNotice!End
    <2>4. CASE \E t \in Tasks : ReprocessNotice!Show(t)
        BY <2>4 DEF ReprocessNotice!Show
    <2>5. CASE ReprocessNotice!Report
        BY <2>2, <2>5 DEF ReprocessNotice!Report
    <2>6. CASE ReprocessNotice!Close
        BY <2>6 DEF ReprocessNotice!Close
    <2> QED
        BY <1>2, <2>1, <2>3, <2>4, <2>5, <2>6 DEF ReprocessNotice!Next
<1> QED
    BY <1>1, <1>2

LEMMA DamageTruthKept ==
    ASSUME DamageNoticeSound, [DamageNotice!Next]_(DamageNotice!vars)
    PROVE  DamageNoticeSound'
<1> SUFFICES ASSUME "damage" \notin crossed'
             PROVE  /\ (entry["damage"].task \in Tasks \cup {NoTask})'
                    /\ DamageNotice!TellsTheTruth'
    BY DEF DamageNoticeSound
<1> USE DEF DamageNotice!TellsTheTruth, DamageNotice!Outcomes
<1>1. CASE UNCHANGED DamageNotice!vars
    BY <1>1 DEF DamageNotice!vars, DamageNoticeSound
<1>2. CASE DamageNotice!Next
    <2>1. "damage" \notin crossed /\ ~DamageNotice!Escape
        BY <1>2 DEF DamageNotice!Next, DamageNotice!Escape
    <2>2. entry["damage"].task \in Tasks \cup {NoTask} /\ DamageNotice!TellsTheTruth
        BY <2>1 DEF DamageNoticeSound
    <2>3. CASE \E t \in Tasks : DamageNotice!End(t)
        <3>1. PICK t \in Tasks : DamageNotice!End(t)
            BY <2>3
        <3>2. PICK o : Fate' = [Fate EXCEPT ![t] = o] /\ Fate[t] = "open"
            BY <3>1 DEF DamageNotice!End
        <3>3. \A u \in Tasks : u = t \/ Fate'[u] = Fate[u]
            BY <3>2 DEF Fate
        <3> QED
            BY <2>1, <2>2, <3>1, <3>2, <3>3 DEF DamageNotice!End
    <2>4. CASE \E t \in Tasks : DamageNotice!Show(t)
        BY <2>4 DEF DamageNotice!Show
    <2>5. CASE DamageNotice!Report
        BY <2>2, <2>5 DEF DamageNotice!Report
    <2>6. CASE DamageNotice!Close
        BY <2>6 DEF DamageNotice!Close
    <2> QED
        BY <1>2, <2>1, <2>3, <2>4, <2>5, <2>6 DEF DamageNotice!Next
<1> QED
    BY <1>1, <1>2

\* In every behaviour TaskNotice allows, an outcome told is that of its task
\* unless contact was lost or a poll outlived its entry.
THEOREM NoticeTellsTheTruth ==
    ImplementsNotice => [](ReprocessNotice!TellsTheTruth /\ DamageNotice!TellsTheTruth)
<1>1. ReprocessNotice!Init => ReprocessNoticeSound
    BY DEF ReprocessNotice!Init, ReprocessNoticeSound, ReprocessNotice!TellsTheTruth
<1>2. DamageNotice!Init => DamageNoticeSound
    BY DEF DamageNotice!Init, DamageNoticeSound, DamageNotice!TellsTheTruth
<1>3. ReprocessNoticeSound => ReprocessNotice!TellsTheTruth
    BY DEF ReprocessNoticeSound, ReprocessNotice!TellsTheTruth
<1>4. DamageNoticeSound => DamageNotice!TellsTheTruth
    BY DEF DamageNoticeSound, DamageNotice!TellsTheTruth
<1> QED
    BY <1>1, <1>2, <1>3, <1>4, ReprocessTruthKept, DamageTruthKept, PTL
       DEF ImplementsNotice, ReprocessNotice!Spec, DamageNotice!Spec

=============================================================================
