# Verification of the analysis dashboard

TLA+ models of the server in `src/server` (FastAPI on one event loop, DuckDB as the store, one
daemon thread per background task) and of the stateful part of the client in `src/client` (React
components, stores, polls and query caches), TLC runs of small instances, and TLAPS proofs for
all instances.

Contents: [inventory](#inventory) - [modules](#modules-and-how-they-correspond-to-the-code) -
[runs](#runs) - [fairness](#fairness) - [proofs](#proofs) - [divergences](#divergences) -
[not modelled](#not-modelled-and-why) - [plan](#plan).

## Inventory

| Component | State | Operations | Talks to |
|---|---|---|---|
| Folder upload worker (`services/ingestion.py`) | locals of `ingest`: files, `existing_hashes`, `existing_event_ids`, `created_events` | `_run`: convert, validate, write one event per transaction, record, terminal update | task row, event table; reads the row's status at its cancel checks |
| Upload task routes and rows (`routers/upload.py`, `storage/database.py`) | `upload_tasks` (status, result, heartbeat, expiry) | start, poll, discover, cancel, clean-up, reconcile stale, expire | started threads, event table |
| Event table (`storage/database.py`) | `dim_event` and the tables keyed by event id | insert, clean-up, soft delete, purge, scope delete | every worker |
| Start-up reconciliation (`storage/data_backfills.py`) | - | fail the rows left active | task rows |
| Channel reprocess (`ingestion.py`) | channel map, `measurements_lttb`, lineage | start or reuse, per-artifact rewrite, follow-up | damage rows, damage calculation |
| Damage calculation, precompute, rescale (`services/damage_calculation_task.py`, `post_upload_precompute.py`, `schedule_damage_rescale.py`) | `event_channel_damage`, derived task rows | start or reuse, per-channel upsert, rescale, mark stale, clear | schedules, channel map |
| Durability schedules | the active schedule of a program/version | attach, edit | damage calculation |
| Admission, presence, database switch/create/delete (`services/operation_admission.py`, `active_presence.py`, `routers/export.py`) | the exclusive-operation slot, presence records, `app.state.db` | admit or block, heartbeat, swap stores | all tasks, pages |
| Database export (`services/export.py`) | task in memory and as a JSON file, cancel event, zip | start, poll with stall check, cancel, download, clean-up | store, scratch directory |
| Query service, cache, data version | TTL cache, `_schema_metadata.data_version` | cached reads, invalidation, version poll | every write transaction |
| Sessions, identity | session rows, users and `token_version` | create, get with expiry, merge-update, sign-in | client |
| Files to data (ETL), numerics, plots | none | parse, validate, downsample, rainflow | - |
| Client: derived task tracking (`stores/`, `lib/api/task-polling.ts`) | one entry per scope and store, the polls | track, poll, retry, follow up, open and close modals | task routes |
| Client: metadata editor (`components/edit-metadata`) | drafts, baselines, snapshots, dirty flags, query caches | edit, reset, restore, save, upload, switch scope, close | metadata routes, other users |
| Client: session and sign-in (`hooks/use-session.ts`, `stores/auth-store.ts`) | shared session id, cache, backup, pending updates per hook | sign in, sign out, create, read, debounce, send | sessions |
| Client: plot rendering (`stores/render-store.ts`, `plot-grid/`) | plots, loading keys, errors, fetch cycles | render, stop, clear, expand, return | plot routes, session |
| Client: database switch and data version (`hooks/use-database-switch.ts`, `use-data-version-sync.ts`) | last seen version, data on show | poll, heartbeat, reload | sync and export routes |

What makes the server hard. Handlers run one at a time on the event loop, but every background
task is a real thread, and the two meet in the database. One database call is atomic
(`UnifiedStore` serialises calls under `_db_lock`, a write is one transaction); a handler that reads
and later writes is not, and no worker re-reads what it was started with. Rows expire, are found
stale and are failed while their worker is alive; a restart kills all threads. A store that was
replaced opens its file again when a worker or a read still holds it.

What makes the client hard. One callback runs at a time, but every `await` lets others in; answers
arrive out of order, after the component that asked was unmounted, or for a scope that is no longer
on show. State is kept twice or three times (draft and cache, flag and panel, session and backup,
store entry and poll), and effects copy it from one place to the next.

What makes each component correct:

* uploads: what a task row says it has committed is what the event table holds for it, whatever
  is cancelled, failed, expired, cleaned up or restarted; ids are given to one upload at a time;
  a cancel stops the worker within one event; no task stays active for ever;
* derived tasks: damage and plots marked current were computed from the current channel map; the map
  changes under no worker; every task comes to rest;
* database life cycle: a switch or delete happens only when nobody works on the database; what a user
  asks for goes to the database the user is looking at; pages learn of the switch;
* task tracking: an outcome shown is the task's own; a modal that cannot be closed is going to end;
* metadata editor: edits are lost only to somebody who agreed; a save carries what belongs to its scope;
* session: what the user sees is ahead of, and in the end equal to, what is stored; sign-in ends;
* plots: those on show are of the rendered events; no spinner stays.

`PROJECT.json` lists the hazards behind these at their lines, and which property is about each.

## Modules, and how they correspond to the code

| Module | Role |
|---|---|
| `EventLedger` | abstract specification: what the event table promises to uploads; `FolderUpload` implements it |
| `DerivedData` | abstract specification: how plots and base damage follow the channel map; `DerivedTasks` implements it |
| `TaskNotice` | abstract specification: what a modal tells of a task; each store of `TaskTracking` implements it |
| `PlotGallery` | abstract specification: which plots are on show together; `PlotRender` implements it |
| `FolderUpload` | routes, worker threads, task rows and events of folder uploads |
| `DerivedTasks` | channel reprocess, damage calculation, precompute decisions, rescaling and schedule saves of one program/version |
| `DatabaseSwitch` | admission, presence, switch, create, delete, restart, and the pages and tasks they meet |
| `TaskTracking` | the two derived-task stores of the client and their polls |
| `MetadataDialog` | the metadata dialog and one of its panels |
| `ClientSession` | `useSession` in several instances, sign-in, and the session rows |
| `PlotRender` | render store, plot grid, sequential and lazy fetch |
| `MC...` | the instances TLC checks |
| `FolderUploadTypes`, `FolderUploadProofs`, `DerivedTasksProofs`, `DatabaseSwitchProofs`, `TaskTrackingProofs`, `ClientSessionProofs`, `MetadataDialogProofs`, `PlotRenderProofs` | theorems and proofs |

Four modules are composed with an abstract specification by a refinement: `ImplementsLedger`, `ImplementsData`,
`ImplementsNotice` (twice, once for each store) and `ImplementsGallery`. The components meet in what one
assumes of the next: `TaskTracking` takes the server as derived tasks that end (`DerivedTasks!TasksSettle`), where a
calculation may run beside another task (divergence 8) and a reprocess may not, and `DatabaseSwitch`
takes a task as rows that are running, silent or over.

### FolderUpload

| Variable | Code |
|---|---|
| `status[t]`, `recorded[t]` | columns `status` and `result_json.event_ids` of t's row in `upload_tasks` |
| `events` | rows of `dim_event`: id, committing task, `file_hash` |
| `pc[t]` | where t's thread stands in `_run` and `ingest` |
| `job[t]` | inputs and snapshots of the thread: files left, files validated, `existing_hashes`, `existing_event_ids`, outcome |
| `created[t]`, `current[t]` | `created_events` (at the end: `IngestionResult.event_ids`), the event in hand |
| `loop` | the handler the event loop is in the middle of, with what it read |
| `cleaned`, `lost`, `late`, `overlap` | history, for the properties only |

Steps end at database calls. The worker: `WorkerStart` (unconditional `running`), `Prepare`
(conversion and the snapshot of hashes), `Validate`, `AllValidated` (channel map, snapshot of
ids), `NextEvent`, `CommitEvent` (the transaction), `AfterCommit` (cancel check, retained artifact,
record), `AllWritten` (audit row), `Finish` (terminal update). The routes: `StartUpload`; a poll as
`PollRead` and `PollWrite`; a cancel as `CancelRead` and `CancelWrite`; a clean-up as `CleanupRead` and
`CleanupWrite`. `Restart` ends all threads and fails active rows.

Both branches of `ingest` are modelled: with a channel map all files are validated before any is
written, duplicates are compared with the store only; without one each file is written as soon as
it is valid, and its hash is remembered.

Abstractions. Time: any active row may be found stale by any poll, any row may be past its TTL
(the code's clocks allow either at some moment, 180 s and 30 min). One program/version: tasks on
other scopes share nothing with it but the event loop. The generated id is a pair of base name
and suffix, 0 for the bare name; names whose sanitised form already ends in a numeric suffix are
not told apart. An event stands for all rows keyed by its id, which the
clean-up deletes with it (`event_channel_damage` excepted: see the hazards). Expiry and the
insert in `StartUpload`, and the two adjacent reads of the branch without a map, are one step. The
content of a file is its digest; parsing and validation are a choice of outcome.

### DerivedTasks

| Variable | Code |
|---|---|
| `status[t]`, `kind[t]` | columns `status` and `task_kind` of the rows of derived tasks |
| `at[a]`, `mem[a]` | where actor `a` stands and what it holds: actor 0 is the event loop with the handler it is in, the others are worker threads |
| `schedule` | the active row of the durability schedules, by its content |
| `chmap` | `dim_channel_map` of the scope |
| `lttb[e]` | `event_derived_data.lttb_status` of an event, and the map its plots were made from |
| `damage[e]` | `event_channel_damage` of an event's channel: status, stale reason, the schedule it is scaled by, the map its base damage was computed from |
| `revived`, `overran` | history, for the properties only |

A decision (`decide_after_schedule_save`, `..._channel_reprocess_completion`,
`..._inspect_damage_access`) is the same code on the event loop and, after a reprocess, on the worker's
thread; so its steps take the actor as a parameter: `Assess`, `Prereq`, `Lookup`, `Admit`, `Create`.
Handlers: a schedule save is `Save`, `MarkScheduleChanged`, `Prereq`, then `Eligible`, `ReadBases`,
`Rescale` for a scaling-only change, or `ClearDamage`, `Lookup`, `Admit`, `Create`; an attachment begins
with `Attach` and `Hydrate`; a channel-map save is `StartReprocess`, `Lookup`, `Admit`,
`MarkReprocessRequired`, `ActivateSnapshot`, `WriteChannelMap`, `Create`. Workers: `WorkerStart`, then
`ProcessArtifact` and `FollowUp`, or `ReadSeries` and `WriteDamage`; `Finish`. `Refused` is a follow-up
that meets a database creation, which asks for no derived task. A schedule with a blank repeats or
weight makes the scaling test raise after the save is stored, and makes a damage worker fail.

Abstractions. Every event has raw measurements, a retained artifact with an ingestion run, and one
damage channel. A schedule is the set of events it matches and its scaling. Merged steps, where what
lies between cannot change the outcome: the reads of one decision that only the event loop can
make false; the test for stale rows to keep and the clearing (only the event loop makes rows stale);
expiry and the selection of stale rows; `store_snapshot`, `set_active_snapshot` and the marking of plots
(nothing modelled reads the active snapshot). Rows that are terminal may expire too; no decision looks
at them. The channel map an upload brings is not in the model.

### DatabaseSwitch

| Variable | Code |
|---|---|
| `active`, `files`, `version[d]` | `app.state.db`, the files there are, `_schema_metadata.data_version` |
| `slot` | `_active_exclusive_db_operation` and the target of the switch in progress |
| `task[t]` | a request: sent, with its store (`get_database`) held, running as rows or as an export, over; whether its worker lives, and on which database |
| `presence[u]` | `active_database` of the user's presence record |
| `page[u]`, `fetch[u]` | the database the data on show came from, `lastSeenVersionRef`; the store a read under way works on |
| `lapsed`, `polled`, `missed`, `task[t].late` | history |

Tasks: `Send`, `Take` (the dependency that hands out the store, in a thread), `Start`, `FollowUp`,
`WorkerWrites`, `WorkerEnds`, `FindSilent`. Databases: `SwitchBegins` (admission and the slot),
`SwitchEnds` (the swap, or failed health checks), `Create`, `Delete`, `Restart`, `Edit`. Pages: `Reload`,
`Heartbeat`, `Expire`, `Sync`, `Refetch`, `FetchArrives`, `FetchFails`. Admission fails silent rows first,
then blocks on rows of the active database, on exports and, for a switch, on other users present. A
worker or read whose store was replaced works on in its own file, and makes it again if it was deleted.
The operator is an administrator without a page on the data: presence is asked of the others.

### TaskTracking

| Variable | Code |
|---|---|
| `srv`, `kind`, `follow` | the task rows on the server and the follow-up named in a result |
| `inbox` | answers on their way to the tab |
| `entry[k]` | `state.scopes[scope]` of the reprocess and of the damage store |
| `poll[k][t]` | where `waitForTaskStatus` and its caller stand in store k (its `activePolls`) |
| `crossed`, `rejoined`, `gaveUp` | history |

`Request` and `Discover` ask; `Deliver` is `track` or `setScheduleDamageReport` when the answer comes;
`CloseSummary` and `Reopen` are the user. `OthersStart` and `OthersCancel` are other tabs and users, `FollowUpStarts`
is what a reprocess decides when its work is done (a calculation that starts, one that is active already, or a
schedule that is unfit), `WorkerEnds` the end of a task. No store asks for the kind of the task it follows: a save
that is answered with the task already active tracks it in its own store, so a reprocess may be followed as a
damage calculation, and the other way round, and each store has polls of its own. A poll is `PollAsk`, then `PollGoesOn`, `PollRetries` or
`PollThrows`, or the end: `ReprocessEnds`, `ReprocessReports` (after the awaited invalidation; it tracks
the follow-up in the other store), `DamageEnds` (its last update comes first), `DamageInvalidated`.
Updates go to whatever entry is there, as in the code. A task that has ended may have lost its row, and
the poll then throws.

### MetadataDialog

| Variable | Code |
|---|---|
| `row[s]`, `cache[s]`, `fetch` | the datum on the server, `query.data`, the queries that are fetching |
| `dlg` | `MetadataEditDialog` and its store: scope on show, pending scope, prompt, dirty flag |
| `ed` | the panel: draft, baseline, dirty mark, snapshot of Reset, hydration key |
| `saves` | saves and uploads: sent, taken by the server, waiting for the invalidated query |
| `held`, `dropped`, `dlg.forgiven`, `ed.astray`, `saves[].sound` | history |

A behaviour follows one of the three panels, chosen at the start: they share the dialog's flags only.
`Open`, `Review` (the "Review schedule" of a summary), `RequestClose`, `Discard`, `Keep`; `Type`, `Reset`,
`Restore`, `Save`, `Upload`; `Takes`, `Fails`, `Answered`, `Settles` of a request; `Arrives`, `FetchFails`,
`Refetch` of a query; `Others` for another user. The effects after a commit (`Commits`) are part of the step
that causes them: the flag follows the panel, the pending scope is applied or asked about, and the panel
sees the data of the scope on show. How data meet a draft differs from panel to panel (`Hydrated`,
`Saved`). A panel's fields are one value.

### ClientSession

| Variable | Code |
|---|---|
| `srv[s]` | the session's row |
| `shared`, `cache`, `view`, `got` | the id in `localStorage`, the session query with its state and its request |
| `backup` | the copy in `sessionStorage` |
| `pend[h]`, `mounted`, `puts` | `pendingUpdatesRef` of each hook, mounted hooks, PUTs under way |
| `auth`, `creating`, `page` | the auth store with its requests, the create mutation, the page |
| `astray`, `stuck` | history |

Sign-in: `Bootstrap`, `BootAnswers`, `Login`, `LoginThrows`, `LoginAnswers`, `LoginCreates`, `Leave` (log-out or
a 401). The hook: `Mount`, `Unmount`, `ServeGet`, `AnswerGet`, `GetFails`, `Create`, `CreateAnswers`, `CreateFails`,
`Update`, `Flush` (the debounce ends), `Rerender`, `Trim` (eviction). The server: `ServePut` (a merge, in the order
in which requests arrive), `LosePut`, `Expire`. `LoadPage` is a reload: storages stay, memory goes. Passwords and
tokens are only what the client can tell apart: authenticated, not, or an error. `SessionManager.update` is one
step: it does not leave the event loop between its read and its write.

### PlotRender

| Variable | Code |
|---|---|
| `rendering`, `cached`, `loading`, `errors` | the render store |
| `selected`, `rendered`, `chosen`, `tab` | the session's two event sets, the plot and tab on show |
| `grid` | refs and state of the mounted `PlotGrid` and of `useSequentialPlotData` |
| `cycles` | calls of `startSequentialFetch` that have not returned: whose, whether still the latest, whether aborted |
| `lazy` | `useLazyPlotFetch` of the viewer |
| `orphaned`, `flickered` | history |

The user: `Select`, `Render` (also Stop), `Clear`, `Expand`, `ReturnToGrid`, and `Reread` for an evicted session
query. Answers: `PlotArrives`, `PlotFails`, `LazyArrives`, `LazyFails`. After each change React runs the effects of
the mounted view with what was rendered before them, until nothing changes (`Becomes`: three rounds). An
event set is one value and a plot is the set it was computed for.

## Runs

| Run | Shows | Distinct states |
|---|---|---|
| `folder_upload` | what rows record stays true to what the event table holds; uploads implement `EventLedger` | 2.3 million |
| `folder_upload_liveness` | `UploadsSettle` | |
| `derived_tasks` | `BasesOfTheMap`, `MapChangesAlone`, `ImplementsData` | 1.2 million |
| `derived_tasks_liveness` | `TasksSettle` | |
| `database_switch` | `WorkersOnActive`, `LandsWhereShown`, `ViewsCatchUp` | 318 000 |
| `task_tracking` | `RunningIsPolled`, `ImplementsNotice`, `ReportKept`, `ProgressEnds`, `FollowUpSeen` | 45 000 |
| `metadata_dialog` | `AsksBeforeLosing`, `WritesAreOwn`, `BaselineWasHeld`, `EditsSurvive` | 1.3 million |
| `client_session` | `CacheLeads`, `QuietAgreement`, `UpdatesStayInSession`, `LoadingEnds`, `SessionComes` | 314 000 |
| `plot_render` | `ImplementsGallery`, `SpinnersEnd`, `ViewerLoads`, `FinishedIsFull`, `RenderingEnds` | 144 000 |
| `discard_discards`, `backup_survives_expiry`, `tab_switch_keeps_plots` | what a text promises and the code does not keep: TLC finds the counterexample | |

Each run of safety properties checks its module's `TypeOK` as well. Many properties have an exception for
a hazard the code does not exclude (`lost`, `crossed`, `rejoined`, `lapsed`, `missed`, `orphaned`, `flickered`, `stuck`,
`astray`, `forgiven`, `overran`, `revived`): a history variable says exactly when the hazard has struck. So such a
property says that nothing else can break the promise, and the exception is itself a statement about
the code: leaving it out makes TLC produce the behaviour in which it strikes.

Bounds.

* Uploads. Two uploads, because every hazard but one is between one worker and the routes, and that
  one (shared names and digests) between two workers. Two files with one base name and different
  digests: enough for a partial import, a second suffix and a duplicate across uploads. Each task
  is started once; restarts, polls, cancels and clean-ups are not bounded. `folder_upload` lets rows
  expire. Tasks are interchangeable, and so are the two files together
  with their digests: the symmetry set is generated by both exchanges. The liveness run uses one file
  per upload, no expiry and no symmetry.
* Derived tasks. `MaxTasks` tasks are started in a behaviour; a start is offered only when enough are left
  for it and for the follow-ups under way (`Room`). Three tasks: a calculation on the first map, a
  reprocess, and the calculation that follows it or that a request starts beside it. Two events, one of
  them Pending, so that a calculation or a reprocess may be partly done and may fail for one; two
  maps; two schedules of one matching but different scaling. Saves, attachments, polls, cancels and
  restarts are not bounded. Maps, and the schedules other than the draft, are interchangeable; the view
  identifies completed with failed tasks, which no action or property tells apart. `derived_tasks` keeps
  rows of live workers from being taken (`Overtime = FALSE`: the heartbeat comes with every step, and the
  TTL is 30 minutes); the liveness run allows it, with two tasks, one event and a blank schedule.
* Database switch. Two databases, one user with a page and the operator, one task that is asked for and one
  follow-up; two switches or restarts, so that a database can be left and come back to; versions 0
  and 1, so that the one connected may be lower, equal or higher. Heartbeats, polls, reloads, creations and
  deletions are not bounded.
* Task tracking. Two tasks of either kind: an entry and the poll that outlived it, or a reprocess and its
  follow-up, or one task followed in both stores; one request or page load. A page load brings as many answers as
  there are tasks, a follow-up needs no request, and a request may meet a task of another tab: so two
  tasks cross in a store, a reprocess is followed as a calculation, a calculation is tracked anew and a blocked
  schedule is reported within the bound. Polls, retries, closings, other users are not bounded. (Without the liveness
  properties TLC also finishes with two requests: 1.8 million states, no error.)
* Metadata editor. Two scopes, two values beyond those the rows begin with, three openings, scope changes
  or refetches: enough to leave a scope with a request under way, come back and be answered.
* Session. Two hooks that may update one field or two, two sessions (the second replaces the first), two
  updates, two faults (lost request, expiry, eviction, reload). Sign-ins are bounded by the sessions.
* Plots. Two selections, three plots, six clicks, two failures: a cycle in its middle, superseded by a second
  one, and a tab change before and after.

Deadlock is checked in the runs of uploads and derived tasks, where a poll and a restart are always
possible. The others may stop: their inputs are bounded and a client at rest does nothing.

## Fairness

`WF(Worker(t))`, `WF(WorkerEnds(t))`: threads run, and a derived task ends (`TasksSettle` shows it). `WF` of the second
half of a handler, `WF(SwitchEnds)`: the event loop finishes the handler it is in.
`SF(PollFinds(t))` of uploads: a row whose worker is gone keeps its old heartbeat, so once
180 s have passed every poll with the stale check finds it; the client polls every active task and
discovers tasks on load, so such a poll comes again and again, whatever else the loop does in
between. `DerivedTasks` has the same: `SF` of a poll and of
the look-up that finds the row overdue; `waitForDerivedDataTask` polls until the task is terminal, which
drops the row after its TTL, and the inspect view, polled while a calculation is active, fails it after
180 s.

In the client, `WF(Polls(k, t))`: timers fire and a fetch is answered or fails. `SF(PollSettles(k, t))`: a poll
does not meet transient errors only; the retry window of `task-polling.ts` comes to an end and then it throws.
`WF(Sync(u))`, `WF(FetchArrives(u) \/ FetchFails(u))`: the version timer runs in hidden pages too, a read ends.
`WF` of `Bootstrap`, `Create` and of the answers in `ClientSession`: effects run after every render, requests end.
`WF(Answers)` in `PlotRender`: a plot request has a timeout.

Nothing is assumed about users: nobody need cancel, clean up, reload, close or start anything.

## Proofs

TLAPS proves, for any value of the constants (any sets of tasks, files, events, maps, databases, users, and any
bounds):

| Theorem | Statement | Assumes |
|---|---|---|
| `FolderUploadTypes!TypeCorrect` | `Spec => []TypeOK` | `FileAssumption`, `FlagAssumption` |
| `RowKeepsUpHolds`, `CompletedReportsAllHolds`, `StopsAfterCancelHolds`, `DuplicatesNeedOverlapHolds`, `RecordedIsOwnHolds` | the five invariants | the same |
| `LedgerImplemented` | `Spec => Ledger!Spec` | the same |
| `LedgerGivesIdsOnce` | in every behaviour of `EventLedger` ids are unique | none |
| `DerivedTasksProofs!TypeCorrect`, `BasesOfTheMapHolds`, `MapChangesAloneHolds`, `PlotsOfTheMapHolds` | the invariants and the action property of `derived_tasks`, and that plots marked ready are of the map in force | the assumptions of `DerivedTasks` |
| `DataImplemented` | `Spec => Data!Spec` (`ImplementsData`) | the same |
| `DataOfTheMap` | in every behaviour of `DerivedData` what is current is of the map in force | none |
| `DatabaseSwitchProofs!TypeCorrect`, `WorkersOnActiveHolds`, `LandsWhereShownHolds` | the invariants of `database_switch` | `SwitchAssumption` |
| `TaskTrackingProofs!TypeCorrect`, `RunningIsPolledHolds`, `ReportKeptHolds`, `OutcomeIsOwnHolds` | the safety properties of `task_tracking`, and that an outcome is the task's own | `TaskAssumption` |
| `NoticeImplemented` | `Spec => ReprocessNotice!Spec /\ DamageNotice!Spec` (`ImplementsNotice`) | the same |
| `NoticeTellsTheTruth` | in every behaviour of `TaskNotice` an outcome told is the task's, unless contact was lost | the same |
| `ClientSessionProofs!TypeCorrect`, `CacheLeadsHolds`, `QuietAgreementHolds`, `UpdatesStayInSessionHolds` | the safety properties of `client_session` | `SessionAssumption` |
| `MetadataDialogProofs!TypeCorrect`, `AsksBeforeLosingHolds`, `WritesAreOwnHolds`, `BaselineWasHeldHolds`, `EditsSurviveHolds` | the safety properties of `metadata_dialog` | `DialogAssumption` |
| `PlotRenderProofs!TypeCorrect`, `SpinnersEndHolds`, `ViewerLoadsHolds`, `FinishedIsFullHolds`, `PlotsOfRenderedHolds` | the safety properties of `plot_render`, and that plots are of the rendered events | `RenderAssumption` |
| `GalleryImplemented` | `Spec => Gallery!Spec` (`ImplementsGallery`) | the same |
| `GalleryOfRendered` | in every behaviour of `PlotGallery` the plots are of the rendered events | none |
| `EffectsSettled` | `Spec => [](Effects(Page) = Page)`: three rounds of effects always suffice | `RenderAssumption` |

Uploads. `TypeOK` is not inductive: `_generate_event_id` finds a suffix only because the ids it
avoids are finitely many, so `TypeInv` adds that `events` and every snapshot are finite
(`GeneratedIdIsFresh` is the pigeonhole argument), and that a worker about to commit has an id and
one about to finish an outcome. `Books` says where each event an upload has committed is noted at each
point of its program: in `created`, in the row if there is one, or in hand. `Counted` says
that under a cancel request nothing has been committed yet unless the worker is just about to look at
it. `Ownership` says that ids are unique, that the ids a task knows of and that are not `lost` are its own until it is
cleaned up, and that the first clean-up of an upload, between its read and its write, is about to delete its own events: the
last part is needed because the two halves are separate steps. A clean-up asked for again works on ids that may
have been given to another upload since (divergence 4 below); `lost` collects the ids it deletes, and
`EventLedger` gives up its promise for exactly these. `Distinct`, for the duplicates, says that
uploads in progress have met (`overlap`), and that a snapshot of hashes misses only events of uploads met, or
the upload's own when it has a channel map; without it nothing ties the digest a worker compared some
steps ago to the events that are there when it commits. `WorkerFrame` (a worker touches only its
own task) and `EventsStep` (the ways the event table changes) keep the case analysis to one step per
action.

Derived tasks. `MapChangesAlone` compares a step of the event loop with what workers hold, so the invariant
ties rows to threads: a live worker has an active row unless it overran (`TaskSound`); rows the loop is about
to fail have no worker; between the admission of a reprocess and its `Create` no worker lives
(`LoopSound`). Then a worker's map is the one in force, and what it writes as current is made from it; between
the marking of the rows and the rewrite of the map nothing is current that the rewrite could betray (`DataSound`).
`revived` is needed in `BasesOfTheMap` because a rescale trusts rows that were already stale.
For the refinement the data are sets of pairs of an event and the map its data came from. A step then replaces the
pair of one event (`OneMade`), takes pairs away (`FewerPairs`) or leaves them, and the invariant says that a pair
that comes is of the map in force. A step that changes only rows, frames or threads is `QuietStep`; the one that
rewrites the map is the reprocess's `WriteChannelMap`, where `LoopSound` says that nobody works and `DataSound` that
nothing current is of another map than the new one. `DataOfTheMap` then follows from the twenty lines
of `DerivedData` alone.

Database switch. Admission looks at rows of the active database, so `TasksSound` relates a task's stage, row,
worker and home to the active database. `OthersAway` says that while a switch is under way no other user is
present: heartbeats need the loop, which the switch blocks; so at its end the users it could not know of are those
`lapsed` notes. `HeardSeeActive` says that a user who is not lapsed sees the active database or is reading it;
from it follows that what is asked for is asked for there, and `LandsWhereShown`.

Task tracking. An entry is ended by a poll of its store, not of its task. `KindsKnown`, `InboxSound` and
`FollowSound` say that what an answer or a result names was started, and `PollSound` that a terminal status a poll saw
is the row's, because it is the last one. `LivePoll` is the heart: in a store without `crossed` a poll that has its
last update still to make is the poll of the entry's task, and the entry awaits it. (A calculation's poll is past
its last update while it invalidates, a reprocess's is not: `LastUpdates`; this is what `rejoined` is about.) So the
poll that ends an entry is the entry's, which gives `OutcomeIsOwn` and `RunningIsPolled`. Each action is shown to keep the
invariant and, in the same lemma, to do one of four things to the modal of each store: nothing that matters (`Quiet`), show
a task (`Shows`), tell of it (`Tells`) or put it away (`PutsAway`); these are stutter, `Show`, `Report` and `Close`
of `TaskNotice`, so the refinement comes with the invariant. A follow-up does one in each store at once.

Sessions. `CacheLeads` and `QuietAgreement` compare a cache with requests that arrive in any order. `Known` says that
a value's number tells which value it is, wherever it is held, so that a PUT that is neither newer than the cache nor
older than the row it meets is the row's value itself. `Reading` says that what a GET read misses only updates that
were on their way, and those are astray; `Leads` that nothing on its way is newer than the cache; `Agreement` that
what the user sees is stored, pending or under way. `SignIn` keeps the creation of a session by a hook apart from
the one by a sign-in, so that a session is published only when none is shared or nothing is pending. `OwnUpdates` says that while no
row has expired no update outlives its session, which gives `UpdatesStayInSession`. `SessionAssumption` asks that
there is a field and that none is called `row` or `get`, which mark rows and requests without data.

Metadata dialog. What a panel holds depends on the scope it was last read for, which need not be the one on show.
`Filled` says that a panel that was read has values of a scope that is still cached. `Owned` says that these are the scope's
own unless the panel is astray, except a baseline, and a clean draft over a snapshot, while another scope is
on show: the next hydration for their own scope overwrites both. `Seen` says that the panel was read for the scope on show
as soon as that is cached. `SavesSound` ties a save under way to a row, so that its answer brings something the row has
held. `AsksBeforeLosing` and `WritesAreOwn` are conjuncts of the invariant, the other two follow from it.

Plot rendering. A step is a change followed by three rounds of effects, so the predicates are about the page as a
record, and the proof is about rounds. A round of the grid starts a cycle, goes on or ends what went on (`Begun`,
`Continued`, `Ended`); whichever it does leaves nothing to start or to finish (`Calm`), and the next one nothing to stop
(`Settled`). Each keeps `Sound` (a spinner has a cycle at work, and one of the grid's makes it stream) and, as long as no
cycle lost its grid, `Tidy`: who is at work works for what is rendered, so are the plots, and while a render goes on
each plot is loading, there or failed. The last part is what `FinishedIsFull` needs: the grid finishes when nothing loads. Of
the viewer, `Served` says that it has seen the page, so its request is not taken back by a later effect.
For the refinement a round either keeps the plots (`Kept`) or empties the grid, and the arrival of a plot hangs one
(`Hung`); what a whole step does is the union of the two (`Shows`). `EffectsSettled` is about the model as much as about the
code: `Becomes` stops after three rounds, and the theorem says that a fourth would change nothing, for any number of plots.

Only model-checked: every liveness property (`UploadsSettle`, `TasksSettle`, `ViewsCatchUp`, `ProgressEnds`, `FollowUpSeen`,
`LoadingEnds`, `SessionComes`, `RenderingEnds`), for fairness is out of the proof system's reach. Every safety property
of a passing run, invariant, action property or refinement, has its theorem. No module uses `RECURSIVE`.

## Divergences

Each of the first three is the counterexample of a run, quoted with its line in `PROJECT.json`:

1. `discard_discards`: the dialog asks to discard, lowers its flags and changes the scope, but the panel keeps
   its edits, with Save enabled and no question asked at the next closing.
2. `backup_survives_expiry`: the effect that replaces an expired session clears the stored identity, and
   with it the backup it then restores from.
3. `tab_switch_keeps_plots`: a grid mounted again while a render is under way starts it anew, though the comment
   says that no plot is fetched again, and the cycle of the grid before writes on beside it.

The next seven are definitions at the end of `FolderUpload` and `DerivedTasks`; as an invariant or property of
`FolderUpload.cfg` or `DerivedTasks.cfg` TLC refutes each. The documents are
`src/docs/brainstorm/40_cancel_upload_plan/IMPLEMENTATION_MAP.md` (IM), `src/docs/architecture/derived-data-upload-pipeline.md`
(DP) and `src/docs/brainstorm/_old/27_precompute_post_data_upload/prd.md` (PRD).

4. `CleanupRemovesOwn`: a clean-up asked for again deletes another upload's events, because the row keeps
   its ids (`storage/database.py:2040`; IM:207 "only data associated with the cancelled task's recorded committed event ids").
5. `CancelledRecordsAll`: a cancel seen right after a commit ends the task before the event is recorded
   (`ingestion.py:1074`; IM:205).
6. `CancelIsNotForgotten`: a cancel accepted while the task is queued is overwritten by the worker's first
   update (`ingestion.py:487`; IM:111).
7. `CancelSparesTerminal`: a cancel that races the terminal update turns a finished task back to `cancelling`
   (`storage/database.py:3077`; IM:183).
8. `OneDamageTask`: a follow-up and a backfill each start a damage task (`damage_calculation_task.py:104`; DP:103).
9. `CurrentIsAsScheduled`: a schedule stored while a damage task runs is answered with that task, which
   completes with current rows of the schedule before (`post_upload_precompute.py:141`; PRD:82).
10. `RescaleUsesFreshBases`: a rescale starts from base damage of an earlier channel map
    (`schedule_damage_rescale.py:80`; PRD:87).

Met while reading, in no formula:

* Derived workers never look at their row, so a cancelled derived task runs on and ends `completed`, while
  `src/docs/brainstorm/40_cancel_upload_plan/HANDOFF.md:31` says that it "cooperatively transitions through `cancelling` to
  `cancelled`".
* A schedule save clears the damage rows before the calculation it starts has succeeded, while DP:112 says
  that failures preserve them as stale.
* `DerivedDataOperationModal.tsx:56` says "close hides the modal but processing continues", and DP:58 calls it
  "close-only"; its `handleOpenChange` ignores a close while the task is in progress.
* The data version is called monotonic (`routers/sync.py:15`, `src/docs/notes/database.md:19`), but after a switch it is
  another database's, which may be lower or equal, and `use-data-version-sync.ts:90` does not invalidate. Hence `missed`.
* `src/docs/brainstorm/39_operation_lifecycle_improvement_plan/issues/OP39-05-active-user-presence-switch-block.md:60` has a
  switch blocked by active operations and users; an upload whose files are still on their way, of a page that
  is hidden, is neither. Hence `lapsed` and `late`.
* A restart returns to `settings.database_path`, whatever was connected.
* A closed store opens its file again, so a stray worker or read makes the file of a deleted database anew.
* With an empty selection the Stop button of a render under way is disabled; hence the exception of `RenderingEnds`.

## Not modelled, and why

* Pages, tables, charts, forms and component-library code: most of the client's lines. They are functions from
  data to markup or plot specifications, with no state that two actors share; there is nothing in them
  for a state machine to say, and so the models cover a small part of the repository's lines.
* Numerics (downsampling, rainflow, plot computation) are floating-point functions; parsing, file formats and the
  schema loader are sequential functions of a file.
* The upload hook's own phases (`use-upload-operation.ts`). Its polls are the fairness of `FolderUpload`, its requests
  are the routes. Read but not modelled: a cancel before the POST is answered aborts the request, though the server
  may have accepted the upload; a cancel that fails leaves `isCancelling` up until the next poll; recovery may pick
  a recent terminal task; a poll that finds no row shows a failure though the upload may have completed.
* Export files. The export is a running task to `DatabaseSwitch`. Its temporary file is written by the event loop and by
  the worker (`services/export.py:96`), two downloads race the clean-up after the first (`:448`): both are a matter of the
  file system.
* Scope delete and purge ask nobody whether a worker is writing (`routers/upload.py:885`); there is no protocol to
  verify, only its absence.
* The cache (`utils/cache.py:56`: `get_or_set` computes outside the lock), the partial RSP batch after a cancel
  (`ingestion.py:1860`), the transfer package, passwords and tokens, the rate limiter, middleware and scripts.
* An upload with a channel map under derived tasks (`ingestion.py:915`): `FolderUpload` and `DerivedTasks` are each near the
  size TLC can explore, and composing them multiplies it.

## Plan

Done, in this order: uploads with their proofs; derived tasks with their proofs; the client's task tracking with
its proofs; metadata editor with its proofs; session with its proofs; plot rendering with its proofs; database
switch with its proofs; the abstract specifications `DerivedData`, `PlotGallery` and `TaskNotice`, and that the
detailed ones implement them.

Left, most important first:

1. `FolderUpload` with `DerivedTasks`: the channel map an upload brings, on a reduced `DerivedTasks`.
2. The upload hook of the client over an abstract upload task.
3. Export: thread, stall check, cancel, download and clean-up, memory and disk.
