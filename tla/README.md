# Lunapad in TLA+

Lunapad is a SvelteKit notebook for SQL, PRQL and Python. Browsers edit a workspace that a
Postgres-backed app stores, the app runs queries, dbt projects and Python for them (itself or
through worker processes), and publishes notebooks as shared reports. The program is some 215,000
lines, most of them user interface, text compilers and tests. This directory holds the
specification of the parts of it where several actors change the same state: TLA+ modules
translated from the source, TLC configurations that check them on small instances, and proofs
that TLAPS checks for every instance. Paths below are those of the repository (`src/lib/...`,
`scripts/...`, `docs/...`); `PROJECT.json` gives the lines each definition stands for.

## Inventory

| Component | State | Operations | What is hard | What makes it correct |
|---|---|---|---|---|
| Cloud job registry (`server/cloud-jobs.ts`) | table `cloud_jobs`: status, owner, lease, result, logs | submit, claim, start, heartbeat, append logs, finish, cancel, sweep | statements of users, workers, handlers and two kinds of sweepers race on a row | a job is claimed once, a settled row keeps its outcome, every row settles |
| Execution adapters (`server/cloud-execution.ts`), entitlements | the plan limit | submit inline (run in the request handler against a timer) or into the queue | check-then-insert; a `finish` that throws inside its own `try` | callers are told the truth; the limit is overshot by a bounded number |
| Worker process (`scripts/cloud-worker.mjs`), worker endpoints, reaper | leases in memory, slots, retries | poll, run, heartbeat, finish with retries, crash | lost requests and answers, crashes, timers against late answers | only work that was done succeeds; slots come back |
| Workspace store (`server/workspace-store.ts`) | table `workspace_state`: one row per project | load, save with `expectedUpdatedAt` or `force` | the check and the write are two statements | a checked save drops nobody's edits |
| Browser workspace sync (`stores/notebook.svelte.ts` 2214-2548) | notebooks, expected version, status, timers, chain of saves | load, edit, debounced save, retry, poll, reload, keep mine | promises, timers and answers interleave; answers get lost | "synced" means saved; every edit is saved in the end or a conflict is shown |
| Project switch (`ProjectSwitcher.svelte`, activate routes, `+page.svelte`) | cookie with the active project | flush, activate, reload | edits and timers between its steps | a save goes to the project its data came from |
| Shared reports and refresh worker (`server/shared-reports.ts`, `share-refresh-worker.ts`) | report row, versions, connections, schedule | publish, roll back, revoke, new token, refresh | multi-statement operations without a transaction; an `await` between the check of `revoked` and the write | an answered publish is in the history; an old link stays dead; a refresh respects a revocation it could have seen |
| Python runner (`server/python-runner.ts`) | one worker process per notebook, its queue, job records, editor requests | run, complete, cancel, idle, install and retry, expire | killed workers still deliver results, exits and idle timers; a job is reopened while a missing module is installed | what runs is the notebook's worker; no request is forgotten; every run ends once |
| Cell execution (`stores/notebook.svelte.ts` 3465-8130) | per cell: status, result, `needsRun`, controller | run, supersede, cancel, run all, edit, undo, reload | edits, other runs and cancellations between the awaits of a run; an undo or a reload replaces the cell a run will write to | the result shown belongs to the code shown, or the cell is marked stale |
| Undo history (`stores/notebook.svelte.ts` 5912-6012; version list in `services/notebook-history.ts`) | two stacks of snapshots, timers of bursts | checkpoint, undo, redo | keystrokes of a burst share a checkpoint that an undo may interrupt; both stacks are capped | undo and redo walk a line of states, one change at a time |
| Invitations, tenancy (`server/invitations.ts`, `server/tenancy.ts`) | invitations, members, accounts | invite, accept, revoke, change a role, leave, default membership | look-up, check and write are separate statements | an invitation makes one member; an organization keeps an admin |
| dbt runner, environments, schedules | schedule and run files, child processes | load, modify, save; run when due | child processes; the files are loaded and saved within one callback (`dbt-schedules.ts` 147-165, `dbt-run.ts` 38-42, 62-68) | no schedule is lost or run for ever |
| Agent sessions, actions, state machine | sessions, bridge calls, idempotency cache | open, call, answer, expire | a retry while the first call runs; the bridge has no waiter (`registerBridgeWait` has no caller) | an action with a key is done once |
| Query registry, result cache | in-memory maps with timers | register, cancel, expire | the timer deletes by id, but ids are made anew for every query | cancelling reaches the running query |
| Comments, presence, rate limits | tables, Redis counters | single statements | little | - |
| Connections, Trino reconciliation | catalog files | write, remove, reconcile | I/O | catalogs converge |
| Project files (`stores/notebook.svelte.ts`, file routes, `server/notebook-mutation.ts`) | the notebook in the editor, its file, timers | debounced save, undo, rename (of the notebook or its folder), delete, reload, patch by the agent | requests are not ordered; a timer or a request outlives the path it is for | every edit gets a save or shows as unsaved; a file that is gone stays gone |
| Git, compilers, Markdoc, AI chat, embeddings, UI | text | text to text, child processes | little that is concurrent | reached well by unit tests |

Interaction: a browser talks to the app by HTTP; request handlers share nothing but Postgres (and
per-process maps); workers poll the app's endpoints and never touch the database; Inngest calls the
app's cron functions; a project's identity travels in a cookie that the browser sends with each
request.

## Modules

    JobLifecycle            what a job promises (abstract)
      ^ implemented by
    CloudJobs               the table, one action per SQL statement
      ^ extended by
    QueueExecution          submitters, workers, endpoints, reaper
    InlineExecution         request handlers that run their own jobs

    WorkspaceSync           browsers, the save route, the table, the switch
    SharePublish            a report's row, history and connections
    PythonRunner            a notebook's worker processes and their queue
    Membership              members and invitations of an organization
    CellRuns                runs of cells and the results they show
    NotebookFiles           a notebook in the editor and its file
    UndoHistory             undo and redo
      v implements
    Timeline                a line of states that is walked (abstract)

    MCQueueExecution, MCInlineExecution, MCWorkspaceSync, MCBrowser, MCApp   (for TLC)

    CloudJobsProofs <- QueueExecutionProofs, InlineExecutionProofs
    WorkspaceSyncProofs, SharePublishProofs
    ServerProofs            PythonRunner and Membership
    NotebookProofs          CellRuns, NotebookFiles and UndoHistory
    AppProofs               MCApp, from the proofs of its components

### CloudJobs

A row has the columns the statements look at. Time is abstract: a row keeps whether its lease has
run out and whether its timeout has passed, which are the only comparisons the statements make.
Every statement is one action whose guard is its WHERE clause; Postgres re-evaluates the clause on
the locked row. The exception is the sweep (`failTimedOutCloudJobs`): its CTE reads rows without
`FOR UPDATE`, and the UPDATE joins on `j.id = expired.id` alone, so `SweepRead` and `SweepUpdate`
are two steps with anything between them. `CheckEntitlement` and `InsertJob` are two steps because
they are two statements of one handler. Rows are claimed in order of creation; `SKIP LOCKED` lets a
claim pass over a row only while a sweep that has read it may hold its lock.

### QueueExecution

`exec[j]` holds the locals of `executeLease`: where it is, why its AbortController was aborted, what
`finish()` is sending and how many attempts have failed. A request can be lost on its way or with
its answer: `PollClaims` (the lease arrives or not; the probe a worker sends when it starts drops its
lease in the same way), `RunFails`, `FinishTakes` (the answer may be lost after the update),
`FinishRefused`. `Crash(w)` drops all leases of a worker. `engine[j]` is the work in the app, which
nothing stops: an abort of a lease has no signal that reaches it, so `executeLease` waits for the run to
complete and sends its finish. Graceful shutdown only stops polling, which `Next` allows at any time.

### InlineExecution

`InlineExecutionAdapter.submit` as a sequence of steps per submitter: check, insert, mark running,
run against the timer, settle. Its `try` contains the `finishCloudJob` that records the success, so
a success that matches no row or throws goes on to the `catch` block (`SettleMisses`,
`SettleThrows`, `SettleUnconfirmed`). Two statements are outside the `try` and reject `submit()`
when they throw: `markCloudJobRunning` (`StartThrows`) and the `finishCloudJob` of the `catch` block
(`CatchThrows`). The caller is then told an error while the row is queued or running, which only the
reaper settles. `HandlerDies` is a restart of the server, after which nobody is told anything.
`RunAborted` is the caller's signal winning the race. So `ReplyIsTrue` promises something of an "ok"
only; what an error promises is `ErrorsStand`: no later step of anybody records that job as succeeded.

### JobLifecycle

The abstract specification: submitted, started at most once, settled; a settled job keeps its
outcome, except that a sweep may still declare it timed out. Both paths implement it with the
mapping `state <- status, owner <- workerId` (`ImplementsLifecycle`).

### WorkspaceSync

A workspace is the set of the edits it contains. `written` is the history of all writes to
`workspace_state`; a position in it stands for the row's `updated_at` (0 for null), so what a version
contained can be asked later. Per client: `doc` (state.notebooks), `version`
(workspaceServerUpdatedAt), `status`, the save timer, the retry timer, `chain` (snapshots waiting in
workspaceSaveChain), `inFlight`, a poll that has read the row and not compared it, reloads that have
read it and not loaded it, and where a project switch is. `home`, `epoch` and `unread` are history
variables: the project `doc` was loaded for, how many of its reloads are over, and whether `version` is
one whose contents the client never loaded.

- `expectedUpdatedAt` and the cookie are read when a queued save is sent (`Send`), not when its
  snapshot was taken.
- The check (`ServerRefuses`, `ServerAccepts`) and the upsert (`ServerWrites`) of
  `saveWorkspaceState` are two steps; between them others may write. A missing or null
  `expectedUpdatedAt`, and `force`, skip the check.
- `SaveFails` loses the request, or loses the answer while the server goes on with the request,
  which may then land at any later time.
- `SaveConflicts` and `PollDiffers` take over the version that is in the way, as the code does.
- `Load` is one step although `loadFromStorage` awaits: until it is over the page shows a loading
  screen (`{#if !dbReady}`, `+page.svelte` 1240) and there is nothing to edit.
- A second switch may be started while the reload of the first is under way (`MaySwitch`): the button
  is enabled again when the activation was answered (`ProjectSwitcher.svelte` 145). Starting it in the
  moment between that answer and the reload's own request is left out.
- JavaScript runs to completion: an idle chain with a save in it sends it in a microtask, before any
  other handler (`Ready`).

Left out: a second tab of one browser (tabs share the cookie), ties of `updated_at` within a
millisecond, closing and reopening the page (localStorage is only the offline copy `LoadFails`
shows), demo and filesystem storage, and the rest of the editor's state.

### SharePublish

One report: its row in `shared_reports`, its rows in `shared_report_versions` and in
`shared_report_connections`. `upsertSharedReport` reads the row, upserts it, records the version,
trims the history, deletes the connections and inserts the new ones, each in a statement of its own
and none in a transaction; each is an action, and `op[c]` holds the locals of the function that caller
`c` is in. `StatementFails` is a statement that fails or a server that dies: the function stops
where it is. Tokens are numbered in the order they are generated. The foreign keys are modelled by
what they do: the history follows a new token (`ON UPDATE CASCADE`), the connections do not, so the
statement of a new link fails while the report has connections, and an insert with an old token
fails (`RecordRefused`, `StoreRefused`, `MoveRefused`). The refresh worker looks at `revoked`,
awaits the secrets and the snapshot, and calls the same upsert.

`alone` and `overtaken` are history: no other operation was under way since this one began, and the
report was revoked after the refresh looked. `acked` keeps the publishes that were answered.

### PythonRunner

Each action is one callback of the event loop: a request handler, a line of a process, its exit, a
timer. A worker is looked up and stored within one callback, so no two workers are made for a
notebook by a race; what is hard is what a killed worker delivers late: a result line, its exit,
its idle timer. `owes[w]` says that a process was given a request it has not answered. `job[j]` is
the record of a run with what its event stream was told; `InstallAndRetry` reopens a job that is
done, as `onceDone` does. `lost` names the editor requests that a cancellation drops from the queue
without an answer (`cancelPythonJob` fails the queued runs only); the browser's own time limit ends
them, and `NothingForgotten` leaves them out. `ToldIsTrue` compares what a stream was told with what
the record keeps: the one stream that hears something else is that of a run whose first attempt named
a missing module, which is told that attempt's result before the job is tried again. A stream whose
record expires while its run is under way hears nothing more (`RecordExpires`; its listener is on an
emitter that `completeJob` no longer finds).

### Membership

Changing a role and leaving are three statements (read the role, count the admins, write); accepting
an invitation is three too (look it up, mark it, insert the member). `req[r]` holds the locals of a
request, `overtaken` that a member changed after it read the role. `RequestDies` stops it anywhere.
A request that dies between mark and insert leaves an invitation that is accepted and made no member,
which is why `InvitationUsedOnce` says "at most one". The UPDATE of a change of role matches only a
member who is still there, so one that was overtaken by its member's departure brings nobody back
(`MembersWereInvited`).

With `SelfHosted` (the default mode of the program) there is a second way in: a request of a signed-in
user for whom `resolveTenantContext` finds no membership makes them a member of the default organization
(`ResolveTenant`, then `EnsureMember` for the upsert of `ensureDefaultMembership`). It brings back a
user who has just left, and overwrites the role of a member who is no admin. `MembersWereInvited`
therefore says: by an invitation of one's own, or in that mode by a request of one's own; nothing an
admin does to a user who left makes that user a member.

### CellRuns

A result is described by the versions of the code it was computed from, the cell's and that of every
cell upstream of it, since their code is inlined. `run[r]` is one call between two awaits: waiting
for cells of other notebooks, executing, creating the view, running the cascade. `runCell` has a
controller and supersedes the previous run of the cell; `runAll` passes no signal (`ctl`). `missed`
is history: the ways in which the program leaves a stale result unmarked. A run that ends after
an edit clears the mark the edit set (`QuerySucceeds`); undo and redo mark the restored cells but
nothing downstream of them (`Restore`); a reload takes a change from the file and marks nothing
(`ReloadCells`).

A call keeps the cell object it was given. `Restore` (`restoreCellSnapshots`) and `ReloadCells`
(`loadProjectNotebooks`) replace the objects of the notebook by copies that keep their status, so the
calls under way are `detached`: what they write is shown nowhere (`ShowsIn`, `Unmarks`). A cell that was
`running` then shows a run that nothing will end (`copied`, until it is run or cancelled again), which
is what `NoCellStuck` refutes. `RunningIsLive` is about every other cell with a spinner: a superseded
call ends late and writes "idle" over the newer one's "running", so a cell may look idle while it runs,
but never the other way round, and the button that cancels it reaches the call that is under way.

### NotebookFiles

A content is the set of the edits in it. Requests (`puts`, `moves`, `removals`, `listings`) are sets:
the server takes them in any order and their answers come in any order. `Merged` is what
`loadProjectNotebooks` makes of a listing and of what is pending. `carried` (edits some write request
was sent with), `landed` (those a write took to the disk), `gone` (paths the notebook has left) and
`late` (a request that was under way when it left) are history. `Moving` is the time between a rename of
the notebook and its answer, in which no save is pending and a reload may replace what the editor has;
the properties leave it out.

Two operations change what a notebook holds, or where, and schedule no save: undo
(`applyHistorySnapshot`, which saves only cells that it brings back) and the rename of the folder
(`updateDescendantIds`), which leaves the timer under the id the notebook had; when it fires it finds
no notebook. `stray` is history too: the edits these operations left behind, until a save of the
notebook is sent or the next edit starts its timer. The properties make no promise about them. Of every
other edit they say that it has a save due (`UnsentEditsAreDue`), that a reload does not drop it
(`UnsentEditsStay`), and that after its write failed the notebook shows as unsaved (`UnsavedIsShown`);
what they do not promise once the write is under way, `ReloadsKeepWrites` refutes. The guard of
`Repath` that no other notebook has the new path restricts the input; `renameNotebook` does not check it.

### UndoHistory and Timeline

A snapshot keeps the structural changes in effect and the text typed last, which is what tells the
states on the stacks apart. The first keystroke of a burst pushes a checkpoint, the others do not
until the field is idle. Several operations replace cells without a checkpoint
(`insertMarkdownCellAfter`, `insertMarkdownCellBefore`, `appendCellAtEnd`, a reload, the undo of the
assistant's changes): `ReplaceUnrecorded`; `moved` marks the state they lead to, and
`OneChangePerUndo` makes no promise across it. `Timeline` is what a user expects: a line of states
and a position in it. The mapping reads the undo stack, the present cells and the redo stack backwards as
one line. `Extend` forgets the first state of a full line; there is no step of `Timeline` that forgets one
when undoing or redoing, so the refinement shows that the caps of the two stacks never cost a state then.

### MCApp and MCBrowser

The small components share no state, so `part` picks the one that moves in a behaviour: the run
checks each of them completely, and the numbers of their states add up instead of multiplying.
`MCBrowser` puts the runs of cells beside the sync of the workspace in the same way; two
compositions keep each run to a few minutes. `AppTypeOK` and `BrowserTypeOK` are the type invariant of the part that moves. Only
`MCBrowser` uses a symmetry, of the clients, and it checks no liveness.

## Runs

| Run | Instance | Shows |
|---|---|---|
| `queue_jobs` | 2 jobs, 1 worker with 1 slot, 1 attempt of finish, sweeps of 1 row | `ClaimedOnce`, `SucceededMeansRan`, `WorkStartsOnce`, `SettledRowsFrozen`, and the refinement of `JobLifecycle` |
| `queue_workers` | 1 job, 2 workers, the 4 attempts of the code | `SettledAbortIsTrue`, and the liveness properties `JobsSettle` and `SlotsReturn` |
| `inline` | 2 jobs, 2 handlers, limit 1 | `ReplyIsTrue`, `ErrorsStand`, `SucceededMeansRan`, `JobsSettle` |
| `browser`, part sync | 2 browsers, 1 project, 2 edits, 1 failing request, 1 click | `ChecksKeepEdits`, `SyncedMeansSaved` |
| `browser`, part cells | 2 cells, the second reads the first, 2 runs, 1 edit (in the editor or by a reload) | `FreshOrMarked`, `RunningIsLive`, `ResultsInOrder` |
| `workspace_switch` | 1 browser, 2 projects, same bounds | `EditsReachServer`, across switches |
| `app`, part jobs | 4 jobs, 2 submitters, limit 2, no workers | `QuotaOvershootBounded`: racing submissions pass the limit, to limit + submitters - 1 open jobs and no more |
| `app`, part shares | 2 publishers and the refresh worker, 2 snapshots, 3 operations, 1 failing statement, 2 versions kept | `LoneOpsComplete`, `AckedPublishIsRecorded`, `OldLinksStayDead`, `RefreshSeesRevoke` |
| `app`, part python | 2 runs, 1 editor request, 2 processes | `RunningIsCurrent`, `NothingForgotten`, `ToldIsTrue`, `DoneIsFinal` |
| `app`, part members | 3 users (2 admins), 1 invitation, 2 requests at a time, 2 in all, 1 deleted account, self-hosted | `InvitationUsedOnce`, `LastAdminStays`, `MembersWereInvited` |
| `app`, part files | 2 paths, 2 edits or undos, 1 rename or patch, 1 reload at a time | `UnsentEditsAreDue`, `UnsavedIsShown`, `UnsentEditsStay`, `GoneStaysGone` |
| `app`, part undo | stacks of 2, 3 structural changes, 2 keystrokes in 2 fields, 1 unrecorded change | `OneChangePerUndo`, and the refinement of `Timeline` |
| `sweep` | violation | a sweep times out a row that was settled after the sweep read it |
| `workspace_conflict` | violation | an autosave overwrites the other side of a conflict before the user chose |
| `workspace_home` | violation | an edit made during a switch is saved into the project switched to |
| `share_revoke` | violation | a report revoked while its refresh fetches the secrets is put up again |
| `cell_stuck` | violation | a cell is left "running" with no call of it under way |
| `file_reload` | violation | a reload takes an edit out of the editor whose write is under way |

Every passing property has a mutant in `PROJECT.json`: a definition replaced by a variant a plausible
mistake would give (`Conflicting_OlderOnly`, `SaveFails_NoRetry`, `Expired_LeaseOnly`, ...; the
variants stand next to the definitions they change). TLC finds each property violated then.

Bounds. For jobs, two of them are enough for every interaction of two rows (order of claims, slots,
`LIMIT` of a sweep); what concerns one row is run with two workers. The proofs below cover every
other size. `SweepLimit` is 500 for the cron function and 100 for the
claim endpoint; with 1 the cases "more stuck rows than the limit" and
"exactly the limit" both occur. For the workspace, two edits let each browser make one, or one browser
make one before and one during a request; one failing request gives a lost request, a lost answer or
a late request; one click gives one answer to a conflict or one switch. A second client matters to
`ChecksKeepEdits`; `EditsReachServer` needs the second project more. `CHECK_DEADLOCK FALSE` is set throughout: the system
may stop when all jobs are settled or all edits are saved, and the bounds end every behaviour.

For the parts of `app`, and the cells: three operations on a report are two that race and one that comes after (or
before) them, and with two versions kept the third publish trims the first; one failing statement leaves
any of them half done. Two processes are one that is killed and the one that replaces it; two runs and
an editor request make a queue behind a pending request. Two requests of members are what it takes to
overtake one another, two admins are the fewest for which "the last one" is not the only one, and the
third user is who an invitation makes a member. Two cells and two runs give a run superseded, overtaken
by an edit, by an undo, or by a run of the cell it reads. Two paths are where a notebook was and where
it went; two edits come before and after the rename. Stacks of 2 (50 in the code) overflow with three
changes. Whatever needs more of any of these is covered by the proofs, which have no bounds on them.

Fairness. Queue: the clock runs (`Tick`), Inngest runs the reaper every minute (`ReapRead`,
`ReapUpdate`), a live worker reacts to its answers and no request stays open for ever (`RunFails` and
`FinishRefused` stand for a fetch that gives up). Nothing is assumed of heartbeats, of polling, of
users, or of the work in the app. Inline: only the clock and the reaper. A sweep of the cron function
that fails is one that is made again a minute later, so its update is taken to succeed in the end.
Workspace: `setTimeout` fires (`SaveTimerFires`, `RetryTimerFires`), the promise chain moves on
(`Send`), and the server handles and answers a request the client still waits for, unless it fails,
which happens `MaxFaults` times: "every edit is saved in the end" is about failures that stop.
Polls, reloads, switches and users are not assumed to do anything.

### What the violations say

1. `sweep`: the comment on the sweep says it touches running and unclaimed queued jobs; a row that a
   user cancels or a worker finishes between the CTE and the UPDATE is overwritten with `timed_out`.
2. `workspace_conflict`: the client takes over the version that is in the way when it detects a
   conflict. Autosave stays on, so the next edit is saved with that version and passes the check.
3. `workspace_home`: `flushPendingSave` is there so that no save of the old project lands after the
   switch. An edit made while the activate request or the reload is under way is saved later, under the
   new cookie. Saves waiting in the chain, the retry timer and a failed reload lead there too.
4. `share_revoke`: the guide says "**Revoke** takes the page down entirely." The refresh worker looks at
   `revoked`, then awaits the report's secrets and a snapshot, and its upsert sets `revoked = FALSE`.
   `RefreshSeesRevoke` says what still holds: a revocation the worker could have seen is respected.
5. `cell_stuck`: the merge of a reload keeps the status of the cells "so that cells currently running
   (or with results) are not reset by a background reload". It puts new objects in their place, and the
   run under way ends in the old one. So does undo. When the run is over the controller is gone as
   well, and `cancelCell` returns at once.
6. `file_reload`: `isNotebookPendingDiskSync` is described as true "while a notebook's first/ongoing
   disk write is debounced or in flight", and the merge relies on a pending save meaning that the editor
   is newer than the disk. The timer is deleted before the request is sent, so a listing
   read before the write lands replaces the edit.

`ChecksKeepEdits` and `EditsReachServer` say what still holds next to 2: a checked save drops nothing
unless its client expects a version it never loaded (`unread`), or somebody writes between check and
upsert; and an edit is written unless a reload drops it or a conflict is shown.

## Proofs

TLAPS proves every safety property of the passing runs, every refinement, and the liveness of jobs and
of workers' slots (under the hypotheses below), for any sets of jobs, workers, submitters, clients,
projects, callers, snapshots, runs, users, cells, paths and fields, either mode of deployment, and any
values of the bounds. The assumptions are the named ones of the modules, each of which TLC evaluates in
a run: `JobsAssumption`, `WorkersAssumption`, `SubmittersAssumption`, `LimitsAssumption`,
`WorkerAssumption`, `NoJobAssumption`, `BoundsAssumption`; `RefresherAssumption`, `SnapshotAssumption`,
`RetentionAssumption`; `ProcessesAssumption`, `ItemAssumption`; `FoundersAssumption`,
`NobodyAssumption`, `ModeAssumption`; `CellsAssumption`, `UpstreamAssumption`, `RunsAssumption`;
`HomeAssumption`, `FileBoundsAssumption`, `AbsentAssumption`; `DepthAssumption`, `ChangesAssumption`. They say that the
special values are not members of the sets they stand beside, that bounds are numbers, and that the
references between cells are closed and have no cycle.

- `CloudJobsProofs`: every step of either path is at most one statement on the table (`TableStep`). What
  a statement preserves is proved once there: types, `ClaimedOnce`, `CancelIsFinal`, frozen rows, the
  plan limit, and the steps of the abstract life cycle. `QuotaInv` counts the submitters past their
  check with the open rows, which makes a check followed by a later insert inductive.
- `QueueExecutionProofs`: `QueueInv` adds `LeasesAreClaims` (a lease was handed out exactly for the
  rows that were claimed) and `WorkFollowsLease` (work in the app was started for the owner of a claimed
  row, and a `succeeded` intent follows work that ended well). Theorems: `TypeCorrect`,
  `JobsAreClaimedOnce`, `CancellationIsFinal`, `OnlyDoneWorkSucceeds`, `WorkIsStartedOnce`,
  `SettledAbortsAreTrue`, `OvershootIsBounded`, `SettledRowsAreFrozen`, `QueueImplementsLifecycle`,
  `QueueJobsSettle`, `WorkersGetSlotsBack`.
- `InlineExecutionProofs`: `InlineInv` ties each handler to its own row, its work and its answer; a job
  whose caller was told an error has no handler left that could record a success (`ErrorsStand`).
  Theorems: `TypeCorrect`, `RepliesAreTrue`, `ToldErrorsStand`, `OnlyDoneWorkSucceeds`, `CancellationIsFinal`,
  `OvershootIsBounded`, `SettledRowsAreFrozen`, `InlineImplementsLifecycle`, `InlineJobsSettle`. Some
  of these properties are checked by TLC on the queue only; both paths are proved. `CancelIsFinal` is an
  invariant of the proofs alone: what a run would show of it is in `SettledRowsFrozen` and
  `ImplementsLifecycle`.
- `WorkspaceSyncProofs`: `SyncInv`. For `ChecksKeepEdits`: what a client holds and has queued since its
  last reload contains the contents of the version it expects (`VersionInv`), because snapshots of one
  epoch grow (`ChainInv`), and a request that expects a known version carries its contents
  (`RequestInv`); `AwaitedInv` carries that over to the moment the answer makes the request's own data
  the expected version. For `SyncedMeansSaved`: the latest state of the notebooks is written, waits for
  the debounce, is the last save of the chain, is the awaited request, or the user sees that it is not
  saved (`Tracked`). Neither property is inductive without these: the state that violates it is several
  steps after the one that broke the tie. Theorems: `TypeCorrect`, `CheckedSavesKeepEdits`,
  `SyncedIsSaved`.
- `SharePublishProofs`: `ShareInv`. `TokensInv` says that tokens only grow and what a function still
  holds of them. `RecordedOK`: what a function has inserted into the history is there with its content,
  or as many versions as are kept came after it; a second insert of the same version is refused by the
  history's key, which is why that publish is never answered. `AloneOK` says, step by step, how much of
  the report an operation that nothing overlaps has brought into line, and `RefreshOK` ties `overtaken`
  to the row. Theorems: `ShareTypes`, `UnoverlappedOpsComplete`, `AnsweredPublishesAreRecorded`,
  `ReplacedLinksStayDead`, `RefreshesSeeRevocations`.
- `ServerProofs`, Python runner: `PyInv` ties a process to its queue, its pending request and its idle timer
  (`ProcessInv`: a process that is not the notebook's worker holds nothing, so what it delivers late settles
  nothing; an idle timer is set only where nothing is pending)
  and an open run to the notebook's worker (`OpenIsHeld`). `AllTellTruth` is `ToldIsTrue` with what makes it
  inductive: nobody listens for a run that has not begun. Theorems: `PyTypes`, `OneWorkerRuns`,
  `NothingIsForgotten`, `StreamsAreToldTheOutcome`, `DoneRunsAreFinal`.
- `ServerProofs`, members: an invitation that is being joined is marked and by one request only (`Spent`),
  for the user it was sent to and with its role (`Addressed`: what a request looked up stays true of the
  row, because nobody rewrites a row that was sent),
  and a request that nobody overtook and is about to write still finds another admin, or a member who
  is none (`SafeWrites`). Cardinalities are dealt with by the library's theorems on finite sets.
  Theorems: `MemberTypes`, `InvitationsAreUsedOnce`, `TheLastAdminStays`, `MembersAreInvited`.
- `NotebookProofs`: for cells `FreshInv` (a run under way that no edit overtook was compiled from the
  code as it is, and an unmarked result is fresh) and `OrderInv` (a controlled run that was not aborted
  is the one whose controller the cell holds, which is never older than the cell's result), and
  `RunningInv` (whose calls are those that are not detached), which adds that a call begins in a slot
  of its own (`SlotsUsed`) and that a controller is
  that of a call of the same cell which has not returned (`ControlsOwn`): without these an abort or an
  end meant for one call could hit the one that keeps another cell running; for files
  `FileInv` (what is on disk or in a listing has landed, and what is on its way there was sent, so that
  a reload brings in nothing unsent; what is under way for a path that was left is marked late) and
  `UnsavedInv` (an edit that has not landed is in a write to the notebook's own path, or the notebook is
  dirty, is being renamed, or the edit is stray); for undo `UndoInv` (the two stacks
  together never exceed the limit, so capping one while the other is popped drops nothing; this is what
  the refinement rests on). Theorems: `CellTypes`, `ResultsAreFreshOrMarked`, `ResultsComeInOrder`,
  `RunningCellsAreLive`, `FileTypes`, `UnsentEditsGetTheirSave`, `UnsentEditsAreKept`,
  `UnsavedEditsAreShown`, `GoneFilesStayGone`, `UndoTypes`, `ChangesAreUndoneOneByOne`,
  `UndoImplementsTimeline`.
- `AppProofs`: each step of `MCApp` is a step of one component and a stutter of the others
  (`AppStep`), so `AppSpec` implies the specification of every component (`AppImplementsParts`) and
  what is proved of them holds of the composition, which is what the run `app` checks:
  `AppTypesCorrect`, `AppKeepsInvariants`, `AppKeepsHistory`. (`MCBrowser` is put together in the same way;
  its two components are proved each for itself.)

### Liveness

Temporal steps go through the PTL backend, which knows nothing of ENABLED. The theorems therefore take
enabledness as a hypothesis, an invariant with ENABLED in it: `FairSpec /\ []ReaperCanAct =>
JobsSettle`, `FairSpec /\ []WorkersCanAct => SlotsReturn`. What is inside ENABLED the provers treat as
unknown. The hypotheses say that an action is enabled in the states its guard describes, which can be
read off the definitions; `FairSpec` alone implies the properties in the runs, where TLC evaluates
ENABLED itself.

- A row leaves its status (`RowLeavesStatus`, used once for `queued` and once for `running`): its
  timeout passes, since the clock runs; it stays stuck while it has that status (`StuckStep`); when the
  reaper is between two sweeps the next one reads it (`StuckIsRead`), when it is in the middle of one
  its update comes first; and the update settles every row that was read (`SweepSettles`). A queued row
  that is claimed in the meantime goes round once more as a running one.
- `QueueJobsSettle` and `InlineJobsSettle` assume `SweepsFit`: a sweep has room for all rows that can be
  open, `MaxConcurrent + Cardinality(Submitters) - 1` of them as `OvershootIsBounded` shows. The
  model picks any `SweepLimit` of the stuck rows (`ORDER BY updated_at` is left out), so among
  rows without end one could be passed over for ever. When sweeps do not fit the argument is one on
  the number of stuck rows before this one, an induction; TLC covers it in `inline`, where two open
  rows compete for sweeps of one.
- A slot comes back because each answer brings a lease nearer to its end. `AnswersLeft` counts the
  answers that may still come: a refused or failed attempt takes one off (`AttemptFailedIsCloser`), the
  catch block starts a second finish with a smaller count (`CaughtIsCloser`), and no step adds one
  (`NoStepIsFarther`). The steps from one count to the next are chained one by one, so
  `WorkersGetSlotsBack` assumes `FinishAttempts <= 4`, the number in `finish()`.

Left to TLC: `EditsReachServer`, whose argument is an induction over the failures that are left
and the saves before this one in the chain, neither of which has a bound in the code; and the
violations.

## Not modelled

`PROJECT.json` lists every component with its status and every hazard with the properties that cover
it or the reason why none does.

- What a run of a query, dbt or Python does is its engine's component. Deleting an organization, audit
  events, usage counters, the plan's other counts and the creation of tables are left out of the models
  of jobs, shares and members.
- dbt runner, environments, schedules: child processes and checks of the file system. Their files are
  loaded, changed and saved within one callback, so that nothing of the same process comes in between.
- Agent sessions and actions: session rows are written by single statements, and nothing waits on the
  bridge. The check-then-act of the idempotency cache is listed as a hazard. The agent's state machine is a
  table of transitions that its unit tests enumerate.
- Of cells and files: a `runAll` that goes on with the cells a reload has replaced, the per-cell timers
  of notebooks kept as flat files, and connections or sources that change under a notebook.
- Query registry, result cache, rate limits, comments, presence: each operation is one call, one
  statement or one command on state of its own.
- Connections and Trino reconciliation: I/O; the state is Trino's.
- Compilers and formats, Markdoc, git, AI chat, embeddings and the user interface: text to text, child
  processes, streams of an external model, and state that one handler changes at a time. They are most
  of the repository's lines, and what could be said of them in TLA+ would restate the code.
