# TLA+ model of the A-share dashboard

Specifications, model-checking instances and machine-checked proofs for the
parts of this repository that keep state under concurrency: the paper-trading
simulation, the scheduled refresh and the publish that pauses it, the manual
research requests, the execution ledger of the Phase 5 cycles and the background
acquisition of external context. TLC checks the small instances named `MC*`;
TLAPS checks the modules named `*_proofs`.

## The system

A FastAPI process (`api.py`) serves a React frontend from one SQLite database
in WAL mode (`db.py`). Beside the request handlers it runs a background
operations tick every minute. launchd starts `scripts/run-scheduled-refresh.sh`
every five minutes; that script runs the long daily jobs as processes of their
own on the same database. `scripts/publish-local-runtime.sh` replaces the
installed code and stops and restarts both agents. The Phase 5 commands and the
acquisition of external context are processes that share nothing but JSON
files, the artifacts next to the database.

| Component | State it keeps | Operations | Hard because |
|---|---|---|---|
| Simulation order ledger: `simulation.py` (`_validate_order_request`, `_create_fill_for_order`), `operations.py` (`_portfolio_payload`) | orders and fills of two portfolios, starting cash, watch pool, session clock | manual buy and sell, automatic model order, step, configuration | the state is summed again from fills at every request, with comparisons of times and days, and through a filter on the watch pool; a late tick may set the clock back |
| Simulation session lifecycle: `simulation.py` | rows of `simulation_sessions`, two `paper_portfolios` each, events | view, configure, start, pause, resume, order, step, restart, end | handlers, tick and projection refresh share rows; two of them read before they hold the write lock |
| Background operations tick: `runtime_ops.py`, `api.py`, `intraday_market.py` | market bars | synchronise bars, advance all running sessions in one transaction | an identity map older than the lock; one failure for all owners |
| Scheduled refresh runner: `run-scheduled-refresh.sh`, `runtime_locks.py` | `run.lock/pid`, `.ok`, `.attempted`, `.deferred` marks | poll, slots, lock takeover, jobs with a timeout | a lock made of several commands, kills, orphaned jobs, retries |
| Scheduled refresh status: `scheduled_refresh_status.py` | none | reads the marks | - |
| Release publish: `publish-local-runtime.sh` | its publish lock, whether launchd has the agent loaded | takes the lock, stops the refresh, waits for quiescence, deploys, boots the agent out and in again | a lock that is judged by its age only; `launchctl stop` does not stop the polls; a kill leaves the agent unloaded |
| Manual research: `manual_research_workflow.py` | request rows, immutable artifact files | create, execute, complete, fail, retry | a check before an LLM call of minutes, used after it |
| Operations response cache: `api.py` | cache entries, a set of keys being refreshed | get, refresh in a thread, prewarm | expiry against a running refresh |
| Phase5 autonomous flow: `autonomous_flow*.py`, `scheduler_execution_artifact_store.py`, `scheduler_recovery_followup_executor.py` | cycle ledgers, execution ledgers, reservations | record an artifact, a gate, a ticket or a projection, decide and close out, follow up, record an execution under an idempotency key | read-modify-write of files without a lock, a decision on one copy applied to another, a crash between creation and content |
| Watchlist: `watchlist.py` | entries and follows | add, refresh, remove | shared entries of several accounts |
| External context background: `external_context_background.py`, `external_context_acquisition.py`, `external_context_replay.py`, `external_context_ablation_readiness.py` | immutable checkpoint files, a state file, a byte budget, a file lock | fetch, checkpoint, resume, count, audit, restart by launchd | torn files that count as done, a budget kept in memory, restarts that depend on the exit code |
| Frontend projections: `frontend_projections.py` | projection rows | refresh | creates sessions on a read path |
| Shortpick lab, tranche replay, strategy governance, research scripts, React frontend | data products | sequential pipelines | numbers, not interleavings |

What makes each correct:

* ledger: nothing is sold that is not held, nothing on the day it was bought,
  and the cash covers the orders; each of the three has exceptions in the code,
  which the properties name;
* lifecycle: one living session per owner, two comparable tracks, numbered
  steps, a timeline that never goes back, an end that is final, a pause that is
  a pause, and a session that keeps up with the market;
* scheduled refresh: one invocation at a time, each evening slot once a day and
  eventually, no retry beside an abandoned job, and a tick that stands back;
* manual research: one artifact per request, consistent with its status;
* publish: one publish at a time, a deployment only while the refresh is at rest,
  and a refresh that still completes its slots;
* phase5 flow: one execution per idempotency key, no answered execution without
  its ledger; of a cycle, no record lost unless calls overlap on its file or one
  is killed in the middle of writing it, and no completion without a gate
  read-out that does not block and a fresh projection;
* external context: checkpoints that never change, results that have what they
  were made from, a terminal state that rests on readable results, the storage
  cap, and that it comes to an end once kills and failures do;
* response cache: one refresher per key, never an older answer over a newer.

The full list of what is hard to test, with the line where it bites and the
property that covers it, is the `hazards` list of `PROJECT.json`.

## The modules

| Module | Models | Proofs |
|---|---|---|
| `SimulationLedger` | the orders, positions and cash of one session | `SimulationLedger_proofs` |
| `SessionLifecycle` | abstract: the life of an owner's sessions, as statuses only | - |
| `SimulationWorkspace` | the sessions of one owner, the tick, the projection refresh; implements `SessionLifecycle` | `SimulationWorkspace_proofs` |
| `ScheduledRefresh` | the slots, marks and lock of the refresh script on one trading date | `ScheduledRefresh_proofs` |
| `PublishRelease` | extends `ScheduledRefresh` by the publish script and launchd's agent | `PublishRelease_proofs` |
| `ManualResearch` | the rows and artifact files of manual research requests under concurrent calls | `ManualResearch_proofs` |
| `ExecutionRegistry` | abstract: what an idempotency key promises | - |
| `CycleLedger` | the ledger file of one Phase 5 cycle and every call that reads or writes it | `CycleLedger_proofs` |
| `SchedulerExecution` | extends `CycleLedger` by the reservations and ledgers of executions; implements `ExecutionRegistry` | `SchedulerExecution_proofs` |
| `ContextAcquisition` | the checkpoints, the loop, the audits and the restarts of the context acquisition | `ContextAcquisition_proofs` |

### SimulationLedger

The code stores every fill and sums them again at each request, and so does the
module: `fills` is the list of fills in the order of their placement, each with
its track, stock, side, quantity, cash flow and time. `Held` and `AvailableCash`
are the replay of `_portfolio_payload` up to a last timeline point (the newest
bar of a watched stock, or the clock if that is later: any point from the clock
on); the latter sums the flows of the pool's stocks only. `Sellable` is
`_available_sell_quantity` with its comparisons `filled_at < requested_at` and
`filled_at.date() < request_day`. All three see the fills through the clock, and
the clock does not only move forward:

* a user's step (`UserSteps`) goes on from the committed row;
* the tick loads the row (`TickLoads`), waits for the write lock and steps from
  the values it has loaded (`TickSteps`): its market time is later than the loaded
  clock, and may be earlier than a clock that a user's step has committed in
  between (`simulation.py:1605`, called from 1694). The orders and the cash are
  queried under the lock, a custom watch pool is the loaded row's. Fills later than the
  loaded row are then missing from the replay, and are sold or spent again.

`ManualBuy` and `ManualSell` are `place_manual_order`. `ModelDecides` is the
model's part of a step: the holding and the cash are those of the summary taken
before the clock moves, the T+1 check looks at the clock after it; any stock of
the pool, any quantity and either side may be the advice. `UpdateConfig` edits
the pool at any time and the cash until the first step. Money is in fen, so the
minimum commission and its rounding are exact.

Two histories let the properties say what holds without these cases:
`overlooked`, the fills that a late tick has stepped past, and `edited`, that
pool or cash were changed after the first order or under a tick.

### SimulationWorkspace

A request begins with `record_account_presence`, whose UPDATE takes SQLite's
write lock, and reads the session after it: a request is one atomic action, and
a refused one is the absence of the action. Two callers differ, and each is two
actions:

* the tick loads the session in `advance_running_simulation_session`
  (`TickReads`) and takes the lock only in `step_simulation_session`
  (`TickSteps`), whose query returns the object that is already in the session's
  identity map with the values it had. `SeenByTick` is that object; `Stepped`
  writes the columns the code assigns and leaves the others to the row. When the
  market data were stale, `sync_intraday_market` has written before and the whole
  tick holds the lock (`TickSyncs`);
* the projection refresh calls `ensure_simulation_session` without recording
  presence (`ProjectionReads`, `ProjectionCommits`).

`TickFails` is the rollback of the tick's transaction: a refused model order, a
session that no longer runs, or the refused order of another owner, whose
sessions the same transaction advances (`othersTrade`, which other accounts
switch on and off at any time). Orders are
counted; which of them pass is the subject of `SimulationLedger`.
`staleCommit` and `blindDraft` are histories: they remember that one of the two
races has happened, so that the properties can say what holds without it.

`SessionLifecycle` is what the owner is promised of the statuses alone: only the
current session moves, from draft to running, back and forth between running and
paused, and from anywhere to ended; sessions are added behind the others, as
drafts or by a restart. `Lifecycle` is its instance with the statuses of the rows.
A first request that finds no session is one step of it, the draft and the move
together, because the handler commits once. The step of a late tick maps to a
stutter: SQLAlchemy writes the columns the step assigns, and the status is none
of them. That is why the tick can move the clock of a paused or ended session
and cannot revive it.

### ScheduledRefresh

Every command of the script that touches the state directory is a step of its
own: `mkdir`, the write of the pid file, its read, `rm -rf`, the second `mkdir`,
the marks. `lock` is "absent", "unowned" (a directory without a pid file), the
pid of a live invocation, or "dead". `Crash` is SIGKILL, which leaves the lock,
or a signal that bash handles, which runs the EXIT trap once it is set; the job
in the background may outlive either (`orphans`). `JobFails` ends the script, as
`set -e` does at `run_with_timeout`: `mark_slot_failed` is never reached, so
there is no `.failed` file in the model. `TickStarts` is the API's tick after
`scheduled_refresh_lock_active`.

### PublishRelease

The publish script works beside the refresh script, so the module extends
`ScheduledRefresh` and adds its own steps: the two `mkdir` of
`acquire_publish_lock` with the look at the lock's age between them, `launchctl
stop` (`Pauses`), the two conditions of the wait for quiescence, each with a step
of its own (`LooksAtLock`, `LooksAtProcesses`, `Wakes`), the deployment, and the
EXIT trap: `bootout` and `bootstrap` of the agent (`BootsOut`, `Bootstraps`),
then the unconditional release of the lock (`Unlocks`). `Exits` is any end of the
script that runs the trap, `PublishDies` SIGKILL. `LaunchdStops` reuses `Killed`
of `ScheduledRefresh`: what launchd ends is the script, whose job may live on,
and `Quiet` sees such jobs because `pgrep` does. `Polls` adds to `Poll` that
launchd's starts need the agent. `publishLock` is "old" once 300 s have gone by;
`LockAges` may make it so while its owner is still at work. `disturbed` and
`overdue` are histories of the two ways in which exclusion is lost.

### ManualResearch

A constant `Call` stands for the API calls; each is issued at most once, and
names the request it creates, the answer it gives and the timestamps it sets. A
handler reads its request without a lock (`Opens`; with an artifact it returns
at once), works, and commits at its end (`Commits`). `Written` is what
SQLAlchemy's flush does: the UPDATE holds the columns that differ from those
loaded, so a handler with an outdated row writes over some columns and leaves
others. `Start` is the flush that takes SQLite's write lock before the model is
asked; the lock is kept until `Complete` or `AskFails` commits. A completion by
the root user writes its file before it has the lock. `OpensFile` and
`WritesFile` are the truncation and the write of `write_text`. `FollowUp` is
`/analysis/follow-up`, which creates and executes a request and never commits.
`Leaves` closes a session without a commit at any point: the end of a follow-up,
an error, a wait for the lock of more than 30 s, or the end of the process
(which is a `Leaves` of every call under way). `overlapped` is a history: the
requests that two calls have worked on at one time.

### ExecutionRegistry, CycleLedger, SchedulerExecution

`ExecutionRegistry` is the promise of an idempotency key alone: bound once, by a
call that asks for it; a call is answered for the execution its key is bound to,
refused for another, or not answered.

`CycleLedger` is the file of one cycle. All recorders of `autonomous_flow.py`
have the same shape, so they are one sequence of steps with a role: read
(`Reads`), write the call's own artifact (`Files`), truncate the ledger
(`OpensCycle`), write it (`WritesCycle`). `Updated` says what each role makes of
the copy it has read. A closeout reads twice, `Decides` for the planner and
`Reads` for `finish_phase5_cycle`. `ReadsTorn`, `RereadsTorn` and `MissesCycle`
are the errors of a reader, `Dies` the end of a process between any two steps;
a process that is killed between the truncation and the write is "cut off", any
other "gone".

A gate read-out has two fields that the planner looks at, `gate_status` and
`next_action`, each of which may be "blocked" without the other: "blocked" is a
blocked status, "halt" a next action to block under another status, "onward" the
rest. `Plan` follows `plan_phase5_next_step`: a blocked status blocks the cycle,
any next action but "blocked" degrades it, and what falls through to "completed" is
"halt". The `artifacts` on disk matter because a closeout takes the latest ones
that the ledger names or those its caller does (`--gate-id`,
`--recovery-ticket-id`, `--projection-id`), which may be any on disk, or none
(`Selectable`, `Given`); one that is torn or of another cycle ends the call
(`Misnames`). `Kinds` chooses the kinds of calls of an instance.

`SchedulerExecution` adds `record_phase5_scheduler_execution_ledger`: the scan
of all ledgers for the key (`Finds`, `FindsNone`, `FindsTorn`), the reservation
by `O_EXCL` and its content in two steps (`Reserves`, `Fills`), what a later
call makes of it (`FindsReserved`, `FindsEmpty`), the two comparisons
(`Verdict`), and the ledger (`LooksUp`, `OpensLedger`, `EntersLedger`); the call
then goes on to the cycle's ledger with the steps of `CycleLedger`. `Registry`
is the instance of `ExecutionRegistry` under the refinement mapping `Bound`,
`Requested`, `Answered`: a key is bound to what its reservation says or, without
one, to the execution of a ledger that is older than reservations.

### ContextAcquisition

`files` holds the four immutable files of each task, "none", "torn" (created, not
written) or the content they are derived from. A process passes the script's
look at the state file (`Starts`) and `flock` (`Locks`, `TurnsAway`); everything
else is the holder's. `Resumes`, `ResumeFails`, `Fetches`, `FetchFails` are the
four ways a task can begin, `Rejects` the validation before the first object is
written. `Keeps`, `Collides`, `Refused`, `Creates`, `Writes`, `WriteFails` are
the branches of the immutable writers, which the input, the objects, the
manifest and the result go through in turn (`After`). `Counts`, `GoesOn`,
`GivesUp` are the loop of `run_external_context_background_pipeline` with its
threshold of cycles without progress; `Audits`, `ChecksReadiness`, `Completes`
its end. `CountsAgree` is the comparison of counts in the readiness check: the
replay selects the records available by the decision cutoff, 23:59:59 of a day,
and the curation counts them all, so a record of the cutoff day that is stamped
23:59:59.999999 (a content of `Late`) makes the check fail for ever. `Ends` frees
the lock and the memory, and makes launchd start its process again if the exit
code was not 0. The state file and the reports have their bytes in `Bytes` and
are written at once: they go through a temporary file and a rename.

A kill, a failed fetch and a failed write may happen at any time and as often as
they like (`Trouble`); `troubled` says whether the last step was one of them.

## What TLC checks

| Run | Bounds | Shows |
|---|---|---|
| `ledger` | 2 stocks, 4 orders of a lot, 2 days of 2 moments, 2 amounts of cash | `NeverOversold`, `ModelTrackSettled`, `SettledIfSalesAdvance`, `CashCoversOrders` |
| `ledger_t_plus_one` | the same | violation: `TPlusOne` |
| `ledger_overdraft` | the same, 1 amount of cash | violation: `NoOverdraft` |
| `workspace` | 2 sessions, 2 moments, 1 user step, 1 order per track, 2 amounts of cash | `OneLiveSession`, `TracksAligned`, `TradedOnlyAfterStart`, `StepsNumbered`, `TimelineKept`; refinement: `LifecycleRefined`; liveness: `CatchesUp` |
| `workspace_pause` | 1 session, 3 moments | violation: `PausedIsFrozen` |
| `refresh` | 2 invocations, 2 troubles | `NoLeakedLock`, `OneRunnerUnlessRaced`, `TickAvoidsRefresh` |
| `refresh_launchd` | launchd's invocation, 1 publish, 1 trouble | `DeploysAloneUntilPolled`, `OneRefreshPerDay`, `AttemptsNotStacked`; liveness: `SlotsOutlastPublishes` |
| `publish_paused` | launchd's invocation, 1 publish, no trouble | violation: `RefreshPaused` |
| `research` | 5 calls | `ArtifactHasFile`, `TerminalFieldsAgree`, `FileHoldsAnswer`, `NothingTakenBack` |
| `research_immutable` | 3 calls | violation: `CompletedIsImmutable` |
| `scheduler_execution` | 3 calls, 2 keys, 2 executions, 6 of the 8 kinds of other calls | `OneExecutionPerKey`, `AnsweredIsKept`, `RefsKept`, `BlockedStays`, `ClosesOnEvidence`; refinement: `RegistryRefined` |
| `context_acquisition` | 2 processes, 2 tasks in batches of 1, 5 contents, 2 caps, any number of kills and failures | `ResultsBacked`, `TerminalOnEvidence`, `CapRespected`, `CheckpointsKept`; liveness: `Terminates` |

Each passing run checks the type invariant of its module besides.

Why the bounds are enough:

* four orders allow buy, step to the next day, buy, sell, sell, and each of the
  violations; two days of two moments let a user's step pass the market time of a
  tick within a day and across days. The two amounts of cash are chosen at the
  edge of the minimum commission (1002 CNY pays the price of a lot and not its
  fee; 2020 CNY pays two lots with their fees, and not three);
* two sessions give one restart; two moments let a user step pass the market
  and a late tick pull the clock back; the counters of the orders only matter as
  zero or not. In the workspace run `CatchesUp` sees the one lag that two moments
  allow, with all requests, pauses and other owners about it;
* two invocations are what the lock has to keep apart, and two troubles allow a
  crash followed by a failed takeover. In the launchd run the one trouble can be
  a crash, a failure or an outage in either evening slot, a kill of the publish
  or a failing `bootstrap`; the publish itself ends the refresh twice without
  being a trouble. Symmetry of invocations is used in the safety run only;
* of five calls one creates a request and four work on it, or one retries it
  while two overlap on each; a race needs two calls, and the others let it
  happen after a failure, beside a retry or to a torn file. The calls are
  symmetric, and the properties of this run are safety;
* of three calls on executions two race for a key or an execution and the third
  finds what they, or a crash, have left; a second key and execution let them
  disagree. On the cycle one call records, another blocks or closes it out, and a
  third overlaps either or finds what a kill has left. The two kinds of calls
  left out add no behaviour: recording a plain artifact adds a reference as the
  other records do, and a diagnostic writes the ledger as it has read it. A cycle
  starts absent, or with a gate read-out and a fresh projection, so that three calls
  reach a completion with calls to spare. Keys, executions and calls are
  interchangeable and the properties are safety;
* two tasks in batches of one make the loop come round, with a task that failed
  before and one that is still open; a threshold of two cycles is reached and
  not reached; the smaller cap is hit in the midst of the last task, the larger
  never. The five contents are nothing, two different answers, one with a record
  after the cutoff and one that is refused.

Deadlock is checked in every run but those of `ManualResearch` and
`SchedulerExecution`, where every call may have been answered, and of
`ContextAcquisition`, which stops in its terminal state or when launchd's
process was turned away.

### What the violations show

* **T+1** (`simulation.py:1323`). Buy, step to the next day, buy, sell, sell:
  sales at one clock value do not reduce the sellable quantity, so the second
  sale may dispose of shares bought the same day. README.md:12 promises the
  T+1 constraint. A late tick is the other way to it: the clock it sets back
  hides a sale as well. `SettledIfSalesAdvance` shows that there is no third.
* **Overdraft** (`operations.py:457`). The replay leaves out orders in stocks
  outside the watch pool, while a manual order may buy any stock with a bar:
  such purchases cost nothing when the next order is checked.
* **Pause** (`simulation.py:1694`). A tick that loaded the session before the
  pause still steps it afterwards, although the user has been told that the
  timeline is frozen (`simulation.py:1198`).
* **Publish pause** (`publish-local-runtime.sh:234`). `launchctl stop` ends the
  refresh that runs and leaves the agent loaded with its interval of five
  minutes: the next poll starts a refresh in the middle of the deployment, which
  `publish-local-runtime.sh:119` says is to be avoided. `DeploysAloneUntilPolled`
  is what does hold.
* **Immutable artifacts** (`manual_research_workflow.py:439`). A handler that has
  read a request before another one completed it goes on: it marks the completed
  request failed, or writes its own answer into the artifact. Two clicks on
  execute are enough, for the second waits on the lock with the row it has read.

Some passing properties have an exception that is a weakness of the code, and
each exception is needed: without it TLC finds the behaviour.

* **Late tick** (`simulation.py:1605`): `overlooked` in `NeverOversold`,
  `ModelTrackSettled` and `CashCoversOrders`. The tick loads the row; the user's
  step moves the clock on, and a share is sold at the later time; the tick then
  steps from the row it has loaded and sets the clock back. Neither the replay
  nor the sellable quantity sees the sale, and the share is sold again, although
  `simulation.py:1511` refuses what is not held. In the same way cash is spent
  twice.
* **Torn cycle** (`artifact_store_core.py:165`): "cut off" in `RefsKept`. A
  recorder is killed between the truncation and the write of `write_text`, and
  every record of the cycle is gone, where
  `TRIAL_C_LEDGER_AND_PUBLISH_DECISION_CN.md:262` has an atomic replacement. No
  call needs to overlap another. A ticket that was blocking is gone with the
  rest, and every later call fails.
* **Completion** (`autonomous_flow_planner.py:130`): the gate in
  `ClosesOnEvidence`. The one kind of gate read-out that completes a cycle is one
  with next action "blocked" and a status that is not; the planner gives as its
  reason that "all planner inputs are fresh and unblocked" (line 146), and
  `TRIAL_I_EVALUATION_CN.md:95` holds the branch to be out of reach. Gates that
  ask for anything else degrade the cycle.

`OneRefreshPerDay` is checked for launchd's invocations, of which there is one at
a time. A start by hand that overlaps one may repeat a slot that it has just
completed, because the `.ok` mark is looked for before the lock is taken
(`run-scheduled-refresh.sh:467`); no text of the repository claims otherwise for
starts by hand.

### Fairness

* `SimulationWorkspace!FairSpec`: `background_operations_loop` runs a tick every
  minute and waits for its end, so a tick that stays possible is eventually
  made and one that has begun ends. Nothing is assumed of users or of the
  market. `CatchesUp` is stated for a session that does not trade by itself, and
  for behaviours in which other owners at last do not either: the code does not
  keep a refused model order from rolling back the whole tick.
* `PublishRelease!PublishFairSpec`: launchd polls every five minutes while its
  agent is loaded (`publish-local-runtime.sh:163`), a started script goes on, jobs
  end (they have a timeout), retry intervals pass and the evening comes. Crashes,
  failures and outages are bounded in number by `MaxTroubles` and otherwise
  unrestricted. `Expire` encodes the premise of the comment at
  `run-scheduled-refresh.sh:57`: the interval of two hours is longer than an
  evening job. Nobody is assumed to start a publish, and a publish that has
  started goes on. `SlotsOutlastPublishes` excludes the behaviours that leave the
  agent unloaded for ever: a publish killed between `bootout` and `bootstrap`, or
  a `bootstrap` that fails, which "|| true" passes over.
* `ContextAcquisition!FairSpec`: launchd starts its process at login and after
  every exit that is not 0, processes go on, and a started one comes to `flock`.
  Kills, failed fetches and failed writes have no bound. `Terminates` speaks of
  the behaviours in which they at last end: a fetch that fails for good (a
  symbol that the stock map lacks, an announcement list of too many pages) makes
  the loop give up and launchd start it again for ever, and so would a disk that
  stays full. Even then the property names the ways in which the code as it
  is does not come to its end: a file left torn, a frozen input that the
  materialisation refuses, one with records after the cutoff, launchd's process turned
  away with exit code 0 by one started by hand, a cap too small, or no record at
  all. Each of these exceptions is necessary: without any one of them TLC finds a
  behaviour that never ends.

## What is proved

For every value of the constants:

* `SimulationLedger_proofs`: `TypeCorrect`, `HoldingsCorrect` (`NeverOversold`),
  `ModelTrackTPlusOne` (`ModelTrackSettled`), `TPlusOneException`
  (`SettledIfSalesAdvance`) and `CashNeverShort` (`CashCoversOrders`). The only
  assumption is `LedgerAssumption` on the constants, to which the cash adds
  `SalesYield` as a hypothesis.
  Quantities and money are sums over sets of fills, folds of the library.
  `SubsetInduction`, an induction over the subsets of a finite set from the
  well-foundedness of strict inclusion, gives that such a sum exists
  (`SumExists`), that an element may be taken out of it (`SumTakeOut`) and that it
  grows with its set (`TotalMonotone`); `AppendSums` says what one more fill does
  to it. `StepShape` reduces every step to one of two forms, no new fill or one
  accepted fill, and says of the clock: a fill that no late tick has overlooked
  is never later than the clock (`Dated`), nor the row a tick has loaded later
  than the clock (`TickBehind`). The three sell properties are inductive together with
  these (`SellInv`): an accepted sale of a position without an overlooked one is
  within what is held in full (`SaleFacts`), and the model sells at a time later than
  the row it steps from, so that its sales advance (`ModelSalesAdvance`) and the
  T+1 exception cannot occur.
  `CashInv` adds to `CashCoversOrders` that no sale has cost anything: the replay
  may lack a sale, and then has less than the track owns, but no purchase that has
  not been overlooked (`PurchaseFacts`). That is the hypothesis `SalesYield`, for
  which the code has no check: it holds for every lot that costs the
  minimum commission of 5 CNY or more (`YieldAtMinimumFee`), a share price of
  0.05 CNY, and fails below that.
* `ScheduledRefresh_proofs`: `TypeCorrect`, `LockNeverLeaks` (`NoLeakedLock`),
  `MutualExclusion` (`OneRunnerUnlessRaced`) and `TickStandsBack`
  (`TickAvoidsRefresh`), for any number of invocations, `OncePerDay`
  (`OneRefreshPerDay`) and `NotStacked` (`AttemptsNotStacked`) for one at a time. The inductive invariant
  `LockInv` adds `Undisputed`: as long as no two invocations have been in
  `acquire_run_lock` at one time, whoever is past its first `mkdir` or holds the
  lock finds the lock in the state its own commands left it in. Mutual exclusion
  alone is not inductive, because it says nothing of an invocation between its
  `rm -rf` and its second `mkdir`. The two theorems about the marks have the
  hypothesis `Lone`: launchd does not start an agent that still runs, and two
  invocations that overlap may both have looked for the marks before either wrote
  one. `Marked` says what the invocation still knows of the files it looked at: the slot
  at hand has no `.ok` file and no abandoned job, and whatever evening job runs, in
  the script or abandoned by a killed one, has a fresh `.attempted` file.
* `SimulationWorkspace_proofs`: `TypeCorrect`, `OneSessionLives`
  (`OneLiveSession`), `TracksComparable` (`TracksAligned`), `NothingBeforeStart`
  (`TradedOnlyAfterStart`), `NumbersWithoutGap` (`StepsNumbered`), `NoRevival`
  (`EndedIsFinal`), `TimelinesStand` (`TimelineKept`), `PauseHolds`
  (`FrozenUnlessLate`) and the refinement `LifecycleImplemented`
  (`LifecycleRefined`), under `WorkspaceAssumption` only. `Moves` says what a request, or a tick that has seen
  the row as it is, may make of one row; each handler has a lemma that it moves
  one, and `Growth` lifts this to the table. The late tick is the one step that is
  no such move. For it the invariant has `LoadedBefore`: the session a tick has
  loaded was started, and its clock has moved since only together with its step.
  That is why a late tick may break the numbering and the clock, and can neither
  revive a session nor trade in one that was never started. `Latest` is a
  CHOOSE; that a newest living session exists (`NewestExists`) follows from the
  well-foundedness of strict inclusion between finite sets. For the refinement,
  `Moves` names the `Turns` a status may take, `CurrentIsLatest` says that the
  current session is found by the statuses alone, and `StepLives` that every step
  is one of the lifecycle or leaves the statuses as they are.
* `ManualResearch_proofs`: `TypeCorrect`, `ArtifactsExist` (`ArtifactHasFile`),
  `UpdatesKept` (`NothingTakenBack`), `ColumnsAgree` (`TerminalFieldsAgree`),
  `FilesAgree` (`FileHoldsAnswer`) and `ImmutableAlone`
  (`ImmutableUnlessOverlapped`), for any number of calls; the only
  assumption is that no call is named like the two marks of a file. The inductive
  invariant `ArtifactInv` adds that the file exists whenever a handler is about to
  commit a completion (`FileFirst`), and that calls not yet issued have no row
  (`Fresh`), without which a new row could replace one with an artifact.
  `CommitKeeps` says of every commit what it may change in a row, from
  `WrittenRow`, the fact about columns that the handler has left as it read them.
  The last three theorems have an invariant of their own, `AgreementInv`: on a
  request that has never had two calls at a time there is at most one (`Sole`),
  and that one knows the row as it is and has left the file as its place says
  (`Current`).
* `PublishRelease_proofs`: `PublishTypeCorrect`, `DeploysAlone`
  (`DeploysAloneUntilPolled`), `RunLockOutlastsPublishes` (`NoLeakedLock` and
  `OneRunnerUnlessRaced` still hold beside publishes, by the invariant `LockInv`
  of `ScheduledRefresh_proofs`), `OncePerDayUnderPublishes` (`OneRefreshPerDay`
  and `AttemptsNotStacked` beside publishes that kill the refresh, by `Marked`) and `PublishesApart` (`PublishersExcluded`, which
  is proved only: two publishes are beyond the run). Its invariant `Separated`
  says that the lock of whoever is inside is fresh, that one publish at most
  takes a stale lock over, and which lock it will remove.
* `SchedulerExecution_proofs`: `OneLedgerPerKey` (`OneExecutionPerKey`),
  `AnswersKeepLedgers` (`AnsweredIsKept`) and the refinement
  `RegistryImplemented` (`RegistryRefined`). The invariant `RegistryInv` says that a
  call that has passed both tests owns its key (`Owned`), who may still fill an
  empty reservation (`Filling`), that a ledger agrees with the reservation of its
  key (`Agreed`), and what a scan that is over
  still knows (`Scanned`, `Unclaimed`). Every step is then a `Bind`, an answer, or
  a stutter of the registry.
* `CycleLedger_proofs`: `TypeCorrect`, `RecordsStay` (`RefsKept`),
  `BlockedForGood` (`BlockedStays`) and `CompletedOnEvidence`
  (`ClosesOnEvidence`). `Serial` says that, while no two calls have overlapped,
  the copy of the one at work holds all that finished calls have recorded
  (`Holds`), and that a closeout's decision fits the second copy as it did the
  first (`Fits`). `Interrupted` says that a truncated ledger has a writer, or one
  that was cut off: without it a torn file would be no contradiction to `RefsKept`.
  What a completion rests on holds under overlaps too, by `Backed`: the ledger and
  all copies of it name only what is on disk (`Stored`), and so do the decisions.
* `ContextAcquisition_proofs`: `TypeCorrect`, `ResultsAreBacked`
  (`ResultsBacked`), `TerminalStandsOnEvidence` (`TerminalOnEvidence`),
  `CheckpointsImmutable` (`CheckpointsKept`) and `CapHolds` (`CapRespected`), for
  any number of kills and failures. The
  invariant has four parts: the threshold is reached only where the holder
  decides (`ZeroBelow`), the files before the one at hand are those of the content
  in memory (`Derived`), after a passed audit every result is whole
  (`AuditHolds`), and the budget in memory is never less than the files
  (`Accounted`).

Of each promise the code breaks, a theorem says what is left of it, so that every
counterexample is of the kind the table names (for the overdraft, at prices with
`SalesYield`):

| Violated | What does hold | Theorem |
|---|---|---|
| `TPlusOne` | unless a sale was placed at the time of an earlier sale of the stock, or before it | `TPlusOneException` |
| `NoOverdraft` | unless the track has orders outside the pool, a late tick has stepped past one of its purchases, or pool or cash were edited after an order | `WatchedOrdersCovered` |
| `PausedIsFrozen` | except in the step of a tick whose values had changed | `PauseHolds` |
| `RefreshPaused` | until launchd's next poll | `DeploysAlone` |
| `CompletedIsImmutable` | unless two calls worked on the request at one time | `ImmutableAlone` |

Only model-checked: liveness (`CatchesUp`, `SlotsOutlastPublishes`,
`Terminates`), which is out of the prover's reach, and the violations. Every
invariant, action property and refinement of the passing runs has its theorem.

## What is not modelled

* In the ledger: board-lot rules, price bands, limit bars, account eligibility
  (they only refuse), limit prices, slippage, the choice of the model's advice.
* In the lifecycle: the texts and payloads of events, focus symbols, step
  intervals, benchmark; the tick's rewrite of the whole payload when the
  watchlist has changed.
* In the scheduled refresh: the ops-only refresh in market hours, which takes no
  lock; the trading calendar; the reuse of a dead process's pid; the jobs.
* In the publish: the build, what is copied, backups, and the verification of
  the release, which reads. The API is replaced in one step, `Deploys`.
* In manual research: texts, prompts, answers and their parsing, the choice of
  model keys and their health marks, and the status `stale`, which is computed
  when a request is shown.
* In the Phase 5 flow: the recorders of run attempts, interventions and
  auto-progress, which write files of their own beside the ledgers,
  and the ledger's own `next_action`, which the planner never reads (the gate
  read-out's is modelled).
* In the context acquisition: the plan builder, the imports of other providers,
  whose manifests the readiness check reads as well (here it needs one of the
  tasks' own), and what records contain.
* `OperationsResponseCache`: a cache in memory whose payloads are derived again
  within seconds; its races show an older answer for that long, and lose nothing.
* The components marked `not_modelled` in `PROJECT.json`, each with its reason.

Most of the repository's lines are outside of this list of parts with state: the
Shortpick lab, the model registries and candidate runners, replays and strategy
searches are sequential pipelines of floating-point numbers over market data
(most of its 140 000 lines). What could be wrong in them are values, which
no small instance represents, and their command-line entry points keep
between two runs the files they have written. They are the domain of
the repository's own tests.

## Plan

Done: the four components of the paper trading and the scheduled refresh, the
publish, the session lifecycle and the execution registry with their refinements,
and the context acquisition, each with its proofs. Worth doing next, in this order:

1. the size of the model's order and its minimum commission in
   `SimulationLedger` (`_board_lot_quantity_affordable`);
2. the recorders of run attempts and interventions as roles of `CycleLedger`;
3. the ops-only refresh of market hours in `ScheduledRefresh`;
4. an abstract specification of one manual research request (queued, failed and
   queued again, completed with one artifact), implemented by `ManualResearch`
   while no two calls overlap on it.
