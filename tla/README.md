# OpenAVC: specifications of the room controller's core

OpenAVC runs a room: it holds a project (devices, variables, macros, triggers,
panels), keeps the live state of the equipment, and acts on it for panels,
schedules, scripts, plugins, the REST API and the cloud.  The server
(`openavc/`) is one Python process whose components share one asyncio event
loop.  This directory holds TLA+ models of its core, the TLC configurations
that check them, and TLAPS proofs about them.

**What an action is.**  Nothing in the server runs in parallel with the event
loop but file I/O and drivers' worker threads, so the code between two `await`s
is atomic, and every `await` is a place where anything else may happen.  In all
models but the updater's an action is the code from one await to the next.
`EventBus.emit` gathers its handlers: it suspends whenever somebody listens, and
the WebSocket hub listens to everything, so every awaited `emit` counts as an
await.  Cancellation is asyncio's: `task.cancel()` only marks the task
(`mustCancel`), and `CancelledError` is raised at the await the task is
suspended at, when the loop gets to it.  The updater is two programs that share
files; there an action is one write, copy or move, since the power may go after
each.

| module | models | proofs |
|---|---|---|
| `MacroEngine` | `core/macro_engine.py`, the reload's share of `core/engine.py` | `MacroEngine_proofs` |
| `StatePersister` | `core/state_persister.py`, the persistent-variable share of `core/engine.py`, `core/backup_manager.py` and the restore route | `StatePersister_proofs` |
| `TriggerEngine` | `core/trigger_engine.py`, the rebuild in `core/engine.py` | `TriggerEngine_proofs` |
| `RetainUntilAcked` | what the cloud agent promises its senders (abstract) | |
| `CloudDelivery` | `cloud/agent.py`, `cloud/sequencer.py`: upstream delivery; implements `RetainUntilAcked` | `CloudDelivery_proofs` |
| `StateRelay` | `cloud/state_relay.py` over the delivery | `StateRelay_proofs` |
| `DeviceLifecycle` | `core/device_manager.py`, `drivers/base.py`: the connection of one device | `DeviceLifecycle_proofs` |
| `ProjectApply` | `core/engine.py`: every door to the project | `ProjectApply_proofs` |
| `Updater` | `updater/`, the start in `main.py`, `installer/update-helper.sh` | `Updater_proofs` |

`MC<module>` gives each its small instances; `PROJECT.json` lists the runs, what
each definition stands for in the source, the hazards and the theorems.

## Inventory

For each component: the state it keeps; what changes it; whom it talks to; what
is hard; what makes it correct.

**Macro engine** (`core/macro_engine.py`; modelled).  *State*: `_macros`, `_groups`
(definitions), `_running` (macro -> tasks), `_last_started_monotonic`, per-call
chain and failure tally in context variables.  *Operations*: `execute` and its
two wrappers (`start`, `execute_detached`), `execute_steps`, `cancel`,
`cancel_all`, `load_macros`.  *Talks to*: devices, state store (steps and
`wait_until`), event bus (progress), triggers and API (callers).  *Hard*: three
overlap policies at once with cancel groups, nested runs in one task,
cancellation at every await, a queue and a drain that each give up after a
time, reloads beside running macros.  *Correct when* `skip` and `queue` exclude,
groups preempt, a cancellation stops the chain, every active run can be found,
an outcome says what happened, no wake-up is lost, nothing waits for ever.

**Trigger engine** (`core/trigger_engine.py`; modelled but for schedules).  *State*:
per trigger a debounce task, a delay task, a queue of waiting fires; the count of
active fires; cooldown baselines; tasks in flight by kind.  *Operations*:
occurrences (state change, event, cron, startup), the pipeline debounce -> delay
-> guards -> overlap -> macro, `stop` / `load_triggers` / `start`.  *Talks to*:
state store and event bus (subscriptions), macro engine (`execute`,
`is_macro_running`), the engine (rebuild on an edit).  *Hard*: one task carries a
fire through several stages; rebuilds clear counts under fires that go on;
checks are made one or more awaits before what they protect.  *Correct when*
`skip` means one active fire, `allow` is capped, counts return to zero, `stop`
leaves no pending fire, the cooldown and `skip` do what their documentation says.

**State persister and persistent variables** (`core/state_persister.py`; modelled).
*State*: `_persistent_keys`, subscriptions, `_dirty`, `_flush_task`, `_stopped`;
`state.json`.  *Operations*: `load`, `start`, `update_keys`, the debounced flush,
`flush`, `stop`.  *Talks to*: state store (listener), engine (boot, apply,
restore, shutdown), backups.  *Hard*: crashes, failing writes and reads, a set of
keys that changes under pending writes, a restore that replaces the file below
it.  *Correct when* a crash loses nothing that is not dirty, and what is dirty is
about to be written.

**Engine** (`core/engine.py`, `core/project_diff.py`; its doors to the project are
modelled).  *State*: project, revision, the lock of a reload, the queue of
deferred bookkeeping saves; the project file.  *Operations*: `apply_project`,
`apply_project_edit`, `reload_project`, `persist_bookkeeping_change` and
`schedule_bookkeeping_change`, the reconcile and its rollback, boot, shutdown.
*Talks to*: everything that runs the project, and the REST routes.  *Hard*: a
reconcile that fails half way; callers that copied the project before they got
the lock; a plugin that saves under the lock of its caller; tokens that outlive
a restart.  *Correct when* no change puts another one back, the file is the
project, the project is what runs, and nobody waits for ever.

**State store** (`core/state_store.py`; partly): flat keys, listeners called at once
and change events emitted later.  **Event bus** (`core/event_bus.py`): handlers by
pattern, a depth limit, gather.  Both appear in the models as what they do to
their callers.

**Cloud agent, delivery** (`cloud/agent.py`, `sequencer.py`, `session.py`,
`handshake.py`, `protocol.py`; modelled).  *State*: sequence numbers, the bounded
buffer, the last acknowledgement, the connection loop.  *Operations*: send,
acknowledge, handshake, resume, replay, teardown.  *Talks to*: the cloud, the
relays.  *Hard*: both sides count from 1 again on each connection while the
buffer holds messages of an earlier count; connections lost in the middle of a
replay; eviction.  *Correct when* what is neither acknowledged nor evicted is
sent again once the peer is there, and an acknowledgement discards only what was
read.

**Cloud relays and tools** (`cloud/`; the state relay is modelled).  *State*: batches
per tier, the tier cache, the snapshot under way.  *Hard*: changes during the
snapshot, batches of two tiers for one key, a device removed and added again.
*Correct when* the cloud ends up with the state of the room and never goes back.
Alerts, tunnels, commands and tool calls are further relays beside it.

**Device manager** (`core/device_manager.py`, `device_reachability.py`,
`device_sleep.py`, `connection_fault.py`; partly).  *State*: driver instances,
retry loops, `_intentional_disconnect`, backstops of pauses, deferred
bring-ups; of each driver its lock and its attempt.  *Operations*: connect,
Reconnect, pause, resume, setup action, update, remove, bring-up, retry.  *Hard*:
every door is a coroutine of its own over the same device; drivers are replaced
under those that wait; drops are announced while somebody else dials.  *Correct
when* nothing is left down without a retry, a paused device stays down but not
for ever, no replaced driver keeps a connection, the card tells the truth.
**Drivers** (`drivers/`; the base's connection is modelled) and **transports**
(`transport/`) translate and move bytes per device.

**Updater** (`updater/`, `installer/update-helper.sh`, the start in `main.py`;
partly).  *State*: files only, and which trees are whole.  *Operations*: update,
apply by the helper, confirmation, automatic and manual rollback, history.
*Hard*: power cuts and kills between any two steps, two programs that each undo
half.  *Correct when* a start finds a whole install, an update can be undone
until its version has been up, is undone for cause only, data goes with the
code, the history tells the truth, a crash loop ends.

**Plugins** (`core/plugin_*.py`; `save_config` modelled): third-party code with a
lifecycle.  **Monitors, help requests, setup actions** (their effect on device and
project modelled).  **Backups** (`core/backup_manager.py`; project file and
`state.json` modelled).  **REST and WebSocket API** (`api/`; the project routes
modelled).

Not modelled: **inter-system communication** (`core/isc.py`), **scripts**
(`core/script_*.py`), **UI events and the WebSocket hub**, **project storage** (file
formats, migrations), **conditions and values** (pure functions), **simulation,
discovery, audit, middleware, logins, system settings**, the **web front ends**;
`PROJECT.json` has the reason of each, and "Not modelled" below the general one.

## The models

### MacroEngine

A *task* is one asyncio task that calls `execute()`; a "Run Macro" step calls it
again in the same task, so a task is a chain of runs and, by the circular-call
guard, has at most one run per macro.  `phase[t][m]` is the await at which that
run is suspended (the list is at the head of the module), `pc` its step, `running`
is `_running`, `failed` the failure tally, `drain` the set `_drain_cancelled`
waits for.

| action | code |
|---|---|
| `Start` | `start` / `execute` up to its first await: refusal, throttle, queue, registration, preemption (`Enter`, `Claim`, `GroupTargets`) |
| `QueuePoll`, `LeaveDrain`, `Drained`, `DrainTimeout` | the two waits before a run |
| `StartedReported` ... `StepErrorReported` | the emits of `execute` and `execute_steps` |
| `BeginWork`, `SkipStep`, `CallMacro`, `CallRefused`, `WorkDone`, `WorkFails` | `_execute_step` |
| `WaitFastPath`, `WaitSubscribe`, `WaitReported`, `WaitSatisfied`, `WaitTimesOut` | `_execute_wait_until` |
| `SkippedReported`, `CompletedReported`, `ErrorReported`, `CancelledReported` | the ends, with `_release` |
| `CancelInDrain`, `CancelInTry`, `CancelOutsideTry` | `CancelledError` at each kind of await |
| `Cancel`, `OwnerCancel` | `cancel`, and whoever owns the task |
| `ReloadBegins`, `ReloadCancelled`, `LoadMacros` | `_reconcile`: `cancel_all`, its grace period, `load_macros` |

A step is work (a command, a delay, a set), a call, or a `wait_until`; it may be
guarded (`skip_if`, a conditional, a loop body) and may fail.  Left out: which
device a command goes to, progress text, `execute()` outside any task, and the
emits after a `wait_until`, which belong to the step.

### StatePersister

The operations of the persister are operators on a record of its state (`Now`,
`Become`), because one stretch of engine code between awaits makes several of
their calls in a row: an apply seeds new variables, deletes orphans and calls
`update_keys`.  `store` and `state.json` are functions from variables to values or
`Absent`.  The engine's part is an apply in its stages (`swapped`, `reconciled`,
then done, or failed and rolled back), the restore (files, reload,
`reload_persisted_state`), the boot and the shutdown; `Crash` may come anywhere,
a write may fail, a read may fail or be corrupt.

Left out: two backups (there is one, taken of project and `state.json` at one
instant), backups during a restore, and the older `.avc.bak` restore (project
only).  Binding a variable to a source at the end of a reconcile is an ordinary
change of it.  Everything written about a value is about equality, so two or
three values are enough; `None`, the value of a cleared variable, is one of them
because the code tests for it.

### TriggerEngine

A *fire* is one occurrence on its way; `phase[f]` is where it is, `task[f]` which
container keeps its present task, since that decides what can cancel it.
`debounceTask` and `delayTask` are the slots of `_TriggerState`; a fire that has
gone on to run its macro inside the delay task is still in that slot.

| action | code |
|---|---|
| `Occur` | `_on_state_change`, `_on_event`, the cron loop: `_initiate_fire` |
| `DebounceEnds`, `DelayEnds`, `ReadyRuns`, `QueuePoll` | `_debounced_fire`, `_delayed_fire` and `_fire_startup`, `_spawn`, `_queued_fire`; with `ScheduleFire`, `ExecuteTrigger`, `FireMacro` |
| `EnterMacro`, `MacroStarts`, `MacroEnds`, `MacroReturns`, `LastEmitEnds` | `_fire_macro` around `execute()`, whose emit of `macro.completed` is an await of its own (*completed*) |
| `CancelPending`, `CancelFired`, `CancelMacro`, `CancelAround` | `CancelledError` at each of these awaits |
| `StopBegins`, `StopCancels`, `StopEnds`, `StartTriggers` | `stop`, `load_triggers`, `start`, also from the rollback |
| `MacroCancelled`, `OtherRun`, `CooldownElapses` | cancel requests, runs of other doors (`test_trigger` among them), time |

The macro engine appears as what `execute()` may do to a fire: register at once
or after its own queue, run as long as it likes, refuse, be cancelled.  `Blocked`
and the guard conditions are kept; what a condition evaluates to is free.  The
cooldown is a set of triggers it still holds for.  Left out: the cron loop's
duplicate guard and catch-up, outcome and last-fired records, disabled triggers
(one is as good as not loaded); `_on_event`'s handler task is taken as immediate.

`PromptCancel` in the macro and trigger models says that a cancelled task reaches
its handler within the grace period (2 s, 5 s) of whoever waits for it.  The runs
set it, so that what they show needs no slow handler; the proofs do not use it.

### RetainUntilAcked and CloudDelivery

`RetainUntilAcked` is the promise of `send_message` to its callers: an accepted
message is *owed* until the cloud has received it and says so.  While connected
a debt ends in no other way, but that a full buffer gives up the least important
message; between two connections the debts survive, a new connection may refuse
all of them, and what a reconnection loses while it pays them is named (`cut`).

`CloudDelivery` is the agent: `phase` is where `_connection_loop` is suspended,
`buffer` is `_send_buffer`, `replay` what `_replay_buffered` has taken out of it
and not yet sent.  It implements the abstract module under the mapping `owed <-
Owed`, the messages of `buffer` and `replay` together (`KeepsContract`).

| action | code |
|---|---|
| `Send`, `AssignSeq`, `HandleAck` | `send_message`, `Sequencer.assign_seq` with the eviction, `handle_ack` |
| `Handshake`, `HandshakeRejected`, `AttemptFails` | `_connect_and_run` up to the resume, `reset_for_new_session`; a rejection for good; an attempt that raises |
| `ResumeFrom`, `ResumeRefused`, `ReplayNext`, `ReplayDone` | the answer to `send_resume`, `_replay_buffered` one send at a time, the declare of `connected` |
| `Teardown`, `Stop`, `LinkLost` | the end of a connection, `stop`, the watchdog or the socket |
| `CloudReads`, `CloudAcks` | the cloud, as the agent relies on it (external) |

Left out: key rotation, signatures and downstream gaps, which are no part of what
is delivered upstream; messages too large to send.

### StateRelay

Over the delivery, seen as one queue read in order and sent again on the next
connection until acknowledged.  A value is the number of its change and whether
it was a deletion, which is all a comparison of the room with the cloud needs.

| action | code |
|---|---|
| `SetState`, `DeleteState` with `Notified` | `StateStore.set`, `delete`, and `_on_state_change`: the tier of the key, its cache, the batch |
| `PopDriver`, `ClearKeys`, `AddDevice` | a device removed (no driver, then no keys) and added again: keys without a driver cannot be classified |
| `Connect`, `SendSnapshot`, `SnapshotSent` | `start` and `_send_initial_snapshot`, chunk by chunk |
| `Flush`, `FlushNext` | `_flush_bucket_loop`, `_flush_bucket`, `_send_changes_chunked` |
| `SwitchOn`, `SwitchOff`, `Throttle`, `Unthrottle` | the cloud's directives |
| `LinkLost`, `Teardown`, `CloudReads`, `CloudAcks` | the connection below; the cloud (external) |

Left out: overlapping `start()`s, and messages beyond the size limit.

### DeviceLifecycle

One device, any number of requests, and driver instances that replace each other.
`pc[p]` is the await at which coroutine `p` is suspended (the list is at the head
of the module), `op[p]` the request it serves, `drv[p]` the driver it captured.

| action | code |
|---|---|
| `Press`, `Head`, with `Reconnect`, `Pause`, `Resume`, `BeginSetup`, `Remove`, `Readded` | the doors: `reconnect_device`, `pause_device`, `resume_device`, `begin_setup`, `remove_device`, `update_device`, from the cancellation of the retry loop on |
| `ConnectStep` | `BaseDriver.connect` and `_connect_once` with lock, takeover, declare, and whatever follows in each caller |
| `CloseStep` | `disconnect` and what follows it |
| `EndSetup`, `SetupRedials` | `setup_actions.py`: the handler has ended, `end_setup`, `reconnect_in_place` |
| `BringUp`, `Retry`, `Kick` | `bring_up`, one turn of `_reconnect_loop`, `kick_reconnect` |
| `Expire`, `ExpireRemoved` | `_pause_expiry`, the backstop of a pause |
| `Drop`, `DropTold` | a transport drops: the driver's clean-up, then `_on_device_disconnected` |

Left out: bridge-routed devices, connections held for a while, the backoff of a
flapping device, sleep and restart windows, pending settings but for their
awaits.  `disconnect` is two steps; the clean-up of a drop is one.  A request that
cancels the loop waits for it, and a new loop is taken to wait longer before its
first attempt than the request does for the old one.

### ProjectApply

A section of the project is the version it holds; a change of a section writes a
version of its own, so that "put back" and "lost" show.  One caller holds the lock
(`op`, with its stage), the others wait in `line`.

| action (`core/engine.py` if not said) | code |
|---|---|
| `Get`, `Put`, `Load`, `Restore` | `api/routes/project.py`: read, `PUT` with `If-Match`, a whole new project, the restore, whose files are written before the lock is asked for |
| `Edit`, `Setup`, `Reload` | `apply_project_edit`, `setup_actions.py`, `reload_project` |
| `SaveConfigLater`, `SaveConfigNow` | `_save_plugin_config` under the lock and without it; a hook that waits is `by = "hook"` |
| `JoinFlush`, `TakeFlush`, `TakeSave`, `SavedConfig`, `ConfigFails` | `schedule_bookkeeping_change`, `_flush_bookkeeping`, `persist_bookkeeping_change` |
| `Refuse`, `TakeChange`, `TakeReload`, `SavedChange`, `ChangeFails` | `_apply_project_locked`: 409, copy and save, the file again, the swap, a failed save |
| `Step`, `StepFails`, `RollbackFails`, `Finish` | `_reconcile` section by section, `_rollback_reconcile` |
| `Restart` | a crash, and the boot from the file |

Left out: pending settings and learned configuration, which use the same deferred
saves; logins moved to their file; scripts, ISC and broadcasts of a reconcile;
start and shutdown but for what the other modules have of them.  One plugin is
always enabled.  A deferred save runs in a thread beside the live project; which
of its states the thread writes is a nondeterministic choice.

### Updater

Files and trees.  A tree is the version it is of, which of its parts it has, and
whether it has ever been up; `phase` is the step of the helper or of the start.
The parts are those that one check sees and another does not: the package's
directory (*code*) and what is in it (*modules*), an interpreter that runs (*venv*)
and what is installed for it (*packages*), and the helper.  `Valid` is what
`is_app_dir_valid` tests, the directory and the interpreter; `Whole` is what the
unit's `ExecStart` needs.  A `cp -a` or `rm -rf` that is interrupted leaves any of
the parts (`Torn`), so half a tree may be valid.

| action | code |
|---|---|
| `BeginUpdate`, `WriteUpdate`, `UpdateFails`, `BeginRollback`, `WriteRollback`, `Exit` | `updater/manager.py`: `apply_update`, `_cleanup_failed_apply`, `rollback`, the restart |
| `StartHelper`, `StartRollback`, `StartUnhelped`, `Refuse` ... `Sync`, `SyncFails` | `update-helper.sh`: `promote_deferred_update`, `handle_update` step by step |
| `GiveUp`, `Recover`, `Defer`, `SetAside`, `BringBack` | its failures and `handle_rollback` |
| `PythonDies`, `Check`, `Restore`, `Revert`, `Leave` | the start in `main.py` up to the engine: `record_startup_attempt`, `check_rollback_needed`, the data, the instruction, the marker |
| `Load`, `LoadHistory`, `EngineUp`, `EngineDies`, `EngineFails` | the engine's start: migration, `_load_history`, `confirm_startup`, the two ways to fail |
| `Stop` | the power goes (`cut`) or the service is killed, anywhere (external) |

Versions may die before they look at the marker, in the engine's start, or fail it
without ending.  Left out: Windows, macOS and the appliance with its early exit
in the helper (17-23), the check for releases, downloads and signatures, staging
and maintenance windows, logins put back, unit refresh.  The marker, the history
row and the instruction of one apply are one step; a restore of the backup, an
`rm` and an `mv` are taken to succeed.  `MAX_UPDATE_ATTEMPTS` is a constant.

## The runs

| run | instance | shows |
|---|---|---|
| `Macros` | 2 tasks, macros that call each other, queue, fail, wait with time limits or for ever, are refused, with fairness; 0.17 M states | `skip` excludes, a cancellation stops the chain and ends its task, *completed* means no step failed below, no lost wake-up |
| `MacroQueue` | 3 tasks, a queued macro and its rival in one cancel group, reloads that drop it and bring it back; 0.67 M states up to symmetry | `queue` excludes unless somebody gave up, also for two starts queued behind one run; groups preempt, also over a reload |
| `Persister` | 2 variables, projects that add, drop and change persistence, failing disk; 0.58 M states | a crash loses nothing clean |
| `Triggers` | 2 fires of 4 triggers (debounced and delayed `skip`, `queue`, `allow` with cooldown, startup) in 2 projects, with fairness; 0.35 M states | one active fire under `skip`, counts come back, `stop` leaves nothing, every fire ends or reaches its macro |
| `Delivery` | 4 messages of 3 priorities, a buffer of 3, 3 lost connections, with fairness; 0.15 M states | the buffer drains; the agent implements `RetainUntilAcked` |
| `Relay` | 2 keys, one of a device, 2 tiers, 2 changes, a lost connection or a switch, a throttle, with fairness; 0.60 M states | the cloud holds what the room has, never goes back, every change arrives |
| `Devices` | 2 requests, 2 driver instances, a drop, with fairness; 0.44 M states | nothing stranded, a pause holds and ends, no orphan connection, the card tells the truth |
| `Apply` | 2 clients and a plugin, 2 changes, 2 failures, a restart, with fairness; 0.35 M states | nothing put back, the file is the project, the project is what runs, every save ends |
| `Updater` | 5 versions (one of each way to fail), 2 updates, 2 power cuts or kills, with fairness; 1.37 M states | startable, can be undone, undone for cause, data fits, history truthful, crash loops end |

Each checks the type invariant of its module too, but for `MacroQueue`.  Runs that
end in a counterexample, each a disagreement of the code with what the repository
says of it:

| run | what happens |
|---|---|
| `RestoreClobbered` | The reload inside a restore runs `update_keys` of the stopped persister, which may rewrite the restored `state.json` from the live store before it is read. |
| `SkipCancels` | A trigger with a delay and `overlap: skip`: a new occurrence cancels "the pending delay", which is the task that runs the macro by now.  The macro is cancelled in the middle instead of the new fire being ignored. |
| `ConfigLost` | A plugin saves its configuration while an edit of another section is in its save.  The swap brings the older configuration back, the plugin is put on it, and the deferred save files what the plugin then runs: the change is gone without an error. |

**Bounds.**  Two tasks give every pair of runs the exclusions are about, and a
chain of calls with a rival.  `MacroQueue` has a third, for two that wait behind
one run, of which the second to wake must see the first, and for one that starts
while two of its group end.  `MaxPolls` is two
instead of hundreds: a wait gives up or not. `MaxDepth` 3 lets a chain be refused
both for depth and for a circle.  For triggers, two fires are in conflict; the cap
of `allow` is 1 where the code has 25.  Two variables suffice for an apply that
drops one key while another is dirty; the persister was also run with three values
(2.2 M states).  Three lost connections cut a replay, and the replay of what that
left; a buffer of 3 with 4 messages evicts.  One key of a device and one without,
one driver-declared slow tier and the fast one, and a chunk of one entry make the
relay's batches interleave; its invariants also hold with three changes (4.4 M
states).  Two requests beside loop, worker and timer is one more than any race
found in the device manager needs; its invariants also hold with three presses
(3.7 M).  A project needs two changes to put one back, and two failures for a
rollback that fails too; the invariants also hold with three changes (3.6 M up to
symmetry).  Two updates are one that is put off, refused or fails and one over it, the same
again or another; two stops are one that
interrupts a copy and one that interrupts what comes of it, or two killed starts;
the attempts ceiling is 2 where the code has 3, so that a put-off update is
retried once and then given up. Symmetry is over tasks
and clients, which the modules never order, and only in runs without liveness.

**Deadlock.**  The check is disabled where a bound is used up: each task of the
macro runs and of `Delivery`, `Devices`, `Relay`, `Updater`, `Apply` and
`ConfigLost` has a number of things to ask, and when all are done the system has
stopped as it should.  `Persister`, `Triggers`, `RestoreClobbered` and
`SkipCancels` cannot stop and keep it.

**Fairness.**  Weak fairness, of what the platform runs on its own:

- asyncio resumes every ready task and every timer in the end: a task's (fire's)
  own steps, a coroutine that dials or closes, the timer of a pause, the flush
  loops and the snapshot of the relay, the connection loop, the holder of the
  reload lock and the next in its queue (an `asyncio.Lock` is first come, first
  served; no failure is counted on), a task that was created;
- the cloud reads, and acknowledges, on a connection that stays up;
- systemd starts the service again (`Restart=always`), so the helper and the boot
  go on.

A macro's own work, the condition of a `wait_until`, a device's answers (which end,
but not how), occurrences, requests, reloads, lost connections, failures and
kills have none.  Weak fairness is enough, since such a step stays enabled until
it is taken or the task is cancelled, and a cancellation is itself one of the
task's steps.

**Mutants.**  Each property of a passing run is broken by a small change of one
operation, defined beside it in the module (comment *Mutant*).

**Exceptions.**  Where the code itself lets a property fail, in a way that is known
and narrow, the property names it by a history variable set at that one place:

| module | exceptions |
|---|---|
| `MacroEngine` | `gaveUp`: a queue wait that timed out; `stale`: a start queued across a swap of the definitions |
| `StatePersister` | `unsynced`: a key newly persistent, a file that could not be read; `failed`: a failed write; `raced`: a change that finds a cancelled flush not yet unwound |
| `TriggerEngine` | `leaked`: a fire cancelled in the emit before its `try`; `miscounted`: a count cleared under an active fire |
| `CloudDelivery` | `cut`: messages lost by a replay that was cut short |
| `StateRelay` | `lost`: a change a throttle refused; `retiered`: a key with entries in two tiers; `old`: messages from before the last snapshot still to be read |
| `DeviceLifecycle` | `notes`: *skipped*, a drop told under a Reconnect's mark; *redialed*, a dial over a live connection; *superseded*, a dial of a replaced driver; *late*, a pause that ends over the instance which replaced its own; *crossed*, a request under way with a pause |
| `ProjectApply` | `withdrawn`: tokens of failed applies; `past`: *kept*, the bytes of a failed apply on disk; *unsaved*, the save of a plugin or a setup action that failed; *broken*, a rollback that failed; *crossed*, a save of a configuration the plugin no longer runs |
| `Updater` | `notes`: *torn*, a stop inside the swap; *halved*, a stop that left half a snapshot which passes `is_app_dir_valid`; *refused*, a manual rollback the helper refuses; *deferred*, an update put off; *byHand*, a manual rollback, which keeps the data; *downgrade*, an update to an older version; *stale*, a marker left behind that undoes another version, or a tree that has been up; *raced*, an update begun beside a rollback |

## What modelling showed

Beside the three counterexamples, these are places where the code does something
its documentation or comments do not say, or a team should know.  The models
contain each of them.

*Macros.*  The third start of a cancel group within the 2 s drain of the second:
the second is cancelled while it drains, `_drain_cancelled` swallows that, and it
runs its steps beside the third (`macro_engine.py:267`;
docs/macros-and-triggers.md:242).  Starts that come while a reload waits between
`cancel_all` and `load_macros` run against the swapped definitions.

*Cloud.*  The replay takes everything out of the buffer before it sends it again
with an await at each; a connection lost in between loses the rest
(`agent.py:1291`, against the comment above it).  A state batch refused by a
throttle is dropped and its sender does not ask.

*Devices.*  A drop in the start-up of a manual Reconnect finds its mark and leaves
the device without retries (`device_manager.py:3166`;
docs/devices-and-drivers.md:206 says it is retried as long as it is in the project).
A pause whose disconnect is overtaken by a project save that carries the pause to
a new instance ends late, and writes *not connected* over that instance's live
connection (`device_manager.py`, `pause_device`); the retry loop then dials over
it.  With a setup action and a superseded bring-up in between, the device can end
down without a retry, 22 steps deep.  No run is large enough to reach that; the
attempt to prove `StrandedOnlyUnderMark` without the exception *late* found it.

*Engine.*  The token of a failed apply is visible to a `GET` during the reconcile
and is minted again (the comment at `engine.py:998` says it never left the
process).  A failed edit leaves its bytes on disk until the next save.  The
restore writes its file outside the lock; a save that waits may overwrite it
before the reload reads it.  A setup action's copy of the project puts back edits
committed while it waits.  `remaining`, captured before a save of pending
settings, may overwrite a newer queue (2185-2211; not modelled).

*Updater.*
1. `rollback()` does not set `_update_in_progress`: an update begun during its
   backup leaves a history that names a version which does not run.
2. An apply that the helper refuses leaves its marker until the next start that
   comes up.  Two starts interrupted in one boot then roll a confirmed version
   back, and its data.  A push of the version that runs is accepted like any
   other (`manager.py:619`), so the marker may also lead from that version to
   itself: then the tree that was up is replaced by `.previous`, if there is one,
   and the data by the backup.
3. The history of such a push says little: a failed download files a *failed* row
   that names the running version, and one the helper refused is taken for a
   success (`manager.py:137`).  A rollback by hand that the helper refuses leaves
   its row a success.
4. A put-off update that is applied later has no marker, so it is not undone, and
   its row stays *failed*.
5. `is_app_dir_valid` looks for `pyproject.toml`, the package's directory and an
   interpreter that runs.  A `cp -a` or `rm -rf` of the snapshot interrupted inside
   `openavc/` or `site-packages` passes; if the artifact is gone or refused at the
   next start, a rollback then promotes it, and no start gets past it any more.
   The comment at `update-helper.sh:68` says that such a copy cannot be promoted.
6. A power cut in the middle of the swap can leave the venv in staging,
   `.previous` overwritten or the helper missing, and nothing repairs that.
7. A version that dies before the check, or whose `engine.start()` only raises, is
   never rolled back.

## The proofs

All theorems hold for every value of the constants (any set of tasks, macros,
fires, triggers, variables, messages, keys, requests, clients, versions, every
project and every bound), under the named assumption of the module: constants
have their types, names that must differ do, what is counted is finite, a cap is
positive.

**MacroEngine_proofs.**  `TypeCorrect`, `RunsAreRegistered`, `SkipIsExclusive`,
`QueueIsExclusive`, `GroupIsPreempted`, `CancellationStopsChain`,
`OutcomesAreTruthful`, `WakeupsAreKept`.  The inductive
invariant (`SafeInv`) adds two things to the properties.  `ChainOK`: the runs of a
task form one chain, every caller is suspended in its "Run Macro" step and has one
callee, and the innermost run is `cur`; without it nothing says that a run which
ends leaves its caller at the call, nor that a cancellation raised at the innermost
run reaches the rest.  `StrayRuns`: a run of a macro that is not loaded was told to
stop by the reload under way, or sat in the queue when its macro went; without it
a reload that brings the macro back would break `GroupPreempts`.  `TallyInv` is for
the outcomes: a run with a failure beneath it has failed itself, was cancelled, or
has a callee that still carries the failure up; `MoveTally` and `PopTally` are the
two things a step can do to that.  `WakeInv` is for the waits: whoever is about to
wait is subscribed, so a change in between makes it ready.

**StatePersister_proofs.**  `PersisterTyped`, `NothingLost`, `ChangesAreScheduled`.
Every operation of the persister keeps `Sound`, a predicate of the record `Now`:
the keys it writes are those it watches, unless it is stopped; whatever is clean
and synced would come back from the file; what is dirty is scheduled.  Each
operation is one lemma; an action is a sequence of operations, so its step
chains their lemmas.  `Present` (watched keys are in the store) and `Orderly` (the
stages of an apply and a restore) are needed for the applies.

**TriggerEngine_proofs.**  `TriggerTyped`, `SkipIsOneFire`, `SelfTriggeringStops`,
`CountComesBack`, `RebuildIsClean`.  `Tallied`: the count of a trigger is the number
of its active fires, at least unless a rebuild forgot some, at most unless one was
cancelled before the `try`.  A step does one of five things to a count and its
fires; the shapes keep the count sound (`ShapeSound`) and every action has one
(`ShapeStep`).  `Anchored`: a fire that is not yet in `execute()` nor cancelled
sits where `stop()` looks, and there is none once `stop()` has looked.

**CloudDelivery_proofs.**  `DeliveryTyped`, `HeldInOnePlace`, `AcksAreTruthful`,
`ContractKept`.  `Counted` keeps the books of a live connection: the cloud has
read what was sent up to `cloudSeq`, the wire holds the numbers from there to
`nextSeq` in order, and a buffered message with a number of this connection is on
the wire or read; `CountedFor` says it of any buffer, so that the eviction and the
replay need it once.  With `PhaseState` (which phase has what connected) an
acknowledgement covers only what was read: while the buffer holds messages of an
older count nothing is on the wire and no acknowledgement is under way.  The
refinement theorem maps `Init` to the contract's `Init` and each action to one of
its steps or to none, by the invariant.

**DeviceLifecycle_proofs.**  `LifecycleTyped`, `BackstopArmed`, `NoOrphans`,
`PauseKept`, `CardKept`, `RetriesKept`.
`Removals`: one removal at a time, it holds the registered instance up to its
disconnect and then none is registered until it registers the next.  `Left`: what
a replaced instance can still have is the connection which the removal is about
to close; a dial that is under way finds the instance gone when it declares itself
(`_discard_if_superseded`), but for a request that had captured it.
`PauseInv`, `ConnectInv`, `CardInv` and `CaredInv` rest on one another, in this
order.  `PauseInv`: while no request crosses a pause (*crossed*), a pause is alone
with what could end it and holds the device from its disconnect on (the mark, no
attempt, no loop); one that is carried to a new instance is handed over with
nothing under way that could end it.  `ConnectInv` says who holds a driver's lock,
which attempt is whose and what the retry loop is doing, for every place of every
coroutine.  `CardInv`: a connection is always shown, and where the card shows one
that is gone a resume is dialing or a disconnect is under way, and either sets the
key.  `CaredInv`: a device that should be up and is down is cared for by the loop,
a drop still to be told, a connect that can still fail and ask for a retry, or a
request that will dial it.  When nothing is under way there is no such coroutine,
which is the property.

**StateRelay_proofs.**  `RelayTyped`, `CacheIsLive`, `MirrorIsTruthful`,
`CloudGoesForward`.  `Tracked(k)`: the entries of a key are in one tier, and the
last of them on the way (batch after flight after snapshot) has the room's value;
when nothing waits to be sent the last unread message about the key has it, and
without one the mirror. `Stages` ties the phases to what can be pending.  Messages
of an earlier connection come before the snapshot, which speaks of every key.
`InLine(k)` orders what there is of a key by age: the mirror and the messages,
then what waits to be sent, then the room; for messages of this connection it is
an order of any two, which makes `NeverBack` a property of every read.  It needs
no exception for throttles: what is refused is only missing.

**ProjectApply_proofs.**  `ApplyTyped`, `RevertsNothing`, `FileIsProject`,
`ProjectIsWhatRuns`.  Four invariants: *Ledger*, every change asked for mints at
most one token more and at most one flusher waits; *Honest*, whoever knows a token
that is not withdrawn holds the project it was current for, but for the plugin's
section while a save of it is under way or failed; *Filed*, what is in place is on
disk, but while a save is under way; *Follows*, each section runs as the project
says, or is still to do, or a setup or save that will say so waits.

**Updater_proofs.**  `UpdaterTyped`, `AlwaysStartable`, `WayBack`,
`UndoneForCause`, `DataGoesWithCode`, `HistoryTold`.  The invariant says by phase
which tree is whole (`Intact`) and which, once half a snapshot was promoted, stays
what it is (`Halted`), that an attempt counted in this OS boot is a start
that crashed (`Cause`), that no tree which has been up is the target of a marker
with another origin (`Ahead`), that the instruction, the marker and the snapshot
name the same update (`Undo`), and which format the data is in when which tree is
to start (`Fits`).  `Told` is for the history: the row and the marker name the
same two versions (`Rowed`); while the row is pending the install is one of the
two, the new one only with the way back (`PendingToo`); what an update to the
version that runs may have changed (`SameToo`); a success is the version
that runs or is being undone (`SuccessToo`), and after a failure nothing can bring
the version in but an update that was put off (`FailedToo`).

Every safety property a passing run checks is a theorem.

**Model-checked only**: every liveness
property (`CancelEnds`, `FireEnds`, `BufferDrains`, `ChangesArrive`, `PauseEnds`,
`SavesEnd`, `CrashLoopEnds`); and the counterexamples.  TLAPS does not prove
liveness under fairness or `ENABLED`, nor results of recursive definitions by
induction over data; none of the modules declares a `RECURSIVE` operator.

**Proved, and checked by no run**: `ActiveRegistered`, `FlushScheduled`,
`AllowIsCapped`, `HeldOnce`, `AckDiscardsReceived`, `PauseHasBackstop`,
`CacheOfLiveKeys`.  They hold for all values, so a small instance adds nothing.

## Not modelled

The models cover the engine's core, which is a small part of the repository by
lines.  The larger part is code whose correctness is in its data and not in its
states: the driver compiler and the protocol drivers (`drivers/avcdriver_semantic.py`,
`configurable.py`, `spec.py`), the simulator, discovery, the audit report, file
formats and migrations, and the web front ends.  A state machine of such code
would say what its lines say.  Three parts do have states worth modelling and are
left for later:

- `CronSchedule`: the poll of schedules, its duplicate guard and the catch-up
  after a pause, over a clock that may jump;
- inter-system communication: peers that find each other and mirror state, an
  unreliable network between two instances of the same code;
- scripts, with their time limits and the reload that unloads them, and the
  ordering of change events after the store's listeners.

## Plan

1. An abstract macro slot (at most one active run under `skip`, a run ends exactly
   once) that `MacroEngine` is shown to implement by a refinement mapping, and
   triggers composed with macros through it; the same for `ProjectApply`'s view of
   the triggers.
2. `CronSchedule` and the inter-system communication.
3. `StateRelay` over `CloudDelivery` itself instead of over its contract.
4. The shutdown's order: the persister stops before scripts and macros do.
5. Properties for the hazards of `PROJECT.json` that have none yet.

## Running

    tlc -workers 2 -config Triggers.cfg MCTriggerEngine
    tlapm TriggerEngine_proofs.tla

Each run takes at most two minutes with two workers, each proof module a few.
