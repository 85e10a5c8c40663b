# A verification development for cake-autorate-rs

cake-autorate-rs keeps CAKE shapers on OpenWrt routers at the right rate. Most of
its code is not the rate controller but the machinery around it: calibration jobs
that borrow the live shaper and must give it back, a coordinator daemon that
journals those jobs, and configuration transactions that must survive crashes and
other writers. This directory models that machinery in TLA+, checks it with TLC and
proves the central invariants with TLAPS.

Paths below are relative to `package/cake-autorate-rs/src/src/`.

## 1. The system

### Processes and what they share

| process | code | owns |
|---|---|---|
| instance daemon, one per uplink | `main.rs` | the rate controller, the override *driver* (`operations/autotune_runtime_driver.rs`), the kernel's queueing disciplines |
| coordinator (`calibrationd`) | `operations/coordinator.rs` | job journals, leases, worker processes |
| workers | `operations/full_autotune.rs`, `speedtest.rs`, `rating.rs` | one measurement each |
| lifecycle commands (start, stop, reload) | `operations/service_lifecycle.rs` | configuration transactions, controller input batches |
| other programs | libuci, LuCI, an editor | `/etc/config/*` |

They share files only: five record files per instance (permit, control, restore
intent, acknowledgement, checkpoint), a journal per job, and the configuration
directory with its transaction journal. No lock covers the record files.

### Inventory

State, operations and what makes each part hard; the full list, with the parts that
are left out and why, is `components` in `PROJECT.json`.

- **Runtime override** (`autotune_runtime*.rs`). State: the tracker's phase, the
  stage in the checkpoint, the five records, the live topology. Operations: accept,
  apply in stages, tick, restore in stages, re-arm after a route recovery, reject,
  finalise, reconcile at start-up. Hard: three writers without a lock, a crash between
  a kernel change and the record of it, route flaps, deadlines.
- **Coordinator** (`coordinator.rs`, `journal.rs`, `lease.rs`, `state.rs`,
  `process.rs`). State: journals on disk and in memory, dispositions, leases, worker
  processes. Operations: admit, prune, dispatch, arm, spawn, attach, permit, arm the
  runtime, cancel, budget stop, monitor, recover, settle, restart. Hard: a crash
  between any two publications, a journal write that fails, a worker that outlives the
  coordinator, a cancellation that races an exit.
- **UCI transaction** (`uci_transaction.rs`). State: two public files, their swap
  files, the journal directory. Operations: prepare, publish, roll back, recover,
  accept, retire. Hard: two files and no common atomic step, writers that honour the
  file lock and writers that do not.
- **Native Apply, bootstrap Apply and runtime owner**: crash-safe transactions over
  UCI, service and runtime. Not modelled yet.
- **Service lifecycle, reload, controller batches**: order of publication,
  generations. Not modelled yet, except for their calls into the UCI transaction.
- **Scheduler and traffic budgets**: cursor, reservations, ledger over reboots. Not
  modelled yet.
- **Rate controller, adaptive ceiling, latency baseline, pinger recovery, transport
  quality**: sequential state machines over samples. Not modelled yet.
- **Probe owners and route rules, traffic classifier, MQTT publisher, capture
  counters**: ownership of external resources, queues, wrapping counters. Not modelled
  yet.
- **Text and kernel formats** (UCI text, netlink, protocol encoding, logs, LuCI): pure
  functions or I/O; not modelled.

## 2. Modules

| module | models | run by |
|---|---|---|
| `RuntimeOverride` | driver, worker side and coordinator side of one instance's override | `MCRuntimeOverride` |
| `RuntimeOverrideDriverProofs` | its inductive invariant, kept by the driver | |
| `RuntimeOverrideProofs` | its theorems | |
| `JobCoordinator` | coordinator with journals, leases, workers; overrides as observed | `MCJobCoordinator` |
| `JobCoordinatorProofs` | its theorems on journals and overrides | |
| `JobCoordinatorLeaseProofs` | its theorems on workers and leases | |
| `UciTransaction` | one configuration directory, the transaction and its other writers | `MCUciTransaction` |
| `UciTransactionPublishProofs` | its inductive invariant, kept by preparation and publication | |
| `UciTransactionRecoveryProofs` | the invariant kept by rollback, recovery and retirement | |
| `UciTransactionProofs` | its theorems | |

Operators named `...Bug` stand before the operator they distort. They are plausible
mistakes in the code behind it; with any of them in place one of the properties
fails, which shows that the property depends on that code.

### RuntimeOverride

`store` holds the five records. `phase`, `session`, `reason` are the tracker, `ipc`
is where the driver's thread stands and `view` what it read there; `sqm` and `ifb`
are the kernel. The driver reads permit, control and intent at the start of a poll
(`PollRead`) and acts on them later, one step per record write and per kernel change,
so worker, coordinator and crashes come in between. `PollIdle`, `PollActive`, `Tick`,
`PollRestoring`, `PollRestored` are the branches of `RuntimeOverrideDriver::poll`,
`ApplyStep`/`ApplyMark` and `RestoreRemove`/`RestoreBaseline`/`RestoreMark` the staged
execution, `Finalize` the three removals at the end, `Reconcile` the start-up. An idle
driver refuses a control for its authority, its worker, the route (`PollIdle`) or the
SQM configuration (`IdleDrift`) and stays idle, so a later poll may accept the same
control; `readmitted` is history and records that this happened. A restoration may be
found blocked again and again (`StillBlocked`) before it is retried (`RetryRestore`).
`PublishControl` ... `FinishRestored` are the worker, `RecoveryRead` ...
`RecoverySettle` the recovery poll of the coordinator.

Abstracted: a control is its job and sequence number; rates, interfaces and
fingerprints are left out; the baseline is "managed". The coordinator reads its five
records in one step: with the worker gone only the driver writes, and no order of its
writes makes a mixed read differ from a snapshot. A worker that publishes its next
control does so after the acknowledgement of the last one; every stage of a
calibration that publishes one has the same form. Absent baselines (bootstrap) share
the driver but not this actuator and are left out; probe retirement and route-pin
clean-up only delay a step.

### JobCoordinator

One thread, so a handler is one action, except that each file it publishes and each
process it starts is a step of its own (`at` is the place inside the handler). `disk`
and `mem` are kept apart because the code moves memory ahead of disk in places and
because a write may fail (`Writes`). `Crash` forgets memory; `Bind` scans, reconciles
and rebuilds the leases. Per instance only the stage of the override that the
coordinator can observe is kept; the full protocol is `RuntimeOverride`. `orphaned`
are the jobs whose runtime permit was issued by a coordinator that is gone: their
journals are adopted by the new generation, the Apply manifest of an Auto-Tune still
names the old one, and so a complete Auto-Tune among them ends Failed instead of
ReviewReady.

Abstracted: a failing journal write fails before its rename (the state directory is
tmpfs); journals of an earlier boot do not exist for the same reason; a crash in the
middle of `Bind` is left out, as running it again has the same result; a permit that
cannot be published by `resume_native_workers` is left out; so is a failed write of an
adopted journal. A review, manifest or public result that fails to verify for another
reason ends the job like a worker that failed.

### UciTransaction

A version is the identity of one inode with its bytes. `public` and `swap` are the
files, `place` and `files` the journal directory, `before`, `after`, `changed` what it
says. One lifecycle command runs at a time (the workspace lock), with a step wherever
another writer, a crash or a refused runtime check can come in between: `open` and
`lock` are apart because the file may be replaced in between, and check, exchange and
inspection of what was displaced are apart for each file. `Fault` is a crash of the
command at any step or, in a publication, a call that fails and is answered by the
rollback in the same process. `Commit` is any other program. It takes the lock of the
file it replaces, as libuci does, or none, as a plain rename does; a writer that waited
for the lock of a file that was replaced meanwhile counts as one that takes none.
`libuci`, `foreign` and `replaced` are history, reset when a transaction begins.

## 3. Checked properties

Deadlock is not checked in any run: an idle system with exhausted bounds may stop.

### Runs that pass

- **override_safety** (2 jobs, 2 controls per job, one crash of either daemon, one
  route flap, one kernel fault; symmetric in the jobs). `DurableStageCoversLive`: the
  stage on disk always covers what is live in the kernel. `OverrideIsCheckpointed`: a
  stopped or replaced shaper always has a checkpoint of its owner. `AckIsTruthful`:
  APPLIED and RESTORED mean it. `SettledJobIsReleased`: a settled job owns no permit,
  checkpoint, session or device. `NoApplyAfterIntent`: once the restore intent is
  durable nothing is applied. Two jobs are needed for a record of one to meet the
  driver's session of the other; one crash, flap and fault each already combine with
  every step. `OverrideIsCheckpointed`, `AckIsTruthful` and `SettledJobIsReleased` say
  nothing of a behaviour in which the driver went on with a request it had refused
  before (`readmitted`): there they fail, which is `override_race`.
  `DurableStageCoversLive` and `NoApplyAfterIntent` have no such exception.
- **override_liveness** (one control, no restarts). `GoneWorkerIsSettled`: the job of a
  worker that is gone is settled, unless the driver stopped at an unsafe runtime or went
  on after a refusal.
- **coordinator_safety** (an Auto-Tune, a Speed Test and a Rating job; the Auto-Tune and
  the Speed Test share an uplink, the Speed Test and the Rating an instance; one crash,
  one failing write, retention of one job). `MutationIsJournalled`: a non-idle override
  belongs to an unfinished journal that says so. `OneTrafficWorker`: measurements never
  overlap while no write has failed or the coordinator restarted at most once (see
  below). `UplinkExclusion`: unfinished jobs share no instance and no uplink.
  `OnlyExitSettles`: a job with a working worker is unfinished. `TerminalIsFinal`: a
  terminal journal never changes.
- **coordinator_liveness** (Auto-Tune and Speed Test, one crash, no failing write).
  `EveryJobSettles`.
- **publication** (six versions: two originals, then for instance two candidates and
  two commits, or two transactions and two commits; two crashes or failing calls).
  `CandidateIsUndoable`: READY is durable and the displaced version is in the journal
  whenever a candidate is public. `NeverHalfPublished`: a transaction that is decided
  does not leave one original beside one candidate. `LockedCommitIsKept`: with writers
  that take the lock, no commit is lost. `RacingCommitIsReturned`: without a crash a
  single writer that takes none loses nothing either. `RecoveryFinishes`: with writers
  that take the lock, no interrupted transaction blocks the service for ever.

The bounds of `OneTrafficWorker` are needed. With two restarts and a failed write two
workers can be active at once, on different uplinks: job A is Starting at a crash; the
next start finds it dead but cannot write its end, so it keeps its journal and gets no
lease; job B is dispatched and measures; A is cancelled, its Cancelling record is
written, and the coordinator dies before the handler ends. The following start reads A
as queued with its heavy bit (`scan_one`, `journal.rs:1388-1436`) and may give it the
heavy lease instead of B; A's preflight fails, the lease is free, and job C is
dispatched beside B.

### Fairness

`RuntimeOverride`: weak fairness of the driver's poll loop and of the coordinator's
tick; both are timer loops. Strong fairness of the retry of a restoration: a blocker (a
queueing discipline in transition) that is observed on every poll is gone on one of
them. This is a fact about the kernel and not about the code. Nothing is assumed of the
worker. `JobCoordinator`: weak fairness of the coordinator's ticks, of the driver, and
of the exit of each worker (a worker has a deadline and is killed by its process group
after a cancellation). `UciTransaction`: a running command goes on, and the next
lifecycle command begins with the recovery.

### Runs that show a disagreement

Each is a `findings` entry with the quoted line.

- **override_advance**: worker publishes control n+1 while the driver restores n, then
  disappears: the driver answers REJECTED for ever and the coordinator waits.
- **override_leftover**: a crash after the first of the three removals of
  `finalize_restored`, with the intent still there, makes the next start latch unsafe.
- **override_race**: refused by an idle driver (a drift of the SQM configuration, one it
  cannot read, or of the route), accepted on a later poll, and cleared in between by a
  coordinator that read the rejection: an override without a checkpoint
  (`EveryOverrideIsCheckpointed`, the property without its exception).
- **override_restart**: a restart over a live raw topology recovers SQM before the
  driver exists, and waits or latches.
- **override_withdraw**: a coordinator crash between the removal of control and permit
  of a restored request; its next generation finds no restored control to withdraw, the
  driver waits for the permit to go, and the job stays in recovery.
- **coordinator_cancel**: a complete result during Cancelling leaves the job
  Cancelling until the coordinator restarts.
- **publication_lost**: a commit without a lock in the gap of a rollback's exchange,
  followed by a crash, is deleted with the journal. A writer that holds the lock of the
  file it replaces is not affected (`LockedCommitIsKept`).

Also seen and not the subject of a run: a REJECTED published after the coordinator
cleared the store stays for the next job to trip over; a job that was cancelled before a
coordinator restart ends Failed when its worker exited meanwhile; the overlap of two
measurements described above.

## 4. Proofs

For every set of jobs, every constant and every bound, from the named assumptions on
the constants only.

- `RuntimeOverrideProofs`: `TypeCorrect`, `DurableStage`. `DurableStageCoversLive` is
  not inductive: checkpoint and kernel never change in one step. `IInv` adds what the
  driver relies on in between: the phase at each place of its code, that its copy of
  the checkpoint is the one on disk if one still is, that an idle or restored driver
  leaves no private topology, and what the kernel looks like before a stage is marked.
- `JobCoordinatorProofs`: `TypeCorrect`, `MutationJournalled`, `TerminalFinal`. `IInv`
  relates memory and disk (`MemoryAgrees`), says that queued and ended journals own no
  runtime, what each disposition implies, and what an interrupted handler still relies
  on (`HandlerContext`). `TerminalFinal` is an action property from the same invariant.
- `JobCoordinatorLeaseProofs`: `OneWorker`, `UplinkExclusive`, `ExitSettles`. None of
  the three is inductive: leases live in memory, workers outlive it, and a restart
  rebuilds the one from journals that may lag behind the other. `WInv` adds to `IInv`
  that a worker which works, or holds the permit to, is named by its journal with the
  heavy bit (`WorkIsJournalled`, `PermitIsEarned`, `HeavyIsJournalled`), that a job
  which a start found dead has no worker (`DeadIsIdle`), that local leases follow the
  unfinished jobs and a gap in the lease table closes admission (`LocalLeases`), and,
  within the bounds of `OneTrafficWorker`, that at most one job with the heavy bit is
  not such a dead one (`HeavyLease`).
- `UciTransactionProofs`: `TypeCorrect`, `CandidateUndoable`, `NeverHalf`,
  `LockedCommitKept`. A public file and its swap file change in one step, but the
  journal's marks do not, and other writers come in between. `IInv` says what the
  journal holds at each place of the code (`JournalOfPlace`), that a public candidate
  has left its swap file (`CandidateIsOnce`), that a rollback covers every member that
  still shows its candidate (`RestoreCovers`), that a pair about to be decided is whole
  (`WholeBeforeDecision`), and, while every writer locks, that a file about to be
  exchanged is the original or the candidate and is locked (`ExchangedIsLocked`). The
  fact that makes it inductive is `VersionsAreOld`: a commit is a new version, so an
  original or a candidate becomes public only by an exchange.

Only model-checked: all liveness (outside the prover's reach), `AckIsTruthful`,
`OverrideIsCheckpointed`, `SettledJobIsReleased`, `NoApplyAfterIntent` and
`RacingCommitIsReturned`.

## 5. Plan

1. `NativeApply`: phases, journal, resume and roll-back, refining an abstract "old or
   new configuration" specification; `UciTransaction` against the same abstract
   specification.
2. `ServiceLifecycle`: reload publication, controller batches and generations,
   composed with `UciTransaction`.
3. `Scheduler`: cursor, reservations and ledger with crash between store and launch;
   proof that no budget is spent twice. `Deadline` anchors.
4. `BootstrapOwner` and bootstrap Apply recovery; absent baselines in `RuntimeOverride`.
5. Controller: `main.rs` rate control, adaptive ceiling, latency baseline, pinger
   recovery, transport quality, as operators checked against reference definitions.
6. Probe owners and route rules, capture counters, traffic classifier, MQTT publisher.
7. Proofs: the record properties of `RuntimeOverride`; refinement of `JobCoordinator`
   to an abstract calibration service.
