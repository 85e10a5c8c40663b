--------------------------- MODULE JobCoordinator ---------------------------
(***************************************************************************)
(* The calibration coordinator (operations/coordinator.rs) with the two    *)
(* things it keeps: the durable job journals (operations/journal.rs) and   *)
(* the in-memory lease table (operations/lease.rs).                        *)
(*                                                                         *)
(* One thread runs the coordinator, so a handler is one action; a handler  *)
(* that publishes several files, or starts a process, is one action per    *)
(* publication ("at" says where it stands), because workers, instance      *)
(* daemons and a crash of the coordinator come in between.  Around it run  *)
(* the workers (parked until their operation permit appears) and, per      *)
(* instance, the runtime override that RuntimeOverride.tla models in full; *)
(* here only the stage of it that the coordinator can observe.             *)
(*                                                                         *)
(* Jobs on a target that is not configured yet (AbsentBootstrap) need a    *)
(* second supervised process and are not in this module.                   *)
(***************************************************************************)
EXTENDS Naturals, FiniteSets

CONSTANTS
  Jobs,         \* job ids a client may submit
  Kind,         \* [Jobs -> Kinds]
  Instance,     \* [Jobs -> instance names]
  LocalKeys,    \* [Jobs -> set of local lease keys]; one is the instance
  Heavy,        \* the global heavy-traffic lease key
  None,         \* no journal; no job
  Debris,       \* a job directory whose state file was never written
  Retention,    \* JOURNAL_RETENTION_TARGET
  MaxRestarts,  \* bound: coordinator crashes
  MaxFaults     \* bound: writes that fail

Kinds == {"rating", "speedtest", "autotune"}

ASSUME JobsAssumption ==
  /\ Kind \in [Jobs -> Kinds]
  /\ \A j \in Jobs : Instance[j] \in LocalKeys[j] /\ Heavy \notin LocalKeys[j]
ASSUME LimitAssumption ==
  Retention \in Nat /\ MaxRestarts \in Nat /\ MaxFaults \in Nat

VARIABLES
  disk,     \* the journals on disk
  mem,      \* the journals the coordinator works with
  disp,     \* JournalDisposition of each job
  leases,   \* LeaseTable.jobs: the keys each job holds
  pending,  \* cancellations: jobs whose worker was told to stop
  issues,   \* startup_issues is not empty
  at,       \* where the running handler stands, and for which job
  worker,   \* the worker process of each job
  permit,   \* the operation permit file of each job exists
  result,   \* the terminal file the worker left
  runtime,  \* per instance: whose override, and how far it is
  orphaned, \* jobs that hold the runtime permit of a coordinator that is gone
  restarts, faults

vars == <<disk, mem, disp, leases, pending, issues, at, worker, permit, result,
          runtime, orphaned, restarts, faults>>

Terminals == {"ReviewReady", "Completed", "Failed", "Cancelled"}
States == {"Queued", "Starting", "Running", "Cancelling", "Recovering"}
            \cup Terminals
Diagnostics == {"none", "stopped", "owned", "cancelled", "recovery"}

\* recovery_required always equals runtime_mutated; worker_run_id is set from
\* Starting on.
Journal == [state : States, process : BOOLEAN, mutated : BOOLEAN,
            heavy : BOOLEAN, diag : Diagnostics]
ASSUME NoJournalAssumption ==
  None \notin Jobs \cup Journal /\ Debris \notin Journal

Dispositions == {"Queued", "Launching", "LiveProcess", "RecoveryRequired",
                 "DeadBeforeMutation", "Settled"}
Places == {"idle", "down", "arm", "failQueued", "spawn", "attach", "launchFail",
           "permit", "exited", "rtPermit", "opPermit", "failArmed", "cancelExit"}
Stages == {"idle", "permit", "control", "rejected", "applied", "restoring",
           "restored", "withdrawn"}
Results == {"none", "complete", "cancelled", "failed"}
Instances == {Instance[j] : j \in Jobs}
Keys == {Heavy} \cup UNION {LocalKeys[j] : j \in Jobs}

Idle == [place |-> "idle", job |-> None]
IsJournal(r) == r \notin {None, Debris}
\* request_requires_native_runtime
OwnsRuntime(j) == Kind[j] # "rating"
Live(j) == worker[j] \in {"parked", "active"}

----------------------------------------------------------------------------
(* The journal's transitions: each returns the new record.                 *)

\* state.rs validate_transition
MayBecome(from, to) ==
  to \in CASE from = "Queued"     -> {"Starting", "Cancelling", "Failed", "Cancelled"}
           [] from = "Starting"   -> {"Running", "Cancelling", "Recovering",
                                      "Failed", "Cancelled"}
           [] from = "Running"    -> {"Cancelling", "Recovering"} \cup Terminals
           [] from = "Cancelling" -> {"Recovering", "Failed", "Cancelled"}
           [] from = "Recovering" -> Terminals
           [] OTHER               -> {}

Queued == [state |-> "Queued", process |-> FALSE, mutated |-> FALSE,
           heavy |-> FALSE, diag |-> "none"]

\* the terminal record; its diagnostic code no longer steers anything
Terminated(next) ==
  [state |-> next, process |-> FALSE, mutated |-> FALSE, heavy |-> FALSE,
   diag |-> "none"]

RequireRecovery(r, diag) ==
  [r EXCEPT !.state = "Recovering", !.process = FALSE, !.mutated = TRUE,
            !.diag = diag]

\* journal.rs scan_one, for a journal of the current boot
ScanOne(r, live) ==
  IF r.state \in Terminals
  THEN IF r.mutated THEN "RecoveryRequired" ELSE "Settled"
  ELSE IF r.process
  THEN IF live THEN "LiveProcess"
       ELSE IF r.mutated THEN "RecoveryRequired" ELSE "DeadBeforeMutation"
  ELSE IF r.mutated THEN "RecoveryRequired"
  ELSE IF r.state = "Starting" THEN "DeadBeforeMutation" ELSE "Queued"

\* settle_native_after_exit: the terminal state a job that never touched the
\* runtime ends in, from the worker's terminal file or the caller's fallback; a
\* stop for owned traffic is preserved
ExitState(j, fallback) ==
  CASE mem[j].diag = "owned"   -> "Failed"
    [] result[j] = "complete"  -> IF OwnsRuntime(j) THEN "Failed" ELSE "Completed"
    [] result[j] = "cancelled" -> "Cancelled"
    [] result[j] = "failed"    -> "Failed"
    [] OTHER                   -> fallback

\* Mutant: the worker-facing outcome of a budget stop is stored as a state.
RestoredStateBug(j) ==
  CASE mem[j].diag = "owned"   -> "inconclusive"
    [] result[j] = "complete"  -> "ReviewReady"
    [] OTHER -> "Failed"

\* settle_native_runtime_recovery with preserve_owned_traffic_stop and
\* native_runtime_terminal_diagnostic.  The Apply manifest of an Auto-Tune names
\* the coordinator that issued the permit, a journal the one that adopted it: the
\* review of an orphaned job does not verify.
RestoredState(j) ==
  CASE mem[j].diag = "owned"   -> "Failed"
    [] result[j] = "complete"  -> IF Kind[j] # "autotune" THEN "Completed"
                                  ELSE IF j \in orphaned THEN "Failed" ELSE "ReviewReady"
    [] result[j] = "cancelled" -> "Cancelled"
    [] result[j] = "failed"    -> "Failed"
    [] OTHER -> IF mem[j].diag = "cancelled" THEN "Cancelled" ELSE "Failed"

----------------------------------------------------------------------------
(* Building blocks.                                                        *)

\* the file system lets the write succeed, or it fails and the fault counts
Writes(ok) ==
  /\ ok \/ faults < MaxFaults
  /\ faults' = IF ok THEN faults ELSE faults + 1

\* JournalStore::update followed by the assignment of the in-memory journal
Persist(j, r) ==
  /\ disk' = [disk EXCEPT ![j] = r]
  /\ mem' = [mem EXCEPT ![j] = r]

\* a job ends: terminal journal, disposition, and LeaseTable::release, which
\* fails for a job that holds nothing
Settle(j, next) ==
  /\ Persist(j, Terminated(next))
  /\ disp' = [disp EXCEPT ![j] = "Settled"]
  /\ issues' = (issues \/ leases[j] = {})
  /\ leases' = [leases EXCEPT ![j] = {}]

Unsettled == UNCHANGED <<disk, mem, disp, leases, issues>>

\* settle_native_after_exit
SettleAfterExit(j, fallback, ok) ==
  IF MayBecome(mem[j].state, ExitState(j, fallback)) /\ ok
  THEN /\ Settle(j, ExitState(j, fallback))
       /\ permit' = [permit EXCEPT ![j] = FALSE]
  ELSE Unsettled /\ UNCHANGED permit

\* mark_recovery_required_with_code
EnterRecovery(j, diag, ok) ==
  IF MayBecome(mem[j].state, "Recovering") /\ ok
  THEN /\ Persist(j, RequireRecovery(mem[j], diag))
       /\ disp' = [disp EXCEPT ![j] = "RecoveryRequired"]
       /\ UNCHANGED <<leases, issues>>
  ELSE issues' = TRUE /\ UNCHANGED <<disk, mem, disp, leases>>

\* mark_recovery_required
MarkRecovery(j, ok) ==
  EnterRecovery(j, CASE mem[j].diag = "owned"         -> "owned"
                     [] mem[j].state = "Cancelling" -> "cancelled"
                     [] OTHER                       -> "recovery", ok)

\* finish_live_cancellation
FinishCancellation(j, ok) ==
  /\ pending' = pending \ {j}
  /\ IF mem[j].mutated
     THEN MarkRecovery(j, ok) /\ UNCHANGED permit
     ELSE SettleAfterExit(j, IF mem[j].diag = "none" THEN "Cancelled" ELSE "Failed", ok)

At(place) == at.place = place
Goto(place, j) == at' = [place |-> place, job |-> j]
Done == at' = Idle

\* begin_live_cancellation: SIGTERM to a live worker, or finish at once
BeginCancellation(j) ==
  IF Live(j)
  THEN pending' = pending \cup {j} /\ Done
  ELSE Goto("cancelExit", j) /\ UNCHANGED pending

Free(keys) == \A k \in Jobs : leases[k] \cap keys = {}

\* Mutant: admission does not wait for startup issues to be cleared.
AdmissionAvailableBug == \A k \in Jobs : disp[k] # "RecoveryRequired"

AdmissionAvailable ==
  ~issues /\ \A k \in Jobs : disp[k] # "RecoveryRequired"

\* prune_settled_history: settled journals above the target, oldest first; the
\* age is the client's clock, so any choice among them
Prunable(d, held, busy) ==
  LET kept   == {k \in Jobs : d[k] \in Dispositions}
      cands  == {k \in kept : d[k] = "Settled" /\ held[k] = {} /\ k \notin busy}
      excess == IF Cardinality(kept) > Retention
                THEN Cardinality(kept) - Retention ELSE 0
      count  == IF Cardinality(cands) < excess THEN Cardinality(cands) ELSE excess
  IN {old \in SUBSET cands : Cardinality(old) = count}

Without(f, old, value) == [k \in Jobs |-> IF k \in old THEN value ELSE f[k]]

----------------------------------------------------------------------------
(* Client requests.                                                        *)

\* start_job: prune, take the local leases all or none, create the journal.  A
\* creation that fails leaves the job directory behind.
StartJob(j, outcome) ==
  /\ At("idle") /\ AdmissionAvailable /\ disp[j] = "absent"
  /\ outcome = "refused" <=> ~(Free(LocalKeys[j]) /\ disk[j] = None)
  /\ Writes(outcome # "failed")
  /\ \E old \in Prunable(disp, leases, pending) :
       LET put(f, gone, new) == [Without(f, old, gone) EXCEPT ![j] = new]
           created == outcome = "created"
       IN /\ disk' = put(disk, None, CASE outcome = "created" -> Queued
                                       [] outcome = "failed"  -> Debris
                                       [] outcome = "refused" -> disk[j])
          /\ mem' = put(mem, None, IF created THEN Queued ELSE mem[j])
          /\ disp' = put(disp, "retired", IF created THEN "Queued" ELSE "absent")
          /\ leases' = [leases EXCEPT ![j] = IF created THEN LocalKeys[j] ELSE {}]
  /\ UNCHANGED <<pending, issues, at, worker, permit, result, runtime,
                 orphaned, restarts>>

\* Mutant: cancel does not return early for a job that already ended.
CancelJobBug(j) ==
  /\ At("idle") /\ disp[j] \in {"Queued", "Settled"}
  /\ Settle(j, "Cancelled")
  /\ UNCHANGED <<pending, at, worker, permit, result, runtime, orphaned,
                 restarts, faults>>

\* cancel_job: a queued job ends here; another one's worker is stopped
CancelJob(j) ==
  /\ At("idle") /\ disp[j] \in Dispositions
  /\ mem[j].state \in {"Queued", "Starting", "Running", "Cancelling"}
  /\ \/ /\ mem[j].state = "Queued"
        /\ Settle(j, "Cancelled")
        /\ UNCHANGED <<pending, at>>
     \/ /\ mem[j].state \in {"Starting", "Running"}
        /\ Persist(j, [mem[j] EXCEPT !.state = "Cancelling"])
        /\ IF mem[j].process THEN BeginCancellation(j)
           ELSE Goto("cancelExit", j) /\ UNCHANGED pending
        /\ UNCHANGED <<disp, leases, issues>>
     \/ /\ mem[j].state = "Cancelling" /\ mem[j].process /\ j \notin pending
        /\ BeginCancellation(j)
        /\ Unsettled
  /\ UNCHANGED <<worker, permit, result, runtime, orphaned, restarts, faults>>

----------------------------------------------------------------------------
(* Dispatch of a queued job.                                               *)

\* fail_queued_before_mutation
FailQueued(j, ok) ==
  /\ IF MayBecome(mem[j].state, "Failed") /\ ok
     THEN Settle(j, "Failed")
     ELSE issues' = TRUE /\ UNCHANGED <<disk, mem, disp, leases>>
  /\ UNCHANGED <<pending, worker, permit, result, runtime, orphaned, restarts>>

\* runtime_preflight_ready finds the target unsafe or the deadline expired
PreflightFails(j, ok) ==
  /\ At("idle") /\ disp[j] = "Queued"
  /\ Writes(ok) /\ FailQueued(j, ok) /\ UNCHANGED at

\* dispatch_next_queued: the preflight passed; acquire_heavy_lease_if_needed
\* writes the journal first and then commits the lease table
Dispatch(j, ok) ==
  /\ At("idle") /\ disp[j] = "Queued"
  /\ mem[j].heavy \/ Free({Heavy})
  /\ Writes(ok)
  /\ IF mem[j].heavy
     THEN ok /\ Goto("arm", j) /\ UNCHANGED <<disk, mem, leases, issues>>
     ELSE IF ok /\ mem[j].state = "Queued"
     THEN /\ Persist(j, [mem[j] EXCEPT !.heavy = TRUE])
          /\ leases' = [leases EXCEPT ![j] = @ \cup {Heavy}]
          /\ Goto("arm", j) /\ UNCHANGED issues
     ELSE issues' = TRUE /\ UNCHANGED <<disk, mem, leases, at>>
  /\ UNCHANGED <<disp, pending, worker, permit, result, runtime, orphaned, restarts>>

\* dispatch_native_worker up to the Starting record
Arm(j, ok) ==
  /\ Writes(ok)
  /\ IF MayBecome(mem[j].state, "Starting") /\ ok
     THEN /\ Persist(j, [mem[j] EXCEPT !.state = "Starting"])
          /\ disp' = [disp EXCEPT ![j] = "Launching"]
          /\ Goto("spawn", j)
     ELSE Goto("failQueued", j) /\ UNCHANGED <<disk, mem, disp>>
  /\ UNCHANGED <<leases, pending, issues, worker, permit, result, runtime,
                 orphaned, restarts>>

\* ManagedChild::spawn
Spawn(j, ok) ==
  /\ Writes(ok)
  /\ worker' = IF ok THEN [worker EXCEPT ![j] = "parked"] ELSE worker
  /\ Goto(IF ok THEN "attach" ELSE "launchFail", j)
  /\ UNCHANGED <<disk, mem, disp, leases, pending, issues, permit, result,
                 runtime, orphaned, restarts>>

\* the Running record with the worker's identity; a failure stops the child
Attach(j, ok) ==
  /\ Writes(ok)
  /\ IF ok
     THEN /\ Persist(j, [mem[j] EXCEPT !.state = "Running", !.process = TRUE])
          /\ disp' = [disp EXCEPT ![j] = "LiveProcess"]
          /\ IF OwnsRuntime(j) THEN Done ELSE Goto("permit", j)
          /\ UNCHANGED worker
     ELSE /\ worker' = [worker EXCEPT ![j] = "exited"]
          /\ Goto("launchFail", j)
          /\ UNCHANGED <<disk, mem, disp>>
  /\ UNCHANGED <<leases, pending, issues, permit, result, runtime, orphaned, restarts>>

\* settle_native_launch_failure
LaunchFailure(j, ok) ==
  /\ Writes(ok)
  /\ IF ok THEN Settle(j, "Failed")
     ELSE issues' = TRUE /\ UNCHANGED <<disk, mem, disp, leases>>
  /\ Done
  /\ UNCHANGED <<pending, worker, permit, result, runtime, orphaned, restarts>>

\* the operation permit of a job that owns no runtime; a failure stops the child
PublishPermit(j, ok) ==
  /\ Writes(ok)
  /\ IF ok
     THEN permit' = [permit EXCEPT ![j] = TRUE] /\ Done /\ UNCHANGED <<worker, result>>
     ELSE /\ worker' = [worker EXCEPT ![j] = "exited"]
          /\ \E r \in IF Live(j) THEN {"none", "cancelled"} ELSE {result[j]} :
               result' = [result EXCEPT ![j] = r]
          /\ Goto("exited", j) /\ UNCHANGED permit
  /\ UNCHANGED <<disk, mem, disp, leases, pending, issues, runtime, orphaned, restarts>>

\* ... and the rest of that handler: settle_native_after_exit
SettleStopped(j, ok) ==
  /\ Writes(ok) /\ SettleAfterExit(j, "Failed", ok) /\ Done
  /\ UNCHANGED <<pending, worker, result, runtime, orphaned, restarts>>

----------------------------------------------------------------------------
(* Runtime-owning jobs: the durable mutation bit, then the two permits.    *)

AwaitsRuntime(j) ==
  /\ At("idle") /\ OwnsRuntime(j) /\ disp[j] = "LiveProcess"
  /\ mem[j].state = "Running" /\ ~mem[j].mutated /\ Live(j)

\* Mutant: the mutation bit is set in memory and not written before the permit.
ArmRuntimeBug(j) ==
  /\ AwaitsRuntime(j) /\ runtime[Instance[j]].stage = "idle"
  /\ mem' = [mem EXCEPT ![j].mutated = TRUE]
  /\ Goto("rtPermit", j)
  /\ UNCHANGED <<disk, disp, leases, pending, issues, worker, permit, result, runtime,
                 orphaned, restarts, faults>>

\* advance_pending_runtime_permit: readiness attested and the store idle
ArmRuntime(j) ==
  /\ AwaitsRuntime(j) /\ runtime[Instance[j]].stage = "idle"
  /\ mem[j].process /\ mem[j].heavy
  /\ Persist(j, [mem[j] EXCEPT !.mutated = TRUE])
  /\ Goto("rtPermit", j)
  /\ UNCHANGED <<disp, leases, pending, issues, worker, permit, result, runtime,
                 orphaned, restarts, faults>>

\* stop_parked_runtime_worker: unsafe readiness, a store in use, a failed write
StopParked(j) ==
  /\ AwaitsRuntime(j)
  /\ Persist(j, [mem[j] EXCEPT !.state = "Cancelling", !.diag = "stopped"])
  /\ BeginCancellation(j)
  /\ UNCHANGED <<disp, leases, issues, worker, permit, result, runtime,
                 orphaned, restarts, faults>>

PublishRuntimePermit(j, ok) ==
  /\ Writes(ok)
  /\ runtime' = IF ok THEN [runtime EXCEPT ![Instance[j]] = [job |-> j, stage |-> "permit"]]
                ELSE runtime
  /\ Goto(IF ok THEN "opPermit" ELSE "failArmed", j)
  /\ UNCHANGED <<disk, mem, disp, leases, pending, issues, worker, permit,
                 result, orphaned, restarts>>

PublishOperationPermit(j, ok) ==
  /\ Writes(ok)
  /\ permit' = IF ok THEN [permit EXCEPT ![j] = TRUE] ELSE permit
  /\ IF ok THEN Done ELSE Goto("failArmed", j)
  /\ UNCHANGED <<disk, mem, disp, leases, pending, issues, worker, result,
                 runtime, orphaned, restarts>>

\* fail_after_runtime_armed: SIGTERM, then recovery without waiting for the exit
FailAfterArmed(j, ok) ==
  /\ Writes(ok) /\ EnterRecovery(j, "recovery", ok) /\ Done
  /\ UNCHANGED <<pending, worker, permit, result, runtime, orphaned, restarts>>

----------------------------------------------------------------------------
(* Workers that stop, and recovery.                                        *)

\* monitor_running_workers
Monitor(j, ok) ==
  /\ At("idle") /\ disp[j] = "LiveProcess" /\ j \notin pending /\ ~Live(j)
  /\ Writes(ok)
  /\ IF mem[j].mutated THEN MarkRecovery(j, ok) /\ UNCHANGED permit
     ELSE SettleAfterExit(j, "Failed", ok)
  /\ UNCHANGED <<pending, at, worker, result, runtime, orphaned, restarts>>

\* Mutant: a delivered SIGKILL counts as the exit.
PollCancellationBug(j, ok) ==
  /\ At("idle") /\ j \in pending
  /\ Writes(ok) /\ FinishCancellation(j, ok)
  /\ UNCHANGED <<at, worker, result, runtime, orphaned, restarts>>

\* poll_worker_cancellations: only an observed exit finishes a cancellation
PollCancellation(j, ok) ==
  /\ At("idle") /\ j \in pending /\ ~Live(j)
  /\ Writes(ok) /\ FinishCancellation(j, ok)
  /\ UNCHANGED <<at, worker, result, runtime, orphaned, restarts>>

\* poll_owned_traffic_budgets: the budget is spent or the accounting fails; the
\* in-memory journal moves even if the write of the stop reason fails
BudgetStop(j, ok) ==
  /\ At("idle") /\ Kind[j] = "autotune" /\ disp[j] \in Dispositions
  /\ mem[j].state \in {"Starting", "Running"}
  /\ Writes(ok)
  /\ LET stopping == [mem[j] EXCEPT !.state = "Cancelling", !.diag = "owned"]
     IN /\ disk' = IF ok THEN [disk EXCEPT ![j] = stopping] ELSE disk
        /\ mem' = [mem EXCEPT ![j] = stopping]
  /\ IF mem[j].process THEN BeginCancellation(j)
     ELSE Goto("cancelExit", j) /\ UNCHANGED pending
  /\ UNCHANGED <<disp, leases, issues, worker, permit, result, runtime,
                 orphaned, restarts>>

Recovering(j) ==
  /\ At("idle") /\ OwnsRuntime(j) /\ disp[j] \in Dispositions
  /\ mem[j].mutated /\ mem[j].state = "Recovering"

\* Mutant: the heavy lease is detached while the worker may re-arm the runtime.
ReleaseHeavyBug(j) ==
  /\ At("idle") /\ disp[j] \in Dispositions /\ mem[j].mutated /\ mem[j].heavy
  /\ runtime[Instance[j]] = [job |-> j, stage |-> "restoring"]
  /\ Persist(j, [mem[j] EXCEPT !.heavy = FALSE])
  /\ leases' = [leases EXCEPT ![j] = @ \ {Heavy}]
  /\ UNCHANGED <<disp, pending, issues, at, worker, permit, result, runtime,
                 orphaned, restarts, faults>>

\* maybe_release_heavy_lease_during_recovery
ReleaseHeavy(j) ==
  /\ Recovering(j) /\ mem[j].heavy
  /\ runtime[Instance[j]] = [job |-> j, stage |-> "restoring"]
  /\ Persist(j, [mem[j] EXCEPT !.heavy = FALSE])
  /\ leases' = [leases EXCEPT ![j] = @ \ {Heavy}]
  /\ UNCHANGED <<disp, pending, issues, at, worker, permit, result, runtime,
                 orphaned, restarts, faults>>


\* withdraw_restored_request
WithdrawRestored(j) ==
  /\ Recovering(j)
  /\ runtime[Instance[j]] = [job |-> j, stage |-> "restored"]
  /\ runtime' = [runtime EXCEPT ![Instance[j]].stage = "withdrawn"]
  /\ UNCHANGED <<disk, mem, disp, leases, pending, issues, at, worker, permit,
                 result, orphaned, restarts, faults>>

\* an override that never reached a checkpoint is cleared, and the job settled
SettleRecovery(j, ok) ==
  /\ Recovering(j)
  /\ LET s == runtime[Instance[j]]
     IN \/ s.stage \in {"idle", "permit"}
        \/ s = [job |-> j, stage |-> "rejected"]
  /\ Writes(ok)
  /\ runtime' = [runtime EXCEPT ![Instance[j]] = [job |-> None, stage |-> "idle"]]
  /\ IF ok
     THEN /\ Settle(j, RestoredState(j))
          /\ pending' = pending \ {j}
          /\ permit' = [permit EXCEPT ![j] = FALSE]
     ELSE Unsettled /\ UNCHANGED <<pending, permit>>
  /\ UNCHANGED <<at, worker, result, orphaned, restarts>>

FailArmQueued(j, ok) == Writes(ok) /\ FailQueued(j, ok) /\ Done

CancelExit(j, ok) ==
  /\ Writes(ok) /\ FinishCancellation(j, ok) /\ Done
  /\ UNCHANGED <<worker, result, runtime, orphaned, restarts>>

\* the handler that is running goes on
HandlerStep(j, ok) ==
  /\ at.job = j
  /\ \/ At("arm")        /\ Arm(j, ok)
     \/ At("failQueued") /\ FailArmQueued(j, ok)
     \/ At("spawn")      /\ Spawn(j, ok)
     \/ At("attach")     /\ Attach(j, ok)
     \/ At("launchFail") /\ LaunchFailure(j, ok)
     \/ At("permit")     /\ PublishPermit(j, ok)
     \/ At("exited")     /\ SettleStopped(j, ok)
     \/ At("rtPermit")   /\ PublishRuntimePermit(j, ok)
     \/ At("opPermit")   /\ PublishOperationPermit(j, ok)
     \/ At("failArmed")  /\ FailAfterArmed(j, ok)
     \/ At("cancelExit") /\ CancelExit(j, ok)

----------------------------------------------------------------------------
(* The coordinator dies and comes back.                                    *)

Crash ==
  /\ ~At("down") /\ restarts < MaxRestarts
  /\ restarts' = restarts + 1
  /\ Goto("down", None)
  /\ mem' = [j \in Jobs |-> None]
  /\ disp' = [j \in Jobs |-> IF disp[j] = "retired" THEN "retired" ELSE "absent"]
  /\ leases' = [j \in Jobs |-> {}]
  /\ pending' = {} /\ issues' = FALSE
  /\ orphaned' = orphaned \cup {j \in Jobs : IsJournal(disk[j]) /\ disk[j].mutated}
  /\ UNCHANGED <<disk, worker, permit, result, runtime, faults>>

\* bind_with_components: what the scan makes of a journal
Reconciled(r, live) ==
  CASE ScanOne(r, live) = "DeadBeforeMutation" -> Terminated("Failed")
    [] ScanOne(r, live) = "RecoveryRequired" /\ r.state # "Recovering"
         -> RequireRecovery(r, "recovery")
    [] OTHER -> r

\* LeaseRequest::from_journalled_operation
Claim(j, r) == LocalKeys[j] \cup IF r.heavy THEN {Heavy} ELSE {}

\* LeaseTable::acquire over the scan: the sets of jobs that can be granted,
\* whatever the order
Grants(claimants, journals) ==
  LET clash(j, k) == Claim(j, journals[j]) \cap Claim(k, journals[k]) # {}
  IN {granted \in SUBSET claimants :
        /\ \A j, k \in granted : j # k => ~clash(j, k)
        /\ \A j \in claimants \ granted : \E k \in granted : clash(j, k)}

\* bind_with_components and resume_native_workers.  The reconciled record of
\* the jobs in bad could not be written.
Bind(bad) ==
  LET found == {j \in Jobs : IsJournal(disk[j])}
      fixed == [j \in Jobs |-> IF j \in found \ bad THEN Reconciled(disk[j], Live(j))
                               ELSE disk[j]]
      scan  == [j \in Jobs |->
                  IF j \notin found THEN disp[j]
                  ELSE IF ScanOne(disk[j], Live(j)) = "DeadBeforeMutation" /\ j \notin bad
                  THEN "Settled" ELSE ScanOne(disk[j], Live(j))]
      claimants == {j \in found : scan[j] \notin {"DeadBeforeMutation", "Settled"}}
      adopted == {j \in found : scan[j] = "LiveProcess"}
      stopping == {j \in adopted : fixed[j].state = "Cancelling"}
  IN /\ At("down")
     /\ \A j \in bad : j \in found /\ Reconciled(disk[j], Live(j)) # disk[j]
     /\ Writes(bad = {})
     /\ \E granted \in Grants(claimants, fixed) :
          LET held == [j \in Jobs |-> IF j \in granted THEN Claim(j, fixed[j]) ELSE {}]
          IN /\ leases' = held
             /\ issues' = (bad # {} \/ granted # claimants
                             \/ \E j \in Jobs : disk[j] = Debris)
             /\ \E old \in IF issues' THEN {{}} ELSE Prunable(scan, held, stopping) :
                  /\ disk' = Without(fixed, old, None)
                  /\ mem' = [j \in Jobs |-> IF j \in found \ old THEN fixed[j] ELSE None]
                  /\ disp' = Without(scan, old, "retired")
     /\ pending' = stopping
     /\ permit' = [j \in Jobs |-> permit[j] \/ (j \in adopted \ stopping /\ ~OwnsRuntime(j))]
     /\ Done
     /\ UNCHANGED <<worker, result, runtime, orphaned, restarts>>

----------------------------------------------------------------------------
(* Workers and instance daemons.                                           *)

\* wait_for_permit
WorkerStarts(j) ==
  /\ worker[j] = "parked" /\ permit[j]
  /\ worker' = [worker EXCEPT ![j] = "active"]
  /\ UNCHANGED <<disk, mem, disp, leases, pending, issues, at, permit, result,
                 runtime, orphaned, restarts, faults>>

\* a worker may finish, fail, be stopped or be killed; one that owned the
\* runtime completes only after it restored and released it
WorkerExits(j) ==
  /\ Live(j)
  /\ \E r \in Results :
       /\ r = "complete" => /\ worker[j] = "active"
                            /\ \/ runtime[Instance[j]].job # j
                               \/ runtime[Instance[j]].stage = "withdrawn"
       /\ result' = [result EXCEPT ![j] = r]
  /\ worker' = [worker EXCEPT ![j] = "exited"]
  /\ UNCHANGED <<disk, mem, disp, leases, pending, issues, at, permit, runtime,
                 orphaned, restarts, faults>>

Override(i, from, to) ==
  /\ runtime[i].stage = from
  /\ runtime' = [runtime EXCEPT ![i].stage = to]
  /\ UNCHANGED <<disk, mem, disp, leases, pending, issues, at, worker, permit,
                 result, orphaned, restarts, faults>>

\* the worker's side of the override
WorkerRequests(i) ==
  /\ runtime[i].stage # "idle" /\ worker[runtime[i].job] = "active"
  /\ \/ Override(i, "permit", "control")
     \/ Override(i, "restored", "applied")
     \/ Override(i, "restored", "withdrawn")

\* the instance daemon's side
DriverMoves(i) ==
  \/ runtime[i].stage # "idle" /\ Live(runtime[i].job) /\ Override(i, "control", "applied")
  \/ Override(i, "control", "rejected")
  \/ Override(i, "applied", "restoring")
  \/ Override(i, "restoring", "restored")
  \/ /\ runtime[i].stage = "withdrawn"
     /\ runtime' = [runtime EXCEPT ![i] = [job |-> None, stage |-> "idle"]]
     /\ UNCHANGED <<disk, mem, disp, leases, pending, issues, at, worker, permit,
                    result, orphaned, restarts, faults>>

----------------------------------------------------------------------------
Init ==
  /\ disk = [j \in Jobs |-> None]
  /\ mem = [j \in Jobs |-> None]
  /\ disp = [j \in Jobs |-> "absent"]
  /\ leases = [j \in Jobs |-> {}]
  /\ pending = {} /\ issues = FALSE /\ at = Idle
  /\ worker = [j \in Jobs |-> "none"]
  /\ permit = [j \in Jobs |-> FALSE]
  /\ result = [j \in Jobs |-> "none"]
  /\ runtime = [i \in Instances |-> [job |-> None, stage |-> "idle"]]
  /\ orphaned = {} /\ restarts = 0 /\ faults = 0

\* everything a tick does for a job
Tick(j, ok) ==
  \/ Dispatch(j, ok)
  \/ PreflightFails(j, ok)
  \/ Monitor(j, ok)
  \/ PollCancellation(j, ok)
  \/ SettleRecovery(j, ok)
  \/ HandlerStep(j, ok)

Poll(j) == ArmRuntime(j) \/ StopParked(j) \/ ReleaseHeavy(j) \/ WithdrawRestored(j)

CoordinatorMoves == (\E j \in Jobs, ok \in BOOLEAN : Tick(j, ok)) \/ (\E j \in Jobs : Poll(j))
                      \/ \E bad \in {{}} \cup {{j} : j \in Jobs} : Bind(bad)

Next ==
  \/ \E j \in Jobs, outcome \in {"created", "failed", "refused"} : StartJob(j, outcome)
  \/ \E j \in Jobs : CancelJob(j)
  \/ \E j \in Jobs, ok \in BOOLEAN : BudgetStop(j, ok)
  \/ CoordinatorMoves
  \/ Crash
  \/ \E j \in Jobs : WorkerStarts(j) \/ WorkerExits(j)
  \/ \E i \in Instances : WorkerRequests(i) \/ DriverMoves(i)

Spec == Init /\ [][Next]_vars

\* The coordinator ticks on every event and at the latest after its safety
\* deadline; a worker ends at its operation deadline at the latest; the
\* instance daemon polls its override every 100 ms.
FairSpec ==
  /\ Spec
  /\ WF_vars(CoordinatorMoves)
  /\ \A j \in Jobs : WF_vars(WorkerExits(j))
  /\ \A i \in Instances : WF_vars(DriverMoves(i))

----------------------------------------------------------------------------
\* Journals, dispositions, leases and permits have their types; a journal only
\* ever holds one of the protocol's operation states and diagnostics.
TypeOK ==
  /\ disk \in [Jobs -> Journal \cup {None, Debris}]
  /\ mem \in [Jobs -> Journal \cup {None}]
  /\ disp \in [Jobs -> Dispositions \cup {"absent", "retired"}]
  /\ leases \in [Jobs -> SUBSET Keys]
  /\ pending \in SUBSET Jobs /\ issues \in BOOLEAN
  /\ at \in [place : Places, job : Jobs \cup {None}]
  /\ worker \in [Jobs -> {"none", "parked", "active", "exited"}]
  /\ permit \in [Jobs -> BOOLEAN]
  /\ result \in [Jobs -> Results]
  /\ runtime \in [Instances -> [job : Jobs \cup {None}, stage : Stages]]
  /\ orphaned \in SUBSET Jobs
  /\ restarts \in 0..MaxRestarts /\ faults \in 0..MaxFaults

Unfinished(r) == IsJournal(r) /\ r.state \notin Terminals

\* An override that is not idle belongs to a job whose journal says, on disk,
\* that it may have changed the runtime and has not ended: the mutation bit is
\* written before the permit and cleared only after the store is idle, so a
\* restart at any point finds every override it has to recover.
MutationIsJournalled ==
  \A i \in Instances : runtime[i].stage # "idle" =>
    LET r == disk[runtime[i].job]
    IN Unfinished(r) /\ r.mutated

\* No two workers generate test traffic at once, across dispatch, early release
\* of the heavy lease during recovery, crashes and lease reconstruction, with two
\* bounds: while no write failed, however often the coordinator restarts, and
\* while it restarted at most once, whatever writes fail.
OneTrafficWorker ==
  faults = 0 \/ restarts <= 1 =>
    \A j, k \in Jobs : worker[j] = "active" /\ worker[k] = "active" => j = k

\* Two jobs that have not ended never share an instance, an interface or an SQM
\* section, although the lease table is only in memory and a settled record may
\* fail to be written.
UplinkExclusion ==
  \A j, k \in Jobs : j # k /\ Unfinished(disk[j]) /\ Unfinished(disk[k])
                       => LocalKeys[j] \cap LocalKeys[k] = {}

\* A job that ended has no working worker: only an observed exit settles.
OnlyExitSettles ==
  \A j \in Jobs : worker[j] = "active" => Unfinished(disk[j]) /\ disk[j].process

\* A journalled terminal state is never replaced by another state.
TerminalIsFinal ==
  [][\A j \in Jobs : IsJournal(disk[j]) /\ disk[j].state \in Terminals
                       => disk'[j] \in {disk[j], None}]_vars

\* Every admitted job ends.
EveryJobSettles ==
  \A j \in Jobs : Unfinished(disk[j]) ~> ~Unfinished(disk[j])
=============================================================================
