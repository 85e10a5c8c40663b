--------------------------- MODULE RuntimeOverride ---------------------------
(***************************************************************************)
(* The runtime override protocol: how a calibration worker borrows the     *)
(* live traffic shaper of one instance and how the exact previous runtime  *)
(* comes back.                                                             *)
(*                                                                         *)
(* Three processes share five small record files in the run directory of   *)
(* the instance: the coordinator publishes the permit, the worker the      *)
(* control and the restore intent, the instance daemon (the driver) the    *)
(* acknowledgement and the checkpoint.  No lock covers them; every write   *)
(* or removal of one file is atomic, so each is a step of its own here.    *)
(* The driver also changes the kernel: it stops managed SQM, creates a     *)
(* private IFB and a private CAKE topology, and takes all of it down.      *)
(*                                                                         *)
(* Abstracted: a control is its job and its sequence number (one control   *)
(* per sequence number, as the worker writes them); rates, interfaces and  *)
(* fingerprints are left out; the baseline is "managed", the runtime the   *)
(* checkpoint describes.  Only the managed-SQM actuator is modelled (the   *)
(* bootstrap owner's actuator for an absent SQM shares the driver).        *)
(***************************************************************************)
EXTENDS Naturals, Sequences, FiniteSets

CONSTANTS
  Jobs,          \* jobs on this instance (they hold its lease one at a time)
  None,          \* an absent record
  MaxSeq,        \* maximum_sequence of a permit
  MaxInstanceCrashes,    \* bound: restarts of the instance daemon
  MaxCoordinatorCrashes, \* bound: restarts of the coordinator in a recovery
  MaxFlaps,      \* bound: losses of the route identity
  MaxFaults,     \* bound: refusals and failures of kernel operations
  RouteRearm     \* does the worker re-arm after a route recovery?

ASSUME SeqAssumption == MaxSeq \in Nat \ {0}
ASSUME BoundAssumption ==
  /\ MaxInstanceCrashes \in Nat /\ MaxCoordinatorCrashes \in Nat
  /\ MaxFlaps \in Nat /\ MaxFaults \in Nat
  /\ RouteRearm \in BOOLEAN

Stages == {"Planned", "ManagedSqmSuspended", "LinkOwned", "Active",
           "TemporaryAbsent", "BaselineRestored"}
AckStates == {"Applied", "Restoring", "Restored", "Rejected"}
Records == {"permit", "control", "intent", "ack", "checkpoint"}

Control == [job : Jobs, seq : 1 .. MaxSeq]
Ack == [state : AckStates, job : Jobs, seq : 1 .. MaxSeq]
Checkpoint == [job : Jobs, stage : Stages]
RecordStore == [permit : Jobs \cup {None}, control : Control \cup {None},
                intent : Control \cup {None}, ack : Ack \cup {None},
                checkpoint : Checkpoint \cup {None}]
View == [permit : Jobs \cup {None}, control : Control \cup {None},
         intent : Control \cup {None}]

ASSUME NoneAssumption ==
  None \notin Jobs /\ None \notin Control /\ None \notin Ack /\ None \notin Checkpoint

(***************************************************************************)
(* The live runtime.  "managed": SQM runs exactly as the baseline says.    *)
(* "configured": SQM runs, rebuilt from its configuration at the start     *)
(* rates.  "down": SQM is stopped.  "private": the calibration topology.   *)
(***************************************************************************)
LiveSqm == {"managed", "configured", "down", "private"}

VARIABLES
  store,     \* the five record files
  sqm,       \* what shapes the target interface
  ifb,       \* the job whose private IFB exists, or None
  ipc,       \* where the driver of the instance daemon is
  phase,     \* RuntimeOverrideTracker.phase
  session,   \* the control of the tracker's session, or None
  reason,    \* RuntimeOverrideSession.restore_reason
  view,      \* permit, control and intent as the current poll read them
  ckpt,      \* the driver's in-memory copy of the checkpoint
  blocked,   \* RuntimeOverrideDriver.restore_blocker
  latched,   \* RuntimeOverrideDriver.unsafe_recovery_reason is set
  itodo,     \* records the driver has still to remove
  worker,    \* per job: where the worker is and its last control
  job,       \* per job: the coordinator's journal state
  cpc,       \* where the recovery pass of the coordinator is
  cview,     \* the five records as the recovery pass read them
  ctodo,     \* records the coordinator has still to remove
  route,     \* does the live route identity match the permits?
  expired,   \* jobs whose permit lifetime is over
  crashes, flaps, faults,
  readmitted \* history: an Idle poll went on with a request it had refused before

trackerVars == <<phase, session, reason, blocked>>
drvVars == <<ipc, trackerVars, view, ckpt, latched, itodo>>
liveVars == <<sqm, ifb>>
coordVars == <<job, cpc, cview, ctodo>>
envVars == <<route, expired, crashes, flaps, faults>>
vars == <<store, liveVars, drvVars, worker, coordVars, envVars, readmitted>>

EmptyStore == [permit |-> None, control |-> None, intent |-> None,
               ack |-> None, checkpoint |-> None]
NoView == [permit |-> None, control |-> None, intent |-> None]

\* Records, driver, tracker, workers and jobs have their types; a control never
\* exceeds the maximum sequence of its permit.
TypeOK ==
  /\ store \in RecordStore
  /\ sqm \in LiveSqm /\ ifb \in Jobs \cup {None}
  /\ ipc \in {"off", "waiting", "startup", "poll", "decide", "accept", "load", "apply", "applyMark",
              "applyFailed", "attest", "tick", "restore", "restoreMark", "finalize"}
  /\ phase \in {"Idle", "Applying", "Applied", "Restoring", "Restored"}
  /\ session \in Control \cup {None}
  /\ reason \in {"none", "ControlMissing", "RouteDrift", "other"}
  /\ view \in View
  /\ ckpt \in Checkpoint \cup {None}
  /\ blocked \in BOOLEAN /\ latched \in BOOLEAN
  /\ itodo \in Seq(Records) /\ ctodo \in Seq(Records)
  /\ worker \in [Jobs -> [pc : {"none", "begin", "await", "measure", "rearmed",
                                "dropControl", "awaitRestored", "final", "gone"},
                          seq : 0 .. MaxSeq]]
  /\ job \in [Jobs -> {"queued", "running", "recovering", "settled"}]
  /\ cpc \in {"idle", "decide", "withdraw", "clear", "check"}
  /\ cview \in RecordStore
  /\ route \in BOOLEAN /\ expired \subseteq Jobs
  /\ crashes \in [instance : Nat, coordinator : Nat] /\ flaps \in Nat /\ faults \in Nat
  /\ readmitted \in BOOLEAN

Init ==
  /\ store = EmptyStore
  /\ sqm = "managed" /\ ifb = None
  /\ ipc = "startup" /\ phase = "Idle" /\ session = None /\ reason = "none"
  /\ view = NoView /\ ckpt = None /\ blocked = FALSE /\ latched = FALSE
  /\ itodo = << >> /\ ctodo = << >>
  /\ worker = [j \in Jobs |-> [pc |-> "none", seq |-> 0]]
  /\ job = [j \in Jobs |-> "queued"]
  /\ cpc = "idle" /\ cview = EmptyStore
  /\ route = TRUE /\ expired = {}
  /\ crashes = [instance |-> 0, coordinator |-> 0] /\ flaps = 0 /\ faults = 0
  /\ readmitted = FALSE

-----------------------------------------------------------------------------
(* The record store.                                                       *)

StoreIdle == \A r \in Records : store[r] = None

Publish(r, value) == store' = [store EXCEPT ![r] = value]
Remove(r) == store' = [store EXCEPT ![r] = None]

AckOf(state, c) == [state |-> state, job |-> c.job, seq |-> c.seq]

\* attest_restored_owner: permit p and control c are still the restored request.
AttestRestoredOwner(p, c, allowLiveControl) ==
  /\ store.permit = p /\ c.job = p
  /\ store.control \in {None, c} /\ store.intent \in {None, c}
  /\ IF allowLiveControl THEN store.control = c \/ store.intent = c
                         ELSE store.control = None /\ store.intent = c
  /\ store.checkpoint # None /\ store.checkpoint.job = p
  /\ store.ack = AckOf("Restored", c)

WithdrawOrder == <<"control", "permit">>
\* Mutant: the acknowledgement is forgotten.
FinalizeOrderBug == <<"checkpoint", "intent">>

FinalizeOrder == <<"checkpoint", "ack", "intent">>
ClearOrder == <<"control", "permit", "checkpoint", "ack", "intent">>

-----------------------------------------------------------------------------
(* The driver in the instance daemon: poll, reconcile_startup, execute.    *)

ToPoll == ipc' = "poll" /\ view' = NoView /\ ckpt' = None

\* The poll returns without an effect.
PollEnds == ToPoll /\ UNCHANGED <<store, liveVars, trackerVars, latched, itodo>>

\* fail_restore_safely: ask for the configured SQM, then refuse to go on.
Latch ==
  /\ latched' = TRUE /\ ToPoll
  /\ sqm' \in {sqm, "configured"}
  /\ UNCHANGED <<store, ifb, trackerVars, itodo>>

\* handle_unreadable_active_state: a failed recovery request is retried.
Unreadable == Latch \/ PollEnds

\* Mutant: RESTORED is announced before the restoration.
BeginRestoreBug(c, why) ==
  /\ phase' = "Restoring" /\ session' = c /\ reason' = why /\ blocked' = FALSE
  /\ Publish("ack", AckOf("Restored", c))
  /\ view' = NoView
  /\ ckpt' = store.checkpoint
  /\ ipc' = IF store.checkpoint = None THEN "poll" ELSE "restore"
  /\ UNCHANGED <<liveVars, latched, itodo>>

\* begin_restore and the head of execute(Restore): RESTORING is published
\* before the actuator touches anything.
BeginRestore(c, why) ==
  /\ phase' = "Restoring" /\ session' = c /\ reason' = why /\ blocked' = FALSE
  /\ Publish("ack", AckOf("Restoring", c))
  /\ view' = NoView
  /\ ckpt' = store.checkpoint
  /\ ipc' = IF store.checkpoint = None THEN "poll" ELSE "restore"
  /\ UNCHANGED <<liveVars, latched, itodo>>

\* A refused control: the acknowledgement is all that changes.
Reject(c) ==
  /\ Publish("ack", AckOf("Rejected", c))
  /\ ToPoll
  /\ UNCHANGED <<liveVars, trackerVars, latched, itodo>>

\* execute(Apply) reads the durable checkpoint before it acts on it.
BeginApply(c) ==
  /\ phase' = "Applying" /\ session' = c /\ reason' = "none" /\ blocked' = FALSE
  /\ view' = NoView /\ ckpt' = store.checkpoint
  /\ ipc' = IF store.checkpoint = None THEN "poll" ELSE "apply"
  /\ UNCHANGED <<store, liveVars, latched, itodo>>

\* The daemon starts: managed SQM is attested or rebuilt, the controller sets
\* its start rates, and only then the driver is opened.  A private topology in
\* the way of the rebuild may keep the daemon waiting for it to change.
InstanceStart ==
  /\ ipc = "off"
  /\ \/ /\ sqm = "private" /\ ipc' = "waiting" /\ UNCHANGED sqm
     \/ /\ ipc' = "startup"
        /\ sqm' \in IF store.checkpoint = None THEN {"managed"}
                    ELSE IF sqm = "managed" THEN {"managed", "configured"}
                    ELSE {"configured"}
  /\ UNCHANGED <<store, ifb, trackerVars, view, ckpt, latched, itodo>>

\* reconcile_startup
Reconcile ==
  LET c == store.checkpoint
      i == store.intent
  IN
  /\ ipc = "startup"
  /\ \/ /\ c = None /\ i = None
        /\ PollEnds
     \/ /\ i # None
        /\ \/ /\ c = None /\ store.permit = None /\ store.control = None
              /\ store.ack = None
           \/ /\ c # None /\ store.permit = None /\ store.control = None
              /\ store.ack = AckOf("Restored", i) /\ sqm = "managed"
        /\ ipc' = "finalize" /\ itodo' = FinalizeOrder
        /\ UNCHANGED <<store, liveVars, trackerVars, view, ckpt, latched>>
     \/ /\ i # None
        /\ \/ c = None /\ ~(store.permit = None /\ store.control = None /\ store.ack = None)
           \/ /\ c # None
              /\ \/ store.control \notin {None, i}
                 \/ store.permit \notin {None, c.job} \/ store.permit \notin {None, i.job}
                 \/ /\ store.permit = None
                    /\ ~(/\ store.control = None
                         /\ store.ack = AckOf("Restored", i) /\ sqm = "managed")
        /\ Latch
     \/ /\ c # None /\ i # None /\ store.control \in {None, i}
        /\ store.permit = c.job /\ i.job = c.job
        /\ BeginRestore(i, "other")
     \/ /\ c # None /\ i = None
        /\ store.permit = c.job /\ store.control # None
        /\ store.control.job = store.permit
        /\ BeginRestore(store.control, "other")
     \/ /\ c # None /\ i = None
        /\ ~(/\ store.permit = c.job /\ store.control # None
             /\ store.control.job = store.permit)
        /\ Latch

\* poll reads the permit, the control and the restore intent.
PollRead ==
  /\ ipc = "poll" /\ ~latched
  /\ view' = [permit |-> store.permit, control |-> store.control,
              intent |-> store.intent]
  /\ ipc' = "decide"
  /\ UNCHANGED <<store, liveVars, trackerVars, ckpt,
                 latched, itodo>>

WorkerAlive(j) == worker[j].pc \notin {"none", "gone"}
Authorizes(p, c) == c.job = p /\ p \notin expired

\* The authority, the worker and the route of the request that was read.
Admissible ==
  /\ view.permit # None /\ view.control # None
  /\ Authorizes(view.permit, view.control) /\ WorkerAlive(view.permit) /\ route

\* poll in phase Idle: wait, refuse, or go on to accept.  A refused control
\* leaves the tracker Idle, so the next poll looks at it again.
PollIdle ==
  /\ ipc = "decide" /\ phase = "Idle"
  /\ \/ /\ view.permit = None \/ view.control = None
        /\ PollEnds
     \/ /\ view.permit # None /\ view.control # None
        /\ IF Admissible
           THEN /\ ipc' = "accept"
                /\ UNCHANGED <<store, liveVars, trackerVars, view, ckpt, latched, itodo>>
           ELSE Reject(view.control)

\* The last check of the Idle poll, the SQM configuration: it differs from the
\* permit's (sqm-drift) or cannot be read (sqm-attestation-unavailable).
IdleDrift == ipc = "decide" /\ phase = "Idle" /\ Admissible /\ Reject(view.control)

\* The baseline cannot be captured, or the checkpoint not be written: the poll
\* returns the error and the next one starts afresh.
AcceptFault == ipc = "accept" /\ PollEnds

\* The baseline, captured after the checks, is durable before the apply.
Accept ==
  /\ ipc = "accept" /\ ipc' = "load"
  /\ phase' = "Applying" /\ session' = view.control
  /\ reason' = "none" /\ blocked' = FALSE
  /\ Publish("checkpoint", [job |-> view.permit, stage |-> "Planned"])
  /\ view' = NoView
  /\ UNCHANGED <<ckpt, liveVars, latched, itodo>>

ApplyLoad == ipc = "load" /\ BeginApply(session)

\* poll with an active session: the request that was read is submitted to the
\* tracker; unless that starts an apply or a restore, a health tick follows.
PollActive ==
  LET c == view.control
      requested == view.permit # None /\ c # None
  IN
  /\ ipc = "decide" /\ phase \in {"Applying", "Applied"}
  /\ \/ /\ ~requested
        /\ ipc' = "tick"
        /\ UNCHANGED <<store, liveVars, trackerVars, view, ckpt, latched, itodo>>
     \/ /\ requested
        /\ ~Authorizes(view.permit, c) \/ view.permit # session.job
        /\ Publish("ack", AckOf("Rejected", c))
        /\ ipc' = "tick"
        /\ UNCHANGED <<liveVars, trackerVars, view, ckpt, latched, itodo>>
     \/ /\ requested /\ Authorizes(view.permit, c) /\ c = session
        /\ IF phase = "Applied"
           THEN /\ Publish("ack", AckOf("Applied", c)) /\ ipc' = "tick"
                /\ UNCHANGED <<view, ckpt>>
           ELSE ToPoll /\ UNCHANGED store
        /\ UNCHANGED <<liveVars, trackerVars, latched, itodo>>
     \/ /\ requested /\ Authorizes(view.permit, c) /\ c.job = session.job
        /\ c.seq = session.seq + 1
        /\ BeginApply(c)
     \/ /\ requested /\ Authorizes(view.permit, c) /\ c.job = session.job
        /\ c.seq \notin {session.seq, session.seq + 1}
        /\ BeginRestore(session, "other")

\* RuntimeOverrideTracker::tick; drift of SQM or of the applied runtime, or an
\* attestation that fails, is a fault of the environment.
TickReason(why) ==
  \/ view.permit # session.job /\ why = "other"
  \/ view.permit = session.job /\ view.control # session /\ why = "ControlMissing"
  \/ /\ view.permit = session.job /\ view.control = session
     /\ \/ session.job \in expired \/ ~WorkerAlive(session.job)
     /\ why = "other"
  \/ /\ view.permit = session.job /\ view.control = session
     /\ session.job \notin expired /\ WorkerAlive(session.job)
     /\ ~route /\ why = "RouteDrift"

Healthy == \A why \in {"ControlMissing", "RouteDrift", "other"} : ~TickReason(why)

Tick ==
  /\ ipc = "tick"
  /\ \/ /\ store.checkpoint = None \* an error; the next poll tries again
        /\ PollEnds
     \/ /\ store.checkpoint # None
        /\ \E why \in {"ControlMissing", "RouteDrift", "other"} :
             TickReason(why) /\ BeginRestore(session, why)
     \/ /\ store.checkpoint # None /\ Healthy
        /\ PollEnds

TickDrift ==
  /\ ipc = "tick" /\ store.checkpoint # None /\ Healthy
  /\ BeginRestore(session, "other")

\* The stage a successful step of execute(Apply) makes durable.
NextApplyStage(stage) ==
  CASE stage = "BaselineRestored"    -> "Planned"
    [] stage = "Planned"             -> "ManagedSqmSuspended"
    [] stage = "ManagedSqmSuspended" -> "LinkOwned"
    [] stage = "LinkOwned"           -> "Active"
    [] OTHER                         -> stage

\* The kernel change behind the next stage: nothing, SQM stopped (only from
\* the exact baseline), the private IFB, the private topology.
ApplyMutation ==
  CASE ckpt.stage = "BaselineRestored"    -> UNCHANGED liveVars
    [] ckpt.stage = "Planned"             -> sqm' = "down" /\ UNCHANGED ifb
    [] ckpt.stage = "ManagedSqmSuspended" -> ifb' = ckpt.job /\ UNCHANGED sqm
    [] OTHER                              -> sqm' = "private" /\ UNCHANGED ifb

ApplyPossible ==
  /\ ckpt.stage # "TemporaryAbsent"
  /\ ckpt.stage = "Planned" => sqm = "managed" /\ ifb # ckpt.job

ApplyStep ==
  /\ ipc = "apply" /\ ApplyPossible /\ ApplyMutation
  /\ ipc' = IF ckpt.stage = "Active" THEN "attest" ELSE "applyMark"
  /\ UNCHANGED <<store, trackerVars, view, ckpt, latched, itodo>>

\* A kernel operation fails, before or after it took effect.
ApplyFault ==
  /\ ipc = "apply" /\ ApplyPossible
  /\ ApplyMutation \/ UNCHANGED liveVars
  /\ ipc' = "applyFailed"
  /\ UNCHANGED <<store, trackerVars, view, ckpt, latched, itodo>>

\* replace_checkpoint: compare with what was read, then publish the next stage.
ApplyMark ==
  LET next == [ckpt EXCEPT !.stage = NextApplyStage(ckpt.stage)]
  IN
  /\ ipc = "applyMark" /\ store.checkpoint = ckpt
  /\ Publish("checkpoint", next) /\ ckpt' = next
  /\ ipc' = IF next.stage = "Active" THEN "attest" ELSE "apply"
  /\ UNCHANGED <<liveVars, trackerVars, view, latched, itodo>>

ApplyFailed ==
  /\ \/ ipc = "apply" /\ ~ApplyPossible
     \/ ipc = "applyMark" /\ store.checkpoint # ckpt
     \/ ipc = "attest" /\ (session.job \in expired \/ sqm # "private")
     \/ ipc = "applyFailed"
  /\ BeginRestore(session, "other")

\* attest_runtime and confirm_applied
ConfirmApplied ==
  /\ ipc = "attest" /\ session.job \notin expired /\ sqm = "private"
  /\ phase' = "Applied"
  /\ Publish("ack", AckOf("Applied", session))
  /\ ToPoll
  /\ UNCHANGED <<liveVars, session, reason, blocked, latched, itodo>>

\* execute(Restore) after RESTORING: remove what the checkpoint says is ours,
\* then bring the baseline back.  A qdisc that is not ours is never replaced:
\* with SQM already running again the removal refuses and the driver latches.
ForeignTopology == ckpt.stage # "Planned" /\ sqm \in {"managed", "configured"}

\* Mutant: the early return of the Planned stage is taken in every stage.
RestoreRemoveBug ==
  /\ ipc = "restore" /\ ckpt.stage \notin {"TemporaryAbsent", "BaselineRestored"}
  /\ ipc' = "restoreMark"
  /\ UNCHANGED <<store, liveVars, trackerVars, view, ckpt, latched, itodo>>

RestoreRemove ==
  /\ ipc = "restore" /\ ckpt.stage \notin {"TemporaryAbsent", "BaselineRestored"}
  /\ IF ForeignTopology \/ (ckpt.stage = "Planned" /\ ifb = ckpt.job)
     THEN Latch
     ELSE /\ IF ckpt.stage = "Planned" THEN UNCHANGED liveVars
             ELSE sqm' = "down" /\ ifb' = None
          /\ ipc' = "restoreMark"
          /\ UNCHANGED <<store, trackerVars, view, ckpt, latched, itodo>>

RestoreBaseline ==
  /\ ipc = "restore" /\ ckpt.stage = "TemporaryAbsent"
  /\ sqm' = "managed" /\ ipc' = "restoreMark"
  /\ UNCHANGED <<store, ifb, trackerVars, view, ckpt, latched, itodo>>

NextRestoreStage(stage) ==
  IF stage = "TemporaryAbsent" THEN "BaselineRestored" ELSE "TemporaryAbsent"

RestoreMark ==
  LET next == [ckpt EXCEPT !.stage = NextRestoreStage(ckpt.stage)]
  IN
  /\ ipc = "restoreMark"
  /\ IF store.checkpoint = ckpt
     THEN /\ Publish("checkpoint", next) /\ ckpt' = next /\ ipc' = "restore"
          /\ UNCHANGED <<liveVars, trackerVars, view, latched, itodo>>
     ELSE Latch

\* attest_restored_baseline and confirm_restored
ConfirmRestored ==
  /\ ipc = "restore" /\ ckpt.stage = "BaselineRestored"
  /\ IF sqm = "managed"
     THEN /\ phase' = "Restored" /\ blocked' = FALSE
          /\ Publish("ack", AckOf("Restored", session))
          /\ ToPoll
          /\ UNCHANGED <<liveVars, session, reason, latched, itodo>>
     ELSE Latch

\* The actuator reports a state blocker (busy SQM, missing target, settling
\* topology), possibly half way, or an unsafe one.
RestoreBlocked ==
  /\ ipc = "restore"
  /\ \/ UNCHANGED liveVars
     \/ /\ ckpt.stage \notin {"Planned", "TemporaryAbsent", "BaselineRestored"}
        /\ sqm = "private" /\ sqm' = "down" /\ UNCHANGED ifb
     \/ /\ ckpt.stage = "TemporaryAbsent"
        /\ sqm = "down" /\ sqm' = "configured" /\ UNCHANGED ifb
  /\ blocked' = TRUE /\ ToPoll
  /\ UNCHANGED <<store, phase, session, reason, latched, itodo>>

RestoreUnsafe ==
  /\ ipc = "restore" \/ (ipc = "decide" /\ phase = "Restoring" /\ blocked)
  /\ Latch

\* poll in phase Restoring: observe the blocker; once it is gone, retry.  A
\* topology that settled away from the baseline is unsafe.
RetryRestore == ipc = "decide" /\ phase = "Restoring" /\ BeginRestore(session, reason)
StillBlocked == ipc = "decide" /\ phase = "Restoring" /\ blocked /\ PollEnds

PollRestoring == RetryRestore \/ StillBlocked

\* poll in phase Restored, in the order of the code: an intent that does not
\* match, a re-armed control, the released owner, the acknowledgement.  The
\* control of another stage differs in more than its sequence number and is
\* refused.
RearmEligible(c) ==
  /\ reason = "RouteDrift" /\ view.intent = None
  /\ view.permit = session.job /\ c.seq = session.seq + 1

PollRestored ==
  LET c == view.control
      lostIntent == reason = "ControlMissing" /\ view.intent # session
      rearm == view.permit # None /\ c # None /\ c # session
      released == view.permit = None /\ c = None
      eligible == Authorizes(view.permit, c) /\ RearmEligible(c) /\ WorkerAlive(session.job)
      settling == ~route \/ sqm # "managed"
  IN
  /\ ipc = "decide" /\ phase = "Restored"
  /\ \/ lostIntent /\ Unreadable
     \/ /\ ~lostIntent /\ rearm /\ store.checkpoint # None
        /\ \/ eligible /\ ~settling /\ BeginApply(c)
           \/ (~eligible \/ worker[session.job].pc # "rearmed") /\ Reject(c)
     \/ /\ ~lostIntent /\ rearm /\ store.checkpoint = None
        /\ PollEnds
     \/ /\ ~lostIntent /\ released
        /\ phase' = "Idle" /\ session' = None /\ reason' = "none"
        /\ ipc' = "finalize" /\ itodo' = FinalizeOrder /\ view' = NoView
        /\ UNCHANGED <<store, liveVars, ckpt, blocked, latched>>
     \/ /\ ~lostIntent /\ ~released
        /\ rearm => store.checkpoint # None /\ eligible /\ settling
        /\ Publish("ack", AckOf("Restored", session))
        /\ ToPoll
        /\ UNCHANGED <<liveVars, trackerVars, latched, itodo>>

\* finalize_restored removes one record after the other.
Finalize ==
  /\ ipc = "finalize"
  /\ IF itodo = << >>
     THEN ToPoll /\ UNCHANGED <<store, itodo>>
     ELSE /\ Remove(Head(itodo)) /\ itodo' = Tail(itodo)
          /\ UNCHANGED <<ipc, view, ckpt>>
  /\ UNCHANGED <<liveVars, trackerVars, latched>>

InstanceStep ==
  \/ InstanceStart \/ Reconcile \/ PollRead \/ PollIdle \/ Accept \/ PollActive
  \/ PollRestoring \/ PollRestored \/ Tick \/ ApplyLoad \/ ApplyStep \/ ApplyMark
  \/ ApplyFailed \/ ConfirmApplied \/ RestoreRemove \/ RestoreBaseline
  \/ RestoreMark \/ ConfirmRestored \/ Finalize

InstanceFault ==
  \/ IdleDrift \/ AcceptFault \/ TickDrift \/ ApplyFault \/ RestoreBlocked \/ RestoreUnsafe

-----------------------------------------------------------------------------
(* The worker of job j.                                                    *)

Current(j) == [job |-> j, seq |-> worker[j].seq]
Previous(j) == [job |-> j, seq |-> worker[j].seq - 1]
Goto(j, pc) == worker' = [worker EXCEPT ![j].pc = pc]

\* Mutant: the sequence number is not checked against the permit.
PublishControlBug(j) ==
  /\ worker[j].pc = "measure" \/ (worker[j].pc = "begin" /\ store.permit = j)
  /\ j \notin expired
  /\ worker' = [worker EXCEPT ![j] = [pc |-> "await", seq |-> @.seq + 1]]
  /\ Publish("control", [job |-> j, seq |-> worker[j].seq + 1])

\* The first control of the calibration, under the permit that was read, and
\* the control of every later stage, under the worker's copy of the permit and
\* whatever the driver did since it announced APPLIED.
PublishControl(j) ==
  /\ worker[j].pc = "measure" \/ (worker[j].pc = "begin" /\ store.permit = j)
  /\ j \notin expired /\ worker[j].seq < MaxSeq
  /\ worker' = [worker EXCEPT ![j] = [pc |-> "await", seq |-> @.seq + 1]]
  /\ Publish("control", [job |-> j, seq |-> worker[j].seq + 1])

\* wait_for_runtime_applied
WaitApplied(j) ==
  /\ worker[j].pc = "await" /\ store.ack # None
  /\ \/ store.ack = AckOf("Applied", Current(j)) /\ Goto(j, "measure")
     \/ store.ack.state # "Applied" /\ Goto(j, "gone")
  /\ UNCHANGED store

\* rearm_runtime_after_route_recovery: the same control, the next number.
Rearm(j) ==
  /\ RouteRearm /\ worker[j].pc = "measure" /\ route
  /\ store.permit = j /\ store.control = Current(j) /\ store.intent = None
  /\ store.ack = AckOf("Restored", Current(j))
  /\ j \notin expired /\ worker[j].seq < MaxSeq
  /\ worker' = [worker EXCEPT ![j] = [pc |-> "rearmed", seq |-> @.seq + 1]]
  /\ Publish("control", [job |-> j, seq |-> worker[j].seq + 1])

\* wait_for_runtime_rearmed
WaitRearmed(j) ==
  /\ worker[j].pc = "rearmed" /\ store.ack # None
  /\ \/ store.ack = AckOf("Applied", Current(j)) /\ Goto(j, "measure")
     \/ /\ store.ack \notin {AckOf("Applied", Current(j)),
                             AckOf("Restored", Previous(j)),
                             AckOf("Restoring", Previous(j))}
        /\ Goto(j, "gone")
  /\ UNCHANGED store

\* Mutant: the restoration is requested without waiting for APPLIED.
RequestRestoreBug(j) ==
  /\ worker[j].pc \in {"await", "measure"}
  /\ store.permit = j /\ store.control = Current(j) /\ store.intent = None
  /\ Publish("intent", Current(j)) /\ Goto(j, "dropControl")

\* restore_runtime_voluntarily: request_restore publishes the intent, then
\* removes the control; release_restored_request removes the permit.
RequestRestore(j) ==
  /\ worker[j].pc = "measure"
  /\ store.permit = j /\ store.control = Current(j) /\ store.intent = None
  /\ store.checkpoint # None /\ store.checkpoint.job = j
  /\ Publish("intent", Current(j)) /\ Goto(j, "dropControl")

DropControl(j) ==
  /\ worker[j].pc = "dropControl"
  /\ Remove("control") /\ Goto(j, "awaitRestored")

ReleaseRestored(j) ==
  /\ worker[j].pc = "awaitRestored"
  /\ AttestRestoredOwner(j, Current(j), FALSE)
  /\ Remove("permit") /\ Goto(j, "final")

FinishRestored(j) ==
  /\ worker[j].pc = "final" /\ StoreIdle
  /\ Goto(j, "gone") /\ UNCHANGED store

\* A crash, a cancellation, a deadline, a failed measurement or any error the
\* worker returns: the process exits and leaves the records as they are.
WorkerStops(j) == WorkerAlive(j) /\ Goto(j, "gone") /\ UNCHANGED store

WorkerStep(j) ==
  \/ PublishControl(j) \/ WaitApplied(j) \/ Rearm(j) \/ WaitRearmed(j)
  \/ RequestRestore(j) \/ DropControl(j) \/ ReleaseRestored(j)
  \/ FinishRestored(j) \/ WorkerStops(j)

-----------------------------------------------------------------------------
(* The coordinator: permit, and the recovery of a job whose worker is gone.*)

\* The last step of arming a job (its journal says so already): the instance
\* lease is free, the record store is idle and the route is the admitted one.
PublishPermit(j) ==
  /\ job[j] = "queued" /\ \A k \in Jobs : job[k] \in {"queued", "settled"}
  /\ StoreIdle /\ route
  /\ job' = [job EXCEPT ![j] = "running"]
  /\ worker' = [worker EXCEPT ![j] = [pc |-> "begin", seq |-> 0]]
  /\ Publish("permit", j)
  /\ UNCHANGED <<cpc, cview, ctodo>>

ReapWorker(j) ==
  /\ job[j] = "running" /\ worker[j].pc = "gone"
  /\ \E s \in IF StoreIdle THEN {"settled", "recovering"} ELSE {"recovering"} :
       job' = [job EXCEPT ![j] = s]
  /\ UNCHANGED <<store, worker, cpc, cview, ctodo>>

\* poll_native_runtime_recoveries reads the five records (in one step: with the
\* worker gone only the driver writes, and no order of its writes makes a mixed
\* read differ from the store before or after one of them) ...
RecoveryRead(j) ==
  /\ job[j] = "recovering" /\ cpc = "idle"
  /\ cview' = store /\ cpc' = "decide"
  /\ UNCHANGED <<store, worker, job, ctodo>>

ExpectedControl == IF cview.control # None THEN cview.control ELSE cview.intent

\* Mutant: a rejection clears the store although a checkpoint exists.
RecoveryDecideBug(j) ==
  /\ job[j] = "recovering" /\ cpc = "decide"
  /\ IF cview.ack # None /\ cview.ack.state = "Rejected"
     THEN cpc' = "clear" /\ ctodo' = ClearOrder
     ELSE cpc' = "idle" /\ UNCHANGED ctodo
  /\ cview' = EmptyStore /\ UNCHANGED <<store, worker, job>>

\* ... and acts on what it read.
RecoveryDecide(j) ==
  LET ack == cview.ack
      withdraw == /\ ack # None /\ ack.job = j /\ ack.state = "Restored"
                  /\ cview.permit # None /\ ExpectedControl # None
                  /\ cview.intent \in {None, ExpectedControl}
                  /\ AttestRestoredOwner(cview.permit, ExpectedControl, TRUE)
      rejected == /\ ack # None /\ ack.job = j /\ ack.state = "Rejected"
                  /\ cview.checkpoint = None
      unused == /\ ack = None /\ cview.checkpoint = None /\ cview.control = None
  IN
  /\ job[j] = "recovering" /\ cpc = "decide"
  /\ \/ withdraw /\ cpc' = "withdraw" /\ ctodo' = WithdrawOrder
     \/ (rejected \/ unused) /\ cpc' = "clear" /\ ctodo' = ClearOrder
     \/ ack = None /\ ~unused /\ cpc' = "check" /\ UNCHANGED ctodo
     \/ ack # None /\ ~withdraw /\ ~rejected /\ cpc' = "idle" /\ UNCHANGED ctodo
  /\ cview' = EmptyStore
  /\ UNCHANGED <<store, worker, job>>

\* remove_records: one file after the other.
RecoveryRemove ==
  /\ cpc \in {"withdraw", "clear"}
  /\ IF ctodo = << >>
     THEN /\ cpc' = IF cpc = "clear" THEN "check" ELSE "idle"
          /\ UNCHANGED <<store, ctodo>>
     ELSE Remove(Head(ctodo)) /\ ctodo' = Tail(ctodo) /\ UNCHANGED cpc
  /\ UNCHANGED <<worker, job, cview>>

\* Mutant: the job settles without the idle check.
RecoverySettleBug(j) ==
  /\ job[j] = "recovering" /\ cpc = "check"
  /\ job' = [job EXCEPT ![j] = "settled"]
  /\ cpc' = "idle" /\ UNCHANGED <<store, worker, cview, ctodo>>

\* ensure_runtime_store_idle, then settle_native_runtime_recovery.
RecoverySettle(j) ==
  /\ job[j] = "recovering" /\ cpc = "check"
  /\ job' = IF StoreIdle THEN [job EXCEPT ![j] = "settled"] ELSE job
  /\ cpc' = "idle" /\ UNCHANGED <<store, worker, cview, ctodo>>

CoordinatorStep ==
  \/ \E j \in Jobs : \/ ReapWorker(j) \/ RecoveryRead(j)
                      \/ RecoveryDecide(j) \/ RecoverySettle(j)
  \/ RecoveryRemove

-----------------------------------------------------------------------------
(* The environment: restarts, the route, the clock.                        *)

InstanceCrash ==
  /\ ipc # "off" /\ crashes.instance < MaxInstanceCrashes
  /\ ipc' = "off" /\ phase' = "Idle" /\ session' = None /\ reason' = "none"
  /\ view' = NoView /\ ckpt' = None /\ blocked' = FALSE /\ latched' = FALSE
  /\ itodo' = << >>
  /\ crashes' = [crashes EXCEPT !.instance = @ + 1]
  /\ UNCHANGED <<store, liveVars, worker, coordVars, route, expired, flaps, faults,
                 readmitted>>

CoordinatorCrash ==
  /\ cpc # "idle" /\ crashes.coordinator < MaxCoordinatorCrashes
  /\ cpc' = "idle" /\ cview' = EmptyStore /\ ctodo' = << >>
  /\ crashes' = [crashes EXCEPT !.coordinator = @ + 1]
  /\ UNCHANGED <<store, liveVars, drvVars, worker, job, route, expired, flaps, faults,
                 readmitted>>

RouteLost ==
  /\ route /\ flaps < MaxFlaps
  /\ route' = FALSE /\ flaps' = flaps + 1
  /\ UNCHANGED <<store, liveVars, drvVars, worker, coordVars, expired, crashes, faults,
                 readmitted>>

RouteBack ==
  /\ ~route /\ route' = TRUE
  /\ UNCHANGED <<store, liveVars, drvVars, worker, coordVars, expired, crashes,
                 flaps, faults, readmitted>>

Expire(j) ==
  /\ WorkerAlive(j) /\ j \notin expired
  /\ expired' = expired \cup {j}
  /\ UNCHANGED <<store, liveVars, drvVars, worker, coordVars, route, crashes,
                 flaps, faults, readmitted>>

\* An Idle poll goes on although an earlier one announced REJECTED.
Readmits == ipc = "decide" /\ ipc' = "accept" /\ store.ack # None

DriverMoves ==
  /\ InstanceStep /\ readmitted' = (readmitted \/ Readmits)
  /\ UNCHANGED <<worker, coordVars, envVars>>
RestoreRetries ==
  RetryRestore /\ UNCHANGED <<worker, coordVars, envVars, readmitted>>
DriverFaults ==
  /\ faults < MaxFaults /\ InstanceFault /\ faults' = faults + 1
  /\ UNCHANGED <<worker, coordVars, route, expired, crashes, flaps, readmitted>>
WorkerMoves ==
  /\ \E j \in Jobs : WorkerStep(j)
  /\ UNCHANGED <<liveVars, drvVars, coordVars, envVars, readmitted>>
CoordinatorMoves == CoordinatorStep /\ UNCHANGED <<liveVars, drvVars, envVars, readmitted>>
CoordinatorStarts ==
  /\ \E j \in Jobs : PublishPermit(j)
  /\ UNCHANGED <<liveVars, drvVars, envVars, readmitted>>

Next ==
  \/ DriverMoves \/ DriverFaults \/ WorkerMoves \/ CoordinatorMoves
  \/ CoordinatorStarts \/ InstanceCrash \/ CoordinatorCrash
  \/ RouteLost \/ RouteBack \/ \E j \in Jobs : Expire(j)

Spec == Init /\ [][Next]_vars

\* The daemon loop polls the driver every 100 ms and the coordinator ticks
\* until its jobs are settled; a blocker of the restoration that is observed
\* again and again clears at last.  Nothing is assumed of workers or the route.
FairSpec ==
  Spec /\ WF_vars(DriverMoves) /\ WF_vars(CoordinatorMoves) /\ SF_vars(RestoreRetries)

-----------------------------------------------------------------------------
(* Properties.                                                             *)

\* The durable stage of the checkpoint always covers the live shaper: the
\* private topology only under a stage whose restoration removes it, a stopped
\* SQM never under the stage that says the baseline is back.  A crash at any
\* instruction leaves a stage from which the restoration undoes everything
\* (execute persists each stage around its kernel change).
DurableStageCoversLive ==
  store.checkpoint # None =>
    /\ sqm = "private" => store.checkpoint.stage \in {"LinkOwned", "Active"}
    /\ sqm = "down" => store.checkpoint.stage # "BaselineRestored"

\* While the shaper is stopped or replaced, or the private IFB exists, there is
\* a checkpoint that names the owner and a stage that deletes the IFB.
EveryOverrideIsCheckpointed ==
  /\ sqm \in {"down", "private"} => store.checkpoint # None
  /\ ifb # None => /\ store.checkpoint # None /\ store.checkpoint.job = ifb
                   /\ store.checkpoint.stage \in
                        {"ManagedSqmSuspended", "LinkOwned", "Active"}

\* Nobody removes the checkpoint before the runtime is back, unless the driver
\* went on with a request after it had announced REJECTED: the coordinator takes
\* that acknowledgement for the end of the request (poll_native_runtime_recoveries).
OverrideIsCheckpointed == ~readmitted => EveryOverrideIsCheckpointed

\* The worker and the coordinator act on acknowledgements alone: APPLIED means
\* the private topology is live as long as the driver is up, RESTORED for the
\* current request means neither the private topology nor its IFB is left
\* (unless the driver went on after a rejection).
AckIsTruthful ==
  LET ack == store.ack
      current == store.control \in {None, [job |-> ack.job, seq |-> ack.seq]}
      driverUp == ipc \notin {"off", "waiting", "startup"} /\ ~latched
  IN
  ack # None /\ ~readmitted =>
    /\ (ack.state = "Applied" /\ driverUp) => sqm = "private"
    /\ (ack.state = "Restored" /\ current) =>
         sqm \in {"managed", "configured"} /\ ifb # ack.job

\* A settled job owns nothing any more: no permit and no checkpoint names it,
\* the driver holds no session of it and its override is gone (again unless the
\* driver went on after a rejection).
SettledJobIsReleased ==
  \A j \in Jobs : job[j] = "settled" /\ ~readmitted =>
    /\ store.permit # j
    /\ store.checkpoint = None \/ store.checkpoint.job # j
    /\ session = None \/ session.job # j
    /\ ifb # j
    /\ sqm \in {"down", "private"} => store.checkpoint # None

\* Once the restore intent is durable, no poll starts to apply an override
\* (again), whatever it read before the intent was written.
NoApplyAfterIntent ==
  [][store.intent # None => ~(phase # "Applying" /\ phase' = "Applying")]_vars

\* The driver never declares the runtime unsafe once its checkpoint is gone:
\* what finalize_restored leaves behind after a crash is harmless.
LeftoverRecordsAreHarmless == store.checkpoint = None => ~latched

\* With the permit, the control and the checkpoint intact a restarted daemon
\* restores the baseline; it neither waits for ever nor gives up.
RestartIsRecoverable ==
  store.permit # None /\ store.control # None /\ store.checkpoint # None =>
    ~latched /\ ipc # "waiting"

\* When the worker of an armed job is gone, the driver restores the runtime
\* and the coordinator settles the job, unless the driver stopped at an
\* unsafe runtime or went on after a rejection.
GoneWorkerIsSettled ==
  \A j \in Jobs : job[j] = "recovering" ~> (job[j] = "settled" \/ latched \/ readmitted)
=============================================================================
