-------------------- MODULE RuntimeOverrideDriverProofs ---------------------
(***************************************************************************)
(* The inductive invariant of RuntimeOverride, and that the driver keeps   *)
(* it, for any set of jobs and any bounds.                                 *)
(*                                                                         *)
(* DurableStageCoversLive relates the checkpoint on disk to the kernel, two*)
(* things the driver never changes in one step.  The invariant IInv says   *)
(* what the driver knows between the two: which phase each place of its    *)
(* code belongs to, that its copy of the checkpoint is the one on disk as  *)
(* long as there is one, and what the kernel looks like before a stage is  *)
(* made durable.                                                           *)
(***************************************************************************)
EXTENDS RuntimeOverride, TLAPS

Executing == {"apply", "applyMark", "applyFailed", "attest", "restore", "restoreMark"}

\* The phase of the tracker at each place of the driver's code.
PhaseOfPlace ==
  /\ ipc \in {"off", "waiting", "startup", "accept", "finalize"} => phase = "Idle"
  /\ ipc \in {"load", "apply", "applyMark", "applyFailed", "attest"} => phase = "Applying"
  /\ ipc \in {"restore", "restoreMark"} => phase = "Restoring"
  /\ ipc = "tick" => phase \in {"Applying", "Applied"}

\* A session exists outside Idle, an accepted request was read completely, and
\* a worker past its first control has a sequence number.
SessionExists ==
  /\ phase # "Idle" => session # None
  /\ ipc = "accept" => view.permit # None /\ view.control # None
  /\ \A j \in Jobs : worker[j].pc \notin {"none", "begin", "gone"} => worker[j].seq # 0

\* The driver executes from the checkpoint that is on disk, if one still is.
CopyIsDurable ==
  ipc \in Executing => ckpt # None /\ store.checkpoint \in {None, ckpt}

\* Without a session, or after a restoration, the private topology is gone.
IdleIsClean ==
  /\ phase = "Idle" /\ ipc \notin {"off", "waiting"} => sqm # "private"
  /\ phase = "Restored" => sqm # "private"

\* Before a stage of the restoration is made durable the kernel has reached it.
RestoredBeforeMark ==
  ipc = "restoreMark" /\ store.checkpoint = ckpt =>
    /\ sqm # "private"
    /\ ckpt.stage = "TemporaryAbsent" => sqm # "down"

IInv ==
  /\ TypeOK /\ DurableStageCoversLive /\ PhaseOfPlace /\ SessionExists
  /\ CopyIsDurable /\ IdleIsClean /\ RestoredBeforeMark

-----------------------------------------------------------------------------
(* The record files.                                                       *)

\* Writing the ACK leaves the checkpoint alone.
LEMMA PublishAck ==
  ASSUME store \in RecordStore, NEW a \in Ack, Publish("ack", a)
  PROVE  store' \in RecordStore /\ store'.checkpoint = store.checkpoint
BY DEF Publish, RecordStore

\* Writing the checkpoint replaces it.
LEMMA PublishCheckpoint ==
  ASSUME store \in RecordStore, NEW c \in Checkpoint, Publish("checkpoint", c)
  PROVE  store' \in RecordStore /\ store'.checkpoint = c
BY DEF Publish, RecordStore

\* Writing the control leaves the checkpoint alone.
LEMMA PublishControlRecord ==
  ASSUME store \in RecordStore, NEW c \in Control, Publish("control", c)
  PROVE  store' \in RecordStore /\ store'.checkpoint = store.checkpoint
BY DEF Publish, RecordStore

\* Writing the restore intent leaves the checkpoint alone.
LEMMA PublishIntentRecord ==
  ASSUME store \in RecordStore, NEW c \in Control, Publish("intent", c)
  PROVE  store' \in RecordStore /\ store'.checkpoint = store.checkpoint
BY DEF Publish, RecordStore

\* Writing the permit leaves the checkpoint alone.
LEMMA PublishPermitRecord ==
  ASSUME store \in RecordStore, NEW j \in Jobs, Publish("permit", j)
  PROVE  store' \in RecordStore /\ store'.checkpoint = store.checkpoint
BY DEF Publish, RecordStore

\* Removing a record never makes another checkpoint appear.
LEMMA RemoveRecord ==
  ASSUME store \in RecordStore, NEW r \in Records, Remove(r)
  PROVE  store' \in RecordStore /\ store'.checkpoint \in {store.checkpoint, None}
<1>1. CASE r = "permit" BY <1>1 DEF Remove, RecordStore
<1>2. CASE r = "control" BY <1>2 DEF Remove, RecordStore
<1>3. CASE r = "intent" BY <1>3 DEF Remove, RecordStore
<1>4. CASE r = "ack" BY <1>4 DEF Remove, RecordStore
<1>5. CASE r = "checkpoint" BY <1>5 DEF Remove, RecordStore
<1>6. QED BY <1>1, <1>2, <1>3, <1>4, <1>5 DEF Records

\* An acknowledgement of a control is an acknowledgement record.
LEMMA AckOfType ==
  ASSUME NEW s \in AckStates, NEW c \in Control
  PROVE  AckOf(s, c) \in Ack
BY DEF AckOf, Ack, Control

-----------------------------------------------------------------------------
(* The outcomes the places of the driver share.                            *)

\* What a step of the driver leaves to the other processes.
Frame == /\ UNCHANGED <<worker, coordVars, route, expired, crashes, flaps>>
         /\ faults' \in Nat /\ readmitted' \in BOOLEAN

Reasons == {"none", "ControlMissing", "RouteDrift", "other"}

\* Ending a poll keeps the invariant.
LEMMA PollEndsKeeps ==
  ASSUME IInv, ipc \notin {"off", "waiting"}, PollEnds, Frame
  PROVE  IInv'
BY DEF IInv, TypeOK, DurableStageCoversLive, PhaseOfPlace, SessionExists, CopyIsDurable,
       IdleIsClean, RestoredBeforeMark, PollEnds, ToPoll, NoView, View, Frame, Executing,
       liveVars, trackerVars, coordVars

\* Latching the driver unsafe keeps the invariant.
LEMMA LatchKeeps ==
  ASSUME IInv, ipc \notin {"off", "waiting"}, Latch, Frame
  PROVE  IInv'
BY DEF IInv, TypeOK, DurableStageCoversLive, PhaseOfPlace, SessionExists, CopyIsDurable,
       IdleIsClean, RestoredBeforeMark, Latch, ToPoll, NoView, View, Frame, Executing,
       LiveSqm, trackerVars, coordVars

\* Rejecting a control keeps the invariant.
LEMMA RejectKeeps ==
  ASSUME IInv, ipc \notin {"off", "waiting"}, NEW c \in Control, Reject(c), Frame
  PROVE  IInv'
<1>1. store' \in RecordStore /\ store'.checkpoint = store.checkpoint
  BY PublishAck, AckOfType DEF Reject, IInv, TypeOK, AckStates
<1>2. QED
  BY <1>1 DEF IInv, TypeOK, DurableStageCoversLive, PhaseOfPlace, SessionExists,
     CopyIsDurable, IdleIsClean, RestoredBeforeMark, Reject, ToPoll, NoView, View, Frame,
     Executing, liveVars, trackerVars, coordVars

\* begin_restore keeps the invariant.
LEMMA BeginRestoreKeeps ==
  ASSUME IInv, NEW c \in Control, NEW why \in Reasons, BeginRestore(c, why), Frame
  PROVE  IInv'
<1>1. store' \in RecordStore /\ store'.checkpoint = store.checkpoint
  BY PublishAck, AckOfType DEF BeginRestore, IInv, TypeOK, AckStates
<1>2. store.checkpoint \in Checkpoint \cup {None}
  BY DEF IInv, TypeOK, RecordStore
<1>3. c # None
  BY NoneAssumption
<1>4. TypeOK'
  BY <1>1, <1>2 DEF IInv, TypeOK, BeginRestore, NoView, View, Frame, Reasons, liveVars, coordVars
<1>5. QED
  BY <1>1, <1>3, <1>4 DEF IInv, DurableStageCoversLive, PhaseOfPlace, SessionExists,
     CopyIsDurable, IdleIsClean, RestoredBeforeMark, BeginRestore, NoView, Frame,
     Executing, liveVars, coordVars

\* Turning a session to Applying keeps the invariant.
LEMMA BeginApplyKeeps ==
  ASSUME IInv, NEW c \in Control, BeginApply(c), Frame
  PROVE  IInv'
<1>1. store.checkpoint \in Checkpoint \cup {None}
  BY DEF IInv, TypeOK, RecordStore
<1>2. c # None
  BY NoneAssumption
<1>3. TypeOK'
  BY <1>1 DEF IInv, TypeOK, BeginApply, NoView, View, Frame, liveVars, coordVars
<1>4. QED
  BY <1>2, <1>3 DEF IInv, DurableStageCoversLive, PhaseOfPlace, SessionExists,
     CopyIsDurable, IdleIsClean, RestoredBeforeMark, BeginApply, NoView, Frame,
     Executing, liveVars, coordVars

-----------------------------------------------------------------------------
(* The driver, one lemma per place of its code that writes.                *)

\* A session that exists is a control.
LEMMA SessionType ==
  ASSUME IInv, phase # "Idle"
  PROVE  session \in Control
BY DEF IInv, TypeOK, SessionExists

\* Starting the instance daemon keeps the invariant.
LEMMA StartKeeps ==
  ASSUME IInv, InstanceStart, Frame
  PROVE  IInv'
BY DEF InstanceStart, LiveSqm, IInv, TypeOK, DurableStageCoversLive, PhaseOfPlace, SessionExists,
     CopyIsDurable, IdleIsClean, RestoredBeforeMark, Frame, Executing, liveVars,
     trackerVars, coordVars

\* reconcile_startup keeps the invariant.
LEMMA ReconcileKeeps ==
  ASSUME IInv, Reconcile, Frame
  PROVE  IInv'
<1>0. ipc = "startup"
  BY DEF Reconcile
<1>1. CASE PollEnds
  BY <1>0, <1>1, PollEndsKeeps
<1>2. CASE Latch
  BY <1>0, <1>2, LatchKeeps
<1>3. CASE \E c \in Control : BeginRestore(c, "other")
  BY <1>3, BeginRestoreKeeps DEF Reasons
<1>4. CASE /\ ipc' = "finalize" /\ itodo' = FinalizeOrder
           /\ UNCHANGED <<store, liveVars, trackerVars, view, ckpt, latched>>
  <2>1. FinalizeOrder \in Seq(Records)
    BY DEF FinalizeOrder, Records
  <2>2. QED
    BY <1>0, <1>4, <2>1 DEF IInv, TypeOK, DurableStageCoversLive, PhaseOfPlace, SessionExists,
     CopyIsDurable, IdleIsClean, RestoredBeforeMark, Frame, Executing, liveVars,
     trackerVars, coordVars
<1>5. store.intent \in Control \cup {None} /\ store.control \in Control \cup {None}
  BY DEF IInv, TypeOK, RecordStore
<1>6. QED
  BY <1>1, <1>2, <1>3, <1>4, <1>5 DEF Reconcile

\* Reading the records at the start of a poll keeps the invariant.
LEMMA PollReadKeeps ==
  ASSUME IInv, PollRead, Frame
  PROVE  IInv'
<1>1. view' \in View
  BY DEF PollRead, IInv, TypeOK, RecordStore, View
<1>2. QED
  BY <1>1 DEF PollRead, IInv, TypeOK, DurableStageCoversLive, PhaseOfPlace, SessionExists,
     CopyIsDurable, IdleIsClean, RestoredBeforeMark, Frame, Executing, liveVars,
     trackerVars, coordVars

\* The Idle arm of poll keeps the invariant.
LEMMA PollIdleKeeps ==
  ASSUME IInv, PollIdle, Frame
  PROVE  IInv'
<1>0. ipc = "decide" /\ phase = "Idle"
  BY DEF PollIdle
<1>1. CASE PollEnds
  BY <1>0, <1>1, PollEndsKeeps
<1>2. CASE view.control # None /\ Reject(view.control)
  <2>1. view.control \in Control
    BY <1>2 DEF IInv, TypeOK, View
  <2>2. QED
    BY <1>0, <1>2, <2>1, RejectKeeps
<1>3. CASE /\ view.permit # None /\ view.control # None /\ ipc' = "accept"
           /\ UNCHANGED <<store, liveVars, trackerVars, view, ckpt, latched, itodo>>
  BY <1>0, <1>3 DEF IInv, TypeOK, DurableStageCoversLive, PhaseOfPlace, SessionExists,
     CopyIsDurable, IdleIsClean, RestoredBeforeMark, Frame, Executing, liveVars,
     trackerVars, coordVars
<1>4. QED
  BY <1>1, <1>2, <1>3 DEF PollIdle

\* A poll that refuses the request at its last check, or cannot accept it, keeps
\* the invariant.
LEMMA IdleFaultKeeps ==
  ASSUME IInv, IdleDrift \/ AcceptFault, Frame
  PROVE  IInv'
<1>1. CASE AcceptFault
  BY <1>1, PollEndsKeeps DEF AcceptFault
<1>2. CASE IdleDrift
  <2>1. view.control \in Control
    BY <1>2 DEF IdleDrift, Admissible, IInv, TypeOK, View
  <2>2. QED
    BY <1>2, <2>1, RejectKeeps DEF IdleDrift
<1>3. QED
  BY <1>1, <1>2

\* A new session starts from a clean runtime, so Planned covers it.
LEMMA AcceptKeeps ==
  ASSUME IInv, Accept, Frame
  PROVE  IInv'
<1>1. view.permit \in Jobs /\ view.control \in Control
  BY DEF Accept, IInv, TypeOK, View, SessionExists
<1>2. [job |-> view.permit, stage |-> "Planned"] \in Checkpoint
  BY <1>1 DEF Checkpoint, Stages
<1>3. /\ store' \in RecordStore
      /\ store'.checkpoint = [job |-> view.permit, stage |-> "Planned"]
  BY <1>2, PublishCheckpoint DEF Accept, IInv, TypeOK
<1>4. sqm # "private" /\ sqm' = sqm
  BY DEF Accept, IInv, IdleIsClean, PhaseOfPlace, liveVars
<1>5. session' # None /\ session' \in Control
  BY <1>1, NoneAssumption DEF Accept
<1>6. TypeOK'
  BY <1>3, <1>5 DEF IInv, TypeOK, Accept, NoView, View, Frame, liveVars, coordVars
<1>7. DurableStageCoversLive'
  BY <1>3, <1>4 DEF DurableStageCoversLive
<1>8. QED
  BY <1>5, <1>6, <1>7 DEF IInv, PhaseOfPlace, SessionExists, CopyIsDurable,
     IdleIsClean, RestoredBeforeMark, Executing, Accept, Frame

\* The active arm of poll keeps the invariant.
LEMMA PollActiveKeeps ==
  ASSUME IInv, PollActive, Frame
  PROVE  IInv'
<1>0. ipc = "decide" /\ phase \in {"Applying", "Applied"}
  BY DEF PollActive
<1>1. session \in Control
  BY <1>0, SessionType
<1>2. CASE /\ ipc' = "tick"
           /\ UNCHANGED <<store, liveVars, trackerVars, view, ckpt, latched, itodo>>
  BY <1>0, <1>2 DEF IInv, TypeOK, DurableStageCoversLive, PhaseOfPlace, SessionExists,
     CopyIsDurable, IdleIsClean, RestoredBeforeMark, Frame, Executing, liveVars,
     trackerVars, coordVars
<1>3. CASE /\ view.control # None /\ ipc' = "tick"
           /\ \E s \in {"Rejected", "Applied"} : Publish("ack", AckOf(s, view.control))
           /\ UNCHANGED <<liveVars, trackerVars, view, ckpt, latched, itodo>>
  <2>1. view.control \in Control
    BY <1>3 DEF IInv, TypeOK, View
  <2>2. store' \in RecordStore /\ store'.checkpoint = store.checkpoint
    BY <1>3, <2>1, PublishAck, AckOfType DEF IInv, TypeOK, AckStates
  <2>3. QED
    BY <1>0, <1>3, <2>2 DEF IInv, TypeOK, DurableStageCoversLive, PhaseOfPlace, SessionExists,
     CopyIsDurable, IdleIsClean, RestoredBeforeMark, Frame, Executing, liveVars,
     trackerVars, coordVars
<1>4. CASE ToPoll /\ UNCHANGED <<store, liveVars, trackerVars, latched, itodo>>
  BY <1>0, <1>4, PollEndsKeeps DEF PollEnds
<1>5. CASE view.control # None /\ BeginApply(view.control)
  <2>1. view.control \in Control
    BY <1>5 DEF IInv, TypeOK, View
  <2>2. QED
    BY <1>5, <2>1, BeginApplyKeeps
<1>6. CASE BeginRestore(session, "other")
  BY <1>1, <1>6, BeginRestoreKeeps DEF Reasons
<1>7. QED
  BY <1>2, <1>3, <1>4, <1>5, <1>6 DEF PollActive

\* The tracker tick keeps the invariant.
LEMMA TickKeeps ==
  ASSUME IInv, Tick \/ TickDrift, Frame
  PROVE  IInv'
<1>1. ipc = "tick" /\ session \in Control
  BY SessionType DEF Tick, TickDrift, IInv, PhaseOfPlace
<1>2. CASE PollEnds
  BY <1>1, <1>2, PollEndsKeeps
<1>3. CASE \E why \in Reasons : BeginRestore(session, why)
  BY <1>1, <1>3, BeginRestoreKeeps
<1>4. QED
  BY <1>2, <1>3 DEF Tick, TickDrift, Reasons

\* The kernel changes under a durable stage that covers it already.
LEMMA ApplyStepKeeps ==
  ASSUME IInv, ApplyStep \/ ApplyFault, Frame
  PROVE  IInv'
<1>1. /\ ipc = "apply" /\ ApplyPossible /\ (ApplyMutation \/ UNCHANGED liveVars)
      /\ ipc' \in {"attest", "applyMark", "applyFailed"}
      /\ UNCHANGED <<store, trackerVars, view, ckpt, latched, itodo>>
  BY DEF ApplyStep, ApplyFault
<1>2. ckpt \in Checkpoint /\ store.checkpoint \in {None, ckpt} /\ phase = "Applying"
  BY <1>1 DEF IInv, TypeOK, CopyIsDurable, PhaseOfPlace, Executing
<1>3. ckpt.job \in Jobs /\ ckpt.stage \in Stages
  BY <1>2 DEF Checkpoint
<1>4. CASE UNCHANGED liveVars
  BY <1>1, <1>2, <1>4 DEF IInv, TypeOK, DurableStageCoversLive, PhaseOfPlace, SessionExists,
     CopyIsDurable, IdleIsClean, RestoredBeforeMark, Frame, Executing, liveVars,
     trackerVars, coordVars
<1>5. CASE ApplyMutation
  <2>1. \/ UNCHANGED liveVars
        \/ ckpt.stage = "Planned" /\ sqm' = "down" /\ ifb' = ifb
        \/ ckpt.stage = "ManagedSqmSuspended" /\ sqm' = sqm /\ ifb' = ckpt.job
        \/ ckpt.stage \in {"LinkOwned", "Active"} /\ sqm' = "private" /\ ifb' = ifb
    BY <1>1, <1>3, <1>5 DEF ApplyMutation, ApplyPossible, Stages, liveVars
  <2>2. sqm' \in LiveSqm /\ ifb' \in Jobs \cup {None}
    BY <1>3, <2>1 DEF IInv, TypeOK, LiveSqm, liveVars
  <2>3. DurableStageCoversLive'
    BY <1>1, <1>2, <2>1 DEF IInv, DurableStageCoversLive, liveVars
  <2>4. QED
    BY <1>1, <1>2, <2>2, <2>3 DEF IInv, TypeOK, PhaseOfPlace, SessionExists,
       CopyIsDurable, IdleIsClean, RestoredBeforeMark, Frame, Executing,
       trackerVars, coordVars
<1>6. QED
  BY <1>1, <1>4, <1>5

\* Making an apply stage durable keeps the invariant.
LEMMA ApplyMarkKeeps ==
  ASSUME IInv, ApplyMark, Frame
  PROVE  IInv'
<1> DEFINE next == [ckpt EXCEPT !.stage = NextApplyStage(ckpt.stage)]
<1>1. /\ ipc = "applyMark" /\ store.checkpoint = ckpt /\ Publish("checkpoint", next)
      /\ ckpt' = next /\ ipc' \in {"attest", "apply"}
      /\ UNCHANGED <<liveVars, trackerVars, view, latched, itodo>>
  BY DEF ApplyMark
<1>2. ckpt \in Checkpoint /\ phase = "Applying"
  BY <1>1 DEF IInv, TypeOK, CopyIsDurable, PhaseOfPlace, Executing
<1>3. /\ next \in Checkpoint
      /\ next.stage = NextApplyStage(ckpt.stage) /\ next # None
  BY <1>2, NoneAssumption DEF Checkpoint, NextApplyStage, Stages
<1>4. store' \in RecordStore /\ store'.checkpoint = next
  BY <1>1, <1>3, PublishCheckpoint DEF IInv, TypeOK
<1>5. DurableStageCoversLive'
  <2>1. /\ sqm' = sqm
        /\ sqm = "private" => ckpt.stage \in {"LinkOwned", "Active"}
    BY <1>1, <1>2, NoneAssumption DEF IInv, DurableStageCoversLive, liveVars
  <2>2. sqm = "private" => NextApplyStage(ckpt.stage) = "Active"
    BY <2>1 DEF NextApplyStage
  <2>3. NextApplyStage(ckpt.stage) # "BaselineRestored"
    BY <1>2 DEF NextApplyStage, Checkpoint, Stages
  <2>4. QED
    BY <1>3, <1>4, <2>1, <2>2, <2>3 DEF DurableStageCoversLive
<1> HIDE DEF next
<1>6. QED
  BY <1>1, <1>2, <1>3, <1>4, <1>5 DEF IInv, TypeOK, PhaseOfPlace, SessionExists,
     CopyIsDurable, IdleIsClean, RestoredBeforeMark, Frame, Executing, liveVars,
     trackerVars, coordVars

\* The end of execute(Apply), good or bad, keeps the invariant.
LEMMA ApplyEndsKeeps ==
  ASSUME IInv, ApplyLoad \/ ApplyFailed \/ ConfirmApplied, Frame
  PROVE  IInv'
<1>1. ipc \in {"load", "apply", "applyMark", "applyFailed", "attest"}
  BY DEF ApplyLoad, ApplyFailed, ConfirmApplied
<1>2. session \in Control /\ phase = "Applying"
  BY <1>1, SessionType DEF IInv, PhaseOfPlace
<1>3. CASE BeginApply(session)
  BY <1>2, <1>3, BeginApplyKeeps
<1>4. CASE BeginRestore(session, "other")
  BY <1>2, <1>4, BeginRestoreKeeps DEF Reasons
<1>5. CASE ConfirmApplied
  <2>1. store' \in RecordStore /\ store'.checkpoint = store.checkpoint
    BY <1>2, <1>5, PublishAck, AckOfType DEF ConfirmApplied, IInv, TypeOK, AckStates
  <2>2. QED
    BY <1>2, <1>5, <2>1 DEF ConfirmApplied, ToPoll, NoView, View, IInv, TypeOK, DurableStageCoversLive, PhaseOfPlace, SessionExists,
     CopyIsDurable, IdleIsClean, RestoredBeforeMark, Frame, Executing, liveVars,
     trackerVars, coordVars
<1>6. QED
  BY <1>3, <1>4, <1>5 DEF ApplyLoad, ApplyFailed

\* A restoration changes the kernel first and the stage afterwards.
LEMMA RestoreStepKeeps ==
  ASSUME IInv, RestoreRemove \/ RestoreBaseline, Frame
  PROVE  IInv'
<1>1. ipc = "restore"
  BY DEF RestoreRemove, RestoreBaseline
<1>2. ckpt \in Checkpoint /\ store.checkpoint \in {None, ckpt} /\ phase = "Restoring"
  BY <1>1 DEF IInv, TypeOK, CopyIsDurable, PhaseOfPlace, Executing
<1>3. CASE Latch
  BY <1>1, <1>3, LatchKeeps
<1>4. CASE /\ \/ ckpt.stage = "Planned" /\ UNCHANGED liveVars
              \/ ckpt.stage \notin {"Planned", "TemporaryAbsent", "BaselineRestored"}
                 /\ sqm' = "down" /\ ifb' = None
              \/ ckpt.stage = "TemporaryAbsent" /\ sqm' = "managed" /\ ifb' = ifb
           /\ ipc' = "restoreMark"
           /\ UNCHANGED <<store, trackerVars, view, ckpt, latched, itodo>>
  <2>1. sqm' \in LiveSqm /\ ifb' \in Jobs \cup {None}
    BY <1>4 DEF IInv, TypeOK, LiveSqm, liveVars
  <2>2. DurableStageCoversLive' /\ RestoredBeforeMark'
    BY <1>2, <1>4, NoneAssumption
    DEF IInv, DurableStageCoversLive, RestoredBeforeMark, liveVars
  <2>3. /\ ipc' = "restoreMark"
        /\ UNCHANGED <<store, trackerVars, view, ckpt, latched, itodo>>
    BY <1>4
  <2>4. TypeOK'
    BY <2>1, <2>3 DEF IInv, TypeOK, Frame, trackerVars, coordVars
  <2>5. QED
    BY <1>1, <1>2, <2>2, <2>3, <2>4 DEF IInv, PhaseOfPlace, SessionExists,
       CopyIsDurable, IdleIsClean, Frame, Executing, trackerVars
<1>5. QED
  BY <1>3, <1>4 DEF RestoreRemove, RestoreBaseline

\* Making a restore stage durable keeps the invariant.
LEMMA RestoreMarkKeeps ==
  ASSUME IInv, RestoreMark, Frame
  PROVE  IInv'
<1> DEFINE next == [ckpt EXCEPT !.stage = NextRestoreStage(ckpt.stage)]
<1>1. ipc = "restoreMark"
  BY DEF RestoreMark
<1>2. ckpt \in Checkpoint /\ phase = "Restoring"
  BY <1>1 DEF IInv, TypeOK, CopyIsDurable, PhaseOfPlace, Executing
<1>3. CASE Latch
  BY <1>1, <1>3, LatchKeeps
<1>4. CASE /\ store.checkpoint = ckpt /\ Publish("checkpoint", next)
           /\ ckpt' = next /\ ipc' = "restore"
           /\ UNCHANGED <<liveVars, trackerVars, view, latched, itodo>>
  <2>1. /\ next \in Checkpoint /\ next # None
        /\ next.stage = NextRestoreStage(ckpt.stage)
    BY <1>2, NoneAssumption DEF Checkpoint, NextRestoreStage, Stages
  <2>2. store' \in RecordStore /\ store'.checkpoint = next
    BY <1>4, <2>1, PublishCheckpoint DEF IInv, TypeOK
  <2>3. /\ sqm' = sqm /\ sqm # "private"
        /\ sqm = "down" => NextRestoreStage(ckpt.stage) = "TemporaryAbsent"
    BY <1>1, <1>4 DEF IInv, RestoredBeforeMark, NextRestoreStage, liveVars
  <2>4. DurableStageCoversLive'
    BY <2>1, <2>2, <2>3 DEF DurableStageCoversLive
  <2> HIDE DEF next
  <2>5. QED
    BY <1>2, <1>4, <2>1, <2>2, <2>4 DEF IInv, TypeOK, PhaseOfPlace, SessionExists,
       CopyIsDurable, IdleIsClean, RestoredBeforeMark, Frame, Executing, liveVars,
       trackerVars, coordVars
<1>5. QED
  BY <1>3, <1>4 DEF RestoreMark

\* confirm_restored keeps the invariant.
LEMMA ConfirmRestoredKeeps ==
  ASSUME IInv, ConfirmRestored, Frame
  PROVE  IInv'
<1>1. ipc = "restore" /\ phase = "Restoring"
  BY DEF ConfirmRestored, IInv, PhaseOfPlace
<1>2. CASE Latch
  BY <1>1, <1>2, LatchKeeps
<1>3. CASE /\ sqm = "managed" /\ phase' = "Restored" /\ blocked' = FALSE
           /\ Publish("ack", AckOf("Restored", session))
           /\ ToPoll /\ UNCHANGED <<liveVars, session, reason, latched, itodo>>
  <2>1. session \in Control
    BY <1>1, SessionType
  <2>2. store' \in RecordStore /\ store'.checkpoint = store.checkpoint
    BY <1>3, <2>1, PublishAck, AckOfType DEF IInv, TypeOK, AckStates
  <2>3. QED
    BY <1>1, <1>3, <2>2 DEF ToPoll, NoView, View, IInv, TypeOK, DurableStageCoversLive, PhaseOfPlace, SessionExists,
     CopyIsDurable, IdleIsClean, RestoredBeforeMark, Frame, Executing, liveVars,
     trackerVars, coordVars
<1>4. QED
  BY <1>2, <1>3 DEF ConfirmRestored

\* A restoration that fails or is blocked keeps the invariant.
LEMMA RestoreFaultKeeps ==
  ASSUME IInv, RestoreBlocked \/ RestoreUnsafe, Frame
  PROVE  IInv'
<1>1. CASE RestoreUnsafe
  BY <1>1, LatchKeeps DEF RestoreUnsafe
<1>2. CASE RestoreBlocked
  <2>1. ipc = "restore"
    BY <1>2 DEF RestoreBlocked
  <2>2. ckpt \in Checkpoint /\ store.checkpoint \in {None, ckpt} /\ phase = "Restoring"
    BY <2>1 DEF IInv, TypeOK, CopyIsDurable, PhaseOfPlace, Executing
  <2>3. sqm' \in LiveSqm /\ ifb' = ifb /\ store' = store
    BY <1>2 DEF RestoreBlocked, IInv, TypeOK, LiveSqm, liveVars
  <2>4. DurableStageCoversLive'
    BY <1>2, <2>2, <2>3 DEF RestoreBlocked, IInv, DurableStageCoversLive, liveVars
  <2>5. TypeOK'
    BY <1>2, <2>3 DEF IInv, TypeOK, RestoreBlocked, ToPoll, NoView, View, Frame, coordVars
  <2>6. QED
    BY <1>2, <2>2, <2>4, <2>5 DEF IInv, PhaseOfPlace, SessionExists, CopyIsDurable,
       IdleIsClean, RestoredBeforeMark, Executing, RestoreBlocked, ToPoll, Frame
<1>3. QED
  BY <1>1, <1>2

\* The Restoring arm of poll keeps the invariant.
LEMMA PollRestoringKeeps ==
  ASSUME IInv, PollRestoring, Frame
  PROVE  IInv'
<1>1. session \in Control /\ reason \in Reasons
  BY SessionType DEF PollRestoring, RetryRestore, StillBlocked, IInv, TypeOK, Reasons
<1>2. QED
  BY <1>1, BeginRestoreKeeps, PollEndsKeeps DEF PollRestoring, RetryRestore, StillBlocked

\* The Restored arm of poll keeps the invariant.
LEMMA PollRestoredKeeps ==
  ASSUME IInv, PollRestored, Frame
  PROVE  IInv'
<1>1. ipc = "decide" /\ phase = "Restored"
  BY DEF PollRestored
<1>2. session \in Control /\ sqm # "private"
  BY <1>1, SessionType DEF IInv, IdleIsClean
<1>3. CASE Unreadable \/ PollEnds
  BY <1>1, <1>3, LatchKeeps, PollEndsKeeps DEF Unreadable
<1>4. CASE view.control # None /\ (BeginApply(view.control) \/ Reject(view.control))
  <2>1. view.control \in Control
    BY <1>4 DEF IInv, TypeOK, View
  <2>2. QED
    BY <1>1, <1>4, <2>1, BeginApplyKeeps, RejectKeeps
<1>5. CASE /\ phase' = "Idle" /\ session' = None /\ reason' = "none"
           /\ ipc' = "finalize" /\ itodo' = FinalizeOrder /\ view' = NoView
           /\ UNCHANGED <<store, liveVars, ckpt, blocked, latched>>
  <2>1. FinalizeOrder \in Seq(Records)
    BY DEF FinalizeOrder, Records
  <2>2. QED
    BY SMTT(30), <1>2, <1>5, <2>1 DEF NoView, View, IInv, TypeOK, DurableStageCoversLive, PhaseOfPlace, SessionExists,
     CopyIsDurable, IdleIsClean, RestoredBeforeMark, Frame, Executing, liveVars,
     trackerVars, coordVars
<1>6. CASE /\ Publish("ack", AckOf("Restored", session))
           /\ ToPoll /\ UNCHANGED <<liveVars, trackerVars, latched, itodo>>
  <2>1. store' \in RecordStore /\ store'.checkpoint = store.checkpoint
    BY <1>2, <1>6, PublishAck, AckOfType DEF IInv, TypeOK, AckStates
  <2>2. QED
    BY SMTT(30), <1>1, <1>6, <2>1 DEF ToPoll, NoView, View, IInv, TypeOK, DurableStageCoversLive, PhaseOfPlace, SessionExists,
     CopyIsDurable, IdleIsClean, RestoredBeforeMark, Frame, Executing, liveVars,
     trackerVars, coordVars
<1>7. QED
  BY <1>3, <1>4, <1>5, <1>6 DEF PollRestored

\* finalize_restored keeps the invariant.
LEMMA FinalizeKeeps ==
  ASSUME IInv, Finalize, Frame
  PROVE  IInv'
<1>1. ipc = "finalize" /\ phase = "Idle" /\ itodo \in Seq(Records)
  BY DEF Finalize, IInv, PhaseOfPlace, TypeOK
<1>2. CASE itodo = << >>
  BY <1>1, <1>2, PollEndsKeeps DEF Finalize, PollEnds
<1>3. CASE itodo # << >>
  <2>1. Head(itodo) \in Records /\ Tail(itodo) \in Seq(Records)
    BY <1>1, <1>3
  <2>2. store' \in RecordStore /\ store'.checkpoint \in {store.checkpoint, None}
    BY <1>3, <2>1, RemoveRecord DEF Finalize, IInv, TypeOK
  <2>3. QED
    <3>1. /\ itodo' = Tail(itodo)
          /\ UNCHANGED <<ipc, view, ckpt, liveVars, trackerVars, latched>>
      BY <1>3 DEF Finalize
    <3>2. TypeOK'
      BY <2>1, <2>2, <3>1 DEF IInv, TypeOK, Frame, liveVars, trackerVars, coordVars
    <3>3. DurableStageCoversLive'
      BY <2>2, <3>1 DEF IInv, DurableStageCoversLive, liveVars
    <3>4. QED
      BY <1>1, <3>1, <3>2, <3>3 DEF IInv, PhaseOfPlace, SessionExists, CopyIsDurable,
         IdleIsClean, RestoredBeforeMark, Frame, Executing, liveVars, trackerVars
<1>4. QED
  BY <1>2, <1>3

\* Every step of the instance daemon keeps the invariant.
LEMMA DriverKeeps ==
  ASSUME IInv, DriverMoves \/ DriverFaults
  PROVE  IInv'
<1>1. Frame
  <2>1. faults \in Nat /\ readmitted \in BOOLEAN
    BY DEF IInv, TypeOK
  <2>2. CASE DriverMoves
    <3>1. readmitted' \in BOOLEAN
      BY <2>2, Zenon DEF DriverMoves
    <3>. QED BY <2>1, <2>2, <3>1 DEF DriverMoves, Frame, envVars
  <2>3. CASE DriverFaults
    BY <2>1, <2>3 DEF DriverFaults, Frame
  <2>. QED BY <2>2, <2>3
<1>2. InstanceStep \/ InstanceFault
  BY DEF DriverMoves, DriverFaults
<1>3. QED
  BY <1>1, <1>2, StartKeeps, ReconcileKeeps, PollReadKeeps, PollIdleKeeps, AcceptKeeps,
     PollActiveKeeps, TickKeeps, ApplyStepKeeps, ApplyMarkKeeps, ApplyEndsKeeps,
     RestoreStepKeeps, RestoreMarkKeeps, ConfirmRestoredKeeps, IdleFaultKeeps, RestoreFaultKeeps,
     PollRestoringKeeps, PollRestoredKeeps, FinalizeKeeps
  DEF InstanceStep, InstanceFault
=============================================================================
