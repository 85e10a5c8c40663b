----------------------- MODULE RuntimeOverrideProofs ------------------------
(***************************************************************************)
(* Theorems about RuntimeOverride, for any set of jobs and any bounds: the *)
(* type invariant and DurableStageCoversLive.  Worker, coordinator,        *)
(* crashes and the environment keep the invariant of the driver.           *)
(***************************************************************************)
EXTENDS RuntimeOverrideDriverProofs

(* The other processes and the environment.                                *)

\* Whatever the others do to the records, they leave the kernel and the driver
\* alone and add no checkpoint.
OthersEffect ==
  /\ store' \in RecordStore /\ store'.checkpoint \in {store.checkpoint, None}
  /\ UNCHANGED <<liveVars, drvVars>>

\* A step that touches neither kernel, tracker nor checkpoint keeps the relations.
LEMMA OthersKeepRelation ==
  ASSUME IInv, OthersEffect, TypeOK',
         \A j \in Jobs : worker'[j].pc \notin {"none", "begin", "gone"} => worker'[j].seq # 0
  PROVE  IInv'
<1>1. ipc \in Executing => ckpt # None
  BY DEF IInv, CopyIsDurable
<1>2. "restoreMark" \in Executing
  BY DEF Executing
<1>3. QED
  BY <1>1, <1>2 DEF OthersEffect, IInv, DurableStageCoversLive, PhaseOfPlace,
     SessionExists, CopyIsDurable, IdleIsClean, RestoredBeforeMark, liveVars, drvVars,
     trackerVars

\* Every step of a worker keeps the invariant.
LEMMA WorkerKeeps ==
  ASSUME IInv, WorkerMoves
  PROVE  IInv'
<1> DEFINE Places == {"none", "begin", "await", "measure", "rearmed",
                      "dropControl", "awaitRestored", "final", "gone"}
<1>1. PICK j \in Jobs : WorkerStep(j)
  BY DEF WorkerMoves
<1>2. /\ store \in RecordStore /\ worker \in [Jobs -> [pc : Places, seq : 0 .. MaxSeq]]
      /\ \A k \in Jobs : worker[k].pc \notin {"none", "begin", "gone"} => worker[k].seq # 0
  BY DEF IInv, TypeOK, SessionExists
<1>3. worker[j].seq \in 0 .. MaxSeq /\ worker[j].pc \in Places /\ MaxSeq \in Nat
  BY <1>2, SeqAssumption
<1> DEFINE Rest ==
      /\ worker' \in [Jobs -> [pc : Places, seq : 0 .. MaxSeq]]
      /\ \A k \in Jobs : worker'[k].pc \notin {"none", "begin", "gone"} => worker'[k].seq # 0
      /\ store' \in RecordStore /\ store'.checkpoint \in {store.checkpoint, None}
<1>4. ASSUME PublishControl(j) \/ Rearm(j)
      PROVE  Rest
  <2>1. worker[j].seq + 1 \in 1 .. MaxSeq
    BY <1>3, <1>4 DEF PublishControl, Rearm
  <2>2. [job |-> j, seq |-> worker[j].seq + 1] \in Control
    BY <2>1 DEF Control
  <2>3. store' \in RecordStore /\ store'.checkpoint = store.checkpoint
    BY <1>2, <1>4, <2>2, PublishControlRecord DEF PublishControl, Rearm
  <2>4. \E pc \in {"await", "rearmed"} :
          worker' = [worker EXCEPT ![j] = [pc |-> pc, seq |-> worker[j].seq + 1]]
    BY <1>2, <1>4 DEF PublishControl, Rearm
  <2>5. QED
    BY <1>2, <2>1, <2>3, <2>4
<1>5. ASSUME NEW pc \in Places, Goto(j, pc),
             pc \notin {"none", "begin", "gone"} => worker[j].seq # 0
      PROVE  /\ worker' \in [Jobs -> [pc : Places, seq : 0 .. MaxSeq]]
             /\ \A k \in Jobs :
                  worker'[k].pc \notin {"none", "begin", "gone"} => worker'[k].seq # 0
  BY <1>2, <1>5 DEF Goto
<1>6. ASSUME WaitApplied(j) \/ WaitRearmed(j) \/ FinishRestored(j) \/ WorkerStops(j)
      PROVE  Rest
  <2>1. /\ store' = store
        /\ \/ Goto(j, "gone")
           \/ worker[j].pc \in {"await", "rearmed"} /\ Goto(j, "measure")
    BY <1>6 DEF WaitApplied, WaitRearmed, FinishRestored, WorkerStops
  <2>2. QED
    BY <1>2, <1>5, <2>1
<1>7. ASSUME RequestRestore(j)
      PROVE  Rest
  <2>1. worker[j].pc = "measure" /\ Publish("intent", Current(j)) /\ Goto(j, "dropControl")
    BY <1>7 DEF RequestRestore
  <2>2. Current(j) \in Control
    BY <1>2, <1>3, <2>1 DEF Current, Control
  <2>3. QED
    BY <1>2, <1>5, <2>1, <2>2, PublishIntentRecord
<1>8. ASSUME DropControl(j) \/ ReleaseRestored(j)
      PROVE  Rest
  <2>1. /\ worker[j].pc \in {"dropControl", "awaitRestored"}
        /\ \E r \in Records : Remove(r)
        /\ Goto(j, "awaitRestored") \/ Goto(j, "final")
    BY <1>8 DEF DropControl, ReleaseRestored, Records
  <2>2. QED
    BY <1>2, <1>5, <2>1, RemoveRecord
<1>9. Rest
  BY <1>1, <1>4, <1>6, <1>7, <1>8 DEF WorkerStep
<1>10. UNCHANGED <<liveVars, drvVars, coordVars, envVars, readmitted>>
  BY DEF WorkerMoves
<1>11. TypeOK'
  BY <1>9, <1>10 DEF IInv, TypeOK, liveVars, drvVars, trackerVars, coordVars, envVars
<1>12. QED
  BY <1>9, <1>10, <1>11, OthersKeepRelation DEF OthersEffect

\* Every step of the coordinator keeps the invariant.
LEMMA CoordinatorKeeps ==
  ASSUME IInv, CoordinatorMoves \/ CoordinatorStarts
  PROVE  IInv'
<1> DEFINE JobStates == {"queued", "running", "recovering", "settled"}
           Rest ==
             /\ store' \in RecordStore /\ store'.checkpoint \in {store.checkpoint, None}
             /\ job' \in [Jobs -> JobStates] /\ cview' \in RecordStore
             /\ cpc' \in {"idle", "decide", "withdraw", "clear", "check"}
             /\ ctodo' \in Seq(Records)
<1>1. UNCHANGED <<liveVars, drvVars, envVars, readmitted>>
  BY DEF CoordinatorMoves, CoordinatorStarts
<1>2. /\ store \in RecordStore /\ job \in [Jobs -> JobStates] /\ cview \in RecordStore
      /\ cpc \in {"idle", "decide", "withdraw", "clear", "check"}
      /\ ctodo \in Seq(Records)
  BY DEF IInv, TypeOK
<1>3. EmptyStore \in RecordStore
  BY DEF EmptyStore, RecordStore
<1>4. WithdrawOrder \in Seq(Records) /\ ClearOrder \in Seq(Records)
  BY DEF WithdrawOrder, ClearOrder, Records
<1>5. ASSUME NEW j \in Jobs, ReapWorker(j)
      PROVE  Rest /\ worker' = worker
  BY <1>2, <1>5 DEF ReapWorker
<1>6. ASSUME NEW j \in Jobs, RecoveryRead(j)
      PROVE  Rest /\ worker' = worker
  BY <1>2, <1>6 DEF RecoveryRead
<1>7. ASSUME NEW j \in Jobs, RecoveryDecide(j)
      PROVE  Rest /\ worker' = worker
  <2>1. /\ store' = store /\ worker' = worker /\ job' = job
        /\ cview' \in {EmptyStore, cview}
        /\ cpc' \in {"withdraw", "clear", "check", "idle"}
        /\ ctodo' \in {WithdrawOrder, ClearOrder, ctodo}
    BY <1>7 DEF RecoveryDecide
  <2>2. QED
    BY <1>2, <1>3, <1>4, <2>1
<1>8. ASSUME NEW j \in Jobs, RecoverySettle(j)
      PROVE  Rest /\ worker' = worker
  BY <1>2, <1>3, <1>8 DEF RecoverySettle
<1>9. ASSUME RecoveryRemove
      PROVE  Rest /\ worker' = worker
  <2>1. CASE ctodo = << >>
    BY <1>2, <1>3, <1>9, <2>1 DEF RecoveryRemove
  <2>2. CASE ctodo # << >>
    <3>1. Head(ctodo) \in Records /\ Tail(ctodo) \in Seq(Records)
      BY <1>2, <2>2
    <3>2. store' \in RecordStore /\ store'.checkpoint \in {store.checkpoint, None}
      BY <1>2, <1>9, <2>2, <3>1, RemoveRecord DEF RecoveryRemove
    <3>3. QED
      BY <1>2, <1>9, <2>2, <3>1, <3>2 DEF RecoveryRemove
  <2>3. QED
    BY <2>1, <2>2
<1>10. ASSUME NEW j \in Jobs, PublishPermit(j)
       PROVE  Rest /\ worker' = [worker EXCEPT ![j] = [pc |-> "begin", seq |-> 0]]
  <2>1. store' \in RecordStore /\ store'.checkpoint = store.checkpoint
    BY <1>2, <1>10, PublishPermitRecord DEF PublishPermit
  <2>2. QED
    BY <1>2, <1>10, <2>1 DEF PublishPermit
<1>11. /\ Rest
       /\ \/ worker' = worker
          \/ \E j \in Jobs : worker' = [worker EXCEPT ![j] = [pc |-> "begin", seq |-> 0]]
  BY <1>5, <1>6, <1>7, <1>8, <1>9, <1>10
  DEF CoordinatorMoves, CoordinatorStep, CoordinatorStarts
<1>12. /\ worker' \in [Jobs -> [pc : {"none", "begin", "await", "measure", "rearmed",
                                     "dropControl", "awaitRestored", "final", "gone"},
                                seq : 0 .. MaxSeq]]
       /\ \A k \in Jobs : worker'[k].pc \notin {"none", "begin", "gone"} => worker'[k].seq # 0
  <2>1. CASE worker' = worker
    BY <2>1 DEF IInv, TypeOK, SessionExists
  <2>2. CASE \E j \in Jobs : worker' = [worker EXCEPT ![j] = [pc |-> "begin", seq |-> 0]]
    <3>1. PICK j \in Jobs : worker' = [worker EXCEPT ![j] = [pc |-> "begin", seq |-> 0]]
      BY <2>2
    <3>2. 0 \in 0 .. MaxSeq
      BY SeqAssumption
    <3>3. QED
      BY <3>1, <3>2 DEF IInv, TypeOK, SessionExists
  <2>3. QED
    BY <1>11, <2>1, <2>2
<1>13. TypeOK'
  BY <1>1, <1>11, <1>12 DEF IInv, TypeOK, liveVars, drvVars, trackerVars, envVars
<1>14. QED
  BY <1>1, <1>11, <1>12, <1>13, OthersKeepRelation DEF OthersEffect

\* Losing the instance daemon at any point keeps the invariant.
LEMMA InstanceCrashKeeps ==
  ASSUME IInv, InstanceCrash
  PROVE  IInv'
<1>1. << >> \in Seq(Records)
  OBVIOUS
<1>2. crashes' \in [instance : Nat, coordinator : Nat]
  <2>1. crashes \in [instance : Nat, coordinator : Nat]
    BY DEF IInv, TypeOK
  <2>2. crashes' = [crashes EXCEPT !.instance = @ + 1]
    BY DEF InstanceCrash
  <2>. QED BY <2>1, <2>2
<1>3. TypeOK'
  BY <1>1, <1>2 DEF InstanceCrash, IInv, TypeOK, NoView, View, liveVars, coordVars
<1>4. QED
  BY <1>3 DEF InstanceCrash, IInv, DurableStageCoversLive, PhaseOfPlace, SessionExists,
     CopyIsDurable, IdleIsClean, RestoredBeforeMark, Executing, liveVars

\* The coordinator's own restart, the route and the clock touch neither the
\* records nor the driver.
LEMMA EnvironmentKeeps ==
  ASSUME IInv, CoordinatorCrash \/ RouteLost \/ RouteBack \/ \E j \in Jobs : Expire(j)
  PROVE  IInv'
<1>1. UNCHANGED <<store, liveVars, drvVars, worker, readmitted>>
  BY DEF CoordinatorCrash, RouteLost, RouteBack, Expire
<1>2. EmptyStore \in RecordStore /\ << >> \in Seq(Records)
  BY DEF EmptyStore, RecordStore
<1>3. /\ job' \in [Jobs -> {"queued", "running", "recovering", "settled"}]
      /\ cpc' \in {"idle", "decide", "withdraw", "clear", "check"}
      /\ cview' \in RecordStore /\ ctodo' \in Seq(Records)
      /\ route' \in BOOLEAN /\ expired' \subseteq Jobs
      /\ crashes' \in [instance : Nat, coordinator : Nat]
      /\ flaps' \in Nat /\ faults' \in Nat
  <2>1. CASE CoordinatorCrash
    <3>1. crashes \in [instance : Nat, coordinator : Nat]
      BY DEF IInv, TypeOK
    <3>2. crashes' = [crashes EXCEPT !.coordinator = @ + 1]
      BY <2>1 DEF CoordinatorCrash
    <3>3. crashes' \in [instance : Nat, coordinator : Nat]
      BY <3>1, <3>2
    <3>. QED BY <1>2, <2>1, <3>3 DEF CoordinatorCrash, IInv, TypeOK
  <2>2. CASE RouteLost \/ RouteBack
    <3>1. flaps \in Nat
      BY DEF IInv, TypeOK
    <3>2. flaps' \in {flaps, flaps + 1}
      BY <2>2 DEF RouteLost, RouteBack
    <3>3. route' \in BOOLEAN
      BY <2>2 DEF RouteLost, RouteBack
    <3>4. flaps' \in Nat
      BY <3>1, <3>2
    <3>5. UNCHANGED <<coordVars, expired, crashes, faults>>
      BY <2>2 DEF RouteLost, RouteBack
    <3>6. QED
      BY <3>3, <3>4, <3>5 DEF IInv, TypeOK, coordVars
  <2>3. CASE \E j \in Jobs : Expire(j)
    BY <2>3 DEF Expire, IInv, TypeOK, coordVars
  <2>4. QED
    BY <2>1, <2>2, <2>3
<1>4. TypeOK'
  BY <1>1, <1>3 DEF IInv, TypeOK, liveVars, drvVars, trackerVars
<1>5. QED
  BY <1>1, <1>4, OthersKeepRelation DEF OthersEffect, IInv, SessionExists, TypeOK

-----------------------------------------------------------------------------
(* The theorems.                                                           *)

\* An idle instance satisfies the invariant.
LEMMA InitEstablishes == Init => IInv
<1>1. << >> \in Seq(Records) /\ EmptyStore \in RecordStore /\ NoView \in View
  BY DEF EmptyStore, RecordStore, NoView, View
<1>2. EmptyStore.checkpoint = None
  BY DEF EmptyStore
<1>3. 0 \in 0 .. MaxSeq
  BY SeqAssumption
<1>4. Init => TypeOK
  <2>1. /\ [j \in Jobs |-> [pc |-> "none", seq |-> 0]] \in
             [Jobs -> [pc : {"none", "begin", "await", "measure", "rearmed",
                             "dropControl", "awaitRestored", "final", "gone"},
                       seq : 0 .. MaxSeq]]
        /\ [j \in Jobs |-> "queued"] \in
             [Jobs -> {"queued", "running", "recovering", "settled"}]
        /\ [instance |-> 0, coordinator |-> 0] \in [instance : Nat, coordinator : Nat]
    BY <1>3
  <2>2. QED
    BY <1>1, <2>1 DEF Init, TypeOK, LiveSqm
<1>5. QED
  BY <1>2, <1>4 DEF Init, IInv, DurableStageCoversLive, PhaseOfPlace, SessionExists,
     CopyIsDurable, IdleIsClean, RestoredBeforeMark, Executing

\* So does doing nothing.
LEMMA StutterKeeps == IInv /\ UNCHANGED vars => IInv'
<1>. SUFFICES ASSUME IInv, UNCHANGED vars PROVE IInv'
  OBVIOUS
<1>. USE DEF vars, liveVars, drvVars, trackerVars, coordVars, envVars
<1>1. TypeOK'
  BY DEF IInv, TypeOK
<1>2. DurableStageCoversLive' /\ RestoredBeforeMark'
  BY DEF IInv, DurableStageCoversLive, RestoredBeforeMark
<1>3. PhaseOfPlace' /\ SessionExists'
  BY DEF IInv, PhaseOfPlace, SessionExists
<1>4. CopyIsDurable' /\ IdleIsClean'
  BY DEF IInv, CopyIsDurable, IdleIsClean
<1>5. QED
  BY <1>1, <1>2, <1>3, <1>4 DEF IInv

\* The inductive invariant behind the other theorems: at every place of its
\* code the driver's copy of the checkpoint, the kernel and the phase agree.
THEOREM IInvHolds == Spec => []IInv
<1>1. IInv /\ [Next]_vars => IInv'
  BY DriverKeeps, WorkerKeeps, CoordinatorKeeps, InstanceCrashKeeps, EnvironmentKeeps,
     StutterKeeps DEF Next
<1>2. QED
  BY <1>1, InitEstablishes, PTL DEF Spec

\* Every record, every place and every phase stays within its type.
THEOREM TypeCorrect == Spec => []TypeOK
BY IInvHolds, PTL DEF IInv

\* Whatever crashes, faults, flaps and interleavings occur, the stage on disk
\* covers the live shaper: a restart always finds a stage whose restoration
\* undoes what the driver did to the kernel.
THEOREM DurableStage == Spec => []DurableStageCoversLive
BY IInvHolds, PTL DEF IInv
=============================================================================
