------------------------ MODULE JobCoordinatorProofs ------------------------
(***************************************************************************)
(* Proofs about JobCoordinator: type correctness, that every override is   *)
(* journalled, and that a terminal journal is final, for any set of jobs,  *)
(* any leases and any number of crashes and failed writes.                 *)
(***************************************************************************)
EXTENDS JobCoordinator, TLAPS

Known(j) == disp[j] \in Dispositions
Ended(r) == r.state \in Terminals

\* A job the coordinator knows has a journal on disk that agrees with the one
\* in memory on what recovery depends on, although the stop reason and the
\* Cancelling state may be ahead in memory.  While it is up it knows every
\* journal; while it is down it knows none.
MemoryAgrees ==
  \A j \in Jobs :
    IF Known(j)
    THEN /\ mem[j] \in Journal /\ disk[j] \in Journal
         /\ mem[j].mutated = disk[j].mutated
         /\ Ended(mem[j]) <=> Ended(disk[j])
         /\ ~At("down")
    ELSE At("down") \/ disk[j] \in {None, Debris}

\* A journal that has not started, or has ended, has nothing to recover.
EndedIsInert ==
  \A j \in Jobs :
    /\ disk[j] \in Journal /\ (Ended(disk[j]) \/ disk[j].state = "Queued") => ~disk[j].mutated
    /\ Known(j) /\ mem[j].state = "Queued" => ~mem[j].mutated

\* What the disposition says about the journal.
DispositionIsTrue ==
  \A j \in Jobs :
    /\ Known(j) => (disp[j] = "Settled" <=> Ended(mem[j]))
    /\ disp[j] \in {"Queued", "Launching"} => ~mem[j].process /\ ~mem[j].mutated
    /\ disp[j] = "DeadBeforeMutation" => ~mem[j].mutated

\* A worker is only being stopped for a job that is Cancelling.
PendingIsStopping ==
  \A j \in pending :
    /\ disp[j] \in {"LiveProcess", "RecoveryRequired", "DeadBeforeMutation"}
    /\ mem[j].state = "Cancelling"

\* What a handler that was interrupted by other processes still relies on.
HandlerContext ==
  LET j == at.job IN
    /\ at.place \notin {"idle", "down"} => j \in Jobs /\ Known(j) /\ ~Ended(mem[j])
    /\ at.place \in {"arm", "failQueued"} => disp[j] = "Queued"
    /\ at.place \in {"spawn", "attach", "launchFail"} => disp[j] = "Launching"
    /\ at.place \in {"permit", "exited"}
         => disp[j] = "LiveProcess" /\ mem[j].state = "Running" /\ ~mem[j].mutated
    /\ at.place \in {"rtPermit", "opPermit", "failArmed"}
         => disp[j] = "LiveProcess" /\ mem[j].state = "Running" /\ mem[j].mutated

\* An override in progress is in the store of its job's own instance.
OverrideOwner ==
  \A i \in Instances : runtime[i].stage # "idle" =>
    runtime[i].job \in Jobs /\ Instance[runtime[i].job] = i

Relations ==
  /\ MemoryAgrees /\ EndedIsInert /\ DispositionIsTrue /\ PendingIsStopping
  /\ OverrideOwner /\ MutationIsJournalled

IInv == TypeOK /\ Relations /\ HandlerContext

\* What a step does not do: TerminalIsFinal for one step.
TerminalsStay ==
  \A j \in Jobs : disk[j] \in Journal /\ Ended(disk[j]) => disk'[j] \in {disk[j], None}

\* TypeOK in three parts.
JournalType ==
  /\ disk \in [Jobs -> Journal \cup {None, Debris}]
  /\ mem \in [Jobs -> Journal \cup {None}]
  /\ disp \in [Jobs -> Dispositions \cup {"absent", "retired"}]
  /\ leases \in [Jobs -> SUBSET Keys]
  /\ pending \in SUBSET Jobs /\ issues \in BOOLEAN
ProcessType ==
  /\ at \in [place : Places, job : Jobs \cup {None}]
  /\ worker \in [Jobs -> {"none", "parked", "active", "exited"}]
  /\ permit \in [Jobs -> BOOLEAN]
  /\ result \in [Jobs -> Results]
  /\ runtime \in [Instances -> [job : Jobs \cup {None}, stage : Stages]]
CountType ==
  orphaned \in SUBSET Jobs /\ restarts \in 0..MaxRestarts /\ faults \in 0..MaxFaults

----------------------------------------------------------------------------
\* Most leaves are first-order; the ones that need arithmetic, records or functions cite SMT.
USE Zenon

\* The type invariant, split by what a step usually changes together.
LEMMA TypeParts == TypeOK <=> JournalType /\ ProcessType /\ CountType
  BY DEF TypeOK, JournalType, ProcessType, CountType

\* A daemon that has just bound an empty state directory satisfies it.
LEMMA InitIInv == Init => IInv
<1>. SUFFICES ASSUME Init PROVE IInv
  OBVIOUS
<1>1. TypeOK
  <2>1. orphaned \in SUBSET Jobs /\ restarts \in 0..MaxRestarts /\ faults \in 0..MaxFaults
    BY LimitAssumption, SMT DEF Init
  <2>2. runtime \in [Instances -> [job : Jobs \cup {None}, stage : Stages]]
    BY DEF Init, Stages
  <2>3. at \in [place : Places, job : Jobs \cup {None}]
    BY DEF Init, Idle, Places
  <2>4. permit \in [Jobs -> BOOLEAN] /\ result \in [Jobs -> Results] /\ issues \in BOOLEAN
    BY DEF Init, Results
  <2>. QED BY <2>1, <2>2, <2>3, <2>4 DEF Init, TypeOK
<1>2. MemoryAgrees /\ EndedIsInert /\ DispositionIsTrue
  BY NoJournalAssumption DEF Init, MemoryAgrees, EndedIsInert, DispositionIsTrue, Known,
     Dispositions, Ended
<1>3. PendingIsStopping /\ HandlerContext /\ OverrideOwner /\ MutationIsJournalled
  BY DEF Init, PendingIsStopping, HandlerContext, OverrideOwner, MutationIsJournalled, Idle
<1>. QED BY <1>1, <1>2, <1>3 DEF IInv, Relations

\* What the journal constructors (queued, transition, settle) return is a journal.
LEMMA RecordsAreJournals ==
  /\ Queued \in Journal /\ ~Ended(Queued) /\ ~Queued.mutated /\ ~Queued.process
  /\ \A next \in Terminals :
       /\ Terminated(next) \in Journal /\ Ended(Terminated(next))
       /\ ~Terminated(next).mutated
  /\ \A r \in Journal, diag \in Diagnostics :
       /\ RequireRecovery(r, diag) \in Journal
       /\ RequireRecovery(r, diag).mutated
       /\ RequireRecovery(r, diag).state = "Recovering"
  BY DEF Queued, Terminated, RequireRecovery, Journal, States, Terminals, Diagnostics, Ended

\* A step that replaces the journal of one known job keeps every relation of
\* the invariant but the handler's own, if the new record is consistent in
\* itself and keeps the mutation bit of a job with an override in progress.
LEMMA JournalStep ==
  ASSUME IInv, NEW j \in Jobs, NEW d \in Journal, NEW m \in Journal, NEW D \in Dispositions,
         Known(j), ~Ended(mem[j]), at'.place # "down",
         disk' = [disk EXCEPT ![j] = d], mem' = [mem EXCEPT ![j] = m],
         disp' = [disp EXCEPT ![j] = D],
         m.mutated = d.mutated, Ended(m) <=> Ended(d), Ended(d) => ~d.mutated,
         d.state = "Queued" => ~d.mutated, m.state = "Queued" => ~m.mutated,
         D = "Settled" <=> Ended(m),
         D \in {"Queued", "Launching"} => ~m.process /\ ~m.mutated,
         D = "DeadBeforeMutation" => ~m.mutated,
         \A k \in pending' : IF k = j
            THEN D \in {"LiveProcess", "RecoveryRequired", "DeadBeforeMutation"}
                   /\ m.state = "Cancelling"
            ELSE k \in pending,
         \A i \in Instances : runtime'[i].stage # "idle" =>
            /\ runtime[i].stage # "idle" /\ runtime'[i].job = runtime[i].job
            /\ runtime[i].job = j => d.mutated /\ ~Ended(d)
  PROVE  Relations' /\ TerminalsStay
<1>1. /\ disk \in [Jobs -> Journal \cup {None, Debris}] /\ mem \in [Jobs -> Journal \cup {None}]
      /\ disp \in [Jobs -> Dispositions \cup {"absent", "retired"}] /\ pending \subseteq Jobs
  BY DEF IInv, Relations, TypeOK
<1>2. ~At("down")
  BY DEF IInv, Relations, MemoryAgrees
<1>3. MemoryAgrees'
  BY <1>1, <1>2 DEF IInv, Relations, MemoryAgrees, Known, At
<1>4. EndedIsInert'
  BY <1>1 DEF IInv, Relations, EndedIsInert, Known
<1>5. DispositionIsTrue'
  BY <1>1 DEF IInv, Relations, DispositionIsTrue, Known
<1>6. PendingIsStopping'
  BY <1>1 DEF IInv, Relations, PendingIsStopping
<1>7. OverrideOwner'
  BY DEF IInv, Relations, OverrideOwner
<1>8. MutationIsJournalled'
  BY <1>1, NoJournalAssumption, SMT
     DEF IInv, Relations, OverrideOwner, MutationIsJournalled, Unfinished, IsJournal, Ended
<1>9. TerminalsStay
  BY <1>1 DEF IInv, Relations, MemoryAgrees, TerminalsStay
<1>. QED BY <1>3, <1>4, <1>5, <1>6, <1>7, <1>8, <1>9 DEF Relations

\* A step that touches no journal keeps them too, if an override it starts is
\* already journalled.
LEMMA FrameStep ==
  ASSUME IInv, disk' = disk, mem' = mem, disp' = disp,
         (at'.place = "down") <=> (at.place = "down"),
         pending' \subseteq Jobs,
         \A k \in pending' :
            \/ k \in pending
            \/ /\ disp[k] \in {"LiveProcess", "RecoveryRequired", "DeadBeforeMutation"}
               /\ mem[k].state = "Cancelling",
         \A i \in Instances : runtime'[i].stage # "idle" =>
            \/ runtime[i].stage # "idle" /\ runtime'[i].job = runtime[i].job
            \/ /\ runtime'[i].job \in Jobs /\ Instance[runtime'[i].job] = i
               /\ disk[runtime'[i].job] \in Journal /\ disk[runtime'[i].job].mutated
               /\ ~Ended(disk[runtime'[i].job])
  PROVE  Relations' /\ TerminalsStay
<1>1. MemoryAgrees' /\ EndedIsInert' /\ DispositionIsTrue'
  BY DEF IInv, Relations, MemoryAgrees, EndedIsInert, DispositionIsTrue, Known, At
<1>2. PendingIsStopping'
  BY DEF IInv, Relations, PendingIsStopping
<1>3. OverrideOwner'
  BY SMT DEF IInv, Relations, OverrideOwner
<1>4. MutationIsJournalled'
  BY NoJournalAssumption, SMT
     DEF IInv, Relations, OverrideOwner, MutationIsJournalled, Unfinished, IsJournal, Ended
<1>. QED BY <1>1, <1>2, <1>3, <1>4 DEF Relations, TerminalsStay

\* A job with an override in progress is mutated and has not ended.
LEMMA OverrideIsMutated ==
  ASSUME IInv, NEW i \in Instances, runtime[i].stage # "idle", Known(runtime[i].job)
  PROVE  /\ runtime[i].job \in Jobs /\ Instance[runtime[i].job] = i
         /\ mem[runtime[i].job].mutated
  BY DEF IInv, Relations, OverrideOwner, MutationIsJournalled, MemoryAgrees

\* A journal write, failed or not, keeps the counters within their limits.
LEMMA WritesType ==
  ASSUME CountType, NEW ok \in BOOLEAN, Writes(ok), orphaned' = orphaned, restarts' = restarts
  PROVE  CountType'
  BY LimitAssumption, SMT DEF CountType, Writes

\* A job goes on with a new record that has not ended.
LEMMA RecordStep ==
  ASSUME IInv, NEW j \in Jobs, NEW r \in Journal, NEW D \in Dispositions,
         Known(j), ~Ended(mem[j]), ~Ended(r), at'.place # "down",
         Persist(j, r), disp' = [disp EXCEPT ![j] = D], runtime' = runtime,
         mem[j].mutated => r.mutated, r.state = "Queued" => ~r.mutated, D # "Settled",
         D \in {"Queued", "Launching"} => ~r.process /\ ~r.mutated,
         D = "DeadBeforeMutation" => ~r.mutated,
         \A k \in pending' : IF k = j
            THEN D \in {"LiveProcess", "RecoveryRequired", "DeadBeforeMutation"}
                   /\ r.state = "Cancelling"
            ELSE k \in pending,
         leases' \in [Jobs -> SUBSET Keys], pending' \in SUBSET Jobs, issues' \in BOOLEAN
  PROVE  JournalType' /\ Relations' /\ TerminalsStay
<1>1. disk' = [disk EXCEPT ![j] = r] /\ mem' = [mem EXCEPT ![j] = r]
  BY DEF Persist
<1>2. \A i \in Instances : runtime[i].stage # "idle" /\ runtime[i].job = j => r.mutated
  BY OverrideIsMutated
<1>3. Relations' /\ TerminalsStay
  BY <1>1, <1>2, JournalStep
<1>4. JournalType'
  BY <1>1 DEF IInv, TypeOK, JournalType
<1>. QED BY <1>3, <1>4

\* A job ends; its runtime was never touched, or its override is idle again.
LEMMA SettleStep ==
  ASSUME IInv, NEW j \in Jobs, NEW next \in Terminals, Known(j), ~Ended(mem[j]),
         Settle(j, next), at'.place # "down", pending' \subseteq pending, j \notin pending',
         \A i \in Instances : runtime'[i].stage # "idle" =>
            /\ runtime[i].stage # "idle" /\ runtime'[i].job = runtime[i].job
            /\ runtime[i].job # j
  PROVE  JournalType' /\ Relations' /\ TerminalsStay
<1>. DEFINE r == Terminated(next)
<1>1. r \in Journal /\ Ended(r) /\ ~r.mutated
  BY RecordsAreJournals
<1>2. /\ disk' = [disk EXCEPT ![j] = r] /\ mem' = [mem EXCEPT ![j] = r]
      /\ disp' = [disp EXCEPT ![j] = "Settled"] /\ "Settled" \in Dispositions
      /\ leases' = [leases EXCEPT ![j] = {}] /\ issues' \in BOOLEAN
  BY DEF Settle, Persist, Dispositions, IInv, TypeOK
<1>. HIDE DEF r
<1>3. Relations' /\ TerminalsStay
  BY <1>1, <1>2, JournalStep
<1>4. JournalType'
  BY <1>1, <1>2 DEF IInv, TypeOK, JournalType
<1>. QED BY <1>3, <1>4

\* Settling a job that never reached runtime mutation keeps the relations.
LEMMA CleanSettleStep ==
  ASSUME IInv, NEW j \in Jobs, NEW next \in Terminals, Known(j), ~Ended(mem[j]),
         ~mem[j].mutated, Settle(j, next), at'.place # "down",
         pending' \subseteq pending, j \notin pending', runtime' = runtime
  PROVE  JournalType' /\ Relations' /\ TerminalsStay
<1>1. \A i \in Instances : runtime[i].stage # "idle" => runtime[i].job # j
  BY OverrideIsMutated
<1>. QED BY <1>1, SettleStep

\* A failed write that changes no journal.
LEMMA IssueStep ==
  ASSUME IInv, at.place # "down", at'.place # "down", issues' \in BOOLEAN,
         disk' = disk, mem' = mem, disp' = disp, leases' = leases,
         runtime' = runtime, pending' \subseteq pending
  PROVE  JournalType' /\ Relations' /\ TerminalsStay
<1>1. JournalType'
  BY DEF IInv, TypeOK, JournalType
<1>2. pending' \subseteq Jobs
  BY <1>1 DEF JournalType
<1>3. Relations' /\ TerminalsStay
  BY <1>2, FrameStep
<1>. QED BY <1>1, <1>3

\* settle_native_after_exit only ever picks a terminal state.
LEMMA ExitStateType ==
  ASSUME NEW j \in Jobs, NEW fallback \in Terminals PROVE ExitState(j, fallback) \in Terminals
  BY DEF ExitState, Terminals

\* settle_native_after_exit keeps the relations.
LEMMA SettleAfterExitStep ==
  ASSUME IInv, NEW j \in Jobs, NEW ok \in BOOLEAN, NEW fallback \in Terminals,
         SettleAfterExit(j, fallback, ok), Known(j), ~Ended(mem[j]), ~mem[j].mutated,
         at.place # "down", at'.place # "down",
         pending' \subseteq pending, j \notin pending', runtime' = runtime
  PROVE  JournalType' /\ Relations' /\ TerminalsStay /\ permit' \in [Jobs -> BOOLEAN]
<1>1. permit' \in [Jobs -> BOOLEAN]
  BY DEF SettleAfterExit, IInv, TypeOK
<1>2. CASE Settle(j, ExitState(j, fallback))
  BY <1>1, <1>2, ExitStateType, CleanSettleStep
<1>3. CASE Unsettled
  BY <1>1, <1>3, IssueStep DEF Unsettled, IInv, TypeOK
<1>. QED BY <1>2, <1>3 DEF SettleAfterExit

\* Handing a mutated job over to recovery keeps the relations.
LEMMA EnterRecoveryStep ==
  ASSUME IInv, NEW j \in Jobs, NEW ok \in BOOLEAN, NEW diag \in Diagnostics,
         EnterRecovery(j, diag, ok), Known(j), ~Ended(mem[j]),
         at.place # "down", at'.place # "down",
         pending' \subseteq pending, j \notin pending', runtime' = runtime
  PROVE  JournalType' /\ Relations' /\ TerminalsStay
<1>. DEFINE r == RequireRecovery(mem[j], diag)
<1>1. r \in Journal /\ ~Ended(r) /\ r.mutated /\ r.state # "Queued"
  BY RecordsAreJournals DEF IInv, Relations, MemoryAgrees, Ended, Terminals
<1>2. CASE /\ Persist(j, r) /\ disp' = [disp EXCEPT ![j] = "RecoveryRequired"]
           /\ leases' = leases /\ issues' = issues
  <2>. HIDE DEF r
  <2>1. "RecoveryRequired" \in Dispositions /\ pending' \in SUBSET Jobs
          /\ leases' \in [Jobs -> SUBSET Keys] /\ issues' \in BOOLEAN
    BY <1>2 DEF Dispositions, IInv, TypeOK
  <2>. QED BY <1>1, <1>2, <2>1, RecordStep
<1>3. CASE issues' = TRUE /\ UNCHANGED <<disk, mem, disp, leases>>
  BY <1>3, IssueStep
<1>. QED BY <1>2, <1>3 DEF EnterRecovery

\* mark_recovery_required keeps the relations.
LEMMA MarkRecoveryStep ==
  ASSUME IInv, NEW j \in Jobs, NEW ok \in BOOLEAN,
         MarkRecovery(j, ok), Known(j), ~Ended(mem[j]),
         at.place # "down", at'.place # "down",
         pending' \subseteq pending, j \notin pending', runtime' = runtime
  PROVE  JournalType' /\ Relations' /\ TerminalsStay
<1>1. PICK diag \in Diagnostics : EnterRecovery(j, diag, ok)
  BY DEF MarkRecovery, Diagnostics
<1>. QED BY <1>1, EnterRecoveryStep

\* finish_live_cancellation keeps the relations.
LEMMA FinishCancellationStep ==
  ASSUME IInv, NEW j \in Jobs, NEW ok \in BOOLEAN,
         FinishCancellation(j, ok), Known(j), ~Ended(mem[j]),
         at.place # "down", at'.place # "down", runtime' = runtime
  PROVE  JournalType' /\ Relations' /\ TerminalsStay /\ permit' \in [Jobs -> BOOLEAN]
<1>1. pending' \subseteq pending /\ j \notin pending'
  BY DEF FinishCancellation
<1>2. CASE mem[j].mutated
  <2>1. MarkRecovery(j, ok) /\ permit' = permit
    BY <1>2 DEF FinishCancellation
  <2>. QED BY <1>1, <2>1, MarkRecoveryStep DEF IInv, TypeOK
<1>3. CASE ~mem[j].mutated
  <2>1. PICK fallback \in Terminals : SettleAfterExit(j, fallback, ok)
    BY <1>3 DEF FinishCancellation, Terminals
  <2>. QED BY <1>1, <1>3, <2>1, SettleAfterExitStep
<1>. QED BY <1>2, <1>3

----------------------------------------------------------------------------
(* One lemma per action.                                                   *)

\* The parts of the invariant, put back together.
LEMMA Assembled ==
  ASSUME JournalType', ProcessType', CountType', Relations', HandlerContext'
  PROVE  IInv'
  BY DEF IInv, TypeOK, JournalType, ProcessType, CountType

\* Between handlers, and while the daemon is down, no handler relies on anything.
LEMMA NoContext ==
  ASSUME at'.place \in {"idle", "down"} PROVE HandlerContext'
  BY DEF HandlerContext

\* The invariant, taken apart.
LEMMA Parts ==
  ASSUME IInv PROVE JournalType /\ ProcessType /\ CountType /\ Relations /\ HandlerContext
  BY TypeParts DEF IInv

\* A job whose record the coordinator holds and that has not ended.
LEMMA KnownRecord ==
  ASSUME IInv, NEW j \in Jobs, Known(j)
  PROVE  /\ mem[j] \in Journal /\ disk[j] \in Journal /\ ~At("down") /\ disp[j] \in Dispositions
         /\ mem[j].mutated = disk[j].mutated /\ (Ended(mem[j]) <=> Ended(disk[j]))
  BY DEF IInv, Relations, MemoryAgrees, Known

\* fail_queued_before_mutation keeps the relations.
LEMMA FailQueuedStep ==
  ASSUME IInv, NEW j \in Jobs, NEW ok \in BOOLEAN, disp[j] = "Queued",
         FailQueued(j, ok), at'.place # "down"
  PROVE  JournalType' /\ Relations' /\ TerminalsStay
<1>1. /\ Known(j) /\ ~Ended(mem[j]) /\ ~mem[j].mutated /\ at.place # "down"
      /\ j \notin pending /\ pending' = pending /\ runtime' = runtime
  BY KnownRecord DEF IInv, Relations, DispositionIsTrue, Known, Dispositions, At,
     PendingIsStopping, FailQueued
<1>2. CASE Settle(j, "Failed")
  BY <1>1, <1>2, CleanSettleStep DEF Terminals
<1>3. CASE issues' = TRUE /\ UNCHANGED <<disk, mem, disp, leases>>
  BY <1>1, <1>3, IssueStep
<1>. QED BY <1>2, <1>3 DEF FailQueued

\* runtime_preflight_ready failing keeps the invariant.
LEMMA PreflightFailsInv ==
  ASSUME IInv, NEW j \in Jobs, NEW ok \in BOOLEAN, PreflightFails(j, ok)
  PROVE  IInv' /\ TerminalsStay
<1>1. JournalType' /\ Relations' /\ TerminalsStay
  BY FailQueuedStep DEF PreflightFails, At
<1>2. CountType' /\ ProcessType'
  BY Parts, WritesType DEF PreflightFails, FailQueued, ProcessType
<1>3. HandlerContext'
  BY NoContext DEF PreflightFails, At
<1>. QED BY <1>1, <1>2, <1>3, Assembled

\* dispatch_next_queued with its heavy lease keeps the invariant.
LEMMA DispatchInv ==
  ASSUME IInv, NEW j \in Jobs, NEW ok \in BOOLEAN, Dispatch(j, ok)
  PROVE  IInv' /\ TerminalsStay
<1>1. /\ Known(j) /\ ~Ended(mem[j]) /\ ~mem[j].mutated /\ ~mem[j].process
      /\ at.place = "idle" /\ disp[j] = "Queued" /\ disp' = disp
      /\ j \notin pending /\ pending' = pending /\ runtime' = runtime
      /\ mem[j] \in Journal
  BY KnownRecord DEF IInv, Relations, DispositionIsTrue, Known, Dispositions, At,
     PendingIsStopping, Dispatch
<1>2. CountType'
  BY Parts, WritesType DEF Dispatch
<1>3. ProcessType' /\ at'.place # "down"
  BY Parts, <1>1, SMT DEF Dispatch, ProcessType, Goto, Places
<1>4. JournalType' /\ Relations' /\ TerminalsStay /\ HandlerContext'
  <2>1. CASE disk' = disk /\ mem' = mem /\ leases' = leases
    <3>1. issues' \in BOOLEAN
      BY DEF Dispatch, IInv, TypeOK
    <3>2. HandlerContext'
      BY <1>1, <2>1, SMT DEF Dispatch, HandlerContext, Goto, Known
    <3>. QED BY <1>1, <1>3, <2>1, <3>1, <3>2, IssueStep
  <2>2. CASE /\ Persist(j, [mem[j] EXCEPT !.heavy = TRUE])
             /\ leases' = [leases EXCEPT ![j] = @ \cup {Heavy}]
             /\ Goto("arm", j) /\ issues' = issues
    <3>. DEFINE r == [mem[j] EXCEPT !.heavy = TRUE]
    <3>1. r \in Journal /\ ~Ended(r) /\ ~r.mutated /\ ~r.process
      BY <1>1 DEF Journal, Ended
    <3>2. /\ disp' = [disp EXCEPT ![j] = "Queued"] /\ pending' \in SUBSET Jobs
          /\ issues' \in BOOLEAN /\ "Queued" \in Dispositions
      BY <1>1, <2>2 DEF IInv, TypeOK, Dispositions
    <3>3. leases' \in [Jobs -> SUBSET Keys]
      BY <2>2 DEF IInv, TypeOK, Keys
    <3>4. Persist(j, r) /\ mem'[j] = r
      BY <2>2 DEF Persist, IInv, TypeOK
    <3>. HIDE DEF r
    <3>5. JournalType' /\ Relations' /\ TerminalsStay
      BY <1>1, <1>3, <3>1, <3>2, <3>3, <3>4, RecordStep
    <3>6. HandlerContext'
      BY <1>1, <2>2, <3>1, <3>4 DEF Goto, HandlerContext, Known
    <3>. QED BY <3>5, <3>6
  <2>. QED BY <2>1, <2>2 DEF Dispatch
<1>. QED BY <1>2, <1>3, <1>4, Assembled

\* Arming the native worker keeps the invariant.
LEMMA ArmInv ==
  ASSUME IInv, NEW j \in Jobs, NEW ok \in BOOLEAN, at.job = j, At("arm"), Arm(j, ok)
  PROVE  IInv' /\ TerminalsStay
<1>1. /\ Known(j) /\ ~Ended(mem[j]) /\ ~mem[j].mutated /\ ~mem[j].process
      /\ at.place # "down" /\ disp[j] = "Queued"
      /\ j \notin pending /\ pending' = pending /\ runtime' = runtime
      /\ mem[j] \in Journal /\ leases' = leases /\ issues' = issues
  BY KnownRecord DEF IInv, Relations, DispositionIsTrue, Known, Dispositions, At,
     PendingIsStopping, Arm, HandlerContext
<1>2. CountType'
  BY Parts, WritesType DEF Arm
<1>3. ProcessType' /\ at'.place # "down"
  BY Parts, <1>1, SMT DEF Arm, ProcessType, Goto, Places
<1>4. JournalType' /\ Relations' /\ TerminalsStay /\ HandlerContext'
  <2>1. CASE Goto("failQueued", j) /\ UNCHANGED <<disk, mem, disp>>
    <3>1. issues' \in BOOLEAN
      BY <1>1 DEF IInv, TypeOK
    <3>2. HandlerContext'
      BY <1>1, <2>1 DEF HandlerContext, Goto, Known
    <3>. QED BY <1>1, <1>3, <2>1, <3>1, <3>2, IssueStep
  <2>2. CASE /\ Persist(j, [mem[j] EXCEPT !.state = "Starting"])
             /\ disp' = [disp EXCEPT ![j] = "Launching"]
             /\ Goto("spawn", j)
    <3>. DEFINE r == [mem[j] EXCEPT !.state = "Starting"]
    <3>1. r \in Journal /\ ~Ended(r) /\ ~r.mutated /\ ~r.process
      BY <1>1 DEF Journal, Ended, States, Terminals
    <3>2. /\ pending' \in SUBSET Jobs /\ leases' \in [Jobs -> SUBSET Keys]
          /\ issues' \in BOOLEAN /\ "Launching" \in Dispositions
      BY <1>1, <2>2 DEF IInv, TypeOK, Dispositions
    <3>3. Persist(j, r) /\ mem'[j] = r /\ disp'[j] = "Launching"
      BY <2>2 DEF Persist, IInv, TypeOK
    <3>. HIDE DEF r
    <3>4. JournalType' /\ Relations' /\ TerminalsStay
      BY <1>1, <1>3, <2>2, <3>1, <3>2, <3>3, RecordStep
    <3>5. HandlerContext'
      BY <2>2, <3>1, <3>2, <3>3 DEF Goto, HandlerContext, Known
    <3>. QED BY <3>4, <3>5
  <2>. QED BY <2>1, <2>2 DEF Arm
<1>. QED BY <1>2, <1>3, <1>4, Assembled

\* Failing a job whose worker could not be armed keeps the invariant.
LEMMA FailArmQueuedInv ==
  ASSUME IInv, NEW j \in Jobs, NEW ok \in BOOLEAN, at.job = j, At("failQueued"),
         FailArmQueued(j, ok)
  PROVE  IInv' /\ TerminalsStay
<1>1. disp[j] = "Queued" /\ at' = Idle /\ at'.place = "idle"
  BY DEF IInv, HandlerContext, At, FailArmQueued, Done, Idle
<1>2. JournalType' /\ Relations' /\ TerminalsStay
  BY <1>1, FailQueuedStep DEF FailArmQueued
<1>3. CountType' /\ ProcessType'
  BY <1>1, Parts, WritesType DEF FailArmQueued, FailQueued, ProcessType, Idle, Places
<1>. QED BY <1>1, <1>2, <1>3, NoContext, Assembled

\* Spawning the parked worker keeps the invariant.
LEMMA SpawnInv ==
  ASSUME IInv, NEW j \in Jobs, NEW ok \in BOOLEAN, at.job = j, At("spawn"), Spawn(j, ok)
  PROVE  IInv' /\ TerminalsStay
<1>1. CountType'
  BY Parts, WritesType DEF Spawn
<1>2. ProcessType' /\ at'.place # "down"
  BY Parts DEF Spawn, ProcessType, Goto, Places
<1>3. HandlerContext'
  BY DEF IInv, HandlerContext, At, Spawn, Goto, Known
<1>4. JournalType' /\ Relations' /\ TerminalsStay
  BY <1>2, IssueStep DEF Spawn, At, IInv, TypeOK
<1>. QED BY <1>1, <1>2, <1>3, <1>4, Assembled

\* Attaching the spawned process keeps the invariant.
LEMMA AttachInv ==
  ASSUME IInv, NEW j \in Jobs, NEW ok \in BOOLEAN, at.job = j, At("attach"), Attach(j, ok)
  PROVE  IInv' /\ TerminalsStay
<1>1. /\ Known(j) /\ ~Ended(mem[j]) /\ ~mem[j].mutated
      /\ at.place # "down" /\ disp[j] = "Launching"
      /\ j \notin pending /\ pending' = pending /\ runtime' = runtime
      /\ mem[j] \in Journal /\ leases' = leases /\ issues' = issues
  BY KnownRecord DEF IInv, Relations, DispositionIsTrue, Known, Dispositions, At,
     PendingIsStopping, Attach, HandlerContext
<1>2. CountType'
  BY Parts, WritesType DEF Attach
<1>3. ProcessType' /\ at'.place # "down"
  BY Parts, <1>1, SMT DEF Attach, ProcessType, Goto, Places, Done, Idle
<1>4. JournalType' /\ Relations' /\ TerminalsStay /\ HandlerContext'
  <2>1. CASE Goto("launchFail", j) /\ UNCHANGED <<disk, mem, disp>>
    <3>1. issues' \in BOOLEAN
      BY <1>1 DEF IInv, TypeOK
    <3>2. HandlerContext'
      BY <1>1, <2>1 DEF HandlerContext, Goto, Known
    <3>. QED BY <1>1, <1>3, <2>1, <3>1, <3>2, IssueStep
  <2>2. CASE /\ Persist(j, [mem[j] EXCEPT !.state = "Running", !.process = TRUE])
             /\ disp' = [disp EXCEPT ![j] = "LiveProcess"]
             /\ Done \/ Goto("permit", j)
    <3>. DEFINE r == [mem[j] EXCEPT !.state = "Running", !.process = TRUE]
    <3>1. r \in Journal /\ ~Ended(r) /\ ~r.mutated /\ r.state = "Running"
      BY <1>1 DEF Journal, Ended, States, Terminals
    <3>2. /\ pending' \in SUBSET Jobs /\ leases' \in [Jobs -> SUBSET Keys]
          /\ issues' \in BOOLEAN /\ "LiveProcess" \in Dispositions
      BY <1>1, <2>2 DEF IInv, TypeOK, Dispositions
    <3>3. Persist(j, r) /\ mem'[j] = r /\ disp'[j] = "LiveProcess"
      BY <2>2 DEF Persist, IInv, TypeOK
    <3>. HIDE DEF r
    <3>4. JournalType' /\ Relations' /\ TerminalsStay
      BY <1>1, <1>3, <2>2, <3>1, <3>2, <3>3, RecordStep, ZenonT(30)
    <3>5. HandlerContext'
      BY <2>2, <3>1, <3>2, <3>3, SMT DEF Goto, HandlerContext, Known, Done, Idle
    <3>. QED BY <3>4, <3>5
  <2>. QED BY <2>1, <2>2 DEF Attach
<1>. QED BY <1>2, <1>3, <1>4, Assembled

\* settle_native_launch_failure keeps the invariant.
LEMMA LaunchFailureInv ==
  ASSUME IInv, NEW j \in Jobs, NEW ok \in BOOLEAN, at.job = j, At("launchFail"),
         LaunchFailure(j, ok)
  PROVE  IInv' /\ TerminalsStay
<1>1. /\ Known(j) /\ ~Ended(mem[j]) /\ ~mem[j].mutated /\ at.place # "down"
      /\ j \notin pending /\ pending' = pending /\ runtime' = runtime
      /\ at' = Idle /\ at'.place = "idle"
  BY KnownRecord DEF IInv, Relations, DispositionIsTrue, Known, Dispositions, At,
     PendingIsStopping, LaunchFailure, HandlerContext, Done, Idle
<1>2. CountType' /\ ProcessType'
  BY <1>1, Parts, WritesType DEF LaunchFailure, ProcessType, Idle, Places
<1>3. CASE Settle(j, "Failed")
  BY <1>1, <1>2, <1>3, CleanSettleStep, NoContext, Assembled DEF Terminals
<1>4. CASE issues' = TRUE /\ UNCHANGED <<disk, mem, disp, leases>>
  BY <1>1, <1>2, <1>4, IssueStep, NoContext, Assembled
<1>. QED BY <1>3, <1>4 DEF LaunchFailure

\* Publishing the operation permit keeps the invariant.
LEMMA PublishPermitInv ==
  ASSUME IInv, NEW j \in Jobs, NEW ok \in BOOLEAN, at.job = j, At("permit"),
         PublishPermit(j, ok)
  PROVE  IInv' /\ TerminalsStay
<1>1. CountType'
  BY Parts, WritesType DEF PublishPermit
<1>2. permit' \in [Jobs -> BOOLEAN] /\ result' \in [Jobs -> Results]
        /\ worker' \in [Jobs -> {"none", "parked", "active", "exited"}]
  <2>1. \/ result' = result
        \/ \E r \in {"none", "cancelled", result[j]} : result' = [result EXCEPT ![j] = r]
    BY DEF PublishPermit
  <2>2. result' \in [Jobs -> Results]
    BY <2>1 DEF IInv, TypeOK, Results
  <2>3. permit' \in [Jobs -> BOOLEAN]
          /\ worker' \in [Jobs -> {"none", "parked", "active", "exited"}]
    BY DEF PublishPermit, IInv, TypeOK
  <2>. QED BY <2>2, <2>3
<1>3. ProcessType' /\ at'.place # "down"
  BY Parts, <1>2, SMT DEF PublishPermit, ProcessType, Goto, Places, Done, Idle
<1>4. HandlerContext'
  BY SMT DEF IInv, HandlerContext, At, PublishPermit, Goto, Known, Done, Idle
<1>5. JournalType' /\ Relations' /\ TerminalsStay
  BY <1>3, IssueStep DEF PublishPermit, At, IInv, TypeOK
<1>. QED BY <1>1, <1>3, <1>4, <1>5, Assembled

\* Settling a worker that exited before its permit keeps the invariant.
LEMMA SettleStoppedInv ==
  ASSUME IInv, NEW j \in Jobs, NEW ok \in BOOLEAN, at.job = j, At("exited"),
         SettleStopped(j, ok)
  PROVE  IInv' /\ TerminalsStay
<1>1. /\ Known(j) /\ ~Ended(mem[j]) /\ ~mem[j].mutated /\ at.place # "down"
      /\ j \notin pending /\ pending' = pending /\ runtime' = runtime
      /\ at' = Idle /\ at'.place = "idle" /\ SettleAfterExit(j, "Failed", ok)
  BY DEF IInv, Relations, At, PendingIsStopping, SettleStopped, HandlerContext, Done, Idle
<1>2. JournalType' /\ Relations' /\ TerminalsStay /\ permit' \in [Jobs -> BOOLEAN]
  BY <1>1, SettleAfterExitStep DEF Terminals
<1>3. CountType' /\ ProcessType'
  BY <1>1, <1>2, Parts, WritesType DEF SettleStopped, ProcessType, Idle, Places
<1>. QED BY <1>1, <1>2, <1>3, NoContext, Assembled

\* Publishing the runtime permit keeps the invariant.
LEMMA PublishRuntimePermitInv ==
  ASSUME IInv, NEW j \in Jobs, NEW ok \in BOOLEAN, at.job = j, At("rtPermit"),
         PublishRuntimePermit(j, ok)
  PROVE  IInv' /\ TerminalsStay
<1>1. CountType'
  BY Parts, WritesType DEF PublishRuntimePermit
<1>2. Instance[j] \in Instances
  BY DEF Instances
<1>3. runtime' \in [Instances -> [job : Jobs \cup {None}, stage : Stages]]
  BY <1>2 DEF PublishRuntimePermit, IInv, TypeOK, Stages
<1>4. ProcessType' /\ at'.place \notin {"idle", "down"}
  BY Parts, <1>3 DEF PublishRuntimePermit, ProcessType, Goto, Places
<1>5. HandlerContext'
  BY DEF IInv, HandlerContext, At, PublishRuntimePermit, Goto, Known
<1>6. JournalType' /\ pending' \subseteq Jobs
  BY DEF PublishRuntimePermit, IInv, TypeOK, JournalType
<1>7. disk[j] \in Journal /\ disk[j].mutated /\ ~Ended(disk[j])
  BY KnownRecord DEF IInv, HandlerContext, At
<1>8. \A i \in Instances : runtime'[i].stage # "idle" =>
        \/ runtime[i].stage # "idle" /\ runtime'[i].job = runtime[i].job
        \/ /\ runtime'[i].job \in Jobs /\ Instance[runtime'[i].job] = i
           /\ disk[runtime'[i].job] \in Journal /\ disk[runtime'[i].job].mutated
           /\ ~Ended(disk[runtime'[i].job])
  BY <1>2, <1>7 DEF PublishRuntimePermit, IInv, TypeOK
<1>9. Relations' /\ TerminalsStay
  BY <1>4, <1>6, <1>8, FrameStep DEF PublishRuntimePermit, At
<1>. QED BY <1>1, <1>4, <1>5, <1>6, <1>9, Assembled

\* Publishing the operation permit after the runtime one keeps the invariant.
LEMMA PublishOperationPermitInv ==
  ASSUME IInv, NEW j \in Jobs, NEW ok \in BOOLEAN, at.job = j, At("opPermit"),
         PublishOperationPermit(j, ok)
  PROVE  IInv' /\ TerminalsStay
<1>1. CountType'
  BY Parts, WritesType DEF PublishOperationPermit
<1>2. permit' \in [Jobs -> BOOLEAN]
  BY DEF PublishOperationPermit, IInv, TypeOK
<1>3. ProcessType' /\ at'.place # "down"
  BY Parts, <1>2, SMT DEF PublishOperationPermit, ProcessType, Goto, Places, Done, Idle
<1>4. HandlerContext'
  BY SMT DEF IInv, HandlerContext, At, PublishOperationPermit, Goto, Known, Done, Idle
<1>5. JournalType' /\ Relations' /\ TerminalsStay
  BY <1>3, IssueStep DEF PublishOperationPermit, At, IInv, TypeOK
<1>. QED BY <1>1, <1>3, <1>4, <1>5, Assembled

\* fail_after_runtime_armed keeps the invariant.
LEMMA FailAfterArmedInv ==
  ASSUME IInv, NEW j \in Jobs, NEW ok \in BOOLEAN, at.job = j, At("failArmed"),
         FailAfterArmed(j, ok)
  PROVE  IInv' /\ TerminalsStay
<1>1. /\ Known(j) /\ ~Ended(mem[j]) /\ at.place # "down" /\ "recovery" \in Diagnostics
      /\ j \notin pending /\ pending' = pending /\ runtime' = runtime
      /\ at' = Idle /\ at'.place = "idle" /\ EnterRecovery(j, "recovery", ok)
  BY DEF IInv, Relations, At, PendingIsStopping, FailAfterArmed, HandlerContext, Done, Idle,
     Diagnostics
<1>2. JournalType' /\ Relations' /\ TerminalsStay
  BY <1>1, EnterRecoveryStep
<1>3. CountType' /\ ProcessType'
  BY <1>1, Parts, WritesType DEF FailAfterArmed, ProcessType, Idle, Places
<1>. QED BY <1>1, <1>2, <1>3, NoContext, Assembled

\* A cancellation that finds its worker already gone keeps the invariant.
LEMMA CancelExitInv ==
  ASSUME IInv, NEW j \in Jobs, NEW ok \in BOOLEAN, at.job = j, At("cancelExit"),
         CancelExit(j, ok)
  PROVE  IInv' /\ TerminalsStay
<1>1. /\ Known(j) /\ ~Ended(mem[j]) /\ at.place # "down" /\ runtime' = runtime
      /\ at' = Idle /\ at'.place = "idle" /\ FinishCancellation(j, ok)
  BY DEF IInv, At, CancelExit, HandlerContext, Done, Idle
<1>2. JournalType' /\ Relations' /\ TerminalsStay /\ permit' \in [Jobs -> BOOLEAN]
  BY <1>1, FinishCancellationStep
<1>3. CountType' /\ ProcessType'
  BY <1>1, <1>2, Parts, WritesType DEF CancelExit, ProcessType, Idle, Places
<1>. QED BY <1>1, <1>2, <1>3, NoContext, Assembled

\* Every second half of a handler keeps the invariant.
LEMMA HandlerStepInv ==
  ASSUME IInv, NEW j \in Jobs, NEW ok \in BOOLEAN, HandlerStep(j, ok)
  PROVE  IInv' /\ TerminalsStay
  BY ArmInv, FailArmQueuedInv, SpawnInv, AttachInv, LaunchFailureInv, PublishPermitInv,
     SettleStoppedInv, PublishRuntimePermitInv, PublishOperationPermitInv,
     FailAfterArmedInv, CancelExitInv DEF HandlerStep

\* monitor_running_workers keeps the invariant.
LEMMA MonitorInv ==
  ASSUME IInv, NEW j \in Jobs, NEW ok \in BOOLEAN, Monitor(j, ok)
  PROVE  IInv' /\ TerminalsStay
<1>1. /\ Known(j) /\ ~Ended(mem[j]) /\ at.place = "idle" /\ at' = at
      /\ j \notin pending /\ pending' = pending /\ runtime' = runtime
  BY DEF IInv, Relations, At, DispositionIsTrue, Monitor, Known, Dispositions
<1>2. JournalType' /\ Relations' /\ TerminalsStay /\ permit' \in [Jobs -> BOOLEAN]
  <2>1. CASE mem[j].mutated
    <3>1. MarkRecovery(j, ok) /\ permit' = permit
      BY <2>1 DEF Monitor
    <3>. QED BY <1>1, <3>1, MarkRecoveryStep DEF IInv, TypeOK
  <2>2. CASE ~mem[j].mutated
    <3>1. SettleAfterExit(j, "Failed", ok)
      BY <2>2 DEF Monitor
    <3>. QED BY <1>1, <2>2, <3>1, SettleAfterExitStep DEF Terminals
  <2>. QED BY <2>1, <2>2
<1>3. CountType' /\ ProcessType'
  BY <1>1, <1>2, Parts, WritesType DEF Monitor, ProcessType
<1>. QED BY <1>1, <1>2, <1>3, NoContext, Assembled

\* poll_worker_cancellations keeps the invariant.
LEMMA PollCancellationInv ==
  ASSUME IInv, NEW j \in Jobs, NEW ok \in BOOLEAN, PollCancellation(j, ok)
  PROVE  IInv' /\ TerminalsStay
<1>1. /\ Known(j) /\ ~Ended(mem[j]) /\ at.place = "idle" /\ at' = at /\ runtime' = runtime
  BY DEF IInv, Relations, At, PendingIsStopping, PollCancellation, Known, Dispositions,
     Ended, Terminals
<1>2. JournalType' /\ Relations' /\ TerminalsStay /\ permit' \in [Jobs -> BOOLEAN]
  BY <1>1, FinishCancellationStep DEF PollCancellation
<1>3. CountType' /\ ProcessType'
  BY <1>1, <1>2, Parts, WritesType DEF PollCancellation, ProcessType
<1>. QED BY <1>1, <1>2, <1>3, NoContext, Assembled

\* Signalling a live worker, or finishing at once.
LEMMA BeginCancellationFacts ==
  ASSUME NEW j \in Jobs, pending \subseteq Jobs, BeginCancellation(j)
  PROVE  /\ at' \in [place : Places, job : Jobs \cup {None}]
         /\ \/ at' = Idle /\ pending' = pending \cup {j}
            \/ at' = [place |-> "cancelExit", job |-> j] /\ pending' = pending
         /\ at'.place \in {"idle", "cancelExit"}
         /\ at'.place = "cancelExit" => at'.job = j
         /\ pending' \in SUBSET Jobs /\ \A k \in pending' : k = j \/ k \in pending
  BY SMT DEF BeginCancellation, Done, Idle, Goto, Places

\* A job without a worker is not signalled; its cancellation finishes at once.
LEMMA StopPlaces ==
  ASSUME NEW j \in Jobs, pending \subseteq Jobs,
         IF mem[j].process THEN BeginCancellation(j)
         ELSE Goto("cancelExit", j) /\ UNCHANGED pending
  PROVE  /\ at'.place \in {"idle", "cancelExit"} /\ (at'.place = "cancelExit" => at'.job = j)
         /\ pending' \in SUBSET Jobs
         /\ at' \in [place : Places, job : Jobs \cup {None}]
         /\ \A k \in pending' : (k = j /\ mem[j].process) \/ k \in pending
<1>1. CASE mem[j].process
  BY <1>1, BeginCancellationFacts
<1>2. CASE ~mem[j].process
  BY <1>2, SMT DEF Goto, Places
<1>. QED BY <1>1, <1>2

\* A cancellation leaves the context its second half relies on.
LEMMA CancelContext ==
  ASSUME at'.place \in {"idle", "cancelExit"}, at'.place = "cancelExit" =>
           at'.job \in Jobs /\ disp'[at'.job] \in Dispositions /\ ~Ended(mem'[at'.job])
  PROVE  HandlerContext'
  BY DEF HandlerContext, Known, Ended

\* A worker that is attached belongs to a job that was launched.
LEMMA AttachedDisposition ==
  ASSUME IInv, NEW j \in Jobs, Known(j), ~Ended(mem[j]), mem[j].process
  PROVE  disp[j] \in {"LiveProcess", "RecoveryRequired", "DeadBeforeMutation"}
  BY DEF IInv, Relations, DispositionIsTrue, Known, Dispositions

\* begin_live_cancellation after a journalled stop keeps the relations.
LEMMA StopStep ==
  ASSUME IInv, NEW j \in Jobs, NEW diag \in Diagnostics, Known(j), ~Ended(mem[j]),
         disp[j] \in {"LiveProcess", "RecoveryRequired", "DeadBeforeMutation"},
         Persist(j, [mem[j] EXCEPT !.state = "Cancelling", !.diag = diag]),
         BeginCancellation(j), disp' = disp, leases' = leases, issues' = issues,
         runtime' = runtime
  PROVE  JournalType' /\ Relations' /\ TerminalsStay /\ HandlerContext'
<1>. DEFINE r == [mem[j] EXCEPT !.state = "Cancelling", !.diag = diag]
<1>1. /\ r \in Journal /\ ~Ended(r) /\ r.mutated = mem[j].mutated /\ r.state = "Cancelling"
      /\ Persist(j, r)
  BY KnownRecord DEF Journal, States, Ended, Terminals
<1>. HIDE DEF r
<1>2. /\ disp' = [disp EXCEPT ![j] = disp[j]] /\ disp[j] \in Dispositions
      /\ leases' \in [Jobs -> SUBSET Keys] /\ issues' \in BOOLEAN /\ pending \subseteq Jobs
      /\ disp[j] = "DeadBeforeMutation" => ~mem[j].mutated
  BY DEF IInv, TypeOK, Known, Relations, DispositionIsTrue
<1>3. /\ at'.place \in {"idle", "cancelExit"} /\ (at'.place = "cancelExit" => at'.job = j)
      /\ pending' \in SUBSET Jobs /\ \A k \in pending' : k = j \/ k \in pending
  BY <1>2, BeginCancellationFacts
<1>4. mem'[j] = r /\ disp'[j] \in Dispositions
  BY <1>1, <1>2 DEF Persist, IInv, TypeOK
<1>5. HandlerContext'
  BY <1>1, <1>3, <1>4, CancelContext
<1>6. JournalType' /\ Relations' /\ TerminalsStay
  <2>. DEFINE D == disp[j]
  <2>1. /\ D \in Dispositions /\ D # "Settled" /\ D \notin {"Queued", "Launching"}
        /\ D = "DeadBeforeMutation" => ~r.mutated
        /\ disp' = [disp EXCEPT ![j] = D]
        /\ D \in {"LiveProcess", "RecoveryRequired", "DeadBeforeMutation"}
    BY <1>1, <1>2
  <2>. HIDE DEF D
  <2>. QED BY <1>1, <1>2, <1>3, <2>1, RecordStep
<1>. QED BY <1>5, <1>6

\* stop_parked_runtime_worker keeps the invariant.
LEMMA StopParkedInv ==
  ASSUME IInv, NEW j \in Jobs, StopParked(j)
  PROVE  IInv' /\ TerminalsStay
<1>1. /\ Known(j) /\ ~Ended(mem[j]) /\ disp[j] = "LiveProcess" /\ pending \subseteq Jobs
      /\ "stopped" \in Diagnostics
  BY DEF IInv, TypeOK, Relations, DispositionIsTrue, StopParked, AwaitsRuntime, Known,
     Dispositions, Diagnostics
<1>2. JournalType' /\ Relations' /\ TerminalsStay /\ HandlerContext'
  BY <1>1, StopStep DEF StopParked
<1>3. CountType' /\ ProcessType'
  BY <1>1, Parts, BeginCancellationFacts DEF StopParked, CountType, ProcessType
<1>. QED BY <1>2, <1>3, Assembled

\* poll_owned_traffic_budgets keeps the invariant.
LEMMA BudgetStopInv ==
  ASSUME IInv, NEW j \in Jobs, NEW ok \in BOOLEAN, BudgetStop(j, ok)
  PROVE  IInv' /\ TerminalsStay
<1>1. /\ Known(j) /\ ~Ended(mem[j]) /\ pending \subseteq Jobs /\ at.place = "idle"
      /\ runtime' = runtime /\ mem[j] \in Journal /\ disk[j] \in Journal
      /\ mem[j].mutated = disk[j].mutated /\ ~Ended(disk[j])
  BY KnownRecord DEF IInv, TypeOK, BudgetStop, Known, Ended, Terminals, At
<1>2. CountType'
  BY Parts, WritesType DEF BudgetStop
<1>. DEFINE r == [mem[j] EXCEPT !.state = "Cancelling", !.diag = "owned"]
            d == IF ok THEN r ELSE disk[j]
            D == disp[j]
<1>3. /\ r \in Journal /\ ~Ended(r) /\ r.mutated = mem[j].mutated /\ r.state = "Cancelling"
      /\ r.process = mem[j].process /\ mem' = [mem EXCEPT ![j] = r]
  BY <1>1 DEF BudgetStop, Journal, States, Ended, Terminals, Diagnostics
<1>4. disk' = [disk EXCEPT ![j] = d]
  <2>1. CASE ok
    BY <2>1 DEF BudgetStop
  <2>2. CASE ~ok
    <3>1. disk' = disk /\ disk \in [Jobs -> Journal \cup {None, Debris}]
      BY <2>2 DEF BudgetStop, IInv, TypeOK
    <3>. QED BY <2>2, <3>1
  <2>. QED BY <2>1, <2>2
<1>. HIDE DEF r
<1>5. /\ d \in Journal /\ ~Ended(d) /\ d.mutated = r.mutated
      /\ d.state = "Queued" => ~d.mutated
  BY <1>1, <1>3 DEF IInv, Relations, EndedIsInert
<1>6. /\ at'.place \in {"idle", "cancelExit"} /\ (at'.place = "cancelExit" => at'.job = j)
      /\ pending' \in SUBSET Jobs
      /\ at' \in [place : Places, job : Jobs \cup {None}]
      /\ \A k \in pending' : (k = j /\ mem[j].process) \/ k \in pending
  BY <1>1, StopPlaces DEF BudgetStop
<1>7. /\ D \in Dispositions /\ D # "Settled"
      /\ D = "DeadBeforeMutation" => ~r.mutated
      /\ D \in {"Queued", "Launching"} => ~r.process /\ ~r.mutated
      /\ disp' = [disp EXCEPT ![j] = D] /\ disp'[j] \in Dispositions
      /\ mem[j].process => D \in {"LiveProcess", "RecoveryRequired", "DeadBeforeMutation"}
  BY <1>1, <1>3, AttachedDisposition DEF BudgetStop, IInv, TypeOK, Relations,
     DispositionIsTrue, Known
<1>8. j \notin pending /\ mem'[j] = r
  BY <1>3 DEF BudgetStop, IInv, TypeOK, Relations, PendingIsStopping
<1>9. ProcessType'
  BY <1>6, Parts DEF BudgetStop, ProcessType
<1>. HIDE DEF d, D
<1>10. Relations' /\ TerminalsStay
  <2>1. /\ Ended(r) <=> Ended(d)
        /\ Ended(d) => ~d.mutated
        /\ r.state = "Queued" => ~r.mutated
        /\ D = "Settled" <=> Ended(r)
        /\ at'.place # "down"
    BY <1>3, <1>5, <1>6, <1>7
  <2>2. \A k \in pending' : IF k = j
           THEN D \in {"LiveProcess", "RecoveryRequired", "DeadBeforeMutation"}
                  /\ r.state = "Cancelling"
           ELSE k \in pending
    BY <1>3, <1>6, <1>7, <1>8
  <2>3. \A i \in Instances : runtime'[i].stage # "idle" =>
           /\ runtime[i].stage # "idle" /\ runtime'[i].job = runtime[i].job
           /\ runtime[i].job = j => d.mutated /\ ~Ended(d)
    BY <1>1, <1>3, <1>5, OverrideIsMutated
  <2>. QED BY <1>1, <1>3, <1>4, <1>5, <1>7, <2>1, <2>2, <2>3, JournalStep
<1>11. JournalType'
  <2>1. disk' \in [Jobs -> Journal \cup {None, Debris}] /\ mem' \in [Jobs -> Journal \cup {None}]
    BY <1>3, <1>4, <1>5, SMT DEF IInv, TypeOK
  <2>. QED BY <1>6, <2>1 DEF BudgetStop, IInv, TypeOK, JournalType
<1>12. HandlerContext'
  BY <1>3, <1>6, <1>7, <1>8, CancelContext
<1>. QED BY <1>2, <1>9, <1>10, <1>11, <1>12, Assembled

\* cancel_job keeps the invariant.
LEMMA CancelJobInv ==
  ASSUME IInv, NEW j \in Jobs, CancelJob(j)
  PROVE  IInv' /\ TerminalsStay
<1>1. /\ Known(j) /\ ~Ended(mem[j]) /\ pending \subseteq Jobs /\ at.place = "idle"
      /\ runtime' = runtime /\ mem[j] \in Journal
  BY KnownRecord DEF IInv, TypeOK, CancelJob, Known, Ended, Terminals, At
<1>2. CountType'
  BY Parts DEF CancelJob, CountType
<1>3. CASE mem[j].state = "Queued" /\ Settle(j, "Cancelled") /\ UNCHANGED <<pending, at>>
  <2>1. ~mem[j].mutated /\ j \notin pending
    BY <1>1, <1>3 DEF IInv, Relations, EndedIsInert, PendingIsStopping
  <2>2. JournalType' /\ Relations' /\ TerminalsStay
    BY <1>1, <1>3, <2>1, CleanSettleStep DEF Terminals
  <2>3. ProcessType'
    BY <1>3, Parts DEF CancelJob, ProcessType
  <2>. QED BY <1>1, <1>2, <1>3, <2>2, <2>3, NoContext, Assembled
<1>4. CASE /\ mem[j].state \in {"Starting", "Running"}
           /\ Persist(j, [mem[j] EXCEPT !.state = "Cancelling"])
           /\ IF mem[j].process THEN BeginCancellation(j)
              ELSE Goto("cancelExit", j) /\ UNCHANGED pending
           /\ UNCHANGED <<disp, leases, issues>>
  <2>. DEFINE r == [mem[j] EXCEPT !.state = "Cancelling"]
  <2>1. /\ r \in Journal /\ ~Ended(r) /\ r.mutated = mem[j].mutated /\ r.state = "Cancelling"
        /\ r.process = mem[j].process /\ Persist(j, r)
    BY <1>1, <1>4 DEF Journal, States, Ended, Terminals
  <2>. HIDE DEF r
  <2>2. /\ at'.place \in {"idle", "cancelExit"} /\ (at'.place = "cancelExit" => at'.job = j)
        /\ pending' \in SUBSET Jobs
        /\ at' \in [place : Places, job : Jobs \cup {None}]
        /\ \A k \in pending' : (k = j /\ mem[j].process) \/ k \in pending
    BY <1>1, <1>4, StopPlaces
  <2>3. ProcessType'
    BY <2>2, Parts DEF CancelJob, ProcessType
  <2>. DEFINE D == disp[j]
  <2>4. /\ D \in Dispositions /\ D # "Settled"
        /\ D = "DeadBeforeMutation" => ~r.mutated
        /\ D \in {"Queued", "Launching"} => ~r.process /\ ~r.mutated
        /\ disp' = [disp EXCEPT ![j] = D] /\ disp'[j] \in Dispositions
        /\ mem[j].process => D \in {"LiveProcess", "RecoveryRequired", "DeadBeforeMutation"}
    BY <1>1, <1>4, <2>1, AttachedDisposition DEF IInv, TypeOK, Relations,
       DispositionIsTrue, Known
  <2>5. /\ leases' \in [Jobs -> SUBSET Keys] /\ issues' \in BOOLEAN /\ mem'[j] = r
    BY <1>4, <2>1 DEF IInv, TypeOK, Persist
  <2>6. j \notin pending
    BY <1>4 DEF IInv, Relations, PendingIsStopping
  <2>. HIDE DEF D
  <2>7. JournalType' /\ Relations' /\ TerminalsStay
    BY <1>1, <2>1, <2>2, <2>4, <2>5, <2>6, RecordStep
  <2>8. HandlerContext'
    BY <2>1, <2>2, <2>4, <2>5, CancelContext
  <2>. QED BY <1>2, <2>3, <2>7, <2>8, Assembled
<1>5. CASE /\ mem[j].state = "Cancelling" /\ mem[j].process /\ BeginCancellation(j)
           /\ Unsettled
  <2>1. /\ at'.place \in {"idle", "cancelExit"} /\ (at'.place = "cancelExit" => at'.job = j)
        /\ pending' \in SUBSET Jobs /\ \A k \in pending' : k = j \/ k \in pending
        /\ at' \in [place : Places, job : Jobs \cup {None}]
    BY <1>1, <1>5, BeginCancellationFacts
  <2>2. disp[j] \in {"LiveProcess", "RecoveryRequired", "DeadBeforeMutation"}
    BY <1>1, <1>5, AttachedDisposition
  <2>3. Relations' /\ TerminalsStay
    BY <1>1, <1>5, <2>1, <2>2, FrameStep DEF Unsettled
  <2>4. JournalType' /\ ProcessType'
    BY <1>5, <2>1, Parts DEF CancelJob, Unsettled, JournalType, ProcessType
  <2>5. HandlerContext'
    BY <1>1, <1>5, <2>1, CancelContext DEF Unsettled, Known
  <2>. QED BY <1>2, <2>3, <2>4, <2>5, Assembled
<1>. QED BY <1>3, <1>4, <1>5 DEF CancelJob

\* arm_attached_runtime_mutation keeps the invariant.
LEMMA ArmRuntimeInv ==
  ASSUME IInv, NEW j \in Jobs, ArmRuntime(j)
  PROVE  IInv' /\ TerminalsStay
<1>1. /\ Known(j) /\ ~Ended(mem[j]) /\ disp[j] = "LiveProcess" /\ mem[j] \in Journal
      /\ mem[j].state = "Running" /\ j \notin pending /\ at.place = "idle"
  BY KnownRecord DEF IInv, Relations, DispositionIsTrue, PendingIsStopping, ArmRuntime,
     AwaitsRuntime, Known, Dispositions, At
<1>2. ProcessType' /\ CountType' /\ at'.place # "down"
  BY Parts DEF ArmRuntime, ProcessType, CountType, Goto, Places
<1>. DEFINE r == [mem[j] EXCEPT !.mutated = TRUE]
<1>3. r \in Journal /\ ~Ended(r) /\ r.mutated /\ r.state = "Running" /\ Persist(j, r)
  BY <1>1 DEF ArmRuntime, Journal, Ended
<1>. HIDE DEF r
<1>4. /\ disp' = [disp EXCEPT ![j] = "LiveProcess"] /\ "LiveProcess" \in Dispositions
      /\ leases' \in [Jobs -> SUBSET Keys] /\ issues' \in BOOLEAN
      /\ pending' = pending /\ pending' \in SUBSET Jobs /\ runtime' = runtime
  BY <1>1 DEF ArmRuntime, IInv, TypeOK, Dispositions
<1>5. JournalType' /\ Relations' /\ TerminalsStay
  BY <1>1, <1>2, <1>3, <1>4, RecordStep
<1>6. mem'[j] = r /\ disp'[j] = "LiveProcess"
  BY <1>3, <1>4 DEF Persist, IInv, TypeOK
<1>7. HandlerContext'
  BY <1>3, <1>4, <1>6 DEF ArmRuntime, Goto, HandlerContext, Known
<1>. QED BY <1>2, <1>5, <1>7, Assembled

\* maybe_release_heavy_lease_during_recovery keeps the invariant.
LEMMA ReleaseHeavyInv ==
  ASSUME IInv, NEW j \in Jobs, ReleaseHeavy(j)
  PROVE  IInv' /\ TerminalsStay
<1>1. /\ Known(j) /\ ~Ended(mem[j]) /\ mem[j] \in Journal /\ disp[j] \in Dispositions
      /\ mem[j].state = "Recovering" /\ mem[j].mutated /\ j \notin pending
      /\ at.place = "idle" /\ at' = at
  BY KnownRecord DEF IInv, Relations, PendingIsStopping, ReleaseHeavy,
     Recovering, Known, Ended, Terminals, At
<1>2. ProcessType' /\ CountType'
  BY Parts DEF ReleaseHeavy, ProcessType, CountType
<1>. DEFINE r == [mem[j] EXCEPT !.heavy = FALSE]
            D == disp[j]
<1>3. r \in Journal /\ ~Ended(r) /\ r.mutated /\ r.state = "Recovering" /\ Persist(j, r)
  BY <1>1 DEF ReleaseHeavy, Journal, Ended
<1>4. D \in Dispositions /\ D \notin {"Settled", "Queued", "Launching", "DeadBeforeMutation"}
        /\ disp' = [disp EXCEPT ![j] = D]
  BY <1>1 DEF IInv, TypeOK, Relations, DispositionIsTrue, ReleaseHeavy, Known
<1>. HIDE DEF r, D
<1>5. /\ issues' \in BOOLEAN /\ pending' = pending /\ pending' \in SUBSET Jobs
      /\ runtime' = runtime /\ leases' \in [Jobs -> SUBSET Keys]
  BY <1>1 DEF ReleaseHeavy, IInv, TypeOK
<1>6. JournalType' /\ Relations' /\ TerminalsStay
  BY <1>1, <1>3, <1>4, <1>5, RecordStep
<1>. QED BY <1>1, <1>2, <1>6, NoContext, Assembled

\* A step of the override that keeps its owner, or ends it.
LEMMA OverrideStep ==
  ASSUME IInv, NEW i \in Instances, NEW stage \in Stages, runtime[i].stage # "idle",
         \/ runtime' = [runtime EXCEPT ![i].stage = stage]
         \/ runtime' = [runtime EXCEPT ![i] = [job |-> None, stage |-> "idle"]],
         disk' = disk, mem' = mem, disp' = disp, leases' = leases, pending' = pending,
         issues' = issues, at' = at, worker' = worker, permit' = permit, result' = result,
         orphaned' = orphaned, restarts' = restarts, faults' = faults
  PROVE  IInv' /\ TerminalsStay
<1>1. runtime' \in [Instances -> [job : Jobs \cup {None}, stage : Stages]]
  BY SMT DEF IInv, TypeOK, Stages
<1>2. JournalType' /\ ProcessType' /\ CountType'
  BY <1>1, Parts DEF JournalType, ProcessType, CountType
<1>3. \A k \in Instances : runtime'[k].stage # "idle" =>
        runtime[k].stage # "idle" /\ runtime'[k].job = runtime[k].job
  BY SMTT(30) DEF IInv, TypeOK
<1>4. Relations' /\ TerminalsStay
  BY <1>2, <1>3, FrameStep DEF JournalType
<1>5. HandlerContext'
  BY DEF IInv, HandlerContext, Known
<1>. QED BY <1>2, <1>4, <1>5, Assembled

\* Withdrawing a restored request keeps the invariant.
LEMMA WithdrawRestoredInv ==
  ASSUME IInv, NEW j \in Jobs, WithdrawRestored(j)
  PROVE  IInv' /\ TerminalsStay
<1>1. /\ Instance[j] \in Instances /\ "withdrawn" \in Stages
      /\ runtime[Instance[j]].stage # "idle"
      /\ runtime' = [runtime EXCEPT ![Instance[j]].stage = "withdrawn"]
  BY SMT DEF WithdrawRestored, Instances, Stages
<1>. QED BY <1>1, OverrideStep DEF WithdrawRestored

\* One step of the override of an instance keeps the invariant.
LEMMA OverrideInv ==
  ASSUME IInv, NEW i \in Instances, NEW from \in Stages \ {"idle"}, NEW to \in Stages,
         Override(i, from, to)
  PROVE  IInv' /\ TerminalsStay
  BY OverrideStep DEF Override

\* A worker publishing its control keeps the invariant.
LEMMA WorkerRequestsInv ==
  ASSUME IInv, NEW i \in Instances, WorkerRequests(i)
  PROVE  IInv' /\ TerminalsStay
  BY OverrideInv DEF WorkerRequests, Stages

\* The instance driver restoring an override keeps the invariant.
LEMMA DriverMovesInv ==
  ASSUME IInv, NEW i \in Instances, DriverMoves(i)
  PROVE  IInv' /\ TerminalsStay
<1>1. CASE \E from \in Stages \ {"idle"}, to \in Stages : Override(i, from, to)
  BY <1>1, OverrideInv
<1>2. CASE /\ runtime[i].stage = "withdrawn"
           /\ runtime' = [runtime EXCEPT ![i] = [job |-> None, stage |-> "idle"]]
           /\ UNCHANGED <<disk, mem, disp, leases, pending, issues, at, worker, permit,
                          result, orphaned, restarts, faults>>
  <2>1. "idle" \in Stages
    BY DEF Stages
  <2>. QED BY <1>2, <2>1, OverrideStep
<1>. QED BY <1>1, <1>2 DEF DriverMoves, Stages

\* A worker that finds its permit keeps the invariant.
LEMMA WorkerStartsInv ==
  ASSUME IInv, NEW j \in Jobs, WorkerStarts(j)
  PROVE  IInv' /\ TerminalsStay
<1>1. JournalType' /\ ProcessType' /\ CountType'
  BY Parts DEF WorkerStarts, JournalType, ProcessType, CountType
<1>2. Relations' /\ TerminalsStay
  BY <1>1, FrameStep DEF WorkerStarts, JournalType
<1>3. HandlerContext'
  BY DEF WorkerStarts, IInv, HandlerContext, Known
<1>. QED BY <1>1, <1>2, <1>3, Assembled

\* A worker exiting with any result keeps the invariant.
LEMMA WorkerExitsInv ==
  ASSUME IInv, NEW j \in Jobs, WorkerExits(j)
  PROVE  IInv' /\ TerminalsStay
<1>1. JournalType' /\ ProcessType' /\ CountType'
  BY Parts, SMT DEF WorkerExits, JournalType, ProcessType, CountType
<1>2. Relations' /\ TerminalsStay
  BY <1>1, FrameStep DEF WorkerExits, JournalType
<1>3. HandlerContext'
  BY DEF WorkerExits, IInv, HandlerContext, Known
<1>. QED BY <1>1, <1>2, <1>3, Assembled

\* settle_native_runtime_recovery only ever picks a terminal state.
LEMMA RestoredStateType == ASSUME NEW j \in Jobs PROVE RestoredState(j) \in Terminals
  BY DEF RestoredState, Terminals

\* settle_native_runtime_recovery keeps the invariant.
LEMMA SettleRecoveryInv ==
  ASSUME IInv, NEW j \in Jobs, NEW ok \in BOOLEAN, SettleRecovery(j, ok)
  PROVE  IInv' /\ TerminalsStay
<1>1. /\ Known(j) /\ ~Ended(mem[j]) /\ at.place = "idle" /\ at' = at
      /\ Instance[j] \in Instances /\ mem[j].mutated
  BY DEF SettleRecovery, Recovering, Known, Ended, Terminals, At, Instances
<1>2. CountType'
  BY Parts, WritesType DEF SettleRecovery
<1>3. runtime' \in [Instances -> [job : Jobs \cup {None}, stage : Stages]]
        /\ permit' \in [Jobs -> BOOLEAN]
  BY <1>1 DEF SettleRecovery, IInv, TypeOK, Stages
<1>4. ProcessType'
  BY <1>3, Parts DEF SettleRecovery, ProcessType
<1>5. \A i \in Instances : runtime'[i].stage # "idle" =>
        /\ runtime[i].stage # "idle" /\ runtime'[i].job = runtime[i].job
        /\ runtime[i].job # j
  BY <1>1 DEF SettleRecovery, IInv, TypeOK, Relations, OverrideOwner
<1>6. CASE ok
  <2>1. JournalType' /\ Relations' /\ TerminalsStay
    BY <1>1, <1>5, <1>6, RestoredStateType, SettleStep DEF SettleRecovery
  <2>. QED BY <1>1, <1>2, <1>4, <2>1, NoContext, Assembled
<1>7. CASE ~ok
  <2>1. JournalType'
    BY <1>7, Parts DEF SettleRecovery, Unsettled, JournalType
  <2>2. Relations' /\ TerminalsStay
    BY <1>1, <1>5, <1>7, <2>1, FrameStep DEF SettleRecovery, Unsettled, JournalType
  <2>. QED BY <1>1, <1>2, <1>4, <2>1, <2>2, NoContext, Assembled
<1>. QED BY <1>6, <1>7

\* Losing the daemon keeps the invariant: nothing on disk changes.
LEMMA CrashInv ==
  ASSUME IInv, Crash
  PROVE  IInv' /\ TerminalsStay
<1>1. /\ at' = [place |-> "down", job |-> None] /\ mem' = [k \in Jobs |-> None]
      /\ disp' = [k \in Jobs |-> IF disp[k] = "retired" THEN "retired" ELSE "absent"]
      /\ leases' = [k \in Jobs |-> {}] /\ pending' = {} /\ issues' = FALSE
      /\ disk' = disk /\ runtime' = runtime
  BY DEF Crash, Goto
<1>2. \A j \in Jobs : ~Known(j)' /\ disp'[j] \in {"absent", "retired"}
  BY <1>1 DEF Known, Dispositions
<1>3. CountType'
  BY Parts, LimitAssumption, SMT DEF Crash, CountType
<1>4. JournalType' /\ ProcessType'
  BY <1>1, <1>2, Parts DEF Crash, JournalType, ProcessType, Places
<1>5. MemoryAgrees' /\ EndedIsInert' /\ DispositionIsTrue' /\ PendingIsStopping'
  BY <1>1, <1>2 DEF MemoryAgrees, EndedIsInert, DispositionIsTrue, PendingIsStopping,
     IInv, Relations, At
<1>6. OverrideOwner' /\ MutationIsJournalled'
  BY <1>1 DEF IInv, Relations, OverrideOwner, MutationIsJournalled
<1>7. TerminalsStay /\ HandlerContext'
  BY <1>1 DEF TerminalsStay, HandlerContext
<1>. QED BY <1>3, <1>4, <1>5, <1>6, <1>7, Assembled DEF Relations

\* Pruning only removes journals that have ended.
LEMMA PrunableFacts ==
  ASSUME NEW d, NEW held, NEW busy, NEW old \in Prunable(d, held, busy), NEW k \in old
  PROVE  k \in Jobs /\ d[k] = "Settled"
  BY DEF Prunable

\* start_job, with pruning and a failing create, keeps the invariant.
LEMMA StartJobInv ==
  ASSUME IInv, NEW j \in Jobs, NEW outcome \in {"created", "failed", "refused"},
         StartJob(j, outcome)
  PROVE  IInv' /\ TerminalsStay
<1>1. PICK old \in Prunable(disp, leases, pending) :
        /\ disk' = [Without(disk, old, None) EXCEPT ![j] =
                      CASE outcome = "created" -> Queued
                        [] outcome = "failed"  -> Debris
                        [] outcome = "refused" -> disk[j]]
        /\ mem' = [Without(mem, old, None) EXCEPT ![j] =
                     IF outcome = "created" THEN Queued ELSE mem[j]]
        /\ disp' = [Without(disp, old, "retired") EXCEPT ![j] =
                      IF outcome = "created" THEN "Queued" ELSE "absent"]
        /\ leases' = [leases EXCEPT ![j] = IF outcome = "created" THEN LocalKeys[j] ELSE {}]
  BY DEF StartJob
<1>2. /\ at.place = "idle" /\ at' = at /\ disp[j] = "absent" /\ pending' = pending
      /\ runtime' = runtime /\ issues' = issues /\ ~Known(j)
  BY DEF StartJob, At, Known, Dispositions
<1>3. \A k \in old : k \in Jobs /\ disp[k] = "Settled" /\ k # j
  BY <1>1, <1>2, PrunableFacts
<1>4. disk[j] \in {None, Debris}
  BY <1>2 DEF IInv, Relations, MemoryAgrees, At
<1>5. \A k \in Jobs \ (old \cup {j}) :
        disk'[k] = disk[k] /\ mem'[k] = mem[k] /\ disp'[k] = disp[k]
  BY <1>1 DEF Without
<1>6. \A k \in old : disk'[k] = None /\ mem'[k] = None /\ disp'[k] = "retired"
  BY <1>1, <1>3 DEF Without
<1>7. \/ disk'[j] = Queued /\ mem'[j] = Queued /\ disp'[j] = "Queued"
      \/ disk'[j] \in {None, Debris} /\ mem'[j] = mem[j] /\ disp'[j] = "absent"
  BY <1>1, <1>4 DEF Without
<1>8. JournalType'
  <2>1. DOMAIN disk' = Jobs /\ DOMAIN mem' = Jobs /\ DOMAIN disp' = Jobs
          /\ disk' = [k \in Jobs |-> disk'[k]] /\ mem' = [k \in Jobs |-> mem'[k]]
          /\ disp' = [k \in Jobs |-> disp'[k]]
    BY <1>1 DEF Without
  <2>2. \A k \in Jobs : /\ disk'[k] \in Journal \cup {None, Debris}
                        /\ mem'[k] \in Journal \cup {None}
                        /\ disp'[k] \in Dispositions \cup {"absent", "retired"}
    <3>1. "Queued" \in Dispositions
      BY DEF Dispositions
    <3>. QED BY SMTT(30), <1>5, <1>6, <1>7, <3>1, Parts, RecordsAreJournals DEF JournalType
  <2>3. leases' \in [Jobs -> SUBSET Keys]
    <3>1. LocalKeys[j] \subseteq Keys
      BY DEF Keys
    <3>. QED BY <1>1, <3>1, Parts DEF JournalType
  <2>. QED BY <1>2, <2>1, <2>2, <2>3, Parts DEF JournalType
<1>9. ProcessType' /\ CountType' /\ HandlerContext'
  BY <1>2, Parts, NoContext, WritesType DEF StartJob, ProcessType
<1>10. \A i \in Instances : runtime[i].stage # "idle" =>
         runtime[i].job \in Jobs \ (old \cup {j})
  <2>. SUFFICES ASSUME NEW i \in Instances, runtime[i].stage # "idle"
                PROVE  runtime[i].job \in Jobs \ (old \cup {j})
    OBVIOUS
  <2>1. runtime[i].job \in Jobs /\ disk[runtime[i].job] \notin {None, Debris}
          /\ ~Ended(disk[runtime[i].job])
    BY DEF IInv, Relations, OverrideOwner, MutationIsJournalled, Unfinished, IsJournal, Ended
  <2>2. \A k \in old : Ended(disk[k])
    BY <1>3, KnownRecord DEF IInv, Relations, DispositionIsTrue, Known, Dispositions
  <2>. QED BY <1>4, <2>1, <2>2
<1>11. MemoryAgrees' /\ EndedIsInert' /\ DispositionIsTrue'
  <2>. SUFFICES ASSUME NEW k \in Jobs
                PROVE  /\ IF Known(k)'
                          THEN /\ mem'[k] \in Journal /\ disk'[k] \in Journal
                               /\ mem'[k].mutated = disk'[k].mutated
                               /\ Ended(mem'[k]) <=> Ended(disk'[k])
                               /\ ~At("down")'
                          ELSE At("down")' \/ disk'[k] \in {None, Debris}
                       /\ disk'[k] \in Journal /\ (Ended(disk'[k]) \/ disk'[k].state = "Queued")
                            => ~disk'[k].mutated
                       /\ Known(k)' /\ mem'[k].state = "Queued" => ~mem'[k].mutated
                       /\ Known(k)' => (disp'[k] = "Settled" <=> Ended(mem'[k]))
                       /\ disp'[k] \in {"Queued", "Launching"}
                            => ~mem'[k].process /\ ~mem'[k].mutated
                       /\ disp'[k] = "DeadBeforeMutation" => ~mem'[k].mutated
    BY DEF MemoryAgrees, EndedIsInert, DispositionIsTrue, Ended
  <2>1. CASE k \in Jobs \ (old \cup {j})
    BY <1>2, <1>5, <2>1 DEF IInv, Relations, MemoryAgrees, EndedIsInert, DispositionIsTrue,
       Known, At
  <2>2. CASE k \in old
    BY <1>2, <1>6, <2>2, NoJournalAssumption DEF Known, At, Dispositions
  <2>3. CASE k = j
    BY <1>2, <1>7, <2>3, RecordsAreJournals, NoJournalAssumption
       DEF Known, At, Dispositions, Ended
  <2>. QED BY <2>1, <2>2, <2>3
<1>12. PendingIsStopping'
  BY <1>2, <1>3, <1>5 DEF IInv, TypeOK, Relations, PendingIsStopping
<1>13. OverrideOwner' /\ MutationIsJournalled'
  BY <1>2, <1>5, <1>10 DEF IInv, Relations, OverrideOwner, MutationIsJournalled
<1>14. TerminalsStay
  BY <1>4, <1>5, <1>6, NoJournalAssumption DEF TerminalsStay
<1>. QED BY <1>8, <1>9, <1>11, <1>12, <1>13, <1>14, Assembled DEF Relations

\* What the startup scan makes of a journal, and what it writes back.
LEMMA ScanFacts ==
  ASSUME NEW r \in Journal, NEW live \in BOOLEAN,
         Ended(r) \/ r.state = "Queued" => ~r.mutated
  PROVE  LET s == ScanOne(r, live)
             q == Reconciled(r, live)
         IN /\ s \in Dispositions /\ q \in Journal
            /\ s = "Settled" <=> Ended(r)
            /\ s = "Queued" => ~r.process /\ ~r.mutated
            /\ s # "Launching"
            /\ s = "DeadBeforeMutation" => ~r.mutated /\ Ended(q)
            /\ s # "DeadBeforeMutation" => (Ended(q) <=> Ended(r))
            /\ s \in {"Queued", "LiveProcess", "Settled"} => q = r
            /\ Ended(q) \/ q.state = "Queued" => ~q.mutated
            /\ r.mutated => q.mutated
            /\ Ended(r) => q = r
<1>1. Terminated("Failed") \in Journal /\ Ended(Terminated("Failed"))
        /\ ~Terminated("Failed").mutated /\ Terminated("Failed").state = "Failed"
  BY RecordsAreJournals DEF Terminals, Terminated
<1>. DEFINE q2 == RequireRecovery(r, "recovery")
<1>2. q2 \in Journal /\ q2.mutated /\ ~Ended(q2) /\ q2.state = "Recovering"
  BY RecordsAreJournals DEF Diagnostics, Ended, Terminals
<1>. HIDE DEF q2
<1>3. /\ ScanOne(r, live) \in Dispositions
      /\ ScanOne(r, live) = "Settled" <=> Ended(r)
      /\ ScanOne(r, live) = "Queued" => ~r.process /\ ~r.mutated
      /\ ScanOne(r, live) # "Launching"
      /\ ScanOne(r, live) = "DeadBeforeMutation" => ~r.mutated
  BY DEF ScanOne, Dispositions, Ended
<1>4. Reconciled(r, live) =
        CASE ScanOne(r, live) = "DeadBeforeMutation" -> Terminated("Failed")
          [] ScanOne(r, live) = "RecoveryRequired" /\ r.state # "Recovering" -> q2
          [] OTHER -> r
  BY DEF Reconciled, q2
<1>. QED BY <1>1, <1>2, <1>3, <1>4

\* What the scan takes for a journal is one.
LEMMA FoundIsJournal ==
  ASSUME TypeOK
  PROVE  \A j \in Jobs : IsJournal(disk[j]) <=> disk[j] \in Journal
  BY NoJournalAssumption, SMT DEF TypeOK, IsJournal

\* A restart (scan, adopt, reconcile, reclaim leases) keeps the invariant.
LEMMA BindInv ==
  ASSUME IInv, NEW bad \in {{}} \cup {{j} : j \in Jobs}, Bind(bad)
  PROVE  IInv' /\ TerminalsStay
<1>. DEFINE found == {j \in Jobs : IsJournal(disk[j])}
            fixed == [j \in Jobs |-> IF j \in found \ bad THEN Reconciled(disk[j], Live(j))
                                     ELSE disk[j]]
            scan  == [j \in Jobs |->
                        IF j \notin found THEN disp[j]
                        ELSE IF ScanOne(disk[j], Live(j)) = "DeadBeforeMutation" /\ j \notin bad
                        THEN "Settled" ELSE ScanOne(disk[j], Live(j))]
            claimants == {j \in found : scan[j] \notin {"DeadBeforeMutation", "Settled"}}
            adopted == {j \in found : scan[j] = "LiveProcess"}
            stopping == {j \in adopted : fixed[j].state = "Cancelling"}
<1>1. PICK granted \in Grants(claimants, fixed) :
        LET held == [j \in Jobs |-> IF j \in granted THEN Claim(j, fixed[j]) ELSE {}]
        IN /\ leases' = held
           /\ issues' = (bad # {} \/ granted # claimants \/ \E j \in Jobs : disk[j] = Debris)
           /\ \E old \in IF issues' THEN {{}} ELSE Prunable(scan, held, stopping) :
                /\ disk' = Without(fixed, old, None)
                /\ mem' = [j \in Jobs |-> IF j \in found \ old THEN fixed[j] ELSE None]
                /\ disp' = Without(scan, old, "retired")
  BY DEF Bind
<1>2. /\ at.place = "down" /\ at' = Idle /\ at'.place = "idle" /\ pending' = stopping
      /\ runtime' = runtime
      /\ permit' = [j \in Jobs |-> permit[j] \/ (j \in adopted \ stopping /\ ~OwnsRuntime(j))]
  BY DEF Bind, At, Done, Idle
<1>3. PICK old : /\ disk' = Without(fixed, old, None)
                 /\ mem' = [j \in Jobs |-> IF j \in found \ old THEN fixed[j] ELSE None]
                 /\ disp' = Without(scan, old, "retired")
                 /\ \A k \in old : k \in Jobs /\ scan[k] = "Settled"
  <2>. HIDE DEF scan, fixed, found, stopping
  <2>. QED BY <1>1, PrunableFacts
<1>4. \A j \in Jobs : j \in found <=> disk[j] \in Journal
  BY FoundIsJournal DEF IInv
<1>5. \A j \in Jobs : ~Known(j) /\ disp[j] \in {"absent", "retired"}
  BY <1>2 DEF IInv, TypeOK, Relations, MemoryAgrees, At, Known
<1>6. ASSUME NEW j \in found
      PROVE  /\ fixed[j] \in Journal /\ scan[j] \in Dispositions
             /\ scan[j] = "Settled" <=> Ended(fixed[j])
             /\ scan[j] \in {"Queued", "Launching"} => ~fixed[j].process /\ ~fixed[j].mutated
             /\ scan[j] = "DeadBeforeMutation" => ~fixed[j].mutated
             /\ Ended(fixed[j]) \/ fixed[j].state = "Queued" => ~fixed[j].mutated
             /\ disk[j].mutated /\ ~Ended(disk[j]) => fixed[j].mutated /\ ~Ended(fixed[j])
             /\ Ended(disk[j]) => fixed[j] = disk[j]
  <2>1. disk[j] \in Journal /\ j \in Jobs /\ Live(j) \in BOOLEAN
    BY <1>4, SMT DEF Live
  <2>2. Ended(disk[j]) \/ disk[j].state = "Queued" => ~disk[j].mutated
    BY <2>1 DEF IInv, Relations, EndedIsInert
  <2>. DEFINE s == ScanOne(disk[j], Live(j))
              q == Reconciled(disk[j], Live(j))
  <2>3. /\ s \in Dispositions /\ q \in Journal
        /\ s = "Settled" <=> Ended(disk[j])
        /\ s = "Queued" => ~disk[j].process /\ ~disk[j].mutated
        /\ s # "Launching"
        /\ s = "DeadBeforeMutation" => ~disk[j].mutated /\ Ended(q)
        /\ s # "DeadBeforeMutation" => (Ended(q) <=> Ended(disk[j]))
        /\ s \in {"Queued", "LiveProcess", "Settled"} => q = disk[j]
        /\ Ended(q) \/ q.state = "Queued" => ~q.mutated
        /\ disk[j].mutated => q.mutated
        /\ Ended(disk[j]) => q = disk[j]
    BY <2>1, <2>2, ScanFacts
  <2>4. /\ fixed[j] = IF j \in bad THEN disk[j] ELSE q
        /\ scan[j] = IF s = "DeadBeforeMutation" /\ j \notin bad THEN "Settled" ELSE s
    BY <2>1
  <2>5. "Settled" \in Dispositions
    BY DEF Dispositions
  <2>. HIDE DEF s, q, fixed, scan
  <2>6. CASE j \in bad
    BY SMTT(30), <2>1, <2>2, <2>3, <2>4, <2>6
  <2>7. CASE j \notin bad
    BY SMTT(30), <2>1, <2>2, <2>3, <2>4, <2>5, <2>7
  <2>. QED BY <2>6, <2>7
<1>7. \A j \in Jobs \ found : fixed[j] = disk[j] /\ scan[j] = disp[j] /\ j \notin old
  BY <1>3, <1>5
<1>8. old \subseteq found
  BY <1>3, <1>7
<1>9. pending' \subseteq found /\ \A j \in pending' :
        scan[j] = "LiveProcess" /\ fixed[j].state = "Cancelling"
  BY <1>2
<1>. HIDE DEF fixed, scan, stopping, adopted
<1>10. \A j \in found \ old : disk'[j] = fixed[j] /\ mem'[j] = fixed[j] /\ disp'[j] = scan[j]
  BY <1>3 DEF Without
<1>11. \A j \in old : disk'[j] = None /\ mem'[j] = None /\ disp'[j] = "retired"
                        /\ Ended(fixed[j])
  BY <1>3, <1>6, <1>8 DEF Without
<1>12. \A j \in Jobs \ found : disk'[j] = disk[j] /\ mem'[j] = None /\ disp'[j] = disp[j]
                                 /\ disk[j] \in {None, Debris}
  BY <1>3, <1>7 DEF Without, IsJournal
<1>. HIDE DEF found
<1>13. JournalType'
  <2>1. /\ disk' = [k \in Jobs |-> disk'[k]] /\ mem' = [k \in Jobs |-> mem'[k]]
        /\ disp' = [k \in Jobs |-> disp'[k]]
    BY <1>3 DEF Without
  <2>2. \A k \in Jobs : /\ disk'[k] \in Journal \cup {None, Debris}
                        /\ mem'[k] \in Journal \cup {None}
                        /\ disp'[k] \in Dispositions \cup {"absent", "retired"}
    BY <1>5, <1>6, <1>10, <1>11, <1>12
  <2>3. leases' \in [Jobs -> SUBSET Keys]
    <3>1. \A j \in Jobs : Claim(j, fixed[j]) \in SUBSET Keys
      BY DEF Claim, Keys
    <3>2. leases' = [j \in Jobs |-> IF j \in granted THEN Claim(j, fixed[j]) ELSE {}]
      BY <1>1
    <3>. QED BY <3>1, <3>2
  <2>4. issues' \in BOOLEAN
    BY <1>1
  <2>5. pending' \in SUBSET Jobs
    BY <1>9 DEF found
  <2>. QED BY <2>1, <2>2, <2>3, <2>4, <2>5 DEF JournalType
<1>14. ProcessType' /\ CountType' /\ HandlerContext'
  <2>1. permit' \in [Jobs -> BOOLEAN]
    BY <1>2, Parts DEF ProcessType
  <2>2. ProcessType'
    BY <1>2, <2>1, Parts, ZenonT(30) DEF Bind, ProcessType, Idle, Places
  <2>3. CountType'
    BY Parts, WritesType DEF Bind
  <2>. QED BY <1>2, <2>2, <2>3, NoContext
<1>15. MemoryAgrees' /\ EndedIsInert' /\ DispositionIsTrue'
  <2>. SUFFICES ASSUME NEW k \in Jobs
                PROVE  /\ IF Known(k)'
                          THEN /\ mem'[k] \in Journal /\ disk'[k] \in Journal
                               /\ mem'[k].mutated = disk'[k].mutated
                               /\ Ended(mem'[k]) <=> Ended(disk'[k])
                               /\ ~At("down")'
                          ELSE At("down")' \/ disk'[k] \in {None, Debris}
                       /\ disk'[k] \in Journal /\ (Ended(disk'[k]) \/ disk'[k].state = "Queued")
                            => ~disk'[k].mutated
                       /\ Known(k)' /\ mem'[k].state = "Queued" => ~mem'[k].mutated
                       /\ Known(k)' => (disp'[k] = "Settled" <=> Ended(mem'[k]))
                       /\ disp'[k] \in {"Queued", "Launching"}
                            => ~mem'[k].process /\ ~mem'[k].mutated
                       /\ disp'[k] = "DeadBeforeMutation" => ~mem'[k].mutated
    BY DEF MemoryAgrees, EndedIsInert, DispositionIsTrue, Ended
  <2>1. CASE k \in found \ old
    BY <1>2, <1>6, <1>10, <2>1 DEF Known, At
  <2>2. CASE k \in old
    BY <1>2, <1>11, <2>2, NoJournalAssumption DEF Known, At, Dispositions
  <2>3. CASE k \in Jobs \ found
    BY <1>2, <1>5, <1>12, <2>3, NoJournalAssumption DEF Known, At, Dispositions
  <2>. QED BY <2>1, <2>2, <2>3
<1>16. PendingIsStopping'
  <2>1. \A j \in pending' : j \in found \ old
    BY <1>3, <1>9
  <2>. QED BY <1>9, <1>10, <2>1 DEF PendingIsStopping
<1>17. \A i \in Instances : runtime[i].stage # "idle" =>
         /\ runtime[i].job \in found \ old
         /\ fixed[runtime[i].job].mutated /\ ~Ended(fixed[runtime[i].job])
         /\ fixed[runtime[i].job] \in Journal
  <2>. SUFFICES ASSUME NEW i \in Instances, runtime[i].stage # "idle"
                PROVE  /\ runtime[i].job \in found \ old
                       /\ fixed[runtime[i].job].mutated /\ ~Ended(fixed[runtime[i].job])
                       /\ fixed[runtime[i].job] \in Journal
    OBVIOUS
  <2>1. /\ runtime[i].job \in found /\ disk[runtime[i].job].mutated
        /\ ~Ended(disk[runtime[i].job])
    BY DEF IInv, Relations, OverrideOwner, MutationIsJournalled, Unfinished, IsJournal,
       Ended, found
  <2>. QED BY <1>6, <1>11, <2>1
<1>18. OverrideOwner' /\ MutationIsJournalled'
  <2>1. OverrideOwner'
    BY <1>2 DEF IInv, Relations, OverrideOwner
  <2>2. MutationIsJournalled'
    BY <1>2, <1>10, <1>17, NoJournalAssumption
       DEF MutationIsJournalled, Unfinished, IsJournal, Ended
  <2>. QED BY <2>1, <2>2
<1>19. TerminalsStay
  BY <1>4, <1>6, <1>10, <1>11, <1>12 DEF TerminalsStay
<1>. QED BY <1>13, <1>14, <1>15, <1>16, <1>18, <1>19, Assembled DEF Relations

----------------------------------------------------------------------------
\* Every step of the service keeps the invariant, and none revives a terminal job.
LEMMA NextInv ==
  ASSUME IInv, [Next]_vars
  PROVE  IInv' /\ TerminalsStay
<1>1. CASE UNCHANGED vars
  BY <1>1 DEF vars, IInv, TypeOK, Relations, MemoryAgrees, EndedIsInert, DispositionIsTrue,
     PendingIsStopping, OverrideOwner, MutationIsJournalled, HandlerContext, Known, At,
     TerminalsStay
<1>2. ASSUME NEW j \in Jobs, NEW ok \in BOOLEAN, Tick(j, ok) PROVE IInv' /\ TerminalsStay
  BY <1>2, DispatchInv, PreflightFailsInv, MonitorInv, PollCancellationInv,
     SettleRecoveryInv, HandlerStepInv DEF Tick
<1>3. ASSUME NEW j \in Jobs, Poll(j) PROVE IInv' /\ TerminalsStay
  BY <1>3, ArmRuntimeInv, StopParkedInv, ReleaseHeavyInv, WithdrawRestoredInv DEF Poll
<1>4. CASE CoordinatorMoves
  BY <1>2, <1>3, <1>4, BindInv DEF CoordinatorMoves
<1>. QED BY <1>1, <1>4, StartJobInv, CancelJobInv, BudgetStopInv, CrashInv, WorkerStartsInv,
            WorkerExitsInv, WorkerRequestsInv, DriverMovesInv DEF Next

\* The inductive invariant holds in every reachable state.
THEOREM IInvHolds == Spec => []IInv
  BY InitIInv, NextInv, PTL DEF Spec

\* Type correctness of the coordinator's journals, dispositions, leases and
\* handler state, whatever jobs are submitted, cancelled or interrupted.
THEOREM TypeCorrect == Spec => []TypeOK
<1>1. IInv => TypeOK
  BY DEF IInv
<1>. QED BY <1>1, IInvHolds, PTL

\* Every runtime override that is in progress has a journal on disk that says
\* so: arm_attached_runtime_mutation writes the bit before any permit, and no
\* settling, crash, reconciliation or pruning loses it early.
THEOREM MutationJournalled == Spec => []MutationIsJournalled
<1>1. IInv => MutationIsJournalled
  BY DEF IInv, Relations
<1>. QED BY <1>1, IInvHolds, PTL

\* A terminal journal is never rewritten by cancel, recovery, reconciliation or
\* a late poll; it can only be pruned.
THEOREM TerminalFinal == Spec => TerminalIsFinal
<1>1. IInv /\ [Next]_vars =>
        [\A j \in Jobs : IsJournal(disk[j]) /\ disk[j].state \in Terminals
                           => disk'[j] \in {disk[j], None}]_vars
  <2>1. ASSUME IInv, TerminalsStay,
               NEW j \in Jobs, IsJournal(disk[j]), disk[j].state \in Terminals
        PROVE  disk'[j] \in {disk[j], None}
    BY <2>1 DEF IInv, TypeOK, IsJournal, TerminalsStay, Ended
  <2>. QED BY <2>1, NextInv
<1>. QED BY <1>1, IInvHolds, PTL DEF Spec, TerminalIsFinal
=============================================================================
