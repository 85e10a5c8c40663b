---------------------- MODULE JobCoordinatorLeaseProofs ----------------------
(***************************************************************************)
(* Workers, permits and leases of JobCoordinator, for any set of jobs, any *)
(* leases and any number of crashes and failed writes: two unfinished jobs *)
(* never share an uplink, only an observed exit ends a job with a worker,  *)
(* and, while no write has failed or the daemon restarted at most once, one*)
(* worker at a time generates traffic.                                     *)
(*                                                                         *)
(* WInv adds to IInv that a worker that may work is named by a journal with*)
(* the heavy bit, and that a lease table with gaps closes admission.       *)
(***************************************************************************)
EXTENDS JobCoordinatorProofs

\* A worker that generates traffic, or may start to without another word.
Working(j) == worker[j] = "active" \/ (worker[j] = "parked" /\ permit[j])

\* The journal names the worker from the Running record on until the job leaves
\* Running or Cancelling, and memory is at most the stop of a worker ahead.
WorkIsJournalled ==
  \A j \in Jobs :
    /\ Working(j) => disk[j] \in Journal /\ disk[j].process
    /\ disk[j] \in Journal =>
         /\ disk[j].process => disk[j].state \in {"Running", "Cancelling"}
         /\ disk[j].state = "Running" => disk[j].process
    /\ Known(j) =>
         /\ mem[j].process = disk[j].process
         /\ \/ mem[j].state = disk[j].state
            \/ mem[j].state = "Cancelling" /\ disk[j].state \in {"Starting", "Running"}

\* A job that never started has no worker; a permit is given to a job that runs
\* and, if it may change the runtime, says so on disk; no worker works without.
PermitIsEarned ==
  \A j \in Jobs :
    /\ disp[j] = "absent" /\ disk[j] \notin Journal => worker[j] = "none" /\ ~permit[j]
    /\ worker[j] = "active" => permit[j]
    /\ disk[j] \in Journal /\ permit[j] =>
         /\ disk[j].state \notin {"Queued", "Starting"}
         /\ OwnsRuntime(j) /\ ~Ended(disk[j]) => disk[j].mutated

\* Unless a startup issue closes admission, an unfinished job holds its keys.
LocalLeases ==
  ~issues => \A j \in Jobs : Known(j) /\ ~Ended(mem[j]) => LocalKeys[j] \subseteq leases[j]

\* The heavy bit of the journal covers the whole life of a worker.
HeavyIsJournalled ==
  \A j \in Jobs :
    /\ disk[j] \in Journal =>
         /\ disk[j].state \in {"Starting", "Running", "Cancelling"} => disk[j].heavy
         /\ Ended(disk[j]) => ~disk[j].heavy
    /\ Known(j) => mem[j].heavy = disk[j].heavy

\* A job that bind found dead and could not settle.  It has no worker; it took a
\* restart and a failed write to leave it.
Dead(j) == disp[j] = "DeadBeforeMutation"
DeadIsIdle ==
  \A j \in Jobs : Dead(j) => ~Working(j) /\ faults # 0 /\ restarts # 0

\* Within these bounds at most one journal has the bit, and its job the lease,
\* but for a dead job: its bit stays in the journal, and the lease is not taken
\* again.  A second restart forgets that the job is dead.
Bounded == faults = 0 \/ restarts <= 1
HeavyLease ==
  Bounded =>
    /\ \A j \in Jobs : Known(j) /\ mem[j].heavy => Heavy \in leases[j] \/ Dead(j)
    /\ \A j, k \in Jobs : j # k /\ disk[j] \in Journal /\ disk[k] \in Journal
                              /\ disk[j].heavy /\ disk[k].heavy => Dead(j) \/ Dead(k)

WorkRelations ==
  /\ WorkIsJournalled /\ PermitIsEarned /\ LocalLeases /\ HeavyIsJournalled /\ HeavyLease
  /\ UplinkExclusion /\ DeadIsIdle

\* What a step that is not a crash does to the counters.
CountsGrow == (faults' = 0 => faults = 0) /\ restarts' = restarts

\* What a handler knows about the worker and the lease of its job.
WorkContext ==
  /\ at.place = "arm" => mem[at.job].heavy
  /\ at.place \in {"spawn", "attach", "launchFail"} => mem[at.job].state = "Starting"
  /\ at.place \in {"rtPermit", "opPermit", "failArmed"} => ~permit[at.job]
  /\ at.place = "cancelExit" => ~Working(at.job)
  /\ at.place = "permit" => ~OwnsRuntime(at.job)
  /\ at.place = "exited" => ~Live(at.job)
  /\ at.place = "down" => restarts # 0

WInv == IInv /\ WorkRelations /\ WorkContext

\* Most leaves are first-order; the ones that need arithmetic, records or functions cite SMT.
USE Zenon

\* What the invariant says about a job the coordinator knows.
LEMMA KnownWork ==
  ASSUME WInv, NEW j \in Jobs, Known(j)
  PROVE  /\ mem[j] \in Journal /\ disk[j] \in Journal /\ disp[j] \in Dispositions
         /\ mem[j].mutated = disk[j].mutated /\ (Ended(mem[j]) <=> Ended(disk[j]))
         /\ mem[j].process = disk[j].process /\ mem[j].heavy = disk[j].heavy
         /\ mem[j].state # disk[j].state
              => mem[j].state = "Cancelling" /\ disk[j].state \in {"Starting", "Running"}
         /\ mem[j].process => mem[j].state \in {"Running", "Cancelling"}
         /\ mem[j].state = "Running" => mem[j].process
         /\ mem[j].state \in {"Starting", "Running", "Cancelling"} => mem[j].heavy
         /\ Working(j) => mem[j].process
         /\ permit[j] => mem[j].state \notin {"Queued", "Starting"}
         /\ permit[j] /\ OwnsRuntime(j) /\ ~Ended(mem[j]) => mem[j].mutated
         /\ ~issues /\ ~Ended(mem[j]) => LocalKeys[j] \subseteq leases[j]
         /\ Bounded /\ mem[j].heavy => Heavy \in leases[j] \/ Dead(j)
         /\ Bounded /\ mem[j].heavy /\ ~Dead(j) =>
              \A k \in Jobs \ {j} : disk[k] \in Journal /\ disk[k].heavy => Dead(k)
         /\ Dead(j) => ~mem[j].mutated /\ ~Working(j)
<1>1. /\ mem[j] \in Journal /\ disk[j] \in Journal /\ disp[j] \in Dispositions
      /\ mem[j].mutated = disk[j].mutated /\ (Ended(mem[j]) <=> Ended(disk[j]))
  BY KnownRecord DEF WInv
<1>2. /\ mem[j].process = disk[j].process
      /\ mem[j].state # disk[j].state
           => mem[j].state = "Cancelling" /\ disk[j].state \in {"Starting", "Running"}
      /\ disk[j].process => disk[j].state \in {"Running", "Cancelling"}
      /\ disk[j].state = "Running" => disk[j].process
      /\ Working(j) => disk[j].process
  BY <1>1 DEF WInv, WorkRelations, WorkIsJournalled
<1>3. /\ permit[j] => disk[j].state \notin {"Queued", "Starting"}
      /\ permit[j] /\ OwnsRuntime(j) /\ ~Ended(disk[j]) => disk[j].mutated
  BY <1>1 DEF WInv, WorkRelations, PermitIsEarned
<1>4. /\ mem[j].heavy = disk[j].heavy
      /\ disk[j].state \in {"Starting", "Running", "Cancelling"} => disk[j].heavy
      /\ ~issues /\ ~Ended(mem[j]) => LocalKeys[j] \subseteq leases[j]
      /\ Bounded /\ mem[j].heavy => Heavy \in leases[j] \/ Dead(j)
  BY <1>1 DEF WInv, WorkRelations, HeavyIsJournalled, LocalLeases, HeavyLease
<1>5. Dead(j) => ~mem[j].mutated /\ ~Working(j)
  BY DEF WInv, WorkRelations, DeadIsIdle, Dead, IInv, Relations, DispositionIsTrue
<1>6. Bounded /\ disk[j].heavy /\ ~Dead(j) =>
        \A k \in Jobs \ {j} : disk[k] \in Journal /\ disk[k].heavy => Dead(k)
  BY <1>1 DEF WInv, WorkRelations, HeavyLease
<1>. QED BY <1>1, <1>2, <1>3, <1>4, <1>5, <1>6

\* While the coordinator is up it knows every journal.
LEMMA UpKnows ==
  ASSUME WInv, NEW k \in Jobs, ~At("down"), disk[k] \in Journal
  PROVE  Known(k)
  BY NoJournalAssumption DEF WInv, IInv, Relations, MemoryAgrees

\* A step on the journal of one known job keeps the relations of workers and
\* leases, if the new record, the worker and the leases fit together.
LEMMA WorkStep ==
  ASSUME WInv, NEW j \in Jobs, NEW d \in Journal, NEW m \in Journal, Known(j),
         disk' = [disk EXCEPT ![j] = d], mem' = [mem EXCEPT ![j] = m],
         NEW D \in Dispositions, disp' = [disp EXCEPT ![j] = D],
         \A k \in Jobs \ {j} : worker'[k] = worker[k] /\ permit'[k] = permit[k]
                                 /\ leases'[k] = leases[k],
         Working(j)' => d.process, worker'[j] = "active" => permit'[j],
         d.process => d.state \in {"Running", "Cancelling"}, d.state = "Running" => d.process,
         m.process = d.process, m.heavy = d.heavy,
         m.state = d.state \/ (m.state = "Cancelling" /\ d.state \in {"Starting", "Running"}),
         permit'[j] => d.state \notin {"Queued", "Starting"}
                         /\ (OwnsRuntime(j) /\ ~Ended(d) => d.mutated),
         d.state \in {"Starting", "Running", "Cancelling"} => d.heavy, Ended(d) => ~d.heavy,
         ~issues' => ~issues /\ (~Ended(m) => LocalKeys[j] \subseteq leases'[j]),
         CountsGrow, Dead(j)' => Dead(j) /\ ~Working(j)',
         Bounded /\ d.heavy /\ ~Dead(j)' =>
           /\ Heavy \in leases'[j]
           /\ \A k \in Jobs \ {j} : disk[k] \in Journal /\ disk[k].heavy => Dead(k),
         ~Ended(d) => ~Ended(disk[j])
  PROVE  WorkRelations'
<1>1. /\ disk \in [Jobs -> Journal \cup {None, Debris}] /\ mem \in [Jobs -> Journal \cup {None}]
      /\ disp \in [Jobs -> Dispositions \cup {"absent", "retired"}] /\ disk[j] \in Journal
  BY KnownWork DEF WInv, IInv, TypeOK
<1>2. /\ disk'[j] = d /\ mem'[j] = m /\ disp'[j] = D
      /\ \A k \in Jobs \ {j} : disk'[k] = disk[k] /\ mem'[k] = mem[k] /\ disp'[k] = disp[k]
  BY <1>1
<1>3. \A k \in Jobs : Known(k)' <=> Known(k)
  BY <1>2 DEF Known
<1>4. \A k \in Jobs \ {j} : Working(k)' <=> Working(k)
  BY DEF Working
<1>5. WorkIsJournalled'
  BY <1>2, <1>3, <1>4, SMT DEF WInv, WorkRelations, WorkIsJournalled
<1>6. PermitIsEarned'
  <2>1. "absent" \notin Dispositions
    BY DEF Dispositions
  <2>. QED BY <1>2, <2>1, SMT DEF WInv, WorkRelations, PermitIsEarned, Ended
<1>7. LocalLeases'
  BY <1>2, <1>3 DEF WInv, WorkRelations, LocalLeases, Ended
<1>8. HeavyIsJournalled'
  BY <1>2, <1>3, SMT DEF WInv, WorkRelations, HeavyIsJournalled, Ended
<1>9. HeavyLease' /\ DeadIsIdle'
  <2>1. \A k \in Jobs \ {j} : Dead(k)' <=> Dead(k)
    BY <1>2 DEF Dead
  <2>2. Bounded' => Bounded
    BY DEF Bounded, CountsGrow
  <2>3. DeadIsIdle'
    BY <1>4, <2>1 DEF WInv, WorkRelations, DeadIsIdle, CountsGrow
  <2>4. HeavyLease'
    <3>. SUFFICES ASSUME Bounded
                  PROVE  /\ \A k \in Jobs : Known(k)' /\ mem'[k].heavy
                                             => Heavy \in leases'[k] \/ Dead(k)'
                         /\ \A k, l \in Jobs :
                              k # l /\ disk'[k] \in Journal /\ disk'[l] \in Journal
                                /\ disk'[k].heavy /\ disk'[l].heavy => Dead(k)' \/ Dead(l)'
      BY <2>2 DEF HeavyLease
    <3>1. ASSUME NEW k \in Jobs, Known(k)', mem'[k].heavy
          PROVE  Heavy \in leases'[k] \/ Dead(k)'
      BY <1>2, <1>3, <2>1, <3>1 DEF WInv, WorkRelations, HeavyLease
    <3>2. ASSUME NEW k \in Jobs \ {j}, disk'[k] \in Journal, disk'[k].heavy, d.heavy
          PROVE  Dead(j)' \/ Dead(k)'
      BY <1>2, <2>1, <3>2
    <3>3. ASSUME NEW k \in Jobs \ {j}, NEW l \in Jobs \ {j}, k # l, disk'[k] \in Journal,
                 disk'[l] \in Journal, disk'[k].heavy, disk'[l].heavy
          PROVE  Dead(k)' \/ Dead(l)'
      BY <1>2, <2>1, <3>3 DEF WInv, WorkRelations, HeavyLease
    <3>. QED BY <1>2, <3>1, <3>2, <3>3
  <2>. QED BY <2>3, <2>4
<1>10. UplinkExclusion'
  <2>1. \A k \in Jobs : Unfinished(disk'[k]) => Unfinished(disk[k])
    <3>1. Unfinished(d) => Unfinished(disk[j])
      BY <1>1, NoJournalAssumption DEF Unfinished, IsJournal, Ended
    <3>. QED BY <1>2, <3>1
  <2>. QED BY <2>1 DEF WInv, WorkRelations, UplinkExclusion
<1>. QED BY <1>5, <1>6, <1>7, <1>8, <1>9, <1>10 DEF WorkRelations

\* A step that touches no journal keeps them too, if it lets no worker work that
\* the journal does not name.
LEMMA WorkFrame ==
  ASSUME WInv, disk' = disk, mem' = mem, disp' = disp, leases' = leases,
         issues => issues', CountsGrow,
         \A k \in Jobs :
           \/ worker'[k] = worker[k] /\ permit'[k] = permit[k]
           \/ /\ disk[k] \in Journal
              /\ Working(k)' => disk[k].process /\ ~Dead(k)
              /\ worker'[k] = "active" => permit'[k]
              /\ permit'[k] => disk[k].state \notin {"Queued", "Starting"}
                                 /\ (OwnsRuntime(k) /\ ~Ended(disk[k]) => disk[k].mutated)
  PROVE  WorkRelations'
<1>1. \A k \in Jobs : (Known(k)' <=> Known(k)) /\ disk'[k] = disk[k] /\ mem'[k] = mem[k]
  BY DEF Known
<1>2. WorkIsJournalled'
  BY <1>1 DEF WInv, WorkRelations, WorkIsJournalled, Working
<1>3. PermitIsEarned'
  BY <1>1 DEF WInv, WorkRelations, PermitIsEarned, Ended
<1>4. LocalLeases' /\ HeavyIsJournalled'
  BY <1>1 DEF WInv, WorkRelations, LocalLeases, HeavyIsJournalled, Ended
<1>5. HeavyLease' /\ DeadIsIdle'
  <2>1. (\A k \in Jobs : Dead(k)' <=> Dead(k)) /\ (Bounded' => Bounded)
    BY DEF Dead, Bounded, CountsGrow
  <2>2. \A k \in Jobs : Dead(k) => ~Working(k)'
    BY DEF WInv, WorkRelations, DeadIsIdle, Working
  <2>. QED BY <1>1, <2>1, <2>2 DEF WInv, WorkRelations, HeavyLease, DeadIsIdle, CountsGrow
<1>6. UplinkExclusion'
  BY DEF WInv, WorkRelations, UplinkExclusion
<1>. QED BY <1>2, <1>3, <1>4, <1>5, <1>6 DEF WorkRelations

\* A write that fails is counted.
LEMMA WritesCount ==
  ASSUME WInv, NEW ok \in BOOLEAN, Writes(ok), restarts' = restarts
  PROVE  CountsGrow /\ (faults' = 0 => ok)
  BY SMT DEF WInv, IInv, TypeOK, Writes, CountsGrow

\* A job with no working worker ends: it gives up its leases with its bit.
LEMMA SettleWork ==
  ASSUME WInv, NEW j \in Jobs, NEW next \in Terminals, Known(j), ~Ended(mem[j]), ~Working(j),
         Settle(j, next), worker' = worker, CountsGrow,
         permit' \in {permit, [permit EXCEPT ![j] = FALSE]}
  PROVE  WorkRelations'
<1>. DEFINE r == Terminated(next)
<1>1. /\ r \in Journal /\ r.state = next /\ ~r.process /\ ~r.heavy /\ Ended(r)
      /\ r.state \notin States \ Terminals
  BY RecordsAreJournals DEF Terminated
<1>2. /\ disk' = [disk EXCEPT ![j] = r] /\ mem' = [mem EXCEPT ![j] = r]
      /\ disp' = [disp EXCEPT ![j] = "Settled"] /\ "Settled" \in Dispositions
      /\ leases' = [leases EXCEPT ![j] = {}] /\ (issues => issues')
  BY DEF Settle, Persist, Dispositions
<1>3. /\ permit \in [Jobs -> BOOLEAN] /\ leases \in [Jobs -> SUBSET Keys]
  BY DEF WInv, IInv, TypeOK
<1>4. ~Working(j)' /\ worker'[j] # "active"
  BY <1>3 DEF Working
<1>5. r.state \notin {"Queued", "Starting", "Running", "Cancelling"}
  BY <1>1 DEF Terminals
<1>6. ~Dead(j)'
  BY <1>2 DEF Dead, WInv, IInv, TypeOK
<1>. HIDE DEF r
<1>. QED BY <1>1, <1>2, <1>3, <1>4, <1>5, <1>6, WorkStep

\* A step after which nothing but a startup issue remains.
LEMMA IssueWork ==
  ASSUME WInv, disk' = disk, mem' = mem, disp' = disp, leases' = leases,
         issues => issues', CountsGrow, worker' = worker, permit' = permit
  PROVE  WorkRelations'
  BY WorkFrame

\* settle_native_after_exit
LEMMA SettleAfterExitWork ==
  ASSUME WInv, NEW j \in Jobs, NEW ok \in BOOLEAN, NEW fallback \in Terminals,
         SettleAfterExit(j, fallback, ok), Known(j), ~Ended(mem[j]), ~Working(j),
         worker' = worker, CountsGrow
  PROVE  WorkRelations'
<1>1. CASE Settle(j, ExitState(j, fallback)) /\ permit' = [permit EXCEPT ![j] = FALSE]
  BY <1>1, ExitStateType, SettleWork
<1>2. CASE Unsettled /\ permit' = permit
  BY <1>2, IssueWork DEF Unsettled
<1>. QED BY <1>1, <1>2 DEF SettleAfterExit

\* mark_recovery_required_with_code: the journal no longer names a worker
LEMMA EnterRecoveryWork ==
  ASSUME WInv, NEW j \in Jobs, NEW ok \in BOOLEAN, NEW diag \in Diagnostics,
         EnterRecovery(j, diag, ok), Known(j), ~Ended(mem[j]), ~Working(j), mem[j].mutated,
         worker' = worker, permit' = permit, CountsGrow
  PROVE  WorkRelations'
<1>. DEFINE r == RequireRecovery(mem[j], diag)
<1>1. /\ r \in Journal /\ r.mutated /\ r.state = "Recovering" /\ ~r.process
      /\ r.heavy = mem[j].heavy
  <2>1. mem[j] \in Journal
    BY KnownWork
  <2>2. r \in Journal /\ r.mutated /\ r.state = "Recovering"
    BY <2>1, RecordsAreJournals
  <2>3. ~r.process /\ r.heavy = mem[j].heavy
    BY <2>1 DEF RequireRecovery, Journal
  <2>. QED BY <2>2, <2>3
<1>2. ~Ended(r)
  BY <1>1 DEF Ended, Terminals
<1>3. CASE /\ Persist(j, r) /\ disp' = [disp EXCEPT ![j] = "RecoveryRequired"]
           /\ leases' = leases /\ issues' = issues
  <2>1. "RecoveryRequired" \in Dispositions
    BY DEF Dispositions
  <2>2. ~Working(j)' /\ worker'[j] # "active"
    BY DEF Working
  <2>3. disk' = [disk EXCEPT ![j] = r] /\ mem' = [mem EXCEPT ![j] = r]
    BY <1>3 DEF Persist
  <2>4. ~Dead(j) /\ ~Dead(j)'
    BY <1>3, KnownWork DEF Dead, WInv, IInv, TypeOK
  <2>5. Bounded /\ r.heavy =>
          /\ Heavy \in leases'[j]
          /\ \A k \in Jobs \ {j} : disk[k] \in Journal /\ disk[k].heavy => Dead(k)
    BY <1>1, <1>3, <2>4, KnownWork
  <2>. HIDE DEF r
  <2>. QED BY <1>1, <1>2, <1>3, <2>1, <2>2, <2>3, <2>4, <2>5, KnownWork, WorkStep
<1>4. CASE issues' = TRUE /\ UNCHANGED <<disk, mem, disp, leases>>
  BY <1>4, IssueWork
<1>. QED BY <1>3, <1>4 DEF EnterRecovery

\* mark_recovery_required
LEMMA MarkRecoveryWork ==
  ASSUME WInv, NEW j \in Jobs, NEW ok \in BOOLEAN, MarkRecovery(j, ok), Known(j),
         ~Ended(mem[j]), ~Working(j), mem[j].mutated, worker' = worker, permit' = permit,
         CountsGrow
  PROVE  WorkRelations'
<1>1. PICK diag \in Diagnostics : EnterRecovery(j, diag, ok)
  BY DEF MarkRecovery, Diagnostics
<1>. QED BY <1>1, EnterRecoveryWork

\* finish_live_cancellation
LEMMA FinishCancellationWork ==
  ASSUME WInv, NEW j \in Jobs, NEW ok \in BOOLEAN, FinishCancellation(j, ok), Known(j),
         ~Ended(mem[j]), ~Working(j), worker' = worker, CountsGrow
  PROVE  WorkRelations'
<1>1. CASE mem[j].mutated /\ MarkRecovery(j, ok) /\ permit' = permit
  BY <1>1, MarkRecoveryWork
<1>2. CASE SettleAfterExit(j, IF mem[j].diag = "none" THEN "Cancelled" ELSE "Failed", ok)
  BY <1>2, SettleAfterExitWork DEF Terminals
<1>. QED BY <1>1, <1>2 DEF FinishCancellation

\* fail_queued_before_mutation
LEMMA FailQueuedWork ==
  ASSUME WInv, NEW j \in Jobs, NEW ok \in BOOLEAN, disp[j] = "Queued", FailQueued(j, ok),
         CountsGrow
  PROVE  WorkRelations'
<1>1. Known(j)
  BY DEF Known, Dispositions
<1>2. ~Ended(mem[j]) /\ ~mem[j].process
  BY <1>1 DEF WInv, IInv, Relations, DispositionIsTrue
<1>3. ~Working(j) /\ worker' = worker /\ permit' = permit
  BY <1>1, <1>2, KnownWork DEF FailQueued
<1>4. CASE Settle(j, "Failed")
  BY <1>1, <1>2, <1>3, <1>4, SettleWork DEF Terminals
<1>5. CASE issues' = TRUE /\ UNCHANGED <<disk, mem, disp, leases>>
  BY <1>3, <1>5, IssueWork
<1>. QED BY <1>4, <1>5 DEF FailQueued

\* Between handlers nothing is relied on.
LEMMA NoWorkContext ==
  ASSUME at'.place \in {"idle", "failQueued"} PROVE WorkContext'
  BY DEF WorkContext

----------------------------------------------------------------------------
(* One lemma per action: what it does to workers and leases.               *)

\* A preflight that fails.
LEMMA PreflightFailsWork ==
  ASSUME WInv, NEW j \in Jobs, NEW ok \in BOOLEAN, PreflightFails(j, ok)
  PROVE  WorkRelations' /\ WorkContext'
<1>1. CountsGrow
  BY WritesCount DEF PreflightFails, FailQueued
<1>. QED BY <1>1, FailQueuedWork, NoWorkContext DEF PreflightFails, At

\* acquire_heavy_lease_if_needed: the bit is written when no other job has the
\* lease, hence none the bit.
LEMMA DispatchWork ==
  ASSUME WInv, NEW j \in Jobs, NEW ok \in BOOLEAN, Dispatch(j, ok)
  PROVE  WorkRelations' /\ WorkContext'
<1>1. /\ Known(j) /\ ~mem[j].process /\ ~Ended(mem[j]) /\ ~mem[j].mutated /\ at.place = "idle"
      /\ ~At("down") /\ disp[j] = "Queued" /\ "Queued" \in Dispositions
  BY DEF WInv, IInv, Relations, DispositionIsTrue, Known, Dispositions, Dispatch, At
<1>2. CountsGrow /\ worker' = worker /\ permit' = permit /\ disp' = disp
  BY WritesCount DEF Dispatch
<1>3. CASE mem[j].heavy
  <2>1. /\ at' = [place |-> "arm", job |-> j] /\ disk' = disk /\ mem' = mem
        /\ leases' = leases /\ issues' = issues
    BY <1>3 DEF Dispatch, Goto
  <2>2. WorkContext'
    BY <1>3, <2>1 DEF WorkContext
  <2>. QED BY <1>2, <2>1, <2>2, IssueWork
<1>4. CASE ~mem[j].heavy /\ ok /\ mem[j].state = "Queued"
  <2>. DEFINE r == [mem[j] EXCEPT !.heavy = TRUE]
  <2>1. /\ mem[j] \in Journal /\ r \in Journal /\ r.state = "Queued" /\ ~r.process /\ r.heavy
        /\ ~r.mutated
    BY <1>1, <1>4, KnownWork DEF Journal
  <2>2. /\ disk' = [disk EXCEPT ![j] = r] /\ mem' = [mem EXCEPT ![j] = r]
        /\ leases' = [leases EXCEPT ![j] = @ \cup {Heavy}] /\ issues' = issues
        /\ at' = [place |-> "arm", job |-> j] /\ Free({Heavy})
    BY <1>4 DEF Dispatch, Persist, Goto
  <2>3. disp' = [disp EXCEPT ![j] = "Queued"] /\ leases \in [Jobs -> SUBSET Keys]
          /\ mem \in [Jobs -> Journal \cup {None}]
    BY <1>1, <1>2 DEF WInv, IInv, TypeOK
  <2>4. Bounded => \A k \in Jobs \ {j} : disk[k] \in Journal /\ disk[k].heavy => Dead(k)
    <3>. SUFFICES ASSUME Bounded, NEW k \in Jobs \ {j}, disk[k] \in Journal, disk[k].heavy
                  PROVE  Dead(k)
      OBVIOUS
    <3>1. Known(k)
      BY <1>1, UpKnows
    <3>2. Heavy \notin leases[k]
      BY <2>2 DEF Free
    <3>. QED BY <3>1, <3>2, KnownWork
  <2>5. WorkContext'
    BY <2>1, <2>2, <2>3 DEF WorkContext
  <2>6. ~Ended(r) /\ ~Working(j)' /\ worker'[j] # "active"
    BY <1>1, <1>2, <2>1, KnownWork DEF Ended, Terminals, Working
  <2>7. permit[j] => mem[j].state \notin {"Queued", "Starting"}
    BY <1>1, KnownWork
  <2>8. LocalKeys[j] \subseteq leases[j] => LocalKeys[j] \subseteq leases'[j]
    BY <2>2, <2>3
  <2>9. Heavy \in leases'[j] /\ \A k \in Jobs \ {j} : leases'[k] = leases[k]
    BY <2>2, <2>3
  <2>10. ~issues => LocalKeys[j] \subseteq leases[j]
    BY <1>1, KnownWork
  <2>11. ~Ended(disk[j])
    BY <1>1, KnownWork
  <2>12. ~Dead(j)'
    BY <1>1, <1>2 DEF Dead
  <2>. HIDE DEF r
  <2>13. WorkRelations'
    BY <1>1, <1>2, <1>4, <2>1, <2>2, <2>3, <2>4, <2>6, <2>7, <2>8, <2>9, <2>10, <2>11, <2>12,
       WorkStep
  <2>. QED BY <2>5, <2>13
<1>5. CASE ~mem[j].heavy /\ ~(ok /\ mem[j].state = "Queued")
  <2>1. /\ issues' = TRUE /\ disk' = disk /\ mem' = mem /\ leases' = leases /\ at' = at
    BY <1>5 DEF Dispatch
  <2>. QED BY <1>1, <1>2, <2>1, IssueWork, NoWorkContext
<1>. QED BY <1>3, <1>4, <1>5

\* A journal write that keeps the leases, the heavy bit and an unfinished job.
LEMMA RecordWork ==
  ASSUME WInv, NEW j \in Jobs, NEW r \in Journal, NEW D \in Dispositions, Known(j),
         ~Ended(mem[j]), ~Ended(r), Persist(j, r), disp' = [disp EXCEPT ![j] = D],
         r.heavy = mem[j].heavy, r.state \in {"Starting", "Running", "Cancelling"} => r.heavy,
         r.process => r.state \in {"Running", "Cancelling"}, r.state = "Running" => r.process,
         Working(j) => r.process, worker' = worker, permit' = permit, leases' = leases,
         issues' = issues, CountsGrow,
         permit[j] => r.state \notin {"Queued", "Starting"} /\ (OwnsRuntime(j) => r.mutated),
         ~Dead(j), D # "DeadBeforeMutation"
  PROVE  WorkRelations'
<1>1. disk' = [disk EXCEPT ![j] = r] /\ mem' = [mem EXCEPT ![j] = r]
  BY DEF Persist
<1>2. Working(j)' <=> Working(j)
  BY DEF Working
<1>3. worker[j] = "active" => permit[j]
  BY DEF WInv, WorkRelations, PermitIsEarned
<1>4. ~Dead(j)'
  BY DEF Dead, WInv, IInv, TypeOK
<1>5. Bounded /\ r.heavy =>
        /\ Heavy \in leases'[j]
        /\ \A k \in Jobs \ {j} : disk[k] \in Journal /\ disk[k].heavy => Dead(k)
  BY KnownWork
<1>. QED BY <1>1, <1>2, <1>3, <1>4, <1>5, KnownWork, WorkStep

\* The Starting record.
LEMMA ArmWork ==
  ASSUME WInv, NEW j \in Jobs, NEW ok \in BOOLEAN, at.job = j, At("arm"), Arm(j, ok)
  PROVE  WorkRelations' /\ WorkContext'
<1>1. /\ Known(j) /\ ~mem[j].process /\ ~Ended(mem[j]) /\ mem[j].heavy /\ mem[j] \in Journal
      /\ ~Dead(j)
  BY KnownWork DEF WInv, WorkContext, IInv, Relations, HandlerContext, DispositionIsTrue, At, Dead
<1>2. CountsGrow /\ worker' = worker /\ permit' = permit
        /\ leases' = leases /\ issues' = issues
  BY WritesCount DEF Arm
<1>3. CASE MayBecome(mem[j].state, "Starting") /\ ok
  <2>. DEFINE r == [mem[j] EXCEPT !.state = "Starting"]
  <2>1. /\ r \in Journal /\ r.state = "Starting" /\ ~r.process /\ r.heavy
    BY <1>1 DEF Journal, States
  <2>2. mem[j].state = "Queued"
    BY <1>3 DEF MayBecome, Terminals
  <2>3. /\ Persist(j, r) /\ disp' = [disp EXCEPT ![j] = "Launching"]
        /\ at' = [place |-> "spawn", job |-> j] /\ "Launching" \in Dispositions
        /\ "Launching" # "DeadBeforeMutation"
    BY <1>3 DEF Arm, Goto, Dispositions
  <2>4. ~Ended(r) /\ ~permit[j] /\ ~Working(j)
    BY <1>1, <2>1, <2>2, KnownWork DEF Ended, Terminals
  <2>5. mem'[j] = r
    BY <1>1, <2>3 DEF Persist, WInv, IInv, TypeOK
  <2>6. WorkContext'
    BY <2>1, <2>3, <2>5 DEF WorkContext
  <2>. HIDE DEF r
  <2>7. WorkRelations'
    BY <1>1, <1>2, <2>1, <2>3, <2>4, RecordWork
  <2>. QED BY <2>6, <2>7
<1>4. CASE ~(MayBecome(mem[j].state, "Starting") /\ ok)
  <2>1. /\ at' = [place |-> "failQueued", job |-> j] /\ disk' = disk /\ mem' = mem /\ disp' = disp
    BY <1>4 DEF Arm, Goto
  <2>. QED BY <1>2, <2>1, IssueWork, NoWorkContext
<1>. QED BY <1>3, <1>4

\* A job that cannot be armed fails.
LEMMA FailArmQueuedWork ==
  ASSUME WInv, NEW j \in Jobs, NEW ok \in BOOLEAN, at.job = j, At("failQueued"),
         FailArmQueued(j, ok)
  PROVE  WorkRelations' /\ WorkContext'
<1>1. disp[j] = "Queued"
  BY DEF WInv, IInv, HandlerContext, At
<1>2. CountsGrow
  BY WritesCount DEF FailArmQueued, FailQueued
<1>. QED BY <1>1, <1>2, FailQueuedWork, NoWorkContext DEF FailArmQueued, Done, Idle

\* The job of a handler is known and has not ended.
LEMMA HandlerJob ==
  ASSUME WInv, NEW j \in Jobs, at.job = j, at.place \notin {"idle", "down"}
  PROVE  Known(j) /\ ~Ended(mem[j]) /\ mem[j] \in Journal /\ disk[j] \in Journal
  BY KnownWork DEF WInv, IInv, HandlerContext

\* The worker of a Starting job is spawned without a permit.
LEMMA SpawnWork ==
  ASSUME WInv, NEW j \in Jobs, NEW ok \in BOOLEAN, at.job = j, At("spawn"), Spawn(j, ok)
  PROVE  WorkRelations' /\ WorkContext'
<1>1. Known(j) /\ disk[j] \in Journal /\ mem[j].state = "Starting"
  BY HandlerJob DEF WInv, WorkContext, At
<1>2. ~permit[j] /\ ~Working(j)
  BY <1>1, KnownWork
<1>3. /\ CountsGrow /\ permit' = permit /\ mem' = mem
      /\ worker' = worker \/ worker' = [worker EXCEPT ![j] = "parked"]
      /\ at'.place \in {"attach", "launchFail"} /\ at'.job = j
      /\ disk' = disk /\ disp' = disp /\ leases' = leases /\ issues' = issues
  BY WritesCount DEF Spawn, Goto
<1>4. ~Working(j)' /\ worker'[j] # "active" /\ \A k \in Jobs \ {j} : worker'[k] = worker[k]
  BY <1>2, <1>3 DEF Working, WInv, IInv, TypeOK
<1>5. WorkRelations'
  BY <1>1, <1>2, <1>3, <1>4, WorkFrame
<1>. QED BY <1>1, <1>3, <1>5 DEF WorkContext

\* The Running record names the worker.
LEMMA AttachWork ==
  ASSUME WInv, NEW j \in Jobs, NEW ok \in BOOLEAN, at.job = j, At("attach"), Attach(j, ok)
  PROVE  WorkRelations' /\ WorkContext'
<1>1. /\ Known(j) /\ ~Ended(mem[j]) /\ mem[j] \in Journal /\ disk[j] \in Journal
      /\ mem[j].state = "Starting" /\ ~Dead(j)
  BY HandlerJob DEF WInv, WorkContext, IInv, HandlerContext, Dead, At
<1>2. ~permit[j] /\ ~Working(j) /\ mem[j].heavy
  BY <1>1, KnownWork
<1>3. CountsGrow /\ permit' = permit /\ leases' = leases /\ issues' = issues
  BY WritesCount DEF Attach
<1>4. CASE ok
  <2>. DEFINE r == [mem[j] EXCEPT !.state = "Running", !.process = TRUE]
  <2>1. r \in Journal /\ r.state = "Running" /\ r.process /\ r.heavy
    BY <1>1, <1>2 DEF Journal, States
  <2>2. /\ Persist(j, r) /\ disp' = [disp EXCEPT ![j] = "LiveProcess"] /\ worker' = worker
        /\ "LiveProcess" \in Dispositions /\ "LiveProcess" # "DeadBeforeMutation"
        /\ at'.place \in {"idle", "permit"}
        /\ at'.place = "permit" => at'.job = j /\ ~OwnsRuntime(j)
    BY <1>4, SMT DEF Attach, Dispositions, Done, Goto, Idle
  <2>3. ~Ended(r)
    BY <2>1 DEF Ended, Terminals
  <2>. HIDE DEF r
  <2>4. WorkRelations'
    BY <1>1, <1>2, <1>3, <2>1, <2>2, <2>3, RecordWork
  <2>. QED BY <2>2, <2>4 DEF WorkContext
<1>5. CASE ~ok
  <2>1. /\ worker' = [worker EXCEPT ![j] = "exited"] /\ at' = [place |-> "launchFail", job |-> j]
        /\ disk' = disk /\ mem' = mem /\ disp' = disp
    BY <1>5 DEF Attach, Goto
  <2>2. ~Working(j)' /\ worker'[j] # "active" /\ \A k \in Jobs \ {j} : worker'[k] = worker[k]
    BY <2>1 DEF Working, WInv, IInv, TypeOK
  <2>3. WorkRelations'
    BY <1>1, <1>2, <1>3, <2>1, <2>2, WorkFrame
  <2>. QED BY <1>1, <2>1, <2>3 DEF WorkContext
<1>. QED BY <1>4, <1>5

\* settle_native_launch_failure
LEMMA LaunchFailureWork ==
  ASSUME WInv, NEW j \in Jobs, NEW ok \in BOOLEAN, at.job = j, At("launchFail"),
         LaunchFailure(j, ok)
  PROVE  WorkRelations' /\ WorkContext'
<1>1. Known(j) /\ ~Ended(mem[j]) /\ mem[j].state = "Starting"
  BY HandlerJob DEF WInv, WorkContext, At
<1>2. /\ ~Working(j) /\ CountsGrow /\ worker' = worker /\ permit' = permit
      /\ at' = Idle
  BY <1>1, KnownWork, WritesCount DEF LaunchFailure, Done
<1>3. WorkRelations'
  <2>1. CASE Settle(j, "Failed")
    BY <1>1, <1>2, <2>1, SettleWork DEF Terminals
  <2>2. CASE issues' = TRUE /\ UNCHANGED <<disk, mem, disp, leases>>
    BY <1>2, <2>2, IssueWork
  <2>. QED BY <2>1, <2>2 DEF LaunchFailure
<1>. QED BY <1>2, <1>3, NoWorkContext DEF Idle

\* The permit of a job that owns no runtime follows its Running record.
LEMMA PublishPermitWork ==
  ASSUME WInv, NEW j \in Jobs, NEW ok \in BOOLEAN, at.job = j, At("permit"),
         PublishPermit(j, ok)
  PROVE  WorkRelations' /\ WorkContext'
<1>1. /\ Known(j) /\ disk[j] \in Journal /\ mem[j].state = "Running" /\ ~OwnsRuntime(j)
      /\ ~Dead(j)
  BY HandlerJob DEF WInv, WorkContext, IInv, HandlerContext, Dead, At
<1>2. disk[j].state = "Running" /\ disk[j].process
  BY <1>1, KnownWork
<1>3. /\ CountsGrow /\ leases' = leases /\ issues' = issues
      /\ disk' = disk /\ mem' = mem /\ disp' = disp
  BY WritesCount DEF PublishPermit
<1>4. CASE ok
  <2>1. permit' = [permit EXCEPT ![j] = TRUE] /\ worker' = worker /\ at' = Idle
    BY <1>4 DEF PublishPermit, Done
  <2>2. permit'[j] /\ \A k \in Jobs \ {j} : permit'[k] = permit[k]
    BY <2>1 DEF WInv, IInv, TypeOK
  <2>. QED BY <1>1, <1>2, <1>3, <2>1, <2>2, WorkFrame, NoWorkContext DEF Idle
<1>5. CASE ~ok
  <2>1. /\ worker' = [worker EXCEPT ![j] = "exited"] /\ permit' = permit
        /\ at' = [place |-> "exited", job |-> j]
    BY <1>5 DEF PublishPermit, Goto
  <2>2. ~Working(j)' /\ worker'[j] = "exited" /\ \A k \in Jobs \ {j} : worker'[k] = worker[k]
    BY <2>1 DEF Working, WInv, IInv, TypeOK
  <2>3. WorkRelations'
    BY <1>1, <1>2, <1>3, <2>1, <2>2, WorkFrame
  <2>. QED BY <2>1, <2>2, <2>3 DEF WorkContext, Live
<1>. QED BY <1>4, <1>5

\* ... and a failure settles the stopped worker.
LEMMA SettleStoppedWork ==
  ASSUME WInv, NEW j \in Jobs, NEW ok \in BOOLEAN, at.job = j, At("exited"),
         SettleStopped(j, ok)
  PROVE  WorkRelations' /\ WorkContext'
<1>1. Known(j) /\ ~Ended(mem[j]) /\ ~Live(j)
  BY HandlerJob DEF WInv, WorkContext, At
<1>2. /\ ~Working(j) /\ CountsGrow /\ worker' = worker /\ at' = Idle
      /\ SettleAfterExit(j, "Failed", ok) /\ "Failed" \in Terminals
  BY <1>1, WritesCount DEF SettleStopped, Done, Working, Live, Terminals
<1>. QED BY <1>1, <1>2, SettleAfterExitWork, NoWorkContext DEF Idle

\* The runtime permit changes neither worker nor lease.
LEMMA PublishRuntimePermitWork ==
  ASSUME WInv, NEW j \in Jobs, NEW ok \in BOOLEAN, at.job = j, At("rtPermit"),
         PublishRuntimePermit(j, ok)
  PROVE  WorkRelations' /\ WorkContext'
<1>1. /\ CountsGrow /\ leases' = leases /\ issues' = issues /\ permit' = permit
      /\ disk' = disk /\ mem' = mem /\ disp' = disp /\ worker' = worker
      /\ at'.place \in {"opPermit", "failArmed"} /\ at'.job = j
  BY WritesCount DEF PublishRuntimePermit, Goto
<1>2. ~permit[j]
  BY DEF WInv, WorkContext, At
<1>. QED BY <1>1, <1>2, IssueWork DEF WorkContext

\* The operation permit of a job whose mutation bit is durable.
LEMMA PublishOperationPermitWork ==
  ASSUME WInv, NEW j \in Jobs, NEW ok \in BOOLEAN, at.job = j, At("opPermit"),
         PublishOperationPermit(j, ok)
  PROVE  WorkRelations' /\ WorkContext'
<1>1. /\ Known(j) /\ disk[j] \in Journal /\ mem[j].state = "Running" /\ mem[j].mutated
      /\ ~permit[j] /\ ~Dead(j)
  BY HandlerJob DEF WInv, WorkContext, IInv, HandlerContext, Dead, At
<1>2. disk[j].state = "Running" /\ disk[j].process /\ disk[j].mutated
  BY <1>1, KnownWork
<1>3. /\ CountsGrow /\ leases' = leases /\ issues' = issues
      /\ disk' = disk /\ mem' = mem /\ disp' = disp /\ worker' = worker
  BY WritesCount DEF PublishOperationPermit
<1>4. CASE ok
  <2>1. permit' = [permit EXCEPT ![j] = TRUE] /\ at' = Idle
    BY <1>4 DEF PublishOperationPermit, Done
  <2>2. permit'[j] /\ \A k \in Jobs \ {j} : permit'[k] = permit[k]
    BY <2>1 DEF WInv, IInv, TypeOK
  <2>. QED BY <1>1, <1>2, <1>3, <2>1, <2>2, WorkFrame, NoWorkContext DEF Idle
<1>5. CASE ~ok
  <2>1. permit' = permit /\ at' = [place |-> "failArmed", job |-> j]
    BY <1>5 DEF PublishOperationPermit, Goto
  <2>. QED BY <1>1, <1>3, <2>1, IssueWork DEF WorkContext
<1>. QED BY <1>4, <1>5

\* fail_after_runtime_armed: the worker is parked without a permit.
LEMMA FailAfterArmedWork ==
  ASSUME WInv, NEW j \in Jobs, NEW ok \in BOOLEAN, at.job = j, At("failArmed"),
         FailAfterArmed(j, ok)
  PROVE  WorkRelations' /\ WorkContext'
<1>1. Known(j) /\ ~Ended(mem[j]) /\ ~permit[j] /\ mem[j].mutated
  BY HandlerJob DEF WInv, WorkContext, IInv, HandlerContext, At
<1>2. /\ ~Working(j) /\ CountsGrow /\ worker' = worker /\ permit' = permit
      /\ at' = Idle /\ EnterRecovery(j, "recovery", ok) /\ "recovery" \in Diagnostics
  BY <1>1, WritesCount DEF FailAfterArmed, Done, Working, Diagnostics, WInv, WorkRelations,
     PermitIsEarned
<1>. QED BY <1>1, <1>2, EnterRecoveryWork, NoWorkContext DEF Idle

\* A cancellation of a job without a live worker.
LEMMA CancelExitWork ==
  ASSUME WInv, NEW j \in Jobs, NEW ok \in BOOLEAN, at.job = j, At("cancelExit"),
         CancelExit(j, ok)
  PROVE  WorkRelations' /\ WorkContext'
<1>1. Known(j) /\ ~Ended(mem[j]) /\ ~Working(j)
  BY HandlerJob DEF WInv, WorkContext, At
<1>2. CountsGrow /\ worker' = worker /\ at' = Idle /\ FinishCancellation(j, ok)
  BY WritesCount DEF CancelExit, Done
<1>. QED BY <1>1, <1>2, FinishCancellationWork, NoWorkContext DEF Idle

\* monitor_running_workers settles only a worker that is gone.
LEMMA MonitorWork ==
  ASSUME WInv, NEW j \in Jobs, NEW ok \in BOOLEAN, Monitor(j, ok)
  PROVE  WorkRelations' /\ WorkContext'
<1>1. /\ Known(j) /\ ~Ended(mem[j]) /\ ~Working(j) /\ at' = at /\ at.place = "idle"
      /\ worker' = worker /\ CountsGrow
  BY WritesCount DEF Monitor, WInv, IInv, Relations, DispositionIsTrue, Known, Dispositions,
     At, Working, Live
<1>2. CASE mem[j].mutated /\ MarkRecovery(j, ok) /\ permit' = permit
  BY <1>1, <1>2, MarkRecoveryWork, NoWorkContext
<1>3. CASE SettleAfterExit(j, "Failed", ok)
  BY <1>1, <1>3, SettleAfterExitWork, NoWorkContext DEF Terminals
<1>. QED BY <1>2, <1>3 DEF Monitor

\* poll_worker_cancellations finishes only an observed exit.
LEMMA PollCancellationWork ==
  ASSUME WInv, NEW j \in Jobs, NEW ok \in BOOLEAN, PollCancellation(j, ok)
  PROVE  WorkRelations' /\ WorkContext'
<1>1. /\ Known(j) /\ ~Ended(mem[j]) /\ ~Working(j) /\ at' = at /\ at.place = "idle"
      /\ worker' = worker /\ CountsGrow /\ FinishCancellation(j, ok)
  BY WritesCount DEF PollCancellation, WInv, IInv, Relations, PendingIsStopping, Known,
     Dispositions, At, Working, Live, Ended, Terminals
<1>. QED BY <1>1, FinishCancellationWork, NoWorkContext

\* begin_live_cancellation finishes at once only without a live worker.
LEMMA BeginCancellationWork ==
  ASSUME NEW j \in Jobs, BeginCancellation(j), worker' = worker, permit' = permit
  PROVE  WorkContext'
<1>1. CASE Live(j)
  BY <1>1, NoWorkContext, SMT DEF BeginCancellation, Done, Idle
<1>2. CASE ~Live(j)
  <2>1. at' = [place |-> "cancelExit", job |-> j]
    BY <1>2 DEF BeginCancellation, Goto
  <2>. QED BY <1>2, <2>1 DEF WorkContext, Working, Live
<1>. QED BY <1>1, <1>2

\* A stop moves the journal in memory, and the one on disk if the write succeeds.
LEMMA StopWork ==
  ASSUME WInv, NEW j \in Jobs, NEW m \in Journal, NEW d \in Journal, Known(j),
         mem[j].state \in {"Starting", "Running"},
         m.state = "Cancelling", m.heavy = mem[j].heavy, m.process = mem[j].process,
         m.mutated = mem[j].mutated,
         d.state \in {m.state, mem[j].state},
         d.heavy = m.heavy, d.process = m.process, d.mutated = m.mutated,
         disk' = [disk EXCEPT ![j] = d], mem' = [mem EXCEPT ![j] = m],
         disp' = disp, leases' = leases, issues' = issues, worker' = worker, permit' = permit,
         CountsGrow
  PROVE  WorkRelations'
<1>1. mem[j].heavy /\ mem[j].heavy = disk[j].heavy /\ disp[j] \in Dispositions
  BY KnownWork
<1>2. ~Ended(m) /\ ~Ended(d) /\ ~Ended(mem[j])
  BY DEF Ended, Terminals
<1>3. (Working(j)' <=> Working(j)) /\ (worker[j] = "active" => permit[j])
  BY DEF Working, WInv, WorkRelations, PermitIsEarned
<1>4. disp' = [disp EXCEPT ![j] = disp[j]]
  BY DEF WInv, IInv, TypeOK
<1>5. permit[j] /\ OwnsRuntime(j) => mem[j].mutated
  BY <1>2, KnownWork
<1>6. /\ (mem[j].state = "Running" => mem[j].process)
      /\ ~Ended(disk[j]) /\ (~issues => LocalKeys[j] \subseteq leases[j])
      /\ (Working(j) => mem[j].process) /\ (Dead(j)' <=> Dead(j)) /\ (Dead(j) => ~Working(j))
      /\ (mem[j].process => mem[j].state = "Running")
      /\ (permit[j] => mem[j].state # "Starting")
  BY <1>1, <1>2, KnownWork DEF Dead
<1>7. /\ (Working(j)' => d.process) /\ (worker'[j] = "active" => permit'[j])
      /\ (d.process => d.state \in {"Running", "Cancelling"})
      /\ (d.state = "Running" => d.process) /\ (Dead(j)' => Dead(j) /\ ~Working(j)')
      /\ (permit'[j] => d.state \notin {"Queued", "Starting"}
                          /\ (OwnsRuntime(j) /\ ~Ended(d) => d.mutated))
      /\ (~issues' => ~issues /\ (~Ended(m) => LocalKeys[j] \subseteq leases'[j]))
      /\ d.heavy /\ disk[j].heavy /\ m.process = d.process /\ m.heavy = d.heavy
      /\ (m.state = d.state \/ (m.state = "Cancelling" /\ d.state \in {"Starting", "Running"}))
  BY <1>1, <1>2, <1>3, <1>5, <1>6
<1>8. Bounded /\ ~Dead(j)' =>
        /\ Heavy \in leases'[j]
        /\ \A k \in Jobs \ {j} : disk[k] \in Journal /\ disk[k].heavy => Dead(k)
  BY <1>1, <1>6, KnownWork
<1>. QED BY <1>1, <1>2, <1>4, <1>6, <1>7, <1>8, WorkStep

\* poll_owned_traffic_budgets
LEMMA BudgetStopWork ==
  ASSUME WInv, NEW j \in Jobs, NEW ok \in BOOLEAN, BudgetStop(j, ok)
  PROVE  WorkRelations' /\ WorkContext'
<1>. DEFINE m == [mem[j] EXCEPT !.state = "Cancelling", !.diag = "owned"]
<1>1. /\ Known(j) /\ mem[j].state \in {"Starting", "Running"} /\ CountsGrow
      /\ disk' = (IF ok THEN [disk EXCEPT ![j] = m] ELSE disk) /\ mem' = [mem EXCEPT ![j] = m]
      /\ disp' = disp /\ leases' = leases /\ issues' = issues /\ worker' = worker
      /\ permit' = permit /\ "owned" \in Diagnostics
      /\ (mem[j].process => BeginCancellation(j)) /\ (~mem[j].process => Goto("cancelExit", j))
  BY WritesCount DEF BudgetStop, Known, Dispositions, Diagnostics
<1>2. /\ m \in Journal /\ m.state = "Cancelling" /\ m.heavy = mem[j].heavy
      /\ m.process = mem[j].process /\ m.mutated = mem[j].mutated
  <2>1. mem[j] \in Journal
    BY <1>1, KnownWork
  <2>. QED BY <1>1, <2>1 DEF Journal, States
<1>. HIDE DEF m
<1>3. PICK d \in Journal : /\ disk' = [disk EXCEPT ![j] = d]
                           /\ d.state \in {m.state, mem[j].state}
                           /\ d.heavy = m.heavy /\ d.process = m.process /\ d.mutated = m.mutated
  <2>1. CASE ok
    BY <1>1, <1>2, <2>1
  <2>2. CASE ~ok
    <3>1. disk' = [disk EXCEPT ![j] = disk[j]] /\ disk[j] \in Journal
      BY <1>1, <2>2, KnownWork DEF WInv, IInv, TypeOK
    <3>2. /\ disk[j].state = mem[j].state /\ disk[j].heavy = m.heavy /\ disk[j].process = m.process
          /\ disk[j].mutated = m.mutated
      BY <1>1, <1>2, KnownWork
    <3>. QED BY <1>1, <3>1, <3>2
  <2>. QED BY <2>1, <2>2
<1>4. WorkRelations'
  BY <1>1, <1>2, <1>3, StopWork
<1>5. WorkContext'
  <2>1. CASE mem[j].process
    BY <1>1, <2>1, BeginCancellationWork
  <2>2. CASE ~mem[j].process
    <3>1. at' = [place |-> "cancelExit", job |-> j] /\ ~Working(j)
      BY <1>1, <2>2, KnownWork DEF Goto
    <3>. QED BY <1>1, <3>1 DEF WorkContext, Working
  <2>. QED BY <2>1, <2>2
<1>. QED BY <1>4, <1>5

\* stop_parked_runtime_worker
LEMMA StopParkedWork ==
  ASSUME WInv, NEW j \in Jobs, StopParked(j)
  PROVE  WorkRelations' /\ WorkContext'
<1>. DEFINE m == [mem[j] EXCEPT !.state = "Cancelling", !.diag = "stopped"]
<1>1. /\ Known(j) /\ mem[j].state = "Running" /\ CountsGrow
      /\ disk' = [disk EXCEPT ![j] = m] /\ mem' = [mem EXCEPT ![j] = m]
      /\ disp' = disp /\ leases' = leases /\ issues' = issues /\ worker' = worker
      /\ permit' = permit /\ BeginCancellation(j) /\ "stopped" \in Diagnostics
  BY DEF StopParked, AwaitsRuntime, Persist, Known, Dispositions, Diagnostics, CountsGrow
<1>2. /\ m \in Journal /\ m.state = "Cancelling" /\ m.heavy = mem[j].heavy
      /\ m.process = mem[j].process /\ m.mutated = mem[j].mutated
  <2>1. mem[j] \in Journal
    BY <1>1, KnownWork
  <2>. QED BY <1>1, <2>1 DEF Journal, States
<1>. HIDE DEF m
<1>. QED BY <1>1, <1>2, StopWork, BeginCancellationWork

\* cancel_job
LEMMA CancelJobWork ==
  ASSUME WInv, NEW j \in Jobs, CancelJob(j)
  PROVE  WorkRelations' /\ WorkContext'
<1>1. /\ Known(j) /\ worker' = worker /\ permit' = permit /\ CountsGrow
      /\ at.place = "idle"
  BY DEF CancelJob, Known, At, CountsGrow
<1>2. CASE mem[j].state = "Queued" /\ Settle(j, "Cancelled") /\ at' = at
  <2>1. ~Ended(mem[j]) /\ ~Working(j) /\ "Cancelled" \in Terminals
    BY <1>1, <1>2, KnownWork DEF Ended, Terminals
  <2>. QED BY <1>1, <1>2, <2>1, SettleWork, NoWorkContext
<1>3. CASE /\ mem[j].state \in {"Starting", "Running"}
           /\ Persist(j, [mem[j] EXCEPT !.state = "Cancelling"])
           /\ IF mem[j].process THEN BeginCancellation(j)
              ELSE Goto("cancelExit", j) /\ UNCHANGED pending
           /\ UNCHANGED <<disp, leases, issues>>
  <2>1. mem[j] \in Journal /\ mem[j].diag \in Diagnostics
    BY <1>1, KnownWork DEF Journal
  <2>2. [mem[j] EXCEPT !.state = "Cancelling"]
          = [mem[j] EXCEPT !.state = "Cancelling", !.diag = mem[j].diag]
    BY <2>1 DEF Journal
  <2>. DEFINE m == [mem[j] EXCEPT !.state = "Cancelling", !.diag = mem[j].diag]
  <2>3. /\ disk' = [disk EXCEPT ![j] = m] /\ mem' = [mem EXCEPT ![j] = m]
        /\ disp' = disp /\ leases' = leases /\ issues' = issues
    BY <1>3, <2>2 DEF Persist
  <2>5. /\ m \in Journal /\ m.state = "Cancelling" /\ m.heavy = mem[j].heavy
        /\ m.process = mem[j].process /\ m.mutated = mem[j].mutated
    BY <2>1 DEF Journal, States
  <2>. HIDE DEF m
  <2>7. WorkRelations'
    BY <1>1, <1>3, <2>3, <2>5, StopWork
  <2>6. WorkContext'
    <3>1. CASE mem[j].process
      BY <1>1, <1>3, <3>1, BeginCancellationWork
    <3>2. CASE ~mem[j].process
      <4>1. at' = [place |-> "cancelExit", job |-> j] /\ ~Working(j)
        BY <1>1, <1>3, <3>2, KnownWork DEF Goto
      <4>. QED BY <1>1, <4>1 DEF WorkContext, Working
    <3>. QED BY <3>1, <3>2
  <2>. QED BY <2>6, <2>7
<1>4. CASE Unsettled /\ BeginCancellation(j)
  BY <1>1, <1>4, IssueWork, BeginCancellationWork DEF Unsettled
<1>. QED BY <1>2, <1>3, <1>4 DEF CancelJob

\* advance_pending_runtime_permit: a job that has not said so has no permit.
LEMMA ArmRuntimeWork ==
  ASSUME WInv, NEW j \in Jobs, ArmRuntime(j)
  PROVE  WorkRelations' /\ WorkContext'
<1>. DEFINE r == [mem[j] EXCEPT !.mutated = TRUE]
<1>1. /\ disp[j] = "LiveProcess" /\ "LiveProcess" \in Dispositions /\ OwnsRuntime(j)
      /\ mem[j].state = "Running" /\ ~mem[j].mutated /\ mem[j].process
      /\ Persist(j, r) /\ at' = [place |-> "rtPermit", job |-> j] /\ disp' = disp
      /\ leases' = leases /\ issues' = issues /\ worker' = worker /\ permit' = permit
      /\ CountsGrow /\ ~Dead(j) /\ "LiveProcess" # "DeadBeforeMutation"
  BY DEF ArmRuntime, AwaitsRuntime, Dispositions, Goto, CountsGrow, Dead
<1>2. Known(j) /\ mem[j] \in Journal /\ mem[j].heavy
  BY <1>1, KnownWork DEF Known
<1>3. /\ r \in Journal /\ r.state = "Running" /\ r.process /\ r.heavy /\ r.heavy = mem[j].heavy
  BY <1>1, <1>2 DEF Journal
<1>4. ~Ended(mem[j]) /\ ~Ended(r)
  BY <1>1, <1>3 DEF Ended, Terminals
<1>5. ~permit[j]
  BY <1>1, <1>2, <1>4, KnownWork
<1>6. disp' = [disp EXCEPT ![j] = "LiveProcess"]
  BY <1>1 DEF WInv, IInv, TypeOK
<1>7. WorkContext'
  BY <1>1, <1>5 DEF WorkContext
<1>. HIDE DEF r
<1>8. WorkRelations'
  BY <1>1, <1>2, <1>3, <1>4, <1>5, <1>6, RecordWork
<1>. QED BY <1>7, <1>8

\* A job that is recovering has no working worker.
LEMMA RecoveringIdle ==
  ASSUME WInv, NEW j \in Jobs, Recovering(j)
  PROVE  /\ Known(j) /\ mem[j] \in Journal /\ mem[j].state = "Recovering" /\ ~mem[j].process
         /\ mem[j].mutated /\ ~Working(j) /\ ~Ended(mem[j]) /\ at.place = "idle"
<1>1. Known(j) /\ mem[j].state = "Recovering" /\ mem[j].mutated /\ at.place = "idle"
  BY DEF Recovering, Known, At
<1>. QED BY <1>1, KnownWork DEF Ended, Terminals

\* maybe_release_heavy_lease_during_recovery
LEMMA ReleaseHeavyWork ==
  ASSUME WInv, NEW j \in Jobs, ReleaseHeavy(j)
  PROVE  WorkRelations' /\ WorkContext'
<1>. DEFINE r == [mem[j] EXCEPT !.heavy = FALSE]
<1>1. /\ Recovering(j) /\ disk' = [disk EXCEPT ![j] = r] /\ mem' = [mem EXCEPT ![j] = r]
      /\ leases' = [leases EXCEPT ![j] = @ \ {Heavy}] /\ disp' = disp /\ issues' = issues
      /\ at' = at /\ worker' = worker /\ permit' = permit /\ CountsGrow
      /\ (Dead(j)' <=> Dead(j))
  BY DEF ReleaseHeavy, Persist, CountsGrow, Dead
<1>2. /\ Known(j) /\ mem[j] \in Journal /\ mem[j].state = "Recovering" /\ ~mem[j].process
      /\ mem[j].mutated /\ ~Working(j) /\ ~Ended(mem[j]) /\ at.place = "idle"
  BY <1>1, RecoveringIdle
<1>3. r \in Journal /\ r.state = "Recovering" /\ ~r.process /\ ~r.heavy /\ r.mutated
  BY <1>2 DEF Journal
<1>4. ~Ended(r)
  BY <1>3 DEF Ended, Terminals
<1>5. /\ ~Working(j)' /\ worker'[j] # "active"
  BY <1>1, <1>2 DEF Working
<1>6. disp' = [disp EXCEPT ![j] = disp[j]] /\ disp[j] \in Dispositions
        /\ leases \in [Jobs -> SUBSET Keys]
  BY <1>1, <1>2 DEF WInv, IInv, TypeOK, Known
<1>7. ~Ended(disk[j]) /\ (~issues => LocalKeys[j] \subseteq leases[j])
  BY <1>2, KnownWork
<1>8. ~issues => LocalKeys[j] \subseteq leases'[j]
  BY <1>1, <1>6, <1>7, JobsAssumption
<1>. HIDE DEF r
<1>9. WorkRelations'
  BY <1>1, <1>2, <1>3, <1>4, <1>5, <1>6, <1>7, <1>8, WorkStep
<1>. QED BY <1>1, <1>2, <1>9, NoWorkContext

\* A step of the override touches neither worker nor lease.
LEMMA OverrideWork ==
  ASSUME WInv, UNCHANGED <<disk, mem, disp, leases, pending, issues, at, worker, permit,
                           result, orphaned, restarts, faults>>
  PROVE  WorkRelations' /\ WorkContext'
<1>1. WorkRelations'
  BY IssueWork DEF CountsGrow
<1>2. WorkContext'
  BY DEF WInv, WorkContext, Working, Live
<1>. QED BY <1>1, <1>2

\* withdraw_restored_request
LEMMA WithdrawRestoredWork ==
  ASSUME WInv, NEW j \in Jobs, WithdrawRestored(j)
  PROVE  WorkRelations' /\ WorkContext'
  BY OverrideWork DEF WithdrawRestored

\* The worker's and the daemon's side of the override.
LEMMA RuntimeWork ==
  ASSUME WInv, NEW i \in Instances, WorkerRequests(i) \/ DriverMoves(i)
  PROVE  WorkRelations' /\ WorkContext'
  BY OverrideWork DEF WorkerRequests, DriverMoves, Override

\* settle_native_runtime_recovery
LEMMA SettleRecoveryWork ==
  ASSUME WInv, NEW j \in Jobs, NEW ok \in BOOLEAN, SettleRecovery(j, ok)
  PROVE  WorkRelations' /\ WorkContext'
<1>1. /\ Known(j) /\ ~Working(j) /\ ~Ended(mem[j]) /\ at.place = "idle" /\ at' = at
      /\ worker' = worker /\ CountsGrow
  BY RecoveringIdle, WritesCount DEF SettleRecovery
<1>2. CASE Settle(j, RestoredState(j)) /\ permit' = [permit EXCEPT ![j] = FALSE]
  BY <1>1, <1>2, RestoredStateType, SettleWork, NoWorkContext
<1>3. CASE Unsettled /\ permit' = permit
  BY <1>1, <1>3, IssueWork, NoWorkContext DEF Unsettled
<1>. QED BY <1>2, <1>3 DEF SettleRecovery

\* wait_for_permit: a worker starts only when it may.
LEMMA WorkerStartsWork ==
  ASSUME WInv, NEW j \in Jobs, WorkerStarts(j)
  PROVE  WorkRelations' /\ WorkContext'
<1>1. /\ Working(j) /\ permit[j] /\ worker' = [worker EXCEPT ![j] = "active"]
      /\ UNCHANGED <<disk, mem, disp, leases, issues, at, permit, restarts, faults>>
  BY DEF WorkerStarts, Working
<1>2. worker'[j] = "active" /\ \A k \in Jobs \ {j} : worker'[k] = worker[k]
  BY <1>1 DEF WInv, IInv, TypeOK
<1>3. /\ disk[j] \in Journal /\ disk[j].process
      /\ disk[j].state \notin {"Queued", "Starting"}
      /\ (OwnsRuntime(j) /\ ~Ended(disk[j]) => disk[j].mutated)
  BY <1>1 DEF WInv, WorkRelations, WorkIsJournalled, PermitIsEarned
<1>6. ~Dead(j) /\ CountsGrow
  BY <1>1 DEF WInv, WorkRelations, DeadIsIdle, CountsGrow
<1>4. WorkRelations'
  BY <1>1, <1>2, <1>3, <1>6, WorkFrame
<1>5. WorkContext'
  <2>1. at.place \in {"cancelExit", "exited"} => at.job \in Jobs /\ at.job # j
    BY <1>1 DEF WInv, IInv, HandlerContext, WorkContext, Working, Live
  <2>. QED BY <1>1, <1>2, <2>1, SMT DEF WInv, WorkContext, Working, Live
<1>. QED BY <1>4, <1>5

\* A worker exits.
LEMMA WorkerExitsWork ==
  ASSUME WInv, NEW j \in Jobs, WorkerExits(j)
  PROVE  WorkRelations' /\ WorkContext'
<1>1. /\ worker[j] # "none" /\ worker' = [worker EXCEPT ![j] = "exited"]
      /\ UNCHANGED <<disk, mem, disp, leases, issues, at, permit, restarts, faults>>
  BY DEF WorkerExits, Live
<1>2. worker'[j] = "exited" /\ \A k \in Jobs \ {j} : worker'[k] = worker[k]
  BY <1>1 DEF WInv, IInv, TypeOK
<1>3. WorkRelations'
  <2>1. \A k \in Jobs : Working(k)' => Working(k)
    BY <1>1, <1>2 DEF Working
  <2>2. WorkIsJournalled'
    BY <1>1, <2>1 DEF WInv, WorkRelations, WorkIsJournalled, Known
  <2>3. PermitIsEarned'
    BY <1>1, <1>2 DEF WInv, WorkRelations, PermitIsEarned, Ended
  <2>4. LocalLeases' /\ HeavyIsJournalled' /\ HeavyLease' /\ DeadIsIdle'
    BY <1>1, <2>1 DEF WInv, WorkRelations, LocalLeases, HeavyIsJournalled, HeavyLease, Ended,
       Known, DeadIsIdle, Dead, Bounded
  <2>5. UplinkExclusion'
    BY <1>1 DEF WInv, WorkRelations, UplinkExclusion
  <2>. QED BY <2>2, <2>3, <2>4, <2>5 DEF WorkRelations
<1>4. WorkContext'
  <2>1. at.place \in {"cancelExit", "exited"} => at.job \in Jobs
    BY DEF WInv, IInv, HandlerContext
  <2>. QED BY <1>1, <1>2, <2>1 DEF WInv, WorkContext, Working, Live
<1>. QED BY <1>3, <1>4

\* A crash forgets everything in memory; the journals keep what matters.
LEMMA CrashWork ==
  ASSUME WInv, Crash
  PROVE  WorkRelations' /\ WorkContext'
<1>1. /\ at'.place = "down" /\ UNCHANGED <<disk, worker, permit, faults>>
      /\ disp' = [j \in Jobs |-> IF disp[j] = "retired" THEN "retired" ELSE "absent"]
      /\ restarts' = restarts + 1
  BY DEF Crash, Goto
<1>2. \A j \in Jobs : ~Known(j)' /\ ~Dead(j)'
  BY <1>1 DEF Known, Dispositions, Dead
<1>3. \A j \in Jobs : disp'[j] = "absent" /\ disk[j] \notin Journal => disp[j] = "absent"
  <2>. SUFFICES ASSUME NEW j \in Jobs, disp'[j] = "absent", disk[j] \notin Journal
                PROVE  disp[j] = "absent"
    OBVIOUS
  <2>1. ~Known(j)
    BY KnownWork
  <2>. QED BY <1>1, <2>1 DEF Known, WInv, IInv, TypeOK
<1>4. WorkIsJournalled'
  BY <1>1, <1>2 DEF WInv, WorkRelations, WorkIsJournalled, Working
<1>5. PermitIsEarned'
  BY <1>1, <1>3 DEF WInv, WorkRelations, PermitIsEarned, Ended
<1>6. LocalLeases' /\ HeavyIsJournalled' /\ DeadIsIdle'
  BY <1>1, <1>2 DEF WInv, WorkRelations, LocalLeases, HeavyIsJournalled, DeadIsIdle, Ended
<1>8. restarts' # 0 /\ (Bounded' => faults = 0 \/ restarts = 0)
  BY <1>1, SMT DEF Bounded, WInv, IInv, TypeOK
<1>9. HeavyLease'
  <2>. SUFFICES ASSUME Bounded', NEW j \in Jobs, NEW k \in Jobs, j # k, disk[j] \in Journal,
                       disk[k] \in Journal, disk[j].heavy, disk[k].heavy
                PROVE  FALSE
    BY <1>1, <1>2 DEF HeavyLease
  <2>1. Bounded /\ ~Dead(j) /\ ~Dead(k)
    BY <1>8, SMT DEF Bounded, WInv, WorkRelations, DeadIsIdle
  <2>. QED BY <2>1 DEF WInv, WorkRelations, HeavyLease
<1>10. WorkContext'
  BY <1>1, <1>8 DEF WorkContext
<1>7. UplinkExclusion'
  BY <1>1 DEF WInv, WorkRelations, UplinkExclusion
<1>. QED BY <1>4, <1>5, <1>6, <1>7, <1>9, <1>10 DEF WorkRelations

\* start_job: the new job takes its keys when no unfinished job holds one.
LEMMA StartJobWork ==
  ASSUME WInv, NEW j \in Jobs, NEW outcome \in {"created", "failed", "refused"},
         StartJob(j, outcome)
  PROVE  WorkRelations' /\ WorkContext'
<1>1. PICK old \in Prunable(disp, leases, pending) :
        /\ disk' = [Without(disk, old, None) EXCEPT ![j] =
                      CASE outcome = "created" -> Queued
                        [] outcome = "failed"  -> Debris
                        [] outcome = "refused" -> disk[j]]
        /\ mem' = [Without(mem, old, None) EXCEPT ![j] =
                     IF outcome = "created" THEN Queued ELSE mem[j]]
        /\ disp' = [Without(disp, old, "retired") EXCEPT ![j] =
                      IF outcome = "created" THEN "Queued" ELSE "absent"]
        /\ leases' = [leases EXCEPT ![j] = IF outcome = "created" THEN LocalKeys[j] ELSE {}]
  BY DEF StartJob
<1>2. /\ at.place = "idle" /\ ~At("down") /\ at' = at /\ disp[j] = "absent" /\ ~Known(j)
      /\ issues' = issues /\ ~issues /\ worker' = worker /\ permit' = permit
      /\ CountsGrow
      /\ (outcome = "created" => Free(LocalKeys[j]))
  BY WritesCount DEF StartJob, AdmissionAvailable, At, Known, Dispositions
<1>3. \A k \in old : k \in Jobs /\ disp[k] = "Settled" /\ k # j
  BY <1>1, <1>2, PrunableFacts
<1>4. disk[j] \in {None, Debris} /\ disk[j] \notin Journal
  BY <1>2, NoJournalAssumption DEF WInv, IInv, Relations, MemoryAgrees, At
<1>5. worker[j] = "none" /\ ~permit[j]
  BY <1>2, <1>4 DEF WInv, WorkRelations, PermitIsEarned
<1>6. \A k \in Jobs \ (old \cup {j}) :
        disk'[k] = disk[k] /\ mem'[k] = mem[k] /\ disp'[k] = disp[k]
  BY <1>1 DEF Without
<1>7. \A k \in old : disk'[k] = None /\ mem'[k] = None /\ disp'[k] = "retired"
  BY <1>1, <1>3 DEF Without
<1>8. \/ /\ disk'[j] = Queued /\ mem'[j] = Queued /\ disp'[j] = "Queued"
         /\ outcome = "created"
      \/ disk'[j] \in {None, Debris} /\ mem'[j] = mem[j] /\ disp'[j] = "absent"
  BY <1>1, <1>4 DEF Without
<1>9. leases'[j] = (IF outcome = "created" THEN LocalKeys[j] ELSE {})
        /\ \A k \in Jobs \ {j} : leases'[k] = leases[k]
  BY <1>1 DEF WInv, IInv, TypeOK
<1>10. \A k \in old : ~Working(k)
  <2>. SUFFICES ASSUME NEW k \in old PROVE ~Working(k)
    OBVIOUS
  <2>1. k \in Jobs /\ Known(k) /\ Ended(mem[k])
    BY <1>3 DEF WInv, IInv, Relations, DispositionIsTrue, Known, Dispositions
  <2>. QED BY <2>1, KnownWork DEF Ended, Terminals
<1>11. /\ Queued \in Journal /\ Queued.state = "Queued" /\ ~Queued.process /\ ~Queued.heavy
       /\ ~Ended(Queued)
  BY RecordsAreJournals DEF Queued
<1>12. \A k \in Jobs : Working(k)' <=> Working(k)
  BY <1>2 DEF Working
<1>13. ~Working(j) /\ Known(j)' => disk'[j] = Queued /\ mem'[j] = Queued
  BY <1>8 DEF Known, Dispositions
<1>14. \A k \in Jobs \ (old \cup {j}) : Known(k)' <=> Known(k)
  BY <1>6 DEF Known
<1>15. \A k \in old : ~Known(k)' /\ disk'[k] \notin Journal
  BY <1>7, NoJournalAssumption DEF Known, Dispositions
<1>16. disk'[j] \in Journal => disk'[j] = Queued
  BY <1>8, NoJournalAssumption
<1>17. WorkIsJournalled'
  <2>. SUFFICES ASSUME NEW k \in Jobs
                PROVE  /\ Working(k)' => disk'[k] \in Journal /\ disk'[k].process
                       /\ disk'[k] \in Journal =>
                            /\ disk'[k].process => disk'[k].state \in {"Running", "Cancelling"}
                            /\ disk'[k].state = "Running" => disk'[k].process
                       /\ Known(k)' =>
                            /\ mem'[k].process = disk'[k].process
                            /\ \/ mem'[k].state = disk'[k].state
                               \/ /\ mem'[k].state = "Cancelling"
                                  /\ disk'[k].state \in {"Starting", "Running"}
    BY DEF WorkIsJournalled
  <2>1. CASE k \in Jobs \ (old \cup {j})
    BY <1>6, <1>12, <1>14, <2>1 DEF WInv, WorkRelations, WorkIsJournalled
  <2>2. CASE k \in old
    BY <1>10, <1>12, <1>15, <2>2
  <2>3. CASE k = j
    <3>1. ~Working(j)
      BY <1>5 DEF Working
    <3>. QED BY <1>11, <1>12, <1>13, <1>16, <2>3, <3>1
  <2>. QED BY <2>1, <2>2, <2>3
<1>18. PermitIsEarned'
  <2>. SUFFICES ASSUME NEW k \in Jobs
                PROVE  /\ disp'[k] = "absent" /\ disk'[k] \notin Journal
                            => worker'[k] = "none" /\ ~permit'[k]
                       /\ worker'[k] = "active" => permit'[k]
                       /\ disk'[k] \in Journal /\ permit'[k] =>
                            /\ disk'[k].state \notin {"Queued", "Starting"}
                            /\ OwnsRuntime(k) /\ ~Ended(disk'[k]) => disk'[k].mutated
    BY DEF PermitIsEarned, Ended
  <2>1. CASE k \in Jobs \ (old \cup {j})
    BY <1>2, <1>6, <2>1 DEF WInv, WorkRelations, PermitIsEarned
  <2>2. CASE k \in old
    BY <1>2, <1>7, <1>15, <2>2 DEF WInv, WorkRelations, PermitIsEarned
  <2>3. CASE k = j
    BY <1>2, <1>5, <2>3
  <2>. QED BY <2>1, <2>2, <2>3
<1>19. LocalLeases'
  <2>. SUFFICES ASSUME NEW k \in Jobs, Known(k)', ~Ended(mem'[k])
                PROVE  LocalKeys[k] \subseteq leases'[k]
    BY DEF LocalLeases, Ended
  <2>1. CASE k = j
    BY <1>8, <1>9, <2>1 DEF Known, Dispositions
  <2>2. CASE k # j
    BY <1>2, <1>6, <1>9, <1>14, <1>15, <2>2, KnownWork
  <2>. QED BY <2>1, <2>2
<1>20. HeavyIsJournalled'
  <2>. SUFFICES ASSUME NEW k \in Jobs
                PROVE  /\ disk'[k] \in Journal =>
                            /\ disk'[k].state \in {"Starting", "Running", "Cancelling"}
                                 => disk'[k].heavy
                            /\ Ended(disk'[k]) => ~disk'[k].heavy
                       /\ Known(k)' => mem'[k].heavy = disk'[k].heavy
    BY DEF HeavyIsJournalled, Ended
  <2>1. CASE k \in Jobs \ (old \cup {j})
    BY <1>6, <1>14, <2>1 DEF WInv, WorkRelations, HeavyIsJournalled
  <2>2. CASE k \in old
    BY <1>15, <2>2
  <2>3. CASE k = j
    BY <1>11, <1>16, <1>8, <2>3 DEF Known, Dispositions
  <2>. QED BY <2>1, <2>2, <2>3
<1>23. /\ \A k \in Jobs \ (old \cup {j}) : Dead(k)' <=> Dead(k)
       /\ \A k \in old \cup {j} : ~Dead(k)'
       /\ Bounded' => Bounded
  BY <1>2, <1>6, <1>7, <1>8 DEF Dead, Bounded, CountsGrow
<1>21. HeavyLease' /\ DeadIsIdle'
  <2>1. ASSUME Bounded', NEW k \in Jobs, Known(k)', mem'[k].heavy
        PROVE  Heavy \in leases'[k] \/ Dead(k)'
    <3>1. k # j
      BY <1>8, <1>11, <2>1 DEF Known, Dispositions
    <3>. QED BY <1>2, <1>6, <1>9, <1>14, <1>15, <1>23, <2>1, <3>1, KnownWork
  <2>2. \A k \in Jobs : disk'[k] \in Journal /\ disk'[k].heavy
                           => disk[k] = disk'[k] /\ (Dead(k)' <=> Dead(k))
    BY <1>6, <1>11, <1>15, <1>16, <1>23
  <2>3. HeavyLease'
    BY <1>23, <2>1, <2>2 DEF WInv, WorkRelations, HeavyLease
  <2>4. DeadIsIdle'
    BY <1>2, <1>3, <1>12, <1>23 DEF WInv, WorkRelations, DeadIsIdle, CountsGrow
  <2>. QED BY <2>3, <2>4
<1>22. UplinkExclusion'
  <2>. SUFFICES ASSUME NEW k \in Jobs, NEW l \in Jobs, k # l, Unfinished(disk'[k]),
                       Unfinished(disk'[l])
                PROVE  LocalKeys[k] \cap LocalKeys[l] = {}
    BY DEF UplinkExclusion
  <2>1. k \notin old /\ l \notin old
    BY <1>7 DEF Unfinished, IsJournal
  <2>2. \A n \in {k, l} \ {j} : disk[n] \in Journal /\ ~Ended(disk[n]) /\ Known(n)
    BY <1>2, <1>6, <2>1, UpKnows DEF Unfinished, IsJournal, Ended, WInv, IInv, TypeOK
  <2>3. ASSUME NEW n \in {k, l} \ {j}, NEW o \in {k, l}, o = j
        PROVE  LocalKeys[n] \cap LocalKeys[o] = {}
    <3>1. outcome = "created"
      BY <1>8, <2>3 DEF Unfinished, IsJournal
    <3>2. LocalKeys[n] \subseteq leases[n]
      BY <1>2, <2>2, KnownWork
    <3>. QED BY <1>2, <2>3, <3>1, <3>2 DEF Free
  <2>4. CASE k # j /\ l # j
    BY <1>6, <2>1, <2>4 DEF WInv, WorkRelations, UplinkExclusion
  <2>. QED BY <2>3, <2>4
<1>. QED BY <1>2, <1>17, <1>18, <1>19, <1>20, <1>21, <1>22, NoWorkContext DEF WorkRelations

\* What the startup scan makes of the journal of a worker, and of the heavy bit.
LEMMA ScanWork ==
  ASSUME NEW r \in Journal, NEW live \in BOOLEAN,
         r.process => r.state \in {"Running", "Cancelling"}, r.state = "Running" => r.process,
         r.state \in {"Starting", "Running", "Cancelling"} => r.heavy,
         Ended(r) => ~r.heavy /\ ~r.mutated
  PROVE  LET s == ScanOne(r, live)
             q == Reconciled(r, live)
         IN /\ live /\ r.process => s = "LiveProcess"
            /\ s = "LiveProcess" => r.process /\ q = r
            /\ q.process => q = r
            /\ q.state \in {"Queued", "Starting", "Running", "Cancelling"} => q = r
            /\ q.heavy => r.heavy
            /\ Ended(q) => ~q.heavy
            /\ q # r /\ ~Ended(q) => q.mutated
            /\ ~Ended(q) => ~Ended(r)
<1>. DEFINE q1 == Terminated("Failed")
            q2 == RequireRecovery(r, "recovery")
<1>1. q1.state = "Failed" /\ ~q1.process /\ ~q1.heavy /\ Ended(q1)
  BY DEF Terminated, Ended, Terminals
<1>2. q2.state = "Recovering" /\ ~q2.process /\ q2.heavy = r.heavy /\ q2.mutated /\ ~Ended(q2)
  BY DEF RequireRecovery, Journal, Ended, Terminals
<1>3. Reconciled(r, live) =
        CASE ScanOne(r, live) = "DeadBeforeMutation" -> q1
          [] ScanOne(r, live) = "RecoveryRequired" /\ r.state # "Recovering" -> q2
          [] OTHER -> r
  BY DEF Reconciled
<1>4. /\ live /\ r.process => ScanOne(r, live) = "LiveProcess"
      /\ ScanOne(r, live) = "LiveProcess" => r.process
      /\ Ended(r) => ScanOne(r, live) \in {"Settled", "RecoveryRequired"}
  BY DEF ScanOne, Ended, Terminals
<1>5. Ended(r) /\ ScanOne(r, live) = "RecoveryRequired" => r.mutated
  BY DEF ScanOne, Ended
<1>. HIDE DEF q1, q2
<1>. QED BY <1>1, <1>2, <1>3, <1>4, <1>5

\* A restart takes the leases of every unfinished job again, in any order, and
\* adopts the workers that live.
LEMMA BindWork ==
  ASSUME WInv, NEW bad \in {{}} \cup {{j} : j \in Jobs}, Bind(bad)
  PROVE  WorkRelations' /\ WorkContext'
<1>. DEFINE found == {j \in Jobs : IsJournal(disk[j])}
            fixed == [j \in Jobs |-> IF j \in found \ bad THEN Reconciled(disk[j], Live(j))
                                     ELSE disk[j]]
            scan  == [j \in Jobs |->
                        IF j \notin found THEN disp[j]
                        ELSE IF ScanOne(disk[j], Live(j)) = "DeadBeforeMutation" /\ j \notin bad
                        THEN "Settled" ELSE ScanOne(disk[j], Live(j))]
            claimants == {j \in found : scan[j] \notin {"DeadBeforeMutation", "Settled"}}
            adopted == {j \in found : scan[j] = "LiveProcess"}
            stopping == {j \in adopted : fixed[j].state = "Cancelling"}
<1>1. PICK granted \in Grants(claimants, fixed) :
        LET held == [j \in Jobs |-> IF j \in granted THEN Claim(j, fixed[j]) ELSE {}]
        IN /\ leases' = held
           /\ issues' = (bad # {} \/ granted # claimants \/ \E j \in Jobs : disk[j] = Debris)
           /\ \E old \in IF issues' THEN {{}} ELSE Prunable(scan, held, stopping) :
                /\ disk' = Without(fixed, old, None)
                /\ mem' = [j \in Jobs |-> IF j \in found \ old THEN fixed[j] ELSE None]
                /\ disp' = Without(scan, old, "retired")
  BY DEF Bind
<1>2. /\ at.place = "down" /\ at'.place = "idle" /\ worker' = worker
      /\ permit' = [j \in Jobs |-> permit[j] \/ (j \in adopted \ stopping /\ ~OwnsRuntime(j))]
      /\ CountsGrow /\ (faults' = 0 => bad = {}) /\ restarts # 0
  BY WritesCount DEF Bind, At, Done, Idle, WInv, WorkContext
<1>3. PICK old : /\ disk' = Without(fixed, old, None)
                 /\ mem' = [j \in Jobs |-> IF j \in found \ old THEN fixed[j] ELSE None]
                 /\ disp' = Without(scan, old, "retired")
                 /\ \A k \in old : k \in Jobs /\ scan[k] = "Settled"
  <2>. HIDE DEF scan, fixed, found, stopping
  <2>. QED BY <1>1, PrunableFacts
<1>4. \A j \in Jobs : j \in found <=> disk[j] \in Journal
  BY FoundIsJournal DEF WInv, IInv
<1>5. \A j \in Jobs : ~Known(j) /\ disp[j] \in {"absent", "retired"}
  BY <1>2 DEF WInv, IInv, TypeOK, Relations, MemoryAgrees, At, Known
<1>6. ASSUME NEW j \in found
      PROVE  /\ fixed[j] \in Journal
             /\ scan[j] = "Settled" <=> Ended(fixed[j])
             /\ scan[j] = "DeadBeforeMutation" => j \in bad
             /\ Working(j) => scan[j] = "LiveProcess"
             /\ scan[j] = "LiveProcess" => disk[j].process /\ fixed[j] = disk[j]
             /\ fixed[j].process => fixed[j] = disk[j]
             /\ fixed[j].state \in {"Queued", "Starting", "Running", "Cancelling"}
                  => fixed[j] = disk[j]
             /\ fixed[j].heavy => disk[j].heavy
             /\ Ended(fixed[j]) => ~fixed[j].heavy
             /\ fixed[j] # disk[j] /\ ~Ended(fixed[j]) => fixed[j].mutated
             /\ ~Ended(fixed[j]) => ~Ended(disk[j])
  <2>1. disk[j] \in Journal /\ j \in Jobs /\ Live(j) \in BOOLEAN
    BY <1>4, SMT DEF Live
  <2>2. /\ disk[j].process => disk[j].state \in {"Running", "Cancelling"}
        /\ disk[j].state = "Running" => disk[j].process
        /\ Working(j) => disk[j].process
    BY <2>1 DEF WInv, WorkRelations, WorkIsJournalled
  <2>3. /\ disk[j].state \in {"Starting", "Running", "Cancelling"} => disk[j].heavy
        /\ Ended(disk[j]) => ~disk[j].heavy
    BY <2>1 DEF WInv, WorkRelations, HeavyIsJournalled
  <2>4. Ended(disk[j]) \/ disk[j].state = "Queued" => ~disk[j].mutated
    BY <2>1 DEF WInv, IInv, Relations, EndedIsInert
  <2>. DEFINE s == ScanOne(disk[j], Live(j))
              q == Reconciled(disk[j], Live(j))
  <2>5. /\ s \in Dispositions /\ q \in Journal
        /\ s = "Settled" <=> Ended(disk[j])
        /\ s = "DeadBeforeMutation" => Ended(q)
        /\ s # "DeadBeforeMutation" => (Ended(q) <=> Ended(disk[j]))
    BY <2>1, <2>4, ScanFacts
  <2>6. /\ Live(j) /\ disk[j].process => s = "LiveProcess"
        /\ s = "LiveProcess" => disk[j].process /\ q = disk[j]
        /\ q.process => q = disk[j]
        /\ q.state \in {"Queued", "Starting", "Running", "Cancelling"} => q = disk[j]
        /\ q.heavy => disk[j].heavy
        /\ Ended(q) => ~q.heavy
        /\ q # disk[j] /\ ~Ended(q) => q.mutated
        /\ ~Ended(q) => ~Ended(disk[j])
    BY <2>1, <2>2, <2>3, <2>4, ScanWork
  <2>7. /\ fixed[j] = IF j \in bad THEN disk[j] ELSE q
        /\ scan[j] = IF s = "DeadBeforeMutation" /\ j \notin bad THEN "Settled" ELSE s
    BY <2>1
  <2>8. Working(j) => Live(j)
    BY DEF Working, Live
  <2>. HIDE DEF s, q, fixed, scan
  <2>9. CASE j \in bad
    BY SMTT(30), <2>1, <2>2, <2>3, <2>4, <2>5, <2>6, <2>7, <2>8, <2>9
  <2>10. CASE j \notin bad
    BY SMTT(30), <2>1, <2>2, <2>3, <2>5, <2>6, <2>7, <2>8, <2>10
  <2>. QED BY <2>9, <2>10
<1>7. \A j \in Jobs \ found : fixed[j] = disk[j] /\ scan[j] = disp[j] /\ j \notin old
  BY <1>3, <1>5
<1>8. old \subseteq found
  BY <1>3, <1>7
<1>9. \A j \in Jobs : permit'[j] <=>
        permit[j] \/ (j \in found /\ scan[j] = "LiveProcess" /\ fixed[j].state # "Cancelling"
                       /\ ~OwnsRuntime(j))
  BY <1>2
<1>10. \A j \in granted : j \in claimants
  BY DEF Grants
<1>11. \A j \in claimants : j \in found /\ scan[j] # "Settled"
  OBVIOUS
<1>12. \A j \in found : scan[j] \notin {"DeadBeforeMutation", "Settled"} => j \in claimants
  OBVIOUS
<1>13. /\ \A j \in Jobs : leases'[j] = IF j \in granted THEN Claim(j, fixed[j]) ELSE {}
       /\ ~issues' => bad = {} /\ granted = claimants
  BY <1>1
<1>14. \A j \in claimants \ granted : \E k \in granted :
         Claim(j, fixed[j]) \cap Claim(k, fixed[k]) # {}
  BY DEF Grants
<1>. HIDE DEF fixed, scan, stopping, adopted, claimants
<1>15. \A j \in found \ old : disk'[j] = fixed[j] /\ mem'[j] = fixed[j] /\ disp'[j] = scan[j]
  BY <1>3 DEF Without
<1>16. \A j \in old : disk'[j] = None /\ mem'[j] = None /\ disp'[j] = "retired"
                         /\ Ended(fixed[j])
  BY <1>3, <1>6, <1>8 DEF Without
<1>17. \A j \in Jobs \ found : disk'[j] = disk[j] /\ disp'[j] = disp[j] /\ ~Known(j)'
                                  /\ disk[j] \in {None, Debris}
  BY <1>3, <1>5, <1>7 DEF Without, IsJournal, Known, Dispositions
<1>18. \A j \in Jobs : Working(j) => j \in found \ old
  <2>1. \A j \in Jobs : Working(j) => j \in found
    BY <1>4 DEF WInv, WorkRelations, WorkIsJournalled
  <2>. QED BY <1>3, <1>6, <2>1
<1>. HIDE DEF found
<1>19. \A j \in Jobs : disk'[j] \in Journal \/ Known(j)' => j \in found \ old
  BY <1>16, <1>17, NoJournalAssumption DEF Known, Dispositions
<1>20. WorkIsJournalled'
  <2>. SUFFICES ASSUME NEW k \in Jobs
                PROVE  /\ Working(k)' => disk'[k] \in Journal /\ disk'[k].process
                       /\ disk'[k] \in Journal =>
                            /\ disk'[k].process => disk'[k].state \in {"Running", "Cancelling"}
                            /\ disk'[k].state = "Running" => disk'[k].process
                       /\ Known(k)' =>
                            /\ mem'[k].process = disk'[k].process
                            /\ \/ mem'[k].state = disk'[k].state
                               \/ /\ mem'[k].state = "Cancelling"
                                  /\ disk'[k].state \in {"Starting", "Running"}
    BY DEF WorkIsJournalled
  <2>1. CASE k \in found \ old
    <3>1. Working(k)' => fixed[k] = disk[k] /\ disk[k].process
      BY <1>2, <1>6, <1>9, <2>1 DEF Working
    <3>2. /\ disk[k].process => disk[k].state \in {"Running", "Cancelling"}
          /\ disk[k].state = "Running" => disk[k].process
      BY <1>4, <2>1 DEF WInv, WorkRelations, WorkIsJournalled
    <3>. QED BY <1>6, <1>15, <2>1, <3>1, <3>2
  <2>2. CASE k \notin found \ old
    <3>1. ~Working(k)'
      <4>1. permit'[k] => permit[k] \/ (scan[k] = "LiveProcess" /\ k \in found)
        BY <1>9
      <4>2. k \in found => scan[k] = "Settled"
        BY <1>3, <2>2
      <4>. QED BY <1>2, <1>18, <2>2, <4>1, <4>2 DEF Working
    <3>. QED BY <1>19, <2>2, <3>1
  <2>. QED BY <2>1, <2>2
<1>21. PermitIsEarned'
  <2>. SUFFICES ASSUME NEW k \in Jobs
                PROVE  /\ disp'[k] = "absent" /\ disk'[k] \notin Journal
                            => worker'[k] = "none" /\ ~permit'[k]
                       /\ worker'[k] = "active" => permit'[k]
                       /\ disk'[k] \in Journal /\ permit'[k] =>
                            /\ disk'[k].state \notin {"Queued", "Starting"}
                            /\ OwnsRuntime(k) /\ ~Ended(disk'[k]) => disk'[k].mutated
    BY DEF PermitIsEarned, Ended
  <2>1. worker'[k] = "active" => permit'[k]
    BY <1>2, <1>9 DEF WInv, WorkRelations, PermitIsEarned
  <2>2. CASE k \in found \ old
    <3>1. permit[k] => /\ disk[k].state \notin {"Queued", "Starting"}
                       /\ OwnsRuntime(k) /\ ~Ended(disk[k]) => disk[k].mutated
      BY <1>4, <2>2 DEF WInv, WorkRelations, PermitIsEarned
    <3>2. disk[k].process => disk[k].state \in {"Running", "Cancelling"}
      BY <1>4, <2>2 DEF WInv, WorkRelations, WorkIsJournalled
    <3>3. permit'[k] => disk'[k].state \notin {"Queued", "Starting"}
      BY <1>6, <1>9, <1>15, <2>2, <3>1, <3>2, SMT
    <3>4. permit'[k] /\ OwnsRuntime(k) /\ ~Ended(disk'[k]) => disk'[k].mutated
      BY <1>6, <1>9, <1>15, <2>2, <3>1
    <3>. QED BY <1>6, <1>15, <2>1, <2>2, <3>3, <3>4
  <2>3. CASE k \in old
    BY <1>16, <1>19, <2>1, <2>3
  <2>4. CASE k \notin found
    <3>1. (permit'[k] <=> permit[k]) /\ disk[k] \notin Journal
      BY <1>9, <1>4, <2>4
    <3>. QED BY <1>2, <1>17, <1>19, <2>1, <2>4, <3>1 DEF WInv, WorkRelations, PermitIsEarned
  <2>. QED BY <2>2, <2>3, <2>4
<1>22. LocalLeases'
  <2>. SUFFICES ASSUME ~issues', NEW k \in Jobs, Known(k)', ~Ended(mem'[k])
                PROVE  LocalKeys[k] \subseteq leases'[k]
    BY DEF LocalLeases, Ended
  <2>1. k \in found \ old /\ scan[k] \notin {"Settled", "DeadBeforeMutation"}
    BY <1>6, <1>13, <1>15, <1>19
  <2>. QED BY <1>12, <1>13, <2>1 DEF Claim
<1>23. HeavyIsJournalled'
  <2>. SUFFICES ASSUME NEW k \in Jobs
                PROVE  /\ disk'[k] \in Journal =>
                            /\ disk'[k].state \in {"Starting", "Running", "Cancelling"}
                                 => disk'[k].heavy
                            /\ Ended(disk'[k]) => ~disk'[k].heavy
                       /\ Known(k)' => mem'[k].heavy = disk'[k].heavy
    BY DEF HeavyIsJournalled, Ended
  <2>1. CASE k \in found \ old
    <3>1. /\ disk[k].state \in {"Starting", "Running", "Cancelling"} => disk[k].heavy
          /\ Ended(disk[k]) => ~disk[k].heavy
      BY <1>4, <2>1 DEF WInv, WorkRelations, HeavyIsJournalled
    <3>2. disk'[k] = fixed[k] /\ mem'[k] = fixed[k]
      BY <1>15, <2>1
    <3>. QED BY <1>6, <2>1, <3>1, <3>2
  <2>. QED BY <1>19, <2>1
<1>26. DeadIsIdle'
  <2>. SUFFICES ASSUME NEW k \in Jobs, Dead(k)'
                PROVE  ~Working(k)' /\ faults' # 0 /\ restarts' # 0
    BY DEF DeadIsIdle
  <2>1. Known(k)'
    BY DEF Dead, Known, Dispositions
  <2>2. k \in found /\ scan[k] = "DeadBeforeMutation"
    BY <1>15, <1>19, <2>1 DEF Dead
  <2>3. k \in bad /\ ~Working(k)
    BY <1>6, <2>2
  <2>4. permit'[k] => permit[k]
    BY <1>9, <2>2
  <2>. QED BY <1>2, <2>3, <2>4 DEF Working, CountsGrow
<1>24. HeavyLease'
  <2>. SUFFICES ASSUME Bounded'
                PROVE  /\ \A k \in Jobs : Known(k)' /\ mem'[k].heavy
                                           => Heavy \in leases'[k] \/ Dead(k)'
                       /\ \A k, l \in Jobs :
                            k # l /\ disk'[k] \in Journal /\ disk'[l] \in Journal
                              => ~(disk'[k].heavy /\ disk'[l].heavy)
    BY DEF HeavyLease
  <2>4. Bounded /\ \A k \in Jobs : ~Dead(k)
    BY <1>2, <1>5 DEF Bounded, CountsGrow, Dead
  <2>1. \A k, l \in found : k # l => ~(fixed[k].heavy /\ fixed[l].heavy)
    BY <1>4, <1>6, <2>4 DEF WInv, WorkRelations, HeavyLease, found
  <2>2. \A k \in Jobs : Known(k)' /\ mem'[k].heavy => Heavy \in leases'[k] \/ Dead(k)'
    <3>. SUFFICES ASSUME NEW k \in Jobs, Known(k)', mem'[k].heavy, ~Dead(k)'
                  PROVE  Heavy \in leases'[k]
      OBVIOUS
    <3>1. k \in found /\ fixed[k].heavy /\ scan[k] \notin {"Settled", "DeadBeforeMutation"}
      BY <1>6, <1>15, <1>19 DEF Dead
    <3>2. k \in claimants
      BY <1>12, <3>1
    <3>3. k \in granted
      <4>. SUFFICES ASSUME k \notin granted PROVE FALSE
        OBVIOUS
      <4>1. PICK l \in granted : Claim(k, fixed[k]) \cap Claim(l, fixed[l]) # {}
        BY <1>14, <3>2
      <4>2. l \in found /\ scan[l] # "Settled" /\ l # k /\ l \in Jobs
        BY <1>10, <1>11 DEF found
      <4>3. ~fixed[l].heavy
        BY <2>1, <3>1, <4>2
      <4>4. ~Ended(disk[k]) /\ ~Ended(disk[l])
        BY <1>6, <3>1, <4>2
      <4>5. LocalKeys[k] \cap LocalKeys[l] = {}
        BY <3>1, <4>2, <4>4 DEF WInv, WorkRelations, UplinkExclusion, Unfinished, Ended, found
      <4>. QED BY <4>1, <4>2, <4>3, <4>5, JobsAssumption DEF Claim
    <3>. QED BY <1>13, <3>1, <3>3 DEF Claim
  <2>3. \A k, l \in Jobs : k # l /\ disk'[k] \in Journal /\ disk'[l] \in Journal
                             => ~(disk'[k].heavy /\ disk'[l].heavy)
    BY <1>15, <1>19, <2>1
  <2>. QED BY <2>2, <2>3
<1>25. UplinkExclusion'
  <2>. SUFFICES ASSUME NEW k \in Jobs, NEW l \in Jobs, k # l, Unfinished(disk'[k]),
                       Unfinished(disk'[l])
                PROVE  LocalKeys[k] \cap LocalKeys[l] = {}
    BY DEF UplinkExclusion
  <2>1. \A n \in {k, l} : n \in found /\ ~Ended(disk[n])
    BY <1>6, <1>15, <1>16, <1>17 DEF Unfinished, IsJournal, Ended
  <2>. QED BY <2>1 DEF WInv, WorkRelations, UplinkExclusion, Unfinished, Ended, found
<1>. QED BY <1>2, <1>20, <1>21, <1>22, <1>23, <1>24, <1>25, <1>26, NoWorkContext
     DEF WorkRelations

----------------------------------------------------------------------------
\* A daemon that has just bound an empty state directory has no worker.
LEMMA InitWInv == Init => WInv
<1>. SUFFICES ASSUME Init PROVE WInv
  OBVIOUS
<1>1. \A j \in Jobs : ~Known(j) /\ disk[j] \notin Journal /\ disk[j] = None /\ ~Working(j)
                        /\ worker[j] = "none" /\ ~permit[j]
  BY NoJournalAssumption DEF Init, Known, Dispositions, Working
<1>2. WorkIsJournalled /\ PermitIsEarned /\ LocalLeases /\ HeavyIsJournalled /\ HeavyLease
  BY <1>1 DEF WorkIsJournalled, PermitIsEarned, LocalLeases, HeavyIsJournalled, HeavyLease
<1>5. DeadIsIdle
  BY DEF Init, DeadIsIdle, Dead
<1>3. UplinkExclusion
  BY <1>1 DEF UplinkExclusion, Unfinished, IsJournal
<1>4. WorkContext
  BY DEF Init, Idle, WorkContext
<1>. QED BY <1>2, <1>3, <1>4, <1>5, InitIInv DEF WInv, WorkRelations

\* The running handler keeps the relations of workers and leases.
LEMMA HandlerStepWork ==
  ASSUME WInv, NEW j \in Jobs, NEW ok \in BOOLEAN, HandlerStep(j, ok)
  PROVE  WorkRelations' /\ WorkContext'
  BY ArmWork, FailArmQueuedWork, SpawnWork, AttachWork, LaunchFailureWork, PublishPermitWork,
     SettleStoppedWork, PublishRuntimePermitWork, PublishOperationPermitWork,
     FailAfterArmedWork, CancelExitWork DEF HandlerStep

\* Every step does.
LEMMA NextWork == WInv /\ [Next]_vars => WInv'
<1>. SUFFICES ASSUME WInv, [Next]_vars PROVE WInv'
  OBVIOUS
<1>1. IInv'
  BY NextInv DEF WInv
<1>2. CASE UNCHANGED vars
  BY <1>2, OverrideWork, <1>1 DEF vars, WInv
<1>3. CASE Next
  <2>1. ASSUME NEW j \in Jobs, NEW ok \in BOOLEAN, Tick(j, ok)
        PROVE  WorkRelations' /\ WorkContext'
    BY <2>1, DispatchWork, PreflightFailsWork, MonitorWork, PollCancellationWork,
       SettleRecoveryWork, HandlerStepWork DEF Tick
  <2>2. ASSUME NEW j \in Jobs, Poll(j) PROVE WorkRelations' /\ WorkContext'
    BY <2>2, ArmRuntimeWork, StopParkedWork, ReleaseHeavyWork, WithdrawRestoredWork DEF Poll
  <2>3. CASE CoordinatorMoves
    BY <1>1, <2>1, <2>2, <2>3, BindWork DEF CoordinatorMoves, WInv
  <2>4. CASE ~CoordinatorMoves
    BY <1>3, <2>4, StartJobWork, CancelJobWork, BudgetStopWork, CrashWork, WorkerStartsWork,
       WorkerExitsWork, RuntimeWork, <1>1 DEF Next, WInv
  <2>. QED BY <2>3, <2>4
<1>. QED BY <1>2, <1>3

\* The relations of journals, workers and leases hold in every reachable state.
THEOREM WInvHolds == Spec => []WInv
  BY InitWInv, NextWork, PTL DEF Spec

\* OneTrafficWorker, for every number of jobs, within the two bounds it states: a
\* working worker's journal names it, so that it has the heavy bit, and at most
\* one journal has the bit, but for jobs that bind found dead and that have no
\* worker.
THEOREM OneWorker == Spec => []OneTrafficWorker
<1>1. WInv => OneTrafficWorker
  <2>. SUFFICES ASSUME WInv, Bounded, NEW j \in Jobs, NEW k \in Jobs, worker[j] = "active",
                       worker[k] = "active"
                PROVE  j = k
    BY DEF OneTrafficWorker, Bounded
  <2>1. \A n \in {j, k} : disk[n] \in Journal /\ disk[n].heavy /\ ~Dead(n)
    BY DEF WInv, WorkRelations, WorkIsJournalled, HeavyIsJournalled, DeadIsIdle, Working
  <2>. QED BY <2>1 DEF WInv, WorkRelations, HeavyLease
<1>. QED BY <1>1, WInvHolds, PTL

\* UplinkExclusion, whatever writes fail: admission is closed while a lease may
\* be missing.
THEOREM UplinkExclusive == Spec => []UplinkExclusion
<1>1. WInv => UplinkExclusion
  BY DEF WInv, WorkRelations
<1>. QED BY <1>1, WInvHolds, PTL

\* OnlyExitSettles, for every number of jobs, restarts and failing writes.
THEOREM ExitSettles == Spec => []OnlyExitSettles
<1>1. WInv => OnlyExitSettles
  BY NoJournalAssumption DEF WInv, WorkRelations, WorkIsJournalled, Working, OnlyExitSettles,
     Unfinished, IsJournal, Terminals
<1>. QED BY <1>1, WInvHolds, PTL
=============================================================================
