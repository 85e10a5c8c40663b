--------------------------- MODULE UciTransaction ---------------------------
(***************************************************************************)
(* The durable publication of a prepared pair of configuration packages    *)
(* (operations/uci_transaction.rs): /etc/config/cake-autorate and          *)
(* /etc/config/sqm are replaced one after the other by atomic exchanges    *)
(* with swap files in the journal directory .start-uci/pending.  A failed  *)
(* publication is rolled back in process, an interrupted one by the next   *)
(* lifecycle command, an accepted one is only cleaned up.                  *)
(*                                                                         *)
(* Other programs commit configuration at the same time.  libuci takes the *)
(* lock of the file it replaces; a plain rename takes none.  Only one      *)
(* lifecycle command runs at a time (the workspace lock), so the code is   *)
(* one process here, with a step wherever another writer, a crash or a     *)
(* refused runtime check may come in between.                              *)
(*                                                                         *)
(* Abstracted: a version is the identity of one inode with its bytes (a    *)
(* number); receipts are the versions they name; a file or a directory     *)
(* entry that was not synced yet and is lost with the power is a crash at  *)
(* the step before.  A candidate that changes nothing is not journalled by *)
(* the code and not in this module.                                        *)
(***************************************************************************)
EXTENDS Naturals, FiniteSets

CONSTANTS
  None,         \* no version
  MaxVersion,   \* bound: versions of the two files ever created
  MaxFaults     \* bound: crashes, failing calls and refused runtime checks

ASSUME BoundAssumption == MaxVersion \in Nat /\ MaxVersion >= 2 /\ MaxFaults \in Nat
ASSUME NoneAssumption == None \notin Nat

Packages == 1 .. 2
Version == 1 .. MaxVersion
Places == {"idle", "mkdir", "owner", "intent", "swap", "ready", "open", "lock", "check",
           "exchange", "inspect", "prove", "applied", "batch", "rollback",
           "preflight", "restore", "putBack", "verify", "giveBack", "restored", "mark", "move",
           "clean"}
Names == {"owner", "intent", "ready", "accepted"}

VARIABLES
  public,    \* the version at each public name
  swap,      \* the version in each swap file of the journal
  place,     \* where the journal directory is: none, pending or garbage
  files,     \* the other files in it
  proof,     \* the displaced receipt: package and version
  before, after, changed,  \* what the journal says, per package
  at, index, \* where the running operation stands
  strict,    \* the rollback refuses later commits
  restore,   \* the versions a rollback puts back
  receipt,   \* the versions a rollback promises to leave public
  opened,    \* the public files the operation opened in order to lock them
  locked,    \* the versions whose lock the operation holds
  published, \* the controller batch of the publication is stored
  libuci,    \* history: versions committed since the last transaction began,
             \* under the lock of the file they replace
  foreign,   \* history: versions committed since then without a lock
  replaced,  \* history: versions these commits overwrote
  last,      \* the newest version
  faults

journalVars == <<swap, place, files, proof>>
planVars == <<before, after, changed>>
rollbackVars == <<strict, restore, receipt>>
lockVars == <<opened, locked>>
writerVars == <<libuci, foreign, replaced>>
vars == <<public, journalVars, planVars, at, index, rollbackVars, lockVars, published,
          writerVars, last, faults>>

Proof == [package : Packages, version : Version]
NoVersions == [p \in Packages |-> None]

\* Files, journal, plan and rollback have their types.
TypeOK ==
  /\ public \in [Packages -> Version]
  /\ swap \in [Packages -> Version \cup {None}]
  /\ place \in {"none", "pending", "garbage"} /\ files \in SUBSET Names
  /\ proof \in Proof \cup {None}
  /\ before \in [Packages -> Version] /\ after \in [Packages -> Version]
  /\ changed \in SUBSET Packages
  /\ at \in Places /\ index \in Packages /\ strict \in BOOLEAN
  /\ restore \in [Packages -> Version \cup {None}]
  /\ receipt \in [Packages -> Version \cup {None}]
  /\ opened \in [Packages -> Version \cup {None}] /\ locked \in SUBSET Version
  /\ published \in BOOLEAN
  /\ libuci \in SUBSET Version /\ foreign \in SUBSET Version
  /\ replaced \in SUBSET Version
  /\ last \in Version /\ faults \in 0 .. MaxFaults

Init ==
  /\ public = [p \in Packages |-> p] /\ last = 2
  /\ swap = NoVersions /\ place = "none" /\ files = {} /\ proof = None
  /\ before = public /\ after = public /\ changed = {}
  /\ at = "idle" /\ index = 1 /\ strict = TRUE
  /\ restore = NoVersions /\ receipt = NoVersions
  /\ opened = NoVersions /\ locked = {} /\ published = FALSE
  /\ libuci = {} /\ foreign = {} /\ replaced = {} /\ faults = 0

-----------------------------------------------------------------------------
(* Building blocks.                                                        *)

Goto(pc, i) == at' = pc /\ index' = i

\* The files are closed.
Unlock == opened' = NoVersions /\ locked' = {}

\* The operation returns: its locks are released, its memory is gone.
Return ==
  /\ Goto("idle", 1) /\ Unlock
  /\ restore' = NoVersions /\ receipt' = NoVersions /\ strict' = TRUE

\* rename with RENAME_EXCHANGE of a public name and its swap file
Exchange(p) ==
  /\ swap[p] # None
  /\ public' = [public EXCEPT ![p] = swap[p]]
  /\ swap' = [swap EXCEPT ![p] = public[p]]

\* PreparedConfig::attest: both sources are still the captured ones
SourcesUnchanged == public = before

\* The publication failed: journal.rollback() follows in the same process.
RollBack ==
  /\ Goto("rollback", 1) /\ Unlock /\ strict' = TRUE
  /\ UNCHANGED <<restore, receipt>>

-----------------------------------------------------------------------------
(* Journal::prepare                                                        *)

\* publish: sources captured, candidates built; Root::open cleans garbage and
\* an outstanding transaction refuses.
Begin(members) ==
  /\ at = "idle" /\ place # "pending"
  /\ members # {} /\ last + Cardinality(members) <= MaxVersion
  /\ before' = public /\ changed' = members
  /\ last' = last + Cardinality(members)
  /\ after' = [p \in Packages |-> IF p \notin members THEN public[p]
                                  ELSE IF p = 1 THEN last + 1 ELSE last']
  /\ place' = "none" /\ files' = {} /\ swap' = NoVersions /\ proof' = None
  /\ published' = FALSE /\ libuci' = {} /\ foreign' = {} /\ replaced' = {}
  /\ Goto("mkdir", 1)
  /\ UNCHANGED <<public, rollbackVars, lockVars, faults>>

\* A step of prepare attests the sources first; a failure leaves what is there.
Prepared(effect, pc, i) ==
  /\ IF SourcesUnchanged
     THEN effect /\ Goto(pc, i) /\ UNCHANGED <<rollbackVars, lockVars>>
     ELSE Return /\ UNCHANGED journalVars
  /\ UNCHANGED <<public, planVars, published, writerVars, last, faults>>

MakePending ==
  /\ at = "mkdir"
  /\ Prepared(place' = "pending" /\ UNCHANGED <<swap, files, proof>>, "owner", 1)

WriteFile(name, pc) ==
  /\ files' = files \cup {name} /\ Goto(pc, 1)
  /\ UNCHANGED <<public, swap, place, proof, planVars, rollbackVars, lockVars, published,
                 writerVars, last, faults>>

WriteOwner == at = "owner" /\ WriteFile("owner", "intent")
WriteIntent == at = "intent" /\ WriteFile("intent", "swap")

\* The candidate of a changed member, with the metadata of the original.
WriteSwap ==
  LET pc == IF index = 1 THEN "swap" ELSE "ready"
  IN
  /\ at = "swap"
  /\ IF index \in changed
     THEN Prepared(swap' = [swap EXCEPT ![index] = after[index]]
                     /\ UNCHANGED <<place, files, proof>>, pc, 3 - index)
     ELSE /\ Goto(pc, 3 - index)
          /\ UNCHANGED <<public, journalVars, planVars, rollbackVars, lockVars, published,
                         writerVars, last, faults>>

\* Mutant: the publication starts before READY is durable.
WriteReadyBug ==
  /\ at = "ready" /\ Goto("open", 1)
  /\ UNCHANGED <<public, journalVars, planVars, rollbackVars, lockVars, published,
                 writerVars, last, faults>>

\* READY is renamed into place before any exchange.
WriteReady ==
  /\ at = "ready"
  /\ Prepared(files' = files \cup {"ready"} /\ UNCHANGED <<swap, place, proof>>, "open", 1)

-----------------------------------------------------------------------------
(* Journal::publish                                                        *)

\* lock_sources opens each public file ...
OpenSources == opened' = public /\ UNCHANGED locked

\* Mutant: the sources are read without taking their locks.
LockSourcesBug == locked' = {} /\ opened' = NoVersions

\* ... and waits for its lock, by which time another one may be public.
LockSources == locked' = {opened[p] : p \in Packages} /\ opened' = NoVersions

PublishOpen ==
  /\ at = "open" /\ OpenSources /\ Goto("lock", 1)
  /\ UNCHANGED <<public, journalVars, planVars, rollbackVars, published, writerVars, last,
                 faults>>

\* The sources are attested again under the locks.
PublishLock ==
  /\ at = "lock"
  /\ IF SourcesUnchanged
     THEN LockSources /\ Goto("check", 1) /\ UNCHANGED rollbackVars
     ELSE RollBack
  /\ UNCHANGED <<public, journalVars, planVars, published, writerVars, last, faults>>

\* Mutant: the loop runs past the second member.
AfterMemberBug(i) == Goto("check", i + 1)

\* Where the loop over the members goes after member i.
AfterMember(i) == IF i = 1 THEN Goto("check", 2) ELSE Goto("applied", 1)

\* Every member is rechecked before each exchange, not only the next target.
PublishCheck ==
  LET expected(j) == IF j < index /\ j \in changed THEN after[j] ELSE before[j]
  IN
  /\ at = "check"
  /\ IF \A j \in Packages : public[j] = expected(j)
     THEN /\ IF index \in changed THEN Goto("exchange", index) ELSE AfterMember(index)
          /\ UNCHANGED <<rollbackVars, lockVars>>
     ELSE RollBack
  /\ UNCHANGED <<public, journalVars, planVars, published, writerVars, last, faults>>

PublishExchange ==
  /\ at = "exchange" /\ Exchange(index) /\ Goto("inspect", index)
  /\ UNCHANGED <<place, files, proof, planVars, rollbackVars, lockVars, published,
                 writerVars, last, faults>>

\* A writer may have replaced the public file between check and exchange.
PublishInspect ==
  /\ at = "inspect"
  /\ IF swap[index] = before[index] THEN AfterMember(index) ELSE Goto("prove", index)
  /\ UNCHANGED <<public, journalVars, planVars, rollbackVars, lockVars, published,
                 writerVars, last, faults>>

\* The displaced receipt names the writer's version; then the rollback.
PublishProve ==
  /\ at = "prove"
  /\ proof' = [package |-> index, version |-> swap[index]]
  /\ RollBack
  /\ UNCHANGED <<public, swap, place, files, planVars, published, writerVars, last, faults>>

\* attest_applied
Applied ==
  /\ \A p \in Packages : public[p] = after[p]
  /\ \A p \in changed : swap[p] = before[p]

PublishApplied ==
  /\ at = "applied"
  /\ IF Applied THEN Goto("batch", 1) /\ Unlock /\ UNCHANGED rollbackVars
                ELSE RollBack
  /\ UNCHANGED <<public, journalVars, planVars, published, writerVars, last, faults>>

\* StartPublication: the batch that names the published pair is stored next;
\* from then on a lifecycle command may accept it.
StoreBatch ==
  /\ at = "batch" /\ published' = TRUE /\ Return
  /\ UNCHANGED <<public, journalVars, planVars, writerVars, last, faults>>

-----------------------------------------------------------------------------
(* Rollback, of a failed publication (strict) or of an interrupted one.    *)

\* swap_to_restore: the original, or a commit the publication displaced
SwapIsProven(p) ==
  swap[p] = before[p] \/ proof = [package |-> p, version |-> swap[p]]

\* rollback_with_status refuses any later change of either member ...
StrictPreflight ==
  \A p \in Packages :
    IF p \notin changed THEN public[p] = before[p]
    ELSE \/ public[p] = after[p] /\ SwapIsProven(p)
         \/ public[p] = before[p] /\ swap[p] = after[p]

\* ... rollback_keeping_later restores what is still its own.
KeepPreflight == \A p \in changed : public[p] = after[p] => SwapIsProven(p)

\* recovery_views_keeping_later: a displaced commit must still be somewhere
\* unless the original is.
ViewsKnown ==
  \A p \in Packages :
    (proof # None /\ before[p] \notin {public[p], swap[p]})
      => (proof.package = p => proof.version \in {public[p], swap[p]})

RollbackOpen ==
  /\ at = "rollback"
  /\ IF strict \/ ViewsKnown
     THEN OpenSources /\ Goto("preflight", 1) /\ UNCHANGED rollbackVars
     ELSE Return
  /\ UNCHANGED <<public, journalVars, planVars, published, writerVars, last, faults>>

\* The pair is judged under the locks, before any file is restored.
Preflight ==
  LET back == [p \in Packages |->
                 IF p \in changed /\ public[p] = after[p] THEN swap[p] ELSE None]
  IN
  /\ at = "preflight"
  /\ IF IF strict THEN StrictPreflight ELSE KeepPreflight
     THEN /\ LockSources /\ Goto("restore", 2)
          /\ restore' = back
          /\ receipt' = [p \in Packages |-> IF back[p] # None THEN back[p] ELSE public[p]]
          /\ UNCHANGED strict
     ELSE Return
  /\ UNCHANGED <<public, journalVars, planVars, published, writerVars, last, faults>>

\* Mutant: the loop ends after the member it restores first.
AfterRestoreBug(i) == Goto("restored", 1)

\* restore_swaps goes from the last member to the first.
AfterRestore(i) == IF i = 2 THEN Goto("restore", 1) ELSE Goto("restored", 1)

RestoreCheck ==
  /\ at = "restore"
  /\ \/ /\ restore[index] = None
        /\ AfterRestore(index) /\ UNCHANGED <<rollbackVars, lockVars>>
     \/ /\ restore[index] # None
        /\ IF public[index] = after[index] /\ swap[index] = restore[index]
           THEN Goto("putBack", index) /\ UNCHANGED <<rollbackVars, lockVars>>
           ELSE Return
  /\ UNCHANGED <<public, journalVars, planVars, published, writerVars, last, faults>>

RestoreExchange ==
  /\ at = "putBack" /\ Exchange(index) /\ Goto("verify", index)
  /\ UNCHANGED <<place, files, proof, planVars, rollbackVars, lockVars, published,
                 writerVars, last, faults>>

\* Mutant: a commit that was displaced by the exchange is not noticed.
RestoreVerifyBug ==
  /\ at = "verify" /\ AfterRestore(index) /\ UNCHANGED <<rollbackVars, lockVars>>
  /\ UNCHANGED <<public, journalVars, planVars, published, writerVars, last, faults>>

RestoreVerify ==
  /\ at = "verify"
  /\ IF public[index] # restore[index] THEN Return
     ELSE /\ IF swap[index] = after[index] THEN AfterRestore(index)
                                          ELSE Goto("giveBack", index)
          /\ UNCHANGED <<rollbackVars, lockVars>>
  /\ UNCHANGED <<public, journalVars, planVars, published, writerVars, last, faults>>

\* A writer won the gap: its inode is returned and the rollback stops.
RestoreGiveBack ==
  /\ at = "giveBack" /\ Exchange(index) /\ Return
  /\ UNCHANGED <<place, files, proof, planVars, published, writerVars, last, faults>>

\* A recovery attests its receipt before the journal is retired.
Restored ==
  /\ at = "restored"
  /\ IF strict \/ public = receipt
     THEN Goto("mark", 1) /\ UNCHANGED <<rollbackVars, lockVars>>
     ELSE Return
  /\ UNCHANGED <<public, journalVars, planVars, published, writerVars, last, faults>>

-----------------------------------------------------------------------------
(* Root::retire: mark, move aside, delete.                                 *)

RetireMark ==
  /\ at = "mark" /\ files' = files \cup {"accepted"} /\ Goto("move", 1)
  /\ UNCHANGED <<public, swap, place, proof, planVars, rollbackVars, lockVars, published,
                 writerVars, last, faults>>

RetireMove ==
  /\ at = "move" /\ place' = "garbage" /\ Goto("clean", 1)
  /\ UNCHANGED <<public, swap, files, proof, planVars, rollbackVars, lockVars, published,
                 writerVars, last, faults>>

\* clean_retired
RetireClean ==
  /\ at = "clean" /\ Return
  /\ place' = "none" /\ files' = {} /\ swap' = NoVersions /\ proof' = None
  /\ UNCHANGED <<public, planVars, published, writerVars, last, faults>>

-----------------------------------------------------------------------------
(* The lifecycle commands that find a journal.                             *)

\* Mutant: an empty journal directory is not removed.
DiscardBug == UNCHANGED <<swap, place, files, proof>>

\* Nothing durable but the directory itself, or garbage, is left.
Discard == place' = "none" /\ files' = {} /\ swap' = NoVersions /\ proof' = None

\* recover_checked_with, keeping later commits
Recover ==
  /\ at = "idle" /\ place # "none"
  /\ IF place = "garbage" \/ files = {}
     THEN Discard /\ UNCHANGED <<at, index, strict>>
     ELSE /\ IF "accepted" \in files THEN Goto("move", 1) /\ UNCHANGED strict
             ELSE IF "ready" \notin files THEN Goto("mark", 1) /\ UNCHANGED strict
             ELSE Goto("rollback", 1) /\ strict' = FALSE
          /\ UNCHANGED journalVars
  /\ UNCHANGED <<public, planVars, restore, receipt, lockVars, published, writerVars, last,
                 faults>>

\* accept_receipt: the published pair is attested, then the journal retired
AcceptReceipt ==
  /\ at = "idle" /\ place = "pending" /\ published /\ Applied
  /\ Goto("mark", 1)
  /\ UNCHANGED <<public, journalVars, planVars, rollbackVars, lockVars, published,
                 writerVars, last, faults>>

-----------------------------------------------------------------------------
(* Everybody else.                                                         *)

\* A commit renames a new file over the public one; libuci waits for the lock of
\* the file it opened.  A writer is locking if that is the file it replaces; one
\* that waited for an older file's lock writes like one that takes none.
Commit(p, locking) ==
  /\ last < MaxVersion /\ last' = last + 1
  /\ locking => public[p] \notin locked
  /\ public' = [public EXCEPT ![p] = last']
  /\ replaced' = replaced \cup {public[p]}
  /\ IF locking THEN libuci' = libuci \cup {last'} /\ UNCHANGED foreign
                ELSE foreign' = foreign \cup {last'} /\ UNCHANGED libuci
  /\ UNCHANGED <<journalVars, planVars, at, index, rollbackVars, lockVars, published, faults>>

\* Journal::publish, and the batch of the pair it published
Publishing == {"open", "lock", "check", "exchange", "inspect", "prove", "applied", "batch"}

\* The command dies or fails (a busy file, an I/O error, a runtime check of its
\* caller that refuses).  A publication that fails rolls back instead, and so
\* does a start whose batch cannot be stored (PublishedConfig::rollback).
Fault ==
  /\ at # "idle" /\ faults < MaxFaults /\ faults' = faults + 1
  /\ Return \/ (at \in Publishing /\ RollBack)
  /\ UNCHANGED <<public, journalVars, planVars, published, writerVars, last>>

Commits == \E p \in Packages, locking \in BOOLEAN : Commit(p, locking)

Steps ==
  \/ MakePending \/ WriteOwner \/ WriteIntent \/ WriteSwap \/ WriteReady
  \/ PublishOpen \/ PublishLock \/ PublishCheck \/ PublishExchange \/ PublishInspect
  \/ PublishProve \/ PublishApplied \/ StoreBatch
  \/ RollbackOpen \/ Preflight \/ RestoreCheck \/ RestoreExchange \/ RestoreVerify
  \/ RestoreGiveBack \/ Restored \/ RetireMark \/ RetireMove \/ RetireClean

Next ==
  \/ Steps \/ Recover \/ AcceptReceipt
  \/ \E members \in SUBSET Packages : Begin(members)
  \/ Commits \/ Fault

Spec == Init /\ [][Next]_vars

\* A running command finishes, and the next lifecycle command (start, stop or
\* reload) begins with the recovery.
FairSpec == Spec /\ WF_vars(Steps) /\ WF_vars(Recover)

-----------------------------------------------------------------------------
(* Properties.                                                             *)

Decided == place # "pending" \/ "accepted" \in files

\* A candidate is public only while the journal can undo it: READY is durable
\* and the swap file holds what the candidate displaced, until the journal is
\* marked for retirement (Journal::prepare, publish and retire).
CandidateIsUndoable ==
  \A p \in changed :
    public[p] = after[p] /\ ~Decided => "ready" \in files /\ swap[p] \notin {None, after[p]}

\* No transaction ends half published: once it is decided, no member shows its
\* candidate while another one shows the original it should have replaced.
NeverHalfPublished ==
  Decided => \/ \A p \in changed : public[p] # before[p]
             \/ \A p \in changed : public[p] # after[p]

Kept(v) ==
  v \in {public[p] : p \in Packages} \cup replaced
    \/ (place = "pending" /\ \E p \in Packages : swap[p] = v)

\* When every writer honours the file lock, no commit is destroyed by a
\* publication, a rollback or a recovery, whatever crashes come in between: it
\* is public, was overwritten by a later commit, or is retained in the journal
\* (lock_sources, and the checks that follow it).
LockedCommitIsKept == foreign = {} => \A v \in libuci : Kept(v)

\* Without a crash a single writer that ignores the lock loses nothing either:
\* a writer that wins the gap of an exchange gets its inode back.
RacingCommitIsReturned ==
  faults = 0 /\ Cardinality(libuci \cup foreign) <= 1 => \A v \in foreign : Kept(v)

\* Every commit made during a transaction is kept.
LaterCommitIsKept == \A v \in libuci \cup foreign : Kept(v)

\* An interrupted transaction does not block the service for ever: when every
\* writer honours the file lock, a recovery ends it wherever it stopped and
\* whatever was committed since (recover_checked_with, LaterCommits::Keep).
RecoveryFinishes == place # "none" ~> (place = "none" \/ foreign # {})
=============================================================================
