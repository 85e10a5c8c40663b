-------------------- MODULE UciTransactionRecoveryProofs --------------------
(***************************************************************************)
(* Rollback, recovery and retirement of the journal of UciTransaction keep *)
(* the invariant.                                                          *)
(***************************************************************************)
EXTENDS UciTransactionPublishProofs

USE DEF journalVars, planVars, rollbackVars, lockVars, writerVars, Goto, Packages

\* A rollback opens the public files.
LEMMA RollbackOpenKeeps ==
  ASSUME IInv, RollbackOpen
  PROVE  IInv'
<1>1. CASE strict \/ ViewsKnown
  <2>1. /\ at = "rollback"
        /\ OpenSources
        /\ Goto("preflight", 1)
        /\ UNCHANGED rollbackVars
        /\ UNCHANGED <<public, journalVars, planVars, published, writerVars, last, faults>>
    BY <1>1 DEF RollbackOpen
  <2>2. TypeOK'
    BY <2>1 DEF IInv, Places, TypeOK, OpenSources
  <2>3. /\ VersionsAreOld' /\ JournalOfPlace' /\ NothingBeforeReady' /\ CandidateIsOnce' /\ RestoreCovers'
        /\ WholeBeforeDecision' /\ ExchangedIsLocked' /\ CommitIsInPlace'
    BY <2>1 DEF IInv, Decided, Preparing, RollingBack, VersionsAreOld, JournalOfPlace,
         NothingBeforeReady, CandidateIsOnce, RestoreCovers, WholeBeforeDecision,
         ExchangedIsLocked, CommitIsInPlace
  <2>4. OpenedIsPublic'
    BY <2>1 DEF IInv, TypeOK, OpenSources, OpenedIsPublic
  <2>. QED BY <2>2, <2>3, <2>4 DEF IInv
<1>2. CASE ~(strict \/ ViewsKnown)
  BY <1>2, ReturnKeeps DEF RollbackOpen, IInv, TypeOK
<1>. QED BY <1>1, <1>2

\* The preflight chooses every member that shows its candidate.
LEMMA PreflightKeeps ==
  ASSUME IInv, Preflight
  PROVE  IInv'
<1>1. CASE at' = "restore"
  <2>1. /\ at = "preflight"
        /\ (StrictPreflight \/ KeepPreflight)
        /\ LockSources
        /\ Goto("restore", 2)
        /\ restore' = [p \in Packages |-> IF p \in changed /\ public[p] = after[p] THEN swap[p] ELSE None]
        /\ receipt' = [p \in Packages |-> IF restore'[p] # None THEN restore'[p] ELSE public[p]]
        /\ UNCHANGED strict
        /\ UNCHANGED <<public, journalVars, planVars, published, writerVars, last, faults>>
    BY <1>1 DEF Preflight, Return
  <2>2. TypeOK'
    <3>0. OpenedIsPublic
      BY DEF IInv
    <3>1. TypeOK
      BY DEF IInv
    <3>2. restore' \in [Packages -> Version \cup {None}]
      BY <2>1, <3>1 DEF TypeOK
    <3>3. receipt' \in [Packages -> Version \cup {None}]
      BY <2>1, <3>1, <3>2 DEF TypeOK
    <3>4. locked' \in SUBSET Version
      BY <2>1, <3>1, <3>0 DEF LockSources, OpenedIsPublic
    <3>5. at' \in Places /\ index' \in Packages /\ opened' \in [Packages -> Version \cup {None}]
      BY <2>1 DEF LockSources, NoVersions, Places
    <3>. QED BY <2>1, <3>1, <3>2, <3>3, <3>4, <3>5 DEF TypeOK
  <2>3. /\ VersionsAreOld' /\ JournalOfPlace' /\ NothingBeforeReady' /\ CandidateIsOnce'
        /\ WholeBeforeDecision' /\ OpenedIsPublic' /\ CommitIsInPlace'
    BY <2>1 DEF IInv, Decided, Preparing, RollingBack, VersionsAreOld, JournalOfPlace,
         NothingBeforeReady, CandidateIsOnce, WholeBeforeDecision, OpenedIsPublic,
         CommitIsInPlace
  <2>4. RestoreCovers'
    BY <2>1 DEF IInv, TypeOK, RollingBack, JournalOfPlace, CandidateIsOnce, RestoreCovers
  <2>5. ExchangedIsLocked'
    BY <2>1 DEF IInv, Names, LockSources, OpenedIsPublic, ExchangedIsLocked
  <2>. QED BY <2>2, <2>3, <2>4, <2>5 DEF IInv
<1>2. CASE at' # "restore"
  BY <1>2, ReturnKeeps DEF Preflight, IInv, TypeOK
<1>. QED BY <1>1, <1>2 DEF Preflight

\* The check before a member is restored.
LEMMA RestoreCheckKeeps ==
  ASSUME IInv, RestoreCheck
  PROVE  IInv'
<1>1. CASE restore[index] = None
  <2>1. /\ at = "restore"
        /\ restore[index] = None
        /\ AfterRestore(index)
        /\ UNCHANGED <<rollbackVars, lockVars>>
        /\ UNCHANGED <<public, journalVars, planVars, published, writerVars, last, faults>>
    BY <1>1 DEF RestoreCheck
  <2>2. TypeOK'
    BY <2>1 DEF IInv, Places, TypeOK, AfterRestore
  <2>3. /\ VersionsAreOld' /\ JournalOfPlace' /\ NothingBeforeReady' /\ CandidateIsOnce'
        /\ WholeBeforeDecision' /\ OpenedIsPublic' /\ ExchangedIsLocked' /\ CommitIsInPlace'
    BY <2>1 DEF IInv, AfterRestore, Decided, Preparing, RollingBack, VersionsAreOld,
         JournalOfPlace, NothingBeforeReady, CandidateIsOnce, WholeBeforeDecision,
         OpenedIsPublic, ExchangedIsLocked, CommitIsInPlace
  <2>4. RestoreCovers'
    BY <2>1 DEF IInv, TypeOK, AfterRestore, RestoreCovers
  <2>. QED BY <2>2, <2>3, <2>4 DEF IInv
<1>2. CASE restore[index] # None /\ public[index] = after[index] /\ swap[index] = restore[index]
  <2>1. TypeOK'
    BY <1>2, BoundAssumption, NoneAssumption DEF IInv, Version, Places, Names, Proof,
       NoVersions, TypeOK, Unlock, Return, AfterRestore, RestoreCheck
  <2>2. /\ VersionsAreOld' /\ JournalOfPlace' /\ NothingBeforeReady' /\ CandidateIsOnce' /\ RestoreCovers'
        /\ WholeBeforeDecision' /\ OpenedIsPublic' /\ ExchangedIsLocked' /\ CommitIsInPlace'
    BY SMTT(30), <1>2 DEF IInv, RestoreCheck, Decided, Preparing, RollingBack, VersionsAreOld,
         JournalOfPlace, NothingBeforeReady, CandidateIsOnce, RestoreCovers,
         WholeBeforeDecision, OpenedIsPublic, ExchangedIsLocked, CommitIsInPlace
  <2>. QED BY <2>1, <2>2 DEF IInv
<1>3. CASE restore[index] # None /\ ~(public[index] = after[index] /\ swap[index] = restore[index])
  BY <1>3, ReturnKeeps DEF RestoreCheck, IInv, TypeOK
<1>. QED BY <1>1, <1>2, <1>3 DEF RestoreCheck

\* The original becomes public again.
LEMMA RestoreExchangeKeeps ==
  ASSUME IInv, RestoreExchange
  PROVE  IInv'
<1>1. TypeOK'
  BY DEF IInv, Places, TypeOK, Exchange, RestoreExchange
<1>2. VersionsAreOld' /\ JournalOfPlace' /\ OpenedIsPublic'
  BY DEF IInv, Exchange, RestoreExchange, Preparing, RollingBack, VersionsAreOld,
       JournalOfPlace, OpenedIsPublic
<1>3. NothingBeforeReady'
  BY DEF IInv, RestoreExchange, RollingBack, JournalOfPlace, NothingBeforeReady
<1>4. CandidateIsOnce'
  BY NoneAssumption DEF IInv, Version, TypeOK, Exchange, RestoreExchange, CandidateIsOnce
<1>5. RestoreCovers'
  BY DEF IInv, TypeOK, Exchange, RestoreExchange, RestoreCovers
<1>6. WholeBeforeDecision'
  BY DEF IInv, RestoreExchange, Decided, RollingBack, JournalOfPlace, WholeBeforeDecision
<1>7. ExchangedIsLocked'
  BY DEF IInv, TypeOK, Exchange, RestoreExchange, RestoreCovers, ExchangedIsLocked
<1>8. CommitIsInPlace'
  BY DEF IInv, Exchange, RestoreExchange, VersionsAreOld, RestoreCovers,
       ExchangedIsLocked, CommitIsInPlace
<1>. QED BY <1>1, <1>2, <1>3, <1>4, <1>5, <1>6, <1>7, <1>8 DEF IInv

\* The restored member is verified.
LEMMA RestoreVerifyKeeps ==
  ASSUME IInv, RestoreVerify
  PROVE  IInv'
<1>1. CASE public[index] = restore[index] /\ swap[index] = after[index]
  <2>1. /\ at = "verify"
        /\ swap[index] = after[index]
        /\ public[index] = restore[index]
        /\ AfterRestore(index)
        /\ UNCHANGED <<rollbackVars, lockVars>>
        /\ UNCHANGED <<public, journalVars, planVars, published, writerVars, last, faults>>
    BY <1>1 DEF RestoreVerify
  <2>2. TypeOK'
    BY <2>1 DEF IInv, Places, TypeOK, AfterRestore
  <2>3. /\ VersionsAreOld' /\ JournalOfPlace' /\ NothingBeforeReady' /\ CandidateIsOnce'
        /\ WholeBeforeDecision' /\ OpenedIsPublic' /\ ExchangedIsLocked' /\ CommitIsInPlace'
    BY <2>1 DEF IInv, AfterRestore, Decided, Preparing, RollingBack, VersionsAreOld,
         JournalOfPlace, NothingBeforeReady, CandidateIsOnce, WholeBeforeDecision,
         OpenedIsPublic, ExchangedIsLocked, CommitIsInPlace
  <2>4. RestoreCovers'
    BY <2>1 DEF IInv, TypeOK, AfterRestore, RestoreCovers
  <2>. QED BY <2>2, <2>3, <2>4 DEF IInv
<1>2. CASE public[index] = restore[index] /\ swap[index] # after[index]
  <2>1. TypeOK'
    BY <1>2, BoundAssumption, NoneAssumption DEF IInv, Version, Places, Names, Proof,
       NoVersions, TypeOK, Unlock, Return, AfterRestore, RestoreVerify
  <2>2. /\ VersionsAreOld' /\ JournalOfPlace' /\ NothingBeforeReady' /\ CandidateIsOnce' /\ RestoreCovers'
        /\ WholeBeforeDecision' /\ OpenedIsPublic' /\ ExchangedIsLocked' /\ CommitIsInPlace'
    BY <1>2 DEF IInv, RestoreVerify, Decided, Preparing, RollingBack, VersionsAreOld,
         JournalOfPlace, NothingBeforeReady, CandidateIsOnce, RestoreCovers,
         WholeBeforeDecision, OpenedIsPublic, ExchangedIsLocked, CommitIsInPlace
  <2>. QED BY <2>1, <2>2 DEF IInv
<1>3. CASE public[index] # restore[index]
  BY <1>3, ReturnKeeps DEF RestoreVerify, IInv, TypeOK
<1>. QED BY <1>1, <1>2, <1>3 DEF RestoreVerify

\* A writer's inode goes back; with locks this never happens.
LEMMA RestoreGiveBackKeeps ==
  ASSUME IInv, RestoreGiveBack
  PROVE  IInv'
<1>1. TypeOK'
  BY DEF IInv, Places, NoVersions, TypeOK, Unlock, Return, Exchange, RestoreGiveBack
<1>2. /\ VersionsAreOld' /\ JournalOfPlace' /\ RestoreCovers' /\ OpenedIsPublic'
      /\ ExchangedIsLocked'
  <2>1. VersionsAreOld'
    BY DEF IInv, TypeOK, Exchange, RestoreGiveBack, VersionsAreOld
  <2>2. JournalOfPlace'
    BY DEF IInv, NoVersions, Return, RestoreGiveBack, Preparing, RollingBack, JournalOfPlace
  <2>3. RestoreCovers' /\ OpenedIsPublic'
    BY DEF IInv, NoVersions, Return, Unlock, RestoreGiveBack, RestoreCovers, OpenedIsPublic
  <2>4. ExchangedIsLocked'
    BY DEF IInv, Return, RestoreGiveBack, ExchangedIsLocked
  <2>. QED BY <2>1, <2>2, <2>3, <2>4
<1>3. NothingBeforeReady'
  BY DEF IInv, Return, RestoreGiveBack, RollingBack, JournalOfPlace, NothingBeforeReady
<1>4. CandidateIsOnce'
  BY NoneAssumption DEF IInv, Version, TypeOK, Exchange, RestoreGiveBack, CandidateIsOnce
<1>5. WholeBeforeDecision'
  BY DEF IInv, Return, RestoreGiveBack, Decided, RollingBack, JournalOfPlace,
       WholeBeforeDecision
<1>6. CommitIsInPlace'
  BY DEF IInv, RestoreGiveBack, ExchangedIsLocked, CommitIsInPlace
<1>. QED BY <1>1, <1>2, <1>3, <1>4, <1>5, <1>6 DEF IInv

\* A complete rollback goes on to retire the journal.
LEMMA RestoredKeeps ==
  ASSUME IInv, Restored
  PROVE  IInv'
<1>1. CASE strict \/ public = receipt
  <2>1. /\ at = "restored"
        /\ Goto("mark", 1)
        /\ UNCHANGED <<rollbackVars, lockVars>>
        /\ UNCHANGED <<public, journalVars, planVars, published, writerVars, last, faults>>
    BY <1>1 DEF Restored
  <2>2. TypeOK'
    BY <2>1 DEF IInv, Places, TypeOK
  <2>3. /\ VersionsAreOld' /\ JournalOfPlace' /\ NothingBeforeReady' /\ CandidateIsOnce' /\ RestoreCovers'
        /\ OpenedIsPublic' /\ ExchangedIsLocked' /\ CommitIsInPlace'
    BY <2>1 DEF IInv, Preparing, RollingBack, VersionsAreOld, JournalOfPlace,
         NothingBeforeReady, CandidateIsOnce, RestoreCovers, OpenedIsPublic,
         ExchangedIsLocked, CommitIsInPlace
  <2>4. WholeBeforeDecision'
    BY <2>1 DEF IInv, RestoreCovers, Whole, WholeBeforeDecision
  <2>. QED BY <2>2, <2>3, <2>4 DEF IInv
<1>2. CASE ~(strict \/ public = receipt)
  BY <1>2, ReturnKeeps DEF Restored, IInv, TypeOK
<1>. QED BY <1>1, <1>2

\* The journal is marked.
LEMMA RetireMarkKeeps ==
  ASSUME IInv, RetireMark
  PROVE  IInv'
<1>1. TypeOK'
  BY DEF IInv, Places, Names, TypeOK, RetireMark
<1>2. /\ VersionsAreOld' /\ JournalOfPlace' /\ NothingBeforeReady' /\ CandidateIsOnce' /\ RestoreCovers'
      /\ WholeBeforeDecision' /\ OpenedIsPublic' /\ ExchangedIsLocked' /\ CommitIsInPlace'
  BY DEF IInv, Version, RetireMark, Preparing, Publishing, RollingBack, VersionsAreOld,
       JournalOfPlace, NothingBeforeReady, CandidateIsOnce, RestoreCovers, Whole,
       WholeBeforeDecision, OpenedIsPublic, ExchangedIsLocked, CommitIsInPlace
<1>. QED BY <1>1, <1>2 DEF IInv

\* It is moved aside.
LEMMA RetireMoveKeeps ==
  ASSUME IInv, RetireMove
  PROVE  IInv'
<1>1. TypeOK'
  BY DEF IInv, Places, TypeOK, RetireMove
<1>2. /\ VersionsAreOld' /\ JournalOfPlace' /\ NothingBeforeReady' /\ CandidateIsOnce' /\ RestoreCovers'
      /\ OpenedIsPublic' /\ ExchangedIsLocked' /\ CommitIsInPlace'
  BY DEF IInv, RetireMove, Preparing, Publishing, RollingBack, VersionsAreOld,
       JournalOfPlace, NothingBeforeReady, CandidateIsOnce, RestoreCovers, OpenedIsPublic,
       ExchangedIsLocked, CommitIsInPlace
<1>3. WholeBeforeDecision'
  BY DEF IInv, RetireMove, Decided, JournalOfPlace, Whole, WholeBeforeDecision
<1>. QED BY <1>1, <1>2, <1>3 DEF IInv

\* It is deleted.
LEMMA RetireCleanKeeps ==
  ASSUME IInv, RetireClean
  PROVE  IInv'
<1>1. TypeOK'
  BY DEF IInv, Places, NoVersions, TypeOK, Unlock, Return, RetireClean
<1>2. /\ VersionsAreOld' /\ JournalOfPlace' /\ NothingBeforeReady' /\ CandidateIsOnce' /\ RestoreCovers'
      /\ OpenedIsPublic' /\ ExchangedIsLocked' /\ CommitIsInPlace'
  BY DEF IInv, NoVersions, Return, RetireClean, Preparing, Publishing, RollingBack,
       VersionsAreOld, JournalOfPlace, NothingBeforeReady, CandidateIsOnce, RestoreCovers,
       OpenedIsPublic, ExchangedIsLocked, CommitIsInPlace
<1>3. WholeBeforeDecision'
  BY DEF IInv, RetireClean, Decided, JournalOfPlace, Whole, WholeBeforeDecision
<1>. QED BY <1>1, <1>2, <1>3 DEF IInv

\* A lifecycle command finds a journal.
LEMMA RecoverKeeps ==
  ASSUME IInv, Recover
  PROVE  IInv'
<1>1. CASE place = "garbage" \/ files = {}
  <2>1. TypeOK'
    BY <1>1 DEF IInv, NoVersions, TypeOK, Discard, Recover
  <2>2. /\ VersionsAreOld' /\ JournalOfPlace' /\ NothingBeforeReady' /\ CandidateIsOnce' /\ RestoreCovers'
        /\ OpenedIsPublic' /\ ExchangedIsLocked' /\ CommitIsInPlace'
    <3>1. VersionsAreOld' /\ CandidateIsOnce'
      BY <1>1 DEF IInv, NoVersions, Discard, Recover, VersionsAreOld, CandidateIsOnce
    <3>2. JournalOfPlace'
      BY <1>1 DEF IInv, NoVersions, Discard, Recover, Preparing, RollingBack, JournalOfPlace
    <3>3. NothingBeforeReady' /\ RestoreCovers' /\ OpenedIsPublic'
      BY <1>1 DEF IInv, Discard, Recover, NothingBeforeReady, RestoreCovers, OpenedIsPublic
    <3>4. ExchangedIsLocked' /\ CommitIsInPlace'
      BY <1>1 DEF IInv, NoVersions, Discard, Recover, ExchangedIsLocked, CommitIsInPlace
    <3>. QED BY <3>1, <3>2, <3>3, <3>4
  <2>3. WholeBeforeDecision'
    BY <1>1 DEF IInv, Recover, Decided, NothingBeforeReady, Whole, WholeBeforeDecision
  <2>. QED BY <2>1, <2>2, <2>3 DEF IInv
<1>2. CASE place = "pending" /\ files # {} /\ "accepted" \in files
  <2>1. /\ at = "idle"
        /\ place = "pending"
        /\ "accepted" \in files
        /\ Goto("move", 1)
        /\ UNCHANGED strict
        /\ UNCHANGED <<restore, receipt, lockVars>>
        /\ UNCHANGED <<public, journalVars, planVars, published, writerVars, last, faults>>
    BY <1>2 DEF Recover
  <2>2. TypeOK'
    BY <2>1 DEF IInv, Places, TypeOK
  <2>3. /\ VersionsAreOld' /\ JournalOfPlace' /\ NothingBeforeReady' /\ CandidateIsOnce' /\ RestoreCovers'
        /\ WholeBeforeDecision' /\ OpenedIsPublic' /\ ExchangedIsLocked' /\ CommitIsInPlace'
    BY <2>1 DEF IInv, Decided, Preparing, Publishing, RollingBack, VersionsAreOld,
         JournalOfPlace, NothingBeforeReady, CandidateIsOnce, RestoreCovers, Whole,
         WholeBeforeDecision, OpenedIsPublic, ExchangedIsLocked, CommitIsInPlace
  <2>. QED BY <2>2, <2>3 DEF IInv
<1>3. CASE place = "pending" /\ files # {} /\ "accepted" \notin files /\ "ready" \notin files
  <2>1. /\ at = "idle"
        /\ place = "pending"
        /\ "accepted" \notin files
        /\ "ready" \notin files
        /\ Goto("mark", 1)
        /\ UNCHANGED strict
        /\ UNCHANGED <<restore, receipt, lockVars>>
        /\ UNCHANGED <<public, journalVars, planVars, published, writerVars, last, faults>>
    BY <1>3 DEF Recover
  <2>2. TypeOK'
    BY <2>1 DEF IInv, Places, TypeOK
  <2>3. /\ VersionsAreOld' /\ JournalOfPlace' /\ NothingBeforeReady' /\ CandidateIsOnce' /\ RestoreCovers'
        /\ OpenedIsPublic' /\ ExchangedIsLocked' /\ CommitIsInPlace'
    BY ZenonT(60), <2>1 DEF IInv, Publishing, RollingBack, VersionsAreOld, JournalOfPlace,
         NothingBeforeReady, CandidateIsOnce, RestoreCovers, OpenedIsPublic,
         ExchangedIsLocked, CommitIsInPlace
  <2>4. WholeBeforeDecision'
    BY <2>1 DEF IInv, NothingBeforeReady, Whole, WholeBeforeDecision
  <2>. QED BY <2>2, <2>3, <2>4 DEF IInv
<1>4. CASE place = "pending" /\ files # {} /\ "accepted" \notin files /\ "ready" \in files
  <2>1. /\ at = "idle"
        /\ place = "pending"
        /\ "ready" \in files
        /\ "accepted" \notin files
        /\ Goto("rollback", 1)
        /\ strict' = FALSE
        /\ UNCHANGED <<restore, receipt, lockVars>>
        /\ UNCHANGED <<public, journalVars, planVars, published, writerVars, last, faults>>
    BY <1>4 DEF Recover
  <2>2. TypeOK'
    <3>1. TypeOK
      BY DEF IInv
    <3>2. strict' \in BOOLEAN
      BY <2>1
    <3>3. at' \in Places /\ index' \in Packages
      BY <2>1 DEF Places
    <3>. QED BY <2>1, <3>1, <3>2, <3>3 DEF TypeOK
  <2>3. /\ VersionsAreOld' /\ JournalOfPlace' /\ NothingBeforeReady' /\ CandidateIsOnce' /\ RestoreCovers'
        /\ WholeBeforeDecision' /\ OpenedIsPublic' /\ ExchangedIsLocked' /\ CommitIsInPlace'
    BY <2>1 DEF IInv, Decided, Preparing, VersionsAreOld, JournalOfPlace,
         NothingBeforeReady, CandidateIsOnce, RestoreCovers, WholeBeforeDecision,
         OpenedIsPublic, ExchangedIsLocked, CommitIsInPlace
  <2>. QED BY <2>2, <2>3 DEF IInv
<1>. QED BY <1>1, <1>2, <1>3, <1>4 DEF Recover, IInv, TypeOK
=============================================================================
