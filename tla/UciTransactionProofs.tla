------------------------ MODULE UciTransactionProofs ------------------------
(***************************************************************************)
(* Theorems about UciTransaction, for any number of versions and faults:   *)
(* the type invariant, CandidateIsUndoable, NeverHalfPublished and         *)
(* LockedCommitIsKept.  What is left of the inductive step is acceptance,  *)
(* faults, the begin of a transaction and the commits of other programs.   *)
(***************************************************************************)
EXTENDS UciTransactionRecoveryProofs

USE DEF journalVars, planVars, rollbackVars, lockVars, writerVars, Goto, Packages

\* A published pair is accepted.
LEMMA AcceptReceiptKeeps ==
  ASSUME IInv, AcceptReceipt
  PROVE  IInv'
<1>1. TypeOK'
  BY DEF IInv, Places, TypeOK, AcceptReceipt
<1>2. /\ VersionsAreOld' /\ JournalOfPlace' /\ NothingBeforeReady' /\ CandidateIsOnce' /\ RestoreCovers'
      /\ OpenedIsPublic' /\ ExchangedIsLocked' /\ CommitIsInPlace'
  BY ZenonT(60) DEF IInv, AcceptReceipt, Preparing, Publishing, RollingBack, VersionsAreOld,
       JournalOfPlace, NothingBeforeReady, CandidateIsOnce, RestoreCovers, OpenedIsPublic,
       ExchangedIsLocked, CommitIsInPlace
<1>3. WholeBeforeDecision'
  BY DEF IInv, TypeOK, Applied, AcceptReceipt, VersionsAreOld, Whole, WholeBeforeDecision
<1>. QED BY <1>1, <1>2, <1>3 DEF IInv

\* A crash, a refusal or a failing call.
LEMMA FaultKeeps ==
  ASSUME IInv, Fault
  PROVE  IInv'
<1>1. TypeOK
  BY DEF IInv
<1>2. faults' \in 0 .. MaxFaults
  BY <1>1, BoundAssumption DEF Fault, TypeOK
<1>3. /\ UNCHANGED <<public, journalVars, planVars, published, writerVars, last>>
      /\ Return \/ (at \in Publishing /\ RollBack)
  BY DEF Fault
<1>4. published' \in BOOLEAN /\ proof' \in Proof \cup {None}
  BY <1>1, <1>3 DEF TypeOK, journalVars
<1>5. UNCHANGED <<public, swap, place, files, planVars, published, writerVars, last>>
  BY <1>3 DEF journalVars
<1>6. CASE Return
  BY <1>2, <1>3, <1>4, <1>6, ReturnKeeps
<1>7. CASE at \in Publishing /\ RollBack
  BY <1>2, <1>4, <1>5, <1>7, RollBackKeeps
<1>. QED BY <1>3, <1>6, <1>7

\* The versions a transaction captures and creates when it begins.
LEMMA BeginFacts ==
  ASSUME IInv, NEW members \in SUBSET Packages, Begin(members)
  PROVE  /\ last' \in Version /\ last' > last
         /\ after' \in [Packages -> Version]
         /\ \A p \in members : after'[p] > last /\ after'[p] <= last'
         /\ \A p \in Packages \ members : after'[p] = public[p]
<1>1. IsFiniteSet(members) /\ Cardinality(members) \in Nat /\ Cardinality(members) > 0
  <2>1. IsFiniteSet(Packages)
    <3>1. 1 \in Int /\ 2 \in Int
      OBVIOUS
    <3>. QED BY <3>1, FS_Interval, Zenon
  <2>2. IsFiniteSet(members)
    BY <2>1, FS_Subset
  <2>3. Cardinality(members) \in Nat
    BY <2>2, FS_CardinalityType
  <2>4. Cardinality(members) # 0
    BY <2>2, FS_EmptySet DEF Begin
  <2>. QED BY <2>2, <2>3, <2>4
<1>2. last \in Version /\ last \in Nat
  BY DEF IInv, TypeOK, Version
<1>. DEFINE new == last + Cardinality(members)
<1>3. /\ last' = new /\ new <= MaxVersion
      /\ after' = [p \in Packages |-> IF p \notin members THEN public[p]
                                      ELSE IF p = 1 THEN last + 1 ELSE new]
  BY DEF Begin
<1>4. new \in Version /\ new > last /\ last + 1 \in Version /\ last + 1 <= new
  BY <1>1, <1>2, <1>3, BoundAssumption DEF Version
<1>5. \A p \in Packages : public[p] \in Version
  BY DEF IInv, TypeOK
<1>. HIDE DEF new
<1>. QED BY <1>2, <1>3, <1>4, <1>5 DEF Version

\* A new transaction: its candidates are newer than everything public.
LEMMA BeginKeeps ==
  ASSUME IInv, NEW members \in SUBSET Packages, Begin(members)
  PROVE  IInv'
<1>1. /\ at = "idle"
      /\ before' = public
      /\ changed' = members
      /\ place' = "none"
      /\ files' = {}
      /\ swap' = NoVersions
      /\ proof' = None
      /\ published' = FALSE
      /\ libuci' = {}
      /\ foreign' = {}
      /\ replaced' = {}
      /\ Goto("mkdir", 1)
      /\ UNCHANGED <<public, rollbackVars, lockVars, faults>>
  BY DEF Begin
<1>2. /\ last' \in Version /\ last' > last
      /\ after' \in [Packages -> Version]
      /\ \A p \in members : after'[p] > last /\ after'[p] <= last'
      /\ \A p \in Packages \ members : after'[p] = public[p]
  BY BeginFacts
<1>3. TypeOK'
  <2>1. TypeOK
    BY DEF IInv
  <2>2. swap' \in [Packages -> Version \cup {None}]
    BY <1>1, <1>2 DEF NoVersions
  <2>3. at' \in Places /\ index' \in Packages
    BY <1>1, <1>2 DEF Places
  <2>4. published' \in BOOLEAN
    BY <1>1, <1>2
  <2>. QED BY <1>1, <1>2, <2>1, <2>2, <2>3, <2>4 DEF TypeOK
<1>4. JournalOfPlace'
  BY <1>1, <1>2 DEF Preparing, Publishing, RollingBack, JournalOfPlace
<1>5. CandidateIsOnce'
  BY <1>1, <1>2 DEF CandidateIsOnce
<1>6. RestoreCovers'
  BY <1>1, <1>2 DEF IInv, NoVersions, RestoreCovers
<1>7. OpenedIsPublic'
  BY <1>1, <1>2 DEF OpenedIsPublic
<1>8. ExchangedIsLocked'
  BY <1>1, <1>2 DEF NoVersions, ExchangedIsLocked
<1>9. CommitIsInPlace'
  BY <1>1, <1>2 DEF CommitIsInPlace
<1>10. VersionsAreOld'
  BY <1>1, <1>2 DEF IInv, Version, NoVersions, TypeOK, VersionsAreOld
<1>11. NothingBeforeReady'
  BY <1>1, <1>2 DEF IInv, Version, TypeOK, VersionsAreOld, NothingBeforeReady
<1>12. WholeBeforeDecision'
  BY <1>1, <1>2 DEF IInv, Version, TypeOK, VersionsAreOld, Whole, WholeBeforeDecision
<1>. QED BY <1>3, <1>4, <1>5, <1>6, <1>7, <1>8, <1>9, <1>10, <1>11, <1>12 DEF IInv

\* A commit shows neither the original nor the candidate of its member.
LEMMA CommitIsNew ==
  ASSUME IInv, NEW p \in Packages, public' = [public EXCEPT ![p] = last + 1]
  PROVE  \A q \in Packages : public'[q] = public[q] \/ public'[q] \notin {before[q], after[q]}
  BY DEF IInv, TypeOK, VersionsAreOld, Version

\* A commit that takes the lock leaves alone what the running operation locked.
LEMMA CommitKeeps ==
  ASSUME IInv, NEW p \in Packages, NEW locking \in BOOLEAN, Commit(p, locking)
  PROVE  IInv'
<1>1. CASE locking = TRUE
  <2>1. /\ last < MaxVersion
        /\ last' = last + 1
        /\ public[p] \notin locked
        /\ public' = [public EXCEPT ![p] = last + 1]
        /\ replaced' = replaced \cup {public[p]}
        /\ libuci' = libuci \cup {last + 1}
        /\ foreign' = foreign
        /\ UNCHANGED <<journalVars, planVars, at, index, rollbackVars, lockVars, published, faults>>
    BY <1>1 DEF Commit
  <2>2. \A q \in Packages : \/ public'[q] = public[q]
                            \/ public'[q] \notin {before[q], after[q]}
    BY <2>1, CommitIsNew
  <2>3. TypeOK'
    <3>1. TypeOK
      BY DEF IInv
    <3>2. last' \in Version /\ last + 1 \in Version /\ public[p] \in Version
      BY <2>1, <3>1, BoundAssumption DEF TypeOK, Version
    <3>3. public' \in [Packages -> Version] /\ replaced' \in SUBSET Version /\ libuci' \in SUBSET Version
      BY <2>1, <3>1, <3>2 DEF TypeOK
    <3>. QED BY <2>1, <3>1, <3>2, <3>3 DEF TypeOK
  <2>4. JournalOfPlace' /\ ExchangedIsLocked'
    BY SMTT(30), <2>1, <2>2 DEF IInv, JournalOfPlace, ExchangedIsLocked
  <2>5. VersionsAreOld'
    BY SMTT(30), <2>1, <2>2 DEF IInv, Version, TypeOK, VersionsAreOld
  <2>6. NothingBeforeReady'
    BY <2>1, <2>2 DEF IInv, NothingBeforeReady
  <2>7. CandidateIsOnce'
    BY <2>1, <2>2 DEF IInv, CandidateIsOnce
  <2>8. RestoreCovers'
    BY <2>1, <2>2 DEF IInv, RestoreCovers
  <2>9. WholeBeforeDecision'
    BY <2>1, <2>2 DEF IInv, Decided, Whole, WholeBeforeDecision
  <2>10. OpenedIsPublic'
    BY <2>1, <2>2 DEF IInv, OpenedIsPublic
  <2>11. CommitIsInPlace'
    BY <2>1, <2>2 DEF IInv, TypeOK, CommitIsInPlace
  <2>. QED BY <2>3, <2>4, <2>5, <2>6, <2>7, <2>8, <2>9, <2>10, <2>11 DEF IInv
<1>2. CASE locking = FALSE
  <2>1. /\ last < MaxVersion
        /\ last' = last + 1
        /\ public' = [public EXCEPT ![p] = last + 1]
        /\ replaced' = replaced \cup {public[p]}
        /\ libuci' = libuci
        /\ foreign' = foreign \cup {last + 1}
        /\ UNCHANGED <<journalVars, planVars, at, index, rollbackVars, lockVars, published, faults>>
    BY <1>2 DEF Commit
  <2>2. \A q \in Packages : \/ public'[q] = public[q]
                            \/ public'[q] \notin {before[q], after[q]}
    BY <2>1, CommitIsNew
  <2>3. TypeOK'
    <3>1. TypeOK
      BY DEF IInv
    <3>2. last' \in Version /\ last + 1 \in Version /\ public[p] \in Version
      BY <2>1, <3>1, BoundAssumption DEF TypeOK, Version
    <3>3. public' \in [Packages -> Version] /\ replaced' \in SUBSET Version /\ foreign' \in SUBSET Version
      BY <2>1, <3>1, <3>2 DEF TypeOK
    <3>. QED BY <2>1, <3>1, <3>2, <3>3 DEF TypeOK
  <2>4. JournalOfPlace' /\ ExchangedIsLocked' /\ CommitIsInPlace'
    BY <2>1, <2>2 DEF IInv, JournalOfPlace, ExchangedIsLocked, CommitIsInPlace
  <2>5. VersionsAreOld'
    BY <2>1, <2>2 DEF IInv, Version, TypeOK, VersionsAreOld
  <2>6. NothingBeforeReady'
    BY <2>1, <2>2 DEF IInv, NothingBeforeReady
  <2>7. CandidateIsOnce'
    BY <2>1, <2>2 DEF IInv, CandidateIsOnce
  <2>8. RestoreCovers'
    BY <2>1, <2>2, BoundAssumption, NoneAssumption DEF IInv, Version, Places, Names,
       Proof, NoVersions, TypeOK, RestoreCovers
  <2>9. WholeBeforeDecision'
    BY <2>1, <2>2 DEF IInv, Decided, Whole, WholeBeforeDecision
  <2>10. OpenedIsPublic'
    BY <2>1, <2>2 DEF IInv, OpenedIsPublic
  <2>. QED BY <2>3, <2>4, <2>5, <2>6, <2>7, <2>8, <2>9, <2>10 DEF IInv
<1>. QED BY <1>1, <1>2

-----------------------------------------------------------------------------
\* Nothing is journalled at first.
LEMMA InitHolds == Init => IInv
<1>. SUFFICES ASSUME Init PROVE IInv
  OBVIOUS
<1>1. /\ public \in [Packages -> Version] /\ last \in Version
      /\ swap \in [Packages -> Version \cup {None}]
  BY BoundAssumption DEF Init, Version, NoVersions
<1>2. /\ strict \in BOOLEAN /\ published \in BOOLEAN
  BY DEF Init
<1>3. TypeOK
  BY <1>1, <1>2, BoundAssumption DEF Init, TypeOK, Places
<1>4. VersionsAreOld
  BY DEF Init, VersionsAreOld, NoVersions
<1>. QED BY <1>3, <1>4 DEF Init, IInv, JournalOfPlace, NothingBeforeReady,
     CandidateIsOnce, RestoreCovers, WholeBeforeDecision, Whole, OpenedIsPublic,
     ExchangedIsLocked, CommitIsInPlace, NoVersions, Preparing, Publishing, RollingBack

\* Doing nothing keeps the invariant.
LEMMA StutterKeeps == IInv /\ UNCHANGED vars => IInv'
<1>. SUFFICES ASSUME IInv, UNCHANGED vars PROVE IInv'
  OBVIOUS
<1>1. TypeOK' /\ VersionsAreOld' /\ JournalOfPlace'
  BY DEF vars, IInv, TypeOK, VersionsAreOld, JournalOfPlace
<1>2. NothingBeforeReady' /\ CandidateIsOnce' /\ RestoreCovers' /\ WholeBeforeDecision'
  BY DEF vars, IInv, NothingBeforeReady, CandidateIsOnce, RestoreCovers,
       WholeBeforeDecision, Whole, Decided
<1>3. OpenedIsPublic' /\ ExchangedIsLocked' /\ CommitIsInPlace'
  BY ZenonT(60) DEF vars, IInv, OpenedIsPublic, ExchangedIsLocked, CommitIsInPlace
<1>. QED BY <1>1, <1>2, <1>3 DEF IInv

\* Every step of the lifecycle command in progress keeps the invariant.
LEMMA StepsKeep == IInv /\ Steps => IInv'
  BY MakePendingKeeps, WriteOwnerKeeps, WriteIntentKeeps, WriteSwapKeeps, WriteReadyKeeps,
     PublishOpenKeeps, PublishLockKeeps, PublishCheckKeeps, PublishExchangeKeeps,
     PublishInspectKeeps, PublishProveKeeps, PublishAppliedKeeps, StoreBatchKeeps,
     RollbackOpenKeeps, PreflightKeeps, RestoreCheckKeeps, RestoreExchangeKeeps,
     RestoreVerifyKeeps, RestoreGiveBackKeeps, RestoredKeeps, RetireMarkKeeps,
     RetireMoveKeeps, RetireCleanKeeps
     DEF Steps

\* The inductive invariant holds in every reachable state.
THEOREM IInvHolds == Spec => []IInv
<1>1. IInv /\ Next => IInv'
  BY StepsKeep, RecoverKeeps, AcceptReceiptKeeps, BeginKeeps, CommitKeeps, FaultKeeps
     DEF Next, Commits
<1>2. IInv /\ [Next]_vars => IInv'
  BY <1>1, StutterKeeps
<1>. QED BY InitHolds, <1>2, PTL DEF Spec

\* Files, journal, plan and rollback always have their types.
THEOREM TypeCorrect == Spec => []TypeOK
<1>1. IInv => TypeOK
  BY DEF IInv
<1>. QED BY IInvHolds, <1>1, PTL

\* Whatever crashes and other writers do, a candidate is public only while the
\* journal can undo it, until the journal is marked for retirement.
THEOREM CandidateUndoable == Spec => []CandidateIsUndoable
<1>1. IInv => CandidateIsUndoable
  BY DEF IInv, NothingBeforeReady, CandidateIsOnce, CandidateIsUndoable, Decided
<1>. QED BY IInvHolds, <1>1, PTL

\* No transaction ends half published, after any number of crashes, retries and
\* commits of other programs.
THEOREM NeverHalf == Spec => []NeverHalfPublished
<1>1. IInv => NeverHalfPublished
  BY DEF IInv, WholeBeforeDecision, Whole, NeverHalfPublished
<1>. QED BY IInvHolds, <1>1, PTL

\* When every writer honours the file lock, no commit is destroyed.
THEOREM LockedCommitKept == Spec => []LockedCommitIsKept
<1>1. IInv => LockedCommitIsKept
  BY DEF IInv, CommitIsInPlace, LockedCommitIsKept, Kept
<1>. QED BY IInvHolds, <1>1, PTL
=============================================================================
