-------------------- MODULE UciTransactionPublishProofs ---------------------
(***************************************************************************)
(* The inductive invariant of UciTransaction, and that preparation and     *)
(* publication keep it.                                                    *)
(*                                                                         *)
(* The public files and the journal never change in one step, and other    *)
(* programs write in between.  The invariant IInv therefore follows the    *)
(* three versions that matter for a member, its original, its candidate    *)
(* and what is public: a commit is always a new version, so that the       *)
(* original and the candidate only ever become public by an exchange.      *)
(***************************************************************************)
EXTENDS UciTransaction, FiniteSetTheorems, TLAPS

Preparing == {"owner", "intent", "swap", "ready"}
RollingBack == {"rollback", "preflight", "restore", "putBack", "verify", "giveBack", "restored"}

\* No version is newer than the newest, a candidate is a new version, and so is
\* every commit made since.
VersionsAreOld ==
  /\ \A p \in Packages :
       /\ public[p] <= last /\ before[p] <= last /\ after[p] <= last
       /\ swap[p] # None => swap[p] <= last
       /\ p \in changed => before[p] # after[p]
  /\ \A v \in libuci : v <= last /\ \A p \in Packages : v \notin {before[p], after[p]}

\* What is in the journal directory at each place of the code.
JournalOfPlace ==
  /\ at = "mkdir" => place = "none" /\ files = {}
  /\ at \in Preparing => place = "pending" /\ files \cap {"ready", "accepted"} = {}
  /\ at \in Publishing \cup RollingBack
       => place = "pending" /\ "ready" \in files /\ "accepted" \notin files
  /\ at = "mark" => place = "pending"
  /\ at = "move" => place = "pending" /\ "accepted" \in files
  /\ at = "clean" => place = "garbage"
  /\ at \in {"inspect", "prove"} => swap[index] # None

\* Before READY no candidate is public.
NothingBeforeReady ==
  at = "mkdir" \/ (place = "pending" /\ "ready" \notin files)
    => \A p \in changed : public[p] # after[p]

\* A public candidate has left its swap file, which holds what it displaced.
CandidateIsOnce ==
  place = "pending" =>
    \A p \in changed : public[p] = after[p] => swap[p] \notin {None, after[p]}

\* The members that show their candidate are those the rollback has yet to
\* restore.
RestoreCovers ==
  /\ \A p \in Packages : restore[p] # None => p \in changed /\ restore[p] # after[p]
  /\ at = "idle" => restore = NoVersions
  /\ at \in {"restore", "putBack"} =>
       \A p \in changed : public[p] = after[p] => restore[p] # None /\ p <= index
  /\ at = "putBack" => swap[index] = restore[index] /\ restore[index] # None
  /\ at \in {"verify", "giveBack"} =>
       \A p \in changed : public[p] = after[p] => restore[p] # None /\ p < index
  /\ at = "restored" => \A p \in changed : public[p] # after[p]

\* A transaction about to be decided is whole.
Whole ==
  \/ \A p \in changed : public[p] # before[p]
  \/ \A p \in changed : public[p] # after[p]
WholeBeforeDecision == at = "mark" \/ Decided => Whole

\* A file that is opened and still public is the one that gets locked.
OpenedIsPublic ==
  /\ at = "preflight" => opened \in [Packages -> Version]
  /\ at = "lock" => \A p \in Packages : public[p] = before[p] => opened[p] = before[p]
  /\ at = "preflight" => \A p \in Packages : public[p] = after[p] => opened[p] = after[p]

\* When every writer honours the lock, a file that is about to be exchanged is
\* the original or the candidate, and locked.
ExchangedIsLocked ==
  foreign = {} =>
    /\ \A p \in Packages : swap[p] \in {None, before[p], after[p]}
    /\ at \in {"check", "exchange"} =>
         \A p \in Packages : p >= index => public[p] = before[p] /\ before[p] \in locked
    /\ at = "inspect" =>
         \A p \in Packages : p > index => public[p] = before[p] /\ before[p] \in locked
    /\ at \in {"restore", "putBack"} =>
         \A p \in Packages : p <= index /\ restore[p] # None
                               => public[p] = after[p] /\ after[p] \in locked
    /\ at = "verify" => swap[index] = after[index]
    /\ at = "verify" =>
         \A p \in Packages : p < index /\ restore[p] # None
                               => public[p] = after[p] /\ after[p] \in locked
    /\ at # "giveBack"

\* Then every commit is public or was overwritten by another commit.
CommitIsInPlace == foreign = {} => libuci \subseteq replaced \cup {public[p] : p \in Packages}

IInv ==
  /\ TypeOK /\ VersionsAreOld /\ JournalOfPlace /\ NothingBeforeReady /\ CandidateIsOnce
  /\ RestoreCovers /\ WholeBeforeDecision /\ OpenedIsPublic /\ ExchangedIsLocked
  /\ CommitIsInPlace

-----------------------------------------------------------------------------
USE DEF journalVars, planVars, rollbackVars, lockVars, writerVars, Goto, Packages

\* An operation that returns and leaves the files alone keeps the invariant.
LEMMA ReturnKeeps ==
  ASSUME IInv, Return,
         UNCHANGED <<public, journalVars, planVars, writerVars, last>>,
         published' \in BOOLEAN, faults' \in 0 .. MaxFaults
  PROVE  IInv'
<1>1. TypeOK'
  BY DEF IInv, Places, NoVersions, TypeOK, Unlock, Return
<1>2. /\ VersionsAreOld' /\ JournalOfPlace' /\ NothingBeforeReady' /\ CandidateIsOnce' /\ RestoreCovers'
      /\ WholeBeforeDecision' /\ OpenedIsPublic' /\ ExchangedIsLocked' /\ CommitIsInPlace'
  BY DEF IInv, NoVersions, Return, Decided, Preparing, Publishing, RollingBack,
       VersionsAreOld, JournalOfPlace, NothingBeforeReady, CandidateIsOnce, RestoreCovers,
       Whole, WholeBeforeDecision, OpenedIsPublic, ExchangedIsLocked, CommitIsInPlace
<1>. QED BY <1>1, <1>2 DEF IInv

\* So does a publication that turns to its rollback.
LEMMA RollBackKeeps ==
  ASSUME IInv, RollBack, at \in Publishing,
         UNCHANGED <<public, swap, place, files, planVars, published, writerVars, last>>,
         proof' \in Proof \cup {None}, faults' \in 0 .. MaxFaults
  PROVE  IInv'
<1>1. TypeOK'
  BY DEF IInv, Places, NoVersions, TypeOK, Unlock, RollBack
<1>2. /\ VersionsAreOld' /\ JournalOfPlace' /\ NothingBeforeReady' /\ CandidateIsOnce' /\ RestoreCovers'
      /\ WholeBeforeDecision' /\ OpenedIsPublic' /\ ExchangedIsLocked' /\ CommitIsInPlace'
  BY DEF IInv, RollBack, Decided, Preparing, VersionsAreOld, JournalOfPlace,
       NothingBeforeReady, CandidateIsOnce, RestoreCovers, WholeBeforeDecision,
       OpenedIsPublic, ExchangedIsLocked, CommitIsInPlace
<1>. QED BY <1>1, <1>2 DEF IInv

\* The journal directory is made after the sources were attested.
LEMMA MakePendingKeeps ==
  ASSUME IInv, MakePending
  PROVE  IInv'
<1>1. CASE SourcesUnchanged
  <2>1. /\ at = "mkdir"
        /\ place' = "pending"
        /\ UNCHANGED <<swap, files, proof>>
        /\ Goto("owner", 1)
        /\ UNCHANGED <<rollbackVars, lockVars>>
        /\ UNCHANGED <<public, planVars, published, writerVars, last, faults>>
    BY <1>1 DEF MakePending, Prepared
  <2>2. TypeOK'
    BY <2>1 DEF IInv, Places, TypeOK
  <2>3. /\ VersionsAreOld' /\ JournalOfPlace' /\ NothingBeforeReady' /\ RestoreCovers'
        /\ WholeBeforeDecision' /\ OpenedIsPublic' /\ ExchangedIsLocked' /\ CommitIsInPlace'
    BY <2>1 DEF IInv, Publishing, RollingBack, VersionsAreOld, JournalOfPlace,
         NothingBeforeReady, RestoreCovers, Whole, WholeBeforeDecision, OpenedIsPublic,
         ExchangedIsLocked, CommitIsInPlace
  <2>4. CandidateIsOnce'
    BY <2>1 DEF IInv, NothingBeforeReady, CandidateIsOnce
  <2>. QED BY <2>2, <2>3, <2>4 DEF IInv
<1>2. CASE ~SourcesUnchanged
  BY <1>2, ReturnKeeps DEF MakePending, Prepared, IInv, TypeOK
<1>. QED BY <1>1, <1>2

\* The owner file is written.
LEMMA WriteOwnerKeeps ==
  ASSUME IInv, WriteOwner
  PROVE  IInv'
<1>1. TypeOK'
  BY DEF IInv, Places, Names, TypeOK, WriteFile, WriteOwner
<1>2. /\ VersionsAreOld' /\ JournalOfPlace' /\ NothingBeforeReady' /\ CandidateIsOnce' /\ RestoreCovers'
      /\ WholeBeforeDecision' /\ OpenedIsPublic' /\ ExchangedIsLocked' /\ CommitIsInPlace'
  BY DEF IInv, WriteFile, WriteOwner, Preparing, Publishing, RollingBack, VersionsAreOld,
       JournalOfPlace, NothingBeforeReady, CandidateIsOnce, RestoreCovers, Whole,
       WholeBeforeDecision, OpenedIsPublic, ExchangedIsLocked, CommitIsInPlace
<1>. QED BY <1>1, <1>2 DEF IInv

\* The intent is written.
LEMMA WriteIntentKeeps ==
  ASSUME IInv, WriteIntent
  PROVE  IInv'
<1>1. TypeOK'
  BY DEF IInv, Places, Names, TypeOK, WriteFile, WriteIntent
<1>2. /\ VersionsAreOld' /\ JournalOfPlace' /\ NothingBeforeReady' /\ CandidateIsOnce' /\ RestoreCovers'
      /\ WholeBeforeDecision' /\ OpenedIsPublic' /\ ExchangedIsLocked' /\ CommitIsInPlace'
  BY DEF IInv, WriteFile, WriteIntent, Preparing, Publishing, RollingBack, VersionsAreOld,
       JournalOfPlace, NothingBeforeReady, CandidateIsOnce, RestoreCovers, Whole,
       WholeBeforeDecision, OpenedIsPublic, ExchangedIsLocked, CommitIsInPlace
<1>. QED BY <1>1, <1>2 DEF IInv

\* A swap file gets a candidate no public name shows.
LEMMA WriteSwapKeeps ==
  ASSUME IInv, WriteSwap
  PROVE  IInv'
<1>1. CASE index \in changed /\ SourcesUnchanged
  <2>1. /\ at = "swap"
        /\ index \in changed
        /\ SourcesUnchanged
        /\ swap' = [swap EXCEPT ![index] = after[index]]
        /\ UNCHANGED <<place, files, proof>>
        /\ Goto(IF index = 1 THEN "swap" ELSE "ready", 3 - index)
        /\ UNCHANGED <<rollbackVars, lockVars>>
        /\ UNCHANGED <<public, planVars, published, writerVars, last, faults>>
    BY <1>1 DEF WriteSwap, Prepared
  <2>2. TypeOK'
    BY <2>1 DEF IInv, Places, TypeOK
  <2>3. /\ VersionsAreOld' /\ JournalOfPlace' /\ NothingBeforeReady' /\ RestoreCovers'
        /\ WholeBeforeDecision' /\ OpenedIsPublic' /\ ExchangedIsLocked' /\ CommitIsInPlace'
    BY <2>1, BoundAssumption, NoneAssumption DEF IInv, Version, NoVersions,
       SourcesUnchanged, Decided, Preparing, Publishing, RollingBack, VersionsAreOld,
       JournalOfPlace, NothingBeforeReady, RestoreCovers, Whole, WholeBeforeDecision,
       OpenedIsPublic, ExchangedIsLocked, CommitIsInPlace
  <2>4. CandidateIsOnce'
    BY <2>1 DEF IInv, Preparing, JournalOfPlace, NothingBeforeReady, CandidateIsOnce
  <2>. QED BY <2>2, <2>3, <2>4 DEF IInv
<1>2. CASE index \notin changed
  <2>1. /\ at = "swap"
        /\ index \notin changed
        /\ Goto(IF index = 1 THEN "swap" ELSE "ready", 3 - index)
        /\ UNCHANGED <<rollbackVars, lockVars>>
        /\ UNCHANGED <<public, journalVars, planVars, published, writerVars, last, faults>>
    BY <1>2 DEF WriteSwap, Prepared
  <2>2. TypeOK'
    BY <2>1 DEF IInv, Places, TypeOK
  <2>3. /\ VersionsAreOld' /\ JournalOfPlace' /\ NothingBeforeReady' /\ CandidateIsOnce' /\ RestoreCovers'
        /\ WholeBeforeDecision' /\ OpenedIsPublic' /\ ExchangedIsLocked' /\ CommitIsInPlace'
    BY <2>1 DEF IInv, Preparing, Publishing, RollingBack, VersionsAreOld, JournalOfPlace,
         NothingBeforeReady, CandidateIsOnce, RestoreCovers, Whole, WholeBeforeDecision,
         OpenedIsPublic, ExchangedIsLocked, CommitIsInPlace
  <2>. QED BY <2>2, <2>3 DEF IInv
<1>3. CASE index \in changed /\ ~SourcesUnchanged
  BY <1>3, ReturnKeeps DEF WriteSwap, Prepared, IInv, TypeOK
<1>. QED BY <1>1, <1>2, <1>3

\* READY is written while both sources are the originals.
LEMMA WriteReadyKeeps ==
  ASSUME IInv, WriteReady
  PROVE  IInv'
<1>1. CASE SourcesUnchanged
  <2>1. /\ at = "ready"
        /\ files' = files \cup {"ready"}
        /\ UNCHANGED <<swap, place, proof>>
        /\ Goto("open", 1)
        /\ UNCHANGED <<rollbackVars, lockVars>>
        /\ UNCHANGED <<public, planVars, published, writerVars, last, faults>>
    BY <1>1 DEF WriteReady, Prepared
  <2>2. TypeOK'
    BY <2>1 DEF IInv, Places, Names, TypeOK
  <2>3. /\ VersionsAreOld' /\ JournalOfPlace' /\ NothingBeforeReady' /\ CandidateIsOnce' /\ RestoreCovers'
        /\ WholeBeforeDecision' /\ OpenedIsPublic' /\ ExchangedIsLocked' /\ CommitIsInPlace'
    BY <2>1, NoneAssumption DEF IInv, Preparing, VersionsAreOld, JournalOfPlace,
         NothingBeforeReady, CandidateIsOnce, RestoreCovers, Whole, WholeBeforeDecision,
         OpenedIsPublic, ExchangedIsLocked, CommitIsInPlace
  <2>. QED BY <2>2, <2>3 DEF IInv
<1>2. CASE ~SourcesUnchanged
  BY <1>2, ReturnKeeps DEF WriteReady, Prepared, IInv, TypeOK
<1>. QED BY <1>1, <1>2

\* The sources are opened.
LEMMA PublishOpenKeeps ==
  ASSUME IInv, PublishOpen
  PROVE  IInv'
<1>1. TypeOK'
  BY DEF IInv, Places, TypeOK, OpenSources, PublishOpen
<1>2. /\ VersionsAreOld' /\ JournalOfPlace' /\ NothingBeforeReady' /\ CandidateIsOnce' /\ RestoreCovers'
      /\ WholeBeforeDecision' /\ OpenedIsPublic' /\ ExchangedIsLocked' /\ CommitIsInPlace'
  BY DEF IInv, OpenSources, PublishOpen, Decided, Preparing, Publishing, VersionsAreOld,
       JournalOfPlace, NothingBeforeReady, CandidateIsOnce, RestoreCovers,
       WholeBeforeDecision, OpenedIsPublic, ExchangedIsLocked, CommitIsInPlace
<1>. QED BY <1>1, <1>2 DEF IInv

\* What is locked is what is public, or the rollback follows.
LEMMA PublishLockKeeps ==
  ASSUME IInv, PublishLock
  PROVE  IInv'
<1>1. CASE SourcesUnchanged
  <2>1. TypeOK'
    BY <1>1 DEF IInv, Places, NoVersions, TypeOK, SourcesUnchanged, LockSources,
         PublishLock, OpenedIsPublic
  <2>2. /\ VersionsAreOld' /\ JournalOfPlace' /\ NothingBeforeReady' /\ CandidateIsOnce' /\ RestoreCovers'
        /\ WholeBeforeDecision' /\ OpenedIsPublic' /\ CommitIsInPlace'
    BY <1>1 DEF IInv, PublishLock, Decided, Preparing, Publishing, VersionsAreOld,
         JournalOfPlace, NothingBeforeReady, CandidateIsOnce, RestoreCovers,
         WholeBeforeDecision, OpenedIsPublic, CommitIsInPlace
  <2>3. ExchangedIsLocked'
    BY <1>1 DEF IInv, SourcesUnchanged, LockSources, PublishLock, OpenedIsPublic,
         ExchangedIsLocked
  <2>. QED BY <2>1, <2>2, <2>3 DEF IInv
<1>2. CASE ~SourcesUnchanged
  BY <1>2, RollBackKeeps DEF PublishLock, Publishing, IInv, TypeOK
<1>. QED BY <1>1, <1>2

\* The check before an exchange.
LEMMA PublishCheckKeeps ==
  ASSUME IInv, PublishCheck
  PROVE  IInv'
<1>1. CASE at' # "rollback" /\ index \in changed
  <2>1. TypeOK'
    BY <1>1, BoundAssumption, NoneAssumption DEF IInv, Version, Places, Names, Proof,
       NoVersions, TypeOK, Unlock, RollBack, AfterMember, PublishCheck
  <2>2. /\ VersionsAreOld' /\ JournalOfPlace' /\ NothingBeforeReady' /\ CandidateIsOnce' /\ RestoreCovers'
        /\ WholeBeforeDecision' /\ OpenedIsPublic' /\ ExchangedIsLocked' /\ CommitIsInPlace'
    BY <1>1, BoundAssumption, NoneAssumption DEF IInv, Version, NoVersions, Unlock,
       RollBack, AfterMember, PublishCheck, Decided, Preparing, Publishing, RollingBack,
       VersionsAreOld, JournalOfPlace, NothingBeforeReady, CandidateIsOnce, RestoreCovers,
       Whole, WholeBeforeDecision, OpenedIsPublic, ExchangedIsLocked, CommitIsInPlace
  <2>. QED BY <2>1, <2>2 DEF IInv
<1>2. CASE at' # "rollback" /\ index \notin changed
  <2>1. /\ at = "check"
        /\ index \notin changed
        /\ AfterMember(index)
        /\ UNCHANGED <<rollbackVars, lockVars>>
        /\ UNCHANGED <<public, journalVars, planVars, published, writerVars, last, faults>>
    BY <1>2 DEF PublishCheck, RollBack
  <2>2. TypeOK'
    BY <2>1 DEF IInv, Places, TypeOK, AfterMember
  <2>3. /\ VersionsAreOld' /\ JournalOfPlace' /\ NothingBeforeReady' /\ CandidateIsOnce' /\ RestoreCovers'
        /\ WholeBeforeDecision' /\ OpenedIsPublic' /\ ExchangedIsLocked' /\ CommitIsInPlace'
    BY <2>1, NoneAssumption DEF IInv, AfterMember, Decided, Preparing, Publishing,
         VersionsAreOld, JournalOfPlace, NothingBeforeReady, CandidateIsOnce,
         RestoreCovers, WholeBeforeDecision, OpenedIsPublic, ExchangedIsLocked,
         CommitIsInPlace
  <2>. QED BY <2>2, <2>3 DEF IInv
<1>3. CASE at' = "rollback"
  BY <1>3, RollBackKeeps DEF PublishCheck, Publishing, AfterMember, IInv, TypeOK
<1>. QED BY <1>1, <1>2, <1>3 DEF PublishCheck

\* A candidate becomes public and its swap file keeps the original.
LEMMA PublishExchangeKeeps ==
  ASSUME IInv, PublishExchange
  PROVE  IInv'
<1>1. TypeOK'
  BY DEF IInv, Places, TypeOK, Exchange, PublishExchange
<1>2. VersionsAreOld' /\ RestoreCovers' /\ OpenedIsPublic'
  BY DEF IInv, Exchange, PublishExchange, VersionsAreOld, RestoreCovers, OpenedIsPublic
<1>3. JournalOfPlace'
  BY NoneAssumption DEF IInv, Version, TypeOK, Exchange, PublishExchange, Preparing,
       Publishing, JournalOfPlace
<1>4. NothingBeforeReady'
  BY DEF IInv, PublishExchange, Publishing, JournalOfPlace, NothingBeforeReady
<1>5. CandidateIsOnce'
  BY NoneAssumption DEF IInv, Version, TypeOK, Exchange, PublishExchange, CandidateIsOnce
<1>6. WholeBeforeDecision'
  BY DEF IInv, PublishExchange, Decided, Publishing, JournalOfPlace, WholeBeforeDecision
<1>7. ExchangedIsLocked'
  BY DEF IInv, TypeOK, Exchange, PublishExchange, ExchangedIsLocked
<1>8. CommitIsInPlace'
  BY DEF IInv, Exchange, PublishExchange, VersionsAreOld, ExchangedIsLocked,
       CommitIsInPlace
<1>. QED BY <1>1, <1>2, <1>3, <1>4, <1>5, <1>6, <1>7, <1>8 DEF IInv

\* The displaced version is inspected.
LEMMA PublishInspectKeeps ==
  ASSUME IInv, PublishInspect
  PROVE  IInv'
<1>1. TypeOK'
  BY DEF IInv, Places, TypeOK, AfterMember, PublishInspect
<1>2. /\ VersionsAreOld' /\ JournalOfPlace' /\ NothingBeforeReady' /\ CandidateIsOnce' /\ RestoreCovers'
      /\ WholeBeforeDecision' /\ OpenedIsPublic' /\ ExchangedIsLocked' /\ CommitIsInPlace'
  BY DEF IInv, AfterMember, PublishInspect, Decided, Preparing, Publishing,
       VersionsAreOld, JournalOfPlace, NothingBeforeReady, CandidateIsOnce, RestoreCovers,
       Whole, WholeBeforeDecision, OpenedIsPublic, ExchangedIsLocked, CommitIsInPlace
<1>. QED BY <1>1, <1>2 DEF IInv

\* The displaced receipt, then the rollback.
LEMMA PublishProveKeeps ==
  ASSUME IInv, PublishProve
  PROVE  IInv'
<1>1. proof' \in Proof
  BY DEF PublishProve, IInv, TypeOK, JournalOfPlace, Proof
<1>. QED
  BY <1>1, RollBackKeeps DEF PublishProve, Publishing, IInv, TypeOK

\* A complete publication waits for its batch.
LEMMA PublishAppliedKeeps ==
  ASSUME IInv, PublishApplied
  PROVE  IInv'
<1>1. CASE Applied
  <2>1. TypeOK'
    BY <1>1 DEF IInv, Places, NoVersions, TypeOK, Unlock, PublishApplied
  <2>2. VersionsAreOld'
    BY <1>1 DEF IInv, PublishApplied, VersionsAreOld
  <2>3. JournalOfPlace'
    BY <1>1 DEF IInv, PublishApplied, Preparing, Publishing, JournalOfPlace
  <2>4. NothingBeforeReady'
    BY <1>1 DEF IInv, PublishApplied, NothingBeforeReady
  <2>5. CandidateIsOnce'
    BY <1>1 DEF IInv, PublishApplied, CandidateIsOnce
  <2>6. RestoreCovers'
    BY <1>1 DEF IInv, PublishApplied, RestoreCovers
  <2>7. WholeBeforeDecision'
    BY <1>1 DEF IInv, PublishApplied, Decided, Whole, WholeBeforeDecision
  <2>8. OpenedIsPublic'
    BY <1>1 DEF PublishApplied, OpenedIsPublic
  <2>9. ExchangedIsLocked'
    BY <1>1 DEF IInv, PublishApplied, ExchangedIsLocked
  <2>10. CommitIsInPlace'
    BY <1>1 DEF IInv, PublishApplied, CommitIsInPlace
  <2>. QED BY <2>1, <2>2, <2>3, <2>4, <2>5, <2>6, <2>7, <2>8, <2>9, <2>10 DEF IInv
<1>2. CASE ~Applied
  BY <1>2, RollBackKeeps DEF PublishApplied, Publishing, IInv, TypeOK
<1>. QED BY <1>1, <1>2

\* The batch is stored.
LEMMA StoreBatchKeeps ==
  ASSUME IInv, StoreBatch
  PROVE  IInv'
  BY ReturnKeeps DEF StoreBatch, IInv, TypeOK
=============================================================================
