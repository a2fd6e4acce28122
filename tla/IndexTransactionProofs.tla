----------------------- MODULE IndexTransactionProofs -----------------------
(* IndexTransaction's safety properties for any number of git processes,      *)
(* writers, commands and hunks.  The inductive invariant says that whoever    *)
(* is about to replace the index has its lock, or has been robbed of it, and  *)
(* that what replaces it contains every update that is not excused.           *)
EXTENDS IndexTransaction, TLAPS

\* The steps between the lock and its removal.
Guarded == {"snapshot", "stage", "replace", "fsync", "record", "unwind", "stat", "unlink"}

KindFits ==
  /\ tx.pc \in {"try", "gitread", "gitrename"} => tx.kind = "git"
  /\ tx.pc \in Guarded \ {"record"} => tx.kind # "git"

\* A git process that runs has the lock; a transaction has it or was robbed.
LockHolds ==
  /\ \A g \in Gits : git[g] \in {"read", "rename"} => lockfile.by = g
  /\ tx.pc \in {"gitread", "gitrename"} => lockfile.by = tx.n
  /\ tx.pc \in Guarded /\ tx.kind # "git" => lockfile.by = tx.n \/ Hunks(tx.n) \subseteq excused
  /\ At("unlink") => lockfile.by = tx.n

\* A command records nothing before it begins to, and rolls back to nothing.
RecordsAreNew ==
  /\ \A n \in Commands : n > tx.n => recorded \cap Hunks(n) = {}
  /\ tx.pc \in {"wait", "try", "gitread", "gitrename", "snapshot"} => recorded \cap Hunks(tx.n) = {}
  /\ tx.kind = "file" /\ tx.pc \in {"stage", "replace"} => recorded \cap Hunks(tx.n) = {}
  /\ tx.saved \cap Hunks(tx.n) = {} /\ tx.saved \subseteq recorded

PublicationIsNewer ==
  At("replace") => tx.checked \subseteq tx.private /\ Hunks(tx.n) \subseteq tx.private

\* What the running command has published and may have recorded.
Pending ==
  IF At("fsync") \/ At("record") THEN Hunks(tx.n)
  ELSE IF At("stat") \/ At("unlink") \/ (At("unwind") /\ tx.kind = "file")
         THEN recorded \cap Hunks(tx.n)
  ELSE {}

Committed == (Done \cup Pending) \ excused

\* Every committed update is in the index, and in a lock file that git is about
\* to rename over it.
NothingIsLost == Committed \subseteq index
ContentIsWhole ==
  /\ \A g \in Gits : git[g] = "rename" =>
       Committed \ Bypassed \subseteq lockfile.content /\ Update(g) \in lockfile.content
  /\ At("gitrename") =>
       Committed \ Bypassed \subseteq lockfile.content /\ Hunks(tx.n) \subseteq lockfile.content

Exclusive == LockHolds /\ NothingIsLost /\ ContentIsWhole

\* A set with all or none of the hunks of a command.
Whole(S, n) == Hunks(n) \subseteq S \/ Hunks(n) \cap S = {}
SetsAreWhole ==
  \A n \in Commands :
    /\ Whole(index, n) /\ Whole(lockfile.content, n)
    /\ tx.pc \in {"stage", "replace"} /\ n # tx.n => Whole(tx.private, n)

IInv ==
  /\ TypeOK /\ KindFits /\ RecordsAreNew /\ PublicationIsNewer /\ SetsAreWhole
  /\ (chaos \/ Exclusive)

\* Where the processes are is expanded throughout.
USE DEF At, Goto, Guarded, Others, History

LEMMA HunksDiffer ==
  ASSUME NEW m \in Commands, NEW n \in Commands, m # n PROVE Hunks(m) \cap Hunks(n) = {}
  BY DEF Hunks

LEMMA UpdatesDiffer ==
  ASSUME NEW n \in Commands, NEW x PROVE Update(x) \notin Hunks(n)
  BY DEF Hunks, Update, Commands

LEMMA IdleFits ==
  ASSUME NEW n \in 0 .. MaxCommands
  PROVE  Idle(n) \in Transactions /\ Idle(n).pc = "out" /\ Idle(n).n = n
         /\ Idle(n).baseline \subseteq Idle(n).private
  BY DEF Idle, Transactions, Pcs, Kinds

LEMMA HunksAreAll == \A n \in Commands : Hunks(n) \subseteq AllHunks
  BY DEF Hunks, AllHunks

LEMMA BeginKeeps == ASSUME IInv, Begin PROVE IInv'
<1>1. TypeOK'
  <2>1. PICK kind \in Kinds : tx' = [Idle(tx.n + 1) EXCEPT !.pc = "wait", !.kind = kind]
    BY DEF Begin
  <2>2. tx.n + 1 \in Commands
    BY BoundsAssumption DEF Begin, IInv, TypeOK, Transactions, Commands
  <2>3. tx' \in Transactions /\ tx'.n \in Commands /\ tx'.baseline \subseteq tx'.private
    <3>1. Idle(tx.n + 1) \in Transactions
      BY <2>2, IdleFits DEF Commands
    <3>2. tx' = [Idle(tx.n + 1) EXCEPT !.pc = "wait", !.kind = kind] /\ kind \in Kinds
      BY <2>1
    <3>3. tx' \in Transactions
      BY <3>1, <3>2 DEF Transactions, Pcs
    <3>4. tx'.n = tx.n + 1 /\ tx'.baseline = {}
      BY <3>2 DEF Idle
    <3> QED
      BY <3>3, <3>4, <2>2
  <2> QED
    BY <2>3 DEF IInv, TypeOK, Begin
<1>2. KindFits'
  BY DEF IInv, Begin, TypeOK, Transactions, Kinds, Files, Pcs, KindFits, Idle
<1>3. RecordsAreNew'
  BY HunksDiffer, WritersAssumption, BoundsAssumption DEF IInv, Begin, TypeOK,
     Transactions, Kinds, Files, Pcs, KindFits, RecordsAreNew, Idle, Commands
<1>4. PublicationIsNewer'
  BY DEF IInv, Begin, TypeOK, Transactions, Kinds, Files, Pcs, PublicationIsNewer, Idle
<1>5. SetsAreWhole'
  BY HunksDiffer, UpdatesDiffer DEF IInv, Begin, TypeOK, Transactions, Kinds, Files,
     Pcs, SetsAreWhole, PublicationIsNewer, Whole, Idle
<1>6. CASE chaos
  <2>1. chaos'
    BY <1>6 DEF Begin
  <2> QED
    BY <2>1, <1>1, <1>2, <1>3, <1>4, <1>5 DEF IInv
<1>7. ASSUME Exclusive, ~chaos' PROVE Exclusive'
  <2>1. LockHolds'
    BY <1>7, WritersAssumption DEF IInv, Exclusive, Begin, TypeOK, Transactions, Kinds,
       Files, Pcs, LockHolds, Live, Idle, Commands
  <2>2. NothingIsLost'
    BY <1>7, HunksDiffer, WritersAssumption, BoundsAssumption DEF IInv, Exclusive,
       Begin, TypeOK, Transactions, Kinds, Files, Pcs, LockHolds, NothingIsLost,
       ContentIsWhole, RecordsAreNew, PublicationIsNewer, KindFits, Committed, Done,
       Pending, Running, Bypassed, Idle
  <2>3. ContentIsWhole'
    BY <1>7, HunksDiffer, WritersAssumption, BoundsAssumption DEF IInv, Exclusive,
       Begin, TypeOK, Transactions, Kinds, Files, Pcs, LockHolds, NothingIsLost,
       ContentIsWhole, RecordsAreNew, KindFits, Committed, Done, Pending, Running,
       Bypassed, Idle
  <2> QED
    BY <2>1, <2>2, <2>3 DEF Exclusive
<1>8. chaos' \in BOOLEAN
  BY <1>1 DEF TypeOK
<1> QED
  BY <1>1, <1>2, <1>3, <1>4, <1>5, <1>6, <1>7, <1>8 DEF IInv

LEMMA TimePassesKeeps == ASSUME IInv, TimePasses PROVE IInv'
<1>1. TypeOK'
  BY WritersAssumption, BoundsAssumption, HunksAreAll DEF IInv, TimePasses, TypeOK,
     Transactions, Kinds, Files, Pcs, KindFits, Updates, Idle
<1>2. KindFits'
  BY DEF IInv, TimePasses, TypeOK, Transactions, Kinds, Files, Pcs, KindFits, Idle
<1>3. RecordsAreNew'
  BY HunksDiffer, WritersAssumption, BoundsAssumption DEF IInv, TimePasses, TypeOK,
     Transactions, Kinds, Files, Pcs, KindFits, RecordsAreNew, Idle, Commands
<1>4. PublicationIsNewer'
  BY DEF IInv, TimePasses, TypeOK, Transactions, Kinds, Files, Pcs, PublicationIsNewer,
     Idle
<1>5. SetsAreWhole'
  BY HunksDiffer, UpdatesDiffer DEF IInv, TimePasses, TypeOK, Transactions, Kinds,
     Files, Pcs, SetsAreWhole, PublicationIsNewer, Whole, Idle
<1>6. CASE chaos
  <2>1. chaos'
    BY <1>6 DEF TimePasses
  <2> QED
    BY <2>1, <1>1, <1>2, <1>3, <1>4, <1>5 DEF IInv
<1>7. ASSUME Exclusive, ~chaos' PROVE Exclusive'
  <2>1. LockHolds'
    BY <1>7, WritersAssumption DEF IInv, Exclusive, TimePasses, TypeOK, Transactions,
       Kinds, Files, Pcs, LockHolds, Live, Idle, Commands
  <2>2. NothingIsLost'
    BY <1>7, HunksDiffer, WritersAssumption, BoundsAssumption DEF IInv, Exclusive,
       TimePasses, TypeOK, Transactions, Kinds, Files, Pcs, LockHolds, NothingIsLost,
       ContentIsWhole, RecordsAreNew, PublicationIsNewer, KindFits, Committed, Done,
       Pending, Running, Bypassed, Idle
  <2>3. ContentIsWhole'
    BY <1>7, HunksDiffer, WritersAssumption, BoundsAssumption DEF IInv, Exclusive,
       TimePasses, TypeOK, Transactions, Kinds, Files, Pcs, LockHolds, NothingIsLost,
       ContentIsWhole, RecordsAreNew, KindFits, Committed, Done, Pending, Running,
       Bypassed, Idle
  <2> QED
    BY <2>1, <2>2, <2>3 DEF Exclusive
<1>8. chaos' \in BOOLEAN
  BY <1>1 DEF TypeOK
<1> QED
  BY <1>1, <1>2, <1>3, <1>4, <1>5, <1>6, <1>7, <1>8 DEF IInv

LEMMA AcquireKeeps == ASSUME IInv, Acquire PROVE IInv'
<1>1. TypeOK'
  BY WritersAssumption, BoundsAssumption, HunksAreAll DEF IInv, Acquire, Free, NoFile,
     OwnFile, TypeOK, Transactions, Kinds, Files, Pcs, KindFits, Updates, Idle
<1>2. KindFits'
  BY DEF IInv, Acquire, Free, NoFile, OwnFile, TypeOK, Transactions, Kinds, Files, Pcs,
     KindFits, Idle
<1>3. RecordsAreNew'
  BY HunksDiffer, WritersAssumption, BoundsAssumption DEF IInv, Acquire, Free, NoFile,
     OwnFile, TypeOK, Transactions, Kinds, Files, Pcs, KindFits, RecordsAreNew, Idle,
     Commands
<1>4. PublicationIsNewer'
  BY DEF IInv, Acquire, Free, NoFile, OwnFile, TypeOK, Transactions, Kinds, Files, Pcs,
     PublicationIsNewer, Idle
<1>5. SetsAreWhole'
  BY HunksDiffer, UpdatesDiffer DEF IInv, Acquire, Free, NoFile, OwnFile, TypeOK,
     Transactions, Kinds, Files, Pcs, SetsAreWhole, PublicationIsNewer, Whole, Idle
<1>6. CASE chaos
  <2>1. chaos'
    BY <1>6 DEF Acquire, Free, NoFile, OwnFile
  <2> QED
    BY <2>1, <1>1, <1>2, <1>3, <1>4, <1>5 DEF IInv
<1>7. ASSUME Exclusive, ~chaos' PROVE Exclusive'
  <2>1. LockHolds'
    BY <1>7, WritersAssumption DEF IInv, Exclusive, Acquire, Free, NoFile, OwnFile,
       TypeOK, Transactions, Kinds, Files, Pcs, LockHolds, Live, Idle, Commands
  <2>2. NothingIsLost'
    BY <1>7, HunksDiffer, WritersAssumption, BoundsAssumption DEF IInv, Exclusive,
       Acquire, Free, NoFile, OwnFile, TypeOK, Transactions, Kinds, Files, Pcs,
       LockHolds, NothingIsLost, ContentIsWhole, RecordsAreNew, PublicationIsNewer,
       KindFits, Committed, Done, Pending, Running, Bypassed, Idle
  <2>3. ContentIsWhole'
    BY <1>7, HunksDiffer, WritersAssumption, BoundsAssumption DEF IInv, Exclusive,
       Acquire, Free, NoFile, OwnFile, TypeOK, Transactions, Kinds, Files, Pcs,
       LockHolds, NothingIsLost, ContentIsWhole, RecordsAreNew, KindFits, Committed,
       Done, Pending, Running, Bypassed, Idle
  <2> QED
    BY <2>1, <2>2, <2>3 DEF Exclusive
<1>8. chaos' \in BOOLEAN
  BY <1>1 DEF TypeOK
<1> QED
  BY <1>1, <1>2, <1>3, <1>4, <1>5, <1>6, <1>7, <1>8 DEF IInv

LEMMA GiveUpKeeps == ASSUME IInv, GiveUp PROVE IInv'
<1>1. TypeOK'
  BY WritersAssumption, BoundsAssumption, HunksAreAll DEF IInv, GiveUp, TypeOK,
     Transactions, Kinds, Files, Pcs, KindFits, Updates, Idle
<1>2. KindFits'
  BY DEF IInv, GiveUp, TypeOK, Transactions, Kinds, Files, Pcs, KindFits, Idle
<1>3. RecordsAreNew'
  BY HunksDiffer, WritersAssumption, BoundsAssumption DEF IInv, GiveUp, TypeOK,
     Transactions, Kinds, Files, Pcs, KindFits, RecordsAreNew, Idle, Commands
<1>4. PublicationIsNewer'
  BY DEF IInv, GiveUp, TypeOK, Transactions, Kinds, Files, Pcs, PublicationIsNewer, Idle
<1>5. SetsAreWhole'
  BY HunksDiffer, UpdatesDiffer DEF IInv, GiveUp, TypeOK, Transactions, Kinds, Files,
     Pcs, SetsAreWhole, PublicationIsNewer, Whole, Idle
<1>6. CASE chaos
  <2>1. chaos'
    BY <1>6 DEF GiveUp
  <2> QED
    BY <2>1, <1>1, <1>2, <1>3, <1>4, <1>5 DEF IInv
<1>7. ASSUME Exclusive, ~chaos' PROVE Exclusive'
  <2>1. LockHolds'
    BY <1>7, WritersAssumption DEF IInv, Exclusive, GiveUp, TypeOK, Transactions, Kinds,
       Files, Pcs, LockHolds, Live, Idle, Commands
  <2>2. NothingIsLost'
    BY <1>7, HunksDiffer, WritersAssumption, BoundsAssumption DEF IInv, Exclusive,
       GiveUp, TypeOK, Transactions, Kinds, Files, Pcs, LockHolds, NothingIsLost,
       ContentIsWhole, RecordsAreNew, PublicationIsNewer, KindFits, Committed, Done,
       Pending, Running, Bypassed, Idle
  <2>3. ContentIsWhole'
    BY <1>7, HunksDiffer, WritersAssumption, BoundsAssumption DEF IInv, Exclusive,
       GiveUp, TypeOK, Transactions, Kinds, Files, Pcs, LockHolds, NothingIsLost,
       ContentIsWhole, RecordsAreNew, KindFits, Committed, Done, Pending, Running,
       Bypassed, Idle
  <2> QED
    BY <2>1, <2>2, <2>3 DEF Exclusive
<1>8. chaos' \in BOOLEAN
  BY <1>1 DEF TypeOK
<1> QED
  BY <1>1, <1>2, <1>3, <1>4, <1>5, <1>6, <1>7, <1>8 DEF IInv

LEMMA WaitedKeeps == ASSUME IInv, Waited PROVE IInv'
<1>1. TypeOK'
  BY WritersAssumption, BoundsAssumption, HunksAreAll DEF IInv, Waited, TypeOK,
     Transactions, Kinds, Files, Pcs, KindFits, Updates, Idle
<1>2. KindFits'
  BY DEF IInv, Waited, TypeOK, Transactions, Kinds, Files, Pcs, KindFits, Idle
<1>3. RecordsAreNew'
  BY HunksDiffer, WritersAssumption, BoundsAssumption DEF IInv, Waited, TypeOK,
     Transactions, Kinds, Files, Pcs, KindFits, RecordsAreNew, Idle, Commands
<1>4. PublicationIsNewer'
  BY DEF IInv, Waited, TypeOK, Transactions, Kinds, Files, Pcs, PublicationIsNewer, Idle
<1>5. SetsAreWhole'
  BY HunksDiffer, UpdatesDiffer DEF IInv, Waited, TypeOK, Transactions, Kinds, Files,
     Pcs, SetsAreWhole, PublicationIsNewer, Whole, Idle
<1>6. CASE chaos
  <2>1. chaos'
    BY <1>6 DEF Waited
  <2> QED
    BY <2>1, <1>1, <1>2, <1>3, <1>4, <1>5 DEF IInv
<1>7. ASSUME Exclusive, ~chaos' PROVE Exclusive'
  <2>1. LockHolds'
    BY <1>7, WritersAssumption DEF IInv, Exclusive, Waited, TypeOK, Transactions, Kinds,
       Files, Pcs, LockHolds, Live, Idle, Commands
  <2>2. NothingIsLost'
    BY <1>7, HunksDiffer, WritersAssumption, BoundsAssumption DEF IInv, Exclusive,
       Waited, TypeOK, Transactions, Kinds, Files, Pcs, LockHolds, NothingIsLost,
       ContentIsWhole, RecordsAreNew, PublicationIsNewer, KindFits, Committed, Done,
       Pending, Running, Bypassed, Idle
  <2>3. ContentIsWhole'
    BY <1>7, HunksDiffer, WritersAssumption, BoundsAssumption DEF IInv, Exclusive,
       Waited, TypeOK, Transactions, Kinds, Files, Pcs, LockHolds, NothingIsLost,
       ContentIsWhole, RecordsAreNew, KindFits, Committed, Done, Pending, Running,
       Bypassed, Idle
  <2> QED
    BY <2>1, <2>2, <2>3 DEF Exclusive
<1>8. chaos' \in BOOLEAN
  BY <1>1 DEF TypeOK
<1> QED
  BY <1>1, <1>2, <1>3, <1>4, <1>5, <1>6, <1>7, <1>8 DEF IInv

LEMMA GitStartsKeeps == ASSUME IInv, GitStarts PROVE IInv'
<1>1. TypeOK'
  BY WritersAssumption, BoundsAssumption, HunksAreAll DEF IInv, GitStarts, Free, NoFile,
     OwnFile, TypeOK, Transactions, Kinds, Files, Pcs, KindFits, Updates, Idle
<1>2. KindFits'
  BY DEF IInv, GitStarts, Free, NoFile, OwnFile, TypeOK, Transactions, Kinds, Files,
     Pcs, KindFits, Idle
<1>3. RecordsAreNew'
  BY HunksDiffer, WritersAssumption, BoundsAssumption DEF IInv, GitStarts, Free, NoFile,
     OwnFile, TypeOK, Transactions, Kinds, Files, Pcs, KindFits, RecordsAreNew, Idle,
     Commands
<1>4. PublicationIsNewer'
  BY DEF IInv, GitStarts, Free, NoFile, OwnFile, TypeOK, Transactions, Kinds, Files,
     Pcs, PublicationIsNewer, Idle
<1>5. SetsAreWhole'
  BY HunksDiffer, UpdatesDiffer DEF IInv, GitStarts, Free, NoFile, OwnFile, TypeOK,
     Transactions, Kinds, Files, Pcs, SetsAreWhole, PublicationIsNewer, Whole, Idle
<1>6. CASE chaos
  <2>1. chaos'
    BY <1>6 DEF GitStarts, Free, NoFile, OwnFile
  <2> QED
    BY <2>1, <1>1, <1>2, <1>3, <1>4, <1>5 DEF IInv
<1>7. ASSUME Exclusive, ~chaos' PROVE Exclusive'
  <2>1. LockHolds'
    BY <1>7, WritersAssumption DEF IInv, Exclusive, GitStarts, Free, NoFile, OwnFile,
       TypeOK, Transactions, Kinds, Files, Pcs, LockHolds, Live, Idle, Commands
  <2>2. NothingIsLost'
    BY <1>7, HunksDiffer, WritersAssumption, BoundsAssumption DEF IInv, Exclusive,
       GitStarts, Free, NoFile, OwnFile, TypeOK, Transactions, Kinds, Files, Pcs,
       LockHolds, NothingIsLost, ContentIsWhole, RecordsAreNew, PublicationIsNewer,
       KindFits, Committed, Done, Pending, Running, Bypassed, Idle
  <2>3. ContentIsWhole'
    BY <1>7, HunksDiffer, WritersAssumption, BoundsAssumption DEF IInv, Exclusive,
       GitStarts, Free, NoFile, OwnFile, TypeOK, Transactions, Kinds, Files, Pcs,
       LockHolds, NothingIsLost, ContentIsWhole, RecordsAreNew, KindFits, Committed,
       Done, Pending, Running, Bypassed, Idle
  <2> QED
    BY <2>1, <2>2, <2>3 DEF Exclusive
<1>8. chaos' \in BOOLEAN
  BY <1>1 DEF TypeOK
<1> QED
  BY <1>1, <1>2, <1>3, <1>4, <1>5, <1>6, <1>7, <1>8 DEF IInv

LEMMA RetryKeeps == ASSUME IInv, Retry PROVE IInv'
<1>1. TypeOK'
  BY WritersAssumption, BoundsAssumption, HunksAreAll DEF IInv, Retry, TypeOK,
     Transactions, Kinds, Files, Pcs, KindFits, Updates, Idle
<1>2. KindFits'
  BY DEF IInv, Retry, TypeOK, Transactions, Kinds, Files, Pcs, KindFits, Idle
<1>3. RecordsAreNew'
  BY HunksDiffer, WritersAssumption, BoundsAssumption DEF IInv, Retry, TypeOK,
     Transactions, Kinds, Files, Pcs, KindFits, RecordsAreNew, Idle, Commands
<1>4. PublicationIsNewer'
  BY DEF IInv, Retry, TypeOK, Transactions, Kinds, Files, Pcs, PublicationIsNewer, Idle
<1>5. SetsAreWhole'
  BY HunksDiffer, UpdatesDiffer DEF IInv, Retry, TypeOK, Transactions, Kinds, Files,
     Pcs, SetsAreWhole, PublicationIsNewer, Whole, Idle
<1>6. CASE chaos
  <2>1. chaos'
    BY <1>6 DEF Retry
  <2> QED
    BY <2>1, <1>1, <1>2, <1>3, <1>4, <1>5 DEF IInv
<1>7. ASSUME Exclusive, ~chaos' PROVE Exclusive'
  <2>1. LockHolds'
    BY <1>7, WritersAssumption DEF IInv, Exclusive, Retry, TypeOK, Transactions, Kinds,
       Files, Pcs, LockHolds, Live, Idle, Commands
  <2>2. NothingIsLost'
    BY <1>7, HunksDiffer, WritersAssumption, BoundsAssumption DEF IInv, Exclusive,
       Retry, TypeOK, Transactions, Kinds, Files, Pcs, LockHolds, NothingIsLost,
       ContentIsWhole, RecordsAreNew, PublicationIsNewer, KindFits, Committed, Done,
       Pending, Running, Bypassed, Idle
  <2>3. ContentIsWhole'
    BY <1>7, HunksDiffer, WritersAssumption, BoundsAssumption DEF IInv, Exclusive,
       Retry, TypeOK, Transactions, Kinds, Files, Pcs, LockHolds, NothingIsLost,
       ContentIsWhole, RecordsAreNew, KindFits, Committed, Done, Pending, Running,
       Bypassed, Idle
  <2> QED
    BY <2>1, <2>2, <2>3 DEF Exclusive
<1>8. chaos' \in BOOLEAN
  BY <1>1 DEF TypeOK
<1> QED
  BY <1>1, <1>2, <1>3, <1>4, <1>5, <1>6, <1>7, <1>8 DEF IInv

LEMMA GitWritesKeeps == ASSUME IInv, GitWrites PROVE IInv'
<1>1. TypeOK'
  BY WritersAssumption, BoundsAssumption, HunksAreAll DEF IInv, GitWrites, TypeOK,
     Transactions, Kinds, Files, Pcs, KindFits, Updates, Idle
<1>2. KindFits'
  BY DEF IInv, GitWrites, TypeOK, Transactions, Kinds, Files, Pcs, KindFits, Idle
<1>3. RecordsAreNew'
  BY HunksDiffer, WritersAssumption, BoundsAssumption DEF IInv, GitWrites, TypeOK,
     Transactions, Kinds, Files, Pcs, KindFits, RecordsAreNew, Idle, Commands
<1>4. PublicationIsNewer'
  BY DEF IInv, GitWrites, TypeOK, Transactions, Kinds, Files, Pcs, PublicationIsNewer,
     Idle
<1>5. SetsAreWhole'
  BY HunksDiffer, UpdatesDiffer DEF IInv, GitWrites, TypeOK, Transactions, Kinds, Files,
     Pcs, SetsAreWhole, PublicationIsNewer, Whole, Idle
<1>6. CASE chaos
  <2>1. chaos'
    BY <1>6 DEF GitWrites
  <2> QED
    BY <2>1, <1>1, <1>2, <1>3, <1>4, <1>5 DEF IInv
<1>7. ASSUME Exclusive, ~chaos' PROVE Exclusive'
  <2>1. LockHolds'
    BY <1>7, WritersAssumption DEF IInv, Exclusive, GitWrites, TypeOK, Transactions,
       Kinds, Files, Pcs, LockHolds, Live, Idle, Commands
  <2>2. NothingIsLost'
    BY <1>7, HunksDiffer, WritersAssumption, BoundsAssumption DEF IInv, Exclusive,
       GitWrites, TypeOK, Transactions, Kinds, Files, Pcs, LockHolds, NothingIsLost,
       ContentIsWhole, RecordsAreNew, PublicationIsNewer, KindFits, Committed, Done,
       Pending, Running, Bypassed, Idle
  <2>3. ContentIsWhole'
    BY <1>7, HunksDiffer, WritersAssumption, BoundsAssumption DEF IInv, Exclusive,
       GitWrites, TypeOK, Transactions, Kinds, Files, Pcs, LockHolds, NothingIsLost,
       ContentIsWhole, RecordsAreNew, KindFits, Committed, Done, Pending, Running,
       Bypassed, Idle
  <2> QED
    BY <2>1, <2>2, <2>3 DEF Exclusive
<1>8. chaos' \in BOOLEAN
  BY <1>1 DEF TypeOK
<1> QED
  BY <1>1, <1>2, <1>3, <1>4, <1>5, <1>6, <1>7, <1>8 DEF IInv

LEMMA GitRenamesKeeps == ASSUME IInv, GitRenames PROVE IInv'
<1>1. TypeOK'
  <2>1. tx' \in Transactions /\ tx'.baseline \subseteq tx'.private /\ (tx'.pc = "out" \/ tx'.n \in Commands)
    <3>0. tx \in Transactions /\ tx.n \in 0 .. MaxCommands
      BY DEF IInv, TypeOK, Transactions
    <3>1. CASE Free
      BY <3>0, <3>1, IdleFits DEF GitRenames, Transactions, Pcs, IInv, TypeOK, NoFile, Free
    <3>2. CASE ~(Free)
      BY <3>0, <3>2, IdleFits DEF GitRenames, Transactions, Pcs, IInv, TypeOK, NoFile, Free
    <3> QED
      BY <3>1, <3>2
  <2>2. index' \subseteq Updates /\ lockfile' \in Files
    BY DEF IInv, TypeOK, GitRenames, Files, NoFile
  <2>3. excused' \subseteq Updates
    BY DEF IInv, TypeOK, GitRenames, Updates, Bypassed
  <2> QED
    BY <2>1, <2>2, <2>3 DEF IInv, TypeOK, GitRenames
<1>2. KindFits'
  BY DEF IInv, GitRenames, Free, NoFile, TypeOK, Transactions, Kinds, Files, Pcs,
     KindFits, Idle
<1>3. RecordsAreNew'
  BY HunksDiffer, WritersAssumption, BoundsAssumption DEF IInv, GitRenames, Free,
     NoFile, TypeOK, Transactions, Kinds, Files, Pcs, KindFits, RecordsAreNew, Idle,
     Commands
<1>4. PublicationIsNewer'
  BY DEF IInv, GitRenames, Free, NoFile, TypeOK, Transactions, Kinds, Files, Pcs,
     PublicationIsNewer, Idle
<1>5. SetsAreWhole'
  BY HunksDiffer, UpdatesDiffer DEF IInv, GitRenames, Free, NoFile, TypeOK,
     Transactions, Kinds, Files, Pcs, SetsAreWhole, PublicationIsNewer, Whole, Idle
<1>6. CASE chaos
  <2>1. chaos'
    BY <1>6 DEF GitRenames, Free, NoFile
  <2> QED
    BY <2>1, <1>1, <1>2, <1>3, <1>4, <1>5 DEF IInv
<1>7. ASSUME Exclusive, ~chaos' PROVE Exclusive'
  <2>1. LockHolds'
    <3>1. lockfile.by = tx.n /\ tx.n \in Commands
      BY <1>7 DEF IInv, Exclusive, GitRenames, LockHolds, TypeOK
    <3>2. \A g \in Gits : git'[g] \notin {"read", "rename"}
      BY <1>7, <3>1, WritersAssumption DEF Exclusive, GitRenames, LockHolds, Commands
    <3>3. tx'.pc \in {"out", "record"} /\ (tx'.pc = "record" => tx'.kind = "git")
      BY DEF GitRenames, Idle, IInv, TypeOK, Transactions, KindFits
    <3> QED
      BY <3>2, <3>3 DEF LockHolds
  <2>2. NothingIsLost'
    BY <1>7, HunksDiffer, WritersAssumption, BoundsAssumption DEF IInv, Exclusive,
       GitRenames, Free, NoFile, TypeOK, Transactions, Kinds, Files, Pcs, LockHolds,
       NothingIsLost, ContentIsWhole, RecordsAreNew, PublicationIsNewer, KindFits,
       Committed, Done, Pending, Running, Bypassed, Idle
  <2>3. ContentIsWhole'
    BY <1>7, HunksDiffer, WritersAssumption, BoundsAssumption DEF IInv, Exclusive,
       GitRenames, Free, NoFile, TypeOK, Transactions, Kinds, Files, Pcs, LockHolds,
       NothingIsLost, ContentIsWhole, RecordsAreNew, KindFits, Committed, Done, Pending,
       Running, Bypassed, Idle
  <2> QED
    BY <2>1, <2>2, <2>3 DEF Exclusive
<1>8. chaos' \in BOOLEAN
  BY <1>1 DEF TypeOK
<1> QED
  BY <1>1, <1>2, <1>3, <1>4, <1>5, <1>6, <1>7, <1>8 DEF IInv

LEMMA SnapshotKeeps == ASSUME IInv, Snapshot PROVE IInv'
<1>1. TypeOK'
  BY WritersAssumption, BoundsAssumption, HunksAreAll DEF IInv, Snapshot, TypeOK,
     Transactions, Kinds, Files, Pcs, KindFits, Updates, Idle
<1>2. KindFits'
  BY DEF IInv, Snapshot, TypeOK, Transactions, Kinds, Files, Pcs, KindFits, Idle
<1>3. RecordsAreNew'
  BY HunksDiffer, WritersAssumption, BoundsAssumption DEF IInv, Snapshot, TypeOK,
     Transactions, Kinds, Files, Pcs, KindFits, RecordsAreNew, Idle, Commands
<1>4. PublicationIsNewer'
  BY DEF IInv, Snapshot, TypeOK, Transactions, Kinds, Files, Pcs, PublicationIsNewer,
     Idle
<1>5. SetsAreWhole'
  BY HunksDiffer, UpdatesDiffer DEF IInv, Snapshot, TypeOK, Transactions, Kinds, Files,
     Pcs, SetsAreWhole, PublicationIsNewer, Whole, Idle
<1>6. CASE chaos
  <2>1. chaos'
    BY <1>6 DEF Snapshot
  <2> QED
    BY <2>1, <1>1, <1>2, <1>3, <1>4, <1>5 DEF IInv
<1>7. ASSUME Exclusive, ~chaos' PROVE Exclusive'
  <2>1. LockHolds'
    BY <1>7, WritersAssumption DEF IInv, Exclusive, Snapshot, TypeOK, Transactions,
       Kinds, Files, Pcs, LockHolds, Live, Idle, Commands
  <2>2. NothingIsLost'
    BY <1>7, HunksDiffer, WritersAssumption, BoundsAssumption DEF IInv, Exclusive,
       Snapshot, TypeOK, Transactions, Kinds, Files, Pcs, LockHolds, NothingIsLost,
       ContentIsWhole, RecordsAreNew, PublicationIsNewer, KindFits, Committed, Done,
       Pending, Running, Bypassed, Idle
  <2>3. ContentIsWhole'
    BY <1>7, HunksDiffer, WritersAssumption, BoundsAssumption DEF IInv, Exclusive,
       Snapshot, TypeOK, Transactions, Kinds, Files, Pcs, LockHolds, NothingIsLost,
       ContentIsWhole, RecordsAreNew, KindFits, Committed, Done, Pending, Running,
       Bypassed, Idle
  <2> QED
    BY <2>1, <2>2, <2>3 DEF Exclusive
<1>8. chaos' \in BOOLEAN
  BY <1>1 DEF TypeOK
<1> QED
  BY <1>1, <1>2, <1>3, <1>4, <1>5, <1>6, <1>7, <1>8 DEF IInv

LEMMA StageKeeps == ASSUME IInv, Stage PROVE IInv'
<1>1. TypeOK'
  BY WritersAssumption, BoundsAssumption, HunksAreAll DEF IInv, Stage, Unstaged, TypeOK,
     Transactions, Kinds, Files, Pcs, KindFits, Updates, Idle
<1>2. KindFits'
  BY DEF IInv, Stage, Unstaged, TypeOK, Transactions, Kinds, Files, Pcs, KindFits, Idle
<1>3. RecordsAreNew'
  BY HunksDiffer, WritersAssumption, BoundsAssumption DEF IInv, Stage, Unstaged, TypeOK,
     Transactions, Kinds, Files, Pcs, KindFits, RecordsAreNew, Idle, Commands
<1>4. PublicationIsNewer'
  BY DEF IInv, Stage, Unstaged, TypeOK, Transactions, Kinds, Files, Pcs,
     PublicationIsNewer, Idle
<1>5. SetsAreWhole'
  BY HunksDiffer, UpdatesDiffer DEF IInv, Stage, Unstaged, TypeOK, Transactions, Kinds,
     Files, Pcs, SetsAreWhole, PublicationIsNewer, Whole, Idle
<1>6. CASE chaos
  <2>1. chaos'
    BY <1>6 DEF Stage, Unstaged
  <2> QED
    BY <2>1, <1>1, <1>2, <1>3, <1>4, <1>5 DEF IInv
<1>7. ASSUME Exclusive, ~chaos' PROVE Exclusive'
  <2>1. LockHolds'
    BY <1>7, WritersAssumption DEF IInv, Exclusive, Stage, Unstaged, TypeOK,
       Transactions, Kinds, Files, Pcs, LockHolds, Live, Idle, Commands
  <2>2. NothingIsLost'
    BY <1>7, HunksDiffer, WritersAssumption, BoundsAssumption DEF IInv, Exclusive,
       Stage, Unstaged, TypeOK, Transactions, Kinds, Files, Pcs, LockHolds,
       NothingIsLost, ContentIsWhole, RecordsAreNew, PublicationIsNewer, KindFits,
       Committed, Done, Pending, Running, Bypassed, Idle
  <2>3. ContentIsWhole'
    BY <1>7, HunksDiffer, WritersAssumption, BoundsAssumption DEF IInv, Exclusive,
       Stage, Unstaged, TypeOK, Transactions, Kinds, Files, Pcs, LockHolds,
       NothingIsLost, ContentIsWhole, RecordsAreNew, KindFits, Committed, Done, Pending,
       Running, Bypassed, Idle
  <2> QED
    BY <2>1, <2>2, <2>3 DEF Exclusive
<1>8. chaos' \in BOOLEAN
  BY <1>1 DEF TypeOK
<1> QED
  BY <1>1, <1>2, <1>3, <1>4, <1>5, <1>6, <1>7, <1>8 DEF IInv

LEMMA MatchesSnapshotKeeps == ASSUME IInv, MatchesSnapshot PROVE IInv'
<1>1. TypeOK'
  BY WritersAssumption, BoundsAssumption, HunksAreAll DEF IInv, MatchesSnapshot,
     Unstaged, TypeOK, Transactions, Kinds, Files, Pcs, KindFits, Updates, Idle
<1>2. KindFits'
  BY DEF IInv, MatchesSnapshot, Unstaged, TypeOK, Transactions, Kinds, Files, Pcs,
     KindFits, Idle
<1>3. RecordsAreNew'
  BY HunksDiffer, WritersAssumption, BoundsAssumption DEF IInv, MatchesSnapshot,
     Unstaged, TypeOK, Transactions, Kinds, Files, Pcs, KindFits, RecordsAreNew, Idle,
     Commands
<1>4. PublicationIsNewer'
  BY DEF IInv, MatchesSnapshot, Unstaged, TypeOK, Transactions, Kinds, Files, Pcs,
     PublicationIsNewer, Idle
<1>5. SetsAreWhole'
  BY HunksDiffer, UpdatesDiffer DEF IInv, MatchesSnapshot, Unstaged, TypeOK,
     Transactions, Kinds, Files, Pcs, SetsAreWhole, PublicationIsNewer, Whole, Idle
<1>6. CASE chaos
  <2>1. chaos'
    BY <1>6 DEF MatchesSnapshot, Unstaged
  <2> QED
    BY <2>1, <1>1, <1>2, <1>3, <1>4, <1>5 DEF IInv
<1>7. ASSUME Exclusive, ~chaos' PROVE Exclusive'
  <2>1. LockHolds'
    BY <1>7, WritersAssumption DEF IInv, Exclusive, MatchesSnapshot, Unstaged, TypeOK,
       Transactions, Kinds, Files, Pcs, LockHolds, Live, Idle, Commands
  <2>2. NothingIsLost'
    BY <1>7, HunksDiffer, WritersAssumption, BoundsAssumption DEF IInv, Exclusive,
       MatchesSnapshot, Unstaged, TypeOK, Transactions, Kinds, Files, Pcs, LockHolds,
       NothingIsLost, ContentIsWhole, RecordsAreNew, PublicationIsNewer, KindFits,
       Committed, Done, Pending, Running, Bypassed, Idle
  <2>3. ContentIsWhole'
    BY <1>7, HunksDiffer, WritersAssumption, BoundsAssumption DEF IInv, Exclusive,
       MatchesSnapshot, Unstaged, TypeOK, Transactions, Kinds, Files, Pcs, LockHolds,
       NothingIsLost, ContentIsWhole, RecordsAreNew, KindFits, Committed, Done, Pending,
       Running, Bypassed, Idle
  <2> QED
    BY <2>1, <2>2, <2>3 DEF Exclusive
<1>8. chaos' \in BOOLEAN
  BY <1>1 DEF TypeOK
<1> QED
  BY <1>1, <1>2, <1>3, <1>4, <1>5, <1>6, <1>7, <1>8 DEF IInv

LEMMA ReplaceKeeps == ASSUME IInv, Replace PROVE IInv'
<1>1. TypeOK'
  BY WritersAssumption, BoundsAssumption, HunksAreAll DEF IInv, Replace, TypeOK,
     Transactions, Kinds, Files, Pcs, KindFits, Updates, Idle
<1>2. KindFits'
  BY DEF IInv, Replace, TypeOK, Transactions, Kinds, Files, Pcs, KindFits, Idle
<1>3. RecordsAreNew'
  BY HunksDiffer, WritersAssumption, BoundsAssumption DEF IInv, Replace, TypeOK,
     Transactions, Kinds, Files, Pcs, KindFits, RecordsAreNew, Idle, Commands
<1>4. PublicationIsNewer'
  BY DEF IInv, Replace, TypeOK, Transactions, Kinds, Files, Pcs, PublicationIsNewer,
     Idle
<1>5. SetsAreWhole'
  BY HunksDiffer, UpdatesDiffer DEF IInv, Replace, TypeOK, Transactions, Kinds, Files,
     Pcs, SetsAreWhole, PublicationIsNewer, Whole, Idle
<1>6. CASE chaos
  <2>1. chaos'
    BY <1>6 DEF Replace
  <2> QED
    BY <2>1, <1>1, <1>2, <1>3, <1>4, <1>5 DEF IInv
<1>7. ASSUME Exclusive, ~chaos' PROVE Exclusive'
  <2>1. LockHolds'
    BY <1>7, WritersAssumption DEF IInv, Exclusive, Replace, TypeOK, Transactions,
       Kinds, Files, Pcs, LockHolds, Live, Idle, Commands
  <2>2. NothingIsLost'
    BY <1>7, HunksDiffer, WritersAssumption, BoundsAssumption DEF IInv, Exclusive,
       Replace, TypeOK, Transactions, Kinds, Files, Pcs, LockHolds, NothingIsLost,
       ContentIsWhole, RecordsAreNew, PublicationIsNewer, KindFits, Committed, Done,
       Pending, Running, Bypassed, Idle
  <2>3. ContentIsWhole'
    BY <1>7, HunksDiffer, WritersAssumption, BoundsAssumption DEF IInv, Exclusive,
       Replace, TypeOK, Transactions, Kinds, Files, Pcs, LockHolds, NothingIsLost,
       ContentIsWhole, RecordsAreNew, KindFits, Committed, Done, Pending, Running,
       Bypassed, Idle
  <2> QED
    BY <2>1, <2>2, <2>3 DEF Exclusive
<1>8. chaos' \in BOOLEAN
  BY <1>1 DEF TypeOK
<1> QED
  BY <1>1, <1>2, <1>3, <1>4, <1>5, <1>6, <1>7, <1>8 DEF IInv

LEMMA FsyncKeeps == ASSUME IInv, Fsync PROVE IInv'
<1>1. TypeOK'
  BY WritersAssumption, BoundsAssumption, HunksAreAll DEF IInv, Fsync, TypeOK,
     Transactions, Kinds, Files, Pcs, KindFits, Updates, Idle
<1>2. KindFits'
  BY DEF IInv, Fsync, TypeOK, Transactions, Kinds, Files, Pcs, KindFits, Idle
<1>3. RecordsAreNew'
  BY HunksDiffer, WritersAssumption, BoundsAssumption DEF IInv, Fsync, TypeOK,
     Transactions, Kinds, Files, Pcs, KindFits, RecordsAreNew, Idle, Commands
<1>4. PublicationIsNewer'
  BY DEF IInv, Fsync, TypeOK, Transactions, Kinds, Files, Pcs, PublicationIsNewer, Idle
<1>5. SetsAreWhole'
  BY HunksDiffer, UpdatesDiffer DEF IInv, Fsync, TypeOK, Transactions, Kinds, Files,
     Pcs, SetsAreWhole, PublicationIsNewer, Whole, Idle
<1>6. CASE chaos
  <2>1. chaos'
    BY <1>6 DEF Fsync
  <2> QED
    BY <2>1, <1>1, <1>2, <1>3, <1>4, <1>5 DEF IInv
<1>7. ASSUME Exclusive, ~chaos' PROVE Exclusive'
  <2>1. LockHolds'
    BY <1>7, WritersAssumption DEF IInv, Exclusive, Fsync, TypeOK, Transactions, Kinds,
       Files, Pcs, LockHolds, Live, Idle, Commands
  <2>2. NothingIsLost'
    BY <1>7, HunksDiffer, WritersAssumption, BoundsAssumption DEF IInv, Exclusive,
       Fsync, TypeOK, Transactions, Kinds, Files, Pcs, LockHolds, NothingIsLost,
       ContentIsWhole, RecordsAreNew, PublicationIsNewer, KindFits, Committed, Done,
       Pending, Running, Bypassed, Idle
  <2>3. ContentIsWhole'
    BY <1>7, HunksDiffer, WritersAssumption, BoundsAssumption DEF IInv, Exclusive,
       Fsync, TypeOK, Transactions, Kinds, Files, Pcs, LockHolds, NothingIsLost,
       ContentIsWhole, RecordsAreNew, KindFits, Committed, Done, Pending, Running,
       Bypassed, Idle
  <2> QED
    BY <2>1, <2>2, <2>3 DEF Exclusive
<1>8. chaos' \in BOOLEAN
  BY <1>1 DEF TypeOK
<1> QED
  BY <1>1, <1>2, <1>3, <1>4, <1>5, <1>6, <1>7, <1>8 DEF IInv

LEMMA RecordKeeps == ASSUME IInv, Record PROVE IInv'
<1>1. TypeOK'
  BY WritersAssumption, BoundsAssumption, HunksAreAll DEF IInv, Record, Unrecorded,
     TypeOK, Transactions, Kinds, Files, Pcs, KindFits, Updates, Idle
<1>2. KindFits'
  BY DEF IInv, Record, Unrecorded, TypeOK, Transactions, Kinds, Files, Pcs, KindFits,
     Idle
<1>3. RecordsAreNew'
  BY HunksDiffer, WritersAssumption, BoundsAssumption DEF IInv, Record, Unrecorded,
     TypeOK, Transactions, Kinds, Files, Pcs, KindFits, RecordsAreNew, Idle, Commands
<1>4. PublicationIsNewer'
  BY DEF IInv, Record, Unrecorded, TypeOK, Transactions, Kinds, Files, Pcs,
     PublicationIsNewer, Idle
<1>5. SetsAreWhole'
  BY HunksDiffer, UpdatesDiffer DEF IInv, Record, Unrecorded, TypeOK, Transactions,
     Kinds, Files, Pcs, SetsAreWhole, PublicationIsNewer, Whole, Idle
<1>6. CASE chaos
  <2>1. chaos'
    BY <1>6 DEF Record, Unrecorded
  <2> QED
    BY <2>1, <1>1, <1>2, <1>3, <1>4, <1>5 DEF IInv
<1>7. ASSUME Exclusive, ~chaos' PROVE Exclusive'
  <2>1. LockHolds'
    BY <1>7, WritersAssumption DEF IInv, Exclusive, Record, Unrecorded, TypeOK,
       Transactions, Kinds, Files, Pcs, LockHolds, Live, Idle, Commands
  <2>2. NothingIsLost'
    BY <1>7, HunksDiffer, WritersAssumption, BoundsAssumption DEF IInv, Exclusive,
       Record, Unrecorded, TypeOK, Transactions, Kinds, Files, Pcs, LockHolds,
       NothingIsLost, ContentIsWhole, RecordsAreNew, PublicationIsNewer, KindFits,
       Committed, Done, Pending, Running, Bypassed, Idle
  <2>3. ContentIsWhole'
    BY <1>7, HunksDiffer, WritersAssumption, BoundsAssumption DEF IInv, Exclusive,
       Record, Unrecorded, TypeOK, Transactions, Kinds, Files, Pcs, LockHolds,
       NothingIsLost, ContentIsWhole, RecordsAreNew, KindFits, Committed, Done, Pending,
       Running, Bypassed, Idle
  <2> QED
    BY <2>1, <2>2, <2>3 DEF Exclusive
<1>8. chaos' \in BOOLEAN
  BY <1>1 DEF TypeOK
<1> QED
  BY <1>1, <1>2, <1>3, <1>4, <1>5, <1>6, <1>7, <1>8 DEF IInv

LEMMA FinalizeKeeps == ASSUME IInv, Finalize PROVE IInv'
<1>1. TypeOK'
  <2>1. tx' \in Transactions /\ tx'.baseline \subseteq tx'.private /\ (tx'.pc = "out" \/ tx'.n \in Commands)
    <3>0. tx \in Transactions /\ tx.n \in 0 .. MaxCommands
      BY DEF IInv, TypeOK, Transactions
    <3>1. CASE tx.kind = "git"
      BY <3>0, <3>1, IdleFits DEF Finalize, Transactions, Pcs, IInv, TypeOK
    <3>2. CASE ~(tx.kind = "git")
      BY <3>0, <3>2, IdleFits DEF Finalize, Transactions, Pcs, IInv, TypeOK
    <3> QED
      BY <3>1, <3>2
  <2> QED
    BY <2>1 DEF IInv, TypeOK, Finalize
<1>2. KindFits'
  BY DEF IInv, Finalize, Unrecorded, TypeOK, Transactions, Kinds, Files, Pcs, KindFits,
     Idle
<1>3. RecordsAreNew'
  BY HunksDiffer, WritersAssumption, BoundsAssumption DEF IInv, Finalize, Unrecorded,
     TypeOK, Transactions, Kinds, Files, Pcs, KindFits, RecordsAreNew, Idle, Commands
<1>4. PublicationIsNewer'
  BY DEF IInv, Finalize, Unrecorded, TypeOK, Transactions, Kinds, Files, Pcs,
     PublicationIsNewer, Idle
<1>5. SetsAreWhole'
  BY HunksDiffer, UpdatesDiffer DEF IInv, Finalize, Unrecorded, TypeOK, Transactions,
     Kinds, Files, Pcs, SetsAreWhole, PublicationIsNewer, Whole, Idle
<1>6. CASE chaos
  <2>1. chaos'
    BY <1>6 DEF Finalize, Unrecorded
  <2> QED
    BY <2>1, <1>1, <1>2, <1>3, <1>4, <1>5 DEF IInv
<1>7. ASSUME Exclusive, ~chaos' PROVE Exclusive'
  <2>1. LockHolds'
    BY <1>7, WritersAssumption DEF IInv, Exclusive, Finalize, Unrecorded, TypeOK,
       Transactions, Kinds, Files, Pcs, LockHolds, Live, Idle, Commands
  <2>2. NothingIsLost'
    BY <1>7, HunksDiffer, WritersAssumption, BoundsAssumption DEF IInv, Exclusive,
       Finalize, Unrecorded, TypeOK, Transactions, Kinds, Files, Pcs, LockHolds,
       NothingIsLost, ContentIsWhole, RecordsAreNew, PublicationIsNewer, KindFits,
       Committed, Done, Pending, Running, Bypassed, Idle
  <2>3. ContentIsWhole'
    BY <1>7, HunksDiffer, WritersAssumption, BoundsAssumption DEF IInv, Exclusive,
       Finalize, Unrecorded, TypeOK, Transactions, Kinds, Files, Pcs, LockHolds,
       NothingIsLost, ContentIsWhole, RecordsAreNew, KindFits, Committed, Done, Pending,
       Running, Bypassed, Idle
  <2> QED
    BY <2>1, <2>2, <2>3 DEF Exclusive
<1>8. chaos' \in BOOLEAN
  BY <1>1 DEF TypeOK
<1> QED
  BY <1>1, <1>2, <1>3, <1>4, <1>5, <1>6, <1>7, <1>8 DEF IInv

LEMMA UnwindKeeps == ASSUME IInv, Unwind PROVE IInv'
<1>1. TypeOK'
  BY WritersAssumption, BoundsAssumption, HunksAreAll DEF IInv, Unwind, TypeOK,
     Transactions, Kinds, Files, Pcs, KindFits, Updates, Idle
<1>2. KindFits'
  BY DEF IInv, Unwind, TypeOK, Transactions, Kinds, Files, Pcs, KindFits, Idle
<1>3. RecordsAreNew'
  BY HunksDiffer, WritersAssumption, BoundsAssumption DEF IInv, Unwind, TypeOK,
     Transactions, Kinds, Files, Pcs, KindFits, RecordsAreNew, Idle, Commands
<1>4. PublicationIsNewer'
  BY DEF IInv, Unwind, TypeOK, Transactions, Kinds, Files, Pcs, PublicationIsNewer, Idle
<1>5. SetsAreWhole'
  BY HunksDiffer, UpdatesDiffer DEF IInv, Unwind, TypeOK, Transactions, Kinds, Files,
     Pcs, SetsAreWhole, PublicationIsNewer, Whole, Idle
<1>6. CASE chaos
  <2>1. chaos'
    BY <1>6 DEF Unwind
  <2> QED
    BY <2>1, <1>1, <1>2, <1>3, <1>4, <1>5 DEF IInv
<1>7. ASSUME Exclusive, ~chaos' PROVE Exclusive'
  <2>1. LockHolds'
    BY <1>7, WritersAssumption DEF IInv, Exclusive, Unwind, TypeOK, Transactions, Kinds,
       Files, Pcs, LockHolds, Live, Idle, Commands
  <2>2. NothingIsLost'
    BY <1>7, HunksDiffer, WritersAssumption, BoundsAssumption DEF IInv, Exclusive,
       Unwind, TypeOK, Transactions, Kinds, Files, Pcs, LockHolds, NothingIsLost,
       ContentIsWhole, RecordsAreNew, PublicationIsNewer, KindFits, Committed, Done,
       Pending, Running, Bypassed, Idle
  <2>3. ContentIsWhole'
    BY <1>7, HunksDiffer, WritersAssumption, BoundsAssumption DEF IInv, Exclusive,
       Unwind, TypeOK, Transactions, Kinds, Files, Pcs, LockHolds, NothingIsLost,
       ContentIsWhole, RecordsAreNew, KindFits, Committed, Done, Pending, Running,
       Bypassed, Idle
  <2> QED
    BY <2>1, <2>2, <2>3 DEF Exclusive
<1>8. chaos' \in BOOLEAN
  BY <1>1 DEF TypeOK
<1> QED
  BY <1>1, <1>2, <1>3, <1>4, <1>5, <1>6, <1>7, <1>8 DEF IInv

LEMMA StatLockKeeps == ASSUME IInv, StatLock PROVE IInv'
<1>1. TypeOK'
  <2>1. tx' \in Transactions /\ tx'.baseline \subseteq tx'.private /\ (tx'.pc = "out" \/ tx'.n \in Commands)
    <3>0. tx \in Transactions /\ tx.n \in 0 .. MaxCommands
      BY DEF IInv, TypeOK, Transactions
    <3>1. CASE lockfile.by # tx.n
      BY <3>0, <3>1, IdleFits DEF StatLock, Transactions, Pcs, IInv, TypeOK
    <3>2. CASE ~(lockfile.by # tx.n)
      BY <3>0, <3>2, IdleFits DEF StatLock, Transactions, Pcs, IInv, TypeOK
    <3> QED
      BY <3>1, <3>2
  <2> QED
    BY <2>1 DEF IInv, TypeOK, StatLock
<1>2. KindFits'
  BY DEF IInv, StatLock, TypeOK, Transactions, Kinds, Files, Pcs, KindFits, Idle
<1>3. RecordsAreNew'
  BY HunksDiffer, WritersAssumption, BoundsAssumption DEF IInv, StatLock, TypeOK,
     Transactions, Kinds, Files, Pcs, KindFits, RecordsAreNew, Idle, Commands
<1>4. PublicationIsNewer'
  BY DEF IInv, StatLock, TypeOK, Transactions, Kinds, Files, Pcs, PublicationIsNewer,
     Idle
<1>5. SetsAreWhole'
  BY HunksDiffer, UpdatesDiffer DEF IInv, StatLock, TypeOK, Transactions, Kinds, Files,
     Pcs, SetsAreWhole, PublicationIsNewer, Whole, Idle
<1>6. CASE chaos
  <2>1. chaos'
    BY <1>6 DEF StatLock
  <2> QED
    BY <2>1, <1>1, <1>2, <1>3, <1>4, <1>5 DEF IInv
<1>7. ASSUME Exclusive, ~chaos' PROVE Exclusive'
  <2>1. LockHolds'
    BY <1>7, WritersAssumption DEF IInv, Exclusive, StatLock, TypeOK, Transactions,
       Kinds, Files, Pcs, LockHolds, Live, Idle, Commands
  <2>2. NothingIsLost'
    BY <1>7, HunksDiffer, WritersAssumption, BoundsAssumption DEF IInv, Exclusive,
       StatLock, TypeOK, Transactions, Kinds, Files, Pcs, LockHolds, NothingIsLost,
       ContentIsWhole, RecordsAreNew, PublicationIsNewer, KindFits, Committed, Done,
       Pending, Running, Bypassed, Idle
  <2>3. ContentIsWhole'
    BY <1>7, HunksDiffer, WritersAssumption, BoundsAssumption DEF IInv, Exclusive,
       StatLock, TypeOK, Transactions, Kinds, Files, Pcs, LockHolds, NothingIsLost,
       ContentIsWhole, RecordsAreNew, KindFits, Committed, Done, Pending, Running,
       Bypassed, Idle
  <2> QED
    BY <2>1, <2>2, <2>3 DEF Exclusive
<1>8. chaos' \in BOOLEAN
  BY <1>1 DEF TypeOK
<1> QED
  BY <1>1, <1>2, <1>3, <1>4, <1>5, <1>6, <1>7, <1>8 DEF IInv

LEMMA UnlinkLockKeeps == ASSUME IInv, UnlinkLock PROVE IInv'
<1>1. TypeOK'
  BY WritersAssumption, BoundsAssumption, HunksAreAll DEF IInv, UnlinkLock, NoFile,
     TypeOK, Transactions, Kinds, Files, Pcs, KindFits, Updates, Idle
<1>2. KindFits'
  BY DEF IInv, UnlinkLock, NoFile, TypeOK, Transactions, Kinds, Files, Pcs, KindFits,
     Idle
<1>3. RecordsAreNew'
  BY HunksDiffer, WritersAssumption, BoundsAssumption DEF IInv, UnlinkLock, NoFile,
     TypeOK, Transactions, Kinds, Files, Pcs, KindFits, RecordsAreNew, Idle, Commands
<1>4. PublicationIsNewer'
  BY DEF IInv, UnlinkLock, NoFile, TypeOK, Transactions, Kinds, Files, Pcs,
     PublicationIsNewer, Idle
<1>5. SetsAreWhole'
  BY HunksDiffer, UpdatesDiffer DEF IInv, UnlinkLock, NoFile, TypeOK, Transactions,
     Kinds, Files, Pcs, SetsAreWhole, PublicationIsNewer, Whole, Idle
<1>6. CASE chaos
  <2>1. chaos'
    BY <1>6 DEF UnlinkLock, NoFile
  <2> QED
    BY <2>1, <1>1, <1>2, <1>3, <1>4, <1>5 DEF IInv
<1>7. ASSUME Exclusive, ~chaos' PROVE Exclusive'
  <2>1. LockHolds'
    BY <1>7, WritersAssumption DEF IInv, Exclusive, UnlinkLock, NoFile, TypeOK,
       Transactions, Kinds, Files, Pcs, LockHolds, Live, Idle, Commands
  <2>2. NothingIsLost'
    BY <1>7, HunksDiffer, WritersAssumption, BoundsAssumption DEF IInv, Exclusive,
       UnlinkLock, NoFile, TypeOK, Transactions, Kinds, Files, Pcs, LockHolds,
       NothingIsLost, ContentIsWhole, RecordsAreNew, PublicationIsNewer, KindFits,
       Committed, Done, Pending, Running, Bypassed, Idle
  <2>3. ContentIsWhole'
    BY <1>7, HunksDiffer, WritersAssumption, BoundsAssumption DEF IInv, Exclusive,
       UnlinkLock, NoFile, TypeOK, Transactions, Kinds, Files, Pcs, LockHolds,
       NothingIsLost, ContentIsWhole, RecordsAreNew, KindFits, Committed, Done, Pending,
       Running, Bypassed, Idle
  <2> QED
    BY <2>1, <2>2, <2>3 DEF Exclusive
<1>8. chaos' \in BOOLEAN
  BY <1>1 DEF TypeOK
<1> QED
  BY <1>1, <1>2, <1>3, <1>4, <1>5, <1>6, <1>7, <1>8 DEF IInv

LEMMA FailKeeps == ASSUME IInv, Fail PROVE IInv'
<1>1. TypeOK'
  <2>1. tx' \in Transactions /\ tx'.baseline \subseteq tx'.private /\ (tx'.pc = "out" \/ tx'.n \in Commands)
    <3>0. tx \in Transactions /\ tx.n \in 0 .. MaxCommands
      BY DEF IInv, TypeOK, Transactions
    <3>1. CASE tx.kind = "git"
      BY <3>0, <3>1, IdleFits DEF Fail, Transactions, Pcs, IInv, TypeOK
    <3>2. CASE ~(tx.kind = "git")
      BY <3>0, <3>2, IdleFits DEF Fail, Transactions, Pcs, IInv, TypeOK
    <3> QED
      BY <3>1, <3>2
  <2> QED
    BY <2>1 DEF IInv, TypeOK, Fail
<1>2. KindFits'
  BY DEF IInv, Fail, TypeOK, Transactions, Kinds, Files, Pcs, KindFits, Idle
<1>3. RecordsAreNew'
  <2>1. CASE tx.kind = "git"
    BY <2>1 DEF IInv, Fail, RecordsAreNew, Idle
  <2>2. CASE tx.kind # "git" /\ tx.pc # "snapshot"
    BY <2>2 DEF IInv, Fail, TypeOK, Transactions, RecordsAreNew
  <2>3. CASE tx.kind # "git" /\ tx.pc = "snapshot"
    BY <2>3 DEF IInv, Fail, TypeOK, Transactions, RecordsAreNew
  <2> QED
    BY <2>1, <2>2, <2>3
<1>4. PublicationIsNewer'
  BY DEF IInv, Fail, TypeOK, Transactions, Kinds, Files, Pcs, PublicationIsNewer, Idle
<1>5. SetsAreWhole'
  BY HunksDiffer, UpdatesDiffer DEF IInv, Fail, TypeOK, Transactions, Kinds, Files, Pcs,
     SetsAreWhole, PublicationIsNewer, Whole, Idle
<1>6. CASE chaos
  <2>1. chaos'
    BY <1>6 DEF Fail
  <2> QED
    BY <2>1, <1>1, <1>2, <1>3, <1>4, <1>5 DEF IInv
<1>7. ASSUME Exclusive, ~chaos' PROVE Exclusive'
  <2>1. LockHolds'
    BY <1>7, WritersAssumption DEF IInv, Exclusive, Fail, TypeOK, Transactions, Kinds,
       Files, Pcs, LockHolds, Live, Idle, Commands
  <2>2. NothingIsLost'
    BY <1>7, HunksDiffer, WritersAssumption, BoundsAssumption DEF IInv, Exclusive, Fail,
       TypeOK, Transactions, Kinds, Files, Pcs, LockHolds, NothingIsLost,
       ContentIsWhole, RecordsAreNew, PublicationIsNewer, KindFits, Committed, Done,
       Pending, Running, Bypassed, Idle
  <2>3. ContentIsWhole'
    BY <1>7, HunksDiffer, WritersAssumption, BoundsAssumption DEF IInv, Exclusive, Fail,
       TypeOK, Transactions, Kinds, Files, Pcs, LockHolds, NothingIsLost,
       ContentIsWhole, RecordsAreNew, KindFits, Committed, Done, Pending, Running,
       Bypassed, Idle
  <2> QED
    BY <2>1, <2>2, <2>3 DEF Exclusive
<1>8. chaos' \in BOOLEAN
  BY <1>1 DEF TypeOK
<1> QED
  BY <1>1, <1>2, <1>3, <1>4, <1>5, <1>6, <1>7, <1>8 DEF IInv

LEMMA DieKeeps == ASSUME IInv, Die PROVE IInv'
<1>1. TypeOK'
  BY WritersAssumption, BoundsAssumption, HunksAreAll DEF IInv, Die, TypeOK,
     Transactions, Kinds, Files, Pcs, KindFits, Updates, Idle
<1>2. KindFits'
  BY DEF IInv, Die, TypeOK, Transactions, Kinds, Files, Pcs, KindFits, Idle
<1>3. RecordsAreNew'
  BY HunksDiffer, WritersAssumption, BoundsAssumption DEF IInv, Die, TypeOK,
     Transactions, Kinds, Files, Pcs, KindFits, RecordsAreNew, Idle, Commands
<1>4. PublicationIsNewer'
  BY DEF IInv, Die, TypeOK, Transactions, Kinds, Files, Pcs, PublicationIsNewer, Idle
<1>5. SetsAreWhole'
  BY HunksDiffer, UpdatesDiffer DEF IInv, Die, TypeOK, Transactions, Kinds, Files, Pcs,
     SetsAreWhole, PublicationIsNewer, Whole, Idle
<1>6. CASE chaos
  <2>1. chaos'
    BY <1>6 DEF Die
  <2> QED
    BY <2>1, <1>1, <1>2, <1>3, <1>4, <1>5 DEF IInv
<1>7. ASSUME Exclusive, ~chaos' PROVE Exclusive'
  <2>1. LockHolds'
    BY <1>7, WritersAssumption DEF IInv, Exclusive, Die, TypeOK, Transactions, Kinds,
       Files, Pcs, LockHolds, Live, Idle, Commands
  <2>2. NothingIsLost'
    BY <1>7, HunksDiffer, WritersAssumption, BoundsAssumption DEF IInv, Exclusive, Die,
       TypeOK, Transactions, Kinds, Files, Pcs, LockHolds, NothingIsLost,
       ContentIsWhole, RecordsAreNew, PublicationIsNewer, KindFits, Committed, Done,
       Pending, Running, Bypassed, Idle
  <2>3. ContentIsWhole'
    BY <1>7, HunksDiffer, WritersAssumption, BoundsAssumption DEF IInv, Exclusive, Die,
       TypeOK, Transactions, Kinds, Files, Pcs, LockHolds, NothingIsLost,
       ContentIsWhole, RecordsAreNew, KindFits, Committed, Done, Pending, Running,
       Bypassed, Idle
  <2> QED
    BY <2>1, <2>2, <2>3 DEF Exclusive
<1>8. chaos' \in BOOLEAN
  BY <1>1 DEF TypeOK
<1> QED
  BY <1>1, <1>2, <1>3, <1>4, <1>5, <1>6, <1>7, <1>8 DEF IInv

LEMMA RemoveLockKeeps == ASSUME IInv, RemoveLock PROVE IInv'
<1>1. TypeOK'
  BY WritersAssumption, BoundsAssumption, HunksAreAll DEF IInv, RemoveLock, Free,
     NoFile, Live, TypeOK, Transactions, Kinds, Files, Pcs, KindFits, Updates, Idle
<1>2. KindFits'
  BY DEF IInv, RemoveLock, Free, NoFile, Live, TypeOK, Transactions, Kinds, Files, Pcs,
     KindFits, Idle
<1>3. RecordsAreNew'
  BY HunksDiffer, WritersAssumption, BoundsAssumption DEF IInv, RemoveLock, Free,
     NoFile, Live, TypeOK, Transactions, Kinds, Files, Pcs, KindFits, RecordsAreNew,
     Idle, Commands
<1>4. PublicationIsNewer'
  BY DEF IInv, RemoveLock, Free, NoFile, Live, TypeOK, Transactions, Kinds, Files, Pcs,
     PublicationIsNewer, Idle
<1>5. SetsAreWhole'
  BY HunksDiffer, UpdatesDiffer DEF IInv, RemoveLock, Free, NoFile, Live, TypeOK,
     Transactions, Kinds, Files, Pcs, SetsAreWhole, PublicationIsNewer, Whole, Idle
<1>6. CASE chaos
  <2>1. chaos'
    BY <1>6 DEF RemoveLock, Free, NoFile, Live
  <2> QED
    BY <2>1, <1>1, <1>2, <1>3, <1>4, <1>5 DEF IInv
<1>7. ASSUME Exclusive, ~chaos' PROVE Exclusive'
  <2>1. LockHolds'
    <3>1. tx.pc # "unlink"
      BY <1>7 DEF RemoveLock
    <3>2. CASE Live(lockfile.by)
      <4>1. lockfile.by = tx.n /\ tx.kind # "git" /\ Hunks(tx.n) \subseteq excused'
        BY <3>2 DEF RemoveLock
      <4>2. \A g \in Gits : git[g] \notin {"read", "rename"}
        BY <1>7, <4>1, WritersAssumption DEF Exclusive, LockHolds, IInv, TypeOK, Transactions
      <4> QED
        BY <3>1, <4>1, <4>2 DEF LockHolds, RemoveLock, IInv, KindFits
    <3>3. CASE ~Live(lockfile.by)
      BY <1>7, <3>1, <3>3 DEF LockHolds, Exclusive, RemoveLock, Live, IInv, KindFits
    <3> QED
      BY <3>2, <3>3
  <2>2. NothingIsLost'
    BY <1>7, HunksDiffer, WritersAssumption, BoundsAssumption DEF IInv, Exclusive,
       RemoveLock, Free, NoFile, Live, TypeOK, Transactions, Kinds, Files, Pcs,
       LockHolds, NothingIsLost, ContentIsWhole, RecordsAreNew, PublicationIsNewer,
       KindFits, Committed, Done, Pending, Running, Bypassed, Idle
  <2>3. ContentIsWhole'
    BY <1>7, HunksDiffer, WritersAssumption, BoundsAssumption DEF IInv, Exclusive,
       RemoveLock, Free, NoFile, Live, TypeOK, Transactions, Kinds, Files, Pcs,
       LockHolds, NothingIsLost, ContentIsWhole, RecordsAreNew, KindFits, Committed,
       Done, Pending, Running, Bypassed, Idle
  <2> QED
    BY <2>1, <2>2, <2>3 DEF Exclusive
<1>8. chaos' \in BOOLEAN
  BY <1>1 DEF TypeOK
<1> QED
  BY <1>1, <1>2, <1>3, <1>4, <1>5, <1>6, <1>7, <1>8 DEF IInv

LEMMA OtherStartsKeeps == ASSUME NEW g \in Gits, IInv, OtherStarts(g) PROVE IInv'
<1>1. TypeOK'
  BY WritersAssumption, BoundsAssumption, HunksAreAll DEF IInv, OtherStarts, Free,
     NoFile, OwnFile, TypeOK, Transactions, Kinds, Files, Pcs, KindFits, Updates, Idle
<1>2. KindFits'
  BY DEF IInv, OtherStarts, Free, NoFile, OwnFile, TypeOK, Transactions, Kinds, Files,
     Pcs, KindFits, Idle
<1>3. RecordsAreNew'
  BY HunksDiffer, WritersAssumption, BoundsAssumption DEF IInv, OtherStarts, Free,
     NoFile, OwnFile, TypeOK, Transactions, Kinds, Files, Pcs, KindFits, RecordsAreNew,
     Idle, Commands
<1>4. PublicationIsNewer'
  BY DEF IInv, OtherStarts, Free, NoFile, OwnFile, TypeOK, Transactions, Kinds, Files,
     Pcs, PublicationIsNewer, Idle
<1>5. SetsAreWhole'
  BY HunksDiffer, UpdatesDiffer DEF IInv, OtherStarts, Free, NoFile, OwnFile, TypeOK,
     Transactions, Kinds, Files, Pcs, SetsAreWhole, PublicationIsNewer, Whole, Idle
<1>6. CASE chaos
  <2>1. chaos'
    BY <1>6 DEF OtherStarts, Free, NoFile, OwnFile
  <2> QED
    BY <2>1, <1>1, <1>2, <1>3, <1>4, <1>5 DEF IInv
<1>7. ASSUME Exclusive, ~chaos' PROVE Exclusive'
  <2>1. LockHolds'
    BY <1>7, WritersAssumption DEF IInv, Exclusive, OtherStarts, Free, NoFile, OwnFile,
       TypeOK, Transactions, Kinds, Files, Pcs, LockHolds, Live, Idle, Commands
  <2>2. NothingIsLost'
    BY <1>7, HunksDiffer, WritersAssumption, BoundsAssumption DEF IInv, Exclusive,
       OtherStarts, Free, NoFile, OwnFile, TypeOK, Transactions, Kinds, Files, Pcs,
       LockHolds, NothingIsLost, ContentIsWhole, RecordsAreNew, PublicationIsNewer,
       KindFits, Committed, Done, Pending, Running, Bypassed, Idle
  <2>3. ContentIsWhole'
    BY <1>7, HunksDiffer, WritersAssumption, BoundsAssumption DEF IInv, Exclusive,
       OtherStarts, Free, NoFile, OwnFile, TypeOK, Transactions, Kinds, Files, Pcs,
       LockHolds, NothingIsLost, ContentIsWhole, RecordsAreNew, KindFits, Committed,
       Done, Pending, Running, Bypassed, Idle
  <2> QED
    BY <2>1, <2>2, <2>3 DEF Exclusive
<1>8. chaos' \in BOOLEAN
  BY <1>1 DEF TypeOK
<1> QED
  BY <1>1, <1>2, <1>3, <1>4, <1>5, <1>6, <1>7, <1>8 DEF IInv

LEMMA OtherWritesKeeps == ASSUME NEW g \in Gits, IInv, OtherWrites(g) PROVE IInv'
<1>1. TypeOK'
  BY WritersAssumption, BoundsAssumption, HunksAreAll DEF IInv, OtherWrites, TypeOK,
     Transactions, Kinds, Files, Pcs, KindFits, Updates, Idle
<1>2. KindFits'
  BY DEF IInv, OtherWrites, TypeOK, Transactions, Kinds, Files, Pcs, KindFits, Idle
<1>3. RecordsAreNew'
  BY HunksDiffer, WritersAssumption, BoundsAssumption DEF IInv, OtherWrites, TypeOK,
     Transactions, Kinds, Files, Pcs, KindFits, RecordsAreNew, Idle, Commands
<1>4. PublicationIsNewer'
  BY DEF IInv, OtherWrites, TypeOK, Transactions, Kinds, Files, Pcs, PublicationIsNewer,
     Idle
<1>5. SetsAreWhole'
  BY HunksDiffer, UpdatesDiffer DEF IInv, OtherWrites, TypeOK, Transactions, Kinds,
     Files, Pcs, SetsAreWhole, PublicationIsNewer, Whole, Idle
<1>6. CASE chaos
  <2>1. chaos'
    BY <1>6 DEF OtherWrites
  <2> QED
    BY <2>1, <1>1, <1>2, <1>3, <1>4, <1>5 DEF IInv
<1>7. ASSUME Exclusive, ~chaos' PROVE Exclusive'
  <2>1. LockHolds'
    BY <1>7, WritersAssumption DEF IInv, Exclusive, OtherWrites, TypeOK, Transactions,
       Kinds, Files, Pcs, LockHolds, Live, Idle, Commands
  <2>2. NothingIsLost'
    BY <1>7, HunksDiffer, WritersAssumption, BoundsAssumption DEF IInv, Exclusive,
       OtherWrites, TypeOK, Transactions, Kinds, Files, Pcs, LockHolds, NothingIsLost,
       ContentIsWhole, RecordsAreNew, PublicationIsNewer, KindFits, Committed, Done,
       Pending, Running, Bypassed, Idle
  <2>3. ContentIsWhole'
    BY <1>7, HunksDiffer, WritersAssumption, BoundsAssumption DEF IInv, Exclusive,
       OtherWrites, TypeOK, Transactions, Kinds, Files, Pcs, LockHolds, NothingIsLost,
       ContentIsWhole, RecordsAreNew, KindFits, Committed, Done, Pending, Running,
       Bypassed, Idle
  <2> QED
    BY <2>1, <2>2, <2>3 DEF Exclusive
<1>8. chaos' \in BOOLEAN
  BY <1>1 DEF TypeOK
<1> QED
  BY <1>1, <1>2, <1>3, <1>4, <1>5, <1>6, <1>7, <1>8 DEF IInv

LEMMA OtherRenamesKeeps == ASSUME NEW g \in Gits, IInv, OtherRenames(g) PROVE IInv'
<1>1. TypeOK'
  <2>2. index' \subseteq Updates /\ lockfile' \in Files
    BY DEF IInv, TypeOK, OtherRenames, Files, NoFile
  <2>3. excused' \subseteq Updates
    BY DEF IInv, TypeOK, OtherRenames, Updates, Bypassed
  <2>4. git' \in [Gits -> {"out", "read", "rename", "done", "dead"}]
    <3>1. CASE Free
      BY <3>1 DEF IInv, TypeOK, OtherRenames
    <3>2. CASE ~Free
      BY <3>2 DEF IInv, TypeOK, OtherRenames
    <3> QED
      BY <3>1, <3>2
  <2> QED
    BY <2>2, <2>3, <2>4 DEF IInv, TypeOK, OtherRenames
<1>2. KindFits'
  BY DEF IInv, OtherRenames, Free, NoFile, TypeOK, Transactions, Kinds, Files, Pcs,
     KindFits, Idle
<1>3. RecordsAreNew'
  BY HunksDiffer, WritersAssumption, BoundsAssumption DEF IInv, OtherRenames, Free,
     NoFile, TypeOK, Transactions, Kinds, Files, Pcs, KindFits, RecordsAreNew, Idle,
     Commands
<1>4. PublicationIsNewer'
  BY DEF IInv, OtherRenames, Free, NoFile, TypeOK, Transactions, Kinds, Files, Pcs,
     PublicationIsNewer, Idle
<1>5. SetsAreWhole'
  BY HunksDiffer, UpdatesDiffer DEF IInv, OtherRenames, Free, NoFile, TypeOK,
     Transactions, Kinds, Files, Pcs, SetsAreWhole, PublicationIsNewer, Whole, Idle
<1>6. CASE chaos
  <2>1. chaos'
    BY <1>6 DEF OtherRenames, Free, NoFile
  <2> QED
    BY <2>1, <1>1, <1>2, <1>3, <1>4, <1>5 DEF IInv
<1>7. ASSUME Exclusive, ~chaos' PROVE Exclusive'
  <2>1. LockHolds'
    BY <1>7, WritersAssumption DEF IInv, Exclusive, OtherRenames, Free, NoFile, TypeOK,
       Transactions, Kinds, Files, Pcs, LockHolds, Live, Idle, Commands
  <2>2. NothingIsLost'
    BY <1>7, HunksDiffer, WritersAssumption, BoundsAssumption DEF IInv, Exclusive,
       OtherRenames, Free, NoFile, TypeOK, Transactions, Kinds, Files, Pcs, LockHolds,
       NothingIsLost, ContentIsWhole, RecordsAreNew, PublicationIsNewer, KindFits,
       Committed, Done, Pending, Running, Bypassed, Idle
  <2>3. ContentIsWhole'
    BY <1>7, HunksDiffer, WritersAssumption, BoundsAssumption DEF IInv, Exclusive,
       OtherRenames, Free, NoFile, TypeOK, Transactions, Kinds, Files, Pcs, LockHolds,
       NothingIsLost, ContentIsWhole, RecordsAreNew, KindFits, Committed, Done, Pending,
       Running, Bypassed, Idle
  <2> QED
    BY <2>1, <2>2, <2>3 DEF Exclusive
<1>8. chaos' \in BOOLEAN
  BY <1>1 DEF TypeOK
<1> QED
  BY <1>1, <1>2, <1>3, <1>4, <1>5, <1>6, <1>7, <1>8 DEF IInv

LEMMA OtherDiesKeeps == ASSUME NEW g \in Gits, IInv, OtherDies(g) PROVE IInv'
<1>1. TypeOK'
  BY WritersAssumption, BoundsAssumption, HunksAreAll DEF IInv, OtherDies, TypeOK,
     Transactions, Kinds, Files, Pcs, KindFits, Updates, Idle
<1>2. KindFits'
  BY DEF IInv, OtherDies, TypeOK, Transactions, Kinds, Files, Pcs, KindFits, Idle
<1>3. RecordsAreNew'
  BY HunksDiffer, WritersAssumption, BoundsAssumption DEF IInv, OtherDies, TypeOK,
     Transactions, Kinds, Files, Pcs, KindFits, RecordsAreNew, Idle, Commands
<1>4. PublicationIsNewer'
  BY DEF IInv, OtherDies, TypeOK, Transactions, Kinds, Files, Pcs, PublicationIsNewer,
     Idle
<1>5. SetsAreWhole'
  BY HunksDiffer, UpdatesDiffer DEF IInv, OtherDies, TypeOK, Transactions, Kinds, Files,
     Pcs, SetsAreWhole, PublicationIsNewer, Whole, Idle
<1>6. CASE chaos
  <2>1. chaos'
    BY <1>6 DEF OtherDies
  <2> QED
    BY <2>1, <1>1, <1>2, <1>3, <1>4, <1>5 DEF IInv
<1>7. ASSUME Exclusive, ~chaos' PROVE Exclusive'
  <2>1. LockHolds'
    BY <1>7, WritersAssumption DEF IInv, Exclusive, OtherDies, TypeOK, Transactions,
       Kinds, Files, Pcs, LockHolds, Live, Idle, Commands
  <2>2. NothingIsLost'
    BY <1>7, HunksDiffer, WritersAssumption, BoundsAssumption DEF IInv, Exclusive,
       OtherDies, TypeOK, Transactions, Kinds, Files, Pcs, LockHolds, NothingIsLost,
       ContentIsWhole, RecordsAreNew, PublicationIsNewer, KindFits, Committed, Done,
       Pending, Running, Bypassed, Idle
  <2>3. ContentIsWhole'
    BY <1>7, HunksDiffer, WritersAssumption, BoundsAssumption DEF IInv, Exclusive,
       OtherDies, TypeOK, Transactions, Kinds, Files, Pcs, LockHolds, NothingIsLost,
       ContentIsWhole, RecordsAreNew, KindFits, Committed, Done, Pending, Running,
       Bypassed, Idle
  <2> QED
    BY <2>1, <2>2, <2>3 DEF Exclusive
<1>8. chaos' \in BOOLEAN
  BY <1>1 DEF TypeOK
<1> QED
  BY <1>1, <1>2, <1>3, <1>4, <1>5, <1>6, <1>7, <1>8 DEF IInv

LEMMA BypassKeeps == ASSUME NEW b \in Bypassers, IInv, Bypass(b) PROVE IInv'
<1>1. TypeOK'
  BY WritersAssumption, BoundsAssumption, HunksAreAll DEF IInv, Bypass, TypeOK,
     Transactions, Kinds, Files, Pcs, KindFits, Updates, Idle
<1>2. KindFits'
  BY DEF IInv, Bypass, TypeOK, Transactions, Kinds, Files, Pcs, KindFits, Idle
<1>3. RecordsAreNew'
  BY HunksDiffer, WritersAssumption, BoundsAssumption DEF IInv, Bypass, TypeOK,
     Transactions, Kinds, Files, Pcs, KindFits, RecordsAreNew, Idle, Commands
<1>4. PublicationIsNewer'
  BY DEF IInv, Bypass, TypeOK, Transactions, Kinds, Files, Pcs, PublicationIsNewer, Idle
<1>5. SetsAreWhole'
  BY HunksDiffer, UpdatesDiffer DEF IInv, Bypass, TypeOK, Transactions, Kinds, Files,
     Pcs, SetsAreWhole, PublicationIsNewer, Whole, Idle
<1>6. CASE chaos
  <2>1. chaos'
    BY <1>6 DEF Bypass
  <2> QED
    BY <2>1, <1>1, <1>2, <1>3, <1>4, <1>5 DEF IInv
<1>7. ASSUME Exclusive, ~chaos' PROVE Exclusive'
  <2>1. LockHolds'
    BY <1>7, WritersAssumption DEF IInv, Exclusive, Bypass, TypeOK, Transactions, Kinds,
       Files, Pcs, LockHolds, Live, Idle, Commands
  <2>2. NothingIsLost'
    BY <1>7, HunksDiffer, WritersAssumption, BoundsAssumption DEF IInv, Exclusive,
       Bypass, TypeOK, Transactions, Kinds, Files, Pcs, LockHolds, NothingIsLost,
       ContentIsWhole, RecordsAreNew, PublicationIsNewer, KindFits, Committed, Done,
       Pending, Running, Bypassed, Idle
  <2>3. ContentIsWhole'
    BY <1>7, HunksDiffer, WritersAssumption, BoundsAssumption DEF IInv, Exclusive,
       Bypass, TypeOK, Transactions, Kinds, Files, Pcs, LockHolds, NothingIsLost,
       ContentIsWhole, RecordsAreNew, KindFits, Committed, Done, Pending, Running,
       Bypassed, Idle
  <2> QED
    BY <2>1, <2>2, <2>3 DEF Exclusive
<1>8. chaos' \in BOOLEAN
  BY <1>1 DEF TypeOK
<1> QED
  BY <1>1, <1>2, <1>3, <1>4, <1>5, <1>6, <1>7, <1>8 DEF IInv

LEMMA InitHolds == Init => IInv
<1> SUFFICES ASSUME Init PROVE IInv
  OBVIOUS
<1>1. tx \in Transactions /\ tx.pc = "out" /\ tx.baseline \subseteq tx.private /\ tx.n = 0
  BY IdleFits, BoundsAssumption DEF Init
<1>2. tx.saved = {} /\ tx.kind = "git"
  BY DEF Init, Idle
<1>3. lockfile \in Files /\ lockfile.content = {}
  BY DEF Init, NoFile, Files
<1>4. TypeOK
  BY <1>1, <1>3 DEF Init, TypeOK
<1>5. KindFits /\ RecordsAreNew /\ PublicationIsNewer /\ SetsAreWhole
  BY <1>1, <1>2, <1>3 DEF Init, KindFits, RecordsAreNew, PublicationIsNewer, SetsAreWhole, Whole
<1>6. Committed = {}
  BY <1>1 DEF Init, Committed, Done, Pending, Bypassed
<1>7. Exclusive
  BY <1>1, <1>6 DEF Init, Exclusive, LockHolds, NothingIsLost, ContentIsWhole
<1> QED
  BY <1>4, <1>5, <1>7 DEF IInv

LEMMA StutterKeeps == ASSUME IInv, UNCHANGED vars PROVE IInv'
  BY DEF vars, IInv, TypeOK, KindFits, RecordsAreNew, PublicationIsNewer, SetsAreWhole, Whole,
     Exclusive, LockHolds, NothingIsLost, ContentIsWhole, Committed, Done, Pending, Running,
     Bypassed

\* Every state of the index and its writers satisfies the invariant: one lemma per step.
THEOREM Inductive == Spec => []IInv
<1>1. IInv /\ [Next]_vars => IInv'
  <2> SUFFICES ASSUME IInv, [Next]_vars PROVE IInv'
    OBVIOUS
  <2>1. CASE UNCHANGED vars
    BY <2>1, StutterKeeps
  <2>2. CASE Waits
    BY <2>2, AcquireKeeps, GiveUpKeeps, WaitedKeeps, GitStartsKeeps, RetryKeeps DEF Waits
  <2>3. CASE Runs
    BY <2>3, GitWritesKeeps, GitRenamesKeeps, SnapshotKeeps, StageKeeps, MatchesSnapshotKeeps,
       ReplaceKeeps, FsyncKeeps, RecordKeeps, FinalizeKeeps, UnwindKeeps, StatLockKeeps,
       UnlinkLockKeeps DEF Runs
  <2>4. ASSUME NEW g \in Gits, OtherGit(g) PROVE IInv'
    BY <2>4, OtherStartsKeeps, OtherWritesKeeps, OtherRenamesKeeps, OtherDiesKeeps DEF OtherGit
  <2>5. ASSUME NEW b \in Bypassers, Bypass(b) PROVE IInv'
    BY <2>5, BypassKeeps
  <2> QED
    BY <2>1, <2>2, <2>3, <2>4, <2>5, BeginKeeps, TimePassesKeeps, FailKeeps, DieKeeps,
       RemoveLockKeeps DEF Next, Steps
<1> QED
  BY <1>1, InitHolds, PTL DEF Spec

\* The index, its lock and the processes have the values they can have.
THEOREM TypeCorrect == Spec => []TypeOK
<1>1. IInv => TypeOK
  BY DEF IInv
<1> QED
  BY <1>1, Inductive, PTL

\* No finished update is lost but those the property excuses
\* (_publish_transaction_index, _acquire_index_lock).
THEOREM UpdatesKept == Spec => []NoUpdateIsLost
<1>1. IInv => NoUpdateIsLost
  BY DEF IInv, Exclusive, NothingIsLost, Committed, NoUpdateIsLost
<1> QED
  BY <1>1, Inductive, PTL

\* An include reaches the index as a whole or not at all
\* (isolated_index_transaction).
THEOREM AllOrNothing == Spec => []StagedTogether
<1>1. IInv => StagedTogether
  BY DEF IInv, SetsAreWhole, Whole, StagedTogether
<1> QED
  BY <1>1, Inductive, PTL

=============================================================================
