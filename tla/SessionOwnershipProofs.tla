----------------------- MODULE SessionOwnershipProofs -----------------------
(* SessionOwnership's safety properties for any number of processes and       *)
(* worktrees.  The inductive invariant says what a process that holds the     *)
(* lock has found out and still is so: other holders are excluded, and the    *)
(* checks made without the lock only ever take things away.                   *)
EXTENDS SessionOwnership, TLAPS

LockedPcs == {"snapshot", "mark", "claim", "work", "stop", "abort", "clear", "unmark", "release"}
Stale == {"unanchor", "disown"}

\* What a process does past its check it does under the lock.
WorksLocked ==
  \A p \in Procs :
    /\ proc[p].pc \in LockedPcs => Holds(p)
    /\ ~At(p, "out") => Mine(p) \in Worktrees
    /\ proc[p].pc \in {"snapshot", "mark", "claim"} => proc[p].cmd = "start"

\* The record that a check under the lock has read is the record, or it is gone.
RecordIsSeen ==
  \A p \in Procs :
    /\ proc[p].pc \in {"exists"} \cup Stale => proc[p].seen \in Worktrees
    /\ proc[p].pc \in {"exists"} \cup Stale /\ Holds(p) => owner \in {None, proc[p].seen}
    /\ proc[p].pc \in Stale /\ Holds(p) => proc[p].seen \notin marker

\* Past the check no other worktree is the owner.
NoForeignOwner ==
  \A p \in Procs : proc[p].pc \in LockedPcs => owner \in {None, Mine(p)}

\* A session is opened, and a record removed, without a marker; a session is
\* cleared once it is closing; its anchors are there before its marker.
Ordered ==
  \A p \in Procs :
    /\ proc[p].pc \in {"snapshot", "mark", "release"} => Mine(p) \notin marker
    /\ proc[p].pc \in {"clear", "unmark"} => Mine(p) \in closing
    /\ At(p, "mark") => Mine(p) \in anchors \cup harmed

IInv ==
  /\ TypeOK /\ WorksLocked /\ RecordIsSeen /\ NoForeignOwner /\ Ordered
  /\ LiveSessionIsOwned /\ LiveSessionIsAnchored

\* Where a process is, is expanded throughout.
USE DEF At, Goto, Mine, Holds, LockedPcs, Stale

LEMMA BeginKeeps == ASSUME NEW p \in Procs, IInv, Begin(p) PROVE IInv'
<1>1. TypeOK'
  BY NoneAssumption DEF IInv, Begin, Files, TypeOK, Procedures, Commands, Pcs,
     WorksLocked
<1>2. WorksLocked'
  BY NoneAssumption DEF IInv, Begin, Files, TypeOK, Procedures, Commands, Pcs,
     WorksLocked
<1>3. RecordIsSeen'
  BY NoneAssumption DEF IInv, Begin, Files, TypeOK, Procedures, Commands, Pcs,
     WorksLocked, RecordIsSeen
<1>4. NoForeignOwner'
  BY NoneAssumption DEF IInv, Begin, Files, TypeOK, Procedures, Commands, Pcs,
     WorksLocked, NoForeignOwner, RecordIsSeen
<1>5. Ordered'
  BY NoneAssumption DEF IInv, Begin, Files, TypeOK, Procedures, Commands, Pcs,
     WorksLocked, Ordered
<1>6. LiveSessionIsOwned'
  BY NoneAssumption DEF IInv, Begin, Files, TypeOK, Procedures, Commands, Pcs,
     WorksLocked, RecordIsSeen, NoForeignOwner, Ordered, LiveSessionIsOwned, Opening,
     Unclaimed
<1>7. LiveSessionIsAnchored'
  BY NoneAssumption DEF IInv, Begin, Files, TypeOK, Procedures, Commands, Pcs,
     WorksLocked, RecordIsSeen, NoForeignOwner, Ordered, LiveSessionIsOwned,
     LiveSessionIsAnchored, Opening, Unclaimed
<1> QED
  BY <1>1, <1>2, <1>3, <1>4, <1>5, <1>6, <1>7 DEF IInv

LEMMA LockKeeps == ASSUME NEW p \in Procs, IInv, Lock(p) PROVE IInv'
<1>1. TypeOK'
  BY NoneAssumption DEF IInv, Lock, Files, TypeOK, Procedures, Commands, Pcs,
     WorksLocked
<1>2. WorksLocked'
  BY NoneAssumption DEF IInv, Lock, Files, TypeOK, Procedures, Commands, Pcs,
     WorksLocked
<1>3. RecordIsSeen'
  BY NoneAssumption DEF IInv, Lock, Files, TypeOK, Procedures, Commands, Pcs,
     WorksLocked, RecordIsSeen
<1>4. NoForeignOwner'
  BY NoneAssumption DEF IInv, Lock, Files, TypeOK, Procedures, Commands, Pcs,
     WorksLocked, NoForeignOwner, RecordIsSeen
<1>5. Ordered'
  BY NoneAssumption DEF IInv, Lock, Files, TypeOK, Procedures, Commands, Pcs,
     WorksLocked, Ordered
<1>6. LiveSessionIsOwned'
  BY NoneAssumption DEF IInv, Lock, Files, TypeOK, Procedures, Commands, Pcs,
     WorksLocked, RecordIsSeen, NoForeignOwner, Ordered, LiveSessionIsOwned, Opening,
     Unclaimed
<1>7. LiveSessionIsAnchored'
  BY NoneAssumption DEF IInv, Lock, Files, TypeOK, Procedures, Commands, Pcs,
     WorksLocked, RecordIsSeen, NoForeignOwner, Ordered, LiveSessionIsOwned,
     LiveSessionIsAnchored, Opening, Unclaimed
<1> QED
  BY <1>1, <1>2, <1>3, <1>4, <1>5, <1>6, <1>7 DEF IInv

LEMMA ReadOwnerKeeps == ASSUME NEW p \in Procs, IInv, ReadOwner(p) PROVE IInv'
<1>1. TypeOK'
  BY NoneAssumption DEF IInv, ReadOwner, Files, Passed, TypeOK, Procedures, Commands,
     Pcs, WorksLocked
<1>2. WorksLocked'
  BY NoneAssumption DEF IInv, ReadOwner, Files, Passed, TypeOK, Procedures, Commands,
     Pcs, WorksLocked
<1>3. RecordIsSeen'
  BY NoneAssumption DEF IInv, ReadOwner, Files, Passed, TypeOK, Procedures, Commands,
     Pcs, WorksLocked, RecordIsSeen
<1>4. NoForeignOwner'
  BY NoneAssumption DEF IInv, ReadOwner, Files, Passed, TypeOK, Procedures, Commands,
     Pcs, WorksLocked, NoForeignOwner, RecordIsSeen
<1>5. Ordered'
  BY NoneAssumption DEF IInv, ReadOwner, Files, Passed, TypeOK, Procedures, Commands,
     Pcs, WorksLocked, Ordered
<1>6. LiveSessionIsOwned'
  BY NoneAssumption DEF IInv, ReadOwner, Files, Passed, TypeOK, Procedures, Commands,
     Pcs, WorksLocked, RecordIsSeen, NoForeignOwner, Ordered, LiveSessionIsOwned,
     Opening, Unclaimed
<1>7. LiveSessionIsAnchored'
  BY NoneAssumption DEF IInv, ReadOwner, Files, Passed, TypeOK, Procedures, Commands,
     Pcs, WorksLocked, RecordIsSeen, NoForeignOwner, Ordered, LiveSessionIsOwned,
     LiveSessionIsAnchored, Opening, Unclaimed
<1> QED
  BY <1>1, <1>2, <1>3, <1>4, <1>5, <1>6, <1>7 DEF IInv

LEMMA RefuseForeignKeeps == ASSUME NEW p \in Procs, IInv, RefuseForeign(p) PROVE IInv'
<1>1. TypeOK'
  BY NoneAssumption DEF IInv, RefuseForeign, Files, Exit, Out, TypeOK, Procedures,
     Commands, Pcs, WorksLocked
<1>2. WorksLocked'
  BY NoneAssumption DEF IInv, RefuseForeign, Files, Exit, Out, TypeOK, Procedures,
     Commands, Pcs, WorksLocked
<1>3. RecordIsSeen'
  BY NoneAssumption DEF IInv, RefuseForeign, Files, Exit, Out, TypeOK, Procedures,
     Commands, Pcs, WorksLocked, RecordIsSeen
<1>4. NoForeignOwner'
  BY NoneAssumption DEF IInv, RefuseForeign, Files, Exit, Out, TypeOK, Procedures,
     Commands, Pcs, WorksLocked, NoForeignOwner, RecordIsSeen
<1>5. Ordered'
  BY NoneAssumption DEF IInv, RefuseForeign, Files, Exit, Out, TypeOK, Procedures,
     Commands, Pcs, WorksLocked, Ordered
<1>6. LiveSessionIsOwned'
  BY NoneAssumption DEF IInv, RefuseForeign, Files, Exit, Out, TypeOK, Procedures,
     Commands, Pcs, WorksLocked, RecordIsSeen, NoForeignOwner, Ordered,
     LiveSessionIsOwned, Opening, Unclaimed
<1>7. LiveSessionIsAnchored'
  BY NoneAssumption DEF IInv, RefuseForeign, Files, Exit, Out, TypeOK, Procedures,
     Commands, Pcs, WorksLocked, RecordIsSeen, NoForeignOwner, Ordered,
     LiveSessionIsOwned, LiveSessionIsAnchored, Opening, Unclaimed
<1> QED
  BY <1>1, <1>2, <1>3, <1>4, <1>5, <1>6, <1>7 DEF IInv

LEMMA FindStaleKeeps == ASSUME NEW p \in Procs, IInv, FindStale(p) PROVE IInv'
<1>1. TypeOK'
  BY NoneAssumption DEF IInv, FindStale, Files, TypeOK, Procedures, Commands, Pcs,
     WorksLocked
<1>2. WorksLocked'
  BY NoneAssumption DEF IInv, FindStale, Files, TypeOK, Procedures, Commands, Pcs,
     WorksLocked
<1>3. RecordIsSeen'
  BY NoneAssumption DEF IInv, FindStale, Files, TypeOK, Procedures, Commands, Pcs,
     WorksLocked, RecordIsSeen
<1>4. NoForeignOwner'
  BY NoneAssumption DEF IInv, FindStale, Files, TypeOK, Procedures, Commands, Pcs,
     WorksLocked, NoForeignOwner, RecordIsSeen
<1>5. Ordered'
  BY NoneAssumption DEF IInv, FindStale, Files, TypeOK, Procedures, Commands, Pcs,
     WorksLocked, Ordered
<1>6. LiveSessionIsOwned'
  BY NoneAssumption DEF IInv, FindStale, Files, TypeOK, Procedures, Commands, Pcs,
     WorksLocked, RecordIsSeen, NoForeignOwner, Ordered, LiveSessionIsOwned, Opening,
     Unclaimed
<1>7. LiveSessionIsAnchored'
  BY NoneAssumption DEF IInv, FindStale, Files, TypeOK, Procedures, Commands, Pcs,
     WorksLocked, RecordIsSeen, NoForeignOwner, Ordered, LiveSessionIsOwned,
     LiveSessionIsAnchored, Opening, Unclaimed
<1> QED
  BY <1>1, <1>2, <1>3, <1>4, <1>5, <1>6, <1>7 DEF IInv

LEMMA DiscardAnchorsKeeps == ASSUME NEW p \in Procs, IInv, DiscardAnchors(p) PROVE IInv'
<1>1. TypeOK'
  BY NoneAssumption DEF IInv, DiscardAnchors, Unanchor, TypeOK, Procedures, Commands,
     Pcs, WorksLocked
<1>2. WorksLocked'
  BY NoneAssumption DEF IInv, DiscardAnchors, Unanchor, TypeOK, Procedures, Commands,
     Pcs, WorksLocked
<1>3. RecordIsSeen'
  BY NoneAssumption DEF IInv, DiscardAnchors, Unanchor, TypeOK, Procedures, Commands,
     Pcs, WorksLocked, RecordIsSeen
<1>4. NoForeignOwner'
  BY NoneAssumption DEF IInv, DiscardAnchors, Unanchor, TypeOK, Procedures, Commands,
     Pcs, WorksLocked, NoForeignOwner, RecordIsSeen
<1>5. Ordered'
  BY NoneAssumption DEF IInv, DiscardAnchors, Unanchor, TypeOK, Procedures, Commands,
     Pcs, WorksLocked, Ordered
<1>6. LiveSessionIsOwned'
  BY NoneAssumption DEF IInv, DiscardAnchors, Unanchor, TypeOK, Procedures, Commands,
     Pcs, WorksLocked, RecordIsSeen, NoForeignOwner, Ordered, LiveSessionIsOwned,
     Opening, Unclaimed
<1>7. LiveSessionIsAnchored'
  BY NoneAssumption DEF IInv, DiscardAnchors, Unanchor, TypeOK, Procedures, Commands,
     Pcs, WorksLocked, RecordIsSeen, NoForeignOwner, Ordered, LiveSessionIsOwned,
     LiveSessionIsAnchored, Opening, Unclaimed
<1> QED
  BY <1>1, <1>2, <1>3, <1>4, <1>5, <1>6, <1>7 DEF IInv

LEMMA DiscardOwnerKeeps == ASSUME NEW p \in Procs, IInv, DiscardOwner(p) PROVE IInv'
<1>1. TypeOK'
  BY NoneAssumption DEF IInv, DiscardOwner, Passed, TypeOK, Procedures, Commands, Pcs,
     WorksLocked
<1>2. WorksLocked'
  BY NoneAssumption DEF IInv, DiscardOwner, Passed, TypeOK, Procedures, Commands, Pcs,
     WorksLocked
<1>3. RecordIsSeen'
  BY NoneAssumption DEF IInv, DiscardOwner, Passed, TypeOK, Procedures, Commands, Pcs,
     WorksLocked, RecordIsSeen
<1>4. NoForeignOwner'
  BY NoneAssumption DEF IInv, DiscardOwner, Passed, TypeOK, Procedures, Commands, Pcs,
     WorksLocked, NoForeignOwner, RecordIsSeen
<1>5. Ordered'
  BY NoneAssumption DEF IInv, DiscardOwner, Passed, TypeOK, Procedures, Commands, Pcs,
     WorksLocked, Ordered
<1>6. LiveSessionIsOwned'
  BY NoneAssumption DEF IInv, DiscardOwner, Passed, TypeOK, Procedures, Commands, Pcs,
     WorksLocked, RecordIsSeen, NoForeignOwner, Ordered, LiveSessionIsOwned, Opening,
     Unclaimed
<1>7. LiveSessionIsAnchored'
  BY NoneAssumption DEF IInv, DiscardOwner, Passed, TypeOK, Procedures, Commands, Pcs,
     WorksLocked, RecordIsSeen, NoForeignOwner, Ordered, LiveSessionIsOwned,
     LiveSessionIsAnchored, Opening, Unclaimed
<1> QED
  BY <1>1, <1>2, <1>3, <1>4, <1>5, <1>6, <1>7 DEF IInv

LEMMA SnapshotAndAnchorKeeps == ASSUME NEW p \in Procs, IInv, SnapshotAndAnchor(p) PROVE IInv'
<1>1. TypeOK'
  BY NoneAssumption DEF IInv, SnapshotAndAnchor, TypeOK, Procedures, Commands, Pcs,
     WorksLocked
<1>2. WorksLocked'
  BY NoneAssumption DEF IInv, SnapshotAndAnchor, TypeOK, Procedures, Commands, Pcs,
     WorksLocked
<1>3. RecordIsSeen'
  BY NoneAssumption DEF IInv, SnapshotAndAnchor, TypeOK, Procedures, Commands, Pcs,
     WorksLocked, RecordIsSeen
<1>4. NoForeignOwner'
  BY NoneAssumption DEF IInv, SnapshotAndAnchor, TypeOK, Procedures, Commands, Pcs,
     WorksLocked, NoForeignOwner, RecordIsSeen
<1>5. Ordered'
  BY NoneAssumption DEF IInv, SnapshotAndAnchor, TypeOK, Procedures, Commands, Pcs,
     WorksLocked, Ordered
<1>6. LiveSessionIsOwned'
  BY NoneAssumption DEF IInv, SnapshotAndAnchor, TypeOK, Procedures, Commands, Pcs,
     WorksLocked, RecordIsSeen, NoForeignOwner, Ordered, LiveSessionIsOwned, Opening,
     Unclaimed
<1>7. LiveSessionIsAnchored'
  BY NoneAssumption DEF IInv, SnapshotAndAnchor, TypeOK, Procedures, Commands, Pcs,
     WorksLocked, RecordIsSeen, NoForeignOwner, Ordered, LiveSessionIsOwned,
     LiveSessionIsAnchored, Opening, Unclaimed
<1> QED
  BY <1>1, <1>2, <1>3, <1>4, <1>5, <1>6, <1>7 DEF IInv

LEMMA WriteMarkerKeeps == ASSUME NEW p \in Procs, IInv, WriteMarker(p) PROVE IInv'
<1>1. TypeOK'
  BY NoneAssumption DEF IInv, WriteMarker, TypeOK, Procedures, Commands, Pcs,
     WorksLocked
<1>2. WorksLocked'
  BY NoneAssumption DEF IInv, WriteMarker, TypeOK, Procedures, Commands, Pcs,
     WorksLocked
<1>3. RecordIsSeen'
  BY NoneAssumption DEF IInv, WriteMarker, TypeOK, Procedures, Commands, Pcs,
     WorksLocked, RecordIsSeen
<1>4. NoForeignOwner'
  BY NoneAssumption DEF IInv, WriteMarker, TypeOK, Procedures, Commands, Pcs,
     WorksLocked, NoForeignOwner, RecordIsSeen
<1>5. Ordered'
  BY NoneAssumption DEF IInv, WriteMarker, TypeOK, Procedures, Commands, Pcs,
     WorksLocked, Ordered
<1>6. LiveSessionIsOwned'
  BY NoneAssumption DEF IInv, WriteMarker, TypeOK, Procedures, Commands, Pcs,
     WorksLocked, RecordIsSeen, NoForeignOwner, Ordered, LiveSessionIsOwned, Opening,
     Unclaimed
<1>7. LiveSessionIsAnchored'
  BY NoneAssumption DEF IInv, WriteMarker, TypeOK, Procedures, Commands, Pcs,
     WorksLocked, RecordIsSeen, NoForeignOwner, Ordered, LiveSessionIsOwned,
     LiveSessionIsAnchored, Opening, Unclaimed
<1> QED
  BY <1>1, <1>2, <1>3, <1>4, <1>5, <1>6, <1>7 DEF IInv

LEMMA ClaimKeeps == ASSUME NEW p \in Procs, IInv, Claim(p) PROVE IInv'
<1>1. TypeOK'
  BY NoneAssumption DEF IInv, Claim, TypeOK, Procedures, Commands, Pcs, WorksLocked
<1>2. WorksLocked'
  BY NoneAssumption DEF IInv, Claim, TypeOK, Procedures, Commands, Pcs, WorksLocked
<1>3. RecordIsSeen'
  BY NoneAssumption DEF IInv, Claim, TypeOK, Procedures, Commands, Pcs, WorksLocked,
     RecordIsSeen
<1>4. NoForeignOwner'
  BY NoneAssumption DEF IInv, Claim, TypeOK, Procedures, Commands, Pcs, WorksLocked,
     NoForeignOwner, RecordIsSeen
<1>5. Ordered'
  BY NoneAssumption DEF IInv, Claim, TypeOK, Procedures, Commands, Pcs, WorksLocked,
     Ordered
<1>6. LiveSessionIsOwned'
  BY NoneAssumption DEF IInv, Claim, TypeOK, Procedures, Commands, Pcs, WorksLocked,
     RecordIsSeen, NoForeignOwner, Ordered, LiveSessionIsOwned, Opening, Unclaimed
<1>7. LiveSessionIsAnchored'
  BY NoneAssumption DEF IInv, Claim, TypeOK, Procedures, Commands, Pcs, WorksLocked,
     RecordIsSeen, NoForeignOwner, Ordered, LiveSessionIsOwned, LiveSessionIsAnchored,
     Opening, Unclaimed
<1> QED
  BY <1>1, <1>2, <1>3, <1>4, <1>5, <1>6, <1>7 DEF IInv

LEMMA ClaimFailsKeeps == ASSUME NEW p \in Procs, IInv, ClaimFails(p) PROVE IInv'
<1>1. TypeOK'
  BY NoneAssumption DEF IInv, ClaimFails, TypeOK, Procedures, Commands, Pcs, WorksLocked
<1>2. WorksLocked'
  BY NoneAssumption DEF IInv, ClaimFails, TypeOK, Procedures, Commands, Pcs, WorksLocked
<1>3. RecordIsSeen'
  BY NoneAssumption DEF IInv, ClaimFails, TypeOK, Procedures, Commands, Pcs,
     WorksLocked, RecordIsSeen
<1>4. NoForeignOwner'
  BY NoneAssumption DEF IInv, ClaimFails, TypeOK, Procedures, Commands, Pcs,
     WorksLocked, NoForeignOwner, RecordIsSeen
<1>5. Ordered'
  BY NoneAssumption DEF IInv, ClaimFails, TypeOK, Procedures, Commands, Pcs,
     WorksLocked, Ordered
<1>6. LiveSessionIsOwned'
  BY NoneAssumption DEF IInv, ClaimFails, TypeOK, Procedures, Commands, Pcs,
     WorksLocked, RecordIsSeen, NoForeignOwner, Ordered, LiveSessionIsOwned, Opening,
     Unclaimed
<1>7. LiveSessionIsAnchored'
  BY NoneAssumption DEF IInv, ClaimFails, TypeOK, Procedures, Commands, Pcs,
     WorksLocked, RecordIsSeen, NoForeignOwner, Ordered, LiveSessionIsOwned,
     LiveSessionIsAnchored, Opening, Unclaimed
<1> QED
  BY <1>1, <1>2, <1>3, <1>4, <1>5, <1>6, <1>7 DEF IInv

LEMMA WorkKeeps == ASSUME NEW p \in Procs, IInv, Work(p) PROVE IInv'
<1>1. TypeOK'
  BY NoneAssumption DEF IInv, Work, RequireCurrentOwner, Exit, Out, TypeOK, Procedures,
     Commands, Pcs, WorksLocked
<1>2. WorksLocked'
  BY NoneAssumption DEF IInv, Work, RequireCurrentOwner, Exit, Out, TypeOK, Procedures,
     Commands, Pcs, WorksLocked
<1>3. RecordIsSeen'
  BY NoneAssumption DEF IInv, Work, RequireCurrentOwner, Exit, Out, TypeOK, Procedures,
     Commands, Pcs, WorksLocked, RecordIsSeen
<1>4. NoForeignOwner'
  BY NoneAssumption DEF IInv, Work, RequireCurrentOwner, Exit, Out, TypeOK, Procedures,
     Commands, Pcs, WorksLocked, NoForeignOwner, RecordIsSeen
<1>5. Ordered'
  BY NoneAssumption DEF IInv, Work, RequireCurrentOwner, Exit, Out, TypeOK, Procedures,
     Commands, Pcs, WorksLocked, Ordered
<1>6. LiveSessionIsOwned'
  BY NoneAssumption DEF IInv, Work, RequireCurrentOwner, Exit, Out, TypeOK, Procedures,
     Commands, Pcs, WorksLocked, RecordIsSeen, NoForeignOwner, Ordered,
     LiveSessionIsOwned, Opening, Unclaimed
<1>7. LiveSessionIsAnchored'
  BY NoneAssumption DEF IInv, Work, RequireCurrentOwner, Exit, Out, TypeOK, Procedures,
     Commands, Pcs, WorksLocked, RecordIsSeen, NoForeignOwner, Ordered,
     LiveSessionIsOwned, LiveSessionIsAnchored, Opening, Unclaimed
<1> QED
  BY <1>1, <1>2, <1>3, <1>4, <1>5, <1>6, <1>7 DEF IInv

LEMMA StopKeeps == ASSUME NEW p \in Procs, IInv, Stop(p) PROVE IInv'
<1>1. TypeOK'
  BY NoneAssumption DEF IInv, Stop, RequireCurrentOwner, TypeOK, Procedures, Commands,
     Pcs, WorksLocked
<1>2. WorksLocked'
  BY NoneAssumption DEF IInv, Stop, RequireCurrentOwner, TypeOK, Procedures, Commands,
     Pcs, WorksLocked
<1>3. RecordIsSeen'
  BY NoneAssumption DEF IInv, Stop, RequireCurrentOwner, TypeOK, Procedures, Commands,
     Pcs, WorksLocked, RecordIsSeen
<1>4. NoForeignOwner'
  BY NoneAssumption DEF IInv, Stop, RequireCurrentOwner, TypeOK, Procedures, Commands,
     Pcs, WorksLocked, NoForeignOwner, RecordIsSeen
<1>5. Ordered'
  BY NoneAssumption DEF IInv, Stop, RequireCurrentOwner, TypeOK, Procedures, Commands,
     Pcs, WorksLocked, Ordered
<1>6. LiveSessionIsOwned'
  BY NoneAssumption DEF IInv, Stop, RequireCurrentOwner, TypeOK, Procedures, Commands,
     Pcs, WorksLocked, RecordIsSeen, NoForeignOwner, Ordered, LiveSessionIsOwned,
     Opening, Unclaimed
<1>7. LiveSessionIsAnchored'
  BY NoneAssumption DEF IInv, Stop, RequireCurrentOwner, TypeOK, Procedures, Commands,
     Pcs, WorksLocked, RecordIsSeen, NoForeignOwner, Ordered, LiveSessionIsOwned,
     LiveSessionIsAnchored, Opening, Unclaimed
<1> QED
  BY <1>1, <1>2, <1>3, <1>4, <1>5, <1>6, <1>7 DEF IInv

LEMMA AbortKeeps == ASSUME NEW p \in Procs, IInv, Abort(p) PROVE IInv'
<1>1. TypeOK'
  BY NoneAssumption DEF IInv, Abort, RequireCurrentOwner, Exit, Out, TypeOK, Procedures,
     Commands, Pcs, WorksLocked
<1>2. WorksLocked'
  BY NoneAssumption DEF IInv, Abort, RequireCurrentOwner, Exit, Out, TypeOK, Procedures,
     Commands, Pcs, WorksLocked
<1>3. RecordIsSeen'
  BY NoneAssumption DEF IInv, Abort, RequireCurrentOwner, Exit, Out, TypeOK, Procedures,
     Commands, Pcs, WorksLocked, RecordIsSeen
<1>4. NoForeignOwner'
  BY NoneAssumption DEF IInv, Abort, RequireCurrentOwner, Exit, Out, TypeOK, Procedures,
     Commands, Pcs, WorksLocked, NoForeignOwner, RecordIsSeen
<1>5. Ordered'
  BY NoneAssumption DEF IInv, Abort, RequireCurrentOwner, Exit, Out, TypeOK, Procedures,
     Commands, Pcs, WorksLocked, Ordered
<1>6. LiveSessionIsOwned'
  BY NoneAssumption DEF IInv, Abort, RequireCurrentOwner, Exit, Out, TypeOK, Procedures,
     Commands, Pcs, WorksLocked, RecordIsSeen, NoForeignOwner, Ordered,
     LiveSessionIsOwned, Opening, Unclaimed
<1>7. LiveSessionIsAnchored'
  BY NoneAssumption DEF IInv, Abort, RequireCurrentOwner, Exit, Out, TypeOK, Procedures,
     Commands, Pcs, WorksLocked, RecordIsSeen, NoForeignOwner, Ordered,
     LiveSessionIsOwned, LiveSessionIsAnchored, Opening, Unclaimed
<1> QED
  BY <1>1, <1>2, <1>3, <1>4, <1>5, <1>6, <1>7 DEF IInv

LEMMA AbortNothingKeeps == ASSUME NEW p \in Procs, IInv, AbortNothing(p) PROVE IInv'
<1>1. TypeOK'
  BY NoneAssumption DEF IInv, AbortNothing, Files, Exit, Out, TypeOK, Procedures,
     Commands, Pcs, WorksLocked
<1>2. WorksLocked'
  BY NoneAssumption DEF IInv, AbortNothing, Files, Exit, Out, TypeOK, Procedures,
     Commands, Pcs, WorksLocked
<1>3. RecordIsSeen'
  BY NoneAssumption DEF IInv, AbortNothing, Files, Exit, Out, TypeOK, Procedures,
     Commands, Pcs, WorksLocked, RecordIsSeen
<1>4. NoForeignOwner'
  BY NoneAssumption DEF IInv, AbortNothing, Files, Exit, Out, TypeOK, Procedures,
     Commands, Pcs, WorksLocked, NoForeignOwner, RecordIsSeen
<1>5. Ordered'
  BY NoneAssumption DEF IInv, AbortNothing, Files, Exit, Out, TypeOK, Procedures,
     Commands, Pcs, WorksLocked, Ordered
<1>6. LiveSessionIsOwned'
  BY NoneAssumption DEF IInv, AbortNothing, Files, Exit, Out, TypeOK, Procedures,
     Commands, Pcs, WorksLocked, RecordIsSeen, NoForeignOwner, Ordered,
     LiveSessionIsOwned, Opening, Unclaimed
<1>7. LiveSessionIsAnchored'
  BY NoneAssumption DEF IInv, AbortNothing, Files, Exit, Out, TypeOK, Procedures,
     Commands, Pcs, WorksLocked, RecordIsSeen, NoForeignOwner, Ordered,
     LiveSessionIsOwned, LiveSessionIsAnchored, Opening, Unclaimed
<1> QED
  BY <1>1, <1>2, <1>3, <1>4, <1>5, <1>6, <1>7 DEF IInv

LEMMA ClearKeeps == ASSUME NEW p \in Procs, IInv, Clear(p) PROVE IInv'
<1>1. TypeOK'
  BY NoneAssumption DEF IInv, Clear, Unanchor, TypeOK, Procedures, Commands, Pcs,
     WorksLocked
<1>2. WorksLocked'
  BY NoneAssumption DEF IInv, Clear, Unanchor, TypeOK, Procedures, Commands, Pcs,
     WorksLocked
<1>3. RecordIsSeen'
  BY NoneAssumption DEF IInv, Clear, Unanchor, TypeOK, Procedures, Commands, Pcs,
     WorksLocked, RecordIsSeen
<1>4. NoForeignOwner'
  BY NoneAssumption DEF IInv, Clear, Unanchor, TypeOK, Procedures, Commands, Pcs,
     WorksLocked, NoForeignOwner, RecordIsSeen
<1>5. Ordered'
  BY NoneAssumption DEF IInv, Clear, Unanchor, TypeOK, Procedures, Commands, Pcs,
     WorksLocked, Ordered
<1>6. LiveSessionIsOwned'
  BY NoneAssumption DEF IInv, Clear, Unanchor, TypeOK, Procedures, Commands, Pcs,
     WorksLocked, RecordIsSeen, NoForeignOwner, Ordered, LiveSessionIsOwned, Opening,
     Unclaimed
<1>7. LiveSessionIsAnchored'
  BY NoneAssumption DEF IInv, Clear, Unanchor, TypeOK, Procedures, Commands, Pcs,
     WorksLocked, RecordIsSeen, NoForeignOwner, Ordered, LiveSessionIsOwned,
     LiveSessionIsAnchored, Opening, Unclaimed
<1> QED
  BY <1>1, <1>2, <1>3, <1>4, <1>5, <1>6, <1>7 DEF IInv

LEMMA RemoveMarkerKeeps == ASSUME NEW p \in Procs, IInv, RemoveMarker(p) PROVE IInv'
<1>1. TypeOK'
  BY NoneAssumption DEF IInv, RemoveMarker, Exit, Out, TypeOK, Procedures, Commands,
     Pcs, WorksLocked
<1>2. WorksLocked'
  BY NoneAssumption DEF IInv, RemoveMarker, Exit, Out, TypeOK, Procedures, Commands,
     Pcs, WorksLocked
<1>3. RecordIsSeen'
  BY NoneAssumption DEF IInv, RemoveMarker, Exit, Out, TypeOK, Procedures, Commands,
     Pcs, WorksLocked, RecordIsSeen
<1>4. NoForeignOwner'
  BY NoneAssumption DEF IInv, RemoveMarker, Exit, Out, TypeOK, Procedures, Commands,
     Pcs, WorksLocked, NoForeignOwner, RecordIsSeen
<1>5. Ordered'
  BY NoneAssumption DEF IInv, RemoveMarker, Exit, Out, TypeOK, Procedures, Commands,
     Pcs, WorksLocked, Ordered
<1>6. LiveSessionIsOwned'
  BY NoneAssumption DEF IInv, RemoveMarker, Exit, Out, TypeOK, Procedures, Commands,
     Pcs, WorksLocked, RecordIsSeen, NoForeignOwner, Ordered, LiveSessionIsOwned,
     Opening, Unclaimed
<1>7. LiveSessionIsAnchored'
  BY NoneAssumption DEF IInv, RemoveMarker, Exit, Out, TypeOK, Procedures, Commands,
     Pcs, WorksLocked, RecordIsSeen, NoForeignOwner, Ordered, LiveSessionIsOwned,
     LiveSessionIsAnchored, Opening, Unclaimed
<1> QED
  BY <1>1, <1>2, <1>3, <1>4, <1>5, <1>6, <1>7 DEF IInv

LEMMA ReleaseKeeps == ASSUME NEW p \in Procs, IInv, Release(p) PROVE IInv'
<1>1. TypeOK'
  BY NoneAssumption DEF IInv, Release, Exit, Out, TypeOK, Procedures, Commands, Pcs,
     WorksLocked
<1>2. WorksLocked'
  BY NoneAssumption DEF IInv, Release, Exit, Out, TypeOK, Procedures, Commands, Pcs,
     WorksLocked
<1>3. RecordIsSeen'
  BY NoneAssumption DEF IInv, Release, Exit, Out, TypeOK, Procedures, Commands, Pcs,
     WorksLocked, RecordIsSeen
<1>4. NoForeignOwner'
  BY NoneAssumption DEF IInv, Release, Exit, Out, TypeOK, Procedures, Commands, Pcs,
     WorksLocked, NoForeignOwner, RecordIsSeen
<1>5. Ordered'
  BY NoneAssumption DEF IInv, Release, Exit, Out, TypeOK, Procedures, Commands, Pcs,
     WorksLocked, Ordered
<1>6. LiveSessionIsOwned'
  BY NoneAssumption DEF IInv, Release, Exit, Out, TypeOK, Procedures, Commands, Pcs,
     WorksLocked, RecordIsSeen, NoForeignOwner, Ordered, LiveSessionIsOwned, Opening,
     Unclaimed
<1>7. LiveSessionIsAnchored'
  BY NoneAssumption DEF IInv, Release, Exit, Out, TypeOK, Procedures, Commands, Pcs,
     WorksLocked, RecordIsSeen, NoForeignOwner, Ordered, LiveSessionIsOwned,
     LiveSessionIsAnchored, Opening, Unclaimed
<1> QED
  BY <1>1, <1>2, <1>3, <1>4, <1>5, <1>6, <1>7 DEF IInv

LEMMA DieKeeps == ASSUME NEW p \in Procs, IInv, Die(p) PROVE IInv'
<1>1. TypeOK'
  BY NoneAssumption DEF IInv, Die, Exit, Out, Unclaimed, TypeOK, Procedures, Commands,
     Pcs, WorksLocked
<1>2. WorksLocked'
  BY NoneAssumption DEF IInv, Die, Exit, Out, Unclaimed, TypeOK, Procedures, Commands,
     Pcs, WorksLocked
<1>3. RecordIsSeen'
  BY NoneAssumption DEF IInv, Die, Exit, Out, Unclaimed, TypeOK, Procedures, Commands,
     Pcs, WorksLocked, RecordIsSeen
<1>4. NoForeignOwner'
  BY NoneAssumption DEF IInv, Die, Exit, Out, Unclaimed, TypeOK, Procedures, Commands,
     Pcs, WorksLocked, NoForeignOwner, RecordIsSeen
<1>5. Ordered'
  BY NoneAssumption DEF IInv, Die, Exit, Out, Unclaimed, TypeOK, Procedures, Commands,
     Pcs, WorksLocked, Ordered
<1>6. LiveSessionIsOwned'
  BY NoneAssumption DEF IInv, Die, Exit, Out, Unclaimed, TypeOK, Procedures, Commands,
     Pcs, WorksLocked, RecordIsSeen, NoForeignOwner, Ordered, LiveSessionIsOwned,
     Opening
<1>7. LiveSessionIsAnchored'
  BY NoneAssumption DEF IInv, Die, Exit, Out, Unclaimed, TypeOK, Procedures, Commands,
     Pcs, WorksLocked, RecordIsSeen, NoForeignOwner, Ordered, LiveSessionIsOwned,
     LiveSessionIsAnchored, Opening
<1> QED
  BY <1>1, <1>2, <1>3, <1>4, <1>5, <1>6, <1>7 DEF IInv

LEMMA RemoveWorktreeKeeps == ASSUME NEW w \in Worktrees, IInv, RemoveWorktree(w) PROVE IInv'
<1>1. TypeOK'
  BY NoneAssumption DEF IInv, RemoveWorktree, TypeOK, Procedures, Commands, Pcs,
     WorksLocked
<1>2. WorksLocked'
  BY NoneAssumption DEF IInv, RemoveWorktree, TypeOK, Procedures, Commands, Pcs,
     WorksLocked
<1>3. RecordIsSeen'
  BY NoneAssumption DEF IInv, RemoveWorktree, TypeOK, Procedures, Commands, Pcs,
     WorksLocked, RecordIsSeen
<1>4. NoForeignOwner'
  BY NoneAssumption DEF IInv, RemoveWorktree, TypeOK, Procedures, Commands, Pcs,
     WorksLocked, NoForeignOwner, RecordIsSeen
<1>5. Ordered'
  BY NoneAssumption DEF IInv, RemoveWorktree, TypeOK, Procedures, Commands, Pcs,
     WorksLocked, Ordered
<1>6. LiveSessionIsOwned'
  BY NoneAssumption DEF IInv, RemoveWorktree, TypeOK, Procedures, Commands, Pcs,
     WorksLocked, RecordIsSeen, NoForeignOwner, Ordered, LiveSessionIsOwned, Opening,
     Unclaimed
<1>7. LiveSessionIsAnchored'
  BY NoneAssumption DEF IInv, RemoveWorktree, TypeOK, Procedures, Commands, Pcs,
     WorksLocked, RecordIsSeen, NoForeignOwner, Ordered, LiveSessionIsOwned,
     LiveSessionIsAnchored, Opening, Unclaimed
<1> QED
  BY <1>1, <1>2, <1>3, <1>4, <1>5, <1>6, <1>7 DEF IInv

LEMMA InitHolds == Init => IInv
  BY NoneAssumption DEF Init, Out, IInv, TypeOK, Procedures, Commands, Pcs, WorksLocked, RecordIsSeen,
     NoForeignOwner, Ordered, LiveSessionIsOwned, LiveSessionIsAnchored

LEMMA StutterKeeps == ASSUME IInv, UNCHANGED vars PROVE IInv'
  BY DEF vars, IInv, TypeOK, WorksLocked, RecordIsSeen, NoForeignOwner, Ordered,
     LiveSessionIsOwned, LiveSessionIsAnchored, Opening, Unclaimed

\* Every state of the ownership protocol satisfies the invariant: one lemma per step.
THEOREM Inductive == Spec => []IInv
<1>1. IInv /\ [Next]_vars => IInv'
  <2> SUFFICES ASSUME IInv, [Next]_vars PROVE IInv'
    OBVIOUS
  <2>1. CASE UNCHANGED vars
    BY <2>1, StutterKeeps
  <2>2. ASSUME NEW p \in Procs, Check(p) PROVE IInv'
    BY <2>2, ReadOwnerKeeps, RefuseForeignKeeps, FindStaleKeeps, DiscardAnchorsKeeps,
       DiscardOwnerKeeps DEF Check
  <2>3. ASSUME NEW p \in Procs, Open(p) PROVE IInv'
    BY <2>3, SnapshotAndAnchorKeeps, WriteMarkerKeeps, ClaimKeeps, ClaimFailsKeeps DEF Open
  <2>4. ASSUME NEW p \in Procs, Close(p) PROVE IInv'
    BY <2>4, StopKeeps, AbortKeeps, AbortNothingKeeps, ClearKeeps, RemoveMarkerKeeps,
       ReleaseKeeps DEF Close
  <2> QED
    BY <2>1, <2>2, <2>3, <2>4, BeginKeeps, DieKeeps, LockKeeps, WorkKeeps,
       RemoveWorktreeKeeps DEF Next, Step
<1> QED
  BY <1>1, InitHolds, PTL DEF Spec

\* The lock, the stores and the processes have the values they can have.
THEOREM TypeCorrect == Spec => []TypeOK
<1>1. IInv => TypeOK
  BY DEF IInv
<1> QED
  BY <1>1, Inductive, PTL

\* A session that was claimed is the one the owner record names
\* (claim_session_ownership, require_no_foreign_session_owner).
THEOREM Owned == Spec => []LiveSessionIsOwned
<1>1. IInv => LiveSessionIsOwned
  BY DEF IInv
<1> QED
  BY <1>1, Inductive, PTL

\* A session keeps the anchors of its recovery objects until it is closed
\* (clear_recovery_anchors, _discard_stale_owner).
THEOREM Anchored == Spec => []LiveSessionIsAnchored
<1>1. IInv => LiveSessionIsAnchored
  BY DEF IInv
<1> QED
  BY <1>1, Inductive, PTL

=============================================================================
