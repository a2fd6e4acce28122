------------------------------ MODULE UndoProofs ------------------------------
(***************************************************************************)
(* For every set of cells and values and every bound: the variables have   *)
(* their types, the two stacks stay aligned and implement the editor       *)
(* history, and rollback, undo and announcements keep what they promise of *)
(* the contents of cells (UndoContents).                                   *)
(***************************************************************************)
EXTENDS UndoContents, SequenceTheorems, TLAPS

-----------------------------------------------------------------------------
(* What the helpers on images return.                                        *)

LEMMA ImageOf ==
  ASSUME NEW f, NEW S \in SUBSET Cells, f \in [S -> Values]
  PROVE  f \in Images
BY DEF Images

LEMMA DomainOfImage ==
  ASSUME NEW f \in Images
  PROVE  DOMAIN f \subseteq Cells /\ f \in [DOMAIN f -> Values]
BY DEF Images

LEMMA ExceptImage ==
  ASSUME NEW f \in Images, NEW c, NEW v \in Values
  PROVE  [f EXCEPT ![c] = v] \in Images
<1>1. PICK S \in SUBSET Cells : f \in [S -> Values]
  BY DEF Images
<1>2. [f EXCEPT ![c] = v] \in [S -> Values]
  BY <1>1
<1> QED BY <1>2, ImageOf

LEMMA NoCellsType == NoCells \in Images
<1>1. NoCells \in [{} -> Values]
  BY DEF NoCells
<1> QED BY <1>1, ImageOf

LEMMA LiveType ==
  ASSUME live \in [Cells -> Values]
  PROVE  live \in Images
BY ImageOf

LEMMA SnapshotType ==
  ASSUME live \in [Cells -> Values], NEW S \in SUBSET Cells
  PROVE  Snapshot(S) \in Images
<1>1. Snapshot(S) \in [S -> Values]
  BY DEF Snapshot
<1> QED BY <1>1, ImageOf

LEMMA WrittenType ==
  ASSUME live \in [Cells -> Values], NEW img \in Images, NEW part
  PROVE  Written(img, part) \in [Cells -> Values]
BY DomainOfImage DEF Written

LEMMA CompletedType ==
  ASSUME live \in [Cells -> Values], NEW cp \in Checkpoints
  PROVE  Completed(cp) \in Checkpoints
<1> DEFINE kept == {c \in DOMAIN cp.before : c \in ScopedCells \/ live[c] # cp.before[c]}
<1>1. cp.before \in Images
  BY DEF Checkpoints
<1>2. kept \in SUBSET Cells
  BY <1>1, DomainOfImage
<1>3. [c \in kept |-> cp.before[c]] \in Images
  <2>1. [c \in kept |-> cp.before[c]] \in [kept -> Values]
    BY <1>1, DomainOfImage
  <2> QED BY <2>1, <1>2, ImageOf
<1>4. Snapshot(kept) \in Images
  BY <1>2, SnapshotType
<1> QED BY <1>3, <1>4 DEF Completed, Checkpoints

(* Sequences: the parent of a chain, and the chain one commit longer.         *)
LEMMA ParentType ==
  ASSUME NEW S, NEW s \in Seq(S)
  PROVE  /\ Parent(s) \in Seq(S)
         /\ s # <<>> => /\ Len(s) \in Nat \ {0} /\ Len(Parent(s)) = Len(s) - 1
                        /\ Newest(s) \in S
                        /\ \A i \in 1..Len(s) - 1 : Parent(s)[i] = s[i]
<1>1. Len(s) \in Nat /\ \A i \in 1..Len(s) : s[i] \in S
  BY LenProperties
<1>2. s # <<>> => Len(s) \in Nat \ {0}
  BY EmptySeq
<1>3. \A i \in 1..Len(s) - 1 : s[i] \in S
  BY <1>1
<1>4. /\ Parent(s) \in Seq(S)
      /\ Len(Parent(s)) = IF 1 <= Len(s) - 1 THEN Len(s) - 1 - 1 + 1 ELSE 0
      /\ \A i \in 1..Len(s) - 1 - 1 + 1 : Parent(s)[i] = s[1 + i - 1]
  BY <1>1, <1>3, SubSeqProperties DEF Parent
<1>5. ASSUME s # <<>>
      PROVE  Len(Parent(s)) = Len(s) - 1
  <2>1. PICK n \in Nat \ {0} : n = Len(s)
    BY <1>2, <1>5
  <2>2. Len(Parent(s)) = IF 1 <= n - 1 THEN n - 1 - 1 + 1 ELSE 0
    BY <1>4, <2>1
  <2>3. Len(Parent(s)) = n - 1
    BY <2>2
  <2> QED BY <2>1, <2>3
<1>6. ASSUME NEW i \in 1..Len(s) - 1
      PROVE  Parent(s)[i] = s[i]
  <2>1. i \in 1..Len(s) - 1 - 1 + 1 /\ 1 + i - 1 = i
    BY <1>1
  <2>2. Parent(s)[i] = s[1 + i - 1]
    BY <1>4, <2>1
  <2> QED BY <2>1, <2>2
<1>7. s # <<>> => Newest(s) \in S
  BY <1>1, <1>2 DEF Newest
<1> QED BY <1>2, <1>4, <1>5, <1>6, <1>7

LEMMA ParentOfAppend ==
  ASSUME NEW S, NEW s \in Seq(S), NEW e \in S
  PROVE  /\ Append(s, e) \in Seq(S) /\ Append(s, e) # <<>>
         /\ Len(s) \in Nat /\ Len(Append(s, e)) = Len(s) + 1
         /\ Newest(Append(s, e)) = e
         /\ Parent(Append(s, e)) = s
         /\ \A i \in 1..Len(s) : Append(s, e)[i] = s[i]
<1>1. /\ Append(s, e) \in Seq(S) /\ Append(s, e) # <<>>
      /\ Len(Append(s, e)) = Len(s) + 1
      /\ \A i \in 1..Len(s) : Append(s, e)[i] = s[i]
      /\ Append(s, e)[Len(s) + 1] = e
  BY AppendProperties
<1>2. Len(s) \in Nat
  BY LenProperties
<1>3. Parent(Append(s, e)) = s
  <2> DEFINE t == Append(s, e)
  <2>1. t \in Seq(S) /\ t # <<>>
    BY <1>1
  <2> HIDE DEF t
  <2>2. /\ Parent(t) \in Seq(S)
        /\ Len(Parent(t)) = Len(t) - 1
        /\ \A i \in 1..Len(t) - 1 : Parent(t)[i] = t[i]
    BY <2>1, ParentType
  <2>3. Len(t) - 1 = Len(s) /\ \A i \in 1..Len(s) : t[i] = s[i]
    BY <1>1, <1>2 DEF t
  <2>4. Len(Parent(t)) = Len(s) /\ \A i \in 1..Len(s) : Parent(t)[i] = s[i]
    BY <2>2, <2>3
  <2>5. Parent(t) = s
    BY <2>2, <2>4, SeqEqual
  <2> QED BY <2>5 DEF t
<1> QED BY <1>1, <1>2, <1>3 DEF Newest

-----------------------------------------------------------------------------
(* Type correctness.  It needs the history invariant: a checkpoint is read    *)
(* only where the process holds one.                                         *)

LEMMA StableTypes ==
  ASSUME TypeOK
  PROVE  /\ UNCHANGED store => StoreType'
         /\ UNCHANGED <<pc, task>> => ControlType'
         /\ UNCHANGED command => CommandType'
         /\ UNCHANGED result => ResultType'
         /\ UNCHANGED restore => RestoreType'
         /\ UNCHANGED ghost => GhostType'
<1>1. UNCHANGED store => StoreType'
  BY DEF TypeOK, StoreType, store
<1>2. UNCHANGED <<pc, task>> => ControlType'
  BY DEF TypeOK, ControlType
<1>3. UNCHANGED command => CommandType'
  BY DEF TypeOK, CommandType, command
<1>4. UNCHANGED result => ResultType'
  BY DEF TypeOK, ResultType, result
<1>5. UNCHANGED restore => RestoreType'
  BY DEF TypeOK, RestoreType, restore
<1>6. UNCHANGED ghost => GhostType'
  BY DEF TypeOK, GhostType, ghost
<1> QED BY <1>1, <1>2, <1>3, <1>4, <1>5, <1>6

LEMMA NewestChain ==
  ASSUME TypeOK
  PROVE  /\ checkpoint # <<>> => Newest(checkpoint) \in Checkpoints
         /\ undo # <<>> => Newest(undo) \in Checkpoints
         /\ redo # <<>> => Newest(redo) \in RedoNodes
         /\ Parent(checkpoint) \in Chains /\ Parent(undo) \in Chains
         /\ Parent(redo) \in Seq(RedoNodes)
<1>1. undo \in Seq(Checkpoints) /\ checkpoint \in Seq(Checkpoints) /\ redo \in Seq(RedoNodes)
  BY DEF TypeOK, StoreType, CommandType, Chains
<1> QED BY <1>1, ParentType DEF Chains

LEMMA EmptyTypes ==
  /\ NoCells \in Images
  /\ <<>> \in Chains /\ <<>> \in Seq(RedoNodes) /\ <<>> \in Seq(Contexts)
BY NoCellsType, EmptySeq DEF Chains

LEMMA InitType == Init => TypeOK
<1> SUFFICES ASSUME Init PROVE TypeOK
  OBVIOUS
<1>1. StoreType /\ ControlType /\ CommandType
  BY EmptyTypes DEF Init, StoreType, ControlType, CommandType
<1>2. ResultType /\ RestoreType /\ GhostType
  BY EmptyTypes DEF Init, ResultType, RestoreType, GhostType
<1> QED BY <1>1, <1>2 DEF TypeOK

LEMMA ForgetType ==
  ASSUME TypeOK, Forget, UNCHANGED store
  PROVE  TypeOK'
<1>1. ControlType' /\ CommandType'
  BY EmptyTypes DEF Forget, ControlType, CommandType
<1>2. ResultType' /\ RestoreType' /\ GhostType'
  BY EmptyTypes DEF Forget, ResultType, RestoreType, GhostType, NoCells
<1> QED BY <1>1, <1>2, StableTypes DEF TypeOK

\* One restore stage writes cells of the image.
LEMMA RestoreStageType ==
  ASSUME TypeOK, NEW part, live' = Written(image, part), UNCHANGED <<undo, redo>>,
         marker' \in BOOLEAN
  PROVE  StoreType'
<1>1. live' \in [Cells -> Values]
  BY WrittenType DEF TypeOK, StoreType, RestoreType
<1> QED BY <1>1 DEF TypeOK, StoreType

\* SettleRollback and BeginRestore, the shared tails of several actions.
LEMMA SettleType ==
  ASSUME TypeOK, NEW status \in {"completed", "not-needed", "failed", "not-attempted"},
         SettleRollback(status)
  PROVE  ResultType'
BY DEF TypeOK, ResultType, SettleRollback

LEMMA BeginRestoreType ==
  ASSUME TypeOK, NEW img \in Images, NEW wipe \in BOOLEAN, BeginRestore(img, wipe)
  PROVE  /\ pc' = "restore"
         /\ image' \in Images /\ whole' \in BOOLEAN
         /\ stage' \in {"wipe", "meta", "refs", "index", "worktree", "done"}
BY DEF BeginRestore

LEMMA StartRollbackType ==
  ASSUME TypeOK, checkpoint # <<>>, StartRollback
  PROVE  RestoreType' /\ pc' = "restore"
<1>1. Newest(checkpoint).before \in Images
  BY NewestChain DEF Checkpoints
<1>2. BeginRestore(Newest(checkpoint).before, TRUE) /\ UNCHANGED <<target, forced>>
  BY DEF StartRollback
<1>3. /\ image' \in Images /\ whole' \in BOOLEAN /\ pc' = "restore"
      /\ stage' \in {"wipe", "meta", "refs", "index", "worktree", "done"}
  BY <1>1, <1>2, BeginRestoreType
<1> QED BY <1>2, <1>3 DEF RestoreType, TypeOK

LEMMA StartHistoryType ==
  ASSUME TypeOK, StartHistory
  PROVE  GhostType'
BY LiveType DEF TypeOK, StoreType, StartHistory, GhostType

LEMMA TypeStep ==
  ASSUME TypeOK, HistoryInv, [Next]_vars
  PROVE  TypeOK'
<1>L. live \in [Cells -> Values] /\ live \in Images
  BY LiveType DEF TypeOK, StoreType
<1>C. Running => checkpoint # <<>>
  BY DEF HistoryInv, OpenCommand, Running
<1>1. ASSUME NEW c \in IndexCells \cup WorkCells, NEW v \in Values, UserEdit(c, v)
      PROVE  TypeOK'
  <2>1. StoreType'
    BY <1>1, CellAssumption DEF UserEdit, TypeOK, StoreType, Cells, ScopedCells
  <2>2. GhostType'
    <3>1. [expect EXCEPT ![c] = v] \in Images
      BY ExceptImage DEF TypeOK, GhostType
    <3> QED BY <1>1, <3>1 DEF UserEdit, TypeOK, GhostType, Cells, ScopedCells
  <2> QED BY <1>1, <2>1, <2>2, StableTypes DEF UserEdit, TypeOK
<1>2. ASSUME NEW c \in ViewCells, NEW v \in Values, Browse(c, v)
      PROVE  TypeOK'
  <2>1. StoreType'
    BY <1>2, CellAssumption DEF Browse, TypeOK, StoreType, Cells, AutoCells, ScopedCells
  <2> QED BY <1>2, <2>1, StableTypes DEF Browse, TypeOK
<1>3. ASSUME NEW s \in Scopes, NEW tx \in BOOLEAN, NEW deferred \in BOOLEAN, OpenCheckpoint(s, tx, deferred)
      PROVE  TypeOK'
  <2>1. StoreType'
    <3>1. s \cup AutoCells \in SUBSET Cells
      BY CellAssumption DEF Cells, AutoCells
    <3>2. [before |-> Snapshot(s \cup AutoCells), after |-> NoImage] \in Checkpoints
      BY <3>1, <1>L, SnapshotType DEF Checkpoints
    <3>3. undo' \in Chains
      BY <1>3, <3>2, AppendProperties DEF OpenCheckpoint, TypeOK, StoreType, Chains
    <3> QED BY <1>3, <3>3, EmptyTypes DEF OpenCheckpoint, TypeOK, StoreType
  <2>2. ControlType'
    BY <1>3 DEF OpenCheckpoint, TypeOK, ControlType
  <2>3. CommandType'
    <3>1. checkpoint' \in Chains
      BY <1>3, <2>1 DEF OpenCheckpoint, StoreType
    <3>2. <<Context(s, tx, deferred)>> \in Seq(Contexts)
      BY CellAssumption DEF Context, Contexts
    <3> QED BY <1>3, <3>1, <3>2 DEF OpenCheckpoint, TypeOK, StoreType, CommandType
  <2>4. ResultType'
    BY <1>3 DEF OpenCheckpoint, TypeOK, ResultType
  <2>5. GhostType'
    BY <1>3, StartHistoryType DEF OpenCheckpoint
  <2> QED BY <1>3, <2>1, <2>2, <2>3, <2>4, <2>5, StableTypes DEF OpenCheckpoint, TypeOK
<1>4. ASSUME NEW s \in Scopes, NEW tx \in BOOLEAN, NEW deferred \in BOOLEAN, OpenNested(s, tx, deferred)
      PROVE  TypeOK'
  <2>1. CommandType'
    <3>1. Context(s, tx, deferred) \in Contexts
      BY CellAssumption DEF Context, Contexts
    <3>2. contexts' \in Seq(Contexts)
      BY <1>4, <3>1, AppendProperties DEF OpenNested, TypeOK, CommandType
    <3> QED BY <1>4, <3>2 DEF OpenNested, TypeOK, CommandType
  <2> QED BY <1>4, <2>1, StableTypes DEF OpenNested, TypeOK
<1>5. ASSUME NEW s \in Scopes, NEW tx \in BOOLEAN, RefuseNested(s, tx)
      PROVE  TypeOK'
  <2>1. CommandType'
    BY <1>5 DEF RefuseNested, TypeOK, CommandType
  <2> QED BY <1>5, <2>1, StableTypes DEF RefuseNested, TypeOK
<1>6. CASE ArmRollback
  <2>1. CommandType'
    <3>1. contexts # <<>>
      BY <1>6 DEF ArmRollback, HistoryInv, PhaseOfTask
    <3>2. contexts \in Seq(Contexts) /\ Len(contexts) \in 1..Len(contexts)
      BY <3>1, EmptySeq DEF TypeOK, CommandType
    <3>3. contexts[Len(contexts)] \in Contexts
      BY <3>2
    <3>4. [contexts[Len(contexts)] EXCEPT !.armed = TRUE] \in Contexts
      BY <3>3 DEF Contexts
    <3>5. contexts' \in Seq(Contexts)
      BY <1>6, <3>2, <3>4, ExceptSeq DEF ArmRollback
    <3> QED BY <1>6, <3>5 DEF ArmRollback, TypeOK, CommandType
  <2> QED BY <1>6, <2>1, StableTypes DEF ArmRollback, TypeOK
<1>7. ASSUME NEW c \in Cells, NEW v \in Values, Mutate(c, v)
      PROVE  TypeOK'
  <2>1. StoreType'
    BY <1>7 DEF Mutate, TypeOK, StoreType
  <2> QED BY <1>7, <2>1, StableTypes DEF Mutate, TypeOK
<1>8. CASE Raise
  <2>1. CommandType'
    BY <1>8 DEF Raise, TypeOK, CommandType
  <2> QED BY <1>8, <2>1, StableTypes DEF Raise, TypeOK
<1>9. CASE Catch
  <2>1. CommandType'
    BY <1>9 DEF Catch, TypeOK, CommandType
  <2> QED BY <1>9, <2>1, StableTypes DEF Catch, TypeOK
<1>10. CASE CloseNested
  <2>1. CommandType'
    <3>1. Parent(contexts) \in Seq(Contexts)
      BY ParentType DEF TypeOK, CommandType
    <3>2. cause' \in BOOLEAN
      BY <1>10 DEF CloseNested, TypeOK, CommandType
    <3> QED BY <1>10, <3>1, <3>2 DEF CloseNested, TypeOK, CommandType, Parent
  <2> QED BY <1>10, <2>1, StableTypes DEF CloseNested, TypeOK
<1>11. CASE DeferCompletion
  <2>1. ResultType'
    BY <1>11 DEF DeferCompletion, TypeOK, ResultType
  <2> QED BY <1>11, <2>1, StableTypes DEF DeferCompletion, TypeOK
<1>12. CASE CloseWithError
  <2>1. UNCHANGED <<store, task, command, ghost>>
    BY <1>12 DEF CloseWithError
  <2>2. checkpoint # <<>>
    BY <1>12, <1>C DEF CloseWithError, HistoryInv, PhaseOfTask, Running
  <2>3. CASE StartRollback /\ UNCHANGED result
    BY <2>1, <2>2, <2>3, StartRollbackType, StableTypes DEF TypeOK, ControlType
  <2>4. CASE UNCHANGED <<restore, result>> /\ pc' \in {"discard", "finalize"}
    BY <2>1, <2>4, StableTypes DEF TypeOK, ControlType
  <2> QED BY <1>12, <2>3, <2>4 DEF CloseWithError
<1>13. CASE CloseNormally
  <2>1. UNCHANGED <<store, task, command, ghost>>
    BY <1>13 DEF CloseNormally
  <2>2. checkpoint # <<>>
    BY <1>13, <1>C DEF CloseNormally, HistoryInv, PhaseOfTask, Running
  <2>3. CASE StartRollback /\ UNCHANGED result
    BY <2>1, <2>2, <2>3, StartRollbackType, StableTypes DEF TypeOK, ControlType
  <2>4. CASE UNCHANGED <<restore, result>> /\ pc' \in {"discard", "finalize"}
    BY <2>1, <2>4, StableTypes DEF TypeOK, ControlType
  <2> QED BY <1>13, <2>3, <2>4 DEF CloseNormally
<1>14. CASE FinalizeCheckpoint
  <2>1. StoreType'
    <3>1. undo # <<>>
      BY <1>14, <1>C DEF FinalizeCheckpoint, HistoryInv, PhaseOfTask, Running
    <3>2. Completed(Newest(undo)) \in Checkpoints /\ Parent(undo) \in Seq(Checkpoints)
      BY <3>1, <1>L, NewestChain, CompletedType DEF Chains
    <3>3. undo' \in Chains
      BY <1>14, <3>2, AppendProperties DEF FinalizeCheckpoint, Chains
    <3> QED BY <1>14, <3>3 DEF FinalizeCheckpoint, TypeOK, StoreType
  <2>2. ControlType'
    BY <1>14 DEF FinalizeCheckpoint, TypeOK, ControlType
  <2>3. ResultType'
    BY <1>14 DEF FinalizeCheckpoint, TypeOK, ResultType, result
  <2> QED BY <1>14, <2>1, <2>2, <2>3, StableTypes DEF FinalizeCheckpoint, TypeOK
<1>15. CASE FinalizeFails
  <2>1. UNCHANGED <<store, task, command, ghost>>
    BY <1>15 DEF FinalizeFails
  <2>2. checkpoint # <<>>
    BY <1>15, <1>C DEF FinalizeFails, HistoryInv, PhaseOfTask, Running
  <2>3. CASE StartRollback /\ UNCHANGED result
    BY <2>1, <2>2, <2>3, StartRollbackType, StableTypes DEF TypeOK, ControlType
  <2>4. CASE UNCHANGED restore /\ pc' = "done" /\ SettleRollback("not-attempted")
    BY <2>1, <2>4, SettleType, StableTypes DEF TypeOK, ControlType
  <2>5. CASE /\ UNCHANGED <<restore, outcome, completions, announced>> /\ pc' = "done"
             /\ rollback' = "not-attempted"
    <3>1. ResultType'
      BY <2>5 DEF TypeOK, ResultType
    <3> QED BY <2>1, <2>5, <3>1, StableTypes DEF TypeOK, ControlType
  <2> QED BY <1>15, <2>3, <2>4, <2>5 DEF FinalizeFails
<1>16. CASE DiscardCheckpoint
  <2>1. StoreType'
    BY <1>16, NewestChain DEF DiscardCheckpoint, TypeOK, StoreType, CommandType
  <2>2. ControlType'
    BY <1>16 DEF DiscardCheckpoint, TypeOK, ControlType
  <2>3. ResultType'
    BY <1>16, SettleType DEF DiscardCheckpoint
  <2> QED BY <1>16, <2>1, <2>2, <2>3, StableTypes DEF DiscardCheckpoint, TypeOK
<1>17. CASE RollbackFails
  <2>1. ControlType'
    BY <1>17 DEF RollbackFails, TypeOK, ControlType
  <2>2. ResultType'
    BY <1>17, SettleType DEF RollbackFails
  <2> QED BY <1>17, <2>1, <2>2, StableTypes DEF RollbackFails, TypeOK
<1>18. CASE RestoreWipe
  <2>1. StoreType'
    BY <1>18, CellAssumption DEF RestoreWipe, TypeOK, StoreType
  <2>2. ControlType'
    BY <1>18 DEF RestoreWipe, TypeOK, ControlType
  <2>3. RestoreType'
    BY <1>18 DEF RestoreWipe, TypeOK, RestoreType
  <2> QED BY <1>18, <2>1, <2>2, <2>3, StableTypes DEF RestoreWipe, TypeOK
<1>19. CASE RestoreMetadata
  <2>1. StoreType'
    BY <1>19, RestoreStageType DEF RestoreMetadata, TypeOK, StoreType, RestoreType
  <2>2. ControlType'
    BY <1>19 DEF RestoreMetadata, TypeOK, ControlType
  <2>3. RestoreType'
    BY <1>19 DEF RestoreMetadata, TypeOK, RestoreType
  <2> QED BY <1>19, <2>1, <2>2, <2>3, StableTypes DEF RestoreMetadata, TypeOK
<1>20. CASE RestoreRefs
  <2>1. StoreType'
    BY <1>20, RestoreStageType DEF RestoreRefs, TypeOK, StoreType, RestoreType
  <2>2. ControlType'
    BY <1>20 DEF RestoreRefs, TypeOK, ControlType
  <2>3. RestoreType'
    BY <1>20 DEF RestoreRefs, TypeOK, RestoreType
  <2> QED BY <1>20, <2>1, <2>2, <2>3, StableTypes DEF RestoreRefs, TypeOK
<1>21. CASE RestoreIndex
  <2>1. StoreType'
    BY <1>21, RestoreStageType DEF RestoreIndex, TypeOK, StoreType, RestoreType
  <2>2. ControlType'
    BY <1>21 DEF RestoreIndex, TypeOK, ControlType
  <2>3. RestoreType'
    BY <1>21 DEF RestoreIndex, TypeOK, RestoreType
  <2> QED BY <1>21, <2>1, <2>2, <2>3, StableTypes DEF RestoreIndex, TypeOK
<1>22. CASE RestoreWorktree
  <2>1. StoreType'
    BY <1>22, RestoreStageType DEF RestoreWorktree, TypeOK, StoreType, RestoreType
  <2>2. ControlType'
    BY <1>22 DEF RestoreWorktree, TypeOK, ControlType, HistoryInv, PhaseOfTask
  <2>3. RestoreType'
    BY <1>22 DEF RestoreWorktree, TypeOK, RestoreType
  <2> QED BY <1>22, <2>1, <2>2, <2>3, StableTypes DEF RestoreWorktree, TypeOK
<1>23. ASSUME NEW force \in BOOLEAN, CheckUndo(force)
      PROVE  TypeOK'
  <2>1. ControlType'
    BY <1>23 DEF CheckUndo, TypeOK, ControlType
  <2>2. CommandType'
    BY <1>23 DEF CheckUndo, TypeOK, CommandType, StoreType
  <2>3. RestoreType'
    BY <1>23 DEF CheckUndo, TypeOK, RestoreType
  <2>4. GhostType'
    BY <1>23, StartHistoryType DEF CheckUndo
  <2> QED BY <1>23, <2>1, <2>2, <2>3, <2>4, StableTypes DEF CheckUndo, TypeOK
<1>24. ASSUME NEW force \in BOOLEAN, CheckRedo(force)
      PROVE  TypeOK'
  <2>1. RestoreType'
    <3>1. Newest(redo).target \in Images
      BY <1>24, NewestChain DEF CheckRedo, RedoNodes
    <3> QED BY <1>24, <3>1, BeginRestoreType DEF CheckRedo, TypeOK, RestoreType
  <2>2. ControlType'
    BY <1>24 DEF CheckRedo, BeginRestore, ControlType
  <2>3. GhostType'
    BY <1>24, StartHistoryType DEF CheckRedo
  <2> QED BY <1>24, <2>1, <2>2, <2>3, StableTypes DEF CheckRedo, TypeOK, BeginRestore
<1>25. CASE CaptureRedoTarget
  <2>1. RestoreType'
    <3>1. Newest(checkpoint) \in Checkpoints
      BY <1>25, NewestChain DEF CaptureRedoTarget, HistoryInv, PhaseOfTask, OpenUndo
    <3>2. Newest(checkpoint).before \in Images /\ Incomplete(Newest(checkpoint)) \in BOOLEAN
      BY <3>1 DEF Checkpoints, Incomplete
    <3>3. RedoOwned(Newest(checkpoint)) \in SUBSET Cells
      BY <3>2, DomainOfImage DEF RedoOwned
    <3>4. target' \in Images
      BY <1>25, <1>L, <3>3, SnapshotType DEF CaptureRedoTarget
    <3> QED BY <1>25, <3>2, <3>4, BeginRestoreType DEF CaptureRedoTarget, TypeOK, RestoreType
  <2>2. ControlType'
    BY <1>25 DEF CaptureRedoTarget, BeginRestore, TypeOK, ControlType
  <2> QED BY <1>25, <2>1, <2>2, StableTypes DEF CaptureRedoTarget, TypeOK, BeginRestore
<1>26. CASE PushRedoNode
  <2>1. StoreType'
    <3> DEFINE node == [target |-> target, afterUndo |-> Snapshot(DOMAIN target),
                     chain |-> checkpoint]
    <3>1. target \in Images /\ DOMAIN target \in SUBSET Cells
      BY DomainOfImage DEF TypeOK, RestoreType
    <3>2. node \in RedoNodes
      BY <3>1, <1>L, SnapshotType DEF TypeOK, CommandType, RedoNodes
    <3>3. redo' = Append(redo, node)
      BY <1>26 DEF PushRedoNode
    <3> HIDE DEF node
    <3>4. redo' \in Seq(RedoNodes)
      BY <3>2, <3>3, AppendProperties DEF TypeOK, StoreType
    <3> QED BY <1>26, <3>4 DEF PushRedoNode, TypeOK, StoreType
  <2>2. ControlType'
    BY <1>26 DEF PushRedoNode, TypeOK, ControlType
  <2> QED BY <1>26, <2>1, <2>2, StableTypes DEF PushRedoNode, TypeOK
<1>27. CASE PopUndo
  <2>1. StoreType'
    BY <1>27, NewestChain DEF PopUndo, TypeOK, StoreType
  <2>2. ControlType'
    BY <1>27 DEF PopUndo, TypeOK, ControlType
  <2> QED BY <1>27, <2>1, <2>2, StableTypes DEF PopUndo, TypeOK
<1>28. CASE SetUndo
  <2>1. StoreType'
    <3>1. Newest(redo).chain \in Chains
      BY <1>28, NewestChain DEF SetUndo, HistoryInv, PhaseOfTask, OpenRedo, RedoNodes
    <3> QED BY <1>28, <3>1 DEF SetUndo, TypeOK, StoreType
  <2>2. ControlType'
    BY <1>28 DEF SetUndo, TypeOK, ControlType
  <2> QED BY <1>28, <2>1, <2>2, StableTypes DEF SetUndo, TypeOK
<1>29. CASE PopRedo
  <2>1. StoreType'
    BY <1>29, NewestChain DEF PopRedo, TypeOK, StoreType
  <2>2. ControlType'
    BY <1>29 DEF PopRedo, TypeOK, ControlType
  <2> QED BY <1>29, <2>1, <2>2, StableTypes DEF PopRedo, TypeOK
<1>30. CASE Return
  BY <1>30, ForgetType DEF Return
<1>31. CASE Crash
  BY <1>31, ForgetType DEF Crash
<1>32. CASE UNCHANGED vars
  BY <1>32, StableTypes DEF TypeOK, vars
<1> QED
  BY <1>1, <1>2, <1>3, <1>4, <1>5, <1>6, <1>7, <1>8, <1>9, <1>10, <1>11, <1>12, <1>13, <1>14, <1>15, <1>16, <1>17, <1>18, <1>19, <1>20, <1>21, <1>22, <1>23, <1>24, <1>25, <1>26, <1>27, <1>28, <1>29, <1>30, <1>31, <1>32 DEF Next

-----------------------------------------------------------------------------
(* The alignment of the two stacks, and how each ref update keeps it.         *)

LEMMA PrefixPointwise ==
  ASSUME NEW p \in Chains, NEW l \in Chains
  PROVE  Prefix(p, l) <=> Len(p) <= Len(l) /\ \A i \in 1..Len(p) : p[i] = l[i]
<1>1. Len(p) \in Nat /\ Len(l) \in Nat /\ \A i \in 1..Len(l) : l[i] \in Checkpoints
  BY LenProperties DEF Chains
<1>2. ASSUME Len(p) <= Len(l)
      PROVE  p = SubSeq(l, 1, Len(p)) <=> \A i \in 1..Len(p) : p[i] = l[i]
  <2> DEFINE q == SubSeq(l, 1, Len(p))
  <2>1. \A i \in 1..Len(p) : l[i] \in Checkpoints
    BY <1>1, <1>2
  <2>2. /\ q \in Seq(Checkpoints)
        /\ Len(q) = IF 1 <= Len(p) THEN Len(p) - 1 + 1 ELSE 0
        /\ \A i \in 1..Len(p) - 1 + 1 : q[i] = l[1 + i - 1]
    BY <1>1, <2>1, SubSeqProperties
  <2> HIDE DEF q
  <2>3. Len(q) = Len(p)
    BY <1>1, <2>2
  <2>4. ASSUME NEW i \in 1..Len(p)
        PROVE  q[i] = l[i]
    <3>1. i \in 1..Len(p) - 1 + 1 /\ 1 + i - 1 = i
      BY <1>1
    <3> QED BY <2>2, <3>1
  <2>5. ASSUME \A i \in 1..Len(p) : p[i] = l[i]
        PROVE  p = q
    BY <2>2, <2>3, <2>4, <2>5, SeqEqual DEF Chains
  <2>6. p = q => \A i \in 1..Len(p) : p[i] = l[i]
    BY <2>4
  <2>7. p = q <=> \A i \in 1..Len(p) : p[i] = l[i]
    BY <2>5, <2>6
  <2> QED BY <2>7 DEF q
<1> QED BY <1>2 DEF Prefix

LEMMA PrefixRefl ==
  ASSUME NEW p \in Chains
  PROVE  Prefix(p, p)
<1>1. Len(p) \in Nat
  BY LenProperties DEF Chains
<1> QED BY <1>1, PrefixPointwise

LEMMA PrefixParent ==
  ASSUME NEW p \in Chains, NEW l \in Chains, Prefix(p, l), p # <<>>
  PROVE  Prefix(Parent(p), l)
<1>1. /\ Parent(p) \in Chains /\ Len(p) \in Nat \ {0} /\ Len(Parent(p)) = Len(p) - 1
      /\ \A i \in 1..Len(p) - 1 : Parent(p)[i] = p[i]
  BY ParentType DEF Chains
<1>2. Len(l) \in Nat /\ Len(p) <= Len(l) /\ \A i \in 1..Len(p) : p[i] = l[i]
  BY PrefixPointwise, LenProperties DEF Chains
<1>3. Len(Parent(p)) <= Len(l)
  BY <1>1, <1>2
<1>4. \A i \in 1..Len(Parent(p)) : Parent(p)[i] = l[i]
  BY <1>1, <1>2
<1> QED BY <1>1, <1>3, <1>4, PrefixPointwise

LEMMA NodeChains ==
  ASSUME NEW r \in Seq(RedoNodes)
  PROVE  /\ Len(r) \in Nat
         /\ \A i \in 1..Len(r) : r[i].chain \in Chains /\ Len(r[i].chain) \in Nat
         /\ r # <<>> => /\ Len(r) \in Nat \ {0} /\ 1 \in 1..Len(r) /\ Len(r) \in 1..Len(r)
                        /\ Newest(r) = r[Len(r)]
<1>1. Len(r) \in Nat /\ \A i \in 1..Len(r) : r[i] \in RedoNodes
  BY LenProperties
<1>2. \A i \in 1..Len(r) : r[i].chain \in Chains
  BY <1>1 DEF RedoNodes
<1>3. \A i \in 1..Len(r) : Len(r[i].chain) \in Nat
  BY <1>2, LenProperties DEF Chains
<1>4. r # <<>> => Len(r) \in Nat \ {0}
  BY <1>1, EmptySeq
<1> QED BY <1>1, <1>2, <1>3, <1>4 DEF Newest

\* undo_last_checkpoint pushes a redo node whose chain is the undo stack.
LEMMA AlignedPush ==
  ASSUME NEW u \in Chains, NEW r \in Seq(RedoNodes), NEW node \in RedoNodes,
         Aligned(u, r), u # <<>>, node.chain = u
  PROVE  Aligned(u, Append(r, node))
<1> DEFINE q == Append(r, node)
<1>1. /\ q \in Seq(RedoNodes) /\ q # <<>> /\ Len(r) \in Nat
      /\ Len(q) = Len(r) + 1 /\ Newest(q) = node
      /\ \A i \in 1..Len(r) : q[i] = r[i]
      /\ q[Len(r) + 1] = node
  BY ParentOfAppend, AppendProperties
<1> HIDE DEF q
<1>2. Len(u) \in Nat
  BY LenProperties DEF Chains
<1>3. CASE r = <<>>
  <2>1. Len(r) = 0 /\ Len(q) = 1 /\ q[1] = node
    BY <1>1, <1>3, EmptySeq
  <2>2. Prefix(u, q[1].chain) /\ q[1].chain # <<>>
    BY <2>1, PrefixRefl
  <2> QED BY <1>1, <1>2, <2>1, <2>2 DEF Aligned, q
<1>4. CASE r # <<>>
  <2>1. /\ q[1] = r[1] /\ Len(r) \in Nat \ {0}
        /\ Newest(r) = r[Len(r)] /\ q[Len(r)] = r[Len(r)]
    BY <1>1, <1>4, NodeChains
  <2>2. Prefix(u, q[1].chain)
    BY <1>4, <2>1 DEF Aligned
  <2>3. ASSUME NEW i \in 1..Len(q)
        PROVE  q[i].chain # <<>> /\ Prefix(q[i].chain, q[1].chain)
    <3>1. CASE i \in 1..Len(r)
      BY <1>1, <1>4, <2>1, <3>1 DEF Aligned
    <3>2. CASE i = Len(r) + 1
      BY <1>1, <2>2, <3>2
    <3> QED BY <1>1, <3>1, <3>2
  <2>4. Len(u) \in {Len(Newest(q).chain), Len(Newest(q).chain) - 1}
    BY <1>1, <1>2
  <2>5. ASSUME NEW i \in 1..Len(q) - 1
        PROVE  Len(q[i + 1].chain) \in {Len(q[i].chain), Len(q[i].chain) - 1}
    <3>1. CASE i \in 1..Len(r) - 1
      <4>1. q[i] = r[i] /\ q[i + 1] = r[i + 1]
        BY <1>1, <3>1
      <4> QED BY <1>4, <3>1, <4>1 DEF Aligned
    <3>2. CASE i = Len(r)
      BY <1>1, <1>4, <2>1, <3>2 DEF Aligned
    <3> QED BY <1>1, <3>1, <3>2
  <2> QED BY <2>2, <2>3, <2>4, <2>5 DEF Aligned, q
<1> QED BY <1>3, <1>4

\* ... and then moves the undo ref to its parent.
LEMMA AlignedPop ==
  ASSUME NEW u \in Chains, NEW r \in Seq(RedoNodes),
         Aligned(u, r), u # <<>>, r # <<>>, Newest(r).chain = u
  PROVE  Aligned(Parent(u), r)
<1>1. r[1].chain \in Chains
  BY NodeChains
<1>2. Prefix(Parent(u), r[1].chain)
  BY <1>1, PrefixParent DEF Aligned
<1>3. Len(Parent(u)) = Len(Newest(r).chain) - 1
  BY ParentType DEF Chains
<1> QED BY <1>2, <1>3 DEF Aligned

\* redo_last_checkpoint sets the undo ref to the newest node's chain.
LEMMA AlignedSet ==
  ASSUME NEW u \in Chains, NEW r \in Seq(RedoNodes), Aligned(u, r), r # <<>>
  PROVE  Aligned(Newest(r).chain, r)
<1>1. Prefix(Newest(r).chain, r[1].chain)
  BY NodeChains DEF Aligned
<1> QED BY <1>1 DEF Aligned

\* ... and then drops that node.
LEMMA AlignedDrop ==
  ASSUME NEW u \in Chains, NEW r \in Seq(RedoNodes),
         Aligned(u, r), r # <<>>, Newest(r).chain = u
  PROVE  Aligned(u, Parent(r))
<1> DEFINE q == Parent(r)
<1>1. /\ q \in Seq(RedoNodes) /\ Len(r) \in Nat \ {0} /\ Len(q) = Len(r) - 1
      /\ \A i \in 1..Len(r) - 1 : q[i] = r[i]
  BY ParentType
<1> HIDE DEF q
<1>2. SUFFICES ASSUME q # <<>> PROVE Aligned(u, q)
  BY DEF Aligned, q
<1>3. PICK n \in Nat \ {0} : n = Len(q)
  BY <1>2, NodeChains, <1>1
<1>4. Len(r) = n + 1 /\ \A i \in 1..n : q[i] = r[i]
  BY <1>1, <1>3
<1>5. q[1] = r[1] /\ Newest(q) = r[n] /\ Newest(r) = r[n + 1]
  BY <1>3, <1>4 DEF Newest
<1>6. Prefix(u, q[1].chain)
  BY <1>5 DEF Aligned
<1>7. \A i \in 1..n : q[i].chain # <<>> /\ Prefix(q[i].chain, q[1].chain)
  BY <1>4, <1>5 DEF Aligned
<1>8. Len(u) \in {Len(Newest(q).chain), Len(Newest(q).chain) - 1}
  <2>1. n \in 1..Len(r) - 1
    BY <1>4
  <2> QED BY <1>5, <2>1 DEF Aligned
<1>9. ASSUME NEW i \in 1..n - 1
      PROVE  Len(q[i + 1].chain) \in {Len(q[i].chain), Len(q[i].chain) - 1}
  <2>1. i \in 1..Len(r) - 1 /\ q[i] = r[i] /\ q[i + 1] = r[i + 1]
    BY <1>4
  <2> QED BY <2>1 DEF Aligned
<1> QED BY <1>3, <1>6, <1>7, <1>8, <1>9 DEF Aligned

-----------------------------------------------------------------------------
(* The history invariant is inductive.                                        *)

LEMMA HistoryInit == Init => HistoryInv
BY DEF Init, HistoryInv, StacksAligned, Aligned, PhaseOfTask, OpenCommand, OpenUndo,
       OpenRedo, Running

\* A step that leaves the two refs, and what the process knows of them, alone.
LEMMA QuietStep ==
  ASSUME HistoryInv, PhaseOfTask',
         UNCHANGED <<undo, redo, checkpoint, previousRedo, task>>,
         pc = "done" => pc' = "done",
         pc' \in {"popUndo", "popRedo"} => pc' = pc
  PROVE  HistoryInv'
<1>1. StacksAligned'
  BY DEF HistoryInv, StacksAligned
<1>2. OpenCommand'
  BY DEF HistoryInv, OpenCommand, Running
<1>3. OpenUndo' /\ OpenRedo'
  BY DEF HistoryInv, OpenUndo, OpenRedo
<1> QED BY <1>1, <1>2, <1>3 DEF HistoryInv

\* The process is back at the shell.
LEMMA ForgetHistory ==
  ASSUME HistoryInv, Forget, UNCHANGED store
  PROVE  HistoryInv'
<1>1. UNCHANGED <<undo, redo>> /\ pc' = "idle" /\ task' = "none"
  BY DEF Forget, store
<1> QED BY <1>1 DEF HistoryInv, StacksAligned, PhaseOfTask, OpenCommand, OpenUndo, OpenRedo,
                    Running

LEMMA HistoryStep ==
  ASSUME TypeOK, HistoryInv, [Next]_vars
  PROVE  HistoryInv'
<1>T. /\ undo \in Chains /\ checkpoint \in Chains
      /\ redo \in Seq(RedoNodes) /\ previousRedo \in Seq(RedoNodes)
      /\ contexts \in Seq(Contexts)
  BY DEF TypeOK, StoreType, CommandType
<1>P. PhaseOfTask
  BY DEF HistoryInv
<1>1. ASSUME NEW c \in IndexCells \cup WorkCells, NEW v \in Values, UserEdit(c, v)
      PROVE  HistoryInv'
  <2>1. UNCHANGED <<undo, redo, checkpoint, previousRedo, task, pc>> /\ UNCHANGED contexts
    BY <1>1 DEF UserEdit, store, command
  <2> QED BY <1>P, <2>1, QuietStep DEF PhaseOfTask
<1>2. ASSUME NEW c \in ViewCells, NEW v \in Values, Browse(c, v)
      PROVE  HistoryInv'
  <2>1. UNCHANGED <<undo, redo, checkpoint, previousRedo, task, pc>> /\ UNCHANGED contexts
    BY <1>2 DEF Browse, store, command
  <2> QED BY <1>P, <2>1, QuietStep DEF PhaseOfTask
<1>3. ASSUME NEW s \in Scopes, NEW tx \in BOOLEAN, NEW deferred \in BOOLEAN, OpenCheckpoint(s, tx, deferred)
      PROVE  HistoryInv'
  <2>1. PICK cp : undo' = Append(undo, cp) /\ cp \in Checkpoints
    <3>1. s \cup AutoCells \in SUBSET Cells /\ live \in [Cells -> Values]
      BY CellAssumption DEF Cells, AutoCells, TypeOK, StoreType
    <3>2. [before |-> Snapshot(s \cup AutoCells), after |-> NoImage] \in Checkpoints
      BY <3>1, SnapshotType DEF Checkpoints
    <3> QED BY <1>3, <3>2 DEF OpenCheckpoint
  <2>2. undo' # <<>> /\ Parent(undo') = undo
    BY <1>T, <2>1, ParentOfAppend DEF Chains
  <2>3. /\ redo' = <<>> /\ checkpoint' = undo' /\ previousRedo' = redo
        /\ pc' = "body" /\ task' = "operation" /\ contexts' # <<>>
    BY <1>3 DEF OpenCheckpoint
  <2>4. PhaseOfTask' /\ OpenUndo' /\ OpenRedo'
    BY <2>3 DEF PhaseOfTask, OpenUndo, OpenRedo
  <2>5. StacksAligned'
    BY <2>3 DEF StacksAligned, Aligned
  <2>6. OpenCommand'
    <3>1. Parent(checkpoint') = undo /\ Aligned(undo, redo)
      BY <2>2, <2>3 DEF HistoryInv, StacksAligned
    <3> QED BY <2>2, <2>3, <3>1 DEF OpenCommand, Parent
  <2> QED BY <2>4, <2>5, <2>6 DEF HistoryInv
<1>4. ASSUME NEW s \in Scopes, NEW tx \in BOOLEAN, NEW deferred \in BOOLEAN, OpenNested(s, tx, deferred)
      PROVE  HistoryInv'
  <2>1. UNCHANGED <<undo, redo, checkpoint, previousRedo, task, pc>>
    BY <1>4 DEF OpenNested, store
  <2>2. contexts' # <<>>
    <3>1. Context(s, tx, deferred) \in Contexts
      BY CellAssumption DEF Context, Contexts
    <3> QED BY <1>4, <1>T, <3>1, AppendProperties DEF OpenNested
  <2> QED BY <1>P, <2>1, <2>2, QuietStep DEF PhaseOfTask
<1>5. ASSUME NEW s \in Scopes, NEW tx \in BOOLEAN, RefuseNested(s, tx)
      PROVE  HistoryInv'
  <2>1. UNCHANGED <<undo, redo, checkpoint, previousRedo, task, pc>> /\ UNCHANGED contexts
    BY <1>5 DEF RefuseNested, store, command
  <2> QED BY <1>P, <2>1, QuietStep DEF PhaseOfTask
<1>6. CASE ArmRollback
  <2>1. UNCHANGED <<undo, redo, checkpoint, previousRedo, task, pc>>
    BY <1>6 DEF ArmRollback, store
  <2>2. contexts # <<>> => contexts' # <<>>
    <3>1. Len(contexts') = Len(contexts)
      BY <1>6, <1>T, ExceptSeq DEF ArmRollback
    <3> QED BY <1>T, <3>1, EmptySeq
  <2> QED BY <1>P, <2>1, <2>2, QuietStep DEF PhaseOfTask
<1>7. ASSUME NEW c \in Cells, NEW v \in Values, Mutate(c, v)
      PROVE  HistoryInv'
  <2>1. UNCHANGED <<undo, redo, checkpoint, previousRedo, task, pc>> /\ UNCHANGED contexts
    BY <1>7 DEF Mutate, store, command
  <2> QED BY <1>P, <2>1, QuietStep DEF PhaseOfTask
<1>8. CASE Raise
  <2>1. UNCHANGED <<undo, redo, checkpoint, previousRedo, task, pc>> /\ UNCHANGED contexts
    BY <1>8 DEF Raise, store, command
  <2> QED BY <1>P, <2>1, QuietStep DEF PhaseOfTask
<1>9. CASE Catch
  <2>1. UNCHANGED <<undo, redo, checkpoint, previousRedo, task, pc>> /\ UNCHANGED contexts
    BY <1>9 DEF Catch, store, command
  <2> QED BY <1>P, <2>1, QuietStep DEF PhaseOfTask
<1>10. CASE CloseNested
  <2>1. UNCHANGED <<undo, redo, checkpoint, previousRedo, task, pc>>
    BY <1>10 DEF CloseNested, store
  <2>2. contexts' # <<>>
    <3>1. contexts' = Parent(contexts) /\ Len(contexts) > 1
      BY <1>10 DEF CloseNested, Parent
    <3>2. Len(contexts') = Len(contexts) - 1 /\ Len(contexts) \in Nat
      BY <1>T, <3>1, ParentType, EmptySeq
    <3> QED BY <3>1, <3>2, EmptySeq
  <2> QED BY <1>P, <2>1, <2>2, QuietStep DEF PhaseOfTask
<1>11. CASE DeferCompletion
  <2>1. UNCHANGED <<undo, redo, checkpoint, previousRedo, task, pc>> /\ UNCHANGED contexts
    BY <1>11 DEF DeferCompletion, store, command
  <2> QED BY <1>P, <2>1, QuietStep DEF PhaseOfTask
<1>12. CASE CloseWithError
  <2>1. UNCHANGED <<undo, redo, checkpoint, previousRedo, task>>
    BY <1>12 DEF CloseWithError, store, command
  <2>2. pc # "done" /\ task = "operation" /\ pc' \in {"restore", "discard", "finalize", "done"}
    BY <1>12, <1>P DEF CloseWithError, StartRollback, BeginRestore, PhaseOfTask
  <2> QED BY <1>P, <2>1, <2>2, QuietStep DEF PhaseOfTask
<1>13. CASE CloseNormally
  <2>1. UNCHANGED <<undo, redo, checkpoint, previousRedo, task>>
    BY <1>13 DEF CloseNormally, store, command
  <2>2. pc # "done" /\ task = "operation" /\ pc' \in {"restore", "discard", "finalize", "done"}
    BY <1>13, <1>P DEF CloseNormally, StartRollback, BeginRestore, PhaseOfTask
  <2> QED BY <1>P, <2>1, <2>2, QuietStep DEF PhaseOfTask
<1>14. CASE FinalizeFails
  <2>1. UNCHANGED <<undo, redo, checkpoint, previousRedo, task>>
    BY <1>14 DEF FinalizeFails, store, command
  <2>2. pc # "done" /\ task = "operation" /\ pc' \in {"restore", "discard", "finalize", "done"}
    BY <1>14, <1>P DEF FinalizeFails, StartRollback, BeginRestore, PhaseOfTask
  <2> QED BY <1>P, <2>1, <2>2, QuietStep DEF PhaseOfTask
<1>15. CASE FinalizeCheckpoint
  <2>1. pc' = "done" /\ task' = task /\ redo' = redo /\ Running /\ task = "operation"
    BY <1>15, <1>P DEF FinalizeCheckpoint, PhaseOfTask, Running
  <2>2. redo' = <<>>
    BY <2>1 DEF HistoryInv, OpenCommand
  <2> QED BY <2>1, <2>2 DEF HistoryInv, StacksAligned, Aligned, PhaseOfTask, OpenCommand,
             OpenUndo, OpenRedo, Running
<1>16. CASE DiscardCheckpoint
  <2>1. /\ pc' = "done" /\ task' = task /\ Running /\ task = "operation"
        /\ undo' = Parent(checkpoint) /\ redo' = previousRedo
    BY <1>16, <1>P DEF DiscardCheckpoint, PhaseOfTask, Running
  <2>2. Aligned(undo', redo')
    BY <2>1 DEF HistoryInv, OpenCommand
  <2> QED BY <2>1, <2>2 DEF HistoryInv, StacksAligned, PhaseOfTask, OpenCommand,
             OpenUndo, OpenRedo, Running
<1>17. CASE RollbackFails
  <2>1. UNCHANGED <<undo, redo, checkpoint, previousRedo, task>> /\ pc' = "done"
        /\ task = "operation"
    BY <1>17 DEF RollbackFails, store, command
  <2> QED BY <2>1, QuietStep DEF PhaseOfTask
<1>18. CASE RestoreWipe
  <2>1. UNCHANGED <<undo, redo, checkpoint, previousRedo, task, pc>> /\ UNCHANGED contexts
    BY <1>18 DEF RestoreWipe, store, command
  <2> QED BY <1>P, <2>1, QuietStep DEF PhaseOfTask
<1>19. CASE RestoreMetadata
  <2>1. UNCHANGED <<undo, redo, checkpoint, previousRedo, task, pc>> /\ UNCHANGED contexts
    BY <1>19 DEF RestoreMetadata, store, command
  <2> QED BY <1>P, <2>1, QuietStep DEF PhaseOfTask
<1>20. CASE RestoreRefs
  <2>1. UNCHANGED <<undo, redo, checkpoint, previousRedo, task, pc>> /\ UNCHANGED contexts
    BY <1>20 DEF RestoreRefs, store, command
  <2> QED BY <1>P, <2>1, QuietStep DEF PhaseOfTask
<1>21. CASE RestoreIndex
  <2>1. UNCHANGED <<undo, redo, checkpoint, previousRedo, task, pc>> /\ UNCHANGED contexts
    BY <1>21 DEF RestoreIndex, store, command
  <2> QED BY <1>P, <2>1, QuietStep DEF PhaseOfTask
<1>22. CASE RestoreWorktree
  <2>1. UNCHANGED <<undo, redo, checkpoint, previousRedo, task>> /\ pc # "done"
    BY <1>22 DEF RestoreWorktree, command
  <2>2. PhaseOfTask' /\ pc' \in {"discard", "pushRedo", "setUndo"}
    BY <1>22, <1>P DEF RestoreWorktree, PhaseOfTask
  <2> QED BY <2>1, <2>2, QuietStep
<1>23. ASSUME NEW force \in BOOLEAN, CheckUndo(force)
      PROVE  HistoryInv'
  <2>1. /\ UNCHANGED <<undo, redo>> /\ checkpoint' = undo /\ undo # <<>>
        /\ pc' = "capture" /\ task' = "undo"
    BY <1>23 DEF CheckUndo, store
  <2> QED BY <2>1 DEF HistoryInv, StacksAligned, PhaseOfTask, OpenCommand, OpenUndo, OpenRedo,
                      Running
<1>24. ASSUME NEW force \in BOOLEAN, CheckRedo(force)
      PROVE  HistoryInv'
  <2>1. UNCHANGED <<undo, redo>> /\ redo # <<>> /\ pc' = "restore" /\ task' = "redo"
    BY <1>24 DEF CheckRedo, BeginRestore, store
  <2> QED BY <2>1 DEF HistoryInv, StacksAligned, PhaseOfTask, OpenCommand, OpenUndo, OpenRedo,
                      Running
<1>25. CASE CaptureRedoTarget
  <2>1. UNCHANGED <<undo, redo, checkpoint, previousRedo, task>> /\ pc = "capture"
        /\ pc' = "restore"
    BY <1>25 DEF CaptureRedoTarget, BeginRestore, store, command
  <2> QED BY <1>P, <2>1, QuietStep DEF PhaseOfTask
<1>26. CASE PushRedoNode
  <2>1. /\ task = "undo" /\ undo = checkpoint /\ undo # <<>>
        /\ UNCHANGED <<undo, checkpoint, task>> /\ pc' = "popUndo"
    BY <1>26, <1>P DEF PushRedoNode, PhaseOfTask, HistoryInv, OpenUndo, command
  <2>2. PICK node \in RedoNodes : redo' = Append(redo, node) /\ node.chain = checkpoint
    <3> DEFINE new == [target |-> target, afterUndo |-> Snapshot(DOMAIN target),
                       chain |-> checkpoint]
    <3>1. /\ target \in Images /\ DOMAIN target \in SUBSET Cells
          /\ live \in [Cells -> Values]
      BY DomainOfImage DEF TypeOK, RestoreType, StoreType
    <3>2. new \in RedoNodes
      BY <1>T, <3>1, SnapshotType DEF RedoNodes
    <3>3. redo' = Append(redo, new) /\ new.chain = checkpoint
      BY <1>26 DEF PushRedoNode
    <3> QED BY <3>2, <3>3
  <2>3. redo' # <<>> /\ Newest(redo') = node
    BY <1>T, <2>2, ParentOfAppend
  <2>4. Aligned(undo, redo')
    BY <1>T, <2>1, <2>2, AlignedPush DEF HistoryInv, StacksAligned
  <2>5. StacksAligned'
    BY <2>1, <2>4 DEF StacksAligned
  <2>6. PhaseOfTask' /\ OpenCommand' /\ OpenRedo'
    BY <2>1 DEF PhaseOfTask, OpenCommand, OpenRedo, Running
  <2>7. OpenUndo'
    BY <2>1, <2>2, <2>3 DEF OpenUndo, Newest
  <2> QED BY <2>5, <2>6, <2>7 DEF HistoryInv
<1>27. CASE PopUndo
  <2>1. /\ undo = checkpoint /\ undo # <<>> /\ redo # <<>> /\ Newest(redo).chain = undo
        /\ undo' = Parent(undo) /\ redo' = redo /\ pc' = "done" /\ task' = "undo"
    BY <1>27, <1>P DEF PopUndo, PhaseOfTask, HistoryInv, OpenUndo
  <2>2. Aligned(undo', redo')
    BY <1>T, <2>1, AlignedPop DEF HistoryInv, StacksAligned
  <2> QED BY <2>1, <2>2 DEF HistoryInv, StacksAligned, PhaseOfTask, OpenCommand,
             OpenUndo, OpenRedo, Running
<1>28. CASE SetUndo
  <2>1. /\ redo # <<>> /\ undo' = Newest(redo).chain /\ redo' = redo
        /\ pc' = "popRedo" /\ task' = "redo"
    BY <1>28, <1>P DEF SetUndo, PhaseOfTask, HistoryInv, OpenRedo
  <2>2. Aligned(undo', redo')
    BY <1>T, <2>1, AlignedSet DEF HistoryInv, StacksAligned
  <2>3. PhaseOfTask' /\ OpenCommand' /\ OpenUndo'
    BY <2>1 DEF PhaseOfTask, OpenCommand, OpenUndo, Running
  <2>4. OpenRedo'
    BY <2>1 DEF OpenRedo, Newest
  <2> QED BY <2>2, <2>3, <2>4 DEF HistoryInv, StacksAligned
<1>29. CASE PopRedo
  <2>1. /\ redo # <<>> /\ Newest(redo).chain = undo
        /\ undo' = undo /\ redo' = Parent(redo) /\ pc' = "done" /\ task' = "redo"
    BY <1>29, <1>P DEF PopRedo, PhaseOfTask, HistoryInv, OpenRedo
  <2>2. Aligned(undo', redo')
    BY <1>T, <2>1, AlignedDrop DEF HistoryInv, StacksAligned
  <2> QED BY <2>1, <2>2 DEF HistoryInv, StacksAligned, PhaseOfTask, OpenCommand,
             OpenUndo, OpenRedo, Running
<1>30. CASE Return
  BY <1>30, ForgetHistory DEF Return
<1>31. CASE Crash
  BY <1>31, ForgetHistory DEF Crash
<1>32. CASE UNCHANGED vars
  <2>1. UNCHANGED <<undo, redo, checkpoint, previousRedo, task, pc, contexts>>
    BY <1>32 DEF vars, store, command
  <2> QED BY <1>P, <2>1, QuietStep DEF PhaseOfTask
<1> QED
  BY <1>1, <1>2, <1>3, <1>4, <1>5, <1>6, <1>7, <1>8, <1>9, <1>10, <1>11, <1>12, <1>13, <1>14,
     <1>15, <1>16, <1>17, <1>18, <1>19, <1>20, <1>21, <1>22, <1>23, <1>24, <1>25, <1>26, <1>27, <1>28,
     <1>29, <1>30, <1>31, <1>32
  DEF Next

-----------------------------------------------------------------------------
\* Every variable has its type in every reachable state: a stack ref only names
\* chains of well-formed checkpoints and a restore only writes repository cells.
THEOREM TypeCorrect == Spec => []TypeOK
<1>1. Init => TypeOK /\ HistoryInv
  BY InitType, HistoryInit
<1>2. TypeOK /\ HistoryInv /\ [Next]_vars => TypeOK' /\ HistoryInv'
  BY TypeStep, HistoryStep
<1> QED BY <1>1, <1>2, PTL DEF Spec

\* The undo and redo refs stay aligned through every command, failure and crash.
THEOREM HistorySafe == Spec => []HistoryInv
<1>1. Init => TypeOK /\ HistoryInv
  BY InitType, HistoryInit
<1>2. TypeOK /\ HistoryInv /\ [Next]_vars => TypeOK' /\ HistoryInv'
  BY TypeStep, HistoryStep
<1> QED BY <1>1, <1>2, PTL DEF Spec

-----------------------------------------------------------------------------
(* The stacks implement the editor history.                                   *)

LineNow == Line(undo, redo)

LEMMA LineType ==
  ASSUME NEW u \in Chains, NEW r \in Seq(RedoNodes), Aligned(u, r)
  PROVE  /\ Line(u, r) \in Chains
         /\ Prefix(u, Line(u, r))
<1>1. CASE r = <<>>
  BY <1>1, PrefixRefl DEF Line
<1>2. CASE r # <<>>
  BY <1>2, NodeChains DEF Line, Aligned
<1> QED BY <1>1, <1>2

LEMMA SameHistory ==
  ASSUME LineNow' = LineNow, Len(undo)' = Len(undo),
         UNCHANGED <<task, checkpoint, previousRedo>>,
         Running' <=> Running
  PROVE  UNCHANGED History!histVars
BY DEF History!histVars, LineNow

\* A command that ends without touching the refs, or dies.
LEMMA EndOfCommand ==
  ASSUME UNCHANGED <<undo, redo>>, ~Running'
  PROVE  [History!Next]_(History!histVars)
<1>1. Line(undo, redo)' = Line(undo, redo) /\ Len(undo)' = Len(undo)
  OBVIOUS
<1>2. CASE Running
  <2>1. History!Interrupt
    BY <1>1, <1>2 DEF History!Interrupt
  <2> QED BY <2>1 DEF History!Next
<1>3. CASE ~Running
  BY <1>1, <1>3 DEF History!histVars
<1> QED BY <1>2, <1>3

LEMMA HistoryStart == Init => History!Init
BY EmptySeq DEF Init, History!Init, Line, Running

LEMMA HistoryRefines ==
  ASSUME TypeOK, HistoryInv, HistoryInv', TypeOK', [Next]_vars
  PROVE  [History!Next]_(History!histVars)
<1>T. /\ undo \in Chains /\ checkpoint \in Chains
      /\ redo \in Seq(RedoNodes) /\ previousRedo \in Seq(RedoNodes)
      /\ undo' \in Chains /\ redo' \in Seq(RedoNodes)
  BY DEF TypeOK, StoreType, CommandType
<1>A. Aligned(undo, redo) /\ Aligned(undo', redo') /\ PhaseOfTask
  BY DEF HistoryInv, StacksAligned
<1>L. /\ Line(undo, redo) \in Chains /\ Prefix(undo, Line(undo, redo))
      /\ Len(undo) \in Nat /\ Len(Line(undo, redo)) \in Nat
      /\ Len(undo) <= Len(Line(undo, redo))
  BY <1>T, <1>A, LineType, LenProperties DEF Chains, Prefix
<1>1. ASSUME NEW c \in IndexCells \cup WorkCells, NEW v \in Values, UserEdit(c, v)
      PROVE  [History!Next]_(History!histVars)
  <2>1. UNCHANGED <<undo, redo, task, checkpoint, previousRedo, pc>>
    BY <1>1 DEF UserEdit, store, command
  <2> QED BY <2>1, SameHistory DEF LineNow, Running
<1>2. ASSUME NEW c \in ViewCells, NEW v \in Values, Browse(c, v)
      PROVE  [History!Next]_(History!histVars)
  <2>1. UNCHANGED <<undo, redo, task, checkpoint, previousRedo, pc>>
    BY <1>2 DEF Browse, store, command
  <2> QED BY <2>1, SameHistory DEF LineNow, Running
<1>3. ASSUME NEW s \in Scopes, NEW tx \in BOOLEAN, NEW deferred \in BOOLEAN, OpenCheckpoint(s, tx, deferred)
      PROVE  [History!Next]_(History!histVars)
  <2>1. PICK cp : undo' = Append(undo, cp) /\ cp \in Checkpoints
    <3>1. s \cup AutoCells \in SUBSET Cells /\ live \in [Cells -> Values]
      BY CellAssumption DEF Cells, AutoCells, TypeOK, StoreType
    <3>2. [before |-> Snapshot(s \cup AutoCells), after |-> NoImage] \in Checkpoints
      BY <3>1, SnapshotType DEF Checkpoints
    <3> QED BY <1>3, <3>2 DEF OpenCheckpoint
  <2>2. /\ redo' = <<>> /\ checkpoint' = undo' /\ previousRedo' = redo
        /\ ~Running /\ Running'
    BY <1>3, <1>A DEF OpenCheckpoint, PhaseOfTask, Running
  <2>3. Parent(undo') = undo /\ Len(undo') = Len(undo) + 1
        /\ \A i \in 1..Len(undo) : undo'[i] = undo[i]
    BY <1>T, <2>1, ParentOfAppend DEF Chains
  <2>4. Line(undo, redo)' = undo' /\ Line(Parent(checkpoint), previousRedo)' = Line(undo, redo)
    BY <2>2, <2>3 DEF Line, Parent
  <2>5. SubSeq(undo', 1, Len(undo)) = SubSeq(Line(undo, redo), 1, Len(undo))
    <3>1. Prefix(undo, undo')
      BY <1>T, <1>L, <2>3, PrefixPointwise
    <3> QED BY <1>L, <3>1 DEF Prefix
  <2>6. History!Start
    BY <2>2, <2>3, <2>4, <2>5 DEF History!Start, History!Done
  <2> QED BY <2>6 DEF History!Next
<1>4. ASSUME NEW s \in Scopes, NEW tx \in BOOLEAN, NEW deferred \in BOOLEAN, OpenNested(s, tx, deferred)
      PROVE  [History!Next]_(History!histVars)
  <2>1. UNCHANGED <<undo, redo, task, checkpoint, previousRedo, pc>>
    BY <1>4 DEF OpenNested, store, command
  <2> QED BY <2>1, SameHistory DEF LineNow, Running
<1>5. ASSUME NEW s \in Scopes, NEW tx \in BOOLEAN, RefuseNested(s, tx)
      PROVE  [History!Next]_(History!histVars)
  <2>1. UNCHANGED <<undo, redo, task, checkpoint, previousRedo, pc>>
    BY <1>5 DEF RefuseNested, store, command
  <2> QED BY <2>1, SameHistory DEF LineNow, Running
<1>6. CASE ArmRollback
  <2>1. UNCHANGED <<undo, redo, task, checkpoint, previousRedo, pc>>
    BY <1>6 DEF ArmRollback, store, command
  <2> QED BY <2>1, SameHistory DEF LineNow, Running
<1>7. ASSUME NEW c \in Cells, NEW v \in Values, Mutate(c, v)
      PROVE  [History!Next]_(History!histVars)
  <2>1. UNCHANGED <<undo, redo, task, checkpoint, previousRedo, pc>>
    BY <1>7 DEF Mutate, store, command
  <2> QED BY <2>1, SameHistory DEF LineNow, Running
<1>8. CASE Raise
  <2>1. UNCHANGED <<undo, redo, task, checkpoint, previousRedo, pc>>
    BY <1>8 DEF Raise, store, command
  <2> QED BY <2>1, SameHistory DEF LineNow, Running
<1>9. CASE Catch
  <2>1. UNCHANGED <<undo, redo, task, checkpoint, previousRedo, pc>>
    BY <1>9 DEF Catch, store, command
  <2> QED BY <2>1, SameHistory DEF LineNow, Running
<1>10. CASE CloseNested
  <2>1. UNCHANGED <<undo, redo, task, checkpoint, previousRedo, pc>>
    BY <1>10 DEF CloseNested, store, command
  <2> QED BY <2>1, SameHistory DEF LineNow, Running
<1>11. CASE DeferCompletion
  <2>1. UNCHANGED <<undo, redo, task, checkpoint, previousRedo, pc>>
    BY <1>11 DEF DeferCompletion, store, command
  <2> QED BY <2>1, SameHistory DEF LineNow, Running
<1>12. CASE CloseWithError
  <2>1. UNCHANGED <<undo, redo, checkpoint, previousRedo, task>>
    BY <1>12 DEF CloseWithError, store, command
  <2>2. task = "operation" /\ pc # "done"
    BY <1>12, <1>A DEF CloseWithError, PhaseOfTask
  <2>3. CASE pc' = "done"
    BY <2>1, <2>3, EndOfCommand DEF Running
  <2>4. CASE pc' # "done"
    BY <2>1, <2>2, <2>4, SameHistory DEF LineNow, Running
  <2> QED BY <2>3, <2>4
<1>13. CASE CloseNormally
  <2>1. UNCHANGED <<undo, redo, checkpoint, previousRedo, task>>
    BY <1>13 DEF CloseNormally, store, command
  <2>2. task = "operation" /\ pc # "done"
    BY <1>13, <1>A DEF CloseNormally, PhaseOfTask
  <2>3. CASE pc' = "done"
    BY <2>1, <2>3, EndOfCommand DEF Running
  <2>4. CASE pc' # "done"
    BY <2>1, <2>2, <2>4, SameHistory DEF LineNow, Running
  <2> QED BY <2>3, <2>4
<1>14. CASE FinalizeFails
  <2>1. UNCHANGED <<undo, redo, checkpoint, previousRedo, task>>
    BY <1>14 DEF FinalizeFails, store, command
  <2>2. task = "operation" /\ pc # "done"
    BY <1>14, <1>A DEF FinalizeFails, PhaseOfTask
  <2>3. CASE pc' = "done"
    BY <2>1, <2>3, EndOfCommand DEF Running
  <2>4. CASE pc' # "done"
    BY <2>1, <2>2, <2>4, SameHistory DEF LineNow, Running
  <2> QED BY <2>3, <2>4
<1>15. CASE FinalizeCheckpoint
  <2>1. PICK cp \in Checkpoints : undo' = Append(Parent(undo), cp)
    <3>1. Running /\ undo # <<>>
      BY <1>15, <1>A DEF FinalizeCheckpoint, PhaseOfTask, Running, HistoryInv, OpenCommand
    <3>2. Completed(Newest(undo)) \in Checkpoints
      BY <3>1, NewestChain, CompletedType DEF TypeOK, StoreType
    <3> QED BY <1>15, <3>2 DEF FinalizeCheckpoint
  <2>2. /\ Running /\ ~Running' /\ redo = <<>> /\ redo' = redo /\ undo # <<>>
    BY <1>15, <1>A DEF FinalizeCheckpoint, PhaseOfTask, Running, HistoryInv, OpenCommand
  <2>3. /\ Parent(undo) \in Chains /\ Len(Parent(undo)) = Len(undo) - 1
        /\ Len(undo) \in Nat \ {0}
    BY <1>T, <2>2, ParentType DEF Chains
  <2>4. Len(undo') = Len(undo) /\ Parent(undo') = Parent(undo)
    BY <2>1, <2>3, ParentOfAppend DEF Chains
  <2>5. Line(undo, redo)' = undo' /\ Line(undo, redo) = undo
    BY <2>2 DEF Line
  <2>6. SubSeq(undo', 1, Len(undo) - 1) = SubSeq(undo, 1, Len(undo) - 1)
    BY <2>4 DEF Parent
  <2>7. History!Finish
    BY <2>2, <2>3, <2>4, <2>5, <2>6 DEF History!Finish
  <2> QED BY <2>7 DEF History!Next
<1>16. CASE DiscardCheckpoint
  <2>1. /\ Running /\ ~Running' /\ undo = checkpoint /\ undo # <<>>
        /\ undo' = Parent(checkpoint) /\ redo' = previousRedo
    BY <1>16, <1>A DEF DiscardCheckpoint, PhaseOfTask, Running, HistoryInv, OpenCommand
  <2>2. Len(undo') = Len(undo) - 1 /\ Len(undo) \in Nat \ {0}
    BY <1>T, <2>1, ParentType DEF Chains
  <2>3. Line(undo, redo)' = Line(Parent(checkpoint), previousRedo)
    BY <2>1
  <2>4. History!Cancel
    BY <2>1, <2>2, <2>3 DEF History!Cancel
  <2> QED BY <2>4 DEF History!Next
<1>17. CASE RollbackFails
  <2>1. UNCHANGED <<undo, redo>> /\ ~Running'
    BY <1>17 DEF RollbackFails, store, Running
  <2> QED BY <2>1, EndOfCommand
<1>18. CASE RestoreWipe
  <2>1. UNCHANGED <<undo, redo, task, checkpoint, previousRedo, pc>>
    BY <1>18 DEF RestoreWipe, store, command
  <2> QED BY <2>1, SameHistory DEF LineNow, Running
<1>19. CASE RestoreMetadata
  <2>1. UNCHANGED <<undo, redo, task, checkpoint, previousRedo, pc>>
    BY <1>19 DEF RestoreMetadata, store, command
  <2> QED BY <2>1, SameHistory DEF LineNow, Running
<1>20. CASE RestoreRefs
  <2>1. UNCHANGED <<undo, redo, task, checkpoint, previousRedo, pc>>
    BY <1>20 DEF RestoreRefs, store, command
  <2> QED BY <2>1, SameHistory DEF LineNow, Running
<1>21. CASE RestoreIndex
  <2>1. UNCHANGED <<undo, redo, task, checkpoint, previousRedo, pc>>
    BY <1>21 DEF RestoreIndex, store, command
  <2> QED BY <2>1, SameHistory DEF LineNow, Running
<1>22. CASE RestoreWorktree
  <2>1. UNCHANGED <<undo, redo, task, checkpoint, previousRedo>> /\ pc # "done" /\ pc' # "done"
    BY <1>22, <1>A DEF RestoreWorktree, command, PhaseOfTask
  <2> QED BY <2>1, SameHistory DEF LineNow, Running
<1>23. ASSUME NEW force \in BOOLEAN, CheckUndo(force)
      PROVE  [History!Next]_(History!histVars)
  <2>1. UNCHANGED <<undo, redo>> /\ ~Running'
    BY <1>23 DEF CheckUndo, BeginRestore, store, Running
  <2> QED BY <2>1, EndOfCommand
<1>24. ASSUME NEW force \in BOOLEAN, CheckRedo(force)
      PROVE  [History!Next]_(History!histVars)
  <2>1. UNCHANGED <<undo, redo>> /\ ~Running'
    BY <1>24 DEF CheckRedo, BeginRestore, store, Running
  <2> QED BY <2>1, EndOfCommand
<1>25. CASE CaptureRedoTarget
  <2>1. UNCHANGED <<undo, redo, task, checkpoint, previousRedo>> /\ task = "undo"
    BY <1>25, <1>A DEF CaptureRedoTarget, store, command, PhaseOfTask
  <2> QED BY <2>1, SameHistory DEF LineNow, Running
<1>26. CASE PushRedoNode
  <2>1. /\ UNCHANGED <<undo, task, checkpoint, previousRedo>> /\ task = "undo"
        /\ checkpoint = undo
    BY <1>26, <1>A DEF PushRedoNode, command, PhaseOfTask, HistoryInv, OpenUndo
  <2>2. PICK node : redo' = Append(redo, node) /\ node \in RedoNodes /\ node.chain = undo
    <3> DEFINE new == [target |-> target, afterUndo |-> Snapshot(DOMAIN target),
                       chain |-> checkpoint]
    <3>1. /\ target \in Images /\ DOMAIN target \in SUBSET Cells
          /\ live \in [Cells -> Values]
      BY DomainOfImage DEF TypeOK, RestoreType, StoreType
    <3>2. new \in RedoNodes
      BY <1>T, <3>1, SnapshotType DEF RedoNodes
    <3>3. redo' = Append(redo, new) /\ new.chain = checkpoint
      BY <1>26 DEF PushRedoNode
    <3> QED BY <2>1, <3>2, <3>3
  <2>3. redo' # <<>> /\ redo'[1].chain = Line(undo, redo)
    <3>1. /\ redo' # <<>> /\ Len(redo') = Len(redo) + 1 /\ Len(redo) \in Nat
          /\ \A i \in 1..Len(redo) : redo'[i] = redo[i]
          /\ redo'[Len(redo) + 1] = node
      BY <1>T, <2>2, AppendProperties, LenProperties
    <3>2. CASE redo = <<>>
      <4>1. Len(redo) = 0
        BY <3>2, EmptySeq
      <4> QED BY <2>2, <3>1, <3>2, <4>1 DEF Line
    <3>3. CASE redo # <<>>
      <4>1. 1 \in 1..Len(redo)
        BY <1>T, <3>3, NodeChains
      <4> QED BY <3>1, <3>3, <4>1 DEF Line
    <3> QED BY <3>1, <3>2, <3>3
  <2>4. LineNow' = LineNow
    BY <2>3 DEF LineNow, Line
  <2> QED BY <2>1, <2>4, SameHistory DEF Running
<1>27. CASE PopUndo
  <2>1. /\ undo # <<>> /\ undo' = Parent(undo) /\ redo # <<>> /\ redo' = redo
        /\ ~Running /\ ~Running'
    BY <1>27, <1>A DEF PopUndo, PhaseOfTask, HistoryInv, OpenUndo, Running
  <2>2. Len(undo') = Len(undo) - 1 /\ Len(undo) \in Nat \ {0}
    BY <1>T, <2>1, ParentType DEF Chains
  <2>3. Line(undo, redo)' = Line(undo, redo)
    BY <2>1 DEF Line
  <2>4. History!Back
    BY <2>1, <2>2, <2>3 DEF History!Back
  <2> QED BY <2>4 DEF History!Next
<1>28. CASE SetUndo
  <2>1. /\ redo # <<>> /\ undo' = Newest(redo).chain /\ redo' = redo
        /\ ~Running /\ ~Running'
    BY <1>28, <1>A DEF SetUndo, PhaseOfTask, HistoryInv, OpenRedo, Running
  <2>2. Line(undo, redo)' = Line(undo, redo) /\ Line(undo, redo) = redo[1].chain
    BY <2>1 DEF Line
  <2>3. Len(undo') \in Nat /\ Len(undo') <= Len(Line(undo, redo))
    <3>1. Prefix(undo', Line(undo', redo'))
      BY <1>T, <1>A, LineType
    <3> QED BY <1>T, <2>2, <3>1, LenProperties DEF Prefix, Chains
  <2>4. Len(undo) \in {Len(undo'), Len(undo') - 1}
    BY <1>A, <2>1 DEF Aligned
  <2>5. CASE Len(undo) = Len(undo')
    BY <2>1, <2>2, <2>5 DEF History!histVars
  <2>6. CASE Len(undo) = Len(undo') - 1
    <3>1. Len(undo') = Len(undo) + 1 /\ Len(undo) < Len(Line(undo, redo))
      BY <1>L, <2>3, <2>6
    <3>2. History!Forward
      BY <2>1, <2>2, <3>1 DEF History!Forward
    <3> QED BY <3>2 DEF History!Next
  <2> QED BY <2>4, <2>5, <2>6
<1>29. CASE PopRedo
  <2>1. /\ redo # <<>> /\ Newest(redo).chain = undo
        /\ undo' = undo /\ redo' = Parent(redo) /\ ~Running /\ ~Running'
    BY <1>29, <1>A DEF PopRedo, PhaseOfTask, HistoryInv, OpenRedo, Running
  <2>2. /\ Len(redo) \in Nat \ {0} /\ Len(redo') = Len(redo) - 1
        /\ \A i \in 1..Len(redo) - 1 : redo'[i] = redo[i]
    BY <1>T, <2>1, ParentType
  <2>3. Line(undo, redo)' = Line(undo, redo)
    <3>1. CASE redo' = <<>>
      <4>1. Len(redo) = 1
        BY <2>2, <3>1, EmptySeq
      <4>2. redo[1].chain = undo
        BY <2>1, <4>1 DEF Newest
      <4> QED BY <2>1, <3>1, <4>2 DEF Line
    <3>2. CASE redo' # <<>>
      <4>1. Len(redo') \in Nat \ {0}
        BY <1>T, <3>2, NodeChains
      <4>2. redo'[1] = redo[1]
        BY <2>2, <4>1
      <4> QED BY <2>1, <3>2, <4>2 DEF Line
    <3> QED BY <3>1, <3>2
  <2> QED BY <2>1, <2>3 DEF History!histVars
<1>30. CASE Return
  <2>1. UNCHANGED <<undo, redo>> /\ ~Running'
    BY <1>30 DEF Return, Forget, store, Running
  <2> QED BY <2>1, EndOfCommand
<1>31. CASE Crash
  <2>1. UNCHANGED <<undo, redo>> /\ ~Running'
    BY <1>31 DEF Crash, Forget, store, Running
  <2> QED BY <2>1, EndOfCommand
<1>32. CASE UNCHANGED vars
  <2>1. UNCHANGED <<undo, redo, task, checkpoint, previousRedo, pc>>
    BY <1>32 DEF vars, store, command
  <2> QED BY <2>1, SameHistory DEF LineNow, Running
<1> QED
  BY <1>1, <1>2, <1>3, <1>4, <1>5, <1>6, <1>7, <1>8, <1>9, <1>10, <1>11, <1>12, <1>13, <1>14,
     <1>15, <1>16, <1>17, <1>18, <1>19, <1>20, <1>21, <1>22, <1>23, <1>24, <1>25, <1>26, <1>27, <1>28,
     <1>29, <1>30, <1>31, <1>32
  DEF Next

\* Undo and redo work in editor order: the two stack refs, updated one after the
\* other by processes that may fail or die in between, implement one line of
\* commands with a cursor.
THEOREM EditorOrder == Spec => InEditorOrder
<1>1. Init => TypeOK /\ HistoryInv /\ History!Init
  BY InitType, HistoryInit, HistoryStart
<1>2. TypeOK /\ HistoryInv /\ [Next]_vars => TypeOK' /\ HistoryInv'
  BY TypeStep, HistoryStep
<1>3. TypeOK /\ HistoryInv /\ TypeOK' /\ HistoryInv' /\ [Next]_vars
      => [History!Next]_(History!histVars)
  BY HistoryRefines
<1> QED BY <1>1, <1>2, <1>3, PTL DEF Spec, InEditorOrder, History!Spec
-----------------------------------------------------------------------------
(* What the checkpoints of every chain look like.                             *)

LEMMA MatchedTypes ==
  /\ Matched \subseteq Checkpoints /\ MatchedNodes \subseteq RedoNodes
  /\ \A cp \in Checkpoints : Incomplete(cp) => cp \in Matched
  /\ <<>> \in Seq(Matched) /\ <<>> \in Seq(MatchedNodes)
<1>1. Matched \subseteq Checkpoints
  BY DEF Matched
<1>2. MatchedNodes \subseteq RedoNodes
  <2>1. Seq(Matched) \subseteq Seq(Checkpoints)
    BY <1>1
  <2> QED BY <2>1 DEF MatchedNodes, RedoNodes, Chains
<1> QED BY <1>1, <1>2 DEF Matched

\* finalize_pending_checkpoint records the after-image of the cells it kept.
LEMMA CompletedMatches ==
  ASSUME live \in [Cells -> Values], NEW cp \in Checkpoints
  PROVE  Completed(cp) \in Matched /\ ~Incomplete(Completed(cp))
<1> DEFINE kept == {c \in DOMAIN cp.before : c \in ScopedCells \/ live[c] # cp.before[c]}
<1>1. Completed(cp) = [before |-> [c \in kept |-> cp.before[c]], after |-> Snapshot(kept)]
  BY DEF Completed
<1> HIDE DEF kept
<1>2. DOMAIN Completed(cp).before = kept /\ DOMAIN Completed(cp).after = kept
  BY <1>1 DEF Snapshot
<1>3. Completed(cp) \in Checkpoints
  BY CompletedType
<1>4. ~Incomplete(Completed(cp))
  <2>1. kept \in SUBSET Cells
    BY DomainOfImage DEF kept, Checkpoints
  <2>2. Completed(cp).after \in Images
    BY <1>1, <2>1, SnapshotType
  <2> QED BY <2>2, NoImageAssumption DEF Incomplete
<1> QED BY <1>2, <1>3, <1>4 DEF Matched

LEMMA OpenedMatches ==
  ASSUME live \in [Cells -> Values], NEW S \in SUBSET Cells
  PROVE  [before |-> Snapshot(S), after |-> NoImage] \in Matched
BY SnapshotType, MatchedTypes DEF Checkpoints, Incomplete

\* The steps that move a stack ref or what a process remembers of it.
RefStep ==
  \/ \E s \in Scopes, tx, deferred \in BOOLEAN : OpenCheckpoint(s, tx, deferred)
  \/ FinalizeCheckpoint \/ DiscardCheckpoint
  \/ \E force \in BOOLEAN : CheckUndo(force)
  \/ PushRedoNode \/ PopUndo \/ SetUndo \/ PopRedo
  \/ Return \/ Crash

LEMMA OtherRefSteps ==
  ASSUME [Next]_vars, ~RefStep
  PROVE  UNCHANGED <<undo, redo, checkpoint, previousRedo>>
<1>1. CASE \E c \in IndexCells \cup WorkCells, v \in Values : UserEdit(c, v)
  BY <1>1 DEF UserEdit, command
<1>2. CASE \E c \in ViewCells, v \in Values : Browse(c, v)
  BY <1>2 DEF Browse, command
<1>3. CASE \E s \in Scopes, tx, deferred \in BOOLEAN : OpenNested(s, tx, deferred)
  BY <1>3 DEF OpenNested, store
<1>4. CASE \E s \in Scopes, tx \in BOOLEAN : RefuseNested(s, tx)
  BY <1>4 DEF RefuseNested, store
<1>5. CASE \E c \in Cells, v \in Values : Mutate(c, v)
  BY <1>5 DEF Mutate, command
<1>6. CASE ArmRollback \/ Raise \/ Catch \/ CloseNested \/ DeferCompletion
  BY <1>6 DEF ArmRollback, Raise, Catch, CloseNested, DeferCompletion, store, command
<1>7. CASE CloseWithError \/ CloseNormally \/ FinalizeFails \/ RollbackFails
  BY <1>7 DEF CloseWithError, CloseNormally, FinalizeFails, RollbackFails, store, command
<1>8. CASE RestoreWipe \/ RestoreMetadata \/ RestoreRefs \/ RestoreIndex \/ RestoreWorktree
  BY <1>8 DEF RestoreWipe, RestoreMetadata, RestoreRefs, RestoreIndex, RestoreWorktree,
              command
<1>9. CASE CaptureRedoTarget \/ \E force \in BOOLEAN : CheckRedo(force)
  BY <1>9 DEF CaptureRedoTarget, CheckRedo, store, command
<1>10. CASE UNCHANGED vars
  BY <1>10 DEF vars, store, command
<1> QED BY <1>1, <1>2, <1>3, <1>4, <1>5, <1>6, <1>7, <1>8, <1>9, <1>10 DEF Next, RefStep

LEMMA ChainsInit == Init => ChainsMatch
BY MatchedTypes DEF Init, ChainsMatch

LEMMA ChainsStep ==
  ASSUME TypeOK, HistoryInv, ChainsMatch, [Next]_vars
  PROVE  ChainsMatch'
<1>T. /\ live \in [Cells -> Values] /\ PhaseOfTask
      /\ undo \in Seq(Matched) /\ checkpoint \in Seq(Matched)
      /\ redo \in Seq(MatchedNodes) /\ previousRedo \in Seq(MatchedNodes)
  BY DEF TypeOK, StoreType, HistoryInv, ChainsMatch
<1>1. ASSUME NEW s \in Scopes, NEW tx \in BOOLEAN, NEW deferred \in BOOLEAN,
             OpenCheckpoint(s, tx, deferred)
      PROVE  ChainsMatch'
  <2>1. s \cup AutoCells \in SUBSET Cells
    BY CellAssumption DEF Cells, AutoCells
  <2>2. [before |-> Snapshot(s \cup AutoCells), after |-> NoImage] \in Matched
    BY <1>T, <2>1, OpenedMatches
  <2>3. undo' \in Seq(Matched)
    BY <1>1, <1>T, <2>2, AppendProperties DEF OpenCheckpoint
  <2> QED BY <1>1, <1>T, <2>3, MatchedTypes DEF OpenCheckpoint, ChainsMatch
<1>2. CASE FinalizeCheckpoint
  <2>1. undo # <<>>
    BY <1>2, <1>T DEF FinalizeCheckpoint, HistoryInv, PhaseOfTask, OpenCommand, Running
  <2>2. Completed(Newest(undo)) \in Matched
    BY <1>T, <2>1, NewestChain, CompletedMatches
  <2>3. undo' \in Seq(Matched)
    BY <1>2, <1>T, <2>2, ParentType, AppendProperties DEF FinalizeCheckpoint
  <2> QED BY <1>2, <1>T, <2>3 DEF FinalizeCheckpoint, ChainsMatch, command
<1>3. CASE DiscardCheckpoint
  <2>1. Parent(checkpoint) \in Seq(Matched)
    BY <1>T, ParentType
  <2> QED BY <1>3, <1>T, <2>1 DEF DiscardCheckpoint, ChainsMatch, command
<1>4. ASSUME NEW force \in BOOLEAN, CheckUndo(force)
      PROVE  ChainsMatch'
  BY <1>4, <1>T DEF CheckUndo, ChainsMatch, store
<1>5. CASE PushRedoNode
  <2> DEFINE node == [target |-> target, afterUndo |-> Snapshot(DOMAIN target),
                      chain |-> checkpoint]
  <2>1. target \in Images /\ DOMAIN target \in SUBSET Cells
    BY DomainOfImage DEF TypeOK, RestoreType
  <2>2. node \in MatchedNodes
    BY <1>T, <2>1, SnapshotType DEF MatchedNodes
  <2>3. redo' = Append(redo, node)
    BY <1>5 DEF PushRedoNode
  <2> HIDE DEF node
  <2>4. redo' \in Seq(MatchedNodes)
    BY <1>T, <2>2, <2>3, AppendProperties
  <2> QED BY <1>5, <1>T, <2>4 DEF PushRedoNode, ChainsMatch, command
<1>6. CASE PopUndo
  <2>1. Parent(checkpoint) \in Seq(Matched)
    BY <1>T, ParentType
  <2> QED BY <1>6, <1>T, <2>1 DEF PopUndo, ChainsMatch, command
<1>7. CASE SetUndo
  <2>1. redo # <<>>
    BY <1>7, <1>T DEF SetUndo, HistoryInv, PhaseOfTask, OpenRedo
  <2>2. Newest(redo) \in MatchedNodes
    BY <1>T, <2>1, ParentType
  <2>3. Newest(redo).chain \in Seq(Matched)
    BY <2>2 DEF MatchedNodes
  <2> QED BY <1>7, <1>T, <2>3 DEF SetUndo, ChainsMatch, command
<1>8. CASE PopRedo
  <2>1. Parent(redo) \in Seq(MatchedNodes)
    BY <1>T, ParentType
  <2> QED BY <1>8, <1>T, <2>1 DEF PopRedo, ChainsMatch, command
<1>9. CASE Return \/ Crash
  BY <1>9, <1>T, MatchedTypes DEF Return, Crash, Forget, store, ChainsMatch
<1>10. CASE ~RefStep
  BY <1>10, <1>T, OtherRefSteps DEF ChainsMatch
<1> QED BY <1>1, <1>2, <1>3, <1>4, <1>5, <1>6, <1>7, <1>8, <1>9, <1>10 DEF RefStep

-----------------------------------------------------------------------------
(* Contexts, arming and the way out of an operation.                          *)

\* What the control of an operation reads.
controlVars == <<pc, task, undo, checkpoint, contexts, cause, armed, outcome, rollback,
                 announced>>

ControlInv == Control /\ AnnouncedOnlyIfCommitted /\ SwallowedFailureRollsBack

LEMMA ControlInit == Init => ControlInv
BY DEF Init, ControlInv, Control, NoCommand, Holds, ContextsFit, Branches,
       AnnouncedOnlyIfCommitted, SwallowedFailureRollsBack, Transaction

\* A step that leaves all of it alone.
LEMMA ControlFrame ==
  ASSUME ControlInv, UNCHANGED controlVars, pc = "discard" => UNCHANGED stage
  PROVE  ControlInv'
<1>1. NoCommand' /\ Holds'
  BY DEF ControlInv, Control, NoCommand, Holds, controlVars
<1>2. ContextsFit'
  BY DEF ControlInv, Control, ContextsFit, controlVars, Before, Taken, Newest
<1>3. Branches'
  BY DEF ControlInv, Control, Branches, controlVars, Transaction
<1>4. AnnouncedOnlyIfCommitted' /\ SwallowedFailureRollsBack'
  BY DEF ControlInv, AnnouncedOnlyIfCommitted, SwallowedFailureRollsBack, controlVars,
         Transaction, Incomplete, Newest
<1> QED BY <1>1, <1>2, <1>3, <1>4 DEF ControlInv, Control

\* A step of undo or redo, or one that ends a process.
LEMMA ControlElsewhere ==
  ASSUME task' # "operation", contexts' = <<>>, ~cause', announced' = 0,
         rollback' = "not-requested", task' = "undo" => checkpoint' # <<>>
  PROVE  ControlInv'
<1>1. Control'
  BY DEF Control, NoCommand, Holds, ContextsFit, Branches
<1>2. AnnouncedOnlyIfCommitted' /\ SwallowedFailureRollsBack'
  BY DEF AnnouncedOnlyIfCommitted, SwallowedFailureRollsBack, Transaction
<1> QED BY <1>1, <1>2 DEF ControlInv

\* A step of an operation that goes on, and leaves the contexts as they are.
LEMMA ControlSameContexts ==
  ASSUME ControlInv, task = "operation", pc # "done", pc' # "done",
         UNCHANGED <<task, command, result>>,
         pc' = "finalize" => ~cause,
         pc' = "restore" => armed,
         pc' = "discard" /\ armed => stage' = "done"
  PROVE  ControlInv'
<1>1. NoCommand' /\ Holds'
  BY DEF ControlInv, Control, NoCommand, Holds, command, result
<1>2. ContextsFit'
  BY DEF ControlInv, Control, ContextsFit, command, Before, Taken, Newest
<1>3. Branches'
  BY DEF ControlInv, Control, Branches, command, result, Transaction
<1>4. AnnouncedOnlyIfCommitted' /\ SwallowedFailureRollsBack'
  BY DEF ControlInv, Control, Branches, AnnouncedOnlyIfCommitted, SwallowedFailureRollsBack,
         command, result, Transaction
<1> QED BY <1>1, <1>2, <1>3, <1>4 DEF ControlInv, Control

\* A step that ends an operation, whatever the outcome.
LEMMA ControlAtTheEnd ==
  ASSUME ControlInv, task = "operation", pc # "done", pc' = "done",
         UNCHANGED <<task, command>>,
         cause => rollback' \in {"completed", "failed"},
         Transaction /\ announced' > 0 =>
           outcome' = "committed" /\ ~cause /\ ~Incomplete(Newest(undo'))
  PROVE  ControlInv'
<1>1. NoCommand' /\ Holds'
  BY DEF ControlInv, Control, NoCommand, Holds, command
<1>2. ContextsFit'
  BY DEF ControlInv, Control, ContextsFit, command, Before, Taken, Newest
<1>3. Branches'
  BY DEF ControlInv, Control, Branches, command, Transaction
<1>4. AnnouncedOnlyIfCommitted' /\ SwallowedFailureRollsBack'
  BY DEF AnnouncedOnlyIfCommitted, SwallowedFailureRollsBack, command, Transaction,
         Incomplete, Newest
<1> QED BY <1>1, <1>2, <1>3, <1>4 DEF ControlInv, Control

\* A step inside the body that changes the contexts to ones that fit.
LEMMA ControlInBody ==
  ASSUME ControlInv, pc = "body", task = "operation",
         UNCHANGED <<pc, task, checkpoint, result>>,
         contexts' # <<>>, contexts'[1].tx = contexts[1].tx,
         armed => armed', cause' => armed' /\ contexts[1].tx,
         \A i \in 1..Len(contexts') :
           /\ contexts'[i].scope \subseteq DOMAIN Before
           /\ contexts'[i].tx => contexts[1].tx
           /\ contexts'[i].armed => armed'
           /\ contexts'[i].tx \/ contexts'[i].armed
  PROVE  ControlInv'
<1>1. NoCommand' /\ Holds'
  BY DEF ControlInv, Control, NoCommand, Holds
<1>2. ContextsFit'
  BY DEF ContextsFit, Before, Taken, Newest
<1>3. contexts # <<>>
  BY DEF ControlInv, Control, ContextsFit
<1>4. Branches'
  BY <1>3 DEF ControlInv, Control, Branches, result, Transaction
<1>5. AnnouncedOnlyIfCommitted' /\ SwallowedFailureRollsBack'
  BY <1>3 DEF ControlInv, Control, Branches, AnnouncedOnlyIfCommitted, SwallowedFailureRollsBack,
         result, Transaction
<1> QED BY <1>1, <1>2, <1>4, <1>5 DEF ControlInv, Control

LEMMA ControlStep ==
  ASSUME TypeOK, HistoryInv, ControlInv, [Next]_vars
  PROVE  ControlInv'
<1>T. /\ contexts \in Seq(Contexts) /\ PhaseOfTask /\ undo \in Chains
      /\ contexts # <<>> => Len(contexts) \in Nat \ {0}
      /\ cause \in BOOLEAN /\ armed \in BOOLEAN /\ announced \in Nat
  BY EmptySeq, LenProperties DEF TypeOK, StoreType, CommandType, ResultType, HistoryInv
<1>C. /\ NoCommand /\ Holds /\ ContextsFit /\ Branches
      /\ AnnouncedOnlyIfCommitted /\ SwallowedFailureRollsBack
  BY DEF ControlInv, Control
<1>1. ASSUME NEW c \in IndexCells \cup WorkCells, NEW v \in Values, UserEdit(c, v)
      PROVE  ControlInv'
  BY <1>1, ControlFrame DEF UserEdit, controlVars, command, result, restore
<1>2. ASSUME NEW c \in ViewCells, NEW v \in Values, Browse(c, v)
      PROVE  ControlInv'
  BY <1>2, ControlFrame DEF Browse, controlVars, command, result, restore
<1>3. ASSUME NEW s \in Scopes, NEW tx \in BOOLEAN, NEW deferred \in BOOLEAN,
             OpenCheckpoint(s, tx, deferred)
      PROVE  ControlInv'
  <2>1. s \cup AutoCells \in SUBSET Cells /\ live \in [Cells -> Values]
    BY CellAssumption DEF Cells, AutoCells, TypeOK, StoreType
  <2>2. [before |-> Snapshot(s \cup AutoCells), after |-> NoImage] \in Checkpoints
    BY <2>1, SnapshotType DEF Checkpoints
  <2>3. /\ checkpoint' # <<>>
        /\ Newest(checkpoint') = [before |-> Snapshot(s \cup AutoCells), after |-> NoImage]
    BY <1>3, <1>T, <2>2, ParentOfAppend DEF OpenCheckpoint, Chains
  <2>4. DOMAIN Before' = s \cup AutoCells
    BY <2>3 DEF Before, Taken, Snapshot, Newest
  <2>5. /\ contexts' = <<Context(s, tx, deferred)>> /\ armed' = ~deferred
        /\ pc' = "body" /\ task' = "operation" /\ task = "none"
        /\ rollback' = IF tx THEN "pending" ELSE "not-requested"
        /\ UNCHANGED <<cause, announced>> /\ (deferred => tx)
    BY <1>3, <1>T DEF OpenCheckpoint, PhaseOfTask
  <2>6. ContextsFit'
    <3>1. Len(contexts') = 1 /\ contexts'[1] = Context(s, tx, deferred) /\ contexts' # <<>>
      BY <2>5, EmptySeq
    <3>2. /\ contexts'[1].scope = s /\ contexts'[1].tx = tx
          /\ contexts'[1].armed = ~deferred
      BY <3>1 DEF Context
    <3>3. \A i \in 1..Len(contexts') : i = 1
      BY <3>1
    <3> QED BY <2>4, <2>5, <3>1, <3>2, <3>3 DEF ContextsFit
  <2>7. Control'
    BY <1>C, <2>3, <2>5, <2>6 DEF Control, NoCommand, Holds, Branches
  <2>8. AnnouncedOnlyIfCommitted' /\ SwallowedFailureRollsBack'
    BY <1>C, <2>5 DEF NoCommand, AnnouncedOnlyIfCommitted, SwallowedFailureRollsBack
  <2> QED BY <2>7, <2>8 DEF ControlInv
<1>4. ASSUME NEW s \in Scopes, NEW tx \in BOOLEAN, NEW deferred \in BOOLEAN,
             OpenNested(s, tx, deferred)
      PROVE  ControlInv'
  <2> DEFINE new == Context(s, tx, deferred)
  <2>1. /\ pc = "body" /\ task = "operation" /\ contexts # <<>>
        /\ UNCHANGED <<pc, task, checkpoint, cause, result>>
        /\ s \subseteq DOMAIN Before /\ (tx => contexts[1].tx) /\ (deferred => tx)
        /\ contexts' = Append(contexts, new) /\ armed' = (armed \/ ~deferred)
    BY <1>4, <1>T DEF OpenNested, Fits, PhaseOfTask, Before, Taken
  <2>2. new \in Contexts /\ new.scope = s /\ new.tx = tx /\ new.armed = ~deferred
    BY CellAssumption DEF Context, Contexts
  <2> HIDE DEF new
  <2>3. /\ Len(contexts') = Len(contexts) + 1 /\ contexts' # <<>>
        /\ contexts'[Len(contexts) + 1] = new
        /\ \A i \in 1..Len(contexts) : contexts'[i] = contexts[i]
    BY <1>T, <2>1, <2>2, AppendProperties
  <2>4. contexts'[1] = contexts[1]
    BY <1>T, <2>1, <2>3
  <2>5. ASSUME NEW i \in 1..Len(contexts')
        PROVE  /\ contexts'[i].scope \subseteq DOMAIN Before
               /\ contexts'[i].tx => contexts[1].tx
               /\ contexts'[i].armed => armed'
               /\ contexts'[i].tx \/ contexts'[i].armed
    <3>1. CASE i \in 1..Len(contexts)
      BY <1>C, <2>1, <2>3, <3>1 DEF ContextsFit
    <3>2. CASE i = Len(contexts) + 1
      BY <2>1, <2>2, <2>3, <3>2
    <3> QED BY <1>T, <2>1, <2>3, <3>1, <3>2
  <2>6. cause' => armed' /\ contexts[1].tx
    BY <1>C, <2>1 DEF Branches, Transaction
  <2> QED BY <2>1, <2>3, <2>4, <2>5, <2>6, ControlInBody
<1>5. ASSUME NEW s \in Scopes, NEW tx \in BOOLEAN, RefuseNested(s, tx)
      PROVE  ControlInv'
  BY <1>5, ControlFrame DEF RefuseNested, controlVars, store, result, restore
<1>6. CASE ArmRollback
  <2> DEFINE n == Len(contexts)
  <2>1. /\ pc = "body" /\ task = "operation" /\ contexts # <<>>
        /\ UNCHANGED <<pc, task, checkpoint, cause, result>>
        /\ contexts' = [contexts EXCEPT ![n].armed = TRUE] /\ armed' = TRUE
    BY <1>6, <1>T DEF ArmRollback, PhaseOfTask
  <2>2. n \in 1..n /\ n \in Nat \ {0} /\ contexts[n] \in Contexts
    BY <1>T, <2>1
  <2>3. [contexts[n] EXCEPT !.armed = TRUE] \in Contexts
    BY <2>2 DEF Contexts
  <2>4. /\ Len(contexts') = n
        /\ \A i \in 1..n : contexts'[i] =
             IF i = n THEN [contexts[n] EXCEPT !.armed = TRUE] ELSE contexts[i]
    BY <1>T, <2>1, <2>2, <2>3, ExceptSeq
  <2>5. \A i \in 1..n : contexts'[i].scope = contexts[i].scope
                        /\ contexts'[i].tx = contexts[i].tx
                        /\ (contexts[i].armed => contexts'[i].armed)
    <3>1. \A i \in 1..n : contexts[i] \in Contexts
      BY <1>T
    <3> QED BY <2>4, <3>1 DEF Contexts
  <2>6. contexts' # <<>>
    BY <2>2, <2>4, EmptySeq
  <2>7. \A i \in 1..Len(contexts') :
           /\ contexts'[i].scope \subseteq DOMAIN Before
           /\ contexts'[i].tx => contexts[1].tx
           /\ contexts'[i].armed => armed'
           /\ contexts'[i].tx \/ contexts'[i].armed
    BY <1>C, <2>1, <2>4, <2>5 DEF ContextsFit
  <2>8. contexts'[1].tx = contexts[1].tx
    BY <2>2, <2>5
  <2>9. cause' => armed' /\ contexts[1].tx
    BY <1>C, <2>1 DEF Branches, Transaction
  <2> QED BY <2>1, <2>6, <2>7, <2>8, <2>9, ControlInBody
<1>7. ASSUME NEW c \in Cells, NEW v \in Values, Mutate(c, v)
      PROVE  ControlInv'
  BY <1>7, ControlFrame DEF Mutate, controlVars, command, result, restore
<1>8. CASE Raise \/ Catch
  BY <1>8, ControlFrame DEF Raise, Catch, controlVars, store, result, restore
<1>9. CASE CloseNested
  <2>1. /\ pc = "body" /\ task = "operation" /\ contexts # <<>> /\ Len(contexts) > 1
        /\ UNCHANGED <<pc, task, checkpoint, armed, result>>
        /\ contexts' = Parent(contexts)
        /\ cause' = (cause \/ (raising /\ Innermost.tx /\ Innermost.armed))
    BY <1>9, <1>T DEF CloseNested, PhaseOfTask, Parent
  <2>2. /\ Len(contexts') = Len(contexts) - 1 /\ Len(contexts) \in Nat
        /\ \A i \in 1..Len(contexts) - 1 : contexts'[i] = contexts[i]
        /\ contexts' \in Seq(Contexts)
    BY <1>T, <2>1, ParentType
  <2>3. contexts' # <<>> /\ contexts'[1] = contexts[1]
    <3>1. Len(contexts') # 0
      BY <2>1, <2>2
    <3> QED BY <2>1, <2>2, <3>1, EmptySeq
  <2>4. \A i \in 1..Len(contexts') :
           /\ contexts'[i].scope \subseteq DOMAIN Before
           /\ contexts'[i].tx => contexts[1].tx
           /\ contexts'[i].armed => armed'
           /\ contexts'[i].tx \/ contexts'[i].armed
    BY <1>C, <2>1, <2>2 DEF ContextsFit
  <2>5. cause' => armed' /\ contexts[1].tx
    <3>1. Len(contexts) \in 1..Len(contexts)
      BY <2>1, <2>2
    <3>2. Innermost.tx /\ Innermost.armed => contexts[1].tx /\ armed
      BY <1>C, <2>1, <3>1 DEF ContextsFit, Innermost
    <3> QED BY <1>C, <2>1, <3>2 DEF Branches, Transaction
  <2> QED BY <2>1, <2>3, <2>4, <2>5, ControlInBody
<1>10. CASE DeferCompletion
  <2>1. /\ pc = "body" /\ task = "operation" /\ UNCHANGED <<pc, task, command, rollback>>
        /\ Transaction => UNCHANGED announced
    BY <1>10, <1>T DEF DeferCompletion, PhaseOfTask
  <2>2. Control'
    BY <1>C, <2>1 DEF Control, NoCommand, Holds, ContextsFit, Branches, command, Transaction,
                      Before, Taken, Newest
  <2>3. AnnouncedOnlyIfCommitted' /\ SwallowedFailureRollsBack'
    BY <1>C, <2>1 DEF Branches, AnnouncedOnlyIfCommitted, SwallowedFailureRollsBack, command,
                      Transaction
  <2> QED BY <2>2, <2>3 DEF ControlInv
<1>11. CASE CloseWithError \/ CloseNormally
  <2>1. /\ pc = "body" /\ task = "operation" /\ UNCHANGED <<task, command, result>>
    BY <1>11, <1>T DEF CloseWithError, CloseNormally, PhaseOfTask
  <2>2. \/ pc' = "restore" /\ (armed \/ cause)
        \/ pc' = "discard" /\ ~armed
        \/ pc' = "finalize" /\ (~Transaction \/ ~cause)
    BY <1>11 DEF CloseWithError, CloseNormally, StartRollback, BeginRestore
  <2> QED BY <1>C, <2>1, <2>2, ControlSameContexts DEF Branches
<1>12. CASE FinalizeCheckpoint
  <2>1. /\ pc = "finalize" /\ task = "operation" /\ pc' = "done" /\ UNCHANGED <<task, command>>
        /\ Transaction => rollback' = "not-needed" /\ outcome' = "committed"
        /\ ~cause
    BY <1>12, <1>C, <1>T DEF FinalizeCheckpoint, PhaseOfTask, Branches
  <2>2. ~Incomplete(Newest(undo'))
    <3>1. undo # <<>> /\ live \in [Cells -> Values]
      BY <2>1 DEF HistoryInv, OpenCommand, Running, TypeOK, StoreType
    <3>2. /\ Newest(undo) \in Checkpoints /\ Parent(undo) \in Chains
      BY <3>1, NewestChain
    <3>3. ~Incomplete(Completed(Newest(undo))) /\ Completed(Newest(undo)) \in Checkpoints
      BY <3>1, <3>2, CompletedMatches, CompletedType
    <3>4. Newest(undo') = Completed(Newest(undo))
      BY <1>12, <3>2, <3>3, ParentOfAppend DEF FinalizeCheckpoint, Chains
    <3> QED BY <3>3, <3>4
  <2> QED BY <2>1, <2>2, ControlAtTheEnd
<1>13. CASE FinalizeFails
  <2>1. pc = "finalize" /\ task = "operation" /\ UNCHANGED <<task, command>> /\ ~cause
    BY <1>13, <1>C, <1>T DEF FinalizeFails, PhaseOfTask, Branches
  <2>2. CASE Transaction /\ armed
    <3>1. pc' = "restore" /\ UNCHANGED result
      BY <1>13, <2>2 DEF FinalizeFails, StartRollback, BeginRestore
    <3> QED BY <2>1, <2>2, <3>1, ControlSameContexts
  <2>3. CASE ~(Transaction /\ armed)
    <3>1. pc' = "done" /\ (Transaction => announced' = announced)
      BY <1>13, <2>3 DEF FinalizeFails, SettleRollback
    <3> QED BY <1>C, <2>1, <3>1, ControlAtTheEnd DEF Branches
  <2> QED BY <2>2, <2>3
<1>14. CASE DiscardCheckpoint
  <2>1. /\ pc = "discard" /\ task = "operation" /\ pc' = "done" /\ UNCHANGED <<task, command>>
        /\ announced' = announced /\ (armed => rollback' = "completed")
    BY <1>14, <1>T DEF DiscardCheckpoint, SettleRollback, PhaseOfTask
  <2> QED BY <1>C, <2>1, ControlAtTheEnd DEF Branches
<1>15. CASE RollbackFails
  <2>1. /\ pc # "done" /\ task = "operation" /\ pc' = "done" /\ UNCHANGED <<task, command>>
        /\ announced' = announced /\ rollback' = "failed"
    BY <1>15 DEF RollbackFails, SettleRollback
  <2> QED BY <1>C, <2>1, ControlAtTheEnd DEF Branches
<1>16. CASE RestoreWipe \/ RestoreMetadata \/ RestoreRefs \/ RestoreIndex
  BY <1>16, ControlFrame DEF RestoreWipe, RestoreMetadata, RestoreRefs, RestoreIndex,
                             controlVars, command, result
<1>17. CASE RestoreWorktree
  <2>1. /\ pc = "restore" /\ stage' = "done" /\ UNCHANGED <<task, command, result>>
        /\ task = "operation" => pc' = "discard"
        /\ task # "operation" => task \in {"undo", "redo"}
    BY <1>17, <1>T DEF RestoreWorktree, PhaseOfTask
  <2>2. CASE task = "operation"
    BY <1>C, <2>1, <2>2, ControlSameContexts DEF Branches
  <2>3. CASE task # "operation"
    BY <1>C, <2>1, <2>3, ControlElsewhere DEF NoCommand, Holds, command, result
  <2> QED BY <2>2, <2>3
<1>18. ASSUME NEW force \in BOOLEAN, CheckUndo(force)
      PROVE  ControlInv'
  BY <1>18, <1>C, <1>T, ControlElsewhere DEF CheckUndo, PhaseOfTask, NoCommand, result
<1>19. ASSUME NEW force \in BOOLEAN, CheckRedo(force)
      PROVE  ControlInv'
  BY <1>19, <1>C, <1>T, ControlElsewhere DEF CheckRedo, PhaseOfTask, NoCommand, command, result
<1>20. CASE CaptureRedoTarget \/ PushRedoNode \/ PopUndo
  BY <1>20, <1>C, <1>T, ControlElsewhere
  DEF CaptureRedoTarget, PushRedoNode, PopUndo, PhaseOfTask, NoCommand, Holds, command, result
<1>21. CASE SetUndo \/ PopRedo
  BY <1>21, <1>C, <1>T, ControlElsewhere DEF SetUndo, PopRedo, PhaseOfTask, NoCommand, command,
                                             result
<1>22. CASE Return \/ Crash
  BY <1>22, ControlElsewhere DEF Return, Crash, Forget
<1>23. CASE UNCHANGED vars
  BY <1>23, ControlFrame DEF vars, controlVars, store, command, result, restore
<1> QED
  BY <1>1, <1>2, <1>3, <1>4, <1>5, <1>6, <1>7, <1>8, <1>9, <1>10, <1>11, <1>12, <1>13, <1>14,
     <1>15, <1>16, <1>17, <1>18, <1>19, <1>20, <1>21, <1>22, <1>23
  DEF Next

-----------------------------------------------------------------------------
(* The contents of the repository.                                            *)

\* The steps that write the repository, begin a task or end a process.
ContentStep ==
  \/ \E c \in IndexCells \cup WorkCells, v \in Values : UserEdit(c, v)
  \/ \E c \in ViewCells, v \in Values : Browse(c, v)
  \/ \E s \in Scopes, tx, deferred \in BOOLEAN : OpenCheckpoint(s, tx, deferred)
  \/ \E c \in Cells, v \in Values : Mutate(c, v)
  \/ RestoreWipe \/ RestoreMetadata \/ RestoreRefs \/ RestoreIndex \/ RestoreWorktree
  \/ \E force \in BOOLEAN : CheckUndo(force) \/ CheckRedo(force)
  \/ Return \/ Crash

LEMMA OtherContentSteps ==
  ASSUME [Next]_vars, ~ContentStep
  PROVE  /\ UNCHANGED <<live, ghost, task, checkpoint, forced>>
         /\ armed => armed'
         /\ pc = "done" => UNCHANGED vars
<1>0. CASE \E s \in Scopes, tx, deferred \in BOOLEAN : OpenNested(s, tx, deferred)
  BY <1>0 DEF OpenNested, store, restore
<1>1. CASE \E s \in Scopes, tx \in BOOLEAN : RefuseNested(s, tx)
  BY <1>1 DEF RefuseNested, store, restore
<1>2. CASE ArmRollback \/ Raise \/ Catch \/ CloseNested
  BY <1>2 DEF ArmRollback, Raise, Catch, CloseNested, store, restore
<1>3. CASE DeferCompletion \/ RollbackFails
  BY <1>3 DEF DeferCompletion, RollbackFails, store, command, restore
<1>4. CASE CloseWithError \/ CloseNormally \/ FinalizeFails
  <2>1. UNCHANGED <<store, task, command, ghost>> /\ pc # "done"
    BY <1>4 DEF CloseWithError, CloseNormally, FinalizeFails
  <2>2. UNCHANGED forced
    BY <1>4 DEF CloseWithError, CloseNormally, FinalizeFails, StartRollback, restore
  <2> QED BY <2>1, <2>2 DEF store, command
<1>5. CASE FinalizeCheckpoint \/ DiscardCheckpoint
  BY <1>5 DEF FinalizeCheckpoint, DiscardCheckpoint, command, restore
<1>6. CASE CaptureRedoTarget \/ PushRedoNode \/ PopUndo \/ SetUndo \/ PopRedo
  BY <1>6 DEF CaptureRedoTarget, PushRedoNode, PopUndo, SetUndo, PopRedo, store, command,
              restore
<1>7. CASE UNCHANGED vars
  BY <1>7 DEF vars, store, command, restore
<1> QED BY <1>0, <1>1, <1>2, <1>3, <1>4, <1>5, <1>6, <1>7 DEF Next, ContentStep

\* Every stage of a restore, seen from one cell.
RestoreStage ==
  RestoreWipe \/ RestoreMetadata \/ RestoreRefs \/ RestoreIndex \/ RestoreWorktree

LEMMA WrittenCell ==
  ASSUME NEW img, NEW part
  PROVE  \A c \in Cells :
           Written(img, part)[c] = IF c \in DOMAIN img \cap part THEN img[c] ELSE live[c]
BY DEF Written

LEMMA RestoreStages ==
  ASSUME RestoreStage, PhaseOfTask
  PROVE  /\ pc = "restore" /\ pc' # "idle" /\ pc' # "done" /\ pc' # "capture"
         /\ UNCHANGED <<undo, redo, task, checkpoint, previousRedo, contexts, armed, result,
                        image, whole, target, forced, ghost>>
         /\ stage = "wipe" =>
              \A c \in Cells : live'[c] = IF c \in MetaCells THEN Absent ELSE live[c]
         /\ stage # "wipe" =>
              \A c \in Cells : live'[c] = live[c] \/ (c \in DOMAIN image /\ live'[c] = image[c])
         /\ stage = "meta" => \A c \in (MetaCells \cup RepoCells) \cap DOMAIN image \cap Cells :
              live'[c] = image[c]
         /\ stage = "refs" => \A c \in RefCells \cap DOMAIN image \cap Cells :
              live'[c] = image[c]
         /\ stage = "index" => \A c \in IndexCells \cap DOMAIN image \cap Cells :
              live'[c] = image[c]
         /\ stage = "worktree" => \A c \in WorkCells \cap DOMAIN image \cap Cells :
              live'[c] = image[c]
         /\ <<stage, stage'>> \in {<<"wipe", "meta">>, <<"meta", "refs">>, <<"refs", "index">>,
                                   <<"index", "worktree">>, <<"worktree", "done">>}
         /\ pc' # "restore" => stage' = "done"
         /\ pc' \in {"restore", "discard", "pushRedo", "setUndo"}
<1>1. CASE RestoreWipe
  BY <1>1 DEF RestoreWipe, command
<1>2. CASE RestoreMetadata
  BY <1>2, WrittenCell DEF RestoreMetadata, command
<1>3. CASE RestoreRefs
  BY <1>3, WrittenCell DEF RestoreRefs, command
<1>4. CASE RestoreIndex
  BY <1>4, WrittenCell DEF RestoreIndex, command
<1>5. CASE RestoreWorktree
  BY <1>5, WrittenCell DEF RestoreWorktree, command, PhaseOfTask
<1> QED BY <1>1, <1>2, <1>3, <1>4, <1>5 DEF RestoreStage

LEMMA ExpectedStep ==
  ASSUME TypeOK, HistoryInv, Expected, [Next]_vars
  PROVE  Expected'
<1>T. live \in [Cells -> Values] /\ PhaseOfTask /\ (pc # "idle" => task # "none")
  BY DEF TypeOK, StoreType, ControlType, HistoryInv, PhaseOfTask
<1>1. ASSUME NEW c \in IndexCells \cup WorkCells, NEW v \in Values, UserEdit(c, v)
      PROVE  Expected'
  <2>1. CASE pc = "idle"
    BY <1>1, <1>T, <2>1 DEF UserEdit, Expected, PhaseOfTask
  <2>2. CASE pc # "idle"
    <3>1. /\ task # "none" /\ UNCHANGED base
          /\ expect' = [expect EXCEPT ![c] = v] /\ edited' = edited \cup {c}
      BY <1>1, <1>T, <2>2 DEF UserEdit, PhaseOfTask, ControlType, TypeOK
    <3> QED BY <3>1 DEF Expected
  <2> QED BY <2>1, <2>2
<1>2. CASE \E c \in ViewCells, v \in Values : Browse(c, v)
  BY <1>2 DEF Browse, Expected, ghost
<1>3. CASE \/ \E s \in Scopes, tx, deferred \in BOOLEAN : OpenCheckpoint(s, tx, deferred)
           \/ \E force \in BOOLEAN : CheckUndo(force) \/ CheckRedo(force)
  <2>1. StartHistory
    BY <1>3 DEF OpenCheckpoint, CheckUndo, CheckRedo
  <2> QED BY <1>T, <2>1 DEF StartHistory, Expected
<1>4. CASE \E c \in Cells, v \in Values : Mutate(c, v)
  BY <1>4 DEF Mutate, Expected, ghost
<1>5. CASE RestoreStage
  BY <1>5, <1>T, RestoreStages DEF Expected, ghost
<1>6. CASE Return \/ Crash
  BY <1>6 DEF Return, Crash, Forget, Expected
<1>7. CASE ~ContentStep
  BY <1>7, OtherContentSteps DEF Expected, ghost
<1> QED BY <1>1, <1>2, <1>3, <1>4, <1>5, <1>6, <1>7 DEF ContentStep, RestoreStage

\* What the innermost context may write lies in the before-image.
LEMMA InnermostFits ==
  ASSUME TypeOK, HistoryInv, Control, pc = "body"
  PROVE  /\ task = "operation"
         /\ Innermost.scope \subseteq DOMAIN Before
         /\ Innermost.armed => armed
<1>1. task = "operation" /\ contexts # <<>> /\ contexts \in Seq(Contexts)
  BY DEF HistoryInv, PhaseOfTask, TypeOK, CommandType
<1>2. Len(contexts) \in 1..Len(contexts)
  BY <1>1, EmptySeq, LenProperties
<1> QED BY <1>1, <1>2 DEF Control, ContextsFit, Innermost

LEMMA CoveredStep ==
  ASSUME TypeOK, HistoryInv, Control, Expected, Covered, RollingBack, [Next]_vars
  PROVE  Covered'
<1>T. live \in [Cells -> Values] /\ PhaseOfTask /\ CellAssumption!1
  BY CellAssumption DEF TypeOK, StoreType, HistoryInv
<1>1. ASSUME NEW c \in IndexCells \cup WorkCells, NEW v \in Values, UserEdit(c, v)
      PROVE  Covered'
  <2>1. UNCHANGED <<pc, task, base, checkpoint>> /\ live' = [live EXCEPT ![c] = v]
    BY <1>1 DEF UserEdit, command
  <2>2. SUFFICES ASSUME Running PROVE Covered'
    BY <2>1 DEF Covered, Running
  <2>3. expect' = [expect EXCEPT ![c] = v] /\ expect \in [Cells -> Values]
    BY <1>1, <1>T, <2>2 DEF UserEdit, Running, PhaseOfTask, Expected
  <2> QED BY <1>T, <2>1, <2>2, <2>3 DEF Covered, Before, Taken, Newest
<1>2. CASE \E c \in ViewCells, v \in Values : Browse(c, v)
  BY <1>2, <1>T DEF Browse, PhaseOfTask, Running, Covered
<1>3. ASSUME NEW s \in Scopes, NEW tx \in BOOLEAN, NEW deferred \in BOOLEAN,
             OpenCheckpoint(s, tx, deferred)
      PROVE  Covered'
  <2>1. s \cup AutoCells \in SUBSET Cells
    BY CellAssumption DEF Cells, AutoCells
  <2>2. [before |-> Snapshot(s \cup AutoCells), after |-> NoImage] \in Checkpoints
    BY <1>T, <2>1, SnapshotType DEF Checkpoints
  <2>3. Before' = Snapshot(s \cup AutoCells)
    <3>1. Newest(checkpoint') = [before |-> Snapshot(s \cup AutoCells), after |-> NoImage]
      BY <1>3, <2>2, ParentOfAppend DEF OpenCheckpoint, TypeOK, StoreType, Chains
    <3> QED BY <3>1 DEF Before, Taken, Newest
  <2>4. base' = live /\ expect' = live /\ live' = live
    BY <1>3 DEF OpenCheckpoint, StartHistory
  <2> QED BY <2>3, <2>4 DEF Covered, Snapshot
<1>4. ASSUME NEW c \in Cells, NEW v \in Values, Mutate(c, v)
      PROVE  Covered'
  <2>1. /\ UNCHANGED <<pc, task, base, expect, checkpoint>>
        /\ live' = [live EXCEPT ![c] = v] /\ Running
    BY <1>4, <1>T DEF Mutate, command, ghost, PhaseOfTask, Running
  <2>2. c \in DOMAIN Before
    <3>1. c \in Innermost.scope \cup AutoCells /\ pc = "body"
      BY <1>4 DEF Mutate
    <3> QED BY <2>1, <3>1, InnermostFits DEF Covered
  <2> QED BY <1>T, <2>1, <2>2 DEF Covered, Before, Taken, Newest
<1>5. CASE RestoreStage
  <2>1. SUFFICES ASSUME Running PROVE Covered'
    BY <1>5, <1>T, RestoreStages DEF Covered, Running
  <2>2. /\ UNCHANGED <<base, expect, checkpoint>> /\ image = Before
        /\ AutoCells \subseteq DOMAIN Before /\ MetaCells \subseteq DOMAIN Before
    BY <1>5, <1>T, <2>1, RestoreStages DEF ghost, RollingBack, Covered, AutoCells
  <2>3. \A c \in Cells \ DOMAIN Before : live'[c] = live[c]
    BY <1>5, <1>T, <2>2, RestoreStages
  <2> QED BY <2>1, <2>2, <2>3 DEF Covered, Before, Taken, Newest
<1>6. CASE \E force \in BOOLEAN : CheckUndo(force) \/ CheckRedo(force)
  BY <1>6 DEF CheckUndo, CheckRedo, Covered, Running
<1>7. CASE Return \/ Crash
  BY <1>7 DEF Return, Crash, Forget, Covered, Running
<1>8. CASE ~ContentStep
  <2>1. UNCHANGED <<live, base, expect, checkpoint, task>> /\ (pc = "done" => UNCHANGED pc)
    BY <1>8, OtherContentSteps DEF ghost, vars
  <2> QED BY <2>1 DEF Covered, Running, Before, Taken, Newest
<1> QED BY <1>1, <1>2, <1>3, <1>4, <1>5, <1>6, <1>7, <1>8 DEF ContentStep, RestoreStage

LEMMA UntouchedStep ==
  ASSUME TypeOK, HistoryInv, Control, Expected, Untouched, [Next]_vars
  PROVE  Untouched'
<1>T. live \in [Cells -> Values] /\ PhaseOfTask
  BY DEF TypeOK, StoreType, HistoryInv
<1>1. ASSUME NEW c \in IndexCells \cup WorkCells, NEW v \in Values, UserEdit(c, v)
      PROVE  Untouched'
  <2>1. UNCHANGED <<task, armed>> /\ live' = [live EXCEPT ![c] = v]
    BY <1>1 DEF UserEdit, command
  <2>2. task = "operation" => expect' = [expect EXCEPT ![c] = v]
    BY <1>1, <1>T DEF UserEdit, PhaseOfTask
  <2> QED BY <2>1, <2>2 DEF Untouched
<1>2. CASE \E c \in ViewCells, v \in Values : Browse(c, v)
  BY <1>2, <1>T DEF Browse, PhaseOfTask, Untouched
<1>3. CASE \E s \in Scopes, tx, deferred \in BOOLEAN : OpenCheckpoint(s, tx, deferred)
  BY <1>3 DEF OpenCheckpoint, StartHistory, Untouched
<1>4. CASE \E c \in Cells, v \in Values : Mutate(c, v)
  <2>1. armed /\ UNCHANGED armed
    BY <1>4, InnermostFits DEF Mutate, command
  <2> QED BY <2>1 DEF Untouched
<1>5. CASE RestoreStage
  BY <1>5, <1>T, RestoreStages DEF Control, Branches, Untouched
<1>6. CASE \E force \in BOOLEAN : CheckUndo(force) \/ CheckRedo(force)
  BY <1>6 DEF CheckUndo, CheckRedo, Untouched
<1>7. CASE Return \/ Crash
  BY <1>7 DEF Return, Crash, Forget, Untouched
<1>8. CASE ~ContentStep
  BY <1>8, OtherContentSteps DEF Untouched, ghost
<1> QED BY <1>1, <1>2, <1>3, <1>4, <1>5, <1>6, <1>7, <1>8 DEF ContentStep, RestoreStage

-----------------------------------------------------------------------------
(* The rollback of an operation.                                              *)

\* How a step may begin, go on with or end a rollback without writing a cell.
LEMMA OtherRollbackSteps ==
  ASSUME HistoryInv, Control, [Next]_vars, ~ContentStep, Running,
         pc' = "restore" \/ (pc' = "discard" /\ armed')
  PROVE  \/ image' = Before /\ stage' = "wipe"
         \/ UNCHANGED <<pc, image, stage, armed>>
<1>1. CASE CloseWithError \/ CloseNormally \/ FinalizeFails
  <2>1. \/ StartRollback
        \/ pc' = "discard" /\ ~armed /\ UNCHANGED armed
        \/ pc' \in {"finalize", "done"}
    BY <1>1 DEF CloseWithError, CloseNormally, FinalizeFails, command
  <2> QED BY <2>1 DEF StartRollback, BeginRestore, Before, Taken
<1>2. CASE \/ \E s \in Scopes, tx, deferred \in BOOLEAN : OpenNested(s, tx, deferred)
           \/ \E s \in Scopes, tx \in BOOLEAN : RefuseNested(s, tx)
           \/ ArmRollback \/ Raise \/ Catch \/ CloseNested \/ DeferCompletion
  BY <1>2 DEF OpenNested, RefuseNested, ArmRollback, Raise, Catch, CloseNested, DeferCompletion
<1>3. CASE RollbackFails \/ FinalizeCheckpoint \/ DiscardCheckpoint
  BY <1>3 DEF RollbackFails, FinalizeCheckpoint, DiscardCheckpoint
<1>4. CASE CaptureRedoTarget \/ PushRedoNode \/ PopUndo \/ SetUndo \/ PopRedo
  BY <1>4 DEF CaptureRedoTarget, PushRedoNode, PopUndo, SetUndo, PopRedo, HistoryInv,
              PhaseOfTask, Running
<1>5. CASE UNCHANGED vars
  BY <1>5 DEF vars, restore, command
<1> QED BY <1>1, <1>2, <1>3, <1>4, <1>5 DEF Next, ContentStep

LEMMA RollingBackStep ==
  ASSUME TypeOK, HistoryInv, Control, Expected, Covered, RollingBack, [Next]_vars
  PROVE  RollingBack'
<1>T. live \in [Cells -> Values] /\ PhaseOfTask
  BY DEF TypeOK, StoreType, HistoryInv
<1>1. ASSUME NEW c \in IndexCells \cup WorkCells, NEW v \in Values, UserEdit(c, v)
      PROVE  RollingBack'
  <2>1. /\ UNCHANGED <<pc, task, armed, checkpoint, image, stage, base>>
        /\ live' = [live EXCEPT ![c] = v]
    BY <1>1 DEF UserEdit, command, restore
  <2>2. Running => edited' = edited \cup {c}
    BY <1>1, <1>T DEF UserEdit, Running, PhaseOfTask
  <2>3. UNCHANGED <<Running, Before, Restoring>>
    BY <2>1 DEF Running, Restoring, Before, Taken, Newest
  <2>4. SUFFICES ASSUME Running, pc = "restore" \/ (pc = "discard" /\ armed)
                 PROVE  RollingBack'
    BY <2>1, <2>3 DEF RollingBack
  <2>5. ASSUME NEW d \in (DOMAIN Before \cap Restoring) \ edited'
        PROVE  live'[d] = base[d]
    <3>1. d # c /\ live[d] = base[d]
      BY <2>2, <2>4 DEF RollingBack
    <3>2. live'[d] = live[d]
      BY <1>T, <2>1, <3>1
    <3> QED BY <3>1, <3>2
  <2> QED BY <2>1, <2>3, <2>4, <2>5 DEF RollingBack
<1>2. CASE \E c \in ViewCells, v \in Values : Browse(c, v)
  BY <1>2, <1>T DEF Browse, PhaseOfTask, Running, RollingBack
<1>3. CASE \/ \E s \in Scopes, tx, deferred \in BOOLEAN : OpenCheckpoint(s, tx, deferred)
           \/ \E c \in Cells, v \in Values : Mutate(c, v)
  BY <1>3 DEF OpenCheckpoint, Mutate, RollingBack
<1>4. CASE RestoreStage
  <2>1. SUFFICES ASSUME Running PROVE RollingBack'
    BY <1>4, <1>T, RestoreStages DEF RollingBack, Running
  <2>2. /\ pc = "restore" /\ image = Before /\ UNCHANGED <<image, base, edited, checkpoint>>
        /\ \A c \in (DOMAIN Before \cap Restoring) \ edited : live[c] = base[c]
        /\ \A c \in DOMAIN Before : Before[c] = base[c]
        /\ DOMAIN Before \subseteq Cells
    <3>1. DOMAIN Before \subseteq Cells
      BY <2>1, NewestChain, DomainOfImage DEF HistoryInv, OpenCommand, Before, Taken,
         Checkpoints, Running
    <3> QED BY <1>4, <1>T, <2>1, <3>1, RestoreStages DEF RollingBack, Covered, ghost
  <2>3. ASSUME NEW c \in (DOMAIN Before \cap Restoring') \ edited
        PROVE  live'[c] = base[c]
    <3>1. c \in Cells /\ Before[c] = base[c] /\ image[c] = Before[c] /\ c \in DOMAIN image
      BY <2>2
    <3>2. CASE stage = "wipe"
      BY <1>4, <1>T, <3>2, RestoreStages DEF Restoring
    <3>3. CASE stage # "wipe" /\ c \in Restoring
      <4>1. live'[c] = live[c] \/ live'[c] = image[c]
        BY <1>4, <1>T, <3>1, <3>3, RestoreStages
      <4> QED BY <2>2, <3>1, <3>3, <4>1
    <3>4. CASE stage = "meta"
      <4>1. c \in MetaCells \cup RepoCells
        BY <1>4, <1>T, <3>4, RestoreStages DEF Restoring
      <4> QED BY <1>4, <1>T, <3>1, <3>4, <4>1, RestoreStages
    <3>5. CASE stage = "refs" /\ c \notin Restoring
      <4>1. c \in RefCells
        BY <1>4, <1>T, <3>5, RestoreStages DEF Restoring
      <4> QED BY <1>4, <1>T, <3>1, <3>5, <4>1, RestoreStages
    <3>6. CASE stage = "index" /\ c \notin Restoring
      <4>1. c \in IndexCells
        BY <1>4, <1>T, <3>6, RestoreStages DEF Restoring
      <4> QED BY <1>4, <1>T, <3>1, <3>6, <4>1, RestoreStages
    <3>7. CASE stage = "worktree" /\ c \notin Restoring
      <4>1. c \in WorkCells
        BY <3>1, <3>7 DEF Restoring, Cells, AutoCells, ScopedCells
      <4> QED BY <1>4, <1>T, <3>1, <3>7, <4>1, RestoreStages
    <3> QED BY <1>4, <1>T, <3>2, <3>3, <3>4, <3>5, <3>6, <3>7, RestoreStages
  <2> QED BY <2>2, <2>3 DEF RollingBack, Before, Taken, Newest
<1>5. CASE \E force \in BOOLEAN : CheckUndo(force) \/ CheckRedo(force)
  BY <1>5 DEF CheckUndo, CheckRedo, RollingBack, Running
<1>6. CASE Return \/ Crash
  BY <1>6 DEF Return, Crash, Forget, RollingBack, Running
<1>7. CASE ~ContentStep
  <2>1. UNCHANGED <<live, base, edited, checkpoint, task>> /\ (pc = "done" => UNCHANGED pc)
    BY <1>7, OtherContentSteps DEF ghost, vars
  <2>2. SUFFICES ASSUME Running, pc' = "restore" \/ (pc' = "discard" /\ armed')
                 PROVE  RollingBack'
    BY <2>1 DEF RollingBack, Running
  <2>3. CASE image' = Before /\ stage' = "wipe"
    BY <2>1, <2>3 DEF RollingBack, Restoring, Before, Taken, Newest
  <2>4. CASE UNCHANGED <<pc, image, stage, armed>>
    BY <2>1, <2>4 DEF RollingBack, Restoring, Running, Before, Taken, Newest
  <2> QED BY <1>7, <2>2, <2>3, <2>4, OtherRollbackSteps
<1> QED BY <1>1, <1>2, <1>3, <1>4, <1>5, <1>6, <1>7 DEF ContentStep, RestoreStage

\* The only step that completes a rollback is the one that drops the checkpoint.
LEMMA OtherEndings ==
  ASSUME HistoryInv, Control, [Next]_vars, ~ContentStep, ~DiscardCheckpoint,
         pc' = "done", rollback' = "completed"
  PROVE  UNCHANGED vars
<1>1. CASE FinalizeCheckpoint
  BY <1>1 DEF FinalizeCheckpoint, HistoryInv, PhaseOfTask, Control, Branches, result
<1>2. CASE FinalizeFails \/ RollbackFails
  BY <1>2 DEF FinalizeFails, RollbackFails, SettleRollback, StartRollback, BeginRestore
<1>3. CASE CloseWithError \/ CloseNormally
  BY <1>3 DEF CloseWithError, CloseNormally, StartRollback, BeginRestore
<1>4. CASE \/ \E s \in Scopes, tx, deferred \in BOOLEAN : OpenNested(s, tx, deferred)
           \/ \E s \in Scopes, tx \in BOOLEAN : RefuseNested(s, tx)
           \/ ArmRollback \/ Raise \/ Catch \/ CloseNested \/ DeferCompletion
  BY <1>4 DEF OpenNested, RefuseNested, ArmRollback, Raise, Catch, CloseNested, DeferCompletion
<1>5. CASE CaptureRedoTarget \/ PushRedoNode \/ PopUndo \/ SetUndo \/ PopRedo
  BY <1>5 DEF CaptureRedoTarget, BeginRestore, PushRedoNode, PopUndo, SetUndo, PopRedo,
              HistoryInv, PhaseOfTask, Control, NoCommand, result
<1>6. CASE UNCHANGED vars
  BY <1>6
<1> QED BY <1>1, <1>2, <1>3, <1>4, <1>5, <1>6 DEF Next, ContentStep

LEMMA RollbackStep ==
  ASSUME TypeOK, HistoryInv, Control, Expected, Covered, Untouched, RollingBack,
         RollbackRestores, [Next]_vars
  PROVE  RollbackRestores'
<1>T. live \in [Cells -> Values] /\ PhaseOfTask
  BY DEF TypeOK, StoreType, HistoryInv
<1>1. ASSUME NEW c \in IndexCells \cup WorkCells, NEW v \in Values, UserEdit(c, v)
      PROVE  RollbackRestores'
  <2>1. /\ UNCHANGED <<pc, rollback, undo, redo, checkpoint, previousRedo, task>>
        /\ live' = [live EXCEPT ![c] = v]
    BY <1>1 DEF UserEdit, command, result
  <2>2. SUFFICES ASSUME pc = "done", rollback = "completed" PROVE RollbackRestores'
    BY <2>1 DEF RollbackRestores
  <2>3. /\ edited' = edited \cup {c} /\ expect' = [expect EXCEPT ![c] = v]
        /\ expect \in [Cells -> Values]
    BY <1>1, <1>T, <2>2 DEF UserEdit, PhaseOfTask, Expected
  <2>4. /\ undo = Parent(checkpoint) /\ redo = previousRedo
        /\ \A d \in Cells : d \in edited \cap DOMAIN Newest(checkpoint).before
                            \/ live[d] = expect[d]
    BY <2>2 DEF RollbackRestores
  <2>5. ASSUME NEW d \in Cells
        PROVE  d \in edited' \cap DOMAIN Newest(checkpoint).before \/ live'[d] = expect'[d]
    BY <1>T, <2>1, <2>3, <2>4
  <2> QED BY <2>1, <2>4, <2>5 DEF RollbackRestores, Parent, Newest
<1>2. CASE \E c \in ViewCells, v \in Values : Browse(c, v)
  BY <1>2 DEF Browse, RollbackRestores
<1>3. CASE \/ \E s \in Scopes, tx, deferred \in BOOLEAN : OpenCheckpoint(s, tx, deferred)
           \/ \E c \in Cells, v \in Values : Mutate(c, v)
           \/ \E force \in BOOLEAN : CheckUndo(force) \/ CheckRedo(force)
  BY <1>3 DEF OpenCheckpoint, Mutate, CheckUndo, CheckRedo, BeginRestore, RollbackRestores
<1>4. CASE RestoreStage
  BY <1>4, <1>T, RestoreStages DEF RollbackRestores
<1>5. CASE Return \/ Crash
  BY <1>5 DEF Return, Crash, Forget, RollbackRestores
<1>6. CASE DiscardCheckpoint
  <2>1. /\ pc = "discard" /\ task = "operation" /\ Running
        /\ undo' = Parent(checkpoint) /\ redo' = previousRedo
        /\ UNCHANGED <<live, checkpoint, previousRedo, armed, base, expect, edited>>
    BY <1>6, <1>T DEF DiscardCheckpoint, command, ghost, PhaseOfTask, Running
  <2>2. CASE ~armed
    <3>1. live = expect
      BY <2>1, <2>2 DEF Untouched
    <3> QED BY <2>1, <3>1 DEF RollbackRestores, Parent
  <2>3. CASE armed
    <3>1. \A c \in (DOMAIN Before \cap Cells) \ edited : live[c] = base[c]
      BY <2>1, <2>3 DEF RollingBack, Control, Branches, Restoring
    <3>2. /\ \A c \in Cells \ DOMAIN Before : live[c] = expect[c]
          /\ \A c \in Cells \ edited : expect[c] = base[c]
      BY <2>1 DEF Covered, Expected
    <3>3. \A c \in Cells : c \in edited \cap DOMAIN Before \/ live[c] = expect[c]
      BY <3>1, <3>2
    <3> QED BY <2>1, <3>3 DEF RollbackRestores, Parent, Before, Taken, Newest
  <2> QED BY <2>2, <2>3
<1>7. CASE ~ContentStep /\ ~DiscardCheckpoint
  BY <1>7, OtherEndings
  DEF RollbackRestores, vars, store, command, result, ghost, Parent, Newest
<1> QED BY <1>1, <1>2, <1>3, <1>4, <1>5, <1>6, <1>7 DEF ContentStep, RestoreStage

-----------------------------------------------------------------------------
(* Undo.                                                                      *)

LEMMA OtherUndoSteps ==
  ASSUME HistoryInv, [Next]_vars, ~ContentStep, task = "undo"
  PROVE  CaptureRedoTarget \/ PushRedoNode \/ PopUndo \/ UNCHANGED vars
<1>1. CASE \/ \E s \in Scopes, tx, deferred \in BOOLEAN : OpenNested(s, tx, deferred)
           \/ \E s \in Scopes, tx \in BOOLEAN : RefuseNested(s, tx)
           \/ ArmRollback \/ Raise \/ Catch \/ CloseNested \/ DeferCompletion
           \/ CloseWithError \/ CloseNormally
  BY <1>1 DEF OpenNested, RefuseNested, ArmRollback, Raise, Catch, CloseNested,
              DeferCompletion, CloseWithError, CloseNormally, HistoryInv, PhaseOfTask
<1>2. CASE FinalizeCheckpoint \/ FinalizeFails \/ DiscardCheckpoint \/ RollbackFails
           \/ SetUndo \/ PopRedo
  BY <1>2 DEF FinalizeCheckpoint, FinalizeFails, DiscardCheckpoint, RollbackFails, SetUndo,
              PopRedo, HistoryInv, PhaseOfTask
<1> QED BY <1>1, <1>2 DEF Next, ContentStep

LEMMA UndoingStep ==
  ASSUME TypeOK, HistoryInv, Expected, Undoing, [Next]_vars
  PROVE  Undoing'
<1>T. live \in [Cells -> Values] /\ PhaseOfTask
  BY DEF TypeOK, StoreType, HistoryInv
<1>1. ASSUME NEW c \in IndexCells \cup WorkCells, NEW v \in Values, UserEdit(c, v)
      PROVE  Undoing'
  <2>1. /\ UNCHANGED <<pc, task, redo, checkpoint, image, whole, stage, target, base>>
        /\ live' = [live EXCEPT ![c] = v]
    BY <1>1 DEF UserEdit, command, restore
  <2>2. SUFFICES ASSUME task = "undo", ~Incomplete(Taken) PROVE Undoing'
    BY <2>1 DEF Undoing, Taken, Incomplete, Newest
  <2>3. edited' = edited \cup {c}
    BY <1>1, <1>T, <2>2 DEF UserEdit, PhaseOfTask
  <2>4. \A d \in Cells \ edited' : live'[d] = live[d] /\ d \notin edited
    BY <1>T, <2>1, <2>3
  <2>5. UNCHANGED <<Before, Taken>>
    BY <2>1 DEF Before, Taken, Newest
  <2>6. /\ \A d \in Cells \ edited :
             live[d] # base[d] => d \in DOMAIN Before /\ live[d] = Before[d]
        /\ pc = "capture" => \A d \in Cells \ edited : live[d] = base[d]
        /\ pc # "capture" => /\ image = Before /\ ~whole /\ DOMAIN target = DOMAIN Before
                             /\ \A d \in DOMAIN Before \ edited : target[d] = base[d]
        /\ pc = "restore" => stage # "wipe"
        /\ pc \in {"popUndo", "done"} => redo # <<>> /\ Newest(redo).target = target
    BY <2>2 DEF Undoing
  <2>7. pc = "capture" => \A d \in Cells \ edited' : live'[d] = base[d]
    BY <2>4, <2>6
  <2>8. \A d \in Cells \ edited' :
          live'[d] # base[d] => d \in DOMAIN Before /\ live'[d] = Before[d]
    BY <2>4, <2>6
  <2>9. pc # "capture" => /\ image = Before /\ ~whole /\ DOMAIN target = DOMAIN Before
                          /\ \A d \in DOMAIN Before \ edited' : target[d] = base[d]
    BY <2>3, <2>6
  <2> QED BY <2>1, <2>5, <2>6, <2>7, <2>8, <2>9 DEF Undoing, Newest
<1>2. CASE \/ \E c \in ViewCells, v \in Values : Browse(c, v)
           \/ \E c \in Cells, v \in Values : Mutate(c, v)
  BY <1>2, <1>T DEF Browse, Mutate, PhaseOfTask, Undoing
<1>3. CASE \/ \E s \in Scopes, tx, deferred \in BOOLEAN : OpenCheckpoint(s, tx, deferred)
           \/ \E force \in BOOLEAN : CheckRedo(force)
  BY <1>3 DEF OpenCheckpoint, CheckRedo, Undoing
<1>4. ASSUME NEW force \in BOOLEAN, CheckUndo(force)
      PROVE  Undoing'
  <2>1. pc' = "capture" /\ base' = live /\ live' = live
    BY <1>4 DEF CheckUndo, StartHistory, store
  <2> QED BY <2>1 DEF Undoing
<1>5. CASE RestoreStage
  <2>1. SUFFICES ASSUME task = "undo", ~Incomplete(Taken) PROVE Undoing'
    BY <1>5, <1>T, RestoreStages DEF Undoing, Taken, Incomplete, Newest
  <2>2. /\ pc = "restore" /\ stage # "wipe" /\ stage' # "wipe" /\ image = Before /\ ~whole
        /\ UNCHANGED <<task, image, whole, target, base, edited, checkpoint, redo>>
        /\ pc' \in {"restore", "discard", "pushRedo", "setUndo"}
        /\ \A c \in Cells : live'[c] = live[c] \/ (c \in DOMAIN Before /\ live'[c] = Before[c])
    BY <1>5, <1>T, <2>1, RestoreStages DEF Undoing, ghost
  <2>3. UNCHANGED <<Before, Taken>>
    BY <2>2 DEF Before, Taken, Newest
  <2> QED BY <2>1, <2>2, <2>3 DEF Undoing
<1>6. CASE Return \/ Crash
  BY <1>6 DEF Return, Crash, Forget, Undoing
<1>7. CASE CaptureRedoTarget
  <2>1. SUFFICES ASSUME task = "undo", ~Incomplete(Taken) PROVE Undoing'
    BY <1>7 DEF CaptureRedoTarget, Undoing, Taken, Incomplete, Newest, command
  <2>2. /\ pc = "capture" /\ pc' = "restore" /\ image' = Before /\ ~whole' /\ stage' = "meta"
        /\ target' = Snapshot(DOMAIN Before)
        /\ UNCHANGED <<live, task, checkpoint, base, edited>>
    BY <1>7, <2>1 DEF CaptureRedoTarget, BeginRestore, RedoOwned, Before, Taken, Incomplete,
                      store, command, ghost
  <2>3. checkpoint # <<>> /\ Taken \in Checkpoints
    BY <2>1, <2>2, NewestChain DEF HistoryInv, OpenUndo, Taken
  <2>4. DOMAIN Before \subseteq Cells
    BY <2>3, DomainOfImage DEF Before, Checkpoints
  <2>5. \A c \in Cells \ edited : live[c] = base[c]
    BY <2>1, <2>2 DEF Undoing
  <2>6. DOMAIN target' = DOMAIN Before /\ \A c \in DOMAIN Before \ edited : target'[c] = base[c]
    BY <2>2, <2>4, <2>5 DEF Snapshot
  <2>7. UNCHANGED <<Before, Taken>>
    BY <2>2 DEF Before, Taken, Newest
  <2> QED BY <2>2, <2>5, <2>6, <2>7 DEF Undoing
<1>8. CASE PushRedoNode
  <2> DEFINE node == [target |-> target, afterUndo |-> Snapshot(DOMAIN target),
                      chain |-> checkpoint]
  <2>1. /\ pc = "pushRedo" /\ pc' = "popUndo" /\ redo' = Append(redo, node)
        /\ UNCHANGED <<live, task, checkpoint, image, whole, target, base, edited>>
    BY <1>8 DEF PushRedoNode, command, restore, ghost
  <2>2. node \in RedoNodes
    <3>1. target \in Images /\ DOMAIN target \in SUBSET Cells
      BY DomainOfImage DEF TypeOK, RestoreType
    <3> QED BY <1>T, <3>1, SnapshotType DEF RedoNodes, TypeOK, CommandType
  <2>3. redo' # <<>> /\ Newest(redo').target = target
    BY <2>1, <2>2, ParentOfAppend DEF TypeOK, StoreType
  <2>4. UNCHANGED <<Before, Taken>>
    BY <2>1 DEF Before, Taken, Newest
  <2> QED BY <2>1, <2>3, <2>4 DEF Undoing, Newest
<1>9. CASE PopUndo
  <2>1. /\ pc = "popUndo" /\ pc' = "done"
        /\ UNCHANGED <<live, redo, task, checkpoint, image, whole, target, base, edited>>
    BY <1>9 DEF PopUndo, command, restore, ghost
  <2> QED BY <2>1 DEF Undoing, Before, Taken, Newest
<1>10. CASE UNCHANGED vars
  BY <1>10 DEF vars, store, command, restore, ghost, Undoing, Before, Taken, Newest
<1>11. CASE ~ContentStep /\ task # "undo"
  BY <1>11, OtherContentSteps DEF Undoing
<1> QED BY <1>1, <1>2, <1>3, <1>4, <1>5, <1>6, <1>7, <1>8, <1>9, <1>10, <1>11, OtherUndoSteps
        DEF ContentStep, RestoreStage

LEMMA GuardedStep ==
  ASSUME TypeOK, HistoryInv, Guarded, [Next]_vars
  PROVE  Guarded'
<1>1. ASSUME NEW force \in BOOLEAN, CheckUndo(force)
      PROVE  Guarded'
  <2>1. /\ checkpoint' = undo /\ forced' = force /\ base' = live
        /\ UndoConflicts(Newest(undo)) => force
    BY <1>1 DEF CheckUndo, StartHistory
  <2>2. Taken' = Newest(undo)
    BY <2>1 DEF Taken, Newest
  <2>3. ~force => /\ ~Incomplete(Newest(undo))
                  /\ \A c \in DOMAIN Newest(undo).after \ ViewCells :
                       live[c] = Newest(undo).after[c]
    BY <2>1 DEF UndoConflicts, Differs
  <2> QED BY <2>1, <2>2, <2>3 DEF Guarded
<1>2. CASE \/ \E s \in Scopes, tx, deferred \in BOOLEAN : OpenCheckpoint(s, tx, deferred)
           \/ \E force \in BOOLEAN : CheckRedo(force)
           \/ Return \/ Crash
  BY <1>2 DEF OpenCheckpoint, CheckRedo, Return, Crash, Forget, Guarded
<1>3. CASE \/ \E c \in IndexCells \cup WorkCells, v \in Values : UserEdit(c, v)
           \/ \E c \in ViewCells, v \in Values : Browse(c, v)
           \/ \E c \in Cells, v \in Values : Mutate(c, v)
  <2>1. UNCHANGED <<task, forced, base, checkpoint>>
    BY <1>3 DEF UserEdit, Browse, Mutate, command, restore, ghost
  <2> QED BY <2>1 DEF Guarded, Taken, Newest, Incomplete
<1>4. CASE RestoreStage
  <2>1. UNCHANGED <<task, forced, base, checkpoint>>
    BY <1>4, RestoreStages DEF HistoryInv, ghost
  <2> QED BY <2>1 DEF Guarded, Taken, Newest, Incomplete
<1>5. CASE ~ContentStep
  BY <1>5, OtherContentSteps DEF Guarded, Taken, Newest, Incomplete, ghost
<1> QED BY <1>1, <1>2, <1>3, <1>4, <1>5 DEF ContentStep, RestoreStage

-----------------------------------------------------------------------------
(* The invariant, and the properties it implies.                              *)

CommandInv == TypeOK /\ HistoryInv /\ ContentsInv

LEMMA CommandInit == Init => CommandInv
<1> SUFFICES ASSUME Init PROVE CommandInv
  OBVIOUS
<1>1. TypeOK /\ HistoryInv /\ ChainsMatch /\ ControlInv
  BY InitType, HistoryInit, ChainsInit, ControlInit
<1>2. Contents
  BY DEF Init, Contents, Expected, Covered, Untouched, RollingBack, Undoing, Guarded, Running
<1>3. RollbackRestores
  BY DEF Init, RollbackRestores
<1> QED BY <1>1, <1>2, <1>3 DEF CommandInv, ContentsInv, ControlInv

LEMMA CommandStep == CommandInv /\ [Next]_vars => CommandInv'
<1> SUFFICES ASSUME CommandInv, [Next]_vars PROVE CommandInv'
  OBVIOUS
<1>1. /\ TypeOK /\ HistoryInv /\ ChainsMatch /\ ControlInv /\ Control
      /\ Expected /\ Covered /\ Untouched /\ RollingBack /\ Undoing /\ Guarded
      /\ RollbackRestores
  BY DEF CommandInv, ContentsInv, ControlInv, Contents
<1>2. TypeOK' /\ HistoryInv' /\ ChainsMatch' /\ ControlInv'
  BY <1>1, TypeStep, HistoryStep, ChainsStep, ControlStep
<1>3. Expected' /\ Covered' /\ Untouched' /\ RollingBack'
  BY <1>1, ExpectedStep, CoveredStep, UntouchedStep, RollingBackStep
<1>4. Undoing' /\ Guarded' /\ RollbackRestores'
  BY <1>1, UndoingStep, GuardedStep, RollbackStep
<1> QED BY <1>2, <1>3, <1>4 DEF CommandInv, ContentsInv, ControlInv, Contents

LEMMA CommandAlways == Spec => []CommandInv
BY CommandInit, CommandStep, PTL DEF Spec

\* Until a transactional command arms its rollback, the repository is the user's.
THEOREM RefusalIsHarmless == Spec => []UnarmedWritesNothing
<1>1. CommandInv => UnarmedWritesNothing
  BY DEF CommandInv, ContentsInv, Control, NoCommand, Contents, Untouched,
         UnarmedWritesNothing, Transaction
<1> QED BY <1>1, CommandAlways, PTL

\* Whatever an open command has changed can be put back from the checkpoint that the
\* undo ref names.
THEOREM OpenCommandIsCovered == Spec => []BeforeImageCovers
<1>1. ASSUME CommandInv
      PROVE  BeforeImageCovers
  <2> SUFFICES ASSUME Running PROVE undo = checkpoint /\ \A c \in Cells : live[c] # expect[c] =>
                 c \in DOMAIN Newest(undo).before /\ Newest(undo).before[c] = base[c]
    BY DEF BeforeImageCovers, Running
  <2>1. undo = checkpoint /\ Covered
    BY <1>1 DEF CommandInv, HistoryInv, OpenCommand, ContentsInv, Contents
  <2> QED BY <2>1 DEF Covered, Before, Taken
<1> QED BY <1>1, CommandAlways, PTL

\* A completed rollback gives back both stacks and every cell, except the edits that
\* raced it.
THEOREM RollbackGivesBack == Spec => []RollbackRestores
<1>1. CommandInv => RollbackRestores
  BY DEF CommandInv, ContentsInv
<1> QED BY <1>1, CommandAlways, PTL

\* Inside a transaction no success effect runs before the outermost commit.
THEOREM AnnouncedAfterCommit == Spec => []AnnouncedOnlyIfCommitted
<1>1. CommandInv => AnnouncedOnlyIfCommitted
  BY DEF CommandInv, ContentsInv
<1> QED BY <1>1, CommandAlways, PTL

\* The failure of an armed nested transaction rolls the outermost one back, even when
\* it was caught.
THEOREM FailureIsNotSwallowed == Spec => []SwallowedFailureRollsBack
<1>1. CommandInv => SwallowedFailureRollsBack
  BY DEF CommandInv, ContentsInv
<1> QED BY <1>1, CommandAlways, PTL

\* What an undo of a finalized checkpoint overwrites is in its redo node.
THEOREM UndoLosesNothing == Spec => []UndoIsRecoverable
<1>1. ASSUME CommandInv
      PROVE  UndoIsRecoverable
  <2> SUFFICES ASSUME pc = "done", task = "undo", ~Incomplete(Taken)
               PROVE  Recoverable
    BY DEF UndoIsRecoverable, Taken
  <2>1. Undoing
    BY <1>1 DEF CommandInv, ContentsInv, Contents
  <2> QED BY <2>1 DEF Undoing, Recoverable
<1> QED BY <1>1, CommandAlways, PTL

\* An undo without --force overwrites only what the undone command itself wrote.
THEOREM UndoRevertsOnlyItsCommand == Spec => []GuardedUndoRevertsOnlyItsCommand
<1>1. ASSUME CommandInv
      PROVE  GuardedUndoRevertsOnlyItsCommand
  <2> SUFFICES ASSUME pc = "done", task = "undo", ~forced,
                      NEW c \in Cells \ (edited \cup ViewCells), live[c] # base[c]
               PROVE  base[c] = Taken.after[c] /\ live[c] = Before[c]
    BY DEF GuardedUndoRevertsOnlyItsCommand, Taken, Before
  <2>1. Undoing /\ Guarded /\ ChainsMatch /\ Holds
    BY <1>1 DEF CommandInv, ContentsInv, Contents, Control
  <2>2. ~Incomplete(Taken) /\ c \in DOMAIN Before /\ live[c] = Before[c]
    BY <2>1 DEF Undoing, Guarded
  <2>3. Taken \in Matched
    BY <2>1, ParentType DEF ChainsMatch, Holds, Taken
  <2>4. c \in DOMAIN Taken.after
    BY <2>2, <2>3 DEF Matched, Before
  <2> QED BY <2>1, <2>2, <2>4 DEF Guarded
<1> QED BY <1>1, CommandAlways, PTL
=============================================================================
