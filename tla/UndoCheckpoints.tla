--------------------------- MODULE UndoCheckpoints ---------------------------
(***************************************************************************)
(* The undo and redo stacks of data/undo/: before-image checkpoints around *)
(* every mutating command, transactional rollback of nested commands, and  *)
(* `undo` / `redo` themselves, with a user who edits the worktree and the  *)
(* index at any time and a process that may die between any two steps.     *)
(*                                                                         *)
(* The repository is a function `live` from cells to values.  A cell is    *)
(* one file of the session or batches directory (MetaCells; those under    *)
(* selected/ are the ViewCells), one batch ref (RefCells), one private     *)
(* file of the git directory (RepoCells), one index entry (IndexCells) or  *)
(* one worktree path (WorkCells).  A stack ref names a commit; a commit is *)
(* its chain of ancestors, so a ref is a sequence, newest checkpoint last. *)
(***************************************************************************)
EXTENDS Naturals, Sequences

CONSTANTS
  MetaCells, ViewCells, RefCells, RepoCells, IndexCells, WorkCells,
  Scopes,            \* the sets of scoped cells that commands declare
  Values, Absent,    \* contents of a cell; Absent when the file does not exist
  NoImage,           \* a manifest without the "after" object
  MaxUndo,           \* bound on the undo stack (guard of OpenCheckpoint)
  MaxRedo,           \* bound on the redo stack (guard of CheckUndo)
  MaxNest,           \* bound on the depth of nested contexts
  MaxDeferred        \* bound on the completions one command defers

AutoCells   == MetaCells \cup RefCells
ScopedCells == RepoCells \cup IndexCells \cup WorkCells
Cells       == AutoCells \cup ScopedCells

ASSUME CellAssumption ==
  /\ ViewCells \subseteq MetaCells
  /\ MetaCells \cap RefCells = {}
  /\ AutoCells \cap ScopedCells = {}
  /\ Scopes \subseteq SUBSET ScopedCells
  /\ Absent \in Values

ASSUME BoundAssumption ==
  /\ MaxUndo \in Nat /\ MaxRedo \in Nat /\ MaxNest \in Nat /\ MaxDeferred \in Nat

\* A partial picture of the repository: the cells it owns and their contents.
Images == UNION {[S -> Values] : S \in SUBSET Cells}

ASSUME NoImageAssumption == NoImage \notin Images

Checkpoints == [before : Images, after : Images \cup {NoImage}]
Chains      == Seq(Checkpoints)
RedoNodes   == [target : Images, afterUndo : Images, chain : Chains]
Contexts    == [scope : SUBSET ScopedCells, tx : BOOLEAN, armed : BOOLEAN]

VARIABLES
  live,        \* the repository contents
  marker,      \* session/abort/head.txt exists: a session is active
  undo, redo,  \* the chains named by session/undo-stack and session/redo-stack
  \* the rest is the memory of the one process that holds the session lock
  pc, task,
  checkpoint,  \* the chain published by the outermost context
  previousRedo,
  contexts,    \* open checkpoint contexts, outermost first
  raising,     \* an exception is propagating
  cause,       \* _PENDING_CHECKPOINT_ROLLBACK_CAUSE is set
  armed,       \* _TransactionBoundary.armed
  completions, \* how many completions wait for the outermost outcome
  outcome,     \* _TransactionBoundary.outcome
  rollback,    \* UndoCheckpointStatus.rollback of the outermost context
  announced,   \* how many success effects of this command have run
  image, whole, stage, \* the restore in progress
  target,      \* redo_target
  forced,      \* --force
  \* what the user can say about the repository (history variables)
  base,        \* live when the current task began
  expect,      \* base with the user's edits since then
  edited       \* the cells the user edited since then

store   == <<live, marker, undo, redo>>
command == <<checkpoint, previousRedo, contexts, raising, cause, armed>>
result  == <<completions, outcome, rollback, announced>>
restore == <<image, whole, stage, target, forced>>
ghost   == <<base, expect, edited>>
vars    == <<store, pc, task, command, result, restore, ghost>>

-----------------------------------------------------------------------------
\* checkpoint_parent: the chain without its newest commit.
Parent(chain) == SubSeq(chain, 1, Len(chain) - 1)
Newest(chain) == chain[Len(chain)]

Snapshot(S) == [c \in S |-> live[c]]

Incomplete(cp) == cp.after = NoImage

\* Restoring writes the cells of an image that belong to one part of it.
Written(img, part) ==
  [c \in Cells |-> IF c \in DOMAIN img \cap part THEN img[c] ELSE live[c]]

\* _detect_conflicts_against_state: the selected/ files are not compared.
Differs(img) == \E c \in DOMAIN img \ ViewCells : live[c] # img[c]

\* Slip: the finalized checkpoint is undone without comparing its after-image.
UncheckedConflicts(cp) == Incomplete(cp)

UndoConflicts(cp) == IF Incomplete(cp) THEN TRUE ELSE Differs(cp.after)

\* Slip: the redo node of a finalized checkpoint forgets metadata and refs too.
ScopedOnly(cp) == DOMAIN cp.before \cap ScopedCells

\* The cells the redo node of a checkpoint records.  An incomplete manifest
\* has no tracked_refs, tracked_session_paths or tracked_batches_paths, and a
\* missing list is read as the empty one.
RedoOwned(cp) ==
  IF Incomplete(cp) THEN DOMAIN cp.before \cap ScopedCells ELSE DOMAIN cp.before

\* finalize_pending_checkpoint: keep the metadata and refs that changed.
Completed(cp) ==
  LET kept == {c \in DOMAIN cp.before : c \in ScopedCells \/ live[c] # cp.before[c]}
  IN  [before |-> [c \in kept |-> cp.before[c]], after |-> Snapshot(kept)]

Context(s, tx, deferred) == [scope |-> s, tx |-> tx, armed |-> ~deferred]
Innermost   == contexts[Len(contexts)]
Transaction == contexts # <<>> /\ contexts[1].tx

NoCells == [c \in {} |-> Absent]

StartHistory == base' = live /\ expect' = live /\ edited' = {}

\* The process forgets everything it knew: it returned to the shell, or died.
Forget ==
  /\ pc' = "idle" /\ task' = "none"
  /\ checkpoint' = <<>> /\ previousRedo' = <<>>
  /\ contexts' = <<>> /\ raising' = FALSE /\ cause' = FALSE /\ armed' = FALSE
  /\ completions' = 0 /\ outcome' = "pending"
  /\ rollback' = "not-requested" /\ announced' = 0
  /\ image' = NoCells /\ whole' = FALSE /\ stage' = "meta"
  /\ target' = NoCells /\ forced' = FALSE
  /\ base' = NoCells /\ expect' = NoCells /\ edited' = {}

Init ==
  /\ live \in [Cells -> Values]
  /\ marker = TRUE
  /\ undo = <<>> /\ redo = <<>>
  /\ pc = "idle" /\ task = "none"
  /\ checkpoint = <<>> /\ previousRedo = <<>>
  /\ contexts = <<>> /\ raising = FALSE /\ cause = FALSE /\ armed = FALSE
  /\ completions = 0 /\ outcome = "pending"
  /\ rollback = "not-requested" /\ announced = 0
  /\ image = NoCells /\ whole = FALSE /\ stage = "meta"
  /\ target = NoCells /\ forced = FALSE
  /\ base = NoCells /\ expect = NoCells /\ edited = {}

-----------------------------------------------------------------------------
(* The user's editor and `git add` need no session lock.  Bound: each cell is  *)
(* edited once while one command runs, without limit between commands.        *)
UserEdit(c, v) ==
  /\ v # live[c] /\ c \notin edited
  /\ live' = [live EXCEPT ![c] = v]
  /\ IF pc = "idle"
     THEN UNCHANGED <<expect, edited>>
     ELSE expect' = [expect EXCEPT ![c] = v] /\ edited' = edited \cup {c}
  /\ UNCHANGED <<marker, undo, redo, pc, task, command, result, restore, base>>

(* show and next rewrite the files under selected/ outside any checkpoint.   *)
Browse(c, v) ==
  /\ pc = "idle" /\ marker
  /\ v # live[c]
  /\ live' = [live EXCEPT ![c] = v]
  /\ UNCHANGED <<marker, undo, redo, pc, task, command, result, restore, ghost>>

\* Slip: a new command leaves the undone ones on the redo stack.
OpenKeepingRedo(s, tx, deferred) ==
  /\ pc = "idle" /\ marker
  /\ Len(undo) < MaxUndo
  /\ deferred => tx
  /\ undo' = Append(undo, [before |-> Snapshot(s \cup AutoCells), after |-> NoImage])
  /\ pc' = "body" /\ task' = "operation"
  /\ checkpoint' = undo' /\ previousRedo' = redo
  /\ contexts' = <<Context(s, tx, deferred)>>
  /\ armed' = ~deferred
  /\ rollback' = IF tx THEN "pending" ELSE "not-requested"
  /\ StartHistory
  /\ UNCHANGED <<live, marker, redo, raising, cause, completions, outcome, announced,
                 restore>>

(* undo_checkpoint / transaction_checkpoint entered with nothing pending:    *)
(* the before-image is published and the redo stack dropped in one ref       *)
(* transaction.  Only transaction_checkpoint defers arming.                  *)
OpenCheckpoint(s, tx, deferred) ==
  /\ pc = "idle" /\ marker
  /\ Len(undo) < MaxUndo
  /\ deferred => tx
  /\ undo' = Append(undo, [before |-> Snapshot(s \cup AutoCells), after |-> NoImage])
  /\ redo' = <<>>
  /\ pc' = "body" /\ task' = "operation"
  /\ checkpoint' = undo' /\ previousRedo' = redo
  /\ contexts' = <<Context(s, tx, deferred)>>
  /\ armed' = ~deferred
  /\ rollback' = IF tx THEN "pending" ELSE "not-requested"
  /\ StartHistory
  /\ UNCHANGED <<live, marker, raising, cause, completions, outcome, announced, restore>>

\* Slip: a nested scope is not compared with the outer before-image.
FitsAnyScope(s, tx) == tx => contexts[1].tx

(* undo_checkpoint entered while a checkpoint is pending: the operation must *)
(* fit in the outer before-image and shares its boundary.                    *)
Fits(s, tx) ==
  /\ s \subseteq DOMAIN Newest(checkpoint).before
  /\ tx => contexts[1].tx

OpenNested(s, tx, deferred) ==
  /\ pc = "body" /\ ~raising
  /\ Len(contexts) <= MaxNest
  /\ deferred => tx
  /\ undo = checkpoint
  /\ Fits(s, tx)
  /\ contexts' = Append(contexts, Context(s, tx, deferred))
  /\ armed' = (armed \/ ~deferred)
  /\ UNCHANGED <<store, pc, task, checkpoint, previousRedo, raising, cause, result,
                 restore, ghost>>

RefuseNested(s, tx) ==
  /\ pc = "body" /\ ~raising
  /\ Len(contexts) <= MaxNest
  /\ ~Fits(s, tx)
  /\ raising' = TRUE
  /\ UNCHANGED <<store, pc, task, checkpoint, previousRedo, contexts, cause, armed,
                 result, restore, ghost>>

(* UndoCheckpointStatus.arm_rollback of the innermost context.               *)
ArmRollback ==
  /\ pc = "body" /\ ~raising
  /\ Innermost.tx /\ ~Innermost.armed
  /\ contexts' = [contexts EXCEPT ![Len(contexts)].armed = TRUE]
  /\ armed' = TRUE
  /\ UNCHANGED <<store, pc, task, checkpoint, previousRedo, raising, cause, result,
                 restore, ghost>>

(* The body publishes one mutation: a cell of its declared scope or any      *)
(* metadata or batch ref, after arming when arming was deferred.             *)
Mutate(c, v) ==
  /\ pc = "body" /\ ~raising
  /\ Innermost.armed
  /\ c \in Innermost.scope \cup AutoCells
  /\ v # live[c]
  /\ live' = [live EXCEPT ![c] = v]
  /\ UNCHANGED <<marker, undo, redo, pc, task, command, result, restore, ghost>>

Raise ==
  /\ pc = "body" /\ ~raising
  /\ raising' = TRUE
  /\ UNCHANGED <<store, pc, task, checkpoint, previousRedo, contexts, cause, armed,
                 result, restore, ghost>>

(* Code between two contexts catches the exception and goes on.              *)
Catch ==
  /\ pc = "body" /\ raising
  /\ raising' = FALSE
  /\ UNCHANGED <<store, pc, task, checkpoint, previousRedo, contexts, cause, armed,
                 result, restore, ghost>>

(* Leaving a nested context, normally or by an exception.                    *)
CloseNested ==
  /\ pc = "body" /\ Len(contexts) > 1
  /\ contexts' = SubSeq(contexts, 1, Len(contexts) - 1)
  /\ cause' = (cause \/ (raising /\ Innermost.tx /\ Innermost.armed))
  /\ UNCHANGED <<store, pc, task, checkpoint, previousRedo, raising, armed, result,
                 restore, ghost>>

\* Slip: a success effect runs at once inside a transaction.
AnnounceAtOnce ==
  /\ pc = "body" /\ ~raising
  /\ completions + announced < MaxDeferred
  /\ announced' = announced + 1
  /\ UNCHANGED <<store, pc, task, command, completions, outcome, rollback, restore, ghost>>

(* defer_transaction_completion: at once outside a transaction, queued inside. *)
DeferCompletion ==
  /\ pc = "body" /\ ~raising
  /\ completions + announced < MaxDeferred
  /\ IF Transaction
     THEN completions' = completions + 1 /\ UNCHANGED announced
     ELSE announced' = announced + 1 /\ UNCHANGED completions
  /\ UNCHANGED <<store, pc, task, command, outcome, rollback, restore, ghost>>

-----------------------------------------------------------------------------
(* Leaving the outermost context.  The pending checkpoint is forgotten first; *)
(* each branch starts by comparing the stack ref with `checkpoint`.          *)

\* finish_rollback: the queued completions see the rollback, none announces.
SettleRollback(status) ==
  /\ rollback' = status
  /\ outcome' = "rolled-back"
  /\ completions' = 0
  /\ UNCHANGED announced

BeginRestore(img, wipe) ==
  /\ pc' = "restore"
  /\ image' = img /\ whole' = wipe
  /\ stage' = IF wipe THEN "wipe" ELSE "meta"

StartRollback ==
  /\ undo = checkpoint
  /\ BeginRestore(Newest(checkpoint).before, TRUE)
  /\ UNCHANGED <<target, forced>>

\* Slip: a refused command rolls back although it never armed.
RollBackUnarmed ==
  /\ pc = "body" /\ Len(contexts) = 1 /\ raising
  /\ \/ Transaction /\ StartRollback
     \/ ~Transaction /\ pc' = "finalize" /\ UNCHANGED restore
  /\ UNCHANGED <<store, task, command, result, ghost>>

CloseWithError ==
  /\ pc = "body" /\ Len(contexts) = 1 /\ raising
  /\ \/ Transaction /\ armed /\ StartRollback
     \/ Transaction /\ ~armed /\ pc' = "discard" /\ UNCHANGED restore
     \/ ~Transaction /\ pc' = "finalize" /\ UNCHANGED restore
  /\ UNCHANGED <<store, task, command, result, ghost>>

\* Slip: the failure a nested transaction left behind is not looked at.
CloseIgnoringCause ==
  /\ pc = "body" /\ Len(contexts) = 1 /\ ~raising
  /\ pc' = "finalize" /\ UNCHANGED restore
  /\ UNCHANGED <<store, task, command, result, ghost>>

CloseNormally ==
  /\ pc = "body" /\ Len(contexts) = 1 /\ ~raising
  /\ \/ cause /\ StartRollback
     \/ ~cause /\ pc' = "finalize" /\ UNCHANGED restore
  /\ UNCHANGED <<store, task, command, result, ghost>>

FinalizeCheckpoint ==
  /\ pc = "finalize" /\ undo = checkpoint
  /\ undo' = Append(Parent(undo), Completed(Newest(undo)))
  /\ pc' = "done"
  /\ IF Transaction
     THEN /\ rollback' = "not-needed"
          /\ outcome' = "committed"
          /\ announced' = completions
          /\ completions' = 0
     ELSE UNCHANGED result
  /\ UNCHANGED <<live, marker, redo, task, command, restore, ghost>>

(* The after-image cannot be captured or written.                            *)
FinalizeFails ==
  /\ pc = "finalize"
  /\ IF Transaction /\ armed
     THEN StartRollback /\ UNCHANGED result
     ELSE /\ pc' = "done"
          /\ IF Transaction
             THEN SettleRollback("not-attempted")
             ELSE rollback' = "not-attempted" /\ UNCHANGED <<outcome, completions, announced>>
          /\ UNCHANGED restore
  /\ UNCHANGED <<store, task, command, ghost>>

\* Slip: the redo stack stays dropped.
DiscardLosingRedo ==
  /\ pc = "discard" /\ undo = checkpoint
  /\ undo' = Parent(checkpoint)
  /\ SettleRollback(IF armed THEN "completed" ELSE "not-needed")
  /\ pc' = "done"
  /\ UNCHANGED <<live, marker, redo, task, command, restore, ghost>>

(* _discard_failed_checkpoint: pop the checkpoint and bring the redo stack    *)
(* back in one ref transaction.                                              *)
DiscardCheckpoint ==
  /\ pc = "discard" /\ undo = checkpoint
  /\ undo' = Parent(checkpoint) /\ redo' = previousRedo
  /\ SettleRollback(IF armed THEN "completed" ELSE "not-needed")
  /\ pc' = "done"
  /\ UNCHANGED <<live, marker, task, command, restore, ghost>>

RollbackFails ==
  /\ task = "operation" /\ pc \in {"restore", "discard"}
  /\ SettleRollback("failed")
  /\ pc' = "done"
  /\ UNCHANGED <<store, task, command, restore, ghost>>

-----------------------------------------------------------------------------
(* restore_checkpoint_state: metadata and repository files, refs in one       *)
(* transaction, index entries, worktree.  A manifest without tracked paths    *)
(* replaces the session and batches directories wholesale: rmtree, then write. *)
RestoreWipe ==
  /\ pc = "restore" /\ stage = "wipe"
  /\ live' = [c \in Cells |-> IF c \in MetaCells THEN Absent ELSE live[c]]
  /\ marker' = FALSE
  /\ stage' = "meta"
  /\ UNCHANGED <<undo, redo, pc, task, command, result, image, whole, target, forced, ghost>>

RestoreMetadata ==
  /\ pc = "restore" /\ stage = "meta"
  /\ live' = Written(image, MetaCells \cup RepoCells)
  /\ marker' = (marker \/ whole)
  /\ stage' = "refs"
  /\ UNCHANGED <<undo, redo, pc, task, command, result, image, whole, target, forced, ghost>>

RestoreRefs ==
  /\ pc = "restore" /\ stage = "refs"
  /\ live' = Written(image, RefCells)
  /\ stage' = "index"
  /\ UNCHANGED <<marker, undo, redo, pc, task, command, result, image, whole, target, forced, ghost>>

RestoreIndex ==
  /\ pc = "restore" /\ stage = "index"
  /\ live' = Written(image, IndexCells)
  /\ stage' = "worktree"
  /\ UNCHANGED <<marker, undo, redo, pc, task, command, result, image, whole, target, forced, ghost>>

RestoreWorktree ==
  /\ pc = "restore" /\ stage = "worktree"
  /\ live' = Written(image, WorkCells)
  /\ stage' = "done"
  /\ pc' = CASE task = "operation" -> "discard"
             [] task = "undo"      -> "pushRedo"
             [] task = "redo"      -> "setUndo"
  /\ UNCHANGED <<marker, undo, redo, task, command, result, image, whole, target, forced, ghost>>

-----------------------------------------------------------------------------
(* undo_last_checkpoint                                                       *)
CheckUndo(force) ==
  /\ pc = "idle" /\ marker
  /\ undo # <<>> /\ Len(redo) < MaxRedo
  /\ UndoConflicts(Newest(undo)) => force
  /\ pc' = "capture" /\ task' = "undo"
  /\ checkpoint' = undo
  /\ forced' = force
  /\ StartHistory
  /\ UNCHANGED <<store, previousRedo, contexts, raising, cause, armed, result,
                 image, whole, stage, target>>

CaptureRedoTarget ==
  /\ pc = "capture"
  /\ target' = Snapshot(RedoOwned(Newest(checkpoint)))
  /\ BeginRestore(Newest(checkpoint).before, Incomplete(Newest(checkpoint)))
  /\ UNCHANGED <<store, task, command, result, forced, ghost>>

\* Slip: the redo node names the checkpoint below the undone one.
PushParent ==
  /\ pc = "pushRedo"
  /\ redo' = Append(redo, [target |-> target, afterUndo |-> Snapshot(DOMAIN target),
                           chain |-> Parent(checkpoint)])
  /\ pc' = "popUndo"
  /\ UNCHANGED <<live, marker, undo, task, command, result, restore, ghost>>

PushRedoNode ==
  /\ pc = "pushRedo"
  /\ redo' = Append(redo, [target |-> target, afterUndo |-> Snapshot(DOMAIN target),
                           chain |-> checkpoint])
  /\ pc' = "popUndo"
  /\ UNCHANGED <<live, marker, undo, task, command, result, restore, ghost>>

PopUndo ==
  /\ pc = "popUndo"
  /\ undo' = Parent(checkpoint)
  /\ pc' = "done"
  /\ UNCHANGED <<live, marker, redo, task, command, result, restore, ghost>>

(* redo_last_checkpoint                                                       *)
CheckRedo(force) ==
  /\ pc = "idle" /\ marker
  /\ redo # <<>>
  /\ Differs(Newest(redo).afterUndo) => force
  /\ task' = "redo"
  /\ forced' = force
  /\ BeginRestore(Newest(redo).target, FALSE)
  /\ StartHistory
  /\ UNCHANGED <<store, command, result, target>>

SetUndo ==
  /\ pc = "setUndo"
  /\ undo' = Newest(redo).chain
  /\ pc' = "popRedo"
  /\ UNCHANGED <<live, marker, redo, task, command, result, restore, ghost>>

PopRedo ==
  /\ pc = "popRedo"
  /\ redo' = Parent(redo)
  /\ pc' = "done"
  /\ UNCHANGED <<live, marker, undo, task, command, result, restore, ghost>>

(* The command ends; the next one starts in a fresh process.                  *)
Return ==
  /\ pc = "done"
  /\ Forget
  /\ UNCHANGED store

(* The process dies anywhere; an exception inside undo or redo, which have no *)
(* handler, ends the same way.                                                *)
Crash ==
  /\ pc \notin {"idle", "done"}
  /\ Forget
  /\ UNCHANGED store

Next ==
  \/ \E c \in IndexCells \cup WorkCells, v \in Values : UserEdit(c, v)
  \/ \E c \in ViewCells, v \in Values : Browse(c, v)
  \/ \E s \in Scopes, tx, deferred \in BOOLEAN :
        OpenCheckpoint(s, tx, deferred) \/ OpenNested(s, tx, deferred)
  \/ \E s \in Scopes, tx \in BOOLEAN : RefuseNested(s, tx)
  \/ ArmRollback
  \/ \E c \in Cells, v \in Values : Mutate(c, v)
  \/ Raise \/ Catch \/ CloseNested \/ DeferCompletion
  \/ CloseWithError \/ CloseNormally
  \/ FinalizeCheckpoint \/ FinalizeFails
  \/ DiscardCheckpoint \/ RollbackFails
  \/ RestoreWipe \/ RestoreMetadata \/ RestoreRefs \/ RestoreIndex \/ RestoreWorktree
  \/ \E force \in BOOLEAN : CheckUndo(force) \/ CheckRedo(force)
  \/ CaptureRedoTarget \/ PushRedoNode \/ PopUndo
  \/ SetUndo \/ PopRedo
  \/ Return \/ Crash

Spec == Init /\ [][Next]_vars
-----------------------------------------------------------------------------
StoreType ==
  /\ live \in [Cells -> Values] /\ marker \in BOOLEAN
  /\ undo \in Chains /\ redo \in Seq(RedoNodes)

ControlType ==
  /\ pc \in {"idle", "body", "finalize", "restore", "discard", "capture", "pushRedo",
             "popUndo", "setUndo", "popRedo", "done"}
  /\ task \in {"none", "operation", "undo", "redo"}

CommandType ==
  /\ checkpoint \in Chains /\ previousRedo \in Seq(RedoNodes)
  /\ contexts \in Seq(Contexts)
  /\ raising \in BOOLEAN /\ cause \in BOOLEAN /\ armed \in BOOLEAN

ResultType ==
  /\ completions \in Nat /\ announced \in Nat
  /\ outcome \in {"pending", "committed", "rolled-back"}
  /\ rollback \in {"not-requested", "pending", "not-needed", "completed", "failed",
                   "not-attempted"}

RestoreType ==
  /\ image \in Images /\ target \in Images
  /\ whole \in BOOLEAN /\ forced \in BOOLEAN
  /\ stage \in {"wipe", "meta", "refs", "index", "worktree", "done"}

GhostType == base \in Images /\ expect \in Images /\ edited \in SUBSET Cells

\* Types of every variable: a ref only ever names a chain of well-formed
\* checkpoints, and an image only cells of the repository.
TypeOK ==
  StoreType /\ ControlType /\ CommandType /\ ResultType /\ RestoreType /\ GhostType

\* A refused transactional command that never armed its rollback
\* (test_unarmed_transaction_refusal_preserves_concurrent_worktree_edit) leaves
\* the repository exactly as its user left it, edits made meanwhile included.
UnarmedWritesNothing ==
  Transaction /\ ~armed => live = expect

\* A completed rollback gives back both stacks and every cell of the before-image
\* the user did not edit meanwhile, and does not touch a cell outside its scope,
\* however its contexts nested and whatever they had published.
RollbackRestores ==
  pc = "done" /\ rollback = "completed" =>
    /\ undo = Parent(checkpoint)
    /\ redo = previousRedo
    /\ \A c \in Cells :
         \/ c \in edited \cap DOMAIN Newest(checkpoint).before
         \/ live[c] = expect[c]

\* While a command is open, everything it has changed so far can be put back from
\* the checkpoint the undo ref already names: a crash here loses nothing that
\* `undo --force` does not restore.
BeforeImageCovers ==
  task = "operation" /\ pc # "done" =>
    /\ undo = checkpoint
    /\ \A c \in Cells : live[c] # expect[c] =>
         /\ c \in DOMAIN Newest(undo).before
         /\ Newest(undo).before[c] = base[c]

\* What the undo of a finalized checkpoint overwrote is what its redo node will
\* write back: nothing but an edit that raced the restore is lost, --force or not.
Recoverable ==
  \A c \in Cells \ edited : live[c] # base[c] =>
    /\ c \in DOMAIN Newest(redo).target
    /\ Newest(redo).target[c] = base[c]

UndoIsRecoverable ==
  pc = "done" /\ task = "undo" /\ ~Incomplete(Newest(checkpoint)) => Recoverable

\* An undo without --force overwrites only values the undone command itself wrote:
\* detect_undo_conflicts refuses in front of anything else, except the selected/
\* view and an edit that raced the restore.
GuardedUndoRevertsOnlyItsCommand ==
  pc = "done" /\ task = "undo" /\ ~forced =>
    \A c \in Cells \ (edited \cup ViewCells) : live[c] # base[c] =>
      /\ base[c] = Newest(checkpoint).after[c]
      /\ live[c] = Newest(checkpoint).before[c]

\* Inside a transaction a success effect runs only after the outermost context
\* committed: the checkpoint is finalized, no nested failure was swallowed.
AnnouncedOnlyIfCommitted ==
  Transaction /\ announced > 0 =>
    /\ pc = "done" /\ outcome = "committed" /\ ~cause
    /\ ~Incomplete(Newest(undo))

\* Catching the error of an armed nested transaction does not let the outer one
\* commit (test_caught_nested_transaction_error_rolls_back_outer_checkpoint).
SwallowedFailureRollsBack ==
  pc = "done" /\ cause => rollback \in {"completed", "failed"}
=============================================================================
