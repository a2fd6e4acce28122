----------------------------- MODULE UndoContents -----------------------------
(***************************************************************************)
(* What a running command of UndoCheckpoints knows of its own memory and   *)
(* of the contents of the repository: the invariant from which the proofs  *)
(* about rollback, undo and announcements follow.                          *)
(***************************************************************************)
EXTENDS UndoHistory

Taken  == Newest(checkpoint)
Before == Taken.before

-----------------------------------------------------------------------------
(* Checkpoints                                                                *)

\* A finalized checkpoint compares the cells it restores, and no others.
Matched == {cp \in Checkpoints : ~Incomplete(cp) => DOMAIN cp.after = DOMAIN cp.before}
MatchedNodes == [target : Images, afterUndo : Images, chain : Seq(Matched)]

ChainsMatch ==
  /\ undo \in Seq(Matched) /\ checkpoint \in Seq(Matched)
  /\ redo \in Seq(MatchedNodes) /\ previousRedo \in Seq(MatchedNodes)

-----------------------------------------------------------------------------
(* Control                                                                    *)

\* Only an operation has contexts and what belongs to them.
NoCommand ==
  task # "operation" =>
    contexts = <<>> /\ ~cause /\ announced = 0 /\ rollback = "not-requested"

Holds == task \in {"operation", "undo"} => checkpoint # <<>>

\* Every open context stays inside the outermost one: its scope inside the
\* before-image, its transaction and its arming inside the outer boundary.
ContextsFit ==
  task = "operation" =>
    /\ contexts # <<>>
    /\ \A i \in 1..Len(contexts) :
         /\ contexts[i].scope \subseteq DOMAIN Before
         /\ contexts[i].tx => contexts[1].tx
         /\ contexts[i].armed => armed
         /\ contexts[i].tx \/ contexts[i].armed

\* Which branch of the outermost exit may be taken with which memory.
Branches ==
  task = "operation" =>
    /\ cause => armed /\ Transaction
    /\ pc = "finalize" => ~cause
    /\ pc = "restore" => armed
    /\ pc = "discard" /\ armed => stage = "done"
    /\ pc # "done" => rollback \in {"not-requested", "pending"}
    /\ pc # "done" /\ Transaction => announced = 0

Control == NoCommand /\ Holds /\ ContextsFit /\ Branches

-----------------------------------------------------------------------------
(* Contents                                                                   *)

\* The user's edits are all that sets what is expected apart from the base.
Expected ==
  task # "none" =>
    /\ base \in [Cells -> Values] /\ expect \in [Cells -> Values]
    /\ edited \subseteq IndexCells \cup WorkCells
    /\ \A c \in Cells \ edited : expect[c] = base[c]

\* The before-image is the base, and nothing outside of it was written.
Covered ==
  Running =>
    /\ AutoCells \subseteq DOMAIN Before
    /\ \A c \in DOMAIN Before : Before[c] = base[c]
    /\ \A c \in Cells \ DOMAIN Before : live[c] = expect[c]

Untouched == task = "operation" /\ ~armed => live = expect

\* What the stages of a restore before this one have written.
Restoring ==
  CASE stage \in {"wipe", "meta"} -> {}
    [] stage = "refs"     -> MetaCells \cup RepoCells
    [] stage = "index"    -> MetaCells \cup RepoCells \cup RefCells
    [] stage = "worktree" -> MetaCells \cup RepoCells \cup RefCells \cup IndexCells
    [] stage = "done"     -> Cells

RollingBack ==
  Running /\ (pc = "restore" \/ (pc = "discard" /\ armed)) =>
    /\ image = Before
    /\ \A c \in (DOMAIN Before \cap Restoring) \ edited : live[c] = base[c]

\* An undo writes the before-image of a finalized checkpoint and nothing else, and
\* has captured what it overwrites.
Undoing ==
  task = "undo" /\ ~Incomplete(Taken) =>
    /\ \A c \in Cells \ edited :
         live[c] # base[c] => c \in DOMAIN Before /\ live[c] = Before[c]
    /\ pc = "capture" => \A c \in Cells \ edited : live[c] = base[c]
    /\ pc # "capture" =>
         /\ image = Before /\ ~whole
         /\ DOMAIN target = DOMAIN Before
         /\ \A c \in DOMAIN Before \ edited : target[c] = base[c]
    /\ pc = "restore" => stage # "wipe"
    /\ pc \in {"popUndo", "done"} => redo # <<>> /\ Newest(redo).target = target

\* What the check in front of an undo without --force has established.
Guarded ==
  task = "undo" /\ ~forced =>
    /\ ~Incomplete(Taken)
    /\ \A c \in DOMAIN Taken.after \ ViewCells : base[c] = Taken.after[c]

Contents == Expected /\ Covered /\ Untouched /\ RollingBack /\ Undoing /\ Guarded

\* The inductive invariant of the proofs, with the properties that are steps of
\* their own.
ContentsInv ==
  /\ ChainsMatch /\ Control /\ Contents
  /\ RollbackRestores /\ AnnouncedOnlyIfCommitted /\ SwallowedFailureRollsBack
=============================================================================
