----------------------------- MODULE UndoHistory -----------------------------
(***************************************************************************)
(* The two stack refs of UndoCheckpoints read as one editor history: the   *)
(* undo stack is the part of the line before the cursor, and the oldest    *)
(* redo node names the checkpoint at the end of the line.                  *)
(***************************************************************************)
EXTENDS UndoCheckpoints

Line(u, r) == IF r = <<>> THEN u ELSE r[1].chain

Running == task = "operation" /\ pc # "done"

History ==
  INSTANCE EditorHistory WITH
    line <- Line(undo, redo),
    pos  <- Len(undo),
    open <- IF Running THEN <<Line(Parent(checkpoint), previousRedo)>> ELSE <<>>

\* Undo and redo work in editor order whatever fails or dies in between: a crash
\* between the two ref updates of undo or of redo never loses a checkpoint, never
\* resurrects one a newer command cut off, and never moves the cursor by two.
InEditorOrder == History!Spec

-----------------------------------------------------------------------------
Prefix(p, l) == Len(p) <= Len(l) /\ p = SubSeq(l, 1, Len(p))

\* Every redo node's checkpoint chain lies on the line, and each node is at most
\* one checkpoint away from the next.
Aligned(u, r) ==
  r # <<>> =>
    /\ Prefix(u, r[1].chain)
    /\ \A i \in 1..Len(r) : r[i].chain # <<>> /\ Prefix(r[i].chain, r[1].chain)
    /\ Len(u) \in {Len(Newest(r).chain), Len(Newest(r).chain) - 1}
    /\ \A i \in 1..Len(r) - 1 :
          Len(r[i + 1].chain) \in {Len(r[i].chain), Len(r[i].chain) - 1}

\* The stacks stay aligned in every reachable state, the states between the two
\* ref updates of undo_last_checkpoint and redo_last_checkpoint included.
StacksAligned == Aligned(undo, redo)

PhaseOfTask ==
  /\ pc = "idle" => task = "none"
  /\ pc \in {"body", "finalize", "discard"} => task = "operation"
  /\ pc \in {"capture", "pushRedo", "popUndo"} => task = "undo"
  /\ pc \in {"setUndo", "popRedo"} => task = "redo"
  /\ pc \in {"restore", "done"} => task \in {"operation", "undo", "redo"}
  /\ pc = "body" => contexts # <<>>

OpenCommand ==
  Running => undo = checkpoint /\ undo # <<>> /\ redo = <<>>
             /\ Aligned(Parent(checkpoint), previousRedo)

OpenUndo ==
  task = "undo" /\ pc # "done" =>
    /\ undo = checkpoint /\ undo # <<>>
    /\ pc = "popUndo" => redo # <<>> /\ Newest(redo).chain = undo

OpenRedo ==
  task = "redo" /\ pc # "done" =>
    /\ redo # <<>>
    /\ pc = "popRedo" => Newest(redo).chain = undo

\* The inductive invariant of the proofs.
HistoryInv == StacksAligned /\ PhaseOfTask /\ OpenCommand /\ OpenUndo /\ OpenRedo
=============================================================================
