---------------------------- MODULE EditorHistory ----------------------------
(***************************************************************************)
(* What undo and redo promise (docs/commands.md, "Multiple undo/redo works *)
(* in editor order"): one line of commands with a cursor.  The commands    *)
(* before the cursor are done, those after it are undone.  A new command   *)
(* cuts the undone ones off, and a command that fails puts them back;      *)
(* undo and redo move the cursor by one and change nothing else.           *)
(***************************************************************************)
EXTENDS Naturals, Sequences

VARIABLES
  line,   \* the commands, oldest first
  pos,    \* how many of them are done
  open    \* <<the line before the command now running>>, or <<>> when none is

histVars == <<line, pos, open>>

Done == SubSeq(line, 1, pos)

Init == line = <<>> /\ pos = 0 /\ open = <<>>

\* A command starts: it is the newest entry, and nothing is left to redo.
Start ==
  /\ open = <<>>
  /\ pos' = pos + 1 /\ Len(line') = pos + 1
  /\ SubSeq(line', 1, pos) = Done
  /\ open' = <<line>>

\* It ends well: its own entry may be rewritten, no other.
Finish ==
  /\ open # <<>> /\ pos > 0
  /\ pos' = pos /\ Len(line') = pos
  /\ SubSeq(line', 1, pos - 1) = SubSeq(line, 1, pos - 1)
  /\ open' = <<>>

\* It fails and is rolled back: the line is what it was.
Cancel ==
  /\ open # <<>> /\ pos > 0
  /\ pos' = pos - 1
  /\ <<line'>> = open
  /\ open' = <<>>

\* It is interrupted: its entry stays, so that it can be undone.
Interrupt ==
  /\ open # <<>>
  /\ open' = <<>>
  /\ UNCHANGED <<line, pos>>

Back ==
  /\ open = <<>> /\ pos > 0
  /\ pos' = pos - 1
  /\ UNCHANGED <<line, open>>

Forward ==
  /\ open = <<>> /\ pos < Len(line)
  /\ pos' = pos + 1
  /\ UNCHANGED <<line, open>>

Next == Start \/ Finish \/ Cancel \/ Interrupt \/ Back \/ Forward

Spec == Init /\ [][Next]_histVars
=============================================================================
