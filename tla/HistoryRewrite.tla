--------------------------- MODULE HistoryRewrite ---------------------------
(***************************************************************************)
(* What the rewrite commands promise, seen from the branch: one operation  *)
(* at a time replaces the history it was planned for in a single step, or  *)
(* puts it back in a single step, and ends saying which of the two it did. *)
(* Whatever else moves the branch is left alone, and once an abort was     *)
(* asked for the new history is not brought out again.                     *)
(***************************************************************************)
CONSTANTS
  Ops,
  Commits,      \* every commit a branch can name
  Rewritten(_), \* the last commit of an operation's new history
  None

VARIABLES
  branch,    \* the commit the branch names
  original,  \* the history an operation was planned for
  outcome,   \* "none", "open", "restoring", "complete" or "aborted"
  shown,     \* the operations whose new history the branch has named
  returned   \* those whose original the branch has named while restoring

vars == <<branch, original, outcome, shown, returned>>

Underway(op) == outcome[op] \in {"open", "restoring"}

Init ==
  /\ branch \in Commits
  /\ original = [op \in Ops |-> None]
  /\ outcome = [op \in Ops |-> "none"]
  /\ shown = {}
  /\ returned = {}

\* What the branch has named is recorded with every step that changes it.
Observe ==
  /\ shown' = shown \cup {op \in Ops : branch' = Rewritten(op)}
  /\ returned' = returned \cup
       {op \in Ops : outcome'[op] = "restoring" /\ branch' = original'[op]}

Open(op) ==
  /\ outcome[op] = "none"
  /\ \A other \in Ops : ~Underway(other)
  /\ outcome' = [outcome EXCEPT ![op] = "open"]
  /\ \E c \in Commits : original' = [original EXCEPT ![op] = c]
  /\ UNCHANGED <<branch, shown, returned>>

Publish(op) ==
  /\ outcome[op] = "open"
  /\ branch = original[op]
  /\ branch' = Rewritten(op)
  /\ UNCHANGED <<original, outcome>>
  /\ Observe

AskForOriginal(op) ==
  /\ outcome[op] = "open"
  /\ outcome' = [outcome EXCEPT ![op] = "restoring"]
  /\ UNCHANGED <<branch, original>>
  /\ Observe

Restore(op) ==
  /\ outcome[op] = "restoring"
  /\ branch = Rewritten(op)
  /\ branch' = original[op]
  /\ UNCHANGED <<original, outcome>>
  /\ Observe

Complete(op) ==
  /\ outcome[op] = "open"
  /\ op \in shown
  /\ outcome' = [outcome EXCEPT ![op] = "complete"]
  /\ UNCHANGED <<branch, original, shown, returned>>

Abandon(op) ==
  /\ outcome[op] = "restoring"
  /\ op \in returned
  /\ outcome' = [outcome EXCEPT ![op] = "aborted"]
  /\ UNCHANGED <<branch, original, shown, returned>>

\* The user, or another git process, moves the branch.
MoveBranch ==
  /\ branch' \in Commits
  /\ UNCHANGED <<original, outcome>>
  /\ Observe

Next ==
  \/ \E op \in Ops :
       Open(op) \/ Publish(op) \/ AskForOriginal(op) \/ Restore(op)
         \/ Complete(op) \/ Abandon(op)
  \/ MoveBranch

Spec == Init /\ [][Next]_vars

=============================================================================
