------------------------------- MODULE MCSession -------------------------------
(***************************************************************************)
(* SessionRecovery for TLC.  What the files and the batches hold is only   *)
(* ever copied and compared, so that contents are interchangeable, and so  *)
(* are batch states and paths.                                             *)
(***************************************************************************)
EXTENDS SessionRecovery, TLC

Values == Permutations(Paths) \cup Permutations(Contents) \cup Permutations(BatchStates)

\* The instance is the union of two: several sessions with everything that may
\* happen to one path, or one session and one act with two paths that hold one
\* content or none, so that renames are staged and one path's file is in the
\* other's way.
Everywhere(p) == {head[p], index[p], work[p], mine[p]}
Unused(p)     == Everywhere(p) \cup {origin.head[p], origin.index[p], origin.work[p]} = {None}
InUse         == UNION {Everywhere(p) : p \in Paths} \cap Contents

OneOrTheOther ==
  \/ \E p \in Paths : Unused(p)
  \/ acts <= 1 /\ starts <= 1 /\ Cardinality(InUse) <= 1 /\ batches = origin.batches
=============================================================================
