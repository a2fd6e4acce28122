------------------------------ MODULE MCSelection ------------------------------
(***************************************************************************)
(* ReviewedSelection for TLC.  Nothing tells one path from another, nor    *)
(* one text: both are only copied and compared.                            *)
(***************************************************************************)
EXTENDS ReviewedSelection, TLC

Symmetry == Permutations(Paths) \cup Permutations(Texts)

\* One change by the user or one death, anywhere in a behaviour.
OneAccident == edits + deaths <= 1
===============================================================================
