--------------------------- MODULE ObjectPromotion ---------------------------
(***************************************************************************)
(* How the commits of a history rewrite reach the persistent object store. *)
(* They are built in a quarantine, packed, and installed by an index-pack  *)
(* child together with a .keep file, the lease, that shields the pack from *)
(* git gc until a ref names its last commit.  The lease is released by     *)
(* renaming the .keep file to a marker and unlinking the marker, and each  *)
(* of these steps may be the last one of a process that dies.              *)
(*                                                                         *)
(* Only the packs of one lease id, that of one rewrite operation, are ever *)
(* looked at together: every variable is a function of the operation.      *)
(***************************************************************************)
EXTENDS Naturals, FiniteSets

CONSTANTS
  Ops,      \* the operations, each with its own lease id
  Outputs,  \* how many commits an operation builds, a chain 1 .. Outputs
  Packs,    \* the names a pack of these commits can get (a content hash)
  None

ASSUME OutputsAssumption == Outputs \in Nat \ {0}
ASSUME PacksAssumption == None \notin Packs

VARIABLES
  packs,   \* the packs that are in the object directory
  keep,    \* the pack with a .keep file that holds the lease id, or None
  marker,  \* the packs with a .git-stage-batch-released- file
  stored   \* the commits 1 .. stored[op] are readable from the store

objects == <<packs, keep, marker, stored>>

ObjectTypeOK ==
  /\ packs \in [Ops -> SUBSET Packs]
  /\ keep \in [Ops -> Packs \cup {None}]
  /\ marker \in [Ops -> SUBSET Packs]
  /\ stored \in [Ops -> 0 .. Outputs]

ObjectInit ==
  /\ packs = [op \in Ops |-> {}]
  /\ keep = [op \in Ops |-> None]
  /\ marker = [op \in Ops |-> {}]
  /\ stored = [op \in Ops |-> 0]

\* Mutant: index-pack is called without --keep.
InstallUnkept(op, p) ==
  /\ packs' = [packs EXCEPT ![op] = @ \cup {p}]
  /\ stored' = [stored EXCEPT ![op] = Outputs]
  /\ UNCHANGED <<keep, marker>>

\* index-pack reads the pack from pack-objects, stores it under its hash and
\* adds the .keep file.  The same commits need not give the same pack twice.
InstallPack(op, p) ==
  /\ packs' = [packs EXCEPT ![op] = @ \cup {p}]
  /\ keep' = [keep EXCEPT ![op] = p]
  /\ stored' = [stored EXCEPT ![op] = Outputs]
  /\ UNCHANGED marker

\* The leases that abort can take over.  An active one is authenticated with
\* its pack and must agree with the marker there may be; so must a marker.
AdoptableLeases(op) ==
  IF keep[op] # None
    THEN {p \in {keep[op]} : marker[op] \subseteq {p}}
    ELSE {p \in packs[op] : marker[op] = {p}}

NothingToAdopt(op) == keep[op] = None /\ marker[op] = {}

\* The marker of an earlier release of the same pack is unlinked first.
UnlinkPriorMarker(op, p) ==
  /\ keep[op] = p
  /\ p \in marker[op]
  /\ marker' = [marker EXCEPT ![op] = @ \ {p}]
  /\ UNCHANGED <<packs, keep, stored>>

RenameKeep(op, p) ==
  /\ keep[op] = p
  /\ p \notin marker[op]
  /\ keep' = [keep EXCEPT ![op] = None]
  /\ marker' = [marker EXCEPT ![op] = @ \cup {p}]
  /\ UNCHANGED <<packs, stored>>

UnlinkMarker(op, p) ==
  /\ keep[op] # p
  /\ p \in marker[op]
  /\ marker' = [marker EXCEPT ![op] = @ \ {p}]
  /\ UNCHANGED <<packs, keep, stored>>

Released(op, p) == keep[op] # p /\ p \notin marker[op]

\* git gc leaves a pack with a .keep file alone.  Of the rest it copies what
\* is reachable into a pack of its own, and deletes the packs.
CollectGarbage(Reachable(_)) ==
  /\ packs' = [op \in Ops |-> packs[op] \cap {keep[op]}]
  /\ stored' = [op \in Ops |->
       IF keep[op] # None \/ stored[op] <= Reachable(op)
         THEN stored[op] ELSE Reachable(op)]
  /\ UNCHANGED <<keep, marker>>

=============================================================================
