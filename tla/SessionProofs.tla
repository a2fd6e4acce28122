---------------------------- MODULE SessionProofs ----------------------------
(***************************************************************************)
(* For every set of paths, contents and batch states and every bound: what *)
(* `start` records of the repository, what no step of the session loses of *)
(* it, and what the ends of a session, abort and stop, give back.          *)
(***************************************************************************)
EXTENDS SessionRecovery, TLAPS

\* Where each command is, and when the session is active.
Control ==
  /\ task = "none" <=> pc = "idle"
  /\ task = "start" => pc \in BeforeMarker \cup AfterMarker \cup Clearing
  /\ task = "stop" => pc \in Stopping \cup Clearing
  /\ task = "abort" => pc \in {"abortCheck"} \cup Restoring \cup Clearing
  /\ task = "start" /\ pc \in BeforeMarker => ~Active
  /\ task = "start" /\ pc \in AfterMarker => Active
  /\ task = "abort" /\ pc \notin Clearing => Active
  /\ task = "abort" /\ pc \in Restoring => dir.batches # Missing

\* `git stash create` sees an index without intents.
Stashable ==
  /\ pc = "dropNewIntents" => \A p \in Paths : index[p] = IntentToAdd => p \in intents
  /\ pc = "resetTrackedIntents" =>
       \A p \in Paths : index[p] = IntentToAdd => p \in intents /\ head[p] # None
  /\ pc = "createStash" => index \in Tree

Typed == TypeOK /\ Control /\ Stashable

-----------------------------------------------------------------------------
OriginIntents == {p \in Paths : origin.index[p] = IntentToAdd}
OriginStash   == StashOf(origin.head, Normalized, origin.work)

\* Until the session is claimed `start` changes intents only, to no more than
\* what HEAD has, and it knows which ones; when it clears what it did, those
\* that it could not put back are the only ones missing.
Opening ==
  task = "start" /\ pc \in BeforeMarker \cup {"claim", "noteRenames"} \cup Clearing =>
    /\ head = origin.head /\ work = origin.work /\ batches = origin.batches
    /\ mine = origin.work
    /\ \A p \in Paths \ OriginIntents : index[p] = origin.index[p]
    /\ \A p \in OriginIntents : index[p] \in {IntentToAdd, None, origin.head[p]}
    /\ pc \notin Clearing => unrestored = {}
    /\ pc \in Clearing => \A p \in OriginIntents : p \in unrestored <=> index[p] # IntentToAdd
    /\ pc \notin Clearing \cup {"resetTrackedIntents", "createStash", "unsetIntents",
                                "setIntents"} => index = origin.index
    /\ unrestored \subseteq OriginIntents
    /\ pc \in {"dropNewIntents", "resetTrackedIntents", "createStash", "unsetIntents",
               "setIntents"} => intents = OriginIntents
    /\ pc = "resetTrackedIntents" =>
         \A p \in OriginIntents : head[p] = None => index[p] = None
    /\ pc = "createStash" => index = Normalized
    /\ pc \in {"unsetIntents", "setIntents", "saveStash"} /\ ~raising => hash = OriginStash
    /\ pc \in {"saveStash", "saveBatches", "anchor", "recordAnchors", "publish"} => ~raising

\* What the session directory holds before the session is active.
Prepared ==
  ~stale /\ task = "start" /\ pc \in BeforeMarker =>
    /\ dir.renames = {}
    /\ pc = "copyIntents" => dir = EmptyDir
    /\ pc # "copyIntents" => dir.ita = OriginIntents
    /\ pc \in {"saveBatches", "anchor", "recordAnchors", "publish"} => dir.stash = OriginStash
    /\ pc \in {"anchor", "recordAnchors", "publish"} => dir.batches = origin.batches
    /\ pc = "recordAnchors" \/ dir.anchors => anchored

\* Without leftovers of a crash a directory without head.txt is no directory.
Swept ==
  ~stale =>
    /\ ~Active /\ task = "none" => dir = EmptyDir
    /\ task \in {"stop", "abort"} => Active

Recorded ==
  Active /\ ~stale =>
    /\ dir.marker = origin.head
    /\ dir.stash = OriginStash
    /\ dir.batches = origin.batches
    /\ dir.ita = OriginIntents
    /\ pc # "removeDirectory" => (dir.anchors => anchored)

Copied ==
  ~stale =>
    \A p \in dir.list :
      /\ dir.copies[p] # None
      /\ p \notin copied \cup created \cup exposed => dir.copies[p] = mine[p]

\* The files that were not tracked when the session began and that nothing
\* was done with: they are as the user left them, and only automatic
\* additions have an index entry.
Spared == Paths \ (Owned \cup dir.list \cup exposed \cup created)

LeftAlone ==
  Active /\ ~stale =>
    /\ \A p \in Spared : head[p] = None /\ work[p] = mine[p]
    /\ \A p \in Spared : index[p] # None => p \in dir.autoAdded
    /\ \A p \in Spared : pc = "resetHard" => index[p] = None
    /\ \A r \in dir.renames : r.new \in Owned
    /\ pc = "addUntracked" => Untracked \subseteq dir.autoAdded /\ todo \subseteq Untracked
    /\ pc = "restoreCopies" => todo \subseteq dir.list
    /\ task = "abort" /\ pc \in {"unsetIntents", "setIntents"} => intents = OriginIntents

Recovery == Opening /\ Prepared /\ Swept /\ Recorded /\ Copied /\ LeftAlone

-----------------------------------------------------------------------------
(* What git's operators and the records of session/ return.                *)

LEMMA RealType ==
  ASSUME NEW i \in Index, NEW p \in Paths
  PROVE  Real(i[p]) \in Contents \cup {None}
BY DEF Index, Real

LEMMA TreeIsIndex == Tree \subseteq Index
BY DEF Tree, Index

LEMMA StashType ==
  ASSUME NEW h \in Tree, NEW i \in Tree, NEW w \in Tree
  PROVE  StashOf(h, i, w) \in [index : Tree, work : Tree] \cup {NoStash}
BY DEF StashOf, Tree

LEMMA CopiesType ==
  ASSUME NEW d \in Dirs, NEW S \in SUBSET Paths, work \in Tree
  PROVE  WithCopies(d, S) \in Dirs
BY DEF WithCopies, Dirs, Tree

LEMMA EmptyDirType == EmptyDir \in Dirs
BY DEF EmptyDir, Dirs, NoCopies, Tree

LEMMA TornType ==
  ASSUME dir \in Dirs, NEW kept
  PROVE  Torn(kept) \in Dirs
BY EmptyDirType DEF Torn, Dirs
-----------------------------------------------------------------------------
(* Types.                                                                  *)

LEMMA ResetPathsType ==
  ASSUME head \in Tree, index \in Index, NEW S
  PROVE  ResetPaths(S) \in Index
BY DEF ResetPaths, Tree, Index

LEMMA ResetHardType ==
  ASSUME work \in Tree, NEW tree \in Tree
  PROVE  ResetHardWork(tree) \in Tree
BY DEF ResetHardWork, Tree

LEMMA WithIntentsType ==
  ASSUME index \in Index, NEW S
  PROVE  WithIntents(S) \in Index
BY DEF WithIntents, Index

LEMMA ShownType ==
  ASSUME index \in Index, NEW p \in Paths
  PROVE  Shown(p) \in Index
BY WithIntentsType DEF Shown

LEMMA ListedType ==
  ASSUME dir \in Dirs, NEW p \in Paths
  PROVE  Listed(p) \in Dirs
BY DEF Listed, Dirs

LEMMA RenamesType == StagedRenames \in SUBSET [old : Paths, new : Paths, blob : Contents]
BY DEF StagedRenames

LEMMA RenamesOfDir ==
  ASSUME dir \in Dirs
  PROVE  \A r \in dir.renames : r.old \in Paths /\ r.new \in Paths /\ r.blob \in Contents
BY DEF Dirs

LEMMA CopyFirstType ==
  ASSUME NEW d \in Dirs, work \in Tree, NEW i, NEW p \in Paths
  PROVE  CopyFirst(d, i, p) \in Dirs
BY CopiesType DEF CopyFirst

LEMMA TypeStep == Typed /\ [Next]_vars => TypeOK'
<1> SUFFICES ASSUME Typed, [Next]_vars PROVE TypeOK'
  OBVIOUS
<1> USE NullAssumption, FileAssumption
<1> USE DEF Typed, TypeOK, Labels, BeforeMarker, AfterMarker, Stopping, Restoring, Clearing,
           Goto, Exit, Idle, Active, repo, memory, ghosts, counts
<1>1. CASE Start
  <2>1. origin' \in [head : Tree, index : Index, work : Tree, batches : BatchStates]
    BY <1>1 DEF Start, Snapshot
  <2>2. starts' \in 0..MaxStarts
    BY <1>1, BoundAssumption DEF Start
  <2> QED BY <1>1, <2>1, <2>2 DEF Start
<1>2. CASE Stop
  BY <1>2 DEF Stop
<1>3. CASE Abort
  BY <1>3 DEF Abort
<1>4. CASE CopyIntents
  <2>1. Intents \in SUBSET Paths /\ Uncopied(Intents) \in SUBSET Paths
    BY DEF Intents, Uncopied
  <2>2. WithCopies(dir, Uncopied(Intents)) \in Dirs
    BY <1>4, <2>1, CopiesType
  <2>3. dir' \in Dirs
    BY <1>4, <2>1, <2>2 DEF CopyIntents, Dirs
  <2> QED BY <1>4, <2>1, <2>2, <2>3 DEF CopyIntents
<1>5. CASE DropNewIntents
  <2>1. index' \in Index
    BY <1>5 DEF DropNewIntents, Index
  <2> QED BY <1>5, <2>1 DEF DropNewIntents
<1>6. CASE ResetTrackedIntents
  <2>1. index' \in Index
    BY <1>6, ResetPathsType DEF ResetTrackedIntents
  <2> QED BY <1>6, <2>1 DEF ResetTrackedIntents
<1>7. CASE CreateStash
  <2>1. hash' \in [index : Tree, work : Tree] \cup {NoStash}
    BY <1>7, StashType DEF CreateStash, Stashable
  <2> QED BY <1>7, <2>1 DEF CreateStash
<1>8. CASE UnsetIntents
  <2>1. index' \in Index
    BY <1>8 DEF UnsetIntents, Index
  <2> QED BY <1>8, <2>1 DEF UnsetIntents
<1>9. CASE SetIntents
  <2>1. index' \in Index
    BY <1>9 DEF SetIntents, Index
  <2> QED BY <1>9, <2>1 DEF SetIntents
<1>10. CASE SaveStash
  <2>1. dir' \in Dirs
    BY <1>10 DEF SaveStash, Dirs
  <2> QED BY <1>10, <2>1 DEF SaveStash
<1>11. CASE SaveBatches
  <2>1. dir' \in Dirs
    BY <1>11 DEF SaveBatches, Dirs
  <2> QED BY <1>11, <2>1 DEF SaveBatches
<1>12. CASE Anchor
  BY <1>12 DEF Anchor
<1>13. CASE RecordAnchors
  <2>1. dir' \in Dirs
    BY <1>13 DEF RecordAnchors, Dirs
  <2> QED BY <1>13, <2>1 DEF RecordAnchors
<1>14. CASE Publish
  <2>1. dir' \in Dirs
    BY <1>14 DEF Publish, Dirs
  <2> QED BY <1>14, <2>1 DEF Publish
<1>15. CASE Claim
  BY <1>15 DEF Claim
<1>16. CASE NoteRenames
  <2>1. dir' \in Dirs
    BY <1>16, RenamesType DEF NoteRenames, Dirs
  <2> QED BY <1>16, <2>1 DEF NoteRenames
<1>17. CASE ResetRenames
  <2>1. index' \in Index
    BY <1>17, ResetPathsType DEF ResetRenames
  <2> QED BY <1>17, <2>1 DEF ResetRenames
<1>18. CASE NoteDeletions
  <2>1. StagedDeletions \in SUBSET Paths
    BY DEF StagedDeletions
  <2>2. dir' \in Dirs
    BY <1>18, <2>1 DEF NoteDeletions, Dirs
  <2> QED BY <1>18, <2>1, <2>2 DEF NoteDeletions
<1>19. CASE ResetDeletions
  <2>1. index' \in Index
    BY <1>19, ResetPathsType DEF ResetDeletions
  <2> QED BY <1>19, <2>1 DEF ResetDeletions
<1>20. CASE ListUntracked
  <2>1. Untracked \in SUBSET Paths
    BY DEF Untracked
  <2>2. dir' \in Dirs
    BY <1>20, <2>1 DEF ListUntracked, Dirs
  <2>3. todo' \in SUBSET Paths
    BY <1>20, <2>1 DEF ListUntracked
  <2> QED BY <1>20, <2>1, <2>2, <2>3 DEF ListUntracked
<1>21. CASE AddUntracked
  <2>1. index' \in Index
    BY <1>21, WithIntentsType DEF AddUntracked
  <2>2. dir' \in Dirs
    BY <1>21 DEF AddUntracked, Dirs
  <2> QED BY <1>21, <2>1, <2>2 DEF AddUntracked
<1>22. CASE Fetch
  BY <1>22 DEF Fetch
<1>23. CASE StartFails
  <2>1. pc' \in Labels /\ task' \in {"start", "abort"}
    BY <1>23 DEF StartFails, Handler
  <2> QED BY <1>23, <2>1 DEF StartFails
<1>45. CASE RestorationFails
  <2>1. index' \in Index
    BY <1>45, WithIntentsType DEF RestorationFails
  <2>2. unrestored' \in SUBSET Paths
    BY <1>45 DEF RestorationFails
  <2> QED BY <1>45, <2>1, <2>2 DEF RestorationFails
<1>24. CASE ResetAutoAdded
  <2>1. index' \in Index
    BY <1>24, ResetPathsType DEF ResetAutoAdded
  <2> QED BY <1>24, <2>1 DEF ResetAutoAdded
<1>25. CASE RestoreRenames
  <2>1. index' \in Index
    BY <1>25, RenamesOfDir DEF RestoreRenames, Index
  <2> QED BY <1>25, <2>1 DEF RestoreRenames
<1>26. CASE RestoreDeletions
  <2>1. index' \in Index
    BY <1>26 DEF RestoreDeletions, Index
  <2> QED BY <1>26, <2>1 DEF RestoreDeletions
<1>27. CASE ClearHistory
  BY <1>27 DEF ClearHistory
<1>28. CASE RemoveDirectory
  <2>1. dir' \in Dirs
    BY <1>28, EmptyDirType DEF RemoveDirectory
  <2> QED BY <1>28, <2>1 DEF RemoveDirectory
<1>29. CASE AbortCheck
  BY <1>29 DEF AbortCheck
<1>30. CASE DropAutoAdded
  <2>1. index' \in Index
    BY <1>30, ResetPathsType DEF DropAutoAdded
  <2> QED BY <1>30, <2>1 DEF DropAutoAdded
<1>31. CASE ResetHard
  <2>1. dir.marker \in Tree
    BY <1>31 DEF ResetHard, Control, Dirs
  <2>2. work' \in Tree
    BY <1>31, <2>1, ResetHardType DEF ResetHard
  <2>3. head' \in Tree /\ index' \in Index
    BY <1>31, <2>1, TreeIsIndex DEF ResetHard
  <2> QED BY <1>31, <2>1, <2>2, <2>3 DEF ResetHard
<1>32. CASE DropRenameTargets
  <2>1. work' \in Tree
    BY <1>32 DEF DropRenameTargets, Tree
  <2> QED BY <1>32, <2>1 DEF DropRenameTargets
<1>33. CASE ApplyStash
  <2>1. dir.stash \in [index : Tree, work : Tree] \cup {Missing, NoStash}
    BY DEF Dirs
  <2>2. index' \in Index
    BY <1>33, <2>1 DEF ApplyStash, Tree, Index
  <2>3. work' \in Tree
    BY <1>33, <2>1 DEF ApplyStash, Tree
  <2>4. dir.list \in SUBSET Paths
    BY DEF Dirs
  <2> QED BY <1>33, <2>1, <2>2, <2>3, <2>4 DEF ApplyStash
<1>34. CASE RestoreCopies
  <2>1. dir.copies \in Tree /\ dir.ita \in SUBSET Paths
    BY DEF Dirs
  <2>2. work' \in Tree
    BY <1>34, <2>1 DEF RestoreCopies, Tree
  <2>3. todo' \in SUBSET Paths /\ intents' \in SUBSET Paths
    BY <1>34, <2>1 DEF RestoreCopies
  <2> QED BY <1>34, <2>1, <2>2, <2>3 DEF RestoreCopies
<1>35. CASE RestoreBatches
  <2>1. dir.batches \in BatchStates
    BY <1>35 DEF RestoreBatches, Control, Dirs
  <2> QED BY <1>35, <2>1 DEF RestoreBatches
<1>36. CASE Again
  <2>1. index' \in Index
    BY <1>36, WithIntentsType DEF Again
  <2>2. Untracked \in SUBSET Paths
    BY DEF Untracked
  <2>3. dir' \in Dirs
    BY <1>36, <2>2 DEF Again, Dirs
  <2>4. acts' \in 0..MaxActs
    BY <1>36, BoundAssumption DEF Again, Command, Acts
  <2> QED BY <1>36, <2>1, <2>2, <2>3, <2>4 DEF Again, Command, Acts
<1>37. CASE Commit
  <2>1. head' \in Tree
    BY <1>37, RealType DEF Commit, Tree
  <2>2. exposed' \in SUBSET Paths
    BY <1>37 DEF Commit
  <2>3. acts' \in 0..MaxActs
    BY <1>37, BoundAssumption DEF Commit, UserActs, Acts
  <2> QED BY <1>37, <2>1, <2>2, <2>3 DEF Commit, UserActs, Acts
<1>38. CASE Crash
  <2>1. dir' \in Dirs
    BY <1>38, TornType DEF Crash
  <2>2. crashes' \in 0..MaxCrashes
    BY <1>38, BoundAssumption DEF Crash
  <2> QED BY <1>38, <2>1, <2>2 DEF Crash
<1>39. CASE UNCHANGED vars
  BY <1>39 DEF vars
<1>40. ASSUME NEW p \in Paths, Include(p) PROVE TypeOK'
  <2>1. index' \in Index
    BY <1>40 DEF Include, Index, Tree
  <2>2. dir' \in Dirs
    BY <1>40, ListedType DEF Include
  <2>3. acts' \in 0..MaxActs
    BY <1>40, BoundAssumption DEF Include, Command, Acts
  <2> QED BY <1>40, <2>1, <2>2, <2>3 DEF Include, Command, Acts
<1>41. ASSUME NEW p \in Paths, Discard(p) PROVE TypeOK'
  <2>1. Shown(p) \in Index
    BY <1>41, ShownType
  <2>2. Real(Shown(p)[p]) \in Contents \cup {None}
    BY <1>41, <2>1, RealType
  <2>3. index' \in Index /\ work' \in Tree
    BY <1>41, <2>2 DEF Discard, Index, Tree
  <2>4. Listed(p) \in Dirs
    BY <1>41, ListedType
  <2>5. dir' \in Dirs
    BY <1>41, <2>1, <2>4, CopyFirstType DEF Discard
  <2>6. exposed' \in SUBSET Paths /\ copied' \in SUBSET Paths
    BY <1>41, <2>5 DEF Discard, NoteCopy, NoteLoss, Owned
  <2>7. acts' \in 0..MaxActs
    BY <1>41, BoundAssumption DEF Discard, Command, Acts
  <2> QED BY <1>41, <2>1, <2>2, <2>3, <2>4, <2>5, <2>6, <2>7 DEF Discard, Command, Acts
<1>42. ASSUME NEW p \in Paths, NEW v \in Contents, Apply(p, v) PROVE TypeOK'
  <2>1. work' \in Tree
    BY <1>42 DEF Apply, Tree
  <2>2. dir' \in Dirs
    BY <1>42, CopyFirstType DEF Apply
  <2>3. exposed' \in SUBSET Paths /\ copied' \in SUBSET Paths /\ created' \in SUBSET Paths
    BY <1>42 DEF Apply, NoteCopy, NoteLoss, Owned
  <2>4. acts' \in 0..MaxActs
    BY <1>42, BoundAssumption DEF Apply, Command, Acts
  <2> QED BY <1>42, <2>1, <2>2, <2>3, <2>4 DEF Apply, Command, Acts
<1>43. ASSUME NEW b \in BatchStates, ChangeBatch(b) PROVE TypeOK'
  <2>1. acts' \in 0..MaxActs
    BY <1>43, BoundAssumption DEF ChangeBatch, Command, Acts
  <2> QED BY <1>43, <2>1 DEF ChangeBatch, Command, Acts
<1>44. ASSUME NEW p \in Paths, NEW v \in Contents \cup {None}, Edit(p, v) PROVE TypeOK'
  <2>1. work' \in Tree /\ mine' \in Tree
    BY <1>44 DEF Edit, Tree
  <2>2. acts' \in 0..MaxActs
    BY <1>44, BoundAssumption DEF Edit, UserActs, Acts
  <2> QED BY <1>44, <2>1, <2>2 DEF Edit, UserActs, Acts
<1> QED
  BY <1>1, <1>2, <1>3, <1>4, <1>5, <1>6, <1>7, <1>8, <1>9, <1>10, <1>11, <1>12, <1>13,
     <1>14, <1>15, <1>16, <1>17, <1>18, <1>19, <1>20, <1>21, <1>22, <1>23, <1>24, <1>25, <1>26,
     <1>27, <1>28, <1>29, <1>30, <1>31, <1>32, <1>33, <1>34, <1>35, <1>36, <1>37, <1>38, <1>39,
     <1>40, <1>41, <1>42, <1>43, <1>44, <1>45
  DEF Next, StartStep, StopStep, AbortStep, CommandStep, UserStep

LEMMA ControlStep == Typed /\ [Next]_vars => Control'
<1> SUFFICES ASSUME Typed, [Next]_vars PROVE Control'
  OBVIOUS
<1> USE NullAssumption, FileAssumption
<1> USE DEF Typed, TypeOK, Control, Labels, BeforeMarker, AfterMarker, Stopping, Restoring,
           Clearing,
           Goto, Exit, Idle, Active, repo, memory, ghosts, counts
<1>1. CASE Start
  BY <1>1 DEF Start
<1>2. CASE Stop
  BY <1>2 DEF Stop
<1>3. CASE Abort
  BY <1>3 DEF Abort
<1>4. CASE CopyIntents
  <2>1. dir'.marker = dir.marker /\ dir'.batches = dir.batches
    BY <1>4 DEF CopyIntents, Dirs, WithCopies
  <2> QED BY <1>4, <2>1 DEF CopyIntents
<1>5. CASE DropNewIntents
  BY <1>5 DEF DropNewIntents
<1>6. CASE ResetTrackedIntents
  BY <1>6 DEF ResetTrackedIntents
<1>7. CASE CreateStash
  BY <1>7 DEF CreateStash
<1>8. CASE UnsetIntents
  BY <1>8 DEF UnsetIntents
<1>9. CASE SetIntents
  BY <1>9 DEF SetIntents
<1>10. CASE SaveStash
  <2>1. dir'.marker = dir.marker /\ dir'.batches = dir.batches
    BY <1>10 DEF SaveStash, Dirs
  <2> QED BY <1>10, <2>1 DEF SaveStash
<1>11. CASE SaveBatches
  <2>1. dir'.marker = dir.marker
    BY <1>11 DEF SaveBatches, Dirs
  <2> QED BY <1>11, <2>1 DEF SaveBatches
<1>12. CASE Anchor
  BY <1>12 DEF Anchor
<1>13. CASE RecordAnchors
  <2>1. dir'.marker = dir.marker /\ dir'.batches = dir.batches
    BY <1>13 DEF RecordAnchors, Dirs
  <2> QED BY <1>13, <2>1 DEF RecordAnchors
<1>14. CASE Publish
  <2>1. dir'.marker = head
    BY <1>14 DEF Publish, Dirs
  <2> QED BY <1>14, <2>1 DEF Publish
<1>15. CASE Claim
  BY <1>15 DEF Claim
<1>16. CASE NoteRenames
  <2>1. dir'.marker = dir.marker /\ dir'.batches = dir.batches
    BY <1>16 DEF NoteRenames, Dirs
  <2> QED BY <1>16, <2>1 DEF NoteRenames
<1>17. CASE ResetRenames
  BY <1>17 DEF ResetRenames
<1>18. CASE NoteDeletions
  <2>1. dir'.marker = dir.marker /\ dir'.batches = dir.batches
    BY <1>18 DEF NoteDeletions, Dirs
  <2> QED BY <1>18, <2>1 DEF NoteDeletions
<1>19. CASE ResetDeletions
  BY <1>19 DEF ResetDeletions
<1>20. CASE ListUntracked
  <2>1. dir'.marker = dir.marker /\ dir'.batches = dir.batches
    BY <1>20 DEF ListUntracked, Dirs
  <2> QED BY <1>20, <2>1 DEF ListUntracked
<1>21. CASE AddUntracked
  <2>1. dir'.marker = dir.marker /\ dir'.batches = dir.batches
    BY <1>21 DEF AddUntracked, Dirs
  <2> QED BY <1>21, <2>1 DEF AddUntracked
<1>22. CASE Fetch
  BY <1>22 DEF Fetch
<1>23. CASE StartFails
  BY <1>23 DEF StartFails, Handler
<1>45. CASE RestorationFails
  BY <1>45 DEF RestorationFails
<1>24. CASE ResetAutoAdded
  BY <1>24 DEF ResetAutoAdded
<1>25. CASE RestoreRenames
  BY <1>25 DEF RestoreRenames
<1>26. CASE RestoreDeletions
  BY <1>26 DEF RestoreDeletions
<1>27. CASE ClearHistory
  BY <1>27 DEF ClearHistory
<1>28. CASE RemoveDirectory
  BY <1>28 DEF RemoveDirectory
<1>29. CASE AbortCheck
  BY <1>29 DEF AbortCheck, Recoverable
<1>30. CASE DropAutoAdded
  BY <1>30 DEF DropAutoAdded
<1>31. CASE ResetHard
  BY <1>31 DEF ResetHard
<1>32. CASE DropRenameTargets
  BY <1>32 DEF DropRenameTargets
<1>33. CASE ApplyStash
  BY <1>33 DEF ApplyStash
<1>34. CASE RestoreCopies
  BY <1>34 DEF RestoreCopies
<1>35. CASE RestoreBatches
  BY <1>35 DEF RestoreBatches
<1>36. CASE Again
  BY <1>36 DEF Again, Command, Acts
<1>37. CASE Commit
  BY <1>37 DEF Commit, UserActs, Acts
<1>38. CASE Crash
  BY <1>38 DEF Crash
<1>39. CASE UNCHANGED vars
  BY <1>39 DEF vars
<1>40. ASSUME NEW p \in Paths, Include(p) PROVE Control'
  BY <1>40 DEF Include, Command, Acts
<1>41. ASSUME NEW p \in Paths, Discard(p) PROVE Control'
  BY <1>41 DEF Discard, Command, Acts
<1>42. ASSUME NEW p \in Paths, NEW v \in Contents, Apply(p, v) PROVE Control'
  BY <1>42 DEF Apply, Command, Acts
<1>43. ASSUME NEW b \in BatchStates, ChangeBatch(b) PROVE Control'
  BY <1>43 DEF ChangeBatch, Command, Acts
<1>44. ASSUME NEW p \in Paths, NEW v \in Contents \cup {None}, Edit(p, v) PROVE Control'
  BY <1>44 DEF Edit, UserActs, Acts
<1> QED
  BY <1>1, <1>2, <1>3, <1>4, <1>5, <1>6, <1>7, <1>8, <1>9, <1>10, <1>11, <1>12, <1>13,
     <1>14, <1>15, <1>16, <1>17, <1>18, <1>19, <1>20, <1>21, <1>22, <1>23, <1>24, <1>25, <1>26,
     <1>27, <1>28, <1>29, <1>30, <1>31, <1>32, <1>33, <1>34, <1>35, <1>36, <1>37, <1>38, <1>39,
     <1>40, <1>41, <1>42, <1>43, <1>44, <1>45
  DEF Next, StartStep, StopStep, AbortStep, CommandStep, UserStep

LEMMA StashableStep == Typed /\ [Next]_vars => Stashable'
<1> SUFFICES ASSUME Typed, [Next]_vars PROVE Stashable'
  OBVIOUS
<1> USE NullAssumption, FileAssumption
<1> USE DEF Typed, TypeOK, Stashable, Control, Labels, BeforeMarker, AfterMarker, Stopping,
           Restoring, Clearing,
           Goto, Exit, Idle, Active, repo, memory, ghosts, counts
<1>1. CASE Start
  BY <1>1 DEF Start
<1>2. CASE Stop
  BY <1>2 DEF Stop
<1>3. CASE Abort
  BY <1>3 DEF Abort
<1>4. CASE CopyIntents
  BY <1>4 DEF CopyIntents, Intents
<1>5. CASE DropNewIntents
  BY <1>5 DEF DropNewIntents
<1>6. CASE ResetTrackedIntents
  <2>1. index' \in Tree
    BY <1>6 DEF ResetTrackedIntents, ResetPaths, Index, Tree
  <2> QED BY <1>6, <2>1 DEF ResetTrackedIntents
<1>7. CASE CreateStash
  BY <1>7 DEF CreateStash
<1>8. CASE UnsetIntents
  BY <1>8 DEF UnsetIntents
<1>9. CASE SetIntents
  BY <1>9 DEF SetIntents
<1>10. CASE SaveStash
  BY <1>10 DEF SaveStash
<1>11. CASE SaveBatches
  BY <1>11 DEF SaveBatches
<1>12. CASE Anchor
  BY <1>12 DEF Anchor
<1>13. CASE RecordAnchors
  BY <1>13 DEF RecordAnchors
<1>14. CASE Publish
  BY <1>14 DEF Publish
<1>15. CASE Claim
  BY <1>15 DEF Claim
<1>16. CASE NoteRenames
  BY <1>16 DEF NoteRenames
<1>17. CASE ResetRenames
  BY <1>17 DEF ResetRenames
<1>18. CASE NoteDeletions
  BY <1>18 DEF NoteDeletions
<1>19. CASE ResetDeletions
  BY <1>19 DEF ResetDeletions
<1>20. CASE ListUntracked
  BY <1>20 DEF ListUntracked
<1>21. CASE AddUntracked
  BY <1>21 DEF AddUntracked
<1>22. CASE Fetch
  BY <1>22 DEF Fetch
<1>23. CASE StartFails
  BY <1>23 DEF StartFails, Handler
<1>45. CASE RestorationFails
  BY <1>45 DEF RestorationFails
<1>24. CASE ResetAutoAdded
  BY <1>24 DEF ResetAutoAdded
<1>25. CASE RestoreRenames
  BY <1>25 DEF RestoreRenames
<1>26. CASE RestoreDeletions
  BY <1>26 DEF RestoreDeletions
<1>27. CASE ClearHistory
  BY <1>27 DEF ClearHistory
<1>28. CASE RemoveDirectory
  BY <1>28 DEF RemoveDirectory
<1>29. CASE AbortCheck
  BY <1>29 DEF AbortCheck
<1>30. CASE DropAutoAdded
  BY <1>30 DEF DropAutoAdded
<1>31. CASE ResetHard
  BY <1>31 DEF ResetHard
<1>32. CASE DropRenameTargets
  BY <1>32 DEF DropRenameTargets
<1>33. CASE ApplyStash
  BY <1>33 DEF ApplyStash
<1>34. CASE RestoreCopies
  BY <1>34 DEF RestoreCopies
<1>35. CASE RestoreBatches
  BY <1>35 DEF RestoreBatches
<1>36. CASE Again
  BY <1>36 DEF Again, Command, Acts
<1>37. CASE Commit
  BY <1>37 DEF Commit, UserActs, Acts
<1>38. CASE Crash
  BY <1>38 DEF Crash
<1>39. CASE UNCHANGED vars
  BY <1>39 DEF vars
<1>40. ASSUME NEW p \in Paths, Include(p) PROVE Stashable'
  BY <1>40 DEF Include, Command, Acts
<1>41. ASSUME NEW p \in Paths, Discard(p) PROVE Stashable'
  BY <1>41 DEF Discard, Command, Acts
<1>42. ASSUME NEW p \in Paths, NEW v \in Contents, Apply(p, v) PROVE Stashable'
  BY <1>42 DEF Apply, Command, Acts
<1>43. ASSUME NEW b \in BatchStates, ChangeBatch(b) PROVE Stashable'
  BY <1>43 DEF ChangeBatch, Command, Acts
<1>44. ASSUME NEW p \in Paths, NEW v \in Contents \cup {None}, Edit(p, v) PROVE Stashable'
  BY <1>44 DEF Edit, UserActs, Acts
<1> QED
  BY <1>1, <1>2, <1>3, <1>4, <1>5, <1>6, <1>7, <1>8, <1>9, <1>10, <1>11, <1>12, <1>13,
     <1>14, <1>15, <1>16, <1>17, <1>18, <1>19, <1>20, <1>21, <1>22, <1>23, <1>24, <1>25, <1>26,
     <1>27, <1>28, <1>29, <1>30, <1>31, <1>32, <1>33, <1>34, <1>35, <1>36, <1>37, <1>38, <1>39,
     <1>40, <1>41, <1>42, <1>43, <1>44, <1>45
  DEF Next, StartStep, StopStep, AbortStep, CommandStep, UserStep

LEMMA TypedInit == Init => Typed
<1> SUFFICES ASSUME Init PROVE Typed
  OBVIOUS
<1>1. dir \in Dirs /\ ~Active
  BY EmptyDirType DEF Init, EmptyDir, Active
<1>2. origin \in [head : Tree, index : Index, work : Tree, batches : BatchStates]
  BY DEF Init, Snapshot
<1>3. 0 \in 0..MaxActs /\ 0 \in 0..MaxCrashes /\ 0 \in 0..MaxStarts
  BY BoundAssumption
<1>4. TypeOK
  BY <1>1, <1>2, <1>3 DEF Init, TypeOK, Labels
<1> QED BY <1>1, <1>4 DEF Init, Typed, Control, Stashable

LEMMA TypedStep == Typed /\ [Next]_vars => Typed'
BY TypeStep, ControlStep, StashableStep DEF Typed

\* The variables keep their types, whatever fails, dies and is run again: in
\* particular no file is ever given an intent for its content, which needs
\* the index that git stash sees to have none.
THEOREM TypeCorrect == Spec => []TypeOK
<1>1. Typed => TypeOK
  BY DEF Typed
<1> QED BY <1>1, TypedInit, TypedStep, PTL DEF Spec

-----------------------------------------------------------------------------
(* start before the session is claimed.                                    *)

LEMMA OriginFrame ==
  ASSUME UNCHANGED origin
  PROVE  /\ OriginIntents' = OriginIntents /\ OriginStash' = OriginStash
         /\ Normalized' = Normalized /\ Owned' = Owned
BY DEF OriginIntents, OriginStash, Normalized, Owned

LEMMA IdleFrame ==
  ASSUME CommandStep \/ UserStep
  PROVE  /\ pc = "idle"
         /\ UNCHANGED <<pc, task, raising, memory, anchored, origin, stale>>
BY DEF CommandStep, UserStep, Again, Include, Discard, Apply, ChangeBatch, Commit, Edit,
       Command, UserActs, Acts, Idle

LEMMA OpeningInit == Init => Opening
BY DEF Init, Opening, BeforeMarker, Clearing

LEMMA OpeningStep == Typed /\ Opening /\ [Next]_vars => Opening'
<1> SUFFICES ASSUME Typed, Opening, [Next]_vars PROVE Opening'
  OBVIOUS
<1> USE DEF Typed, Control, Opening, BeforeMarker, AfterMarker, Stopping, Restoring, Clearing,
            Goto, Exit, Idle, repo, memory, ghosts, counts
<1>0. /\ head \in Tree /\ index \in Index /\ work \in Tree
      /\ origin \in [head : Tree, index : Index, work : Tree, batches : BatchStates]
      /\ OriginIntents \subseteq Paths
  BY DEF TypeOK, OriginIntents
<1>1. CASE Start
  <2>1. origin' = [head |-> head, index |-> index, work |-> work, batches |-> batches]
    BY <1>1 DEF Start, Snapshot
  <2>2. \A p \in OriginIntents' : index'[p] = IntentToAdd
    BY <1>1, <2>1 DEF Start, OriginIntents
  <2>3. UNCHANGED repo /\ mine' = work /\ unrestored' = {} /\ pc' = "copyIntents"
    BY <1>1 DEF Start
  <2> QED BY <2>1, <2>2, <2>3
<1>2. CASE StartStep
  <2>0. UNCHANGED origin
    BY <1>2 DEF StartStep, CopyIntents, DropNewIntents, ResetTrackedIntents, CreateStash,
                UnsetIntents, SetIntents, SaveStash, SaveBatches, Anchor, RecordAnchors,
                Publish, Claim, NoteRenames, ResetRenames, NoteDeletions, ResetDeletions,
                ListUntracked, AddUntracked, Fetch, StartFails, RestorationFails
  <2>a. /\ OriginIntents' = OriginIntents /\ OriginStash' = OriginStash
        /\ Normalized' = Normalized
    BY <2>0, OriginFrame
  <2>b. ~RestorationFails => UNCHANGED unrestored
    BY <1>2 DEF StartStep, CopyIntents, DropNewIntents, ResetTrackedIntents, CreateStash,
                UnsetIntents, SetIntents, SaveStash, SaveBatches, Anchor, RecordAnchors,
                Publish, Claim, NoteRenames, ResetRenames, NoteDeletions, ResetDeletions,
                ListUntracked, AddUntracked, Fetch, StartFails, RestorationFails
  <2>1. CASE CopyIntents
    <3>1. intents' = OriginIntents \/ task # "start"
      BY <2>1 DEF CopyIntents, Intents, OriginIntents
    <3> QED BY <2>1, <2>a, <3>1 DEF CopyIntents
  <2>2. CASE DropNewIntents
    BY <2>2, <2>a, <1>0 DEF DropNewIntents
  <2>3. CASE ResetTrackedIntents
    <3>1. task = "start" => index' = Normalized
      BY <2>3, <1>0 DEF ResetTrackedIntents, ResetPaths, Normalized, OriginIntents, Tree, Index
    <3>2. \A p \in Paths \ OriginIntents : task = "start" => index'[p] = origin.index[p]
      BY <2>3 DEF ResetTrackedIntents, ResetPaths
    <3>3. \A p \in OriginIntents : task = "start" => index'[p] = origin.head[p]
      BY <1>0, <3>1 DEF Normalized, OriginIntents
    <3> QED BY <2>3, <2>a, <2>b, <3>1, <3>2, <3>3 DEF ResetTrackedIntents, RestorationFails
  <2>4. CASE CreateStash
    <3>1. task = "start" => \A p \in Paths \ OriginIntents : index[p] = origin.index[p]
      BY <2>4 DEF CreateStash
    <3> QED BY <2>4, <2>a, <3>1 DEF CreateStash, OriginStash
  <2>5. CASE UnsetIntents
    <3>1. task = "start" => \A p \in OriginIntents : index'[p] = None
      BY <2>5, <1>0 DEF UnsetIntents
    <3>2. task = "start" => \A p \in Paths \ OriginIntents : index'[p] = index[p]
      BY <2>5 DEF UnsetIntents
    <3>3. UNCHANGED unrestored
      BY <2>5 DEF UnsetIntents
    <3> QED BY <2>5, <2>a, <3>1, <3>2, <3>3 DEF UnsetIntents
  <2>6. CASE SetIntents
    <3>1. task = "start" => index' = origin.index
      BY <2>6, <1>0 DEF SetIntents, OriginIntents, Index
    <3>2. \A p \in OriginIntents : origin.index[p] = IntentToAdd
      BY DEF OriginIntents
    <3>3. UNCHANGED unrestored
      BY <2>6 DEF SetIntents
    <3> QED BY <2>6, <2>a, <3>1, <3>2, <3>3 DEF SetIntents
  <2>7. CASE SaveStash \/ SaveBatches \/ Anchor \/ RecordAnchors
    BY <2>7, <2>a DEF SaveStash, SaveBatches, Anchor, RecordAnchors
  <2>8. CASE Publish \/ Claim
    BY <2>8, <2>a DEF Publish, Claim
  <2>9. CASE StartFails
    <3>1. /\ UNCHANGED <<repo, mine, origin, unrestored, intents>> /\ raising'
          /\ task = "start" /\ (pc' = "unsetIntents" \/ pc' \in Clearing \/ task' # "start")
      BY <2>9 DEF StartFails, Handler
    <3>2. CASE pc' = "unsetIntents"
      <4>1. pc \in {"dropNewIntents", "resetTrackedIntents", "createStash"}
        BY <2>9, <3>2 DEF StartFails, Handler
      <4> QED BY <2>a, <3>1, <3>2, <4>1
    <3>3. CASE pc' \in Clearing
      <4>1. pc \in {"copyIntents", "saveStash", "saveBatches", "anchor", "recordAnchors",
                    "publish", "claim"}
        BY <2>9, <3>3 DEF StartFails, Handler
      <4>2. index = origin.index /\ unrestored = {}
        BY <3>1, <4>1
      <4> QED BY <2>a, <3>1, <3>3, <4>1, <4>2 DEF OriginIntents
    <3> QED BY <3>1, <3>2, <3>3
  <2>12. CASE RestorationFails
    <3>1. /\ task = "start" /\ pc \in {"unsetIntents", "setIntents"} /\ pc' = "clearHistory"
          /\ UNCHANGED <<head, work, batches, mine, origin, task>>
      BY <2>12 DEF RestorationFails
    <3>2. intents = OriginIntents
      BY <3>1
    <3>3. \A p \in Paths : index'[p] = index[p] \/ (p \in OriginIntents /\ index'[p] = IntentToAdd)
      BY <2>12, <3>2 DEF RestorationFails, WithIntents
    <3>4. /\ unrestored' \subseteq OriginIntents
          /\ \A p \in OriginIntents : p \in unrestored' <=> index'[p] # IntentToAdd
      BY <2>12, <3>2 DEF RestorationFails
    <3> QED BY <1>0, <2>a, <3>1, <3>3, <3>4
  <2>10. CASE NoteRenames \/ ResetRenames \/ NoteDeletions \/ ResetDeletions
    BY <2>10 DEF NoteRenames, ResetRenames, NoteDeletions, ResetDeletions
  <2>11. CASE ListUntracked \/ AddUntracked \/ Fetch
    BY <2>11 DEF ListUntracked, AddUntracked, Fetch
  <2> QED BY <1>2, <2>1, <2>2, <2>3, <2>4, <2>5, <2>6, <2>7, <2>8, <2>9, <2>10, <2>11,
             <2>12 DEF StartStep
<1>3. CASE ClearHistory
  <2>1. UNCHANGED origin
    BY <1>3 DEF ClearHistory
  <2> QED BY <1>3, <2>1, OriginFrame DEF ClearHistory
<1>4. CASE RemoveDirectory \/ Crash
  BY <1>4 DEF RemoveDirectory, Crash
<1>5. CASE ResetAutoAdded \/ RestoreRenames \/ RestoreDeletions
  BY <1>5 DEF ResetAutoAdded, RestoreRenames, RestoreDeletions
<1>6. CASE AbortStep
  BY <1>6 DEF AbortStep, AbortCheck, DropAutoAdded, ResetHard, DropRenameTargets, ApplyStash,
              RestoreCopies, RestoreBatches
<1>7. CASE Stop \/ Abort
  BY <1>7 DEF Stop, Abort
<1>8. CASE CommandStep \/ UserStep
  BY <1>8, IdleFrame
<1>9. CASE UNCHANGED vars
  BY <1>9, OriginFrame DEF vars
<1> QED BY <1>1, <1>2, <1>3, <1>4, <1>5, <1>6, <1>7, <1>8, <1>9 DEF Next, StopStep

-----------------------------------------------------------------------------
(* What the session directory records.                                     *)

LEMMA PreparedInit == Init => Prepared /\ Swept
BY DEF Init, Prepared, Swept, Active

LEMMA PreparedStep ==
  Typed /\ Opening /\ Prepared /\ Swept /\ [Next]_vars => Prepared'
<1> SUFFICES ASSUME Typed, Opening, Prepared, Swept, [Next]_vars PROVE Prepared'
  OBVIOUS
<1> USE DEF Typed, Control, Prepared, BeforeMarker, AfterMarker, Stopping, Restoring, Clearing,
            Goto, Exit, Idle, repo, memory, ghosts, counts
<1>0. dir \in Dirs
  BY DEF TypeOK
<1>1. CASE Start
  <2>1. ~stale' => dir' = EmptyDir
    BY <1>1 DEF Start, Swept
  <2> QED BY <1>1, <2>1 DEF Start, EmptyDir
<1>2. CASE CopyIntents
  <2>1. /\ dir'.renames = dir.renames /\ dir'.anchors = dir.anchors
        /\ dir'.ita = IF Intents = {} THEN dir.ita ELSE Intents
    BY <1>2, <1>0 DEF CopyIntents, WithCopies, Dirs
  <2>2. task = "start" => Intents = OriginIntents
    BY <1>2 DEF CopyIntents, Opening, Intents, OriginIntents
  <2>3. ~stale /\ task = "start" => dir.ita = {}
    BY <1>2 DEF CopyIntents, EmptyDir
  <2> QED BY <1>2, <2>1, <2>2, <2>3, OriginFrame DEF CopyIntents
<1>3. CASE SaveStash
  <2>1. /\ dir'.renames = dir.renames /\ dir'.anchors = dir.anchors /\ dir'.ita = dir.ita
        /\ dir'.stash = hash
    BY <1>3, <1>0 DEF SaveStash, Dirs
  <2>2. task = "start" => hash = OriginStash
    BY <1>3 DEF SaveStash, Opening
  <2> QED BY <1>3, <2>1, <2>2, OriginFrame DEF SaveStash
<1>4. CASE SaveBatches
  <2>1. /\ dir'.renames = dir.renames /\ dir'.anchors = dir.anchors /\ dir'.ita = dir.ita
        /\ dir'.stash = dir.stash /\ dir'.batches = batches
    BY <1>4, <1>0 DEF SaveBatches, Dirs
  <2>2. task = "start" => batches = origin.batches
    BY <1>4 DEF SaveBatches, Opening
  <2> QED BY <1>4, <2>1, <2>2, OriginFrame DEF SaveBatches
<1>5. CASE RecordAnchors
  <2>1. /\ dir'.renames = dir.renames /\ dir'.ita = dir.ita
        /\ dir'.stash = dir.stash /\ dir'.batches = dir.batches
    BY <1>5, <1>0 DEF RecordAnchors, Dirs
  <2> QED BY <1>5, <2>1, OriginFrame DEF RecordAnchors
<1>6. CASE DropNewIntents \/ ResetTrackedIntents \/ CreateStash \/ UnsetIntents \/ SetIntents
  BY <1>6, OriginFrame
     DEF DropNewIntents, ResetTrackedIntents, CreateStash, UnsetIntents, SetIntents
<1>7. CASE Anchor
  BY <1>7, OriginFrame DEF Anchor
<1>8. CASE StartFails \/ RestorationFails
  BY <1>8, OriginFrame DEF StartFails, RestorationFails, Handler
<1>9. CASE Publish \/ Claim \/ NoteRenames \/ ResetRenames \/ NoteDeletions \/ ResetDeletions
  BY <1>9 DEF Publish, Claim, NoteRenames, ResetRenames, NoteDeletions, ResetDeletions
<1>10. CASE ListUntracked \/ AddUntracked \/ Fetch
  BY <1>10 DEF ListUntracked, AddUntracked, Fetch
<1>11. CASE StopStep
  BY <1>11 DEF StopStep, ResetAutoAdded, RestoreRenames, RestoreDeletions, ClearHistory,
               RemoveDirectory
<1>12. CASE AbortStep
  BY <1>12 DEF AbortStep, AbortCheck, DropAutoAdded, ResetHard, DropRenameTargets, ApplyStash,
               RestoreCopies, RestoreBatches
<1>13. CASE Stop \/ Abort \/ Crash
  BY <1>13 DEF Stop, Abort, Crash
<1>14. CASE CommandStep \/ UserStep
  BY <1>14, IdleFrame
<1>15. CASE UNCHANGED vars
  BY <1>15, OriginFrame DEF vars
<1> QED
  BY <1>1, <1>2, <1>3, <1>4, <1>5, <1>6, <1>7, <1>8, <1>9, <1>10, <1>11, <1>12, <1>13, <1>14, <1>15
  DEF Next, StartStep

LEMMA CopyFirstKeeps ==
  ASSUME NEW d \in Dirs, NEW i, NEW p \in Paths
  PROVE  \A f \in {"marker", "stash", "batches", "ita", "anchors", "autoAdded", "renames"} :
           CopyFirst(d, i, p)[f] = d[f]
<1>1. \A f \in {"marker", "stash", "batches", "ita", "anchors", "autoAdded", "renames"} :
        WithCopies(d, {p})[f] = d[f]
  BY DEF WithCopies, Dirs
<1> QED BY <1>1 DEF CopyFirst

\* What an active session never rewrites.
LEMMA ActiveFrame ==
  ASSUME Typed, [Next]_vars, Active, ~RemoveDirectory, ~Crash
  PROVE  /\ ~Start /\ UNCHANGED <<origin, stale>> /\ Active'
         /\ \A f \in {"marker", "stash", "batches", "ita", "anchors"} : dir'[f] = dir[f]
<1> USE DEF Typed, Control, BeforeMarker, Clearing, repo, memory, ghosts, counts, Goto, Exit, Active
<1>0. dir \in Dirs /\ task \in {"none", "start", "stop", "abort"}
  BY DEF TypeOK
<1>1. ~Start
  BY DEF Start
<1>2. CASE CommandStep \/ UserStep
  <2>1. UNCHANGED <<origin, stale>>
    BY <1>2, IdleFrame
  <2>2. CASE UserStep
    BY <2>1, <2>2, <1>1 DEF UserStep, UserActs, Commit, Edit
  <2>3. \A p \in Paths : /\ Listed(p) \in Dirs
                         /\ \A f \in {"marker", "stash", "batches", "ita", "anchors"} :
                              Listed(p)[f] = dir[f]
    BY <1>0 DEF Listed, Dirs
  <2>4. \A f \in {"marker", "stash", "batches", "ita", "anchors"} : dir'[f] = dir[f]
    <3>1. CASE Again
      BY <3>1, <1>0 DEF Again, Dirs
    <3>2. ASSUME NEW p \in Paths, Include(p) \/ Discard(p)
          PROVE  \A f \in {"marker", "stash", "batches", "ita", "anchors"} : dir'[f] = dir[f]
      BY <3>2, <2>3, CopyFirstKeeps DEF Include, Discard
    <3>3. ASSUME NEW p \in Paths, NEW v \in Contents, Apply(p, v)
          PROVE  \A f \in {"marker", "stash", "batches", "ita", "anchors"} : dir'[f] = dir[f]
      BY <3>3, <1>0, CopyFirstKeeps DEF Apply
    <3>4. ASSUME NEW b \in BatchStates, ChangeBatch(b)
          PROVE  \A f \in {"marker", "stash", "batches", "ita", "anchors"} : dir'[f] = dir[f]
      BY <3>4 DEF ChangeBatch
    <3> QED BY <1>2, <2>2, <3>1, <3>2, <3>3, <3>4 DEF CommandStep
  <2> QED BY <1>1, <2>1, <2>4
<1>3. CASE StartStep
  <2>1. CASE DropNewIntents \/ ResetTrackedIntents \/ CreateStash \/ UnsetIntents \/ SetIntents
             \/ Anchor \/ Claim \/ ResetRenames \/ ResetDeletions \/ Fetch \/ StartFails
             \/ RestorationFails
    BY <2>1, <1>1 DEF DropNewIntents, ResetTrackedIntents, CreateStash, UnsetIntents, SetIntents,
               Anchor, Claim, ResetRenames, ResetDeletions, Fetch, StartFails, RestorationFails
  <2>2. CASE NoteRenames \/ NoteDeletions \/ ListUntracked \/ AddUntracked
    BY <2>2, <1>0, <1>1 DEF NoteRenames, NoteDeletions, ListUntracked, AddUntracked, Dirs
  <2>3. ~(CopyIntents \/ SaveStash \/ SaveBatches \/ RecordAnchors \/ Publish)
    BY <1>0 DEF CopyIntents, SaveStash, SaveBatches, RecordAnchors, Publish, Stopping, Restoring
  <2> QED BY <1>3, <2>1, <2>2, <2>3 DEF StartStep
<1>4. CASE StopStep
  BY <1>4, <1>1 DEF StopStep, ResetAutoAdded, RestoreRenames, RestoreDeletions, ClearHistory
<1>5. CASE AbortStep
  BY <1>5, <1>1 DEF AbortStep, AbortCheck, DropAutoAdded, ResetHard, DropRenameTargets, ApplyStash,
               RestoreCopies, RestoreBatches
<1>6. CASE Stop \/ Abort \/ UNCHANGED vars
  BY <1>6, <1>1 DEF Stop, Abort, vars
<1> QED BY <1>1, <1>2, <1>3, <1>4, <1>5, <1>6 DEF Next

LEMMA InactiveFrame ==
  ASSUME Typed, [Next]_vars, ~Active, ~Publish
  PROVE  ~Active'
<1> USE DEF Typed, Control, BeforeMarker, Clearing, repo, memory, ghosts, counts, Active
<1>0. dir \in Dirs
  BY DEF TypeOK
<1>1. CASE CopyIntents \/ SaveStash \/ SaveBatches \/ RecordAnchors \/ NoteRenames
             \/ NoteDeletions \/ ListUntracked \/ AddUntracked
  BY <1>0, <1>1 DEF CopyIntents, WithCopies, SaveStash, SaveBatches, RecordAnchors, NoteRenames,
                    NoteDeletions, ListUntracked, AddUntracked, Dirs
<1>2. CASE DropNewIntents \/ ResetTrackedIntents \/ CreateStash \/ UnsetIntents \/ SetIntents
             \/ Anchor \/ Claim \/ ResetRenames \/ ResetDeletions \/ Fetch \/ StartFails
             \/ RestorationFails
  BY <1>2 DEF DropNewIntents, ResetTrackedIntents, CreateStash, UnsetIntents, SetIntents,
              Anchor, Claim, ResetRenames, ResetDeletions, Fetch, StartFails, RestorationFails
<1>3. CASE StopStep
  BY <1>3 DEF StopStep, ResetAutoAdded, RestoreRenames, RestoreDeletions, ClearHistory,
              RemoveDirectory, EmptyDir
<1>4. CASE AbortStep
  BY <1>4 DEF AbortStep, AbortCheck, DropAutoAdded, ResetHard, DropRenameTargets, ApplyStash,
              RestoreCopies, RestoreBatches
<1>5. CASE Start \/ Stop \/ Abort \/ UNCHANGED vars
  BY <1>5 DEF Start, Stop, Abort, vars
<1>6. CASE CommandStep
  BY <1>6 DEF CommandStep, Again, Include, Discard, Apply, ChangeBatch, Command
<1>7. CASE UserStep
  BY <1>7 DEF UserStep, Commit, Edit, UserActs
<1>8. CASE Crash
  BY <1>0, <1>8 DEF Crash, Torn, EmptyDir, Dirs
<1> QED BY <1>1, <1>2, <1>3, <1>4, <1>5, <1>6, <1>7, <1>8 DEF Next, StartStep

LEMMA SweptStep == Typed /\ Swept /\ [Next]_vars => Swept'
<1> SUFFICES ASSUME Typed, Swept, [Next]_vars PROVE Swept'
  OBVIOUS
<1>0. task \in {"none", "start", "stop", "abort"}
  BY DEF Typed, TypeOK
<1>1. CASE RemoveDirectory
  BY <1>1 DEF RemoveDirectory, Exit, Swept
<1>2. CASE Crash
  BY <1>0, <1>2 DEF Crash, Exit, Swept, Active, Typed, Control, Idle
<1>3. CASE Active /\ ~RemoveDirectory /\ ~Crash
  BY <1>3, ActiveFrame DEF Swept
<1>4. CASE ~Active /\ ~RemoveDirectory /\ ~Crash
  <2> USE DEF Typed, Control, BeforeMarker, AfterMarker, Stopping, Restoring, Clearing, Idle,
              Goto, Exit, Swept, Active, repo, memory, ghosts, counts
  <2>1. CASE Start \/ Stop \/ Abort \/ UNCHANGED vars
    BY <1>0, <1>4, <2>1 DEF Start, Stop, Abort, vars
  <2>2. CASE CommandStep
    BY <1>4, <2>2 DEF CommandStep, Again, Include, Discard, Apply, ChangeBatch, Command
  <2>3. CASE UserStep
    BY <1>4, <2>3 DEF UserStep, Commit, Edit, UserActs
  <2>4. CASE StartFails \/ RestorationFails
    BY <1>0, <1>4, <2>4 DEF StartFails, RestorationFails, Handler
  <2>5. CASE StartStep /\ ~StartFails /\ ~RestorationFails
    BY <1>0, <1>4, <2>5
       DEF StartStep, CopyIntents, DropNewIntents, ResetTrackedIntents, CreateStash,
           UnsetIntents, SetIntents, SaveStash, SaveBatches, Anchor, RecordAnchors, Publish,
           Claim, NoteRenames, ResetRenames, NoteDeletions, ResetDeletions, ListUntracked,
           AddUntracked, Fetch
  <2>6. CASE StopStep
    BY <1>0, <1>4, <2>6
       DEF StopStep, ResetAutoAdded, RestoreRenames, RestoreDeletions, ClearHistory
  <2>7. CASE AbortStep
    <3>1. task # "abort" \/ pc \in Clearing
      BY <1>4
    <3>2. pc \in {"abortCheck", "dropAutoAdded", "resetHard", "dropRenameTargets", "applyStash",
                  "restoreCopies", "restoreBatches"}
      BY <2>7 DEF AbortStep, AbortCheck, DropAutoAdded, ResetHard, DropRenameTargets, ApplyStash,
                  RestoreCopies, RestoreBatches
    <3> QED BY <1>0, <3>1, <3>2
  <2> QED BY <1>4, <2>1, <2>2, <2>3, <2>4, <2>5, <2>6, <2>7 DEF Next
<1> QED BY <1>1, <1>2, <1>3, <1>4

\* Only Anchor makes the anchor refs, and only ClearHistory deletes them.
LEMMA AnchoredFrame ==
  ASSUME [Next]_vars
  PROVE  anchored' = anchored \/ Anchor \/ ClearHistory
<1> USE DEF repo, memory, ghosts, counts
<1>1. CASE StartStep
  BY <1>1 DEF StartStep, CopyIntents, DropNewIntents, ResetTrackedIntents, CreateStash,
              UnsetIntents, SetIntents, SaveStash, SaveBatches, RecordAnchors, Publish,
              Claim, NoteRenames, ResetRenames, NoteDeletions, ResetDeletions, ListUntracked,
              AddUntracked, Fetch, StartFails, RestorationFails
<1>2. CASE StopStep
  BY <1>2 DEF StopStep, ResetAutoAdded, RestoreRenames, RestoreDeletions, RemoveDirectory
<1>3. CASE AbortStep
  BY <1>3 DEF AbortStep, AbortCheck, DropAutoAdded, ResetHard, DropRenameTargets, ApplyStash,
              RestoreCopies, RestoreBatches
<1>4. CASE Start \/ Stop \/ Abort \/ Crash \/ UNCHANGED vars
  BY <1>4 DEF Start, Stop, Abort, Crash, vars
<1>5. CASE CommandStep \/ UserStep
  BY <1>5, IdleFrame
<1> QED BY <1>1, <1>2, <1>3, <1>4, <1>5 DEF Next

LEMMA RemovingFrame ==
  ASSUME [Next]_vars, pc = "removeDirectory", ~RemoveDirectory, ~Crash
  PROVE  pc' = pc
<1>1. ~Start /\ ~Stop /\ ~Abort /\ ~CommandStep /\ ~UserStep
  BY IdleFrame DEF Start, Stop, Abort, Idle
<1>2. ~StartStep
  BY DEF StartStep, CopyIntents, DropNewIntents, ResetTrackedIntents, CreateStash,
         UnsetIntents, SetIntents, SaveStash, SaveBatches, Anchor, RecordAnchors, Publish,
         Claim, NoteRenames, ResetRenames, NoteDeletions, ResetDeletions, ListUntracked,
         AddUntracked, Fetch, StartFails, RestorationFails, Handler
<1>3. ~StopStep
  BY DEF StopStep, ResetAutoAdded, RestoreRenames, RestoreDeletions, ClearHistory
<1>4. ~AbortStep
  BY DEF AbortStep, AbortCheck, DropAutoAdded, ResetHard, DropRenameTargets, ApplyStash,
         RestoreCopies, RestoreBatches
<1> QED BY <1>1, <1>2, <1>3, <1>4 DEF Next, vars

LEMMA RecordedStep ==
  Typed /\ Opening /\ Prepared /\ Recorded /\ [Next]_vars => Recorded'
<1> SUFFICES ASSUME Typed, Opening, Prepared, Recorded, [Next]_vars, Active', ~stale'
             PROVE  Recorded'
  BY DEF Recorded
<1>0. dir \in Dirs
  BY DEF Typed, TypeOK
<1>1. CASE Publish
  <2>1. /\ dir'.marker = head /\ dir'.stash = dir.stash /\ dir'.batches = dir.batches
        /\ dir'.ita = dir.ita /\ dir'.anchors = dir.anchors
    BY <1>0, <1>1 DEF Publish, Dirs
  <2>2. task = "start" /\ ~stale
    BY <1>1 DEF Publish, Typed, TypeOK, Control, ghosts, Stopping, Restoring, Clearing
  <2>3. /\ head = origin.head /\ dir.stash = OriginStash /\ dir.batches = origin.batches
        /\ dir.ita = OriginIntents /\ (dir.anchors => anchored)
    BY <1>1, <2>2 DEF Publish, Prepared, Opening, BeforeMarker
  <2>4. UNCHANGED <<origin, anchored>>
    BY <1>1 DEF Publish, ghosts
  <2> QED BY <2>1, <2>3, <2>4, OriginFrame DEF Recorded
<1>2. Active \/ Publish
  BY InactiveFrame
<1>3. CASE RemoveDirectory
  BY <1>3 DEF RemoveDirectory, EmptyDir, Active
<1>4. CASE Active /\ Crash
  <2>1. /\ ~stale /\ pc # "removeDirectory"
        /\ UNCHANGED <<dir, origin, anchored>>
    BY <1>4 DEF Crash
  <2> QED BY <1>4, <2>1, OriginFrame DEF Recorded
<1>5. CASE Active /\ ~RemoveDirectory /\ ~Crash
  <2>1. /\ UNCHANGED <<origin, stale>>
        /\ dir'.marker = dir.marker /\ dir'.stash = dir.stash /\ dir'.batches = dir.batches
        /\ dir'.ita = dir.ita /\ dir'.anchors = dir.anchors
    BY <1>5, ActiveFrame
  <2>2. pc' # "removeDirectory" => anchored' = anchored \/ anchored'
    BY AnchoredFrame DEF Anchor, ClearHistory, Goto
  <2>3. pc' # "removeDirectory" => pc # "removeDirectory"
    BY <1>5, RemovingFrame
  <2> QED BY <1>5, <2>1, <2>2, <2>3, OriginFrame DEF Recorded
<1> QED BY <1>1, <1>2, <1>3, <1>4, <1>5

-----------------------------------------------------------------------------
(* The copies.                                                             *)

LEMMA CopyFirstCopies ==
  ASSUME NEW d \in Dirs, d.list = dir.list, d.copies = dir.copies, dir \in Dirs,
         NEW i, NEW p \in Paths
  PROVE  /\ \A q \in dir.list : q \in CopyFirst(d, i, p).list
                                /\ CopyFirst(d, i, p).copies[q] = dir.copies[q]
         /\ CopyFirst(d, i, p).list \subseteq dir.list \cup {p}
         /\ p \in CopyFirst(d, i, p).list \ dir.list =>
              CopyFirst(d, i, p).copies[p] = work[p] /\ work[p] # None
         /\ p \notin CopyFirst(d, i, p).list => Real(i[p]) # None \/ work[p] = None
<1>1. /\ WithCopies(d, {p}).list = d.list \cup {p}
      /\ \A q \in Paths : WithCopies(d, {p}).copies[q] = IF q = p THEN work[p] ELSE d.copies[q]
  BY DEF WithCopies, Dirs, Tree
<1>2. dir.list \subseteq Paths
  BY DEF Dirs
<1> QED BY <1>1, <1>2 DEF CopyFirst

LEMMA ListedKeeps ==
  ASSUME dir \in Dirs, NEW p \in Paths
  PROVE  /\ Listed(p).list = dir.list /\ Listed(p).copies = dir.copies
         /\ Listed(p).renames = dir.renames
         /\ Listed(p).autoAdded = dir.autoAdded \cup (Untracked \cap {p})
BY DEF Listed, Dirs

LEMMA CopiedFrame ==
  ASSUME Copied, ~stale' => ~stale, dir'.list = dir.list, dir'.copies = dir.copies, mine' = mine,
         copied \subseteq copied', created \subseteq created', exposed \subseteq exposed'
  PROVE  Copied'
BY DEF Copied

\* A command that copies a path of which it is not noted that a command wrote
\* it before copies what the user left there.
LEMMA CopyingStep ==
  ASSUME Typed, Copied, LeftAlone, Active, NEW p \in Paths,
         NEW d \in Dirs, d.list = dir.list, d.copies = dir.copies, NEW i,
         dir' = CopyFirst(d, i, p), NoteCopy(CopyFirst(d, i, p)),
         UNCHANGED <<mine, stale>>, created \subseteq created', exposed \subseteq exposed'
  PROVE  Copied'
<1> SUFFICES ASSUME ~stale PROVE Copied'
  BY DEF Copied
<1>0. dir \in Dirs /\ dir.list \subseteq Paths
  BY DEF Typed, TypeOK, Dirs
<1>1. copied' = copied \cup ((dir'.list \ dir.list) \cap Owned)
  BY DEF NoteCopy
<1>2. ASSUME p \in dir'.list \ dir.list, p \notin copied' \cup created' \cup exposed'
      PROVE  work[p] = mine[p]
  <2>1. p \in Spared
    BY <1>1, <1>2 DEF Spared
  <2> QED BY <2>1 DEF LeftAlone
<1>3. \A q \in dir.list : dir'.copies[q] = dir.copies[q]
  BY <1>0, CopyFirstCopies
<1>4. dir'.list \subseteq dir.list \cup {p}
  BY <1>0, CopyFirstCopies
<1>5. p \in dir'.list \ dir.list => dir'.copies[p] = work[p] /\ work[p] # None
  BY <1>0, CopyFirstCopies
<1> QED BY <1>1, <1>2, <1>3, <1>4, <1>5 DEF Copied

LEMMA CopiedStep ==
  Typed /\ Opening /\ Prepared /\ Swept /\ Copied /\ LeftAlone /\ [Next]_vars => Copied'
<1> SUFFICES ASSUME Typed, Opening, Prepared, Swept, Copied, LeftAlone, [Next]_vars PROVE Copied'
  OBVIOUS
<1> USE DEF repo, memory, ghosts, counts, Exit, Goto
<1>0. dir \in Dirs /\ work \in Tree /\ index \in Index
  BY DEF Typed, TypeOK
<1>1. CASE Start
  <2>1. ~stale' => dir'.list = {}
    BY <1>1 DEF Start, Swept, Typed, Control, Idle, EmptyDir
  <2> QED BY <2>1 DEF Copied
<1>2. CASE CopyIntents
  <2>1. task = "start" /\ ~Active
    BY <1>2 DEF CopyIntents, Typed, TypeOK, Control, BeforeMarker, Stopping, Restoring, Clearing
  <2>2. work = mine /\ UNCHANGED <<mine, stale>>
    BY <1>2, <2>1 DEF CopyIntents, Opening, BeforeMarker
  <2>3. ~stale => dir.list = {}
    BY <1>2, <2>1 DEF CopyIntents, Prepared, BeforeMarker, EmptyDir
  <2>4. /\ dir'.list = dir.list \cup Uncopied(Intents)
        /\ \A p \in Uncopied(Intents) : dir'.copies[p] = work[p]
    BY <1>0, <1>2 DEF CopyIntents, WithCopies, Uncopied, Intents, Dirs, Tree
  <2> QED BY <2>2, <2>3, <2>4 DEF Copied, Uncopied
<1>3. CASE StartStep /\ ~CopyIntents
  BY <1>0, <1>3, CopiedFrame
     DEF StartStep, DropNewIntents, ResetTrackedIntents, CreateStash, UnsetIntents, SetIntents,
         SaveStash, SaveBatches, Anchor, RecordAnchors, Publish, Claim, NoteRenames, ResetRenames,
         NoteDeletions, ResetDeletions, ListUntracked, AddUntracked, Fetch, StartFails,
         RestorationFails, Dirs
<1>4. CASE RemoveDirectory
  BY <1>4 DEF RemoveDirectory, EmptyDir, Copied
<1>5. CASE StopStep /\ ~RemoveDirectory
  BY <1>5, CopiedFrame
     DEF StopStep, ResetAutoAdded, RestoreRenames, RestoreDeletions, ClearHistory
<1>6. CASE AbortStep
  BY <1>6, CopiedFrame
     DEF AbortStep, AbortCheck, DropAutoAdded, ResetHard, DropRenameTargets, ApplyStash,
         RestoreCopies, RestoreBatches
<1>7. CASE Stop \/ Abort \/ UNCHANGED vars
  BY <1>7, CopiedFrame DEF Stop, Abort, vars
<1>8. CASE Crash
  <2>1. ~stale' => ~stale /\ UNCHANGED dir
    BY <1>8 DEF Crash
  <2>2. CASE stale'
    BY <2>2 DEF Copied
  <2> QED BY <1>8, <2>1, <2>2, CopiedFrame DEF Crash
<1>9. CASE CommandStep
  <2>0. Active
    BY <1>9 DEF CommandStep, Again, Include, Discard, Apply, ChangeBatch, Command
  <2>1. CASE Again
    BY <1>0, <2>1, CopiedFrame DEF Again, Command, Dirs
  <2>2. ASSUME NEW p \in Paths, Include(p) PROVE Copied'
    <3>1. dir'.list = dir.list /\ dir'.copies = dir.copies
      BY <1>0, <2>2, ListedKeeps DEF Include
    <3> QED BY <2>2, <3>1, CopiedFrame DEF Include, Command
  <2>3. ASSUME NEW p \in Paths, Discard(p) PROVE Copied'
    <3>1. /\ dir' = CopyFirst(Listed(p), Shown(p), p) /\ NoteCopy(CopyFirst(Listed(p), Shown(p), p))
          /\ UNCHANGED <<mine, stale, created>> /\ exposed \subseteq exposed'
      BY <2>3 DEF Discard, Command, NoteLoss
    <3>2. Listed(p) \in Dirs /\ Listed(p).list = dir.list /\ Listed(p).copies = dir.copies
      BY <1>0, ListedKeeps, ListedType
    <3> QED BY <2>0, <3>1, <3>2, CopyingStep
  <2>4. ASSUME NEW p \in Paths, NEW v \in Contents, Apply(p, v) PROVE Copied'
    <3>1. /\ dir' = CopyFirst(dir, index, p) /\ NoteCopy(CopyFirst(dir, index, p))
          /\ UNCHANGED <<mine, stale>> /\ created \subseteq created' /\ exposed \subseteq exposed'
      BY <2>4 DEF Apply, Command, NoteLoss
    <3> QED BY <1>0, <2>0, <3>1, CopyingStep
  <2>5. ASSUME NEW b \in BatchStates, ChangeBatch(b) PROVE Copied'
    BY <2>5, CopiedFrame DEF ChangeBatch, Command
  <2> QED BY <1>9, <2>1, <2>2, <2>3, <2>4, <2>5 DEF CommandStep
<1>10. CASE Commit
  BY <1>10, CopiedFrame DEF Commit, UserActs
<1>11. ASSUME NEW p \in Paths, NEW v \in Contents \cup {None}, Edit(p, v) PROVE Copied'
  <2>1. /\ UNCHANGED <<dir, copied, created, exposed, stale>>
        /\ \A q \in dir.list : mine'[q] = mine[q]
    BY <1>11 DEF Edit, UserActs
  <2> QED BY <2>1 DEF Copied
<1> QED BY <1>1, <1>2, <1>3, <1>4, <1>5, <1>6, <1>7, <1>8, <1>9, <1>10, <1>11 DEF Next, UserStep

-----------------------------------------------------------------------------
(* The files that are left alone.                                          *)

\* What is required of a path that nothing was done with.
Alone(p) ==
  /\ head[p] = None /\ work[p] = mine[p]
  /\ index[p] # None => p \in dir.autoAdded
  /\ pc = "resetHard" => index[p] = None

\* What is required of the step in progress.
Underway ==
  /\ \A r \in dir.renames : r.new \in Owned
  /\ pc = "addUntracked" => Untracked \subseteq dir.autoAdded /\ todo \subseteq Untracked
  /\ pc = "restoreCopies" => todo \subseteq dir.list
  /\ task = "abort" /\ pc \in {"unsetIntents", "setIntents"} => intents = OriginIntents

LEMMA LeftAloneParts == LeftAlone <=> (Active /\ ~stale => Underway /\ \A p \in Spared : Alone(p))
BY DEF LeftAlone, Underway, Alone

LEMMA SparedFrame ==
  ASSUME UNCHANGED origin, dir.list \subseteq dir'.list,
         exposed \subseteq exposed', created \subseteq created'
  PROVE  Spared' \subseteq Spared
BY OriginFrame DEF Spared

LEMMA SparedIsUnowned ==
  \A p \in Spared : /\ p \in Paths /\ p \notin Owned /\ p \notin dir.list
                    /\ origin.head[p] = None /\ origin.index[p] = None
BY DEF Spared, Owned

LEMMA PublishLeavesAlone ==
  Typed /\ Opening /\ Prepared /\ Publish /\ ~stale => LeftAlone'
<1> SUFFICES ASSUME Typed, Opening, Prepared, Publish, ~stale PROVE LeftAlone'
  OBVIOUS
<1> USE DEF repo, memory, ghosts, counts, Goto
<1>0. dir \in Dirs
  BY DEF Typed, TypeOK
<1>1. /\ pc' = "claim" /\ UNCHANGED <<repo, ghosts>> /\ dir'.list = dir.list
      /\ dir'.renames = dir.renames
  BY <1>0 DEF Publish, Dirs
<1>2. task = "start" /\ pc = "publish"
  BY DEF Publish, Typed, TypeOK, Control, Stopping, Restoring, Clearing
<1>3. /\ head = origin.head /\ index = origin.index /\ work = mine /\ dir.renames = {}
  BY <1>2 DEF Opening, Prepared, BeforeMarker, Clearing
<1>4. Spared' \subseteq Spared
  BY <1>1, SparedFrame
<1> QED BY <1>1, <1>3, <1>4, SparedIsUnowned DEF LeftAlone

LEMMA StartLeavesAlone ==
  Typed /\ Opening /\ LeftAlone /\ Active /\ ~stale /\ StartStep => LeftAlone'
<1> SUFFICES ASSUME Typed, Opening, LeftAlone, Active, ~stale, StartStep PROVE LeftAlone'
  OBVIOUS
<1> USE DEF repo, memory, ghosts, counts, Goto
<1>0. /\ dir \in Dirs /\ index \in Index /\ task \in {"none", "start", "stop", "abort"}
      /\ Underway /\ \A p \in Spared : Alone(p)
  BY LeftAloneParts DEF Typed, TypeOK
<1>1. ~(CopyIntents \/ DropNewIntents \/ ResetTrackedIntents \/ CreateStash
        \/ SaveStash \/ SaveBatches \/ Anchor \/ RecordAnchors \/ Publish \/ RestorationFails)
  BY <1>0 DEF Typed, Control, BeforeMarker, Stopping, Restoring, Clearing, CopyIntents,
              DropNewIntents, ResetTrackedIntents, CreateStash, SaveStash, SaveBatches, Anchor,
              RecordAnchors, Publish, RestorationFails
<1>2. /\ UNCHANGED <<origin, mine, exposed, created, head, work>> /\ dir'.list = dir.list
  <2>1. CASE UnsetIntents \/ SetIntents \/ Claim \/ ResetRenames \/ ResetDeletions
    BY <2>1 DEF UnsetIntents, SetIntents, Claim, ResetRenames, ResetDeletions
  <2>2. CASE NoteRenames \/ NoteDeletions
    BY <1>0, <2>2 DEF NoteRenames, NoteDeletions, Dirs
  <2>3. CASE ListUntracked \/ AddUntracked
    BY <1>0, <2>3 DEF ListUntracked, AddUntracked, Dirs
  <2>4. CASE Fetch \/ StartFails
    BY <2>4 DEF Fetch, StartFails
  <2> QED BY <1>1, <2>1, <2>2, <2>3, <2>4 DEF StartStep
<1>3. Spared' \subseteq Spared /\ Owned' = Owned /\ OriginIntents' = OriginIntents
  BY <1>2, SparedFrame, OriginFrame
<1>4. ASSUME UNCHANGED <<index, dir>>, pc' # "resetHard", pc' # "restoreCopies",
             pc' # "addUntracked", ~(task' = "abort" /\ pc' \in {"unsetIntents", "setIntents"})
      PROVE  LeftAlone'
  BY <1>0, <1>2, <1>3, <1>4, LeftAloneParts DEF LeftAlone, Underway, Alone
<1>5. CASE Claim \/ ResetDeletions \/ ResetRenames
  <2>1. \A p \in Paths : index'[p] \in {index[p], head[p]}
    BY <1>5 DEF Claim, ResetDeletions, ResetRenames, ResetPaths
  <2>2. /\ UNCHANGED dir
        /\ pc' \in {"noteRenames", "noteDeletions", "listUntracked"}
    BY <1>5 DEF Claim, ResetDeletions, ResetRenames
  <2> QED BY <1>0, <1>2, <1>3, <2>1, <2>2, SparedIsUnowned DEF LeftAlone, Underway, Alone
<1>6. CASE NoteRenames
  <2>1. index = origin.index
    BY <1>0, <1>6 DEF NoteRenames, Typed, Control, Opening, Stopping, Restoring, Clearing
  <2>2. \A r \in StagedRenames : r.new \in Owned
    BY <2>1, NullAssumption DEF StagedRenames, Owned
  <2>3. /\ \A r \in dir'.renames : r.new \in Owned
        /\ dir'.autoAdded = dir.autoAdded /\ index' = index
        /\ pc' \in {"resetRenames", "noteDeletions"}
    BY <1>0, <1>6, <2>2 DEF NoteRenames, Dirs, Underway
  <2> QED BY <1>0, <1>2, <1>3, <2>3 DEF LeftAlone, Alone
<1>7. CASE NoteDeletions
  <2>1. /\ dir'.renames = dir.renames /\ dir'.autoAdded = dir.autoAdded /\ index' = index
        /\ pc' \in {"resetDeletions", "listUntracked"}
    BY <1>0, <1>7 DEF NoteDeletions, Dirs
  <2> QED BY <1>0, <1>2, <1>3, <2>1 DEF LeftAlone, Underway, Alone
<1>8. CASE ListUntracked
  <2>1. /\ dir'.renames = dir.renames /\ dir'.autoAdded = dir.autoAdded \cup Untracked
        /\ index' = index /\ pc' = "addUntracked" /\ todo' = Untracked \ dir.autoAdded
    BY <1>0, <1>8 DEF ListUntracked, Dirs
  <2>2. Untracked' = Untracked
    BY <1>2, <2>1 DEF Untracked
  <2> QED BY <1>0, <1>2, <1>3, <2>1, <2>2 DEF LeftAlone, Underway, Alone
<1>9. CASE AddUntracked
  <2>1. dir'.renames = dir.renames /\ pc' = "fetch"
    BY <1>0, <1>9 DEF AddUntracked, Dirs
  <2>2. \A p \in Spared : index'[p] # None => p \in dir'.autoAdded
    <3>1. CASE index' = WithIntents(Untracked) /\ UNCHANGED dir
      BY <1>0, <1>9, <3>1, SparedIsUnowned DEF WithIntents, AddUntracked, Underway, Alone
    <3>2. CASE dir' = [dir EXCEPT !.autoAdded = @ \ todo] /\ UNCHANGED index
      <4>1. dir'.autoAdded = dir.autoAdded \ todo
        BY <1>0, <3>2 DEF Dirs
      <4>2. \A p \in todo : index[p] = None
        BY <1>0, <1>9 DEF AddUntracked, Underway, Untracked
      <4> QED BY <1>0, <3>2, <4>1, <4>2 DEF Alone
    <3> QED BY <1>9, <3>1, <3>2 DEF AddUntracked
  <2> QED BY <1>0, <1>2, <1>3, <2>1, <2>2 DEF LeftAlone, Underway, Alone
<1>10. CASE Fetch
  BY <1>4, <1>10 DEF Fetch, Exit
<1>11. CASE StartFails
  <2>1. UNCHANGED <<index, dir>> /\ task = "start" /\ pc \in AfterMarker \cup Clearing
    BY <1>11 DEF StartFails, Typed, Control
  <2>2. pc' \in {"clearHistory", "abortCheck"}
    BY <1>11, <2>1 DEF StartFails, Handler, AfterMarker, Clearing
  <2> QED BY <1>4, <2>1, <2>2
<1>12. CASE UnsetIntents \/ SetIntents
  <2>1. task = "abort"
    BY <1>0, <1>12 DEF UnsetIntents, SetIntents, Typed, Control, BeforeMarker, Stopping, Clearing
  <2>2. intents = OriginIntents
    BY <1>0, <1>12, <2>1 DEF UnsetIntents, SetIntents, Underway
  <2>3. \A p \in Spared : p \notin intents
    BY <2>2, NullAssumption, SparedIsUnowned DEF OriginIntents
  <2>4. /\ \A p \in Spared : index'[p] = index[p]
        /\ UNCHANGED <<dir, intents, task>> /\ pc' \in {"setIntents", "restoreBatches"}
    BY <1>12, <2>1, <2>3, SparedIsUnowned DEF UnsetIntents, SetIntents
  <2> QED BY <1>0, <1>2, <1>3, <2>2, <2>4 DEF LeftAlone, Underway, Alone
<1> QED BY <1>1, <1>5, <1>6, <1>7, <1>8, <1>9, <1>10, <1>11, <1>12 DEF StartStep

LEMMA StopLeavesAlone ==
  Typed /\ LeftAlone /\ Active /\ ~stale /\ StopStep /\ ~RemoveDirectory => LeftAlone'
<1> SUFFICES ASSUME LeftAlone, Active, ~stale, StopStep, ~RemoveDirectory PROVE LeftAlone'
  OBVIOUS
<1> USE DEF repo, memory, ghosts, counts, Goto
<1>0. Underway /\ \A p \in Spared : Alone(p)
  BY LeftAloneParts
<1>1. /\ UNCHANGED <<ghosts, head, work, dir>>
      /\ pc' \in {"restoreRenames", "restoreDeletions", "clearHistory", "removeDirectory"}
  BY DEF StopStep, ResetAutoAdded, RestoreRenames, RestoreDeletions, ClearHistory
<1>2. Spared' \subseteq Spared /\ Owned' = Owned
  BY <1>1, SparedFrame, OriginFrame
<1>3. \A p \in Spared : index'[p] \in {index[p], None}
  <2>1. CASE ResetAutoAdded
    BY <1>0, <2>1, SparedIsUnowned DEF ResetAutoAdded, ResetPaths, Alone
  <2>2. CASE RestoreRenames
    BY <1>0, <2>2, SparedIsUnowned DEF RestoreRenames, Underway
  <2>3. CASE RestoreDeletions
    BY <2>3, SparedIsUnowned DEF RestoreDeletions
  <2>4. CASE ClearHistory
    BY <2>4 DEF ClearHistory
  <2> QED BY <2>1, <2>2, <2>3, <2>4 DEF StopStep
<1> QED BY <1>0, <1>1, <1>2, <1>3 DEF LeftAlone, Underway, Alone

LEMMA AbortLeavesAlone ==
  Typed /\ Recorded /\ LeftAlone /\ Active /\ ~stale /\ AbortStep => LeftAlone'
<1> SUFFICES ASSUME Typed, Recorded, LeftAlone, Active, ~stale, AbortStep PROVE LeftAlone'
  OBVIOUS
<1> USE DEF repo, memory, ghosts, counts, Goto, Exit
<1>0. /\ index \in Index /\ work \in Tree /\ Underway /\ \A p \in Spared : Alone(p)
  BY LeftAloneParts DEF Typed, TypeOK
<1>1. UNCHANGED <<ghosts, dir>>
  BY DEF AbortStep, AbortCheck, DropAutoAdded, ResetHard, DropRenameTargets, ApplyStash,
         RestoreCopies, RestoreBatches
<1>2. Spared' \subseteq Spared /\ Owned' = Owned /\ OriginIntents' = OriginIntents
  BY <1>1, SparedFrame, OriginFrame
<1>3. CASE AbortCheck \/ RestoreBatches
  <2>1. /\ UNCHANGED <<head, index, work>>
        /\ pc' \in {"idle", "dropAutoAdded", "clearHistory"}
    BY <1>3 DEF AbortCheck, RestoreBatches
  <2> QED BY <1>0, <1>1, <1>2, <2>1 DEF LeftAlone, Underway, Alone
<1>4. CASE DropAutoAdded
  <2>1. \A p \in Spared : index'[p] = None
    BY <1>0, <1>4, SparedIsUnowned DEF DropAutoAdded, ResetPaths, Alone
  <2>2. UNCHANGED <<head, work>> /\ pc' = "resetHard"
    BY <1>4 DEF DropAutoAdded
  <2> QED BY <1>0, <1>1, <1>2, <2>1, <2>2 DEF LeftAlone, Underway, Alone
<1>5. CASE ResetHard
  <2>1. \A p \in Spared : dir.marker[p] = None /\ index[p] = None
    BY <1>0, <1>5, SparedIsUnowned DEF ResetHard, Recorded, Alone
  <2>2. /\ head' = dir.marker /\ index' = dir.marker /\ pc' = "dropRenameTargets"
        /\ \A p \in Spared : work'[p] = work[p]
    BY <1>5, <2>1, SparedIsUnowned DEF ResetHard, ResetHardWork
  <2> QED BY <1>0, <1>1, <1>2, <2>1, <2>2 DEF LeftAlone, Underway, Alone
<1>6. CASE DropRenameTargets
  <2>1. \A p \in Spared : work'[p] = work[p]
    BY <1>0, <1>6, SparedIsUnowned DEF DropRenameTargets, Underway
  <2>2. UNCHANGED <<head, index>> /\ pc' = "applyStash"
    BY <1>6 DEF DropRenameTargets
  <2> QED BY <1>0, <1>1, <1>2, <2>1, <2>2 DEF LeftAlone, Underway, Alone
<1>7. CASE ApplyStash
  <2>1. /\ \A p \in Spared : work'[p] = work[p] /\ index'[p] = index[p]
        /\ head' = head
    <3>1. CASE dir.stash \in {Missing, NoStash}
      BY <1>7, <3>1 DEF ApplyStash
    <3>2. CASE Obstructed(dir.stash) /\ dir.stash \notin {Missing, NoStash}
      BY <1>7, <3>2 DEF ApplyStash
    <3>3. CASE ~Obstructed(dir.stash) /\ dir.stash \notin {Missing, NoStash}
      <4>1. dir.stash.index = Normalized
        BY <3>3 DEF Recorded, OriginStash, StashOf
      <4>2. \A p \in Spared : head[p] = None /\ Normalized[p] = None
        BY <1>0, SparedIsUnowned DEF Normalized, Alone
      <4>3. \A p \in Spared : p \notin StashedPaths(dir.stash)
        BY <4>1, <4>2 DEF StashedPaths
      <4> QED BY <1>7, <3>3, <4>3, SparedIsUnowned DEF ApplyStash
    <3> QED BY <3>1, <3>2, <3>3
  <2>2. \/ pc' = "restoreCopies" /\ todo' = dir.list
        \/ pc' = "idle"
    BY <1>7 DEF ApplyStash
  <2> QED BY <1>0, <1>1, <1>2, <2>1, <2>2 DEF LeftAlone, Underway, Alone
<1>8. CASE RestoreCopies
  <2>1. /\ \A p \in Spared : work'[p] = work[p]
        /\ UNCHANGED <<head, index>>
    BY <1>0, <1>8, SparedIsUnowned DEF RestoreCopies, Underway, Tree
  <2>2. \/ pc' = "restoreCopies" /\ todo' \subseteq dir.list
        \/ pc' \in {"restoreBatches", "unsetIntents"} /\ intents' = OriginIntents
    BY <1>0, <1>8 DEF RestoreCopies, Underway, Recorded
  <2> QED BY <1>0, <1>1, <1>2, <2>1, <2>2 DEF LeftAlone, Underway, Alone
<1> QED BY <1>3, <1>4, <1>5, <1>6, <1>7, <1>8 DEF AbortStep

LEMMA CommandLeavesAlone ==
  Typed /\ LeftAlone /\ ~stale /\ CommandStep => LeftAlone'
<1> SUFFICES ASSUME Typed, LeftAlone, ~stale, CommandStep PROVE LeftAlone'
  OBVIOUS
<1> USE DEF repo, memory, ghosts, counts
<1>0. /\ dir \in Dirs /\ index \in Index /\ work \in Tree /\ Active
      /\ Underway /\ \A p \in Spared : Alone(p)
  BY LeftAloneParts DEF Typed, TypeOK, CommandStep, Again, Include, Discard, Apply, ChangeBatch,
     Command
<1>1. pc' = "idle" /\ UNCHANGED <<mine, origin, head>>
  BY IdleFrame DEF CommandStep, Again, Include, Discard, Apply, ChangeBatch, Command
<1>2. ASSUME dir'.renames = dir.renames, dir.list \subseteq dir'.list,
             exposed \subseteq exposed', created \subseteq created',
             \A p \in Spared' : /\ work'[p] = work[p]
                                /\ index'[p] # None => p \in dir'.autoAdded
      PROVE  LeftAlone'
  <2>1. Spared' \subseteq Spared /\ Owned' = Owned
    BY <1>1, <1>2, SparedFrame, OriginFrame
  <2> QED BY <1>0, <1>1, <1>2, <2>1 DEF LeftAlone, Underway, Alone
<1>3. CASE Again
  <2>1. /\ dir'.renames = dir.renames /\ dir'.list = dir.list
        /\ dir'.autoAdded = dir.autoAdded \cup Untracked
    BY <1>0, <1>3 DEF Again, Dirs
  <2>2. Spared' \subseteq Spared
    BY <1>1, <1>3, <2>1, SparedFrame DEF Again
  <2>3. \A p \in Spared : index'[p] # None => p \in dir'.autoAdded
    BY <1>0, <1>3, <2>1, SparedIsUnowned DEF Again, WithIntents, Alone
  <2> QED BY <1>2, <1>3, <2>1, <2>2, <2>3 DEF Again
<1>4. ASSUME NEW p \in Paths, Include(p) PROVE LeftAlone'
  <2>1. /\ dir'.renames = dir.renames /\ dir'.list = dir.list
        /\ dir'.autoAdded = dir.autoAdded \cup (Untracked \cap {p})
    BY <1>0, <1>4, ListedKeeps DEF Include
  <2>2. Spared' \subseteq Spared
    BY <1>1, <1>4, <2>1, SparedFrame DEF Include
  <2>3. \A q \in Spared : index'[q] # None => q \in dir'.autoAdded
    BY <1>0, <1>4, <2>1, SparedIsUnowned DEF Include, Alone, Untracked, Index
  <2> QED BY <1>2, <1>4, <2>1, <2>2, <2>3 DEF Include
<1>5. ASSUME NEW p \in Paths, Discard(p) PROVE LeftAlone'
  <2>1. /\ Listed(p) \in Dirs /\ Listed(p).list = dir.list /\ Listed(p).copies = dir.copies
        /\ Listed(p).renames = dir.renames /\ dir.autoAdded \subseteq Listed(p).autoAdded
    BY <1>0, ListedType, ListedKeeps
  <2>2. /\ dir' = CopyFirst(Listed(p), Shown(p), p) /\ NoteLoss(dir', p)
        /\ created' = created /\ Real(Shown(p)[p]) # work[p]
    BY <1>5 DEF Discard, HasChange
  <2>3. /\ dir'.renames = dir.renames /\ dir.list \subseteq dir'.list
        /\ dir.autoAdded \subseteq dir'.autoAdded
    BY <1>0, <2>1, <2>2, CopyFirstKeeps, CopyFirstCopies
  <2>4. exposed \subseteq exposed'
    BY <2>2 DEF NoteLoss
  <2>5. p \notin Spared'
    <3>1. p \notin dir'.list => Real(Shown(p)[p]) # None
      BY <1>0, <2>1, <2>2, CopyFirstCopies
    <3>2. Real(Shown(p)[p]) # None => Real(index[p]) # None
      BY <1>0 DEF Shown, WithIntents, Real, Index
    <3>3. Real(index[p]) # None => p \in exposed' \cup Owned \cup dir'.list
      BY <2>2 DEF NoteLoss
    <3> QED BY <1>1, <3>1, <3>2, <3>3, OriginFrame DEF Spared
  <2>6. \A q \in Paths \ {p} : work'[q] = work[q] /\ index'[q] = index[q]
    BY <1>0, <1>5 DEF Discard, Tree, Index
  <2>7. Spared' \subseteq Spared
    BY <1>1, <2>2, <2>3, <2>4, SparedFrame
  <2> QED BY <1>0, <1>2, <2>2, <2>3, <2>4, <2>5, <2>6, <2>7, SparedIsUnowned DEF Alone
<1>6. ASSUME NEW p \in Paths, NEW v \in Contents, Apply(p, v) PROVE LeftAlone'
  <2>1. /\ dir' = CopyFirst(dir, index, p) /\ NoteLoss(dir', p) /\ index' = index
        /\ created' = IF Real(index[p]) = None /\ work[p] = None THEN created \cup {p} ELSE created
    BY <1>6 DEF Apply
  <2>2. /\ dir'.renames = dir.renames /\ dir.list \subseteq dir'.list
        /\ dir'.autoAdded = dir.autoAdded
    BY <1>0, <2>1, CopyFirstKeeps, CopyFirstCopies
  <2>3. exposed \subseteq exposed' /\ created \subseteq created'
    BY <2>1 DEF NoteLoss
  <2>4. p \notin Spared'
    <3>1. p \notin dir'.list => Real(index[p]) # None \/ p \in created'
      BY <1>0, <2>1, CopyFirstCopies
    <3>2. Real(index[p]) # None => p \in exposed' \cup Owned \cup dir'.list
      BY <2>1 DEF NoteLoss
    <3> QED BY <1>1, <3>1, <3>2, OriginFrame DEF Spared
  <2>5. \A q \in Paths \ {p} : work'[q] = work[q]
    BY <1>0, <1>6 DEF Apply, Tree
  <2>6. Spared' \subseteq Spared
    BY <1>1, <2>2, <2>3, SparedFrame
  <2> QED BY <1>0, <1>2, <2>1, <2>2, <2>3, <2>4, <2>5, <2>6, SparedIsUnowned DEF Alone
<1>7. ASSUME NEW b \in BatchStates, ChangeBatch(b) PROVE LeftAlone'
  <2>1. Spared' \subseteq Spared
    BY <1>1, <1>7, SparedFrame DEF ChangeBatch
  <2> QED BY <1>0, <1>2, <1>7, <2>1 DEF ChangeBatch, Alone
<1> QED BY <1>3, <1>4, <1>5, <1>6, <1>7 DEF CommandStep

LEMMA UserLeavesAlone ==
  Typed /\ LeftAlone /\ Active /\ ~stale /\ UserStep => LeftAlone'
<1> SUFFICES ASSUME Typed, LeftAlone, Active, ~stale, UserStep PROVE LeftAlone'
  OBVIOUS
<1>0. /\ index \in Index /\ work \in Tree /\ mine \in Tree
      /\ Underway /\ \A p \in Spared : Alone(p)
  BY LeftAloneParts DEF Typed, TypeOK
<1>1. /\ pc' = "idle" /\ UNCHANGED <<origin, dir, created, index>> /\ exposed \subseteq exposed'
  BY IdleFrame DEF UserStep, Commit, Edit, UserActs
<1>2. Spared' \subseteq Spared /\ Owned' = Owned
  BY <1>1, SparedFrame, OriginFrame
<1>3. CASE Commit
  <2>1. /\ UNCHANGED <<work, mine>>
        /\ \A p \in Spared' : head'[p] = None
    <3>1. exposed' = exposed \cup {p \in Paths \ (Owned \cup dir.list) : Real(index[p]) # None}
      BY <1>3 DEF Commit
    <3>2. \A p \in Spared : Real(index[p]) # None => p \in exposed'
      BY <3>1, SparedIsUnowned
    <3>3. \A p \in Spared' : p \notin exposed'
      BY DEF Spared
    <3> QED BY <1>2, <1>3, <3>2, <3>3, SparedIsUnowned DEF Commit
  <2> QED BY <1>0, <1>1, <1>2, <2>1 DEF LeftAlone, Underway, Alone
<1>4. ASSUME NEW p \in Paths, NEW v \in Contents \cup {None}, Edit(p, v) PROVE LeftAlone'
  <2>1. head' = head
    BY <1>4 DEF Edit
  <2>2. \A q \in Spared : work'[q] = mine'[q]
    BY <1>0, <1>4, SparedIsUnowned DEF Edit, Alone, Tree
  <2> QED BY <1>0, <1>1, <1>2, <2>1, <2>2 DEF LeftAlone, Underway, Alone
<1> QED BY <1>3, <1>4 DEF UserStep

LEMMA LeftAloneStep ==
  Typed /\ Opening /\ Prepared /\ Recorded /\ LeftAlone /\ [Next]_vars => LeftAlone'
<1> SUFFICES ASSUME Typed, Opening, Prepared, Recorded, LeftAlone, [Next]_vars,
                    Active', ~stale'
             PROVE  LeftAlone'
  BY DEF LeftAlone
<1>1. CASE RemoveDirectory
  BY <1>1 DEF RemoveDirectory, EmptyDir, Active
<1>2. CASE Crash
  <2>1. Active
    BY <1>2, InactiveFrame DEF Crash, Exit, Publish, Goto
  <2>2. /\ ~stale /\ UNCHANGED <<repo, dir, mine, origin, exposed, created>>
        /\ pc' = "idle"
    BY <1>2 DEF Crash, Exit
  <2>3. Spared' \subseteq Spared /\ Owned' = Owned
    BY <2>2, SparedFrame, OriginFrame
  <2> QED BY <2>1, <2>2, <2>3 DEF LeftAlone, repo
<1>3. CASE Publish
  <2>1. ~stale
    BY <1>3 DEF Publish, ghosts
  <2> QED BY <1>3, <2>1, PublishLeavesAlone
<1>4. CASE Active /\ ~RemoveDirectory /\ ~Crash
  <2>1. ~stale /\ ~Start
    BY <1>4, ActiveFrame
  <2>2. CASE StartStep
    BY <1>4, <2>1, <2>2, StartLeavesAlone
  <2>3. CASE StopStep
    BY <1>4, <2>1, <2>3, StopLeavesAlone
  <2>4. CASE AbortStep
    BY <1>4, <2>1, <2>4, AbortLeavesAlone
  <2>5. CASE CommandStep
    BY <2>1, <2>5, CommandLeavesAlone
  <2>6. CASE UserStep
    BY <1>4, <2>1, <2>6, UserLeavesAlone
  <2>7. CASE Stop \/ Abort \/ UNCHANGED vars
    <3>1. /\ UNCHANGED <<repo, dir, mine, origin, exposed, created, intents, todo>>
          /\ \/ pc' \in {"resetAutoAdded", "abortCheck"}
             \/ UNCHANGED <<pc, task>>
      BY <2>7 DEF Stop, Abort, vars, memory, ghosts
    <3>2. /\ Spared' \subseteq Spared /\ Owned' = Owned /\ OriginIntents' = OriginIntents
          /\ Untracked' = Untracked
      BY <3>1, SparedFrame, OriginFrame DEF Untracked, repo
    <3> QED BY <1>4, <2>1, <3>1, <3>2 DEF LeftAlone, repo
  <2> QED BY <1>4, <2>1, <2>2, <2>3, <2>4, <2>5, <2>6, <2>7 DEF Next
<1> QED BY <1>1, <1>2, <1>3, <1>4, InactiveFrame

-----------------------------------------------------------------------------
(* The theorems.                                                           *)

Inv == Typed /\ Recovery

LEMMA InvInit == Init => Inv
<1>1. Init => Recorded /\ LeftAlone /\ Copied
  BY DEF Init, Recorded, LeftAlone, Copied, Active, EmptyDir
<1> QED BY <1>1, TypedInit, OpeningInit, PreparedInit DEF Inv, Recovery

LEMMA InvStep == Inv /\ [Next]_vars => Inv'
BY TypedStep, OpeningStep, PreparedStep, SweptStep, RecordedStep, CopiedStep, LeftAloneStep
DEF Inv, Recovery

LEMMA InvHolds == Spec => []Inv
BY InvInit, InvStep, PTL DEF Spec

\* Once head.txt makes the session active and until the session is cleared,
\* session/ holds the HEAD, the index, the tracked files, the intents and the
\* batches from before `start`, the objects are anchored, and every copy that
\* a command wrote nothing to before is what the user left in the file.
THEOREM ActiveRecoverable == Spec => []ActiveMeansRecoverable
<1>1. Inv => ActiveMeansRecoverable
  <2> SUFFICES ASSUME Inv, Active, ~stale PROVE ActiveMeansRecoverable
    BY DEF ActiveMeansRecoverable
  <2>1. Recorded /\ Copied /\ batches \in BatchStates /\ origin.batches \in BatchStates
    BY DEF Inv, Recovery, Typed, TypeOK
  <2>2. pc # "removeDirectory" => Recoverable
    BY <2>1, NullAssumption DEF Recoverable, Recorded, Copied
  <2> QED BY <2>1, <2>2
          DEF ActiveMeansRecoverable, Recorded, Copied, OriginStash, OriginIntents
<1> QED BY <1>1, InvHolds, PTL

\* A `start` that ends before the session is active, at whichever step, has
\* lost none of the user's work: only intent-to-add entries may be missing.
THEOREM WorkKept == Spec => []InactiveStartKeepsWork
<1>1. Inv => InactiveStartKeepsWork
  <2> SUFFICES ASSUME Inv, task = "start", ~Active PROVE InactiveStartKeepsWork
    BY DEF InactiveStartKeepsWork
  <2>1. Opening /\ pc \in BeforeMarker \cup Clearing
    BY DEF Inv, Recovery, Typed, Control
  <2>2. \A p \in Paths : origin.index[p] # IntentToAdd => p \in Paths \ OriginIntents
    BY DEF OriginIntents
  <2> QED BY <2>1, <2>2 DEF Opening, InactiveStartKeepsWork
<1> QED BY <1>1, InvHolds, PTL

\* A `start` that fails before the session is claimed has put the index, the
\* files and the batches back when it is over, the intents included but for
\* those at which git failed a second time.
THEOREM FailedStart == Spec => FailedStartLeavesNoTrace
<1>1. Inv /\ [Next]_vars =>
        [Completes("start") =>
           /\ head = origin.head /\ work = origin.work /\ batches = origin.batches
           /\ \A p \in Paths :
                IF p \in unrestored THEN /\ origin.index[p] = IntentToAdd
                                        /\ index[p] \in {None, origin.head[p]}
                ELSE index[p] = origin.index[p]]_vars
  BY DEF Inv, Recovery, Opening, OriginIntents, Completes, Clearing
<1> QED BY <1>1, InvHolds, PTL DEF Spec, FailedStartLeavesNoTrace

\* No step of `stop` changes an entry whose content differs from HEAD's: what
\* the user staged is staged afterwards.
THEOREM StagedWorkKept == Spec => StopKeepsStagedWork
<1>1. Inv /\ [Next]_vars =>
        [task = "stop" => \A p \in Paths : CachedDiff(p) => index'[p] = index[p]]_vars
  <2> SUFFICES ASSUME Inv, Next, task = "stop", NEW p \in Paths, CachedDiff(p)
               PROVE  index'[p] = index[p]
    OBVIOUS
  <2>0. pc \in Stopping \cup Clearing
    BY DEF Inv, Typed, Control
  <2>1. ~Start /\ ~Stop /\ ~Abort /\ ~CommandStep /\ ~UserStep
    BY <2>0, IdleFrame DEF Start, Stop, Abort, Idle, Stopping, Clearing
  <2>2. ~AbortStep
    BY <2>0 DEF AbortStep, AbortCheck, DropAutoAdded, ResetHard, DropRenameTargets, ApplyStash,
                RestoreCopies, RestoreBatches, Stopping, Clearing
  <2>3. ~StartStep
    BY <2>0 DEF StartStep, CopyIntents, DropNewIntents, ResetTrackedIntents, CreateStash,
                UnsetIntents, SetIntents, SaveStash, SaveBatches, Anchor, RecordAnchors, Publish,
                Claim, NoteRenames, ResetRenames, NoteDeletions, ResetDeletions, ListUntracked,
                AddUntracked, Fetch, StartFails, RestorationFails, Stopping, Clearing
  <2>4. CASE Crash \/ ClearHistory \/ RemoveDirectory
    BY <2>4 DEF Crash, ClearHistory, RemoveDirectory, repo
  <2>5. CASE ResetAutoAdded
    BY <2>5 DEF ResetAutoAdded, ResetPaths
  <2>6. CASE RestoreRenames
    BY <2>6 DEF RestoreRenames, Untouched
  <2>7. CASE RestoreDeletions
    BY <2>7 DEF RestoreDeletions, Untouched
  <2> QED BY <2>1, <2>2, <2>3, <2>4, <2>5, <2>6, <2>7 DEF Next, StopStep
<1> QED BY <1>1, InvHolds, PTL DEF Spec, StopKeepsStagedWork

-----------------------------------------------------------------------------
(* Abort                                                                       *)

\* The copies that `start` made, of the files of intents, are still those, and
\* every later copy of a path that was tracked is noted.
FirstCopies ==
  /\ copied \subseteq Owned
  /\ ~stale /\ (Active \/ (task = "start" /\ pc \in BeforeMarker \ {"copyIntents"})) =>
       /\ \A p \in OriginIntents : origin.work[p] # None =>
            p \in dir.list /\ dir.copies[p] = origin.work[p]
       /\ \A p \in dir.list \cap Owned :
            p \in copied \/ (p \in OriginIntents /\ origin.work[p] # None)

Applied == {"restoreCopies", "unsetIntents", "setIntents", "restoreBatches"} \cup Clearing

\* What an abort has restored, from step to step.
Restored ==
  task = "abort" /\ ~stale =>
    /\ pc \in {"dropRenameTargets", "applyStash"} \cup Applied => head = origin.head
    /\ pc \in {"dropRenameTargets", "applyStash"} =>
         /\ index = origin.head
         /\ \A p \in Paths : origin.head[p] # None => work[p] = origin.head[p]
    /\ pc \in Applied =>
         /\ \A p \in Paths \ Owned : index[p] = None
         /\ \A p \in Owned \ OriginIntents : index[p] = origin.index[p]
         /\ \A p \in Owned \ dir.list : Fileless(p) \/ work[p] = origin.work[p]
         /\ \A p \in dir.list \ todo : work[p] = dir.copies[p]
         /\ pc # "restoreCopies" => todo = {}
    /\ pc \in {"restoreBatches"} \cup Clearing =>
         \A p \in OriginIntents : index[p] = IntentToAdd
    /\ pc \in Clearing => batches = origin.batches

LEMMA OwnedIntents == OriginIntents \subseteq Owned
BY NullAssumption DEF OriginIntents, Owned

LEMMA FirstCopiesInit == Init => FirstCopies
BY DEF Init, FirstCopies, Active, EmptyDir

LEMMA FirstCopiesFrame ==
  ASSUME FirstCopies, UNCHANGED <<origin, copied>>, ~stale' => ~stale,
         dir'.list = dir.list, dir'.copies = dir.copies,
         Active' => Active \/ (task = "start" /\ pc \in BeforeMarker \ {"copyIntents"}),
         task' = "start" /\ pc' \in BeforeMarker \ {"copyIntents"} =>
           Active \/ (task = "start" /\ pc \in BeforeMarker \ {"copyIntents"})
  PROVE  FirstCopies'
BY OriginFrame DEF FirstCopies

\* A copy that a command makes is of a path without one.
LEMMA FirstCopiesKept ==
  ASSUME FirstCopies, Active, dir \in Dirs, UNCHANGED <<origin, stale>>, NEW p \in Paths,
         NEW d \in Dirs, d.list = dir.list, d.copies = dir.copies, NEW i,
         dir' = CopyFirst(d, i, p), NoteCopy(CopyFirst(d, i, p))
  PROVE  FirstCopies'
<1>1. /\ \A q \in dir.list : q \in dir'.list /\ dir'.copies[q] = dir.copies[q]
      /\ dir'.list \subseteq dir.list \cup {p}
  BY CopyFirstCopies
<1>2. copied' = copied \cup ((dir'.list \ dir.list) \cap Owned)
  BY DEF NoteCopy
<1> QED BY <1>1, <1>2, OriginFrame DEF FirstCopies

LEMMA FirstCopiesStep == Inv /\ FirstCopies /\ [Next]_vars => FirstCopies'
<1> SUFFICES ASSUME Inv, FirstCopies, [Next]_vars PROVE FirstCopies'
  OBVIOUS
<1> USE DEF repo, memory, ghosts, counts, Exit, Goto
<1>0. /\ dir \in Dirs /\ work \in Tree /\ index \in Index
      /\ task \in {"none", "start", "stop", "abort"}
  BY DEF Inv, Typed, TypeOK
<1>1. CASE Start
  <2>1. copied' = {} /\ pc' = "copyIntents" /\ ~Active'
    BY <1>1 DEF Start, Active
  <2> QED BY <2>1 DEF FirstCopies
<1>2. CASE CopyIntents
  <2>1. task = "start" /\ ~Active
    BY <1>2 DEF CopyIntents, Inv, Typed, TypeOK, Control, BeforeMarker, Stopping, Restoring,
                Clearing
  <2>2. work = origin.work /\ Intents = OriginIntents
    BY <1>2, <2>1 DEF CopyIntents, Inv, Recovery, Opening, BeforeMarker, Clearing, Intents,
                      OriginIntents
  <2>3. ~stale => dir.list = {}
    BY <1>2, <2>1 DEF CopyIntents, Inv, Recovery, Prepared, BeforeMarker, EmptyDir
  <2>4. /\ dir'.list = dir.list \cup Uncopied(Intents)
        /\ \A p \in Uncopied(Intents) : dir'.copies[p] = work[p]
    BY <1>0, <1>2 DEF CopyIntents, WithCopies, Uncopied, Intents, Dirs, Tree
  <2>5. ~stale => Uncopied(Intents) = {p \in OriginIntents : origin.work[p] # None}
    BY <2>2, <2>3 DEF Uncopied, OriginIntents, Intents, Real
  <2>6. UNCHANGED <<origin, copied, stale>>
    BY <1>2 DEF CopyIntents
  <2> QED BY <2>2, <2>3, <2>4, <2>5, <2>6, OriginFrame DEF FirstCopies
<1>3. CASE Active /\ ~RemoveDirectory /\ ~Crash /\ ~CommandStep
  <2>1. UNCHANGED <<origin, stale>> /\ ~Start /\ Active'
    BY <1>3, ActiveFrame DEF Inv
  <2>2. CASE StartStep /\ ~CopyIntents
    BY <1>0, <1>3, <2>2, <2>1, FirstCopiesFrame
       DEF StartStep, DropNewIntents, ResetTrackedIntents, CreateStash, UnsetIntents, SetIntents,
           SaveStash, SaveBatches, Anchor, RecordAnchors, Publish, Claim, NoteRenames,
           ResetRenames, NoteDeletions, ResetDeletions, ListUntracked, AddUntracked, Fetch,
           StartFails, RestorationFails, Dirs
  <2>3. CASE StopStep
    BY <1>3, <2>1, <2>3, FirstCopiesFrame
       DEF StopStep, ResetAutoAdded, RestoreRenames, RestoreDeletions, ClearHistory
  <2>4. CASE AbortStep
    BY <1>3, <2>1, <2>4, FirstCopiesFrame
       DEF AbortStep, AbortCheck, DropAutoAdded, ResetHard, DropRenameTargets, ApplyStash,
           RestoreCopies, RestoreBatches
  <2>5. CASE Stop \/ Abort \/ UserStep \/ UNCHANGED vars
    BY <1>3, <2>1, <2>5, FirstCopiesFrame DEF Stop, Abort, UserStep, Commit, Edit, UserActs, vars
  <2> QED BY <1>2, <1>3, <2>1, <2>2, <2>3, <2>4, <2>5 DEF Next
<1>4. CASE ~Active /\ StartStep /\ ~CopyIntents
  <2>1. /\ UNCHANGED <<origin, copied, stale>>
        /\ dir'.list = dir.list /\ dir'.copies = dir.copies
    BY <1>0, <1>4
       DEF StartStep, DropNewIntents, ResetTrackedIntents, CreateStash, UnsetIntents, SetIntents,
           SaveStash, SaveBatches, Anchor, RecordAnchors, Publish, Claim, NoteRenames,
           ResetRenames, NoteDeletions, ResetDeletions, ListUntracked, AddUntracked, Fetch,
           StartFails, RestorationFails, Dirs
  <2>2. Active' => Publish
    BY <1>4, InactiveFrame DEF Inv
  <2>3. Publish => task = "start" /\ pc \in BeforeMarker \ {"copyIntents"}
    BY <1>0 DEF Publish, Inv, Typed, Control, BeforeMarker, Stopping, Restoring, Clearing
  <2>4. task' = "start" /\ pc' \in BeforeMarker \ {"copyIntents"} =>
          task = "start" /\ pc \in BeforeMarker \ {"copyIntents"}
    BY <1>0, <1>4
       DEF StartStep, DropNewIntents, ResetTrackedIntents, CreateStash, UnsetIntents, SetIntents,
           SaveStash, SaveBatches, Anchor, RecordAnchors, Publish, Claim, NoteRenames,
           ResetRenames, NoteDeletions, ResetDeletions, ListUntracked, AddUntracked, Fetch,
           StartFails, RestorationFails, Handler, BeforeMarker, Inv, Typed, Control
  <2> QED BY <2>1, <2>2, <2>3, <2>4, FirstCopiesFrame
<1>5. CASE ~Active /\ ~StartStep /\ ~Start /\ ~RemoveDirectory /\ ~Crash
  <2>1. ~Active'
    BY <1>5, InactiveFrame DEF Inv, StartStep
  <2>2. ~CommandStep
    BY <1>5 DEF CommandStep, Again, Include, Discard, Apply, ChangeBatch, Command
  <2>3. ~AbortStep
    <3>1. pc \in {"abortCheck", "dropAutoAdded", "resetHard", "dropRenameTargets", "applyStash",
                  "restoreCopies", "restoreBatches"} => Active
      BY <1>0 DEF Inv, Typed, Control, BeforeMarker, AfterMarker, Stopping, Clearing
    <3> QED BY <1>5, <3>1 DEF AbortStep, AbortCheck, DropAutoAdded, ResetHard, DropRenameTargets,
                              ApplyStash, RestoreCopies, RestoreBatches
  <2>4. CASE StopStep
    BY <1>5, <2>1, <2>4, FirstCopiesFrame
       DEF StopStep, ResetAutoAdded, RestoreRenames, RestoreDeletions, ClearHistory, BeforeMarker
  <2>5. CASE Stop \/ Abort \/ UserStep \/ UNCHANGED vars
    BY <1>5, <2>1, <2>5, FirstCopiesFrame
       DEF Stop, Abort, UserStep, Commit, Edit, UserActs, vars
  <2> QED BY <1>5, <2>2, <2>3, <2>4, <2>5 DEF Next
<1>6. CASE RemoveDirectory
  <2>1. ~Active' /\ task' = "none" /\ UNCHANGED <<origin, copied>>
    BY <1>6 DEF RemoveDirectory, EmptyDir, Active
  <2> QED BY <2>1, OriginFrame DEF FirstCopies
<1>7. CASE Crash
  <2>1. /\ task' = "none" /\ UNCHANGED <<origin, copied>>
        /\ ~stale' => ~stale /\ UNCHANGED dir
    BY <1>7 DEF Crash
  <2> QED BY <2>1, OriginFrame DEF FirstCopies, Active
<1>8. CASE CommandStep
  <2>0. Active /\ UNCHANGED <<origin, stale>> /\ task' = task /\ task = "none"
    BY <1>8, IdleFrame DEF CommandStep, Again, Include, Discard, Apply, ChangeBatch, Command,
                           Inv, Typed, Control
  <2>1. CASE Again
    BY <1>0, <2>0, <2>1, FirstCopiesFrame DEF Again, Dirs
  <2>2. ASSUME NEW p \in Paths, Include(p) PROVE FirstCopies'
    <3>1. dir'.list = dir.list /\ dir'.copies = dir.copies
      BY <1>0, <2>2, ListedKeeps DEF Include
    <3> QED BY <2>0, <2>2, <3>1, FirstCopiesFrame DEF Include
  <2>3. ASSUME NEW p \in Paths, Discard(p) PROVE FirstCopies'
    <3>1. dir' = CopyFirst(Listed(p), Shown(p), p) /\ NoteCopy(CopyFirst(Listed(p), Shown(p), p))
      BY <2>3 DEF Discard
    <3>2. Listed(p) \in Dirs /\ Listed(p).list = dir.list /\ Listed(p).copies = dir.copies
      BY <1>0, ListedKeeps, ListedType
    <3> QED BY <1>0, <2>0, <3>1, <3>2, FirstCopiesKept
  <2>4. ASSUME NEW p \in Paths, NEW v \in Contents, Apply(p, v) PROVE FirstCopies'
    <3>1. dir' = CopyFirst(dir, index, p) /\ NoteCopy(CopyFirst(dir, index, p))
      BY <2>4 DEF Apply
    <3> QED BY <1>0, <2>0, <3>1, FirstCopiesKept
  <2>5. ASSUME NEW b \in BatchStates, ChangeBatch(b) PROVE FirstCopies'
    BY <2>0, <2>5, FirstCopiesFrame DEF ChangeBatch
  <2> QED BY <1>8, <2>1, <2>2, <2>3, <2>4, <2>5 DEF CommandStep
<1> QED BY <1>1, <1>2, <1>3, <1>4, <1>5, <1>6, <1>7, <1>8

-----------------------------------------------------------------------------
\* What git stash create and git stash apply make of a tracked path.
LEMMA StashTells ==
  ASSUME Typed
  PROVE  /\ OriginStash \in {Missing, NoStash} =>
              \A p \in Paths : origin.head[p] # None \/ Normalized[p] # None =>
                origin.head[p] = Normalized[p] /\ Normalized[p] = origin.work[p]
         /\ OriginStash \notin {Missing, NoStash} =>
              /\ OriginStash.index = Normalized
              /\ \A p \in Paths : origin.head[p] # None \/ Normalized[p] # None =>
                   Fileless(p) \/ OriginStash.work[p] = origin.work[p]
<1>0. origin.head \in Tree /\ origin.work \in Tree /\ origin.index \in Index
  BY DEF Typed, TypeOK
<1>1. Normalized \in Tree
  BY <1>0 DEF Normalized, Tree, Index
<1> DEFINE Same == \A p \in {q \in Paths : origin.head[q] # None \/ Normalized[q] # None} :
                     origin.head[p] = Normalized[p] /\ Normalized[p] = origin.work[p]
           Kept(p) == IF origin.head[p] = None /\ origin.work[p] = None
                      THEN Normalized[p] ELSE origin.work[p]
           Stash == [index |-> Normalized,
                     work  |-> [p \in Paths |->
                       IF p \in {q \in Paths : origin.head[q] # None \/ Normalized[q] # None}
                       THEN Kept(p) ELSE None]]
<1>2. OriginStash = IF Same THEN NoStash ELSE Stash
  BY DEF OriginStash, StashOf
<1>3. Stash \in [index : Tree, work : Tree]
  BY <1>0, <1>1 DEF Tree
<1>4. Stash \notin {Missing, NoStash}
  BY <1>3, FileAssumption
<1>5. OriginStash \in {Missing, NoStash} => Same
  BY <1>2, <1>4
<1>6. OriginStash \notin {Missing, NoStash} => OriginStash = Stash
  BY <1>2
<1> QED BY <1>5, <1>6 DEF Fileless

LEMMA ApplyStashRestores ==
  Inv /\ FirstCopies /\ Restored /\ ApplyStash /\ task' = "abort" /\ ~stale' => Restored'
<1> SUFFICES ASSUME Inv, FirstCopies, Restored, ApplyStash, task' = "abort", ~stale'
             PROVE  Restored'
  OBVIOUS
<1> USE DEF repo, memory, ghosts, counts, Exit, Goto
<1>0. /\ UNCHANGED <<head, dir, origin, batches>> /\ ~stale /\ task = "abort" /\ pc = "applyStash"
      /\ pc' = "restoreCopies" /\ todo' = dir.list
  BY DEF ApplyStash
<1>1. /\ Active /\ dir.stash = OriginStash
  BY <1>0 DEF Inv, Recovery, Swept, Recorded
<1>2. /\ head = origin.head /\ index = origin.head
      /\ \A p \in Paths : origin.head[p] # None => work[p] = origin.head[p]
  BY <1>0 DEF Restored
<1>3. /\ \A p \in Paths \ Owned : origin.head[p] = None /\ Normalized[p] = None
      /\ \A p \in Owned \ OriginIntents : p \in Paths /\ Normalized[p] = origin.index[p]
      /\ \A p \in OriginIntents : Normalized[p] = origin.head[p]
  BY DEF Owned, OriginIntents, Normalized
<1>4. \A p \in Owned \ dir.list : origin.head[p] # None \/ Normalized[p] # None \/ Fileless(p)
  <2>1. \A p \in OriginIntents \ dir.list : origin.work[p] = None
    BY <1>0, <1>1 DEF FirstCopies
  <2> QED BY <1>3, <2>1 DEF Owned, Fileless
<1>5. /\ \A p \in Paths \ Owned : index'[p] = None
      /\ \A p \in Owned \ OriginIntents : index'[p] = origin.index[p]
      /\ \A p \in Owned \ dir.list : Fileless(p) \/ work'[p] = origin.work[p]
  <2>1. CASE OriginStash \in {Missing, NoStash}
    <3>1. UNCHANGED <<index, work>>
      BY <1>1, <2>1 DEF ApplyStash
    <3>2. \A p \in Paths : origin.head[p] # None \/ Normalized[p] # None =>
            origin.head[p] = Normalized[p] /\ Normalized[p] = origin.work[p]
      BY <2>1, StashTells DEF Inv
    <3>3. \A p \in Owned \ OriginIntents : index'[p] = origin.index[p]
      BY <1>2, <1>3, <3>1, <3>2
    <3>4. \A p \in Owned \ dir.list : Fileless(p) \/ work'[p] = origin.work[p]
      BY <1>2, <1>4, <3>1, <3>2 DEF Owned
    <3> QED BY <1>2, <1>3, <3>1, <3>3, <3>4
  <2>2. CASE OriginStash \notin {Missing, NoStash}
    <3>1. /\ index' = [p \in Paths |->
                IF p \in StashedPaths(dir.stash) THEN dir.stash.index[p] ELSE index[p]]
          /\ work' = [p \in Paths |->
                IF p \in StashedPaths(dir.stash) THEN dir.stash.work[p] ELSE work[p]]
      BY <1>0, <1>1, <2>2 DEF ApplyStash
    <3>2. /\ dir.stash.index = Normalized
          /\ \A p \in Paths : origin.head[p] # None \/ Normalized[p] # None =>
               Fileless(p) \/ dir.stash.work[p] = origin.work[p]
      BY <1>1, <2>2, StashTells DEF Inv
    <3>3. StashedPaths(dir.stash) = {p \in Paths : origin.head[p] # None \/ Normalized[p] # None}
      BY <1>2, <3>2 DEF StashedPaths
    <3>4. \A p \in Paths : index'[p] = Normalized[p]
      BY <1>2, <3>1, <3>2, <3>3
    <3>5. \A p \in Owned \ dir.list : Fileless(p) \/ work'[p] = origin.work[p]
      BY <1>4, <3>1, <3>2, <3>3 DEF Owned
    <3> QED BY <1>3, <3>4, <3>5
  <2> QED BY <2>1, <2>2
<1> QED BY <1>0, <1>2, <1>5, OriginFrame DEF Restored, Fileless, Clearing

LEMMA RestoredStep == Inv /\ FirstCopies /\ Restored /\ [Next]_vars => Restored'
<1> SUFFICES ASSUME Inv, FirstCopies, Restored, [Next]_vars, task' = "abort", ~stale'
             PROVE  Restored'
  BY DEF Restored
<1> USE DEF repo, memory, ghosts, counts, Exit, Goto, Applied, Clearing
<1>0. /\ index \in Index /\ work \in Tree /\ dir.list \subseteq Paths
      /\ OriginIntents \subseteq Paths
  BY DEF Inv, Typed, TypeOK, Dirs, OriginIntents
<1>1. CASE Abort \/ StartFails \/ AbortCheck \/ DropAutoAdded
  <2>1. pc' \in {"abortCheck", "dropAutoAdded", "resetHard"}
    BY <1>1 DEF Abort, StartFails, AbortCheck, DropAutoAdded
  <2> QED BY <2>1 DEF Restored
<1>2. CASE ApplyStash
  BY <1>2, ApplyStashRestores
<1>3. CASE ResetHard \/ DropRenameTargets \/ RestoreCopies \/ UnsetIntents \/ SetIntents
             \/ RestoreBatches \/ ClearHistory
  <2>0. /\ UNCHANGED <<dir, origin>> /\ ~stale /\ task = "abort"
    BY <1>3 DEF ResetHard, DropRenameTargets, RestoreCopies, UnsetIntents, SetIntents,
                RestoreBatches, ClearHistory
  <2>1. /\ Active /\ dir.marker = origin.head /\ dir.batches = origin.batches
        /\ dir.ita = OriginIntents
    BY <2>0 DEF Inv, Recovery, Swept, Recorded
  <2>2. /\ OriginIntents' = OriginIntents /\ Owned' = Owned
        /\ \A p : Fileless(p)' = Fileless(p)
    BY <2>0, OriginFrame DEF Fileless
  <2>3. CASE ResetHard
    BY <2>0, <2>1, <2>3 DEF ResetHard, ResetHardWork, Restored
  <2>4. CASE DropRenameTargets
    BY <2>0, <2>4 DEF DropRenameTargets, Restored
  <2>5. CASE RestoreCopies
    <3>1. CASE todo = {}
      <4>1. OriginIntents = {} \/ pc' = "unsetIntents"
        BY <2>1, <2>5, <3>1 DEF RestoreCopies
      <4>2. /\ UNCHANGED <<head, index, work, todo>> /\ pc = "restoreCopies"
            /\ pc' \in {"restoreBatches", "unsetIntents"}
        BY <2>5, <3>1 DEF RestoreCopies
      <4> QED BY <2>0, <2>2, <3>1, <4>1, <4>2 DEF Restored
    <3>2. ASSUME NEW p \in todo, work' = [work EXCEPT ![p] = dir.copies[p]], todo' = todo \ {p}
          PROVE  Restored'
      <4>1. UNCHANGED <<pc, head, index>> /\ pc = "restoreCopies"
        BY <2>5, <3>2 DEF RestoreCopies
      <4>2. p \in dir.list
        BY <2>0, <2>1, <4>1 DEF Inv, Recovery, LeftAlone
      <4>3. \A q \in dir.list \ todo' : work'[q] = dir.copies[q]
        BY <1>0, <2>0, <3>2, <4>1 DEF Restored, Tree
      <4>4. \A q \in Owned \ dir.list : work'[q] = work[q]
        BY <1>0, <3>2, <4>2 DEF Owned, Tree
      <4> QED BY <2>0, <2>2, <4>1, <4>3, <4>4 DEF Restored
    <3> QED BY <2>5, <3>1, <3>2 DEF RestoreCopies
  <2>6. CASE UnsetIntents \/ SetIntents
    <3>1. intents = OriginIntents
      BY <2>0, <2>1, <2>6 DEF UnsetIntents, SetIntents, Inv, Recovery, LeftAlone
    <3>2. /\ \A p \in Paths \ OriginIntents : index'[p] = index[p]
          /\ SetIntents => \A p \in OriginIntents : index'[p] = IntentToAdd
      BY <1>0, <2>6, <3>1 DEF UnsetIntents, SetIntents
    <3>3. /\ UNCHANGED <<head, work, todo>> /\ pc \in {"unsetIntents", "setIntents"}
          /\ \/ UnsetIntents /\ pc' = "setIntents"
             \/ SetIntents /\ pc' = "restoreBatches"
      BY <2>0, <2>6 DEF UnsetIntents, SetIntents
    <3> QED BY <2>0, <2>2, <3>2, <3>3, OwnedIntents DEF Restored, Owned
  <2>7. CASE RestoreBatches
    BY <2>0, <2>1, <2>2, <2>7 DEF RestoreBatches, Restored
  <2>8. CASE ClearHistory
    BY <2>0, <2>2, <2>8 DEF ClearHistory, Restored
  <2> QED BY <1>3, <2>3, <2>4, <2>5, <2>6, <2>7, <2>8
<1>4. CASE UNCHANGED vars
  <2>1. OriginIntents' = OriginIntents /\ Owned' = Owned /\ \A p : Fileless(p)' = Fileless(p)
    BY <1>4, OriginFrame DEF vars, Fileless
  <2> QED BY <1>4, <2>1 DEF Restored, vars
<1>5. ~(Start \/ Stop \/ Crash \/ RemoveDirectory \/ CommandStep \/ UserStep \/ RestorationFails)
  BY IdleFrame DEF Start, Stop, Crash, RemoveDirectory, RestorationFails, Inv, Typed, Control
<1>6. ~(StartStep /\ ~StartFails /\ ~UnsetIntents /\ ~SetIntents)
  BY <1>5 DEF StartStep, CopyIntents, DropNewIntents, ResetTrackedIntents, CreateStash, SaveStash,
         SaveBatches, Anchor, RecordAnchors, Publish, Claim, NoteRenames, ResetRenames,
         NoteDeletions, ResetDeletions, ListUntracked, AddUntracked, Fetch, Inv, Typed, Control,
         BeforeMarker, AfterMarker, Stopping, Restoring
<1>7. ~(ResetAutoAdded \/ RestoreRenames \/ RestoreDeletions)
  BY DEF ResetAutoAdded, RestoreRenames, RestoreDeletions, Inv, Typed, Control, Restoring
<1> QED BY <1>1, <1>2, <1>3, <1>4, <1>5, <1>6, <1>7 DEF Next, StopStep, AbortStep

\* An abort that completes, after any number of attempts that died at any step,
\* gives back HEAD, the batches, what was tracked when the session began, and
\* every other file as the user last left it before a command touched it.
THEOREM AbortGivesBack == Spec => AbortRestores
<1>1. Init => Inv /\ FirstCopies /\ Restored
  BY InvInit, FirstCopiesInit DEF Init, Restored
<1>2. Inv /\ FirstCopies /\ Restored /\ [Next]_vars => (Inv /\ FirstCopies /\ Restored)'
  BY InvStep, FirstCopiesStep, RestoredStep
<1>3. Inv /\ FirstCopies /\ Restored /\ [Next]_vars =>
        [Completes("abort") /\ ~stale =>
           /\ head = origin.head /\ batches = origin.batches
           /\ \A p \in Owned \ copied :
                /\ index[p] = origin.index[p]
                /\ ~Fileless(p) => work[p] = origin.work[p]
           /\ \A p \in Paths \ (Owned \cup exposed \cup created) :
                index[p] = None /\ work[p] = mine[p]]_vars
  <2> SUFFICES ASSUME Inv, FirstCopies, Restored, pc = "removeDirectory", task = "abort", ~stale
               PROVE  /\ head = origin.head /\ batches = origin.batches
                      /\ \A p \in Owned \ copied :
                           /\ index[p] = origin.index[p]
                           /\ ~Fileless(p) => work[p] = origin.work[p]
                      /\ \A p \in Paths \ (Owned \cup exposed \cup created) :
                           index[p] = None /\ work[p] = mine[p]
    BY DEF Completes
  <2>0. Active
    BY DEF Inv, Recovery, Swept
  <2>1. /\ head = origin.head /\ batches = origin.batches
        /\ \A p \in Paths \ Owned : index[p] = None
        /\ \A p \in Owned : index[p] = origin.index[p]
        /\ \A p \in Owned \ dir.list : Fileless(p) \/ work[p] = origin.work[p]
        /\ \A p \in dir.list : work[p] = dir.copies[p]
    BY DEF Restored, Applied, Clearing, OriginIntents
  <2>2. \A p \in (Owned \cap dir.list) \ copied : work[p] = origin.work[p]
    BY <2>0, <2>1 DEF FirstCopies
  <2>3. \A p \in Paths \ (Owned \cup exposed \cup created) : work[p] = mine[p]
    <3>1. \A p \in Spared : work[p] = mine[p]
      BY <2>0 DEF Inv, Recovery, LeftAlone
    <3>2. \A p \in dir.list \ (Owned \cup exposed \cup created) : dir.copies[p] = mine[p]
      BY DEF Inv, Recovery, Copied, FirstCopies
    <3> QED BY <2>1, <3>1, <3>2 DEF Spared
  <2> QED BY <2>1, <2>2, <2>3
<1> QED BY <1>1, <1>2, <1>3, PTL DEF Spec, AbortRestores

-----------------------------------------------------------------------------
(* Stop                                                                        *)

\* What stop has to take back is listed no earlier than it is done.
Unlisted ==
  ~stale /\ task = "start" =>
    /\ pc \in BeforeMarker \cup {"claim", "noteRenames"} =>
         dir.renames = {} /\ dir.deletions = {} /\ dir.autoAdded = {}
    /\ pc \in {"resetRenames", "noteDeletions"} => dir.deletions = {}

\* The two states of the recorded renames, which change together.
RenamesStaged == \A r \in dir.renames : index[r.new] = r.blob /\ Real(index[r.old]) = None
RenamesReset  == \A r \in dir.renames : index[r.new] \in {None, IntentToAdd}
                                        /\ index[r.old] = origin.head[r.old]

\* The entry of p is that of before the session, or differs from it in a way
\* that session/ records.
Accounted(p) ==
  \/ index[p] = origin.index[p]
  \/ /\ p \in dir.autoAdded /\ index[p] = IntentToAdd
     /\ origin.head[p] = None /\ origin.index[p] = None
  \/ p \in dir.deletions /\ index[p] = origin.head[p]
  \/ \E r \in dir.renames : p = r.old /\ index[p] = origin.head[p]
  \/ \E r \in dir.renames :
       p = r.new /\ (index[p] = None \/ (index[p] = IntentToAdd /\ p \in dir.autoAdded))

\* The records tell the truth about the repository before the session.
Truthful ==
  /\ \A r \in dir.renames :
       /\ origin.head[r.old] = r.blob /\ Real(origin.index[r.old]) = None
       /\ origin.head[r.new] = None /\ origin.index[r.new] = r.blob
  /\ \A p \in dir.deletions :
       origin.head[p] # None /\ Real(origin.index[p]) = None /\ origin.work[p] = None
  /\ \A p \in dir.autoAdded : Unowned(p) \/ origin.index[p] # IntentToAdd

\* Where the session was opened and nothing was done, and how far stop got.
Undisturbed ==
  Active /\ quiet /\ ~stale =>
    /\ head = origin.head /\ work = origin.work /\ batches = origin.batches
    /\ Truthful
    /\ RenamesStaged \/ RenamesReset
    /\ task = "start" /\ pc \in {"noteDeletions", "resetDeletions", "listUntracked",
                                 "addUntracked"} => RenamesReset
    /\ \A p \in Paths : Unowned(p) \/ Accounted(p)
    /\ task = "stop" /\ pc # "resetAutoAdded" =>
         \A p \in Paths : index[p] = IntentToAdd => Unowned(p) \/ origin.index[p] = IntentToAdd
    /\ task = "stop" /\ pc \in {"restoreDeletions"} \cup Clearing => RenamesStaged
    /\ task = "stop" /\ pc \in Clearing =>
         \A p \in Paths : Unowned(p) \/ index[p] = origin.index[p]

\* An abort is not nothing.
Loud == task = "abort" => ~quiet

LEMMA LoudStep == Loud /\ [Next]_vars => Loud'
<1> SUFFICES ASSUME Loud, [Next]_vars PROVE Loud'
  OBVIOUS
<1> USE DEF Loud, repo, memory, ghosts, counts, Goto, Exit
<1>1. CASE Start \/ Stop \/ Abort \/ Crash \/ UNCHANGED vars
  BY <1>1 DEF Start, Stop, Abort, Crash, vars
<1>2. CASE StartStep
  BY <1>2 DEF StartStep, CopyIntents, DropNewIntents, ResetTrackedIntents, CreateStash,
              UnsetIntents, SetIntents, SaveStash, SaveBatches, Anchor, RecordAnchors, Publish,
              Claim, NoteRenames, ResetRenames, NoteDeletions, ResetDeletions, ListUntracked,
              AddUntracked, Fetch, StartFails, RestorationFails
<1>3. CASE StopStep
  BY <1>3 DEF StopStep, ResetAutoAdded, RestoreRenames, RestoreDeletions, ClearHistory,
              RemoveDirectory
<1>4. CASE AbortStep
  BY <1>4 DEF AbortStep, AbortCheck, DropAutoAdded, ResetHard, DropRenameTargets, ApplyStash,
              RestoreCopies, RestoreBatches
<1>5. CASE CommandStep \/ UserStep
  BY <1>5 DEF CommandStep, Again, Include, Discard, Apply, ChangeBatch, Command, UserStep, Commit,
              Edit, UserActs
<1> QED BY <1>1, <1>2, <1>3, <1>4, <1>5 DEF Next

LEMMA UnlistedInit == Init => Unlisted /\ Undisturbed
BY DEF Init, Unlisted, Undisturbed, Active, EmptyDir

LEMMA UnlistedFrame ==
  ASSUME Unlisted, UNCHANGED <<stale, dir, pc, task>> \/ task' # "start"
         \/ pc' \notin BeforeMarker \cup {"claim", "noteRenames", "resetRenames", "noteDeletions"}
  PROVE  Unlisted'
BY DEF Unlisted

LEMMA UnlistedStep == Inv /\ Unlisted /\ [Next]_vars => Unlisted'
<1> SUFFICES ASSUME Inv, Unlisted, [Next]_vars, ~stale', task' = "start" PROVE Unlisted'
  BY DEF Unlisted
<1> USE DEF repo, memory, ghosts, counts, Goto, Exit, BeforeMarker, Clearing
<1>0. dir \in Dirs /\ Typed
  BY DEF Inv, Typed, TypeOK
<1>1. CASE Start
  <2>1. ~stale /\ UNCHANGED dir /\ dir = EmptyDir
    BY <1>1 DEF Start, Inv, Recovery, Swept, Typed, Control, Idle
  <2> QED BY <2>1 DEF Unlisted, EmptyDir
<1>2. CASE CopyIntents \/ SaveStash \/ SaveBatches \/ RecordAnchors \/ Publish
  <2>1. /\ dir'.renames = dir.renames /\ dir'.deletions = dir.deletions
        /\ dir'.autoAdded = dir.autoAdded /\ UNCHANGED <<task, stale>>
    BY <1>0, <1>2 DEF CopyIntents, WithCopies, SaveStash, SaveBatches, RecordAnchors, Publish, Dirs
  <2>2. pc \in BeforeMarker
    BY <1>2 DEF CopyIntents, SaveStash, SaveBatches, RecordAnchors, Publish
  <2> QED BY <2>1, <2>2 DEF Unlisted
<1>3. CASE DropNewIntents \/ ResetTrackedIntents \/ CreateStash \/ UnsetIntents \/ SetIntents
             \/ Anchor
  BY <1>3 DEF DropNewIntents, ResetTrackedIntents, CreateStash, UnsetIntents, SetIntents, Anchor,
              Unlisted
<1>4. CASE Claim \/ ResetRenames \/ ResetDeletions \/ Fetch
  BY <1>4 DEF Claim, ResetRenames, ResetDeletions, Fetch, Unlisted
<1>5. CASE NoteRenames
  <2>1. dir'.deletions = dir.deletions /\ UNCHANGED <<task, stale>>
        /\ pc = "noteRenames" /\ pc' \in {"resetRenames", "noteDeletions"}
    BY <1>0, <1>5 DEF NoteRenames, Dirs
  <2> QED BY <2>1 DEF Unlisted
<1>6. CASE NoteDeletions \/ ListUntracked \/ AddUntracked
  BY <1>6, UnlistedFrame DEF NoteDeletions, ListUntracked, AddUntracked
<1>7. CASE StartFails \/ RestorationFails
  <2>1. /\ UNCHANGED <<dir, stale>> /\ task = "start"
        /\ pc' = "unsetIntents" => pc \in BeforeMarker
        /\ pc' \in {"unsetIntents", "clearHistory"}
    BY <1>7 DEF StartFails, RestorationFails, Handler
  <2> QED BY <2>1 DEF Unlisted
<1>8. CASE StopStep \/ Crash
  BY <1>8, UnlistedFrame
     DEF StopStep, ResetAutoAdded, RestoreRenames, RestoreDeletions, ClearHistory, RemoveDirectory,
         Crash
<1>9. ~AbortStep
  BY <1>0 DEF AbortStep, AbortCheck, DropAutoAdded, ResetHard, DropRenameTargets, ApplyStash,
              RestoreCopies, RestoreBatches, Typed, Control, AfterMarker
<1>10. ~(CommandStep \/ UserStep \/ Stop \/ Abort)
  BY <1>0, IdleFrame DEF Stop, Abort, Typed, Control
<1>11. CASE UNCHANGED vars
  BY <1>11, UnlistedFrame DEF vars
<1> QED
  BY <1>1, <1>2, <1>3, <1>4, <1>5, <1>6, <1>7, <1>8, <1>9, <1>10, <1>11 DEF Next, StartStep

-----------------------------------------------------------------------------
\* What stays true when neither the repository nor the records change.
LEMMA FrameUnowned ==
  ASSUME UNCHANGED origin
  PROVE  \A p : Unowned(p)' = Unowned(p)
BY DEF Unowned

LEMMA AccountedFrame ==
  ASSUME UNCHANGED <<origin, index>>, NEW p, Accounted(p),
         dir.renames \subseteq dir'.renames, dir.deletions \subseteq dir'.deletions,
         dir.autoAdded \subseteq dir'.autoAdded
  PROVE  Accounted(p)'
BY DEF Accounted

LEMMA UndisturbedFrame ==
  ASSUME Undisturbed, Active, quiet, ~stale,
         UNCHANGED <<head, index, work, batches, origin>>,
         dir'.renames = dir.renames, dir'.deletions = dir.deletions,
         dir'.autoAdded = dir.autoAdded,
         task' = "start" /\ pc' \in {"noteDeletions", "resetDeletions", "listUntracked",
                                     "addUntracked"} => RenamesReset,
         task' = "stop" => pc' = "resetAutoAdded"
  PROVE  Undisturbed'
BY FrameUnowned, AccountedFrame
DEF Undisturbed, Truthful, RenamesStaged, RenamesReset, Clearing

\* The entries that start resets are those of the recorded renames.
LEMMA ResetRenamesUndisturbed ==
  Inv /\ Undisturbed /\ Active /\ quiet /\ ~stale /\ ResetRenames => Undisturbed'
<1> SUFFICES ASSUME Inv, Undisturbed, Active, quiet, ~stale, ResetRenames PROVE Undisturbed'
  OBVIOUS
<1> USE DEF repo, memory, ghosts, counts, Goto
<1>0. /\ UNCHANGED <<head, work, batches, dir, origin, task>> /\ pc' = "noteDeletions"
      /\ head = origin.head /\ work = origin.work /\ batches = origin.batches /\ Truthful
      /\ \A p \in Paths : Unowned(p) \/ Accounted(p)
      /\ task # "stop"
  BY DEF ResetRenames, Undisturbed, Inv, Typed, Control, Stopping, Clearing
<1>1. \A r \in dir.renames : r.old \in Paths /\ r.new \in Paths
  BY RenamesOfDir DEF Inv, Typed, TypeOK
<1> DEFINE S == UNION {{r.old, r.new} : r \in dir.renames}
<1>2. \A p \in Paths : index'[p] = IF p \in S THEN head[p] ELSE index[p]
  BY DEF ResetRenames, ResetPaths
<1>3. RenamesReset'
  BY <1>0, <1>1, <1>2 DEF RenamesReset, Truthful
<1>4. ASSUME NEW p \in Paths, Unowned(p) \/ Accounted(p) PROVE Unowned(p)' \/ Accounted(p)'
  <2>1. CASE p \in S
    <3>1. PICK r \in dir.renames : p = r.old \/ p = r.new
      BY <2>1
    <3> QED BY <1>0, <1>2, <2>1, <3>1 DEF Accounted, Truthful
  <2>2. CASE p \notin S
    BY <1>0, <1>2, <1>4, <2>2, FrameUnowned DEF Accounted
  <2> QED BY <2>1, <2>2
<1> HIDE DEF S
<1> QED BY <1>0, <1>3, <1>4, FrameUnowned DEF Undisturbed, Truthful

LEMMA ResetDeletionsUndisturbed ==
  Inv /\ Undisturbed /\ Active /\ quiet /\ ~stale /\ ResetDeletions => Undisturbed'
<1> SUFFICES ASSUME Inv, Undisturbed, Active, quiet, ~stale, ResetDeletions PROVE Undisturbed'
  OBVIOUS
<1> USE DEF repo, memory, ghosts, counts, Goto
<1>0. /\ UNCHANGED <<head, work, batches, dir, origin, task>> /\ pc' = "listUntracked"
      /\ head = origin.head /\ work = origin.work /\ batches = origin.batches /\ Truthful
      /\ \A p \in Paths : Unowned(p) \/ Accounted(p)
      /\ task = "start" /\ RenamesReset
  BY DEF ResetDeletions, Undisturbed, Inv, Typed, TypeOK, Control, Stopping, Restoring, Clearing
<1>1. \A r \in dir.renames : r.old \in Paths /\ r.new \in Paths
  BY RenamesOfDir DEF Inv, Typed, TypeOK
<1>2. \A p \in Paths : index'[p] = IF p \in dir.deletions THEN head[p] ELSE index[p]
  BY DEF ResetDeletions, ResetPaths
<1>3. RenamesReset'
  BY <1>0, <1>1, <1>2 DEF RenamesReset, Truthful
<1>4. \A p \in Paths : Unowned(p)' \/ Accounted(p)'
  BY <1>0, <1>2, FrameUnowned DEF Accounted
<1> QED BY <1>0, <1>3, <1>4, FrameUnowned DEF Undisturbed, Truthful

LEMMA NotesUndisturbed ==
  Inv /\ Unlisted /\ Undisturbed /\ Active /\ quiet /\ ~stale
    /\ (NoteRenames \/ NoteDeletions \/ ListUntracked) => Undisturbed'
<1> SUFFICES ASSUME Inv, Unlisted, Undisturbed, Active, quiet, ~stale,
                    NoteRenames \/ NoteDeletions \/ ListUntracked
             PROVE  Undisturbed'
  OBVIOUS
<1> USE DEF repo, memory, ghosts, counts, Goto
<1>0. /\ UNCHANGED <<head, index, work, batches, origin, task, quiet, stale>>
      /\ head = origin.head /\ work = origin.work /\ batches = origin.batches /\ Truthful
      /\ \A p \in Paths : Unowned(p) \/ Accounted(p)
      /\ task = "start" /\ dir \in Dirs
  BY DEF NoteRenames, NoteDeletions, ListUntracked, Undisturbed, Inv, Typed, TypeOK, Control,
         Stopping, Restoring, Clearing
<1>1. CASE NoteRenames
  <2>1. /\ index = origin.index /\ dir.renames = {} /\ dir.deletions = {} /\ dir.autoAdded = {}
    BY <1>0, <1>1 DEF NoteRenames, Inv, Recovery, Opening, Unlisted, BeforeMarker,
                             Clearing
  <2>2. /\ dir'.deletions = {} /\ dir'.autoAdded = {}
        /\ dir'.renames \in {{}, StagedRenames}
        /\ pc' = "noteDeletions" => dir'.renames = {}
    BY <1>0, <1>1, <2>1 DEF NoteRenames, Dirs
  <2>3. \A r \in StagedRenames :
          /\ r.old \in Paths /\ r.new \in Paths
          /\ origin.head[r.old] = r.blob /\ Real(origin.index[r.old]) = None
          /\ origin.head[r.new] = None /\ origin.index[r.new] = r.blob
    BY <1>0, <2>1 DEF StagedRenames
  <2>4. Truthful' /\ RenamesStaged'
    BY <1>0, <2>1, <2>2, <2>3 DEF Truthful, RenamesStaged
  <2>5. pc' \in {"resetRenames", "noteDeletions"}
    BY <1>1 DEF NoteRenames
  <2>6. pc' = "noteDeletions" => RenamesReset'
    BY <2>2 DEF RenamesReset
  <2> QED BY <1>0, <2>1, <2>4, <2>5, <2>6 DEF Undisturbed, Accounted
<1>2. CASE NoteDeletions
  <2>1. dir.deletions = {} /\ RenamesReset
    BY <1>0, <1>2 DEF NoteDeletions, Unlisted, Undisturbed
  <2>2. /\ dir'.renames = dir.renames /\ dir'.autoAdded = dir.autoAdded
        /\ dir'.deletions \in {{}, StagedDeletions}
        /\ pc' \in {"resetDeletions", "listUntracked"}
    BY <1>0, <1>2, <2>1 DEF NoteDeletions, Dirs
  <2>3. ASSUME NEW p \in StagedDeletions
        PROVE  origin.head[p] # None /\ Real(origin.index[p]) = None /\ origin.work[p] = None
    <3>1. p \in Paths /\ head[p] # None /\ Real(index[p]) = None /\ work[p] = None
      BY DEF StagedDeletions
    <3>2. origin.head[p] # None /\ origin.work[p] = None /\ head[p] \in Contents
      BY <1>0, <3>1 DEF Inv, Typed, TypeOK, Tree
    <3>3. index[p] # origin.head[p]
      BY <1>0, <3>1, <3>2, NullAssumption DEF Real
    <3>4. Unowned(p) \/ index[p] = origin.index[p]
      BY <1>0, <2>1, <3>1, <3>2, <3>3 DEF Accounted, Truthful
    <3> QED BY <3>1, <3>2, <3>4 DEF Unowned, Real
  <2>4. \A p \in Paths : Unowned(p)' \/ Accounted(p)'
    BY <1>0, <2>1, <2>2, FrameUnowned, AccountedFrame
  <2>5. Truthful' /\ RenamesReset'
    BY <1>0, <2>1, <2>2, <2>3, FrameUnowned DEF Truthful, RenamesReset
  <2> QED BY <1>0, <2>2, <2>4, <2>5 DEF Undisturbed
<1>3. CASE ListUntracked
  <2>1. /\ dir'.renames = dir.renames /\ dir'.deletions = dir.deletions
        /\ dir'.autoAdded = dir.autoAdded \cup Untracked /\ pc' = "addUntracked" /\ RenamesReset
    BY <1>0, <1>3 DEF ListUntracked, Undisturbed, Dirs
  <2>2. ASSUME NEW p \in Untracked PROVE Unowned(p) \/ origin.index[p] # IntentToAdd
    <3>1. p \in Paths /\ index[p] = None
      BY DEF Untracked
    <3> QED BY <1>0, <3>1, NullAssumption DEF Accounted, Truthful, Unowned, Inv, Typed, TypeOK, Dirs
  <2>3. \A p \in Paths : Unowned(p)' \/ Accounted(p)'
    BY <1>0, <2>1, FrameUnowned, AccountedFrame
  <2>4. Truthful' /\ RenamesReset'
    BY <1>0, <2>1, <2>2, FrameUnowned DEF Truthful, RenamesReset
  <2> QED BY <1>0, <2>1, <2>3, <2>4 DEF Undisturbed
<1> QED BY <1>1, <1>2, <1>3

LEMMA AddUndisturbed ==
  Inv /\ Undisturbed /\ Active /\ quiet /\ ~stale /\ AddUntracked => Undisturbed'
<1> SUFFICES ASSUME Inv, Undisturbed, Active, quiet, ~stale, AddUntracked PROVE Undisturbed'
  OBVIOUS
<1> USE DEF repo, memory, ghosts, counts, Goto
<1>0. /\ UNCHANGED <<head, work, batches, origin, task>> /\ pc' = "fetch"
      /\ head = origin.head /\ work = origin.work /\ batches = origin.batches /\ Truthful
      /\ \A p \in Paths : Unowned(p) \/ Accounted(p)
      /\ task = "start" /\ dir \in Dirs /\ RenamesReset
      /\ Untracked \subseteq dir.autoAdded /\ todo \subseteq Untracked
  BY DEF AddUntracked, Undisturbed, Inv, Recovery, LeftAlone, Typed, TypeOK, Control,
         Stopping, Restoring, Clearing
<1>1. \A r \in dir.renames :
        /\ r.old \in Paths /\ r.new \in Paths /\ r.blob \in Contents
        /\ origin.head[r.old] # None
  BY <1>0, RenamesOfDir, NullAssumption DEF Truthful
<1>2. CASE index' = WithIntents(Untracked) /\ UNCHANGED dir
  <2>1. \A p \in Paths : index'[p] = IF p \in Untracked THEN IntentToAdd ELSE index[p]
    BY <1>2 DEF WithIntents
  <2>2. \A p \in Untracked : p \in Paths /\ index[p] = None /\ origin.work[p] # None
    BY <1>0 DEF Untracked
  <2>3. RenamesReset'
    BY <1>0, <1>1, <1>2, <2>1, <2>2 DEF RenamesReset
  <2>4. ASSUME NEW p \in Paths PROVE Unowned(p)' \/ Accounted(p)'
    <3>1. CASE p \notin Untracked
      BY <1>0, <1>2, <2>1, <3>1, FrameUnowned DEF Accounted
    <3>2. CASE p \in Untracked /\ ~Unowned(p)
      <4>1. \/ origin.index[p] = None
            \/ \E r \in dir.renames : p = r.new
        BY <1>0, <1>1, <2>2, <3>2, NullAssumption DEF Accounted, Truthful
      <4>2. origin.index[p] = None => origin.head[p] = None
        BY <2>2, <3>2 DEF Unowned
      <4> QED BY <1>0, <1>2, <2>1, <3>2, <4>1, <4>2 DEF Accounted
    <3> QED BY <1>0, <3>1, <3>2, FrameUnowned
  <2> QED BY <1>0, <1>2, <2>3, <2>4, FrameUnowned DEF Undisturbed, Truthful
<1>3. CASE dir' = [dir EXCEPT !.autoAdded = @ \ todo] /\ UNCHANGED index
  <2>1. /\ dir'.renames = dir.renames /\ dir'.deletions = dir.deletions
        /\ dir'.autoAdded = dir.autoAdded \ todo
    BY <1>0, <1>3 DEF Dirs
  <2>2. \A p \in todo : index[p] = None
    BY <1>0 DEF Untracked
  <2>3. ASSUME NEW p \in Paths PROVE Unowned(p)' \/ Accounted(p)'
    BY <1>0, <1>3, <2>1, <2>2, NullAssumption, FrameUnowned DEF Accounted
  <2> QED BY <1>0, <1>3, <2>1, <2>3, FrameUnowned DEF Undisturbed, Truthful, RenamesReset
<1> QED BY <1>2, <1>3 DEF AddUntracked

-----------------------------------------------------------------------------
(* stop.                                                                   *)

\* The automatically added entries without content leave the index.
LEMMA ResetAutoAddedUndisturbed ==
  Inv /\ Undisturbed /\ Active /\ quiet /\ ~stale /\ ResetAutoAdded => Undisturbed'
<1> SUFFICES ASSUME Inv, Undisturbed, Active, quiet, ~stale, ResetAutoAdded PROVE Undisturbed'
  OBVIOUS
<1> USE DEF repo, memory, ghosts, counts, Goto
<1>0. /\ UNCHANGED <<head, work, batches, dir, origin, task>> /\ pc' = "restoreRenames"
      /\ head = origin.head /\ work = origin.work /\ batches = origin.batches /\ Truthful
      /\ \A p \in Paths : Unowned(p) \/ Accounted(p)
      /\ task = "stop" /\ index \in Index /\ head \in Tree
      /\ RenamesStaged \/ RenamesReset
  BY DEF ResetAutoAdded, Undisturbed, Inv, Typed, TypeOK, Control, BeforeMarker, AfterMarker,
         Restoring, Clearing
<1>1. \A r \in dir.renames : r.old \in Paths /\ r.new \in Paths /\ r.blob \in Contents
  BY RenamesOfDir DEF Inv, Typed, TypeOK
<1>2. \A p \in Paths :
        index'[p] = IF p \in dir.autoAdded /\ Real(index[p]) = head[p] THEN head[p] ELSE index[p]
  BY DEF ResetAutoAdded, ResetPaths, CachedDiff
<1>3. \A p \in Paths : Real(index'[p]) = Real(index[p]) /\ index'[p] \in {index[p], Real(index[p])}
  BY <1>0, <1>2, NullAssumption DEF Real, Tree
<1>4. RenamesStaged => RenamesStaged'
  BY <1>0, <1>1, <1>3, NullAssumption DEF RenamesStaged, Real
<1>5. RenamesReset => RenamesReset'
  BY <1>0, <1>1, <1>3, NullAssumption DEF RenamesReset, Truthful, Real
<1>6. ASSUME NEW p \in Paths
      PROVE  /\ Unowned(p)' \/ Accounted(p)'
             /\ index'[p] = IntentToAdd => Unowned(p)' \/ origin.index[p] = IntentToAdd
  <2>1. CASE Unowned(p)
    BY <1>0, <2>1, FrameUnowned
  <2>2. CASE ~Unowned(p) /\ index[p] # IntentToAdd
    <3>1. index'[p] = index[p]
      BY <1>3, <2>2 DEF Real
    <3> QED BY <1>0, <2>2, <3>1 DEF Accounted
  <2>3. CASE ~Unowned(p) /\ index[p] = IntentToAdd /\ origin.index[p] = IntentToAdd
    <3>1. p \notin dir.autoAdded
      BY <1>0, <2>3 DEF Truthful
    <3>2. index'[p] = index[p]
      BY <1>2, <3>1
    <3> QED BY <1>0, <2>3, <3>2 DEF Accounted
  <2>4. CASE ~Unowned(p) /\ index[p] = IntentToAdd /\ origin.index[p] # IntentToAdd
    <3>1. origin.head[p] # IntentToAdd
      BY <1>0, NullAssumption DEF Tree
    <3>2. /\ p \in dir.autoAdded /\ origin.head[p] = None
          /\ \/ origin.index[p] = None
             \/ \E r \in dir.renames : p = r.new
      BY <1>0, <2>4, <3>1 DEF Accounted, Truthful
    <3>3. index'[p] = None
      BY <1>0, <1>2, <2>4, <3>2 DEF Real
    <3> QED BY <1>0, <3>2, <3>3, NullAssumption DEF Accounted
  <2> QED BY <2>1, <2>2, <2>3, <2>4
<1> QED BY <1>0, <1>4, <1>5, <1>6, FrameUnowned DEF Undisturbed, Truthful, Clearing

\* Either every recorded rename is staged again or none was reset.
LEMMA RestoreRenamesUndisturbed ==
  Inv /\ Undisturbed /\ Active /\ quiet /\ ~stale /\ RestoreRenames => Undisturbed'
<1> SUFFICES ASSUME Inv, Undisturbed, Active, quiet, ~stale, RestoreRenames PROVE Undisturbed'
  OBVIOUS
<1> USE DEF repo, memory, ghosts, counts, Goto
<1>0. /\ UNCHANGED <<head, work, batches, dir, origin, task>> /\ pc' = "restoreDeletions"
      /\ head = origin.head /\ work = origin.work /\ batches = origin.batches /\ Truthful
      /\ \A p \in Paths : Unowned(p) \/ Accounted(p)
      /\ \A p \in Paths : index[p] = IntentToAdd => Unowned(p) \/ origin.index[p] = IntentToAdd
      /\ task = "stop" /\ index \in Index
      /\ RenamesStaged \/ RenamesReset
  BY DEF RestoreRenames, Undisturbed, Inv, Typed, TypeOK, Control, BeforeMarker, AfterMarker,
         Restoring, Clearing
<1>1. /\ \A r \in dir.renames : r.old \in Paths /\ r.new \in Paths /\ r.blob \in Contents
      /\ dir.marker = head
  BY <1>0, RenamesOfDir DEF Inv, Typed, TypeOK, Recovery, Recorded
<1> DEFINE restored == {r \in dir.renames : Untouched({r.old, r.new})}
           blob(p)  == (CHOOSE r \in restored : p = r.new).blob
<1>2. \A p \in Paths :
        index'[p] = IF \E r \in restored : p = r.new THEN blob(p)
                    ELSE IF \E r \in restored : p = r.old THEN None ELSE index[p]
  BY DEF RestoreRenames
<1>3. \A p : (\E r \in restored : p = r.new) => \E r \in restored : p = r.new /\ blob(p) = r.blob
  OBVIOUS
<1>4. CASE RenamesStaged
  <2>1. \A r \in dir.renames : CachedDiff(r.new)
    BY <1>0, <1>1, <1>4, NullAssumption DEF RenamesStaged, Truthful, CachedDiff, Real
  <2>2. restored = {}
    BY <2>1 DEF Untouched
  <2>3. \A p \in Paths : index'[p] = index[p]
    BY <1>2, <2>2
  <2>4. RenamesStaged'
    BY <1>0, <1>1, <1>4, <2>3 DEF RenamesStaged
  <2>5. \A p \in Paths : Accounted(p) => Accounted(p)'
    BY <1>0, <2>3 DEF Accounted
  <2> QED BY <1>0, <2>3, <2>4, <2>5, FrameUnowned DEF Undisturbed, Truthful, Clearing
<1>5. CASE RenamesReset
  <2>1. \A r \in dir.renames : ~CachedDiff(r.old) /\ ~CachedDiff(r.new)
    BY <1>0, <1>1, <1>5, NullAssumption DEF RenamesReset, Truthful, CachedDiff, Real
  <2>2. restored = dir.renames
    BY <1>1, <2>1 DEF Untouched
  <2>3. \A r \in dir.renames : /\ index'[r.new] = r.blob /\ index'[r.old] = None
                               /\ r.blob = origin.index[r.new]
    <3> HIDE DEF restored, blob
    <3>1. ASSUME NEW r \in dir.renames
          PROVE  index'[r.new] = origin.index[r.new] /\ origin.index[r.new] = r.blob
      <4>1. PICK s \in restored : r.new = s.new /\ blob(r.new) = s.blob
        BY <1>3, <2>2
      <4> QED BY <1>0, <1>1, <1>2, <2>2, <4>1 DEF Truthful
    <3>2. \A r, s \in dir.renames : r.old # s.new
      BY <1>0, <1>1, NullAssumption DEF Truthful
    <3>3. \A r \in dir.renames : index'[r.old] = None
      BY <1>1, <1>2, <2>2, <3>2
    <3> QED BY <3>1, <3>3
  <2>4. RenamesStaged'
    BY <1>0, <2>3 DEF RenamesStaged, Real
  <2>5. ASSUME NEW p \in Paths
        PROVE  /\ Unowned(p)' \/ Accounted(p)'
               /\ index'[p] = IntentToAdd => Unowned(p)' \/ origin.index[p] = IntentToAdd
    <3>1. CASE \E r \in dir.renames : p = r.new
      BY <1>0, <2>3, <3>1, <1>1, NullAssumption DEF Accounted
    <3>2. CASE \E r \in dir.renames : p = r.old
      <4>1. /\ index'[p] = None /\ origin.head[p] # None
            /\ origin.index[p] \in {None, IntentToAdd}
        BY <1>0, <1>1, <2>3, <3>2, NullAssumption DEF Truthful, Real
      <4> QED BY <1>0, <4>1, FrameUnowned, NullAssumption DEF Accounted, Unowned
    <3>3. CASE \A r \in dir.renames : p # r.new /\ p # r.old
      <4>1. index'[p] = index[p]
        BY <1>2, <2>2, <3>3
      <4> QED BY <1>0, <3>3, <4>1, FrameUnowned DEF Accounted
    <3> QED BY <3>1, <3>2, <3>3
  <2> QED BY <1>0, <2>4, <2>5, FrameUnowned DEF Undisturbed, Truthful, Clearing
<1> QED BY <1>0, <1>4, <1>5

\* With the renames staged and the additions gone only deletions are left.
LEMMA RestoreDeletionsUndisturbed ==
  Inv /\ Undisturbed /\ Active /\ quiet /\ ~stale /\ RestoreDeletions => Undisturbed'
<1> SUFFICES ASSUME Inv, Undisturbed, Active, quiet, ~stale, RestoreDeletions PROVE Undisturbed'
  OBVIOUS
<1> USE DEF repo, memory, ghosts, counts, Goto
<1>0. /\ UNCHANGED <<head, work, batches, dir, origin, task>> /\ pc' = "clearHistory"
      /\ head = origin.head /\ work = origin.work /\ batches = origin.batches /\ Truthful
      /\ \A p \in Paths : Unowned(p) \/ Accounted(p)
      /\ \A p \in Paths : index[p] = IntentToAdd => Unowned(p) \/ origin.index[p] = IntentToAdd
      /\ task = "stop" /\ index \in Index /\ head \in Tree
      /\ RenamesStaged
  BY DEF RestoreDeletions, Undisturbed, Inv, Typed, TypeOK, Control, BeforeMarker, AfterMarker,
         Restoring, Clearing
<1>1. /\ \A r \in dir.renames : r.old \in Paths /\ r.new \in Paths /\ r.blob \in Contents
      /\ dir.marker = head
  BY <1>0, RenamesOfDir DEF Inv, Typed, TypeOK, Recovery, Recorded
<1>2. \A p \in Paths :
        index'[p] = IF p \in dir.deletions /\ work[p] = None /\ Real(index[p]) = head[p]
                    THEN None ELSE index[p]
  BY <1>1 DEF RestoreDeletions, Untouched, CachedDiff
<1>3. ASSUME NEW p \in Paths, ~Unowned(p) PROVE index'[p] = origin.index[p]
  <2>1. CASE p \in dir.deletions /\ work[p] = None /\ Real(index[p]) = head[p]
    BY <1>0, <1>2, <1>3, <2>1 DEF Truthful, Unowned, Real
  <2>2. CASE ~(p \in dir.deletions /\ work[p] = None /\ Real(index[p]) = head[p])
    <3>1. index'[p] = index[p]
      BY <1>2, <2>2
    <3>2. ~(p \in dir.deletions /\ index[p] = origin.head[p])
      BY <1>0, <2>2, NullAssumption DEF Truthful, Real, Tree
    <3>3. ~\E r \in dir.renames : p = r.old /\ index[p] = origin.head[p]
      BY <1>0, <1>1, NullAssumption DEF Truthful, RenamesStaged, Real
    <3>4. ~\E r \in dir.renames : p = r.new /\ (index[p] = None \/ index[p] = IntentToAdd)
      BY <1>0, <1>1, NullAssumption DEF RenamesStaged
    <3>5. ~(index[p] = IntentToAdd /\ origin.index[p] = None)
      BY <1>0, <1>3, NullAssumption
    <3> QED BY <1>0, <1>3, <3>1, <3>2, <3>3, <3>4, <3>5 DEF Accounted
  <2> QED BY <2>1, <2>2
<1>4. RenamesStaged'
  BY <1>0, <1>1, <1>2, NullAssumption DEF RenamesStaged, Truthful, Real
<1> QED BY <1>0, <1>3, <1>4, FrameUnowned DEF Undisturbed, Truthful, Accounted

LEMMA UndisturbedStep == Inv /\ Unlisted /\ Loud /\ Undisturbed /\ [Next]_vars => Undisturbed'
<1> SUFFICES ASSUME Inv, Unlisted, Loud, Undisturbed, [Next]_vars, Active', quiet', ~stale'
             PROVE  Undisturbed'
  BY DEF Undisturbed
<1> USE DEF repo, memory, ghosts, counts, Goto
<1>0. Typed /\ dir \in Dirs
  BY DEF Inv, Typed, TypeOK
<1>1. /\ ~RemoveDirectory /\ ~Abort /\ ~StartFails /\ ~RestorationFails
      /\ ~CommandStep /\ ~UserStep
  <2>0. ~RemoveDirectory
    <3>1. RemoveDirectory => dir'.marker = Missing
      BY DEF RemoveDirectory, EmptyDir
    <3>2. dir'.marker # Missing
      BY DEF Active
    <3> QED BY <3>1, <3>2
  <2>1. ~Abort /\ ~StartFails /\ ~RestorationFails
    BY DEF Abort, StartFails, RestorationFails
  <2>2. ~CommandStep
    BY DEF CommandStep, Again, Include, Discard, Apply, ChangeBatch, Command
  <2>3. ~UserStep
    BY DEF UserStep, Commit, Edit, UserActs
  <2> QED BY <2>0, <2>1, <2>2, <2>3
<1>2. CASE Publish
  <2>1. /\ dir'.renames = dir.renames /\ dir'.deletions = dir.deletions
        /\ dir'.autoAdded = dir.autoAdded /\ ~stale
        /\ UNCHANGED <<head, index, work, batches, origin, task>>
        /\ pc' = "claim" /\ pc = "publish"
    BY <1>0, <1>2 DEF Publish, Dirs
  <2>2. task = "start"
    BY <1>0, <2>1 DEF Typed, TypeOK, Control, Stopping, Restoring, Clearing
  <2>3. /\ head = origin.head /\ index = origin.index /\ work = origin.work
        /\ batches = origin.batches
        /\ dir.renames = {} /\ dir.deletions = {} /\ dir.autoAdded = {}
    BY <2>1, <2>2 DEF Inv, Recovery, Opening, Unlisted, BeforeMarker, Clearing
  <2> QED BY <2>1, <2>2, <2>3
          DEF Undisturbed, Truthful, RenamesStaged, RenamesReset, Accounted
<1>3. ~Publish => Active
  BY <1>0, InactiveFrame
<1>4. CASE Crash /\ ~Publish
  <2>1. ~stale /\ UNCHANGED <<repo, dir, origin, quiet>> /\ task' = "none"
    BY <1>4 DEF Crash, Exit
  <2> QED BY <1>3, <1>4, <2>1, UndisturbedFrame
<1>5. CASE ~Crash /\ ~Publish
  <2>1. ~Start /\ UNCHANGED <<origin, stale>>
    BY <1>0, <1>1, <1>3, <1>5, ActiveFrame
  <2>2. quiet
    BY <1>1, <1>5, <2>1
       DEF Next, vars, Stop, StartStep, CopyIntents, DropNewIntents, ResetTrackedIntents,
           CreateStash, UnsetIntents, SetIntents, SaveStash, SaveBatches, Anchor, RecordAnchors,
           Claim, NoteRenames, ResetRenames, NoteDeletions, ResetDeletions, ListUntracked,
           AddUntracked, Fetch, StopStep, ResetAutoAdded, RestoreRenames, RestoreDeletions,
           ClearHistory, AbortStep, AbortCheck, DropAutoAdded, ResetHard, DropRenameTargets,
           ApplyStash, RestoreCopies, RestoreBatches
  <2>3. CASE NoteRenames \/ NoteDeletions \/ ListUntracked
    BY <1>3, <1>5, <2>1, <2>2, <2>3, NotesUndisturbed
  <2>4. CASE ResetRenames
    BY <1>3, <1>5, <2>1, <2>2, <2>4, ResetRenamesUndisturbed
  <2>5. CASE ResetDeletions
    BY <1>3, <1>5, <2>1, <2>2, <2>5, ResetDeletionsUndisturbed
  <2>6. CASE AddUntracked
    BY <1>3, <1>5, <2>1, <2>2, <2>6, AddUndisturbed
  <2>7. CASE ResetAutoAdded
    BY <1>3, <1>5, <2>1, <2>2, <2>7, ResetAutoAddedUndisturbed
  <2>8. CASE RestoreRenames
    BY <1>3, <1>5, <2>1, <2>2, <2>8, RestoreRenamesUndisturbed
  <2>9. CASE RestoreDeletions
    BY <1>3, <1>5, <2>1, <2>2, <2>9, RestoreDeletionsUndisturbed
  <2>10. CASE Claim \/ Fetch \/ Stop
    <3>1. /\ UNCHANGED <<repo, dir>>
          /\ \/ pc' \in {"noteRenames", "idle"} /\ task' # "stop"
             \/ pc' = "resetAutoAdded" /\ task' = "stop"
      BY <1>0, <2>10 DEF Claim, Fetch, Stop, Exit, Typed, TypeOK, Control, Stopping, Clearing
    <3> QED BY <1>3, <1>5, <2>1, <2>2, <3>1, UndisturbedFrame
  <2>11. CASE ClearHistory
    <3>1. /\ UNCHANGED <<repo, dir, task>> /\ pc = "clearHistory" /\ pc' = "removeDirectory"
      BY <2>11 DEF ClearHistory
    <3> QED BY <1>3, <1>5, <2>1, <2>2, <3>1, FrameUnowned
            DEF Undisturbed, Truthful, RenamesStaged, RenamesReset, Accounted, Clearing
  <2>12. CASE UNCHANGED vars
    BY <1>3, <1>5, <2>1, <2>2, <2>12, FrameUnowned
    DEF vars, Undisturbed, Truthful, RenamesStaged, RenamesReset, Accounted
  <2>13. ~AbortStep /\ ~UnsetIntents /\ ~SetIntents
    BY <1>0, <1>3, <1>5, <2>2
       DEF Loud, Typed, TypeOK, Control, BeforeMarker, AfterMarker, Stopping, Clearing, AbortStep,
           AbortCheck, DropAutoAdded, ResetHard, DropRenameTargets, ApplyStash, RestoreCopies,
           RestoreBatches, UnsetIntents, SetIntents
  <2>14. ~(CopyIntents \/ DropNewIntents \/ ResetTrackedIntents \/ CreateStash \/ SaveStash
           \/ SaveBatches \/ Anchor \/ RecordAnchors)
    BY <1>0, <1>3, <1>5
       DEF Typed, TypeOK, Control, BeforeMarker, Stopping, Restoring, Clearing, CopyIntents,
           DropNewIntents, ResetTrackedIntents, CreateStash, SaveStash, SaveBatches, Anchor,
           RecordAnchors
  <2> QED BY <1>1, <1>5, <2>1, <2>3, <2>4, <2>5, <2>6, <2>7, <2>8, <2>9, <2>10, <2>11, <2>12,
             <2>13, <2>14
          DEF Next, StartStep, StopStep
<1> QED BY <1>2, <1>4, <1>5

\* When nothing was done since `start`, a stop that completes, at whatever
\* attempt, leaves the repository as it was before the session, but for the
\* paths of HEAD that the index had lost or held as an intent.
THEOREM StopUndoesStart == Spec => QuietStopUndoesStart
<1> DEFINE All == Inv /\ Unlisted /\ Loud /\ Undisturbed
<1>1. Init => All
  BY InvInit, UnlistedInit DEF Init, Loud
<1>2. All /\ [Next]_vars => All'
  BY InvStep, UnlistedStep, LoudStep, UndisturbedStep
<1>3. All /\ [Next]_vars =>
        [Completes("stop") /\ quiet /\ ~stale =>
           /\ head = origin.head /\ work = origin.work /\ batches = origin.batches
           /\ \A p \in Paths : ~Unowned(p) => index[p] = origin.index[p]]_vars
  <2> SUFFICES ASSUME Inv, Undisturbed, pc = "removeDirectory", task = "stop", quiet, ~stale
               PROVE  /\ head = origin.head /\ work = origin.work /\ batches = origin.batches
                      /\ \A p \in Paths : ~Unowned(p) => index[p] = origin.index[p]
    BY DEF Completes
  <2>1. Active
    BY DEF Inv, Recovery, Swept
  <2> QED BY <2>1 DEF Undisturbed, Clearing
<1> QED BY <1>1, <1>2, <1>3, PTL DEF Spec, QuietStopUndoesStart
=============================================================================
