--------------------------- MODULE SessionRecovery ---------------------------
(***************************************************************************)
(* The life of one staging session in one worktree: `start` records what   *)
(* it will take to undo the session, the commands of the session and the   *)
(* user change files, the index, HEAD and the batches, and `stop` or       *)
(* `abort` ends it.  The process may die between any two steps, git may    *)
(* fail, and the user runs the next command on whatever was left behind.   *)
(*                                                                         *)
(* The repository is, per path, what HEAD, the index and the worktree hold *)
(* (None when absent; an index entry may be IntentToAdd), plus one value   *)
(* for the batch refs and metadata.  Every session file is under           *)
(* session/, so `dir` is a record with one field per file.                 *)
(***************************************************************************)
EXTENDS Naturals, FiniteSets

CONSTANTS
  Paths,
  Contents,     \* what a file can hold
  None,         \* no such file, no such entry
  IntentToAdd,  \* the index entry that `git add -N` makes
  BatchStates,  \* what the batch refs and batch metadata can be
  Missing,      \* a session file that does not exist
  NoStash,      \* `git stash create` found nothing to record
  MaxActs,      \* bound on what the user and the session commands do
  MaxCrashes,   \* bound on how often a process dies
  MaxStarts     \* bound on how often `start` opens a session

ASSUME PathAssumption == IsFiniteSet(Paths)
ASSUME NullAssumption ==
  /\ None \notin Contents /\ IntentToAdd \notin Contents \cup {None}
  /\ Missing \notin BatchStates
ASSUME BoundAssumption == MaxActs \in Nat /\ MaxCrashes \in Nat /\ MaxStarts \in Nat

Tree  == [Paths -> Contents \cup {None}]
Index == [Paths -> Contents \cup {None, IntentToAdd}]

ASSUME FileAssumption ==
  /\ Missing \notin Tree
  /\ {Missing, NoStash} \cap [index : Tree, work : Tree] = {}

VARIABLES
  head, index, work, batches,
  dir,       \* the files under session/, EmptyDir when there is no directory
  anchored,  \* the anchor refs of the session's recovery objects exist
  \* the memory of the process that holds the session lock
  pc, task,
  raising,   \* the exception that ended `start` early is propagating
  intents,   \* the paths whose intent-to-add entry is to be put back
  hash,      \* what `git stash create` returned
  todo,      \* paths that the step in progress still has to treat
  \* what the user can say about the session (history variables)
  origin,    \* the repository when `start` began
  mine,      \* per path, what the user last wrote before a command copied it
  exposed,   \* untracked at the start, then staged, and committed or written
             \* by a command without a copy
  created,   \* paths that a command created where there was no file
  copied,    \* tracked at the start, and copied by a later command
  unrestored,\* intents that `start` took out of the index and could not put back
  quiet,     \* nothing was done since the session was opened
  stale,     \* session/ holds leftovers of a process that died
  acts, crashes, starts

repo   == <<head, index, work, batches>>
ghosts == <<origin, mine, exposed, created, copied, unrestored, quiet, stale>>
counts == <<acts, crashes, starts>>
memory == <<intents, hash, todo>>
vars   == <<repo, dir, anchored, pc, task, raising, memory, ghosts, counts>>

NoCopies == [p \in Paths |-> None]

EmptyDir ==
  [marker    |-> Missing,   \* abort/head.txt, written last
   stash     |-> Missing,   \* abort/stash.txt
   batches   |-> Missing,   \* abort/batch-refs.json
   anchors   |-> FALSE,     \* abort/recovery-anchors.json
   ita       |-> {},        \* abort/intent-to-add-files.txt and -entries.json
   list      |-> {},        \* abort/untracked-paths.txt
   copies    |-> NoCopies,  \* abort/untracked/
   autoAdded |-> {},        \* abort/auto-added-files.txt
   renames   |-> {},        \* abort/staged-renames.json
   deletions |-> {}]        \* abort/staged-deletions.json

Active == dir.marker # Missing

Snapshot == [head |-> head, index |-> index, work |-> work, batches |-> batches]

-----------------------------------------------------------------------------
(* Git.  Every operator was compared with what git does for one path.      *)

\* What a tree written from the index holds: an intent has no content.
Real(entry) == IF entry = IntentToAdd THEN None ELSE entry

CachedDiff(p) == Real(index[p]) # head[p]

\* git reset -- S: the entries become those of HEAD.
ResetPaths(S) == [p \in Paths |-> IF p \in S THEN head[p] ELSE index[p]]

\* git reset --hard removes the files of entries that the tree does not have.
ResetHardWork(tree) ==
  [p \in Paths |-> IF tree[p] # None \/ index[p] # None THEN tree[p] ELSE work[p]]

\* git stash create.  A file added to the index and deleted since comes back.
StashOf(h, i, w) ==
  LET tracked == {p \in Paths : h[p] # None \/ i[p] # None}
      Kept(p) == IF h[p] = None /\ w[p] = None THEN i[p] ELSE w[p]
  IN  IF \A p \in tracked : h[p] = i[p] /\ i[p] = w[p] THEN NoStash
      ELSE [index |-> i,
            work  |-> [p \in Paths |-> IF p \in tracked THEN Kept(p) ELSE None]]

StashedPaths(stash) == {p \in Paths : head[p] # None \/ stash.index[p] # None}

\* git stash apply refuses to write over a file that git does not track.
Obstructed(stash) ==
  \E p \in Paths : head[p] = None /\ stash.index[p] # None /\ work[p] # None

\* git diff --cached -M: a deleted and an added entry with one content.
StagedRenames ==
  {r \in [old : Paths, new : Paths, blob : Contents] :
     /\ head[r.old] = r.blob /\ Real(index[r.old]) = None
     /\ head[r.new] = None /\ index[r.new] = r.blob}

StagedDeletions == {p \in Paths : head[p] # None /\ Real(index[p]) = None /\ work[p] = None}

Untracked == {p \in Paths : index[p] = None /\ work[p] # None}

\* git add -N.
WithIntents(S) == [p \in Paths |-> IF p \in S THEN IntentToAdd ELSE index[p]]

-----------------------------------------------------------------------------
(* What the session files record.                                          *)

\* snapshot_files_if_untracked: a path that is listed is not copied again.
Uncopied(S) == {p \in S \ dir.list : Real(index[p]) = None /\ work[p] # None}

WithCopies(d, S) ==
  [d EXCEPT !.list = @ \cup S, !.copies = [p \in Paths |-> IF p \in S THEN work[p] ELSE @[p]]]

Intents == {p \in Paths : index[p] = IntentToAdd}

\* The paths that belonged to HEAD or to the index when the session began.
Owned == {p \in Paths : origin.head[p] # None \/ origin.index[p] # None}

\* The session directory after a removal that kept only these files.
Torn(kept) == [f \in DOMAIN dir |-> IF f \in kept THEN dir[f] ELSE EmptyDir[f]]

-----------------------------------------------------------------------------
\* Where the user may start: clean, edited, staged, deleted, untracked, `git
\* rm --cached` and `git add -N` files in every combination.
Init ==
  /\ head \in Tree /\ index \in Index /\ work \in Tree /\ batches \in BatchStates
  /\ \A p \in Paths : head[p] = None /\ work[p] = None => index[p] \notin Contents
  /\ dir = EmptyDir /\ anchored = FALSE
  /\ pc = "idle" /\ task = "none" /\ raising = FALSE
  /\ intents = {} /\ hash = Missing /\ todo = {}
  /\ origin = Snapshot /\ mine = work
  /\ exposed = {} /\ created = {} /\ copied = {} /\ unrestored = {}
  /\ quiet = TRUE /\ stale = FALSE
  /\ acts = 0 /\ crashes = 0 /\ starts = 0

Idle == pc = "idle"

Goto(next) == pc' = next /\ UNCHANGED <<task, raising>>

\* The process ends, by itself or not, and forgets everything.
Exit ==
  /\ pc' = "idle" /\ task' = "none" /\ raising' = FALSE
  /\ intents' = {} /\ hash' = Missing /\ todo' = {}

-----------------------------------------------------------------------------
(* start.                                                                  *)

Start ==
  /\ Idle /\ ~Active /\ starts < MaxStarts
  /\ starts' = starts + 1
  /\ task' = "start" /\ pc' = "copyIntents" /\ raising' = FALSE
  /\ origin' = Snapshot /\ mine' = work
  /\ exposed' = {} /\ created' = {} /\ copied' = {} /\ unrestored' = {} /\ quiet' = TRUE
  /\ UNCHANGED <<repo, dir, anchored, memory, stale, acts, crashes>>

\* _snapshot_intent_to_add_files.
CopyIntents ==
  /\ pc = "copyIntents"
  /\ LET d == WithCopies(dir, Uncopied(Intents))
     IN  dir' = [d EXCEPT !.ita = IF Intents = {} THEN @ ELSE Intents]
  /\ intents' = Intents
  /\ Goto("dropNewIntents")
  /\ UNCHANGED <<repo, anchored, hash, todo, ghosts, counts>>

\* Slip: git rm without --cached.
RemoveNewIntents ==
  /\ pc = "dropNewIntents"
  /\ LET new == {p \in intents : head[p] = None}
     IN  /\ index' = [p \in Paths |-> IF p \in new THEN None ELSE index[p]]
         /\ work' = [p \in Paths |-> IF p \in new THEN None ELSE work[p]]
  /\ Goto("resetTrackedIntents")
  /\ UNCHANGED <<head, batches, dir, anchored, memory, ghosts, counts>>

\* git rm --cached for the intents that HEAD does not have ...
DropNewIntents ==
  /\ pc = "dropNewIntents"
  /\ index' = [p \in Paths |-> IF p \in intents /\ head[p] = None THEN None ELSE index[p]]
  /\ Goto("resetTrackedIntents")
  /\ UNCHANGED <<head, work, batches, dir, anchored, memory, ghosts, counts>>

\* ... and git reset HEAD for the others.
ResetTrackedIntents ==
  /\ pc = "resetTrackedIntents"
  /\ index' = ResetPaths({p \in intents : head[p] # None})
  /\ Goto("createStash")
  /\ UNCHANGED <<head, work, batches, dir, anchored, memory, ghosts, counts>>

CreateStash ==
  /\ pc = "createStash"
  /\ hash' = StashOf(head, index, work)
  /\ Goto("unsetIntents")
  /\ UNCHANGED <<repo, dir, anchored, intents, todo, ghosts, counts>>

\* git_restore_intent_to_add_paths removes the entries, then adds them with an
\* intent.  start calls it in a finally clause, abort after the copies.
UnsetIntents ==
  /\ pc = "unsetIntents"
  /\ index' = [p \in Paths |-> IF p \in intents THEN None ELSE index[p]]
  /\ Goto("setIntents")
  /\ UNCHANGED <<head, work, batches, dir, anchored, memory, ghosts, counts>>

SetIntents ==
  /\ pc = "setIntents"
  /\ index' = [p \in Paths |-> IF p \in intents THEN IntentToAdd ELSE index[p]]
  /\ Goto(IF task = "abort" THEN "restoreBatches"
          ELSE IF raising THEN "clearHistory" ELSE "saveStash")
  /\ UNCHANGED <<head, work, batches, dir, anchored, memory, ghosts, counts>>

SaveStash ==
  /\ pc = "saveStash"
  /\ dir' = [dir EXCEPT !.stash = hash]
  /\ Goto("saveBatches")
  /\ UNCHANGED <<repo, anchored, memory, ghosts, counts>>

SaveBatches ==
  /\ pc = "saveBatches"
  /\ dir' = [dir EXCEPT !.batches = batches]
  /\ Goto("anchor")
  /\ UNCHANGED <<repo, anchored, memory, ghosts, counts>>

\* Slip: the objects are recorded, but no ref is made that keeps them.
AnchorNothing ==
  /\ pc = "anchor"
  /\ Goto("recordAnchors")
  /\ UNCHANGED <<repo, dir, anchored, memory, ghosts, counts>>

\* The refs that keep the recovery objects, and the list of these refs.
Anchor ==
  /\ pc = "anchor"
  /\ anchored' = TRUE
  /\ Goto("recordAnchors")
  /\ UNCHANGED <<repo, dir, memory, ghosts, counts>>

RecordAnchors ==
  /\ pc = "recordAnchors"
  /\ dir' = [dir EXCEPT !.anchors = TRUE]
  /\ Goto("publish")
  /\ UNCHANGED <<repo, anchored, memory, ghosts, counts>>

\* head.txt makes the session active.
Publish ==
  /\ pc = "publish"
  /\ dir' = [dir EXCEPT !.marker = head]
  /\ Goto("claim")
  /\ UNCHANGED <<repo, anchored, memory, ghosts, counts>>

\* claim_session_ownership concerns other worktrees only.
Claim ==
  /\ pc = "claim"
  /\ Goto("noteRenames")
  /\ UNCHANGED <<repo, dir, anchored, memory, ghosts, counts>>

\* normalize_start_time_staged_renames: the record, then git reset.
NoteRenames ==
  /\ pc = "noteRenames"
  /\ IF StagedRenames = {} THEN Goto("noteDeletions") /\ UNCHANGED dir
     ELSE Goto("resetRenames") /\ dir' = [dir EXCEPT !.renames = StagedRenames]
  /\ UNCHANGED <<repo, anchored, memory, ghosts, counts>>

ResetRenames ==
  /\ pc = "resetRenames"
  /\ index' = ResetPaths(UNION {{r.old, r.new} : r \in dir.renames})
  /\ Goto("noteDeletions")
  /\ UNCHANGED <<head, work, batches, dir, anchored, memory, ghosts, counts>>

\* normalize_start_time_staged_deletions.
NoteDeletions ==
  /\ pc = "noteDeletions"
  /\ IF StagedDeletions = {} THEN Goto("listUntracked") /\ UNCHANGED dir
     ELSE Goto("resetDeletions") /\ dir' = [dir EXCEPT !.deletions = StagedDeletions]
  /\ UNCHANGED <<repo, anchored, memory, ghosts, counts>>

ResetDeletions ==
  /\ pc = "resetDeletions"
  /\ index' = ResetPaths(dir.deletions)
  /\ Goto("listUntracked")
  /\ UNCHANGED <<head, work, batches, dir, anchored, memory, ghosts, counts>>

\* auto_add_untracked_files: the record, then git add -N, whose failure is
\* survived by taking the record back.
ListUntracked ==
  /\ pc = "listUntracked"
  /\ dir' = [dir EXCEPT !.autoAdded = @ \cup Untracked]
  /\ todo' = Untracked \ dir.autoAdded
  /\ Goto("addUntracked")
  /\ UNCHANGED <<repo, anchored, intents, hash, ghosts, counts>>

AddUntracked ==
  /\ pc = "addUntracked"
  /\ \/ index' = WithIntents(Untracked) /\ UNCHANGED dir
     \/ dir' = [dir EXCEPT !.autoAdded = @ \ todo] /\ UNCHANGED index
  /\ todo' = {}
  /\ Goto("fetch")
  /\ UNCHANGED <<head, work, batches, anchored, intents, hash, ghosts, counts>>

\* fetch_next_change found a change: the session has begun.
Fetch ==
  /\ pc = "fetch"
  /\ Exit
  /\ UNCHANGED <<repo, dir, anchored, ghosts, counts>>

\* Slip: no finally clause around the stash.
HandlerWithoutFinally(at) ==
  IF at \in {"copyIntents", "dropNewIntents", "resetTrackedIntents", "createStash",
             "saveStash", "saveBatches", "anchor", "recordAnchors", "publish", "claim"}
  THEN "clearHistory"
  ELSE IF at \in {"noteRenames", "resetRenames", "noteDeletions", "resetDeletions",
                  "listUntracked", "addUntracked", "fetch"}
  THEN "abortCheck" ELSE "none"

\* Where an exception takes `start`: before the stash result is known through
\* the finally clause, until the session is claimed to clear_session_state,
\* and then to `abort`.  RestorationFails has the exceptions of that clause.
Handler(at) ==
  CASE at \in {"dropNewIntents", "resetTrackedIntents", "createStash"} -> "unsetIntents"
    [] at \in {"copyIntents", "saveStash", "saveBatches", "anchor", "recordAnchors",
               "publish", "claim"} -> "clearHistory"
    [] at \in {"noteRenames", "resetRenames", "noteDeletions", "resetDeletions",
               "listUntracked", "addUntracked", "fetch"} -> "abortCheck"
    [] OTHER -> "none"

StartFails ==
  /\ task = "start" /\ ~raising /\ Handler(pc) # "none"
  /\ pc' = Handler(pc) /\ raising' = TRUE
  /\ task' = IF Handler(pc) = "abortCheck" THEN "abort" ELSE "start"
  /\ quiet' = FALSE
  /\ UNCHANGED <<repo, dir, anchored, memory, counts,
                 origin, mine, exposed, created, copied, unrestored, stale>>

\* git_restore_intent_to_add_paths fails too, with or without an exception
\* before it: at the removal, or at the addition, which is tried once more and
\* raises even if that puts the entries back.  The session state is cleared.
RestorationFails ==
  /\ task = "start" /\ pc \in {"unsetIntents", "setIntents"} /\ intents # {}
  /\ \/ UNCHANGED index
     \/ pc = "setIntents" /\ index' = WithIntents(intents)
  /\ unrestored' = {p \in intents : index'[p] # IntentToAdd}
  /\ pc' = "clearHistory" /\ raising' = TRUE /\ quiet' = FALSE
  /\ UNCHANGED <<head, work, batches, dir, anchored, task, memory, counts,
                 origin, mine, exposed, created, copied, stale>>

-----------------------------------------------------------------------------
(* stop.                                                                   *)

\* Bound: nothing to clear, nothing to do.
Stop ==
  /\ Idle /\ dir # EmptyDir
  /\ pc' = "resetAutoAdded" /\ task' = "stop"
  /\ UNCHANGED <<repo, dir, anchored, raising, memory, ghosts, counts>>

\* Slip: what the user staged leaves the index as well.
ResetAllAutoAdded ==
  /\ pc = "resetAutoAdded"
  /\ index' = ResetPaths(dir.autoAdded)
  /\ Goto("restoreRenames")
  /\ UNCHANGED <<head, work, batches, dir, anchored, memory, ghosts, counts>>

\* The automatically added paths without staged content leave the index.
ResetAutoAdded ==
  /\ pc = "resetAutoAdded"
  /\ index' = ResetPaths({p \in dir.autoAdded : ~CachedDiff(p)})
  /\ Goto("restoreRenames")
  /\ UNCHANGED <<head, work, batches, dir, anchored, memory, ghosts, counts>>

\* The user neither staged nor committed anything at these paths.
Untouched(S) == \A p \in S : ~CachedDiff(p) /\ (Active => dir.marker[p] = head[p])

\* Slip: only the destination of the rename is staged again.
RestoreRenameTargets ==
  /\ pc = "restoreRenames"
  /\ LET restored == {r \in dir.renames : Untouched({r.old, r.new})}
     IN  index' = [p \in Paths |->
           IF \E r \in restored : p = r.new
           THEN (CHOOSE r \in restored : p = r.new).blob ELSE index[p]]
  /\ Goto("restoreDeletions")
  /\ UNCHANGED <<head, work, batches, dir, anchored, memory, ghosts, counts>>

RestoreRenames ==
  /\ pc = "restoreRenames"
  /\ LET restored == {r \in dir.renames : Untouched({r.old, r.new})}
     IN  index' = [p \in Paths |->
           IF \E r \in restored : p = r.new
           THEN (CHOOSE r \in restored : p = r.new).blob
           ELSE IF \E r \in restored : p = r.old THEN None ELSE index[p]]
  /\ Goto("restoreDeletions")
  /\ UNCHANGED <<head, work, batches, dir, anchored, memory, ghosts, counts>>

RestoreDeletions ==
  /\ pc = "restoreDeletions"
  /\ index' = [p \in Paths |->
       IF p \in dir.deletions /\ work[p] = None /\ Untouched({p}) THEN None ELSE index[p]]
  /\ Goto("clearHistory")
  /\ UNCHANGED <<head, work, batches, dir, anchored, memory, ghosts, counts>>

\* clear_session_state, for stop, for abort and for a start that failed: the
\* refs first, then the directory.
ClearHistory ==
  /\ pc = "clearHistory"
  /\ anchored' = FALSE
  /\ Goto("removeDirectory")
  /\ UNCHANGED <<repo, dir, memory, ghosts, counts>>

RemoveDirectory ==
  /\ pc = "removeDirectory"
  /\ dir' = EmptyDir /\ stale' = FALSE
  /\ Exit
  /\ UNCHANGED <<repo, anchored, origin, mine, exposed, created, copied, unrestored, quiet,
                 counts>>

-----------------------------------------------------------------------------
(* abort.                                                                  *)

Abort ==
  /\ Idle /\ Active
  /\ pc' = "abortCheck" /\ task' = "abort" /\ quiet' = FALSE
  /\ UNCHANGED <<repo, dir, anchored, raising, memory, counts,
                 origin, mine, exposed, created, copied, unrestored, stale>>

\* Everything needed is read and validated before anything changes.  A
\* missing stash.txt reads as no stash, a missing recovery-anchors.json as no
\* recorded anchors.
Recoverable ==
  /\ dir.batches # Missing
  /\ dir.anchors => anchored
  /\ \A p \in dir.list : dir.copies[p] # None

AbortCheck ==
  /\ pc = "abortCheck"
  /\ IF Recoverable THEN Goto("dropAutoAdded") /\ UNCHANGED memory ELSE Exit
  /\ UNCHANGED <<repo, dir, anchored, ghosts, counts>>

DropAutoAdded ==
  /\ pc = "dropAutoAdded"
  /\ index' = ResetPaths(dir.autoAdded)
  /\ Goto("resetHard")
  /\ UNCHANGED <<head, work, batches, dir, anchored, memory, ghosts, counts>>

ResetHard ==
  /\ pc = "resetHard"
  /\ work' = ResetHardWork(dir.marker)
  /\ head' = dir.marker /\ index' = dir.marker
  /\ Goto("dropRenameTargets")
  /\ UNCHANGED <<batches, dir, anchored, memory, ghosts, counts>>

\* The destination of a normalized rename is untracked now and in the way.
DropRenameTargets ==
  /\ pc = "dropRenameTargets"
  /\ work' = [p \in Paths |->
       IF index[p] = None /\ \E r \in dir.renames : p = r.new THEN None ELSE work[p]]
  /\ Goto("applyStash")
  /\ UNCHANGED <<head, index, batches, dir, anchored, memory, ghosts, counts>>

\* Slip: git stash apply without --index.
ApplyStashWithoutIndex ==
  /\ pc = "applyStash"
  /\ IF dir.stash \in {Missing, NoStash} THEN
       todo' = dir.list /\ Goto("restoreCopies") /\ UNCHANGED <<work, intents, hash>>
     ELSE IF Obstructed(dir.stash) THEN Exit /\ UNCHANGED work
     ELSE
       /\ work' = [p \in Paths |->
            IF p \in StashedPaths(dir.stash) THEN dir.stash.work[p] ELSE work[p]]
       /\ todo' = dir.list /\ Goto("restoreCopies") /\ UNCHANGED <<intents, hash>>
  /\ UNCHANGED <<head, index, batches, dir, anchored, ghosts, counts>>

\* An obstruction ends the command; the session remains active.
ApplyStash ==
  /\ pc = "applyStash"
  /\ IF dir.stash \in {Missing, NoStash} THEN
       /\ todo' = dir.list /\ Goto("restoreCopies")
       /\ UNCHANGED <<index, work, intents, hash>>
     ELSE IF Obstructed(dir.stash) THEN Exit /\ UNCHANGED <<index, work>>
     ELSE
       /\ index' = [p \in Paths |->
            IF p \in StashedPaths(dir.stash) THEN dir.stash.index[p] ELSE index[p]]
       /\ work' = [p \in Paths |->
            IF p \in StashedPaths(dir.stash) THEN dir.stash.work[p] ELSE work[p]]
       /\ todo' = dir.list /\ Goto("restoreCopies")
       /\ UNCHANGED <<intents, hash>>
  /\ UNCHANGED <<head, batches, dir, anchored, ghosts, counts>>

\* Every copy is published atomically, one path after the other.
RestoreCopies ==
  /\ pc = "restoreCopies"
  /\ IF todo = {} THEN
       /\ intents' = dir.ita
       /\ Goto(IF dir.ita = {} THEN "restoreBatches" ELSE "unsetIntents")
       /\ UNCHANGED <<work, todo>>
     ELSE \E p \in todo :
       /\ work' = [work EXCEPT ![p] = dir.copies[p]]
       /\ todo' = todo \ {p}
       /\ UNCHANGED <<pc, task, raising, intents>>
  /\ UNCHANGED <<head, index, batches, dir, anchored, hash, ghosts, counts>>

RestoreBatches ==
  /\ pc = "restoreBatches"
  /\ batches' = dir.batches
  /\ Goto("clearHistory")
  /\ UNCHANGED <<head, index, work, dir, anchored, memory, ghosts, counts>>

-----------------------------------------------------------------------------
(* The commands of an active session.  Each is one undo transaction, whose  *)
(* steps are the business of UndoCheckpoints.                               *)

Acts == Idle /\ acts < MaxActs /\ acts' = acts + 1

Command ==
  /\ Acts /\ Active /\ quiet' = FALSE
  /\ UNCHANGED <<anchored, pc, task, raising, memory, origin, mine, unrestored, stale,
                 crashes, starts>>

\* A command that writes p copies it first, when its content is not tracked.
\* What the user wrote before is `mine`, unless the path was tracked.
CopyFirst(d, idx, p) ==
  IF p \notin d.list /\ Real(idx[p]) = None /\ work[p] # None THEN WithCopies(d, {p}) ELSE d

NoteCopy(d) == copied' = copied \cup ((d.list \ dir.list) \cap Owned)
NoteLoss(d, p) ==
  exposed' = IF Real(index[p]) # None THEN exposed \cup ({p} \ (Owned \cup d.list)) ELSE exposed

\* The command lists and intends to add the path first if it is untracked.
Shown(p)  == WithIntents(Untracked \cap {p})
Listed(p) == [dir EXCEPT !.autoAdded = @ \cup (Untracked \cap {p})]

HasChange(p) == Shown(p)[p] # None /\ Real(Shown(p)[p]) # work[p]

Again ==
  /\ Command
  /\ dir' = [dir EXCEPT !.autoAdded = @ \cup Untracked]
  /\ index' = WithIntents(Untracked)
  /\ UNCHANGED <<head, work, batches, exposed, created, copied>>

Include(p) ==
  /\ Command /\ HasChange(p)
  /\ dir' = Listed(p)
  /\ index' = [index EXCEPT ![p] = work[p]]
  /\ UNCHANGED <<head, work, batches, exposed, created, copied>>

\* discard --file: back to the index entry, or away with a file that has none.
Discard(p) ==
  /\ Command /\ HasChange(p)
  /\ LET entry == Shown(p)[p]
         d     == CopyFirst(Listed(p), Shown(p), p)
     IN  /\ dir' = d /\ NoteCopy(d) /\ NoteLoss(d, p)
         /\ work' = [work EXCEPT ![p] = Real(entry)]
         /\ index' = [index EXCEPT ![p] = Real(entry)]
  /\ UNCHANGED <<head, batches, created>>

\* apply --from writes what a batch holds into the worktree.
Apply(p, v) ==
  /\ Command /\ v # work[p]
  /\ LET d == CopyFirst(dir, index, p) IN dir' = d /\ NoteCopy(d) /\ NoteLoss(d, p)
  /\ work' = [work EXCEPT ![p] = v]
  /\ created' = IF Real(index[p]) = None /\ work[p] = None THEN created \cup {p} ELSE created
  /\ UNCHANGED <<head, index, batches>>

ChangeBatch(b) ==
  /\ Command /\ b # batches
  /\ batches' = b
  /\ UNCHANGED <<head, index, work, dir, exposed, created, copied>>

-----------------------------------------------------------------------------
(* The user, between commands.                                              *)

UserActs == Acts /\ quiet' = FALSE /\ UNCHANGED <<dir, anchored, pc, task, raising, memory,
                                                  batches, origin, created, copied, unrestored,
                                                  stale, crashes, starts>>

Edit(p, v) ==
  /\ UserActs /\ v # work[p]
  /\ work' = [work EXCEPT ![p] = v]
  /\ mine' = IF p \in dir.list THEN mine ELSE [mine EXCEPT ![p] = v]
  /\ UNCHANGED <<head, index, exposed>>

Commit ==
  /\ UserActs
  /\ \E p \in Paths : CachedDiff(p)
  /\ head' = [p \in Paths |-> Real(index[p])]
  /\ exposed' = exposed \cup {p \in Paths \ (Owned \cup dir.list) : Real(index[p]) # None}
  /\ UNCHANGED <<index, work, mine>>

-----------------------------------------------------------------------------
\* The process dies, and with it the lock.  It may have removed a part of the
\* session directory, in whatever order rmtree met the files.
Crash ==
  /\ ~Idle /\ crashes < MaxCrashes
  /\ crashes' = crashes + 1
  /\ IF pc = "removeDirectory"
     THEN \E kept \in SUBSET DOMAIN dir : dir' = Torn(kept)
     ELSE UNCHANGED dir
  /\ stale' = (stale \/ pc = "removeDirectory" \/ (task = "start" /\ ~Active))
  /\ Exit
  /\ UNCHANGED <<repo, anchored, origin, mine, exposed, created, copied, unrestored, quiet,
                 acts, starts>>

StartStep ==
  \/ CopyIntents \/ DropNewIntents \/ ResetTrackedIntents \/ CreateStash
  \/ UnsetIntents \/ SetIntents
  \/ SaveStash \/ SaveBatches \/ Anchor \/ RecordAnchors \/ Publish \/ Claim
  \/ NoteRenames \/ ResetRenames \/ NoteDeletions \/ ResetDeletions
  \/ ListUntracked \/ AddUntracked \/ Fetch
  \/ StartFails \/ RestorationFails

StopStep == ResetAutoAdded \/ RestoreRenames \/ RestoreDeletions \/ ClearHistory \/ RemoveDirectory

AbortStep ==
  \/ AbortCheck \/ DropAutoAdded \/ ResetHard \/ DropRenameTargets \/ ApplyStash
  \/ RestoreCopies \/ RestoreBatches

CommandStep ==
  \/ Again
  \/ \E p \in Paths : Include(p) \/ Discard(p) \/ (\E v \in Contents : Apply(p, v))
  \/ \E b \in BatchStates : ChangeBatch(b)

UserStep == Commit \/ \E p \in Paths : \E v \in Contents \cup {None} : Edit(p, v)

Next ==
  \/ Start \/ Stop \/ Abort
  \/ StartStep \/ StopStep \/ AbortStep
  \/ CommandStep \/ UserStep
  \/ Crash

Spec == Init /\ [][Next]_vars

-----------------------------------------------------------------------------
(* Properties.                                                             *)

Dirs ==
  [marker : Tree \cup {Missing}, stash : [index : Tree, work : Tree] \cup {Missing, NoStash},
   batches : BatchStates \cup {Missing}, anchors : BOOLEAN,
   ita : SUBSET Paths, list : SUBSET Paths, copies : Tree, autoAdded : SUBSET Paths,
   renames : SUBSET [old : Paths, new : Paths, blob : Contents], deletions : SUBSET Paths]

\* Where a command may be.
BeforeMarker ==
  {"copyIntents", "dropNewIntents", "resetTrackedIntents", "createStash", "unsetIntents",
   "setIntents", "saveStash", "saveBatches", "anchor", "recordAnchors", "publish"}
AfterMarker ==
  {"claim", "noteRenames", "resetRenames", "noteDeletions", "resetDeletions",
   "listUntracked", "addUntracked", "fetch"}
Stopping == {"resetAutoAdded", "restoreRenames", "restoreDeletions"}
Restoring ==
  {"dropAutoAdded", "resetHard", "dropRenameTargets", "applyStash", "restoreCopies",
   "unsetIntents", "setIntents", "restoreBatches"}
Clearing == {"clearHistory", "removeDirectory"}

Labels ==
  {"idle", "abortCheck"} \cup BeforeMarker \cup AfterMarker \cup Stopping \cup Restoring \cup Clearing

\* The types of the variables.
TypeOK ==
  /\ head \in Tree /\ index \in Index /\ work \in Tree /\ batches \in BatchStates
  /\ dir \in Dirs /\ anchored \in BOOLEAN
  /\ pc \in Labels /\ task \in {"none", "start", "stop", "abort"} /\ raising \in BOOLEAN
  /\ intents \in SUBSET Paths /\ todo \in SUBSET Paths
  /\ hash \in [index : Tree, work : Tree] \cup {Missing, NoStash}
  /\ origin \in [head : Tree, index : Index, work : Tree, batches : BatchStates]
  /\ mine \in Tree
  /\ {exposed, created, copied, unrestored} \subseteq SUBSET Paths
  /\ quiet \in BOOLEAN /\ stale \in BOOLEAN
  /\ acts \in 0..MaxActs /\ crashes \in 0..MaxCrashes /\ starts \in 0..MaxStarts

\* The index that `git stash create` saw: what `start` normalized it to.
Normalized ==
  [p \in Paths |-> IF origin.index[p] = IntentToAdd THEN origin.head[p] ELSE origin.index[p]]

\* Once head.txt makes a session active and until it is being cleared, the
\* session directory alone holds what it takes to go back: the HEAD, the index
\* and the tracked files from before `start`, the intent-to-add entries, the
\* batches, and a copy of every listed path; and the objects are anchored.
\* This is what lets `abort` be retried after it died at any of its steps.
ActiveMeansRecoverable ==
  Active /\ ~stale =>
    /\ dir.marker = origin.head
    /\ dir.stash = StashOf(origin.head, Normalized, origin.work)
    /\ dir.batches = origin.batches
    /\ dir.ita = {p \in Paths : origin.index[p] = IntentToAdd}
    /\ pc # "removeDirectory" => Recoverable
    /\ \A p \in dir.list \ (copied \cup created \cup exposed) : dir.copies[p] = mine[p]

\* A `start` that dies before the session is active has changed nothing but
\* intent-to-add entries, which hold no content: no work is lost without abort.
InactiveStartKeepsWork ==
  task = "start" /\ ~Active =>
    /\ head = origin.head /\ work = origin.work /\ batches = origin.batches
    /\ \A p \in Paths : origin.index[p] # IntentToAdd => index[p] = origin.index[p]

\* The last step of a command that clears the session.
Completes(command) == pc = "removeDirectory" /\ task = command /\ pc' = "idle" /\ crashes' = crashes

\* A `start` that fails before the session is claimed puts every intent-to-add
\* entry back and leaves the repository as it found it.  Where git fails at that
\* as well the entry is missing or HEAD's, and nothing else is lost.
FailedStartLeavesNoTrace ==
  [][Completes("start") =>
       /\ head = origin.head /\ work = origin.work /\ batches = origin.batches
       /\ \A p \in Paths :
            IF p \in unrestored THEN /\ origin.index[p] = IntentToAdd
                                    /\ index[p] \in {None, origin.head[p]}
            ELSE index[p] = origin.index[p]]_vars

\* Added to the index and deleted before the session: git stash brings the
\* file back, and nothing keeps one from appearing where only an intent was.
Fileless(p) == origin.head[p] = None /\ origin.work[p] = None

\* An abort that completes, after any number of attempts that died, gives back
\* HEAD and the batches, every path that was tracked when the session began,
\* and every file that was not, as the user last left it before a command
\* touched it.  Left out are the paths of the findings: untracked files that
\* were staged and then committed or overwritten, files that a command created,
\* tracked paths that a command copied later, and a session directory with
\* leftovers of a crash.
AbortRestores ==
  [][Completes("abort") /\ ~stale =>
       /\ head = origin.head /\ batches = origin.batches
       /\ \A p \in Owned \ copied :
            /\ index[p] = origin.index[p]
            /\ ~Fileless(p) => work[p] = origin.work[p]
       /\ \A p \in Paths \ (Owned \cup exposed \cup created) :
            index[p] = None /\ work[p] = mine[p]]_vars

\* Paths in HEAD that the index lost (git rm --cached) or holds as an intent:
\* start adds or normalizes them, and stop does not take that back.
Unowned(p) ==
  /\ origin.head[p] # None
  /\ \/ origin.index[p] = IntentToAdd
     \/ origin.index[p] = None /\ origin.work[p] # None

\* When nothing was done since `start`, `stop` is its inverse, even when either
\* of them died on the way and `stop` was run again: the staged renames and
\* deletions are staged again and the files that were added leave the index.
QuietStopUndoesStart ==
  [][Completes("stop") /\ quiet /\ ~stale =>
       /\ head = origin.head /\ work = origin.work /\ batches = origin.batches
       /\ \A p \in Paths : ~Unowned(p) => index[p] = origin.index[p]]_vars

\* stop never takes away what the user staged, at any of its steps, of a first
\* or a later attempt: an entry whose content differs from HEAD's stays.
StopKeepsStagedWork ==
  [][task = "stop" => \A p \in Paths : CachedDiff(p) => index'[p] = index[p]]_vars

-----------------------------------------------------------------------------
(* What the documentation says and the code does not do.                   *)

\* An abort that goes through restores the tracked files, whatever happened
\* before it: without its recovery objects a hard reset would be destructive.
AbortIsNeverDestructive ==
  [][Completes("abort") =>
       \A p \in Owned \ copied : Fileless(p) \/ work[p] = origin.work[p]]_vars
=============================================================================
