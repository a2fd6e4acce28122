# A TLA+ verification project for git-stage-batch

git-stage-batch stages changes hunk by hunk and line by line, keeps "batches"
of changes in refs of their own, rewrites history from a plan, and lets every
command of a session be undone. This directory models the parts of it that keep
durable state and must survive failures, checks them with TLC on small
instances, and proves the most important facts for every instance with TLAPS.

Paths below are relative to `src/src/git_stage_batch/` unless they start with
`src/`.

## Inventory of the system

| Component | State it keeps | Operations | What makes it correct |
|---|---|---|---|
| Undo and redo (`data/undo/`) | refs `session/undo-stack`, `session/redo-stack` (commits, parent = previous checkpoint); process-local pending checkpoint, transaction boundary | `undo_checkpoint`, `transaction_checkpoint`, `finalize_pending_checkpoint`, rollback, `undo`, `redo` | a command is all or nothing; nothing written is unrecoverable; undo/redo walk commands in order; no success is announced that is rolled back |
| Session (`data/session*.py`, `data/recovery_anchors.py`, `commands/{start,stop,abort,again}.py`) | session directory, `abort/head.txt` marker, stash and index snapshots, ownership record shared by linked worktrees, recovery anchor refs | start, again, stop, abort | abort gives back the start state; a half-made or half-cleared session is recoverable; one owner at a time |
| Session ownership (`data/session_ownership.py`, the markers of linked worktrees) | one owner record, one set of anchors, a marker per worktree | claim, require, discard a stale owner, release | one worktree at a time has a session, and it is anchored as long as it is live |
| Session lock (`utils/session_lock.py`, `cli/execution.py`) | flock, generation counter, reentrancy depth, lending to children | acquire, release, release around a prompt | mutating commands are serialised; what was read before a prompt is read again after it |
| Status cache (`data/status_summary_cache.py`) | cached summary keyed by the lock generation | sample, store | a cached answer is never older than the last mutation |
| History rewrite (`history/`, `commands/rewrite_*.py`) | operation record with a phase, pending output, branch ref | apply, continue, abort, status | the branch moves once, from the recorded original to the verified output; a crash resumes; abort restores |
| Index transaction (`utils/index_transaction.py`, `utils/git_index_lock.py`) | index file, index.lock | begin, publish, abandon | no lost update of the index, no lock left behind |
| Selection and progress (`data/selected_change/`, `data/hunk_tracking.py`, `data/progress.py`) | `selected/` files: patch, lines with IDs, snapshots, kind; processed hunk lists | show, next, include, skip, discard | an action acts on the change that was shown; the walk visits each hunk once |
| File review (`data/file_review/`) | shown pages with line identifiers, and the fingerprint of the view | show, act on lines | an action uses the identifiers of the content that was shown; a partly shown file is not staged whole |
| Overlays (`data/applied_batch_overlays.py`) | applied-batch records | apply, reset | records follow the batches they name |
| Batches (`batch/state/`, `batch/ownership/`, `batch/merge/`, `batch/line_matching/`, `batch/source/`, `batch/realization/`) | batch state and content refs | include to, apply from, reset, drop, sift | metadata and content refs agree; merging places claimed lines once |
| Fixup (`fixup/`) | fixup plans | suggest, create | the plan's commits are published in order |
| File jobs (`utils/file_job*.py`) | a pool of worker processes with a pipe each, for one call | submit, receive, close, terminate | a result for every job or the failure of the right one; no worker outlives the call |
| Object promotion (`utils/git_object_promotion.py`) | packs with leases and markers | promote, adopt, release | no object lost, no lease left |
| CLI, TUI, output, editor, core parsing, assets | none that lasts, or formatting | | |

How they interact. `cli/execution.py` takes the session lock, then runs one
command. A mutating command opens an undo checkpoint around its writes; the
checkpoint snapshots the session and batches directories, the batch refs and the
declared index, worktree and repository paths. Commands call each other in one
process, so checkpoints nest. `undo` and `redo` restore such snapshots. `stop`
and `abort` end the session, which also removes the undo refs. The user's editor
and plain git commands run concurrently with all of it, without the lock, and so
does a shell prompt, which only reads the status cache and the lock's generation.
A history rewrite keeps its own checkpoint instead of an undo checkpoint, because
it has to survive many commands; the pack that a build promotes is kept alive by
a lease until a ref reaches it. Commands that stage whole files hold git's own
`index.lock` and publish a private index. `show` leaves the selected change and
the review in `session/selected/`, and a later command that names no path acts on
what it finds there: two processes that share nothing but these files, with the
user between them.

Hard behaviour: a process may be killed between any two filesystem or ref
updates; the user edits while a command runs; a nested command fails and its
caller goes on; a rollback itself fails; the redo stack has to survive a command
that failed; the two stack refs are updated one after the other by `undo` and
`redo`; a prompt gives the lock up and another command runs meanwhile; git
collects garbage while a build's commits are in no ref; a child process outlives
its parent and keeps the lock; a parent and its worker wait for each other's pipe.

## Modules

| Module | Models | 
|---|---|
| `UndoCheckpoints` | the undo machinery of `data/undo/`, every ref update and every restore stage an action of its own |
| `EditorHistory` | abstract: what undo and redo promise, a line of commands with a cursor |
| `UndoHistory` | the refinement mapping from `UndoCheckpoints` to `EditorHistory` and the invariant behind it |
| `UndoContents` | what a running command knows of its memory and of the contents of cells: the invariant behind the proofs about rollback, undo and announcements |
| `UndoProofs` | the TLAPS proofs about the four |
| `SessionRecovery` | the life of a session in one worktree: `start`, `again`, `stop`, `abort`, what the commands of a session do to its recovery files, failures and crashes at every step |
| `MCSession` | `SessionRecovery` with the symmetry and the state constraint of its run |
| `SessionProofs` | TLAPS: types, that an active session is always recoverable, that an abort gives back what was there, that a stop undoes an undisturbed start |
| `SessionOwnership` | which of the linked worktrees owns the session: marker, owner record, anchors |
| `SessionOwnershipProofs` | TLAPS: that a live session is owned and anchored |
| `SessionLock` | the lock, its generation, prompts that give it up, children that inherit it |
| `SessionLockProofs` | TLAPS: exclusion, no wait for oneself, nothing done unawares after a prompt; and that an entry of `StatusCache` called current is true |
| `StatusCache` | the prompt's summary beside the commands of `SessionLock`, which it extends |
| `ObjectPromotion` | packs, their `.keep` leases and markers, and git's garbage collection |
| `RewriteOperation` | `rewrite apply`, `continue` and `abort` with their checkpoint; extends `ObjectPromotion` |
| `HistoryRewrite` | abstract: a rewrite happens at once or not at all |
| `RewriteProofs` | TLAPS: the invariants of a rewrite, and that it implements `HistoryRewrite` |
| `IndexTransaction` | staging on a private index beside other git processes |
| `IndexTransactionProofs` | TLAPS: no update is lost, a command's hunks are staged together |
| `FileJobs` | one call of `run_file_jobs` over worker processes |
| `FileJobsProofs` | TLAPS: results are complete, blame is right, workers end before the call |
| `ReviewedSelection` | the selected change and the review of a file between the command that shows and the command that acts |
| `MCSelection` | `ReviewedSelection` with the symmetry and the state constraint of its run |
| `SelectionProofs` | TLAPS: a command acts on what was shown, and IDs keep their meaning within the limits the code keeps |

### UndoCheckpoints

The repository is a function `live` from cells to values. A cell is a file of
the session or batches directory, a batch ref, a scoped file of the git
directory, an index entry or a worktree path; which of these it is decides when
a checkpoint captures it (metadata and refs always, the rest when the command
declares it) and in which stage a restore writes it. A stack ref is the sequence
of the checkpoints its commit chain holds; a redo node records the cells to
write, the state right after the undo, and the undo chain to return to.

One action per step that another actor can observe or a crash can separate:

| Action | Code |
|---|---|
| `OpenCheckpoint` | `_create_undo_checkpoint`: one ref transaction publishes the before-image and deletes the redo ref |
| `OpenNested`, `RefuseNested`, `CloseNested` | the nested branch of `undo_checkpoint` and its scope check |
| `ArmRollback`, `Mutate`, `Raise`, `Catch`, `DeferCompletion` | what a command's body may do: any of it, in any order |
| `CloseWithError`, `CloseNormally` | the two exits of the outermost context |
| `FinalizeCheckpoint`, `FinalizeFails` | `finalize_pending_checkpoint` |
| `RestoreWipe` ... `RestoreWorktree` | `restore_checkpoint_state`: metadata, refs, index, worktree; a manifest without tracked paths (an unfinalized one) removes the session and batches directories first |
| `DiscardCheckpoint`, `RollbackFails` | `_discard_failed_checkpoint` and the failed-rollback branch |
| `CheckUndo`, `CaptureRedoTarget`, `PushRedoNode`, `PopUndo` | `undo_last_checkpoint` |
| `CheckRedo`, `SetUndo`, `PopRedo` | `redo_last_checkpoint` |
| `UserEdit`, `Browse`, `Crash`, `Return` | the user, `show`/`next` outside checkpoints, and the process's death or end |

The history variables `base`, `expect` and `edited` record what the repository
was when the task began, what the user made of it since, and where: every
property is stated against them. They are never read by an action.

Not told apart: the session and the batches directory (both are replaced in one
stage), modes and permissions, intent-to-add flags, gitlinks and archives, and
the manifest's JSON. Legacy manifests of older versions are left out. A
checkpoint whose repository differs from the pending one, and the transient
transactions used before a session exists, are not modelled.

### SessionRecovery

Per path the module keeps what HEAD, the index and the worktree hold; an index
entry may also be an intent (`git add -N`). All batches are one value. `dir` has
one field per file under `session/abort/`; `EmptyDir` stands for a directory that
does not exist. `pc` is the step that the process holding the session lock is at,
`task` the command it runs.

| Action | Code |
|---|---|
| `CopyIntents` ... `SetIntents` | `_snapshot_intent_to_add_files`, `_temporarily_remove_intent_to_add`, `git stash create` and the `finally` clause of `initialize_abort_state` |
| `SaveStash`, `SaveBatches`, `Anchor`, `RecordAnchors`, `Publish` | the rest of `initialize_abort_state`; `head.txt` is written last and makes the session active |
| `NoteRenames` ... `ResetDeletions` | `data/start_time_changes.py`, the record before each `git reset` |
| `ListUntracked`, `AddUntracked` | `auto_add_untracked_files`, whose `git add -N` may fail |
| `StartFails` | an exception of `start` at any step, and which handler it reaches (`Handler`) |
| `RestorationFails` | `git_restore_intent_to_add_paths` raises in the `finally` clause of `start`, at the removal of the entries or at the addition, whose retry raises even if it puts them back; the session is cleared. Under abort this failure is the same as a death there: the user aborts again |
| `ResetAutoAdded`, `RestoreRenames`, `RestoreDeletions` | `commands/stop.py` |
| `AbortCheck` ... `RestoreBatches` | `commands/abort.py`: the checks first, then reset, stash, copies, intents, batches |
| `ClearHistory`, `RemoveDirectory` | `clear_session_state`, for stop, abort and a start that failed |
| `Again`, `Include`, `Discard`, `Apply`, `ChangeBatch` | the commands of a session, each as one step, including the copy that is made before a file is written |
| `Edit`, `Commit` | the user between commands |
| `Crash` | the process dies; in `RemoveDirectory` any part of the directory may remain |

Git is modelled by operators per path (`ResetPaths`, `ResetHardWork`, `StashOf`,
`StashedPaths`, `Obstructed`, `WithIntents`, ...). Each was compared with a real
git on every combination of HEAD, index and worktree contents of one path,
and the two-path cases of renames separately. `stash apply --index` refuses when
an untracked file is in the way of a file that the stash adds.

History variables, read by no command: `origin` is the repository at the start;
`mine` is, per path, what the user last left there before a command copied the
file; `exposed`, `created` and `copied` name the paths of the documented and of
the found exceptions; `unrestored` names the intents that `start` took out of the
index and could not put back; `quiet` says that nothing was done since the start; `stale`
that session/ holds files of a process that died before the session was active or
while it was being cleared. The properties about recovery exclude `stale`; the
run `abort_is_never_destructive` shows what happens without that.

Left out of the module: an unborn HEAD (whose stash is a copied index), linked
worktrees (`Claim` is a step without effect in one worktree), directories,
symbolic links and gitlinks, the overlay file, edits while a command runs, and
the undo refs, which are the other module's subject.

What was met on the way and is left out of `AbortRestores` and
`QuietStopUndoesStart` by the history variables or by `Unowned`: a file that
`apply --from` created stays behind after abort as an untracked file; a path that
`git rm --cached` removed from the index comes back as an intent after start and
stop; an `untracked-paths.txt` of a dead process keeps the next session from
copying the paths it lists.

### SessionOwnership

The worktree's own git directory has the marker, the common one the owner record,
the anchors and the lock; three stores that `start`, `stop` and `abort` alter one
after the other. A process is at one step of one command in one worktree.

| Action | Code |
|---|---|
| `Begin`, `Lock` | a command line process takes the lock first; the interactive interface checks the owner before it does |
| `ReadOwner`, `RefuseForeign`, `FindStale`, `DiscardAnchors`, `DiscardOwner` | `require_current_session_owner`: an owner whose marker is gone is stale, its anchors go first |
| `SnapshotAndAnchor`, `WriteMarker`, `Claim`, `ClaimFails` | `start`; what fails is cleared again |
| `Stop`, `Abort`, `AbortNothing`, `Clear`, `RemoveMarker`, `Release` | the ends of a session |
| `Die`, `RemoveWorktree` | the process, or the user with `git worktree remove` |

`harmed` excuses two kinds of session: one that a death left without a claim
(`Unclaimed`), and one that another process cleared while it did not hold the
lock; `unlocked_reclaim` shows how the second happens.

### SessionLock and StatusCache

`flock` names the process whose open file description is locked; a descendant
that inherited the descriptor (`Lend`) keeps it locked when the process dies.
`counter` is the content of the lock file; a process that takes the lock
truncates the file and writes the next generation in two steps, and a death
between them leaves 0. `Enter`/`Leave` count nested contexts. The interactive
interface loads a selected change (`Load`), waits for the user (`Dispatch`),
compares the generation under the lock again (`Compare`) and acts; an action may
ask (`OpenPrompt`, which unlocks; while it has lent the descriptor the code refuses,
`RefusePrompt`), and comes back by `Relock` or `RelockCanceled`. The second is not
checked. Its callers differ: the fixup menu clears its state and ends (`Cleanup`,
`Finish`); the file review, its chooser and the batch menu take the canceled prompt
for no choice, read the session again, show it, ask again and act (`ShowAgain`).
`stale` holds those whose loaded change another process altered since.

Generations do not tell everything apart. `RelockCanceled` restores the file's
generation without a check, and if its owner has a prompt open too (`Sharing`),
neither learns what the other does. A lock file torn by a death begins again at 1, so
that a prompt that was open may see its own generation once more. `excused` records
exactly the processes that this concerns: whoever came back canceled under a
generation that an open prompt holds, whose prompt was open at such a death, and the
open prompts with whose generation one of these then alters state. Taking the lock
afresh ends the excuse. `ActsOnLoadedChange` is claimed of everybody else, those
included that act after a canceled prompt under a generation of their own. It says
"loaded", because the interface may act on a change that it has loaded without
displaying it (see Observations).

`StatusCache` adds the cache file, the prompt that reads it without the lock, the
request, the detached worker and its refresh lock. A summary is true or no longer
true; `Alter` is every `Write` or `Cleanup` of `SessionLock`, and makes every
summary false. `murky` names the generations under which state changed twice: a
command that continues after a prompt keeps its generation.

### ObjectPromotion, RewriteOperation and HistoryRewrite

A commit is the user's or the i-th that an operation builds. An operation's files
are its plan (original tip), its record (phase, next action, number of outputs,
pending output, last verified, digest), and its verification; two pointer files
name the active and the latest operation, and two refs keep its original and its
output. `proc` is the command that runs, one action for each write of the
checkpoint, each ref update and each comparison that a later write relies on.

| Action | Code |
|---|---|
| `Prepare`, `RequireStartFacts` ... `Activate` | `prepare_operation`, publication of the directory, the pointer |
| `Load`, `Dispatch` | `continue_operation`: the checkpoint must be resumable, the phase says where to go on |
| `Promote`, `Pack`, `NextOutput`, `SwapOutputRef`, `AdvanceOutput`, `ReleaseLease`, `FinishBuild` | the build: a pack is installed under a lease, the output ref is swapped commit by commit around the record's pending flag |
| `Verify` ... `MakeReady` | the series is compared, stamped and recorded |
| `RequireFinalReady` ... `Deactivate` | the branch moves by compare-and-swap, then the record and the pointers |
| `PauseAfterFailure` | an exception inside `continue` |
| `RequireOwned` ... `MarkAborted` | `abort`: the pending output is forgotten, the intent recorded, the branch moved back, the lease adopted and released |
| `InstallPack`, `UnlinkPriorMarker`, `RenameKeep`, `UnlinkMarker`, `CollectGarbage` | `git_object_promotion.py` and `git gc` |
| `Fail`, `Die`, `ChildEnds` | any step may raise or be the last; `index-pack` may outlive its parent with the lock |
| `MoveBranch`, `MoveOperationRef`, `CheckOut`, `ChangeFacts`, `Gc` | everybody else |

`HistoryRewrite` has, per operation, the tip it was planned for and an outcome:
`none`, `open`, `restoring`, `complete`, `aborted`. `Publish` and `Restore` move
the branch in one step, and only from what the plan says; the module
says that nothing else of a rewrite is visible in the branch.

Left out: worktree and index updates when the branch is checked out elsewhere,
the resolution of conflicts during a build (a build step either fails or
succeeds), and the contents of commits.

### IndexTransaction

The index is the set of updates it contains. A whole-file include takes
`index.lock` (with retries until a time limit), copies the index, stages its hunks
on the copy, compares the real index with the snapshot, replaces it, and removes
the lock by inode comparison. Other commands run git, which takes the lock itself
and renames it over the index. `Gits` are other git processes; `Bypassers` write
the index without the lock; the user may remove a dead process's lock
(`RemoveLock`). `excused` holds updates written between the comparison and the
replacement by a bypasser, and records that a death left out; `chaos` says that
the lock of a live process was removed between `StatLock` and `UnlinkLock`.

### FileJobs

A job is its ordinal; its payload and result are bulky or not, its computation
returns or raises. `call` is where the parent is; `pending` are the ordinals it
waits for, per worker; `inbox` and `outbox` are the two directions of a worker's
pipe, which hold what is small, while a bulky message passes in one step in which
the reader reads.

| Action | Code |
|---|---|
| `StartWorker`, `StartFails` | `_start_worker`, the `except` clause of `__init__` |
| `Submit`, `Send`, `SendBulky` | `submit`: dead workers first, then the least loaded one |
| `Receive`, `Poll`, `RaiseForDeadWorkers` | `receive`; `Accept` is what the loop makes of a response |
| `LeaveLoop` | the end of the loop, or its break at a failure that counts |
| `Close`, `Join`, `JoinTimesOut` | `close` |
| `Terminate`, `Reap` | `terminate` |
| `TakeNotice`, `TakeNoticeAtWork` | `KeyboardInterrupt` where a process happens to be |
| `Boot`, `Take`, `Compute`, `Push` | `_file_job_worker` |
| `Die`, `WorkerDies`, `Killed`, `Interrupt` | the outside |

Workers are started by a fork server or spawned, so that nobody but the parent
holds its ends of the pipes: when it dies, workers read the end of the file.
`ran` records how each computation ended and `escaped` a Ctrl-C that broke off
the termination. Left out: Ctrl-C between two statements of `_start_worker`, the
inline execution, the choice between the two, and the validation of what is sent.

### ReviewedSelection

A file is a row of slots; a slot holds the line of HEAD or another text, and one
that differs is a change with a line ID. `patch`, `lines`, `snaps`, `kind`,
`reason` and `review` are the files under `session/selected/` (`None` for one that
is not there), each written by an action of its own, in the order of the code.
`job` is what the running command knows, above all the view that it rendered.
`screen` and `known` are history: the rows of the last display, and every
`<<ID, text>>` displayed since the last `show` until a view has only lower IDs.
The code promises no more: it chooses fresh IDs above the highest of the last view
and forgets the views before it.

| Action | Code |
|---|---|
| `ShowNext`, `ShowFile`, `ShowBatch` | `show`, `show --file` (with `--page` and `--line`), `show --from`: the rendering |
| `ShowList` | `show` of several files, which selects none |
| `InvalidateCache` ... `WriteKind` | `cache_hunk_change`, `_cache_combined_file_line_changes`, `cache_rendered_batch_file_display` |
| `ForgetReview`, `WriteReview`, `Display` | the rest of a `show`, and the output of an action |
| `IncludeLines`, `StageLines`, `Refresh`, `RenumberLines` | `include --line`: its checks, the merge of the loaded file into the index, `recalculate_selected_hunk_for_file` and the IDs it preserves |
| `BareAction`, `StageHunk`, `DiscardHunk`, `StageFile` | `include` and `discard` with neither path nor lines |
| `Finish` | `finish_selected_change_action`: the next change, with or without auto-advance |
| `UserEdits`, `UserStages`, `Dies` | the editor at any moment, `git add` between commands, the death of a command |

`SequenceMatcher` may align equal rows in any order-preserving way that is maximal
(`Alignments`), so that no property depends on which. A merge of lines into a
changed file is refused or takes the line that now stands in the slot. Left out:
skipped and blocked hunks, `discard` of a file's view, `--line` with a path or
with `--as`, lines of a batch, and changes that are not text. A hunk is the whole
change of its file, and a batch's view any uniform text.

## What is checked

| Run | Instance | What it shows |
|---|---|---|
| `undo_transactions` | one checkpoint deep, a metadata, ref, repository, index and worktree cell, three declared scopes, one nested context, one deferred completion | a refused command that never armed leaves concurrent edits alone; everything an open command wrote can be put back from the published before-image; success is announced only after the outermost commit; a swallowed nested failure rolls the outer command back |
| `undo_redo` | two commands, one redo node, a `selected/` file and a worktree file | a completed rollback gives back both stacks and all cells not edited meanwhile; undo of a finalized checkpoint is recoverable; an undo without `--force` overwrites only what its command wrote; the two stack refs implement the editor history, and the inductive invariant of the proofs holds |
| `session_crash` | two instances in one: one path, two contents, two batch states, two sessions, three commands or edits, one crash; and two paths with one content, one session, one act, one crash | an active session is recoverable at every step; an abort that completes at any attempt restores; a failed start leaves no trace but the intents that git could not put back, and an interrupted one loses no work; a stop undoes the start, staged renames included, and keeps what was staged |
| `abort_is_never_destructive` | one path, two crashes | finds that an abort after a half-removed session directory resets hard without the stash |
| `session_ownership` | two processes, two linked worktrees, any number of commands and deaths | a live session is the owner and has its anchors, whatever step another worktree's command is at |
| `unlocked_reclaim` | one interface, one worktree | finds that a stale owner is cleared without the lock, after which another worktree's new session may be gone |
| `session_lock` | two interfaces and one command line process, four commands of three steps | one writer at a time; nobody waits for a lock that it holds; an action is applied to the change that was loaded or shown for it; a prompt blocks nobody |
| `status_cache` | an interface, a command line process, the prompt and its worker, two sessions | an entry called current is true; the cache catches up when commands rest |
| `rewrite_crash` | one operation of two commits, two packs, two faults, one move by the user, one gc | a checkpoint can be continued; commits are shielded from gc; leases end; the branch moves only as planned and the whole is atomic; a rewrite that is carried on ends |
| `index_transaction` | two commands of two hunks, another git, a bypassing writer | no update is lost, a command's hunks appear together, commands end |
| `file_jobs` | three jobs, one of them larger and two that may be bulky, two workers, one fault | a list of results is complete; a failure is blamed on the lowest failed job; workers end before the call does; the call ends unless two bulky messages cross |
| `reviewed_selection` | two files of two lines, two texts, four commands, one edit, `git add` or death at any moment | an action changes only what the output showed; an ID keeps its meaning through a series of line actions as long as the views reach it; a bare include of a partly shown file is refused |

The bounds of the undo runs. A value is absent or present: properties compare contents, so two
values distinguish written from untouched. One checkpoint is enough for
properties about one command's writes, because a task reads only the newest
checkpoint; two commands and a redo node have an order, in which a new command
drops the undone ones and a redo finds its place. (Three commands, three redo
nodes and one ref for data were checked once; the refinement is proved for every
bound.) One nested context is enough to separate the innermost context from the
outermost. The user edits a cell at most once while one command runs (a second
edit of the same cell gives no new relation between the cell, its image and the
user's wish), and without limit between commands. Ref cells are data only in
`undo_transactions`: with them the states of `undo_redo` are three times as many,
and a restore treats refs and metadata alike but for the stage.

The bounds of the session runs. Initial states are all combinations of HEAD,
index and worktree that git can be in for the paths. One path with two contents
has every such state, and the code treats paths one by one except where a rename
pairs two of them and where one file obstructs a whole `stash apply`, which is
why the second half of the instance has two paths: with one act and one content,
which is what a rename or an obstruction takes (`OneOrTheOther` in `MCSession`).
Three acts are the shortest sequence that stages a file, commits or overwrites it and removes it again; two starts show
what a second session meets of the first; one crash leaves one interrupted
command, and further attempts of stop and abort are unlimited. `session_crash`
takes the paths, the contents (and not `None` or the intent, which the code
distinguishes) and the batch states as symmetry sets: no definition orders or
singles out one of them, and its properties are invariants and action properties. What the bounds leave open the
theorems close: all of these properties are proved for every set of paths, contents and batch states and every bound.

The bounds of the other runs. *Lock*: two prompts can be open at once only with
two interfaces, and the third process is the one that runs between; four commands
are the shortest sequence in which a prompt, a death with an empty lock file and a
second prompt meet, and three steps of work are a prompt that is canceled, the
prompt that follows it and an alteration. *Cache*: two
commands are one that a summary is read beside and one that makes it stale (three
were checked for safety, 1.7 million states). *Ownership* needs no bound; three
worktrees were checked once (20.3 million states). *Rewrite*: two outputs are the
least with a first and a last; two packs are one that a failed attempt left and
one that the next installs; two faults are one in the build and one in its abort.
Two operations were checked once for safety (5.8 million states). *Index*: one
command that ends and one that starts on what it left; two git processes were
checked once (1.3 million states). *File jobs*: three jobs over two workers are
the least with a job that is submitted late and one that waits behind another;
one fault is a death, a Ctrl-C to all processes, a failed start or a worker that
exits late, and what follows from it is not bounded. Bulk is what the estimate of
a job does not tell, so any job but the first may be bulky; only the order of
submission depends on the estimate, and one larger job changes it (two were
checked once, 1.5 million states). `CHECK_DEADLOCK FALSE` stands where commands
are bounded, and a system that has used them all up stops.

*Selection*: two slots are the least that a file can be shown in part by, or
staged in part; two texts tell an edit from what was shown; the second file is the
one that a command advances to or that a torn selection mixes up with the first.
Four commands are a `show`, two line actions and the action that follows, or a
`show` whose command died, two that go on and one more. One accident is an edit or
a death: what the properties leave out is what one accident at a named moment does,
and two add no new moment. `OneAccident` is the constraint that says so.

### Fairness

Undo, session and selection: none, and no liveness. Every command may fail or die
at any step and nothing retries on its own.

`SessionLock`: a process that can take a step of its own takes it (`WF`), an
orphaned child ends, and a blocking `flock` that is possible again and again
succeeds (`SF`, as Linux serves waiters in order). Users owe nothing: a prompt may
stay open for ever, which is what `PromptsBlockNobody` is about. `StatusCache`:
a prompt that was begun ends, and the detached worker, which competes with
commands for a shared lock it does not wait for, is given its chance (`SF`).
`RewriteOperation`: the running process goes on, an orphaned `index-pack` ends,
and the user repeats `rewrite continue` as long as an operation is active; nobody
has to abort, move anything or stop moving it. `IndexTransaction`: the command
goes on and time passes; no other process has to release anything, because the
waits have a limit. `FileJobs`: the parent and each worker go on when they can, a
signal that was sent is noticed, a computation ends. Nothing has to die, and a
pipe that is full stays full until its reader reads.

## What is proved

### Undo and redo

`UndoProofs` proves for all sets of cells, values and scopes and all bounds:

- `TypeCorrect`: `Spec => []TypeOK`.
- `HistorySafe`: `Spec => []HistoryInv`.
- `EditorOrder`: `Spec => InEditorOrder`, i.e. the detailed specification
  implements `EditorHistory`.

The assumptions are `CellAssumption` (the kinds of cells are disjoint where the
code keeps them in different stores), `BoundAssumption` and `NoImageAssumption`.

The argument. `TypeOK` is not inductive on its own: a finalization reads the
newest checkpoint, so the chain must not be empty. `HistoryInv` says it is not
(`OpenCommand`, `OpenUndo`, `OpenRedo`: what a running process knows about the
two refs at each program location) and that the chains recorded in the redo
nodes lie on one line, each at most one checkpoint from the next
(`StacksAligned`). That is what makes the intermediate states of `undo` (node
pushed, undo ref not moved) and `redo` (undo ref moved, node not dropped)
harmless. The four lemmas `AlignedPush`, `AlignedPop`, `AlignedSet` and
`AlignedDrop` are the four ref updates; `TypeStep` and `HistoryStep` go through
the actions. `HistoryRefines` maps each action to `Start`, `Finish`, `Cancel`,
`Interrupt`, `Back`, `Forward` or a stutter: for example `SetUndo` is `Forward`
or, after a crash that left the node behind, a stutter.

The contents of cells, over the invariant `ContentsInv` of `UndoContents`:

- `RefusalIsHarmless`: `Spec => []UnarmedWritesNothing`.
- `OpenCommandIsCovered`: `Spec => []BeforeImageCovers`.
- `RollbackGivesBack`: `Spec => []RollbackRestores`.
- `AnnouncedAfterCommit`: `Spec => []AnnouncedOnlyIfCommitted`.
- `FailureIsNotSwallowed`: `Spec => []SwallowedFailureRollsBack`.
- `UndoLosesNothing`: `Spec => []UndoIsRecoverable`.
- `UndoRevertsOnlyItsCommand`: `Spec => []GuardedUndoRevertsOnlyItsCommand`.

`ChainsMatch` says of every checkpoint, wherever it is recorded, that once it is
finalized it compares exactly the cells that it restores; without it the check of
an undo would say nothing of some cell that it overwrites. `Control` says what a
process holds in memory at each location (`NoCommand`, `Holds`), how the contexts
nest (`ContextsFit`) and what has happened on the way to a commit, a rollback or a
crash (`Branches`). `Contents` relates four contents of a cell: what it is (`live`),
what it was when the command began (`base`), what it would be if only the user
had written since (`expect`), and what the newest before-image holds. `Expected`:
only cells that the user edited have another expected content than the base.
`Covered`: the image is the base, and a cell outside of it is as expected.
`Untouched`: before arming every cell is as expected. `RollingBack` and `Undoing` follow a restore stage
by stage (`Restoring` are the cells of the stages that are over), and `Guarded` carries what an undo without
`--force` compared to the end of its restore. `RollbackRestores`,
`AnnouncedOnlyIfCommitted` and `SwallowedFailureRollsBack` are conjuncts of the
invariant, since each is what a later step of the same command needs.

### Session

`SessionProofs` proves for all constants:

- `TypeCorrect`: `Spec => []TypeOK`.
- `ActiveRecoverable`: `Spec => []ActiveMeansRecoverable`.
- `WorkKept`: `Spec => []InactiveStartKeepsWork`.
- `FailedStart`: `Spec => FailedStartLeavesNoTrace`.
- `StagedWorkKept`: `Spec => StopKeepsStagedWork`.
- `AbortGivesBack`: `Spec => AbortRestores`.
- `StopUndoesStart`: `Spec => QuietStopUndoesStart`.

The assumptions are `NullAssumption` (absence and the intent are no contents, a
missing file is no batch state), `FileAssumption` (a session file is missing, or
says that there is no stash, or holds a stash) and `BoundAssumption`.

The argument. `TypeOK` needs to know where a process can be (`Control`) and that
`git stash create` runs only when every intent has left the index (`Stashable`),
or a stash could record an intent as a content. The invariant `Recovery` has six
parts, one per promise that the code makes to its next step. `Opening`: until
the session is claimed `start` changes nothing but intents, to no more than HEAD's
entries, and remembers which; when it clears, exactly the `unrestored` ones are
missing. From this follows `FailedStart`.
`Prepared`: what the files written so far hold before `head.txt` exists.
`Swept`: without leftovers an inactive session has no directory. `Recorded`:
what the files hold afterwards; `ActiveFrame` shows that no step but the removal
of the directory rewrites them. `Copied`: every copy is what the user left.
`LeftAlone`: the paths that were not tracked and that nothing was done with
(`Spared`) are not in HEAD, are as the user left them, and have an index entry
only if start or a command added an intent for them. The last two need each
other: a copy made late is the user's content because the path was left alone
until then, and a path is no longer left alone once it is copied.

The part about abort adds `FirstCopies` (the files of intents, which no stash can hold,
are copied when the session starts and never again) and `Restored`, which follows
an abort step by step: `StashTells` says what git's stash holds of a tracked
path, and `ApplyStashRestores` joins it with `Recorded`. Because neither depends
on how an earlier attempt ended, an abort that died anywhere can be repeated.

The part about stop accounts for every index entry (`Accounted`): it is the one from
before the session, or an addition, a deletion or one side of a rename that the
session directory lists. The recorded renames are all staged or all reset, never
a mixture, which is why a repeated stop, finding some path of a rename staged,
restores none of them and is right. `Truthful` ties the lists to the repository
before the session, `Unlisted` says that they are empty until they are written.

Every property of the session that a passing run checks is proved.

### Ownership

`TypeCorrect`, `Owned` (`Spec => []LiveSessionIsOwned`) and `Anchored`, for every
set of processes and worktrees. The inductive invariant says what a process that
holds the lock has seen: `RecordIsSeen` (the owner it read is still the record
while it acts on it), `NoForeignOwner` (past the check, the record is its own or
empty) and `Ordered` (anchors before marker before claim, and in clearing the
reverse). A process that checks without the lock breaks exactly these, which is
why the sessions it clears are `harmed`.

### Session lock

`Exclusive`, `NeverWaitsForItself`, `ActsKnowingly` and `TypeCorrect`, for every
set of processes and all bounds. `Locked` relates the flock to where processes
are and which have children; `Generations` relates the file to what each process
remembers: the holder's generation is the file's and above that of every open
prompt, and who was made stale remembers an older one. It holds except while a
process has truncated the file (`Emptied`). A canceled prompt comes back with the
file's generation whoever owns it, so that the invariant speaks only of holders and
prompts that are not `excused`: if an open prompt has that generation the returning
process is excused, and if none has, its generation is above those of all of them
again. When an excused process alters the session, the prompts that share the file's
generation are excused with it, and the others have an older one.

`CacheIsTrue` (`CacheSpec => []CurrentEntryIsTrue`): whatever the prompt's worker
computed while commands ran, an entry whose generation is the file's tells the
truth, for every set of processes and any number of sessions. `CacheSpec` keeps
`IInv`, because a step of the cache leaves the lock alone; `CacheInv` says what a
generation is worth. `ClaimsReached`: whoever claims a generation, the entry or
the worker on its way to it, claims one that the lock file has reached or that is
`murky`. `AltersFresh`: a command alters the session only under a generation that
nobody can claim yet, or has been through a prompt. `ClaimsTrue`: a claimed summary
is true or its generation is past. The excluded case is the one in which the code
fails: a command that goes on under its old generation after a prompt.

### History rewrite

`TypeCorrect`, `PointersFit`, `LeasesEnd`, `Shielded`, `Resumes`, `MovesAreOwned`
and `Atomic` (`Spec => RewriteIsAtomic`, the refinement of `HistoryRewrite`), for
every set of operations, packs and commits, any number of outputs and all bounds.
The invariant `Inv` says what each program location has established
(`Starting`, `Working`), what the files tell of each other (`FilesInv`), who holds
a lease and why (`LeaseInv`, `HeldInv`), and which refs keep which commits
(`HistoryInv`). `Resumes` and `Shielded` follow from these and not step by step;
the refinement maps `SwapBranch` to `Publish`, `SwapBranchBack` to `Restore`,
`Activate` to `Open`, the write of the intent to `AskForOriginal`, and every other
step to a stutter or to the end of its operation.

### Index transaction

`TypeCorrect`, `UpdatesKept` and `AllOrNothing`, for every set of writers. Whoever
is about to replace the index has its lock or was robbed of it (`LockHolds`);
what it is about to write contains what the index contains (`ContentIsWhole`);
recorded hunks and staged sets are whole (`RecordsAreNew`, `SetsAreWhole`).

### File jobs

`TypeCorrect`, `InvHolds`, `SuccessComplete` (`Spec => []SuccessIsComplete`),
`BlameIsRight` (`Spec => []BlamesLowestFailure`) and `WorkersEnd`
(`Spec => []WorkersEndFirst`), for any number of jobs, workers and faults and any
choice of large and bulky jobs. `Once`: a job that is not computed yet is in one place at most: the queue, the
parent's hand, an inbox or a worker. `Truthful`: a result says how the computation ended.
`Accounted`: no job is lost while the parent submits. `Endgame`: what the parent
has decided when it leaves its loop. These hold under any fault. `Faultless` holds
while there was none and says that a worker's inbox, its work and its outbox are,
in this order, the pending list (`Orderly`), that every answer is a result or an error of its computation
(`Plain`), that whatever is computed is awaited or was received (`Followed`), and
that a blamed job failed with no unanswered job below it (`Blame`). The code relies on first-in-first-out per worker without saying so: the
answer on top of a pipe is taken for that of the oldest pending job.

### Selection and file review

`TypeCorrect`, `InvHolds`, `ActsOnTheScreen` (`Spec => ActsOnWhatWasShown`),
`IdsKeepTheirMeaning` (`Spec => IdsAreNeverReused`) and `FileWasShown`
(`Spec => WholeFileWasShown`), for any number of files, slots, texts, commands,
edits and deaths. The assumptions are `SlotAssumption` (slots are numbers, and a
file has finitely many), `TextAssumption` (HEAD's line is none of the other texts),
`NoneAssumption` (a missing file is not taken for one that is there) and
`BoundAssumption`.

The invariant has nine parts. `Published`, `ReviewPublished` and `Selection` say
what the files under `session/selected/` hold at each location of the command that
replaces them, and between commands. `Telling`: after a command that left
nothing selected on purpose, the next has to be a show. `ViewIsTrue`: while a view is rendered it is
the change of its file, and of its snapshots afterwards, unless the user edited
meanwhile (`raced`). `SelectionIsTrue` and `Displayed`: so is what is selected, and
the output showed it, unless a death left two views mixed (`broken`). `Guarded`: no
action goes on with other content than it compared. `Meaning`: the IDs of a view
that is being published continue those of the last output.

Most of the work is in the last. `SequenceMatcher` may align the rows of the new
view with those of the old in many ways; `RenumberedKeeps` shows for each
that distinct slots get distinct IDs, `PreservedIsView` that the result is a view,
and `PreservedContinues` that an ID up to the last output's highest
keeps its text and every other row gets one above it. `Highest` and `Ranks` are the facts
about finite sets of numbers under them. `SeenStep`, `OnlyPublishing` and
`OnlyStarts` say for the other actions what they leave alone.

`IdsAreNeverReused` was first stated of every ID shown since the last `show`. The
proof stopped at a view whose highest ID is lower than one before it; the program
does reuse the ID then (see the observations), so the property and `known`
now say what the code keeps.

### Only model-checked

Liveness: `PromptsBlockNobody`, `CacheCatchesUp`, `RewriteEnds`, `CommandsEnd` and
`CallEnds`, which need fairness and ENABLED and are beyond the prover. Every safety
invariant, action property and refinement that a passing run checks is proved. The
type invariants of modules with proofs are proved and not run. What the proofs do
not cover is what the models leave out: the bounds are gone, the
abstractions are not.

## Findings

Each has a run that ends in a counterexample.

- `src/STORAGE.md` says that continuing without the stash would make the hard
  reset destructive. After a process died while it removed the session directory,
  abort reads the missing `stash.txt` as a session without a stash and resets
  (`abort_is_never_destructive`).
- The interactive interface checks the owner before it takes the lock, and the
  check clears a stale owner. Between its reading and its clearing another
  worktree may have started a session (`unlocked_reclaim`).

## Observations

Met while modelling, where the models say what the code does. Those marked * were
reproduced with the program.

- *A forced undo of an interrupted command is lossy although `src/STORAGE.md:1396`
  says that every undo pushes a redo node with the pre-undo state
  (`data/undo/state.py:321-335` does not capture cells that its manifest omits).
- *A rollback that fails while it replaces the session directory leaves the session
  without its marker: `undo --force`, which the message names, is refused
  (`data/undo/checkpoints.py:777`).
- *An untracked file that was staged is not copied when it is committed or
  overwritten, and abort does not bring it back. A path that was tracked and left
  the index during the session is copied when a command writes it, and abort
  writes this later content over what the stash restored.
- *A rewrite abort that finds a lease marker whose pack a gc has deleted raises
  each time (`utils/git_object_promotion.py:1767`); `RewriteEnds` names the case
  `LeaseUnusable`.
- `src/docs/commands.md:1365` says that a rewrite abort first persists its intent;
  the code retracts the pending output ref before that.
- *A single-file `include` that fails before it publishes leaves a checkpoint that
  was finalized from the private index, so that a plain `undo` finds the index
  changed and refuses. One that fails after publishing leaves the index staged;
  `undo` works.
- *A prompt that is canceled locks again under the generation of the file, which is
  not checked (`utils/session_lock.py:199-204`) and which another open prompt may
  hold. The fixup menu cleans up under it; `tui/file_review/browser.py:62-113`,
  `tui/file_review/file_browser.py:59-120` and `tui/batch_menu.py:26-107` take the
  cancel for no choice, prompt again and act. Neither of the two prompts is told of
  what the other process then does, and an answer may be applied to a change that
  it altered. A lock file torn by a death counts from the beginning again.
- `BypassRefresh`, which the file review raises (`tui/file_review/browser.py:45,52,58`),
  makes the main loop go on without displaying (`tui/interactive.py:112-113`). The
  change is loaded again under the lock all the same, so that the next action may be
  applied to a change that was loaded and never shown.
- A comment in `data/session.py:320` says that all intents are restored even when the
  snapshot fails. When the restoration itself fails (`index.lock`, git, Ctrl-C),
  `initialize_abort_state` clears the record (`data/session.py:228-232`) and the
  intents stay out of the index or are HEAD's entries. `utils/git_index.py:437-463`
  raises even when its retry put them back.
- A status entry called exact may be false when a command went on after a prompt
  under its old generation (`StatusCache`, `murky`).
- Between the comparison and `os.replace` of a published index, and between the
  `stat` and the `unlink` of its lock, a process that ignores the lock is
  overwritten or robbed.
- *A file that `apply --from` created stays behind after abort; a path that
  `git rm --cached` removed from the index comes back as an intent after start
  and stop; an `untracked-paths.txt` of a dead process keeps the next session
  from copying the paths it lists.
- *Two bulky messages hang a call of the file jobs for ever: the parent writes the
  next job while the worker writes a result, and neither fits into its direction
  of the pipe (`utils/file_job_process.py:107`; payload and result of 262 KB are
  valid and enough on Linux). `CallEnds` names the case `Crossed`.
- Which failure a call reports depends on timing when a lower job was not yet
  submitted as the first failure arrived; the docstring of
  `src/tests/utils/test_file_jobs.py:640` knows only of the lowest. A worker that
  dies idle, or exits late in `close`, is blamed on a job that has not failed.
  `BlamesLowestFailure` claims no more than the code keeps.
- *A text edited between the rendering of a change and the snapshot of its file,
  or between the check of `include --line` and its loading of the file, is staged
  although it was never shown; `src/ARCHITECTURE.md:34-36` and the section
  "Staleness Detection" of `src/STORAGE.md` claim more (`raced`).
- *`store.py:203-210` hides the selection by removing its kind before it replaces
  the other files, but `require_selected_hunk` (`data/selected_change/loading.py:143`)
  does not ask for the kind. After `show --file g` died between `hunk.patch` and
  the kind, a bare `include` says that it staged f's hunk and stages g's, and a bare
  `discard` takes g's change away under an undo checkpoint that covers f only
  (`broken`). A death between the publication of a refreshed view and of its
  preserved IDs (`hunk_recalculation.py:81-95`) lets a repeated
  `include --line 1` stage another line.
- *`show --file` shows a file against HEAD and a bare `include` of that view stages
  it against the index: a line that was staged and then reverted in the working
  tree is unstaged without having been on a page. `WholeFileWasShown` leaves
  changes back to HEAD's line out.
- *After an `include --line` of a fully shown file its review is forgotten, and a
  bare `include` has nothing to compare a later edit with: it stages the edit
  unseen (`aged`).
- `show --from` forgets the review before it hides the selection
  (`commands/batch_source/file_display_action.py:215-216`): a command that dies in
  between leaves a partly shown file unguarded. After the error "Cached
  hunk is stale" nothing is selected, and the same command given again takes the
  next change unseen.

- *A line ID can name another line without any edit. Only the last view's highest
  ID is avoided (`core/line_identity.py:66-71`), and `SequenceMatcher` may leave a
  remaining row unaligned, which then gets a fresh ID that an earlier view
  had already given away. A new file with the lines alpha, m1, beta, m2, gamma, zeta, alpha,
  beta, gamma, quit: after `start`, `include --line 10` (quit is left out of the view)
  and `include --line 2,4,7,8`, ID 10 is zeta, and the same `include --line 10`
  given again stages it.

## Not modelled

- Conversions and layout: `output/`, `editor/`, `core/` parsing, the command
  line's argument handling. Pure input and output, without state that lasts.
- `batch/line_matching/`, `batch/merge/`, `batch/realization/`: algorithms over
  the text of files. What is hard in them is in their data (which lines match),
  which these models abstract.
- `fixup/`, `journal`, `assets/`: built from the pieces above, or outside the
  program.
- Overlays, batch state refs: durable, but only within one locked command whose
  writes the undo checkpoint covers; they are the next modules to write.

## Plan

1. Undo and redo: done and proved, except transient transactions.
2. Session lifecycle: done, except the unborn branch. Ownership: done.
3. Session lock and status cache: done and proved.
4. History rewrite and object promotion: done, except conflict resolution and
   the checked-out worktree's update.
5. Index transaction: done for include; other users of a private index are left.
6. Selection and file review: done for text; skip, blocked hunks, discards of
   lines and batch line actions are left. What is modelled is proved.
   Next: batch state refs, overlays, fixup, then pure algorithms (line selection,
   line matching) against reference definitions.
7. File jobs: done and proved, except the inline execution.
8. Proofs: all safety of the passing runs is done. Left: abstract specifications
   for the components that have none (the index transaction as an atomic update of
   a set, the file jobs as a map over the list, a session as a saved copy), with
   the refinements proved as for undo and the rewrite.
