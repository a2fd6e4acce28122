-------------------------- MODULE IndexTransaction --------------------------
(* How include changes the index beside other git processes                   *)
(* (utils/index_transaction.py, utils/git_index_lock.py, the retry loop of    *)
(* utils/git_command.py, and the two callers of the transaction).  Whole-file *)
(* includes hold git's index.lock, stage on a private copy and replace the    *)
(* index with it; other commands run git, which takes the lock for itself.    *)
(*                                                                            *)
(* The index is the set of updates it contains.  The session lock lets one    *)
(* command of the program run at a time.                                      *)
EXTENDS Naturals, FiniteSets

CONSTANTS
  Gits,         \* other git processes, each with one update
  Bypassers,    \* writers that ignore index.lock, each with one update
  None,
  MaxCommands,  \* bound: commands begun
  MaxHunks      \* what each command stages

ASSUME BoundsAssumption == MaxCommands \in Nat /\ MaxHunks \in Nat
ASSUME WritersAssumption ==
  /\ Gits \cap Bypassers = {} /\ (Gits \cup {None}) \cap 0 .. MaxCommands = {}
  /\ None \notin Gits

VARIABLES
  index,     \* the updates in the index
  lockfile,  \* index.lock: who created it and what it contains, or NoFile
  tx,        \* the command that runs
  git,       \* the other git processes
  recorded,  \* the hunks in included-hunks.txt
  bypassed,  \* the bypassing writers that have written
  excused,   \* history: updates whose loss or whose missing record is not claimed
  chaos      \* history: a lock was taken away between the stat and the unlink

vars == <<index, lockfile, tx, git, recorded, bypassed, excused, chaos>>

Commands == 1 .. MaxCommands
Hunks(n) == {n} \X (1 .. MaxHunks)
AllHunks == Commands \X (1 .. MaxHunks)

Update(x) == <<0, x>>
Bypassed == {Update(b) : b \in bypassed}

NoFile == [by |-> None, content |-> {}]
OwnFile(who) == [by |-> who, content |-> {}]

\* "file" and "files" stage on a private copy, "git" runs one git command.
Kinds == {"file", "files", "git"}

Idle(n) == [pc |-> "out", kind |-> "git", n |-> n, late |-> FALSE, baseline |-> {},
            private |-> {}, checked |-> {}, saved |-> {}]

Init ==
  /\ index = {} /\ lockfile = NoFile
  /\ tx = Idle(0)
  /\ git = [g \in Gits |-> "out"]
  /\ recorded = {} /\ bypassed = {} /\ excused = {} /\ chaos = FALSE

At(pc) == tx.pc = pc
Goto(pc) == tx' = [tx EXCEPT !.pc = pc]
Free == lockfile = NoFile

Others == <<git, bypassed>>
History == <<excused, chaos>>

-----------------------------------------------------------------------------
(* Waiting for the lock                                                        *)

Begin ==
  /\ At("out") /\ tx.n < MaxCommands
  /\ \E kind \in Kinds : tx' = [Idle(tx.n + 1) EXCEPT !.pc = "wait", !.kind = kind]
  /\ UNCHANGED <<index, lockfile, recorded, Others, History>>

\* The deadline passes: of the acquisition, or of a git command and its retries.
TimePasses ==
  /\ tx.pc \in {"wait", "try"} /\ ~tx.late
  /\ tx' = [tx EXCEPT !.late = TRUE]
  /\ UNCHANGED <<index, lockfile, recorded, Others, History>>

\* _acquire_index_lock creates the file or polls until its deadline.
Acquire ==
  /\ At("wait") /\ tx.kind # "git" /\ Free
  /\ lockfile' = OwnFile(tx.n)
  /\ Goto("snapshot")
  /\ UNCHANGED <<index, recorded, Others, History>>

GiveUp ==
  /\ At("wait") /\ tx.kind # "git" /\ ~Free /\ tx.late
  /\ tx' = Idle(tx.n)
  /\ UNCHANGED <<index, lockfile, recorded, Others, History>>

\* wait_for_git_index_lock returns when the lock is gone or the time is up, and
\* git is run.
Waited ==
  /\ At("wait") /\ tx.kind = "git" /\ (Free \/ tx.late)
  /\ Goto("try")
  /\ UNCHANGED <<index, lockfile, recorded, Others, History>>

\* git takes the lock at once or fails; then it is run again while time is left.
GitStarts ==
  /\ At("try") /\ Free
  /\ lockfile' = OwnFile(tx.n)
  /\ Goto("gitread")
  /\ UNCHANGED <<index, recorded, Others, History>>

\* A mistake: every retry has a deadline of its own.
RetryAfresh ==
  /\ At("try") /\ ~Free
  /\ tx' = [tx EXCEPT !.pc = "wait", !.late = FALSE]
  /\ UNCHANGED <<index, lockfile, recorded, Others, History>>

Retry ==
  /\ At("try") /\ ~Free
  /\ tx' = IF tx.late THEN Idle(tx.n) ELSE [tx EXCEPT !.pc = "wait"]
  /\ UNCHANGED <<index, lockfile, recorded, Others, History>>

-----------------------------------------------------------------------------
(* A git process of the command                                                *)

\* git reads the index and writes its lock file ...
GitWrites ==
  /\ At("gitread")
  /\ lockfile' = IF lockfile.by = tx.n
                   THEN [lockfile EXCEPT !.content = index \cup Hunks(tx.n)]
                   ELSE lockfile
  /\ Goto("gitrename")
  /\ UNCHANGED <<index, recorded, Others, History>>

\* ... and renames it, whatever file has its name by then.
GitRenames ==
  /\ At("gitrename")
  /\ IF Free THEN tx' = Idle(tx.n) /\ UNCHANGED <<index, lockfile>>
             ELSE /\ index' = lockfile.content /\ lockfile' = NoFile
                  /\ Goto("record")
  /\ excused' = excused \cup (Bypassed \ lockfile.content)
  /\ UNCHANGED <<recorded, Others, chaos>>

-----------------------------------------------------------------------------
(* The transaction                                                             *)

\* The baseline and the private copy are made of one snapshot; the checkpoint
\* opens in the environment of the private index.
Snapshot ==
  /\ At("snapshot")
  /\ tx' = [tx EXCEPT !.pc = "stage", !.baseline = index, !.private = index,
                      !.saved = recorded]
  /\ UNCHANGED <<index, lockfile, recorded, Others, History>>

Unstaged == Hunks(tx.n) \ tx.private

\* A mistake: git is run on the index itself.
StageOpenly ==
  /\ At("stage")
  /\ \E h \in Unstaged :
       /\ index' = index \cup {h}
       /\ tx' = [tx EXCEPT !.private = @ \cup {h}, !.baseline = index']
       /\ recorded' = IF tx.kind = "files" THEN recorded \cup {h} ELSE recorded
  /\ UNCHANGED <<lockfile, Others, History>>

\* Hunk by hunk on the private copy.  An include of several files records each
\* at once, one of a single file when it is published.
Stage ==
  /\ At("stage")
  /\ \E h \in Unstaged :
       /\ tx' = [tx EXCEPT !.private = @ \cup {h}]
       /\ recorded' = IF tx.kind = "files" THEN recorded \cup {h} ELSE recorded
  /\ UNCHANGED <<index, lockfile, Others, History>>

\* A mistake: the index is replaced whatever has become of it.
PublishUnmatched ==
  /\ At("stage") /\ Unstaged = {}
  /\ tx' = [tx EXCEPT !.checked = index, !.pc = "replace"]
  /\ UNCHANGED <<index, lockfile, recorded, Others, History>>

\* _publish_transaction_index compares the index with the baseline: a writer
\* that ignored the lock makes the command fail ...
MatchesSnapshot ==
  /\ At("stage") /\ Unstaged = {}
  /\ tx' = [tx EXCEPT !.checked = index,
                      !.pc = IF index = tx.baseline THEN "replace" ELSE "unwind"]
  /\ UNCHANGED <<index, lockfile, recorded, Others, History>>

\* ... and replaces it.  What was written between the two steps is lost.
Replace ==
  /\ At("replace")
  /\ index' = tx.private
  /\ excused' = excused \cup (index \ tx.checked)
  /\ Goto("fsync")
  /\ UNCHANGED <<lockfile, recorded, Others, chaos>>

\* The directory is synced, and the transaction is published.
Fsync ==
  /\ At("fsync")
  /\ Goto("record")
  /\ UNCHANGED <<index, lockfile, recorded, Others, History>>

Unrecorded == Hunks(tx.n) \ recorded

\* Hunks that are not recorded yet are recorded one after the other ...
Record ==
  /\ At("record")
  /\ \E h \in Unrecorded : recorded' = recorded \cup {h}
  /\ UNCHANGED <<index, lockfile, tx, Others, History>>

\* ... and the checkpoint is finalized.
Finalize ==
  /\ At("record") /\ Unrecorded = {}
  /\ IF tx.kind = "git" THEN tx' = Idle(tx.n) ELSE Goto("stat")
  /\ UNCHANGED <<index, lockfile, recorded, Others, History>>

\* Any command of the body fails, or Ctrl-C interrupts it.
Fail ==
  /\ tx.pc \in {"snapshot", "stage", "replace", "fsync", "record"}
  /\ IF tx.kind = "git" THEN tx' = Idle(tx.n)
     ELSE Goto(IF At("snapshot") THEN "stat" ELSE "unwind")
  /\ UNCHANGED <<index, lockfile, recorded, Others, History>>

\* The checkpoint of an include of several files rolls back; it restores the
\* records and the private index, which goes with the transaction.
Unwind ==
  /\ At("unwind")
  /\ recorded' = IF tx.kind = "files" THEN tx.saved ELSE recorded
  /\ Goto("stat")
  /\ UNCHANGED <<index, lockfile, Others, History>>

\* The lock is removed if it is still the file that was created ...
StatLock ==
  /\ At("stat")
  /\ IF lockfile.by = tx.n THEN Goto("unlink") ELSE tx' = Idle(tx.n)
  /\ UNCHANGED <<index, lockfile, recorded, Others, History>>

\* ... one call earlier.
UnlinkLock ==
  /\ At("unlink")
  /\ lockfile' = NoFile
  /\ tx' = Idle(tx.n)
  /\ UNCHANGED <<index, recorded, Others, History>>

\* The process dies and leaves its lock.  An include of several files that dies
\* between its records and its publication leaves the records.
Die ==
  /\ ~At("out")
  /\ excused' = IF tx.kind = "files" /\ tx.pc \in {"stage", "replace", "unwind"}
                  THEN excused \cup Hunks(tx.n) ELSE excused
  /\ tx' = Idle(tx.n)
  /\ UNCHANGED <<index, lockfile, recorded, Others, chaos>>

-----------------------------------------------------------------------------
(* The others                                                                  *)

\* Another git process: it fails at once if the lock is taken.
OtherStarts(g) ==
  /\ git[g] = "out" /\ Free
  /\ lockfile' = OwnFile(g)
  /\ git' = [git EXCEPT ![g] = "read"]
  /\ UNCHANGED <<index, tx, recorded, bypassed, History>>

OtherWrites(g) ==
  /\ git[g] = "read"
  /\ lockfile' = IF lockfile.by = g
                   THEN [lockfile EXCEPT !.content = index \cup {Update(g)}]
                   ELSE lockfile
  /\ git' = [git EXCEPT ![g] = "rename"]
  /\ UNCHANGED <<index, tx, recorded, bypassed, History>>

OtherRenames(g) ==
  /\ git[g] = "rename"
  /\ IF Free THEN git' = [git EXCEPT ![g] = "dead"] /\ UNCHANGED <<index, lockfile>>
             ELSE /\ index' = lockfile.content /\ lockfile' = NoFile
                  /\ git' = [git EXCEPT ![g] = "done"]
  /\ excused' = excused \cup (Bypassed \ lockfile.content)
  /\ UNCHANGED <<tx, recorded, bypassed, chaos>>

OtherDies(g) ==
  /\ git[g] \in {"read", "rename"}
  /\ git' = [git EXCEPT ![g] = "dead"]
  /\ UNCHANGED <<index, lockfile, tx, recorded, bypassed, History>>

\* A writer that does not ask for the lock.
Bypass(b) ==
  /\ b \notin bypassed
  /\ bypassed' = bypassed \cup {b}
  /\ index' = index \cup {Update(b)}
  /\ UNCHANGED <<lockfile, tx, git, recorded, History>>

Live(who) == \/ who \in Gits /\ git[who] \in {"read", "rename"}
             \/ who = tx.n /\ ~At("out")

\* The user removes a lock: of a dead process, as git advises, or of a
\* transaction that takes its time.
RemoveLock ==
  /\ ~Free
  /\ ~Live(lockfile.by) \/ (lockfile.by = tx.n /\ tx.kind # "git")
  /\ lockfile' = NoFile
  /\ excused' = IF Live(lockfile.by) THEN excused \cup Hunks(tx.n) ELSE excused
  /\ chaos' = (chaos \/ At("unlink"))
  /\ UNCHANGED <<index, tx, recorded, Others>>

Waits == Acquire \/ GiveUp \/ Waited \/ GitStarts \/ Retry
Runs ==
  \/ GitWrites \/ GitRenames
  \/ Snapshot \/ Stage \/ MatchesSnapshot \/ Replace \/ Fsync \/ Record \/ Finalize
  \/ Unwind \/ StatLock \/ UnlinkLock

Steps == Waits \/ Runs
OtherGit(g) == OtherStarts(g) \/ OtherWrites(g) \/ OtherRenames(g) \/ OtherDies(g)

Next ==
  \/ Begin \/ TimePasses \/ Steps \/ Fail \/ Die
  \/ \E g \in Gits : OtherGit(g)
  \/ \E b \in Bypassers : Bypass(b)
  \/ RemoveLock

Spec == Init /\ [][Next]_vars

\* A command that can go on does, and time passes.  Nobody removes a stale lock
\* for it and no other git process need end.
Fairness == WF_vars(Steps) /\ WF_vars(TimePasses)

FairSpec == Spec /\ Fairness

-----------------------------------------------------------------------------
(* Properties                                                                  *)

Updates == AllHunks \cup {Update(x) : x \in Gits \cup Bypassers}
Files == [by : Commands \cup Gits \cup {None}, content : SUBSET Updates]

Pcs == {"out", "wait", "try", "gitread", "gitrename", "snapshot", "stage", "replace",
        "fsync", "record", "unwind", "stat", "unlink"}
Transactions ==
  [pc : Pcs, kind : Kinds, n : 0 .. MaxCommands, late : BOOLEAN, baseline : SUBSET Updates,
   private : SUBSET Updates, checked : SUBSET Updates, saved : SUBSET AllHunks]

\* The index, its lock and the processes have the values they can have; a
\* command stages on what it has found.
TypeOK ==
  /\ index \subseteq Updates /\ lockfile \in Files /\ recorded \subseteq AllHunks
  /\ git \in [Gits -> {"out", "read", "rename", "done", "dead"}]
  /\ tx \in Transactions /\ tx.baseline \subseteq tx.private
  /\ (At("out") \/ tx.n \in Commands)
  /\ bypassed \subseteq Bypassers /\ excused \subseteq Updates /\ chaos \in BOOLEAN

\* What has been done: the hunks of a command that still runs are not counted.
Running == IF At("out") THEN {} ELSE Hunks(tx.n)
Done ==
  {Update(g) : g \in {h \in Gits : git[h] = "done"}} \cup Bypassed \cup (recorded \ Running)

\* No update of a git process that has ended well, of a writer that ignores
\* index.lock, or of an include that has recorded its hunks is lost, whatever
\* failed, died or took a lock away from a transaction.  Not claimed for an
\* update written between a transaction's comparison and its replacement, for
\* one that git overwrites because its writer ignored the lock, for an include
\* whose lock the user took away or that died between its records and its
\* publication, or once the user removed a lock between the two calls of the
\* command that remove it, so that another's may have gone with the second.
NoUpdateIsLost == chaos \/ Done \ excused \subseteq index

\* The hunks of one include reach the index together: no failure or death leaves
\* the index with some of them (isolated_index_transaction).
StagedTogether ==
  \A n \in Commands : Hunks(n) \subseteq index \/ Hunks(n) \cap index = {}

\* A command that waits for index.lock ends, by the deadline if by nothing else:
\* retries share one deadline (_acquire_index_lock, run_git_command).
CommandsEnd == ~At("out") ~> At("out")
=============================================================================
