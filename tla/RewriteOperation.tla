-------------------------- MODULE RewriteOperation --------------------------
(***************************************************************************)
(* `rewrite apply`, `rewrite continue` and `rewrite abort`: the checkpoint *)
(* of one history rewrite in the common git directory, the refs and packs  *)
(* it owns, and the branch it finally moves.  A command runs under the     *)
(* session lock, so one process at a time takes steps; it may fail at any  *)
(* step, or die, and the next command finds what was left behind.  Other   *)
(* git processes take no part in the lock: the user moves the branch,      *)
(* checks out another, edits files, touches the operation's refs, and git  *)
(* collects garbage between any two steps.                                 *)
(*                                                                         *)
(* A commit is what the user made (UserCommits) or <<op, i>>, the i-th     *)
(* commit an operation builds.  The builds are deterministic, so a commit  *)
(* is named by its number and comparing it with a replay is comparing      *)
(* numbers.                                                                *)
(***************************************************************************)
EXTENDS ObjectPromotion

CONSTANTS
  UserCommits,
  MaxFaults,   \* bound on failed steps and deaths
  MaxMoves,    \* bound on what the user does to refs, HEAD and the worktree
  MaxGcs       \* bound on garbage collections

ASSUME UserCommitsAssumption ==
  /\ \A op \in Ops, n \in {Outputs} : <<op, n>> \notin UserCommits
  /\ None \notin UserCommits \cup (Ops \X {Outputs}) \cup Ops
ASSUME BoundAssumption == MaxFaults \in Nat /\ MaxMoves \in Nat /\ MaxGcs \in Nat

Commits == UserCommits \cup (Ops \X {Outputs})
Rewritten(op) == <<op, Outputs>>

Foreign == Outputs + 1   \* an output ref that someone else has set

Phases == {"PREPARED", "BUILDING", "PAUSED", "VERIFYING", "READY_TO_UPDATE",
           "COMPLETE", "ABORTED"}
Actions == {"BUILD_OUTPUT", "VERIFY_SERIES", "UPDATE_BRANCH",
            "RESTORE_ORIGINAL", "NONE"}

\* state.json.  `outs` is completed_output_count, `pending` says that the next
\* output is the pending one, `verified` numbers last_verified_commit, and
\* `digest` says that verification_sha256 is set.
Records == [phase : Phases, next : Actions, outs : 0 .. Outputs,
            pending : BOOLEAN, verified : 0 .. Outputs, digest : BOOLEAN]
NoRecord == [phase |-> "none"]

VARIABLES
  branch,    \* the commit the planned branch names
  head,      \* HEAD is that branch
  safe,      \* no live fact blocks: clean index and worktree, no session ...
  plan,      \* plan.json of an operation: its original tip, None before it
  rec,       \* state.json in the published operation directory, or NoRecord
  proof,     \* the operations with a verification.json
  active, latest,      \* the two pointer files
  recovery,  \* the ref refs/git-stage-batch/rewrite/<op>/original
  output,    \* the ref .../output: 0 when absent, else the commit it names
  proc,      \* the process that holds the session lock
  child,     \* an index-pack that outlived its parent and holds the lock on
  meddled,   \* the user has touched the branch or the refs of the operation
  shown, returned,     \* see HistoryRewrite
  faults, moves, gcs

refs == <<branch, recovery, output>>
files == <<plan, rec, proof, active, latest>>
user == <<head, safe, meddled, moves, gcs>>
history == <<shown, returned>>
vars == <<refs, files, objects, user, history, proc, child, faults>>

\* git update-ref refuses to let a ref name an object that is not there.
Exists(c) == \A op \in Ops : c = Rewritten(op) => stored[op] = Outputs

Idle == [cmd |-> "none", op |-> None, pc |-> "idle", lease |-> None, stamp |-> 0]
Pcs == {"idle", "facts", "anchor", "publish", "inspect", "activate", "load",
        "dispatch", "promote", "pack", "outputs", "swap_output", "advance",
        "release", "built", "verify", "stamp", "prove", "ready", "finalize",
        "compare", "swap", "complete", "latest", "deactivate", "pause",
        "abort", "retract", "retracted", "intend", "restore", "swap_back",
        "adopt", "close"}
Procs == [cmd : {"none", "apply", "continue", "abort"}, op : Ops \cup {None},
          pc : Pcs, lease : Packs \cup {None}, stamp : 0 .. Outputs]

At(pc) == proc.pc = pc
Goto(pc) == proc' = [proc EXCEPT !.pc = pc]
Me == proc.op

\* An exception reaches _pause_after_failure only inside continue.
Raise ==
  IF proc.cmd = "continue" THEN Goto("pause") ELSE proc' = Idle

Terminal(r) == r.phase \in {"COMPLETE", "ABORTED"}
Restoring(r) == r # NoRecord /\ r.next = "RESTORE_ORIGINAL"

Init ==
  /\ ObjectInit
  /\ branch \in UserCommits
  /\ head = TRUE /\ safe = TRUE
  /\ plan = [op \in Ops |-> None]
  /\ rec = [op \in Ops |-> NoRecord]
  /\ proof = {}
  /\ active = None /\ latest = None
  /\ recovery = [op \in Ops |-> None]
  /\ output = [op \in Ops |-> 0]
  /\ proc = Idle /\ child = None
  /\ meddled = FALSE
  /\ shown = {} /\ returned = {}
  /\ faults = 0 /\ moves = 0 /\ gcs = 0

-----------------------------------------------------------------------------
(* The checkpoint file. *)

AllowedNext == [
  PREPARED |-> {"BUILD_OUTPUT"}, BUILDING |-> {"BUILD_OUTPUT"},
  PAUSED |-> {"BUILD_OUTPUT", "VERIFY_SERIES", "UPDATE_BRANCH", "RESTORE_ORIGINAL"},
  VERIFYING |-> {"VERIFY_SERIES"}, READY_TO_UPDATE |-> {"UPDATE_BRANCH"},
  COMPLETE |-> {"NONE"}, ABORTED |-> {"NONE"}]

AllowedTransitions == [
  PREPARED |-> {"BUILDING", "PAUSED", "ABORTED"},
  BUILDING |-> {"BUILDING", "PAUSED", "VERIFYING", "ABORTED"},
  PAUSED |-> {"PAUSED", "BUILDING", "VERIFYING", "READY_TO_UPDATE", "ABORTED"},
  VERIFYING |-> {"VERIFYING", "PAUSED", "READY_TO_UPDATE", "ABORTED"},
  READY_TO_UPDATE |-> {"PAUSED", "COMPLETE", "ABORTED"},
  COMPLETE |-> {}, ABORTED |-> {}]

ValidState(r) ==
  /\ r \in Records
  /\ r.pending => /\ r.outs < Outputs
                  /\ r.next = "BUILD_OUTPUT"
                  /\ r.phase \in {"BUILDING", "PAUSED"}
  /\ r.verified <= r.outs
  /\ r.next \in AllowedNext[r.phase]
  /\ r.phase = "PREPARED" =>
       r.outs = 0 /\ ~r.pending /\ r.verified = 0 /\ ~r.digest
  /\ r.phase \in {"VERIFYING", "READY_TO_UPDATE", "COMPLETE"} =>
       r.outs = Outputs /\ ~r.pending
  /\ r.phase \in {"READY_TO_UPDATE", "COMPLETE"} =>
       r.verified = Outputs /\ r.digest

\* The output ref is the last completed output, or the pending one.
OutputRefMatches(op, r) ==
  output[op] \in {r.outs} \cup {i \in {r.outs + 1} : r.pending}

RecoveryMatches(op) == recovery[op] = plan[op]
VerificationMatches(op, r) == r.digest => op \in proof

CanUpdate(op, r) ==
  /\ ValidState(r)
  /\ active = op
  /\ r.outs \in {rec[op].outs, rec[op].outs + 1}
  /\ r.phase \in AllowedTransitions[rec[op].phase]
  /\ OutputRefMatches(op, r)
  /\ RecoveryMatches(op)
  /\ VerificationMatches(op, r)

Write(op, r) ==
  /\ CanUpdate(op, r)
  /\ rec' = [rec EXCEPT ![op] = r]
  /\ UNCHANGED <<plan, proof, active, latest>>

\* The last step of a path that ends in update_history_operation: it raises
\* when the new state is not a legal successor of the checkpoint.
Update(op, r, pc) ==
  \/ Write(op, r) /\ Goto(pc)
  \/ ~CanUpdate(op, r) /\ Raise /\ UNCHANGED files

\* Mutant: a crash between the swap and its checkpoint is not thought of.
OriginalTipOnly(op, r) == {plan[op]}

\* inspect_history_operation: what continuation trusts, read again.
AllowedBranchTips(op, r) ==
  {plan[op]} \cup
  {c \in {Rewritten(op)} :
     /\ r.outs = Outputs
     /\ \/ r.phase = "READY_TO_UPDATE"
        \/ r.phase = "PAUSED" /\ r.next \in {"UPDATE_BRANCH", "RESTORE_ORIGINAL"}}

ResumeReady(op) ==
  /\ head /\ safe
  /\ branch \in AllowedBranchTips(op, rec[op])
  /\ RecoveryMatches(op)
  /\ rec[op].outs <= stored[op]
  /\ OutputRefMatches(op, rec[op])
  /\ VerificationMatches(op, rec[op])

-----------------------------------------------------------------------------
(* rewrite apply, up to the active pointer. *)

\* The plan was validated against the live tip; the preparation directory with
\* the plan is made under a fresh operation id.
Prepare(op) ==
  /\ proc = Idle /\ child = None
  /\ plan[op] = None
  /\ active = None
  /\ head /\ safe
  /\ plan' = [plan EXCEPT ![op] = branch]
  /\ proc' = [Idle EXCEPT !.cmd = "apply", !.op = op, !.pc = "facts"]
  /\ meddled' = FALSE
  /\ UNCHANGED <<refs, rec, proof, active, latest, objects, head, safe, moves,
                 gcs, history, child, faults>>

RequireStartFacts ==
  /\ At("facts")
  /\ IF head /\ safe /\ branch = plan[Me] THEN Goto("anchor") ELSE Raise
  /\ UNCHANGED <<refs, files, objects, user, history, child, faults>>

Fresh == [phase |-> "PREPARED", next |-> "BUILD_OUTPUT", outs |-> 0,
          pending |-> FALSE, verified |-> 0, digest |-> FALSE]

AnchorOriginal ==
  /\ At("anchor")
  /\ \/ /\ Exists(plan[Me])
        /\ recovery' = [recovery EXCEPT ![Me] = plan[Me]]
        /\ Goto("publish")
     \/ /\ ~Exists(plan[Me])
        /\ Raise
        /\ UNCHANGED recovery
  /\ UNCHANGED <<branch, output, files, objects, user, history, child, faults>>

PublishDirectory ==
  /\ At("publish")
  /\ \/ /\ RecoveryMatches(Me) /\ output[Me] = 0
        /\ rec' = [rec EXCEPT ![Me] = Fresh]
        /\ Goto("inspect")
     \/ /\ ~(RecoveryMatches(Me) /\ output[Me] = 0)
        /\ Raise
        /\ UNCHANGED rec
  /\ UNCHANGED <<refs, plan, proof, active, latest, objects, user, history,
                 child, faults>>

InspectPublished ==
  /\ At("inspect")
  /\ IF ResumeReady(Me) THEN Goto("activate") ELSE Raise
  /\ UNCHANGED <<refs, files, objects, user, history, child, faults>>

\* From here on the work is continue_history_operation's.
Activate ==
  /\ At("activate")
  /\ \/ /\ ResumeReady(Me)
        /\ active' = Me
        /\ proc' = [proc EXCEPT !.cmd = "continue", !.pc = "load"]
     \/ /\ ~ResumeReady(Me)
        /\ Raise
        /\ UNCHANGED active
  /\ UNCHANGED <<refs, plan, rec, proof, latest, objects, user, history, child,
                 faults>>

-----------------------------------------------------------------------------
(* rewrite continue. *)

Begin(cmd, pc) ==
  /\ proc = Idle /\ child = None
  /\ active # None
  /\ proc' = [Idle EXCEPT !.cmd = cmd, !.op = active, !.pc = pc]
  /\ UNCHANGED <<refs, files, objects, user, history, child, faults>>

BeginContinue == Begin("continue", "load")

Load ==
  /\ At("load")
  /\ CASE Terminal(rec[Me])  -> Goto("latest")
       [] Restoring(rec[Me]) -> Goto("abort")
       [] OTHER -> IF ResumeReady(Me) THEN Goto("dispatch") ELSE Raise
  /\ UNCHANGED <<refs, files, objects, user, history, child, faults>>

Resumed(r) ==
  CASE r.phase = "PREPARED" \/ r.next = "BUILD_OUTPUT" -> "BUILDING"
    [] r.next = "VERIFY_SERIES" -> "VERIFYING"
    [] OTHER -> "READY_TO_UPDATE"

StageOf(phase) ==
  CASE phase = "BUILDING" -> "promote"
    [] phase = "VERIFYING" -> "verify"
    [] OTHER -> "finalize"

Dispatch ==
  /\ At("dispatch")
  /\ LET r == rec[Me] IN
       \/ /\ r.phase \in {"PREPARED", "PAUSED"}
          /\ Update(Me, [r EXCEPT !.phase = Resumed(r)], StageOf(Resumed(r)))
       \/ /\ r.phase \notin {"PREPARED", "PAUSED"}
          /\ Goto(StageOf(r.phase))
          /\ UNCHANGED files
  /\ UNCHANGED <<refs, objects, user, history, child, faults>>

\* An earlier attempt's lease is found again; otherwise a child packs the
\* commits that were rebuilt in the quarantine.
Promote ==
  /\ At("promote")
  /\ proc' = IF keep[Me] # None
               THEN [proc EXCEPT !.lease = keep[Me], !.pc = "outputs"]
               ELSE [proc EXCEPT !.pc = "pack"]
  /\ UNCHANGED <<refs, files, objects, user, history, child, faults>>

Pack ==
  /\ At("pack")
  /\ \E p \in Packs :
       /\ InstallPack(Me, p)
       /\ proc' = [proc EXCEPT !.lease = p, !.pc = "outputs"]
  /\ UNCHANGED <<refs, files, user, history, child, faults>>

\* The loop of _build_outputs, and the first half of _publish_pending_output.
NextOutput ==
  /\ At("outputs")
  /\ LET r == rec[Me] IN
       \/ /\ r.outs = Outputs
          /\ Goto("release")
          /\ UNCHANGED files
       \/ /\ r.outs < Outputs /\ r.pending
          /\ Goto("swap_output")
          /\ UNCHANGED files
       \/ /\ r.outs < Outputs /\ ~r.pending
          /\ Update(Me, [r EXCEPT !.pending = TRUE], "swap_output")
  /\ UNCHANGED <<refs, objects, user, history, child, faults>>

SwapOutputRef ==
  /\ At("swap_output")
  /\ LET done == rec[Me].outs IN
       \/ /\ output[Me] = done /\ done < stored[Me]
          /\ output' = [output EXCEPT ![Me] = done + 1]
          /\ Goto("advance")
       \/ /\ output[Me] = done + 1
          /\ Goto("advance")
          /\ UNCHANGED output
       \/ /\ output[Me] # done + 1
          /\ ~(output[Me] = done /\ done < stored[Me])
          /\ Raise
          /\ UNCHANGED output
  /\ UNCHANGED <<branch, recovery, files, objects, user, history, child, faults>>

AdvanceOutput ==
  /\ At("advance")
  /\ LET r == rec[Me] IN
       Update(Me, [r EXCEPT !.outs = r.outs + 1, !.pending = FALSE], "outputs")
  /\ UNCHANGED <<refs, objects, user, history, child, faults>>

\* release_git_object_promotion_lease: unlink a marker left by an earlier
\* release, rename .keep to the marker, unlink the marker.
ReleaseLease ==
  /\ At("release")
  /\ \/ /\ \/ UnlinkPriorMarker(Me, proc.lease)
           \/ RenameKeep(Me, proc.lease)
           \/ UnlinkMarker(Me, proc.lease)
        /\ UNCHANGED proc
     \/ /\ Released(Me, proc.lease)
        /\ Goto(IF Restoring(rec[Me]) THEN "close" ELSE "built")
        /\ UNCHANGED objects
  /\ UNCHANGED <<refs, files, user, history, child, faults>>

FinishBuild ==
  /\ At("built")
  /\ Update(Me, [rec[Me] EXCEPT !.phase = "VERIFYING", !.next = "VERIFY_SERIES"],
            "verify")
  /\ UNCHANGED <<refs, objects, user, history, child, faults>>

\* The replayed series is compared with what the store and the ref hold.
Verify ==
  /\ At("verify")
  /\ IF stored[Me] = Outputs /\ output[Me] = Outputs
       THEN proc' = [proc EXCEPT !.stamp = 0, !.pc = "stamp"]
       ELSE Raise
  /\ UNCHANGED <<refs, files, objects, user, history, child, faults>>

\* One checkpoint for each verified commit, oldest first.
Stamp ==
  /\ At("stamp")
  /\ \/ /\ proc.stamp < Outputs
        /\ LET r == [rec[Me] EXCEPT !.verified = proc.stamp + 1] IN
             \/ /\ Write(Me, r)
                /\ proc' = [proc EXCEPT !.stamp = @ + 1]
             \/ ~CanUpdate(Me, r) /\ Raise /\ UNCHANGED files
     \/ /\ proc.stamp = Outputs
        /\ Goto("prove")
        /\ UNCHANGED files
  /\ UNCHANGED <<refs, objects, user, history, child, faults>>

WriteVerification ==
  /\ At("prove")
  /\ proof' = proof \cup {Me}
  /\ Goto("ready")
  /\ UNCHANGED <<refs, plan, rec, active, latest, objects, user, history, child,
                 faults>>

MakeReady ==
  /\ At("ready")
  /\ Update(Me, [rec[Me] EXCEPT !.phase = "READY_TO_UPDATE",
                   !.next = "UPDATE_BRANCH", !.verified = Outputs, !.digest = TRUE],
            "finalize")
  /\ UNCHANGED <<refs, objects, user, history, child, faults>>

\* _finalize_branch: check everything again, read the tip, swap.
RequireFinalReady ==
  /\ At("finalize")
  /\ IF ResumeReady(Me) THEN Goto("compare") ELSE Raise
  /\ UNCHANGED <<refs, files, objects, user, history, child, faults>>

\* Mutant: the swap of a process that died is taken for foreign movement.
CompareWithOriginal ==
  /\ At("compare")
  /\ IF head /\ branch = plan[Me] THEN Goto("swap") ELSE Raise
  /\ UNCHANGED <<refs, files, objects, user, history, child, faults>>

CompareTip ==
  /\ At("compare")
  /\ CASE ~head -> Raise
       [] head /\ branch = plan[Me] -> Goto("swap")
       [] head /\ branch = Rewritten(Me) /\ branch # plan[Me] -> Goto("complete")
       [] OTHER -> Raise
  /\ UNCHANGED <<refs, files, objects, user, history, child, faults>>

Observe ==
  /\ shown' = shown \cup {op \in Ops : branch' = Rewritten(op)}
  /\ returned' = returned \cup
       {op \in Ops : Restoring(rec'[op]) /\ branch' = plan[op]}

\* `git update-ref` with an expected old value.
CompareAndSwapBranch(expected, new, pc) ==
  \/ /\ branch = expected /\ Exists(new)
     /\ branch' = new
     /\ Goto(pc)
     /\ UNCHANGED files
     /\ Observe
  \/ /\ ~(branch = expected /\ Exists(new))
     /\ Raise
     /\ UNCHANGED <<branch, files, history>>

\* Mutant: update-ref without the expected value.
SwapBranchBlindly ==
  /\ At("swap")
  /\ CompareAndSwapBranch(branch, Rewritten(Me), "complete")
  /\ UNCHANGED <<recovery, output, objects, user, child, faults>>

SwapBranch ==
  /\ At("swap")
  /\ CompareAndSwapBranch(plan[Me], Rewritten(Me), "complete")
  /\ UNCHANGED <<recovery, output, objects, user, child, faults>>

MarkComplete ==
  /\ At("complete")
  /\ Update(Me, [rec[Me] EXCEPT !.phase = "COMPLETE", !.next = "NONE"], "latest")
  /\ UNCHANGED <<refs, objects, user, history, child, faults>>

\* deactivate_history_operation: first latest, then no longer active.
PointLatest ==
  /\ At("latest")
  /\ latest' = Me
  /\ Goto("deactivate")
  /\ UNCHANGED <<refs, plan, rec, proof, active, objects, user, history, child,
                 faults>>

Deactivate ==
  /\ At("deactivate")
  /\ active' = None
  /\ proc' = Idle
  /\ UNCHANGED <<refs, plan, rec, proof, latest, objects, user, history, child,
                 faults>>

\* _pause_after_failure; what goes wrong in it is swallowed.
NextAfterFailure(r) ==
  CASE r.phase \in {"PREPARED", "BUILDING"} -> "BUILD_OUTPUT"
    [] r.phase = "VERIFYING" -> "VERIFY_SERIES"
    [] r.phase = "READY_TO_UPDATE" -> "UPDATE_BRANCH"
    [] OTHER -> r.next

PauseAfterFailure ==
  /\ At("pause")
  /\ proc' = Idle
  /\ LET r == [rec[Me] EXCEPT !.phase = "PAUSED", !.next = NextAfterFailure(rec[Me])]
     IN \/ ~Terminal(rec[Me]) /\ Write(Me, r)
        \/ (Terminal(rec[Me]) \/ ~CanUpdate(Me, r)) /\ UNCHANGED files
  /\ UNCHANGED <<refs, objects, user, history, child, faults>>

-----------------------------------------------------------------------------
(* rewrite abort, and a continue that finds an abort unfinished. *)

BeginAbort == Begin("abort", "abort")

RequireOwned ==
  /\ At("abort")
  /\ CASE Terminal(rec[Me]) -> Goto("latest")
       [] ~Terminal(rec[Me]) /\ (~RecoveryMatches(Me) \/ ~head) -> Raise
       [] OTHER -> Goto(IF rec[Me].pending THEN "retract" ELSE "intend")
  /\ UNCHANGED <<refs, files, objects, user, history, child, faults>>

RetractOutputRef ==
  /\ At("retract")
  /\ LET done == rec[Me].outs IN
       \/ /\ output[Me] \in {done, done + 1}
          /\ output' = [output EXCEPT ![Me] = done]
          /\ Goto("retracted")
       \/ /\ output[Me] \notin {done, done + 1}
          /\ Raise
          /\ UNCHANGED output
  /\ UNCHANGED <<branch, recovery, files, objects, user, history, child, faults>>

ForgetPending ==
  /\ At("retracted")
  /\ Update(Me, [rec[Me] EXCEPT !.pending = FALSE], "intend")
  /\ UNCHANGED <<refs, objects, user, history, child, faults>>

\* Mutant: the intent is kept in memory.
IntendOnly ==
  /\ At("intend")
  /\ Goto("restore")
  /\ UNCHANGED <<refs, files, objects, user, history, child, faults>>

PersistIntent ==
  /\ At("intend")
  /\ UNCHANGED <<refs, objects, user, child, faults>>
  /\ LET r == [rec[Me] EXCEPT !.phase = "PAUSED", !.next = "RESTORE_ORIGINAL"] IN
       \/ Write(Me, r) /\ Goto("restore") /\ Observe
       \/ ~CanUpdate(Me, r) /\ Raise /\ UNCHANGED <<files, history>>

WasFinalized(r) == r.outs = Outputs /\ r.verified = Outputs /\ r.digest

CompareRestored ==
  /\ At("restore")
  /\ CASE branch = plan[Me] -> Goto("adopt")
       [] /\ branch = Rewritten(Me) /\ branch # plan[Me]
          /\ WasFinalized(rec[Me]) -> Goto("swap_back")
       [] OTHER -> Raise
  /\ UNCHANGED <<refs, files, objects, user, history, child, faults>>

SwapBranchBack ==
  /\ At("swap_back")
  /\ CompareAndSwapBranch(Rewritten(Me), plan[Me], "adopt")
  /\ UNCHANGED <<recovery, output, objects, user, child, faults>>

\* Mutant: a build that published nothing is taken to have no lease.
AdoptLeaseOfPublished ==
  /\ At("adopt")
  /\ \/ rec[Me].outs = 0 /\ Goto("close")
     \/ \E p \in AdoptableLeases(Me) :
          /\ rec[Me].outs > 0
          /\ proc' = [proc EXCEPT !.lease = p, !.pc = "release"]
     \/ rec[Me].outs > 0 /\ NothingToAdopt(Me) /\ Goto("close")
  /\ UNCHANGED <<refs, files, objects, user, history, child, faults>>

AdoptLease ==
  /\ At("adopt")
  /\ \/ /\ NothingToAdopt(Me)
        /\ Goto("close")
     \/ \E p \in AdoptableLeases(Me) :
          proc' = [proc EXCEPT !.lease = p, !.pc = "release"]
     \/ /\ ~NothingToAdopt(Me)
        /\ AdoptableLeases(Me) = {}
        /\ Raise
  /\ UNCHANGED <<refs, files, objects, user, history, child, faults>>

\* Mutant: a checkpoint that is refused is not noticed.
MarkAbortedIfPossible ==
  /\ At("close")
  /\ LET r == [rec[Me] EXCEPT !.phase = "ABORTED", !.next = "NONE"] IN
       Write(Me, r) \/ (~CanUpdate(Me, r) /\ UNCHANGED files)
  /\ Goto("latest")
  /\ UNCHANGED <<refs, objects, user, history, child, faults>>

MarkAborted ==
  /\ At("close")
  /\ Update(Me, [rec[Me] EXCEPT !.phase = "ABORTED", !.next = "NONE"], "latest")
  /\ UNCHANGED <<refs, objects, user, history, child, faults>>

-----------------------------------------------------------------------------
(* Failures. *)

\* Any step may raise instead: a full disk, a git command that fails, Ctrl-C.
Fail ==
  /\ proc # Idle /\ ~At("pause")
  /\ faults < MaxFaults
  /\ faults' = faults + 1
  /\ Raise
  /\ UNCHANGED <<refs, files, objects, user, history, child>>

\* The process is killed.  The kernel drops its lock, unless index-pack, which
\* inherited the descriptor, is still at work.
Die ==
  /\ proc # Idle
  /\ faults < MaxFaults
  /\ faults' = faults + 1
  /\ child' = IF At("pack") THEN Me ELSE None
  /\ proc' = Idle
  /\ UNCHANGED <<refs, files, objects, user, history>>

ChildEnds ==
  /\ child # None
  /\ child' = None
  /\ \/ \E p \in Packs : InstallPack(child, p)
     \/ UNCHANGED objects
  /\ UNCHANGED <<refs, files, user, history, proc, faults>>

-----------------------------------------------------------------------------
(* The user and other git processes. *)

Meddle ==
  /\ moves < MaxMoves
  /\ moves' = moves + 1
  /\ UNCHANGED <<files, objects, proc, child, faults, gcs>>

\* Commit, reset or fetch into the branch.
MoveBranch ==
  /\ Meddle
  /\ branch' \in UserCommits \cup {Rewritten(op) : op \in {o \in Ops : output[o] = Outputs}}
  /\ branch' # branch
  /\ meddled' = TRUE
  /\ Observe
  /\ UNCHANGED <<recovery, output, head, safe>>

MoveOperationRef ==
  /\ Meddle
  /\ \E op \in Ops :
       \/ /\ plan[op] # None
          /\ output' = [output EXCEPT ![op] = Foreign]
          /\ UNCHANGED recovery
       \/ /\ recovery[op] # None
          /\ recovery' = [recovery EXCEPT ![op] = None]
          /\ UNCHANGED output
  /\ meddled' = TRUE
  /\ UNCHANGED <<branch, head, safe, history>>

CheckOut ==
  /\ Meddle
  /\ head' = ~head
  /\ UNCHANGED <<refs, safe, meddled, history>>

\* Stage or edit a file, open a session, save a batch, begin a merge, fetch a
\* remote ref that has the commits; or the reverse.
ChangeFacts ==
  /\ Meddle
  /\ safe' = ~safe
  /\ UNCHANGED <<refs, head, meddled, history>>

Reachable(op) ==
  IF Rewritten(op) \in {branch} \cup {recovery[o] : o \in Ops} THEN Outputs
  ELSE IF output[op] = Foreign THEN 0 ELSE output[op]

Gc ==
  /\ gcs < MaxGcs
  /\ gcs' = gcs + 1
  /\ CollectGarbage(Reachable)
  /\ UNCHANGED <<refs, files, history, proc, child, faults, head, safe, meddled,
                 moves>>

-----------------------------------------------------------------------------
Step ==
  \/ RequireStartFacts \/ AnchorOriginal \/ PublishDirectory
  \/ InspectPublished \/ Activate
  \/ Load \/ Dispatch \/ Promote \/ Pack
  \/ NextOutput \/ SwapOutputRef \/ AdvanceOutput \/ ReleaseLease \/ FinishBuild
  \/ Verify \/ Stamp \/ WriteVerification \/ MakeReady
  \/ RequireFinalReady \/ CompareTip \/ SwapBranch \/ MarkComplete
  \/ PointLatest \/ Deactivate \/ PauseAfterFailure
  \/ RequireOwned \/ RetractOutputRef \/ ForgetPending \/ PersistIntent
  \/ CompareRestored \/ SwapBranchBack \/ AdoptLease \/ MarkAborted

Environment == MoveBranch \/ MoveOperationRef \/ CheckOut \/ ChangeFacts \/ Gc

Next ==
  \/ \E op \in Ops : Prepare(op)
  \/ BeginContinue \/ BeginAbort
  \/ Step
  \/ Fail \/ Die \/ ChildEnds
  \/ Environment

Spec == Init /\ [][Next]_vars

\* A running process takes its next step, an orphaned child ends, and the user
\* runs `rewrite continue` again as long as an operation is active.  Nobody has
\* to start or abort anything.
Fairness == WF_vars(Step) /\ WF_vars(ChildEnds) /\ WF_vars(BeginContinue)

FairSpec == Spec /\ Fairness

-----------------------------------------------------------------------------
(* Properties. *)

\* The shape of the state.
TypeOK ==
  /\ ObjectTypeOK
  /\ branch \in Commits
  /\ {head, safe, meddled} \subseteq BOOLEAN
  /\ plan \in [Ops -> Commits \cup {None}]
  /\ rec \in [Ops -> Records \cup {NoRecord}]
  /\ \A op \in Ops : rec[op] = NoRecord \/ ValidState(rec[op])
  /\ proof \subseteq Ops
  /\ {active, latest, child} \subseteq Ops \cup {None}
  /\ recovery \in [Ops -> Commits \cup {None}]
  /\ output \in [Ops -> 0 .. Foreign]
  /\ proc \in Procs

\* Whatever step a rewrite command dies at, and whatever git collects: as long
\* as nobody else touched the operation's refs, the branch or the worktree,
\* the checkpoint that is left can be continued.
CheckpointResumes ==
  \A op \in Ops :
    (/\ active = op /\ proc.pc \notin {"deactivate"}
     /\ ~Terminal(rec[op]) /\ ~Restoring(rec[op])
     /\ ~meddled /\ head /\ safe)
    => ResumeReady(op)

\* From the moment its pack is installed until the branch names the series, no
\* gc takes a commit from a command that builds: the lease shields them until
\* the output ref does, and is not released a step too early.
BuildIsShielded ==
  (/\ proc.cmd = "continue" /\ ~Restoring(rec[Me]) /\ ~meddled
   /\ proc.pc \in {"outputs", "swap_output", "advance", "release", "built", "stamp",
                   "prove", "ready", "compare", "swap"})
  => stored[Me] = Outputs

\* An operation that is over has no lease left: git may collect its pack, at
\* whatever step an earlier attempt died.
LeaseEnds ==
  \A op \in Ops :
    Terminal(rec[op]) => keep[op] = None /\ child # op

\* An operation that has moved on from its preparation is the active one until
\* its checkpoint says that it is over, and `latest` names one that is.
PointersAgree ==
  /\ \A op \in Ops :
       rec[op] # NoRecord /\ ~Terminal(rec[op]) /\ active # op =>
         rec[op].phase = "PREPARED" /\ output[op] \in {0, Foreign} /\ keep[op] = None
  /\ latest # None => Terminal(rec[latest])

\* A rewrite command moves the branch in two ways only: from the tip the plan
\* was made for to a series that was verified and is still complete in the
\* store, or from that series back once the wish to abort is on disk.
BranchMovesAreOwned ==
  [][(Step /\ branch' # branch) =>
       \/ /\ branch = plan[Me] /\ branch' = Rewritten(Me)
          /\ WasFinalized(rec[Me]) /\ Me \in proof
          /\ stored[Me] = Outputs
       \/ /\ branch = Rewritten(Me) /\ branch' = plan[Me]
          /\ Restoring(rec[Me])]_vars

\* The commands implement the atomic rewrite of HistoryRewrite.
OutcomeOf(op) ==
  IF rec[op].phase = "COMPLETE" THEN "complete"
  ELSE IF rec[op].phase = "ABORTED" THEN "aborted"
  ELSE IF active # op THEN "none"
  ELSE IF Restoring(rec[op]) THEN "restoring" ELSE "open"

Outcome == [op \in Ops |-> OutcomeOf(op)]
PlannedFor == [op \in Ops |-> IF OutcomeOf(op) = "none" THEN None ELSE plan[op]]

Promise == INSTANCE HistoryRewrite WITH original <- PlannedFor, outcome <- Outcome

RewriteIsAtomic == Promise!Spec

\* A rewrite that is carried on ends, whatever step it died at, unless someone
\* else holds it up: by moving the branch or the operation's refs, by staying
\* on another branch, by keeping the worktree or the repository in a state
\* that blocks a rewrite -- or it is an abort that finds a marker whose pack a
\* gc has deleted, or a marker and a lease of two packs, and raises each time,
\* though an abort ought to recover from a build that renamed its .keep file
\* before it failed (tests/history/test_execution.py:1293).
LeaseUnusable ==
  \E op \in Ops :
    /\ active = op /\ Restoring(rec[op])
    /\ ~NothingToAdopt(op) /\ AdoptableLeases(op) = {}

RewriteEnds ==
  []<>(active = None \/ meddled \/ ~head \/ ~safe \/ LeaseUnusable)
=============================================================================
