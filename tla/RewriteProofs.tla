---------------------------- MODULE RewriteProofs ----------------------------
(***************************************************************************)
(* The safety of the rewrite commands, for any number of operations,       *)
(* commits, packs, failures, moves of the user and garbage collections.    *)
(***************************************************************************)
EXTENDS RewriteOperation, TLAPS

StartPcs == {"facts", "anchor", "publish", "inspect", "activate"}
BuildPcs == {"promote", "pack", "outputs", "swap_output", "advance", "built"}
VerifyPcs == {"verify", "stamp", "prove", "ready"}
FinalPcs == {"finalize", "compare", "swap", "complete"}
RestorePcs == {"restore", "swap_back", "adopt", "close"}
OtherPcs == {"load", "dispatch", "release", "latest", "deactivate", "pause",
             "abort", "retract", "retracted", "intend"}
WorkPcs == BuildPcs \cup VerifyPcs \cup FinalPcs \cup RestorePcs \cup OtherPcs

\* What holds of the files at each step of apply before the active pointer.
Starting ==
  /\ proc.cmd = "apply" /\ proc.pc \in StartPcs
  /\ active = None
  /\ plan[Me] # None
  /\ rec[Me] = IF proc.pc \in {"inspect", "activate"} THEN Fresh ELSE NoRecord
  /\ output[Me] # 0 => meddled

\* What holds of the checkpoint at each step of continue and abort.
Working ==
  /\ proc.cmd \in {"continue", "abort"} /\ proc.pc \in WorkPcs
  /\ active = Me
  /\ proc.pc = "pause" => proc.cmd = "continue"
  /\ proc.pc = "dispatch" => ~Terminal(rec[Me]) /\ ~Restoring(rec[Me])
  /\ proc.pc \in BuildPcs => rec[Me].phase = "BUILDING"
  /\ proc.pc \in {"swap_output", "advance"} => rec[Me].pending
  /\ proc.pc = "release" => Restoring(rec[Me]) \/ rec[Me].phase = "BUILDING"
  /\ proc.pc \in {"release", "built"} /\ ~Restoring(rec[Me]) => rec[Me].outs = Outputs
  /\ proc.pc \in VerifyPcs => rec[Me].phase = "VERIFYING"
  /\ proc.pc = "ready" => Me \in proof
  /\ proc.pc \in FinalPcs => rec[Me].phase = "READY_TO_UPDATE"
  /\ proc.pc = "complete" => Me \in shown
  /\ proc.pc \in {"retract", "retracted", "intend"} => ~Terminal(rec[Me])
  /\ proc.pc \in {"retract", "retracted"} => rec[Me].pending
  /\ proc.pc = "intend" => ~rec[Me].pending
  /\ proc.pc \in RestorePcs => Restoring(rec[Me])
  /\ proc.pc = "swap_back" => WasFinalized(rec[Me])
  /\ (proc.pc \in {"adopt", "close"} \/ (proc.pc = "release" /\ Restoring(rec[Me])))
       => Me \in returned
  /\ proc.pc \in {"latest", "deactivate"} => Terminal(rec[Me])
  /\ proc.pc = "deactivate" => latest = Me

ProcessInv == proc = Idle \/ (proc.op \in Ops /\ child = None /\ (Starting \/ Working))

\* Files and pointers.
FilesInv ==
  /\ active # None => plan[active] # None /\ rec[active] # NoRecord
  /\ latest # None => Terminal(rec[latest])
  /\ child # None => active = child /\ rec[child].phase = "BUILDING" /\ proc = Idle
  /\ \A op \in Ops :
       /\ plan[op] = None => rec[op] = NoRecord /\ output[op] = 0 /\ recovery[op] = None
       /\ rec[op] = NoRecord => output[op] \in {0, Foreign} /\ active # op
       /\ rec[op] # NoRecord /\ ~Terminal(rec[op]) /\ active # op =>
            rec[op] = Fresh /\ output[op] \in {0, Foreign}
       /\ rec[op] # NoRecord /\ rec[op].digest => op \in proof

\* The operation has released its lease, and will not take another.
PastBuild(r) ==
  \/ r.phase \in {"VERIFYING", "READY_TO_UPDATE", "COMPLETE", "ABORTED"}
  \/ r.phase = "PAUSED" /\ r.next \in {"VERIFY_SERIES", "UPDATE_BRANCH"}

LeaseInv ==
  \A op \in Ops :
    /\ keep[op] # None => stored[op] = Outputs
    /\ (rec[op] = NoRecord \/ active # op \/ PastBuild(rec[op])) => keep[op] = None

\* The lease in the hands of the process is the one that the operation has.
HeldInv ==
  proc # Idle =>
    /\ proc.pc \in {"outputs", "swap_output", "advance"} =>
         proc.lease \in Packs /\ keep[Me] = proc.lease
    /\ proc.pc = "release" => proc.lease \in Packs /\ keep[Me] \in {None, proc.lease}
    /\ proc.pc \in {"built", "close"} => keep[Me] = None

\* What the branch has named.
HistoryInv ==
  \A op \in Ops :
    /\ branch = Rewritten(op) => op \in shown
    /\ Restoring(rec[op]) /\ branch = plan[op] => op \in returned

\* What holds of the refs as long as nobody else touched them.
OwnedInv ==
  ~meddled =>
    \A op \in Ops : active = op =>
      /\ recovery[op] = plan[op]
      /\ OutputRefMatches(op, rec[op])
      /\ ~Terminal(rec[op]) /\ ~Restoring(rec[op]) =>
           branch \in AllowedBranchTips(op, rec[op])

StoredInv ==
  \A op \in Ops : output[op] # Foreign => output[op] <= stored[op]

Inv == TypeOK /\ ProcessInv /\ FilesInv /\ LeaseInv /\ HeldInv /\ HistoryInv
       /\ OwnedInv /\ StoredInv

Same == <<refs, files, objects, user, history, child>>

-----------------------------------------------------------------------------
USE OutputsAssumption, PacksAssumption DEF Me

\* The initial states satisfy the invariant.
LEMMA InitInv == Init => Inv
<1> SUFFICES ASSUME Init PROVE Inv OBVIOUS
<1> USE DEF Init, ObjectInit
<1>1. TypeOK
  <2>1. ObjectTypeOK BY DEF ObjectTypeOK
  <2>2. proc \in Procs BY DEF Procs, Idle, Pcs
  <2>3. branch \in Commits /\ output \in [Ops -> 0 .. Foreign] BY DEF Commits, Foreign
  <2>4. {head, safe, meddled} \subseteq BOOLEAN OBVIOUS
  <2> QED BY <2>1, <2>2, <2>3, <2>4 DEF TypeOK
<1>2. FilesInv
  <2>1. \A op \in Ops : rec[op] = NoRecord /\ plan[op] = None /\ output[op] = 0
                          /\ recovery[op] = None
    OBVIOUS
  <2> QED BY <2>1, UserCommitsAssumption DEF FilesInv
<1>3. LeaseInv BY DEF LeaseInv
<1>4. HistoryInv BY UserCommitsAssumption DEF HistoryInv, NoRecord, Restoring, Rewritten
<1>5. OwnedInv BY UserCommitsAssumption DEF OwnedInv
<1>6. StoredInv BY DEF StoredInv
<1> QED BY <1>1, <1>2, <1>3, <1>4, <1>5, <1>6 DEF Inv, ProcessInv, HeldInv

\* A step of the process that changes nothing else.
LEMMA Quiet ==
  ASSUME Inv, proc # Idle, UNCHANGED Same, proc' \in Procs, ProcessInv', HeldInv'
  PROVE  Inv'
<1> USE DEF Inv, Same, refs, files, objects, user, history
<1>1. child = None BY DEF ProcessInv
<1>2. TypeOK' BY DEF TypeOK, ObjectTypeOK
<1>3. FilesInv' BY <1>1 DEF FilesInv
<1>4. LeaseInv' /\ HistoryInv' /\ OwnedInv' /\ StoredInv'
  BY DEF LeaseInv, HistoryInv, OwnedInv, StoredInv, OutputRefMatches, AllowedBranchTips
<1> QED BY <1>2, <1>3, <1>4

\* A process that gives up leaves everything else as it is.
LEMMA Raised ==
  ASSUME Inv, proc # Idle, Raise, UNCHANGED Same
  PROVE  Inv'
<1>1. proc \in Procs /\ proc.op \in Ops /\ child = None /\ (Starting \/ Working)
  BY DEF Inv, ProcessInv, TypeOK
<1>2. CASE proc.cmd # "continue"
  <2>1. proc' = Idle BY <1>2 DEF Raise
  <2>2. proc' \in Procs BY <2>1 DEF Procs, Idle, Pcs
  <2>3. ProcessInv' /\ HeldInv' BY <2>1 DEF ProcessInv, HeldInv, Idle
  <2> QED BY <2>2, <2>3, Quiet
<1>3. CASE proc.cmd = "continue"
  <2>1. proc' = [proc EXCEPT !.pc = "pause"] BY <1>3 DEF Raise, Goto
  <2>2. proc' \in Procs /\ proc'.pc = "pause" /\ proc'.op = proc.op /\ proc'.cmd = "continue"
    BY <1>1, <1>3, <2>1 DEF Procs, Pcs
  <2>3. active' = proc'.op /\ child' = None
    BY <1>1, <1>3, <2>2 DEF Starting, Working, Same, files
  <2>4. Working'
    BY <2>2, <2>3 DEF Working, WorkPcs, OtherPcs, BuildPcs, VerifyPcs, FinalPcs, RestorePcs
  <2>5. HeldInv' BY <2>2 DEF HeldInv
  <2> QED BY <1>1, <2>2, <2>3, <2>4, <2>5, Quiet DEF ProcessInv
<1> QED BY <1>2, <1>3

\* What a working process knows.
LEMMA AtWork ==
  ASSUME Inv, proc # Idle, proc.pc \notin StartPcs
  PROVE  /\ proc \in Procs /\ proc.op \in Ops /\ child = None
         /\ Working /\ active = proc.op
         /\ rec[proc.op] # NoRecord /\ plan[proc.op] # None
         /\ ValidState(rec[proc.op]) /\ rec[proc.op] \in Records
<1>1. proc.op \in Ops /\ child = None /\ Working
  BY DEF Inv, ProcessInv, Starting
<1>2. active = proc.op /\ active # None
  BY <1>1, UserCommitsAssumption DEF Working
<1>3. rec[proc.op] # NoRecord /\ plan[proc.op] # None BY <1>1, <1>2 DEF Inv, FilesInv
<1>4. ValidState(rec[proc.op]) BY <1>1, <1>3 DEF Inv, TypeOK
<1> QED BY <1>1, <1>2, <1>3, <1>4 DEF Inv, TypeOK, ValidState

LEMMA StepTo ==
  ASSUME proc \in Procs, NEW pc \in Pcs, Goto(pc)
  PROVE  /\ proc' \in Procs /\ proc'.op = proc.op /\ proc'.cmd = proc.cmd
         /\ proc'.pc = pc /\ proc'.lease = proc.lease /\ proc'.stamp = proc.stamp
         /\ (pc # "idle" => proc' # Idle)
<1>1. proc' = [proc EXCEPT !.pc = pc] BY DEF Goto
<1> QED BY <1>1 DEF Procs, Idle

\* A checkpoint that is written keeps everything that holds of files and refs.
LEMMA Checkpoint ==
  ASSUME Inv, NEW op \in Ops, NEW r, active = op, child = None,
         Write(op, r), UNCHANGED <<refs, objects, user, child>>,
         PastBuild(r) => keep[op] = None,
         shown \subseteq shown', returned \subseteq returned',
         Restoring(r) /\ branch = plan[op] => op \in returned',
         ~Terminal(r) /\ ~Restoring(r) =>
           /\ ~Restoring(rec[op])
           /\ AllowedBranchTips(op, rec[op]) \subseteq AllowedBranchTips(op, r),
         proc' \in Procs, ProcessInv', HeldInv'
  PROVE  Inv'
<1> USE DEF Inv, refs, objects, user
<1>1. /\ rec' = [rec EXCEPT ![op] = r]
      /\ UNCHANGED <<plan, proof, active, latest>>
      /\ CanUpdate(op, r)
  BY DEF Write
<1>2. op # None /\ rec[op] # NoRecord /\ plan[op] # None /\ ValidState(rec[op])
      /\ DOMAIN rec = Ops
  BY UserCommitsAssumption DEF FilesInv, TypeOK
<1>3. ValidState(r) /\ r \in Records /\ r # NoRecord
  BY <1>1 DEF CanUpdate, ValidState, Records, NoRecord, Phases
<1>4. ~Terminal(rec[op])
  BY <1>1, <1>2 DEF CanUpdate, Terminal, AllowedTransitions
<1>5. /\ rec'[op] = r
      /\ \A o \in Ops : o # op => rec'[o] = rec[o]
  BY <1>1, <1>2
<1>6. TypeOK'
  <2>1. ObjectTypeOK' BY DEF TypeOK, ObjectTypeOK
  <2>2. \A o \in Ops : rec'[o] = NoRecord \/ ValidState(rec'[o])
    BY <1>3, <1>5 DEF TypeOK
  <2>3. rec' \in [Ops -> Records \cup {NoRecord}] BY <1>1, <1>3 DEF TypeOK
  <2>4. \A o \in Ops : (rec[o] = NoRecord \/ ValidState(rec[o]))'
    BY <2>2 DEF ValidState
  <2> QED BY <1>1, <2>1, <2>3, <2>4 DEF TypeOK
<1>7. FilesInv'
  <2>1. latest' # None => Terminal(rec'[latest'])
    BY <1>1, <1>2, <1>4 DEF FilesInv, TypeOK
  <2>2. r.digest => op \in proof BY <1>1 DEF CanUpdate, VerificationMatches
  <2>3. \A o \in Ops :
       /\ plan'[o] = None => rec'[o] = NoRecord /\ output'[o] = 0 /\ recovery'[o] = None
       /\ rec'[o] = NoRecord => output'[o] \in {0, Foreign} /\ active' # o
       /\ rec'[o] # NoRecord /\ ~Terminal(rec'[o]) /\ active' # o =>
            rec'[o] = Fresh /\ output'[o] \in {0, Foreign}
       /\ rec'[o] # NoRecord /\ rec'[o].digest => o \in proof'
    BY <1>1, <1>2, <1>3, <1>5, <2>2 DEF FilesInv
  <2> QED BY <1>1, <1>2, <1>3, <1>5, <2>1, <2>3 DEF FilesInv, Fresh
<1>8. LeaseInv' BY <1>1, <1>3, <1>5 DEF LeaseInv, PastBuild
<1>9. HistoryInv' BY <1>1, <1>5 DEF HistoryInv, Rewritten
<1>10. OwnedInv'
  <2> SUFFICES ASSUME ~meddled
               PROVE  /\ recovery[op] = plan[op]
                      /\ OutputRefMatches(op, r)
                      /\ ~Terminal(r) /\ ~Restoring(r) =>
                           branch \in AllowedBranchTips(op, r)
    BY <1>1, <1>5 DEF OwnedInv, OutputRefMatches, AllowedBranchTips, Rewritten
  <2> QED BY <1>1, <1>4 DEF OwnedInv, CanUpdate, RecoveryMatches
<1>11. StoredInv' BY DEF StoredInv
<1> QED BY <1>6, <1>7, <1>8, <1>9, <1>10, <1>11

\* update_history_operation: the checkpoint is written, or the command raises.
LEMMA Updated ==
  ASSUME Inv, proc # Idle, proc.pc \notin StartPcs, NEW r, NEW pc \in Pcs \ {"idle"},
         Update(proc.op, r, pc), UNCHANGED <<refs, objects, user, history, child>>,
         PastBuild(r) => keep[proc.op] = None,
         Restoring(r) => Restoring(rec[proc.op]),
         ~Terminal(r) /\ ~Restoring(r) =>
           /\ ~Restoring(rec[proc.op])
           /\ AllowedBranchTips(proc.op, rec[proc.op]) \subseteq AllowedBranchTips(proc.op, r),
         ASSUME proc' \in Procs, proc'.op = proc.op, proc'.cmd = proc.cmd,
                proc'.pc = pc, proc'.lease = proc.lease, proc' # Idle,
                rec'[proc.op] = r, ValidState(r), r \in Records,
                active' = proc.op, child' = None,
                UNCHANGED <<objects, history, proof, latest>>
         PROVE  Working' /\ HeldInv'
  PROVE  Inv'
<1>1. CASE Write(proc.op, r) /\ Goto(pc)
  <2>1. /\ proc \in Procs /\ proc.op \in Ops /\ active = proc.op /\ child = None
        /\ rec \in [Ops -> Records \cup {NoRecord}]
    BY AtWork DEF Inv, TypeOK
  <2>2. /\ proc' \in Procs /\ proc'.op = proc.op /\ proc'.cmd = proc.cmd
        /\ proc'.pc = pc /\ proc'.lease = proc.lease /\ proc' # Idle
    BY <1>1, <2>1, StepTo
  <2>3. rec'[proc.op] = r /\ UNCHANGED <<active, proof, latest>>
    BY <1>1, <2>1 DEF Write
  <2>4. ValidState(r) /\ r \in Records
    BY <1>1 DEF Write, CanUpdate, ValidState
  <2>5. Working' /\ HeldInv' BY <2>1, <2>2, <2>3, <2>4 DEF history
  <2>6. ProcessInv' BY <2>1, <2>2, <2>5 DEF ProcessInv
  <2>7. Restoring(r) /\ branch = plan[proc.op] => proc.op \in returned'
    BY <2>1 DEF history, Inv, HistoryInv
  <2> QED BY <1>1, <2>1, <2>2, <2>5, <2>6, <2>7, Checkpoint DEF history
<1>2. CASE Raise /\ UNCHANGED files
  BY <1>2, Raised DEF Same
<1> QED BY <1>1, <1>2 DEF Update

\* A working process goes on without writing anything.
LEMMA Walk ==
  ASSUME Inv, proc # Idle, proc.pc \notin StartPcs, NEW pc \in Pcs \ {"idle"}, Goto(pc),
         UNCHANGED Same,
         ASSUME proc' \in Procs, proc'.op = proc.op, proc'.cmd = proc.cmd,
                proc'.pc = pc, proc'.lease = proc.lease, proc' # Idle,
                Working, ValidState(rec[proc.op]), proc.op \in Ops,
                UNCHANGED <<refs, files, objects, history, child>>
         PROVE  Working' /\ HeldInv'
  PROVE  Inv'
<1>1. /\ proc \in Procs /\ proc.op \in Ops /\ child = None /\ Working
      /\ ValidState(rec[proc.op])
  BY AtWork
<1>2. /\ proc' \in Procs /\ proc'.op = proc.op /\ proc'.cmd = proc.cmd
      /\ proc'.pc = pc /\ proc'.lease = proc.lease /\ proc' # Idle
  BY <1>1, StepTo
<1>3. UNCHANGED <<refs, files, objects, history, child>> BY DEF Same
<1>4. Working' /\ HeldInv' BY <1>1, <1>2, <1>3
<1>5. ProcessInv' BY <1>1, <1>2, <1>3, <1>4 DEF ProcessInv
<1> QED BY <1>2, <1>4, <1>5, Quiet

USE DEF At

-----------------------------------------------------------------------------
(* rewrite apply. *)

LEMMA PrepareInv ==
  ASSUME Inv, NEW op \in Ops, Prepare(op)
  PROVE  Inv'
<1> USE DEF Inv, Prepare, refs, objects, history
<1>1. /\ proc' = [cmd |-> "apply", op |-> op, pc |-> "facts", lease |-> None, stamp |-> 0]
      /\ rec[op] = NoRecord /\ output[op] = 0 /\ recovery[op] = None
  BY DEF Idle, FilesInv
<1>2. TypeOK'
  <2>1. proc' \in Procs BY <1>1 DEF Procs, Pcs
  <2>2. plan' \in [Ops -> Commits \cup {None}] BY DEF TypeOK
  <2>3. \A o \in Ops : (rec[o] = NoRecord \/ ValidState(rec[o]))'
    BY DEF TypeOK, ValidState
  <2> QED BY <2>1, <2>2, <2>3 DEF TypeOK, ObjectTypeOK
<1>3. plan' = [plan EXCEPT ![op] = branch] /\ branch # None /\ plan \in [Ops -> Commits \cup {None}]
  BY UserCommitsAssumption DEF TypeOK, Commits
<1>4. ProcessInv'
  <2>1. Starting' BY <1>1, <1>3 DEF Starting, StartPcs
  <2> QED BY <1>1, <2>1 DEF ProcessInv
<1>5. FilesInv' BY <1>1, <1>3 DEF FilesInv
<1>6. LeaseInv' /\ HeldInv' BY <1>1 DEF LeaseInv, PastBuild, HeldInv
<1>7. HistoryInv'
  <2>1. ~Restoring(rec[op]) BY <1>1 DEF Restoring
  <2> QED BY <1>3, <2>1 DEF HistoryInv, Rewritten, Restoring
<1>8. OwnedInv' /\ StoredInv'
  BY UserCommitsAssumption DEF OwnedInv, StoredInv, OutputRefMatches
<1> QED BY <1>2, <1>4, <1>5, <1>6, <1>7, <1>8

\* What a process knows that starts an operation.
LEMMA AtStart ==
  ASSUME Inv, proc # Idle, proc.pc \in StartPcs
  PROVE  /\ proc \in Procs /\ proc.op \in Ops /\ child = None /\ Starting
         /\ active = None
<1>1. proc.op \in Ops /\ child = None /\ Starting
  BY DEF Inv, ProcessInv, Working, StartPcs, WorkPcs, BuildPcs, VerifyPcs, FinalPcs,
         RestorePcs, OtherPcs
<1> QED BY <1>1 DEF Starting, Inv, TypeOK

LEMMA RequireStartFactsInv == Inv /\ RequireStartFacts => Inv'
<1> SUFFICES ASSUME Inv, RequireStartFacts PROVE Inv' OBVIOUS
<1>1. proc # Idle /\ proc.pc = "facts" /\ UNCHANGED Same
  BY DEF RequireStartFacts, Idle, Same
<1>2. CASE Goto("anchor")
  <2>1. proc \in Procs /\ proc.op \in Ops /\ child = None /\ Starting
    BY <1>1, AtStart DEF StartPcs
  <2>2. proc' \in Procs /\ proc'.op = proc.op /\ proc'.cmd = proc.cmd /\ proc'.pc = "anchor"
    BY <1>2, <2>1, StepTo DEF Pcs
  <2>3. Starting' BY <1>1, <2>1, <2>2 DEF Starting, StartPcs, Same, files, refs, user
  <2>4. ProcessInv' /\ HeldInv' BY <1>1, <2>1, <2>2, <2>3 DEF ProcessInv, HeldInv, Same
  <2> QED BY <1>1, <2>2, <2>4, Quiet
<1>3. CASE Raise BY <1>1, <1>3, Raised
<1> QED BY <1>2, <1>3 DEF RequireStartFacts

LEMMA InspectPublishedInv == Inv /\ InspectPublished => Inv'
<1> SUFFICES ASSUME Inv, InspectPublished PROVE Inv' OBVIOUS
<1>1. proc # Idle /\ proc.pc = "inspect" /\ UNCHANGED Same
  BY DEF InspectPublished, Idle, Same
<1>2. CASE Goto("activate")
  <2>1. proc \in Procs /\ proc.op \in Ops /\ child = None /\ Starting
    BY <1>1, AtStart DEF StartPcs
  <2>2. proc' \in Procs /\ proc'.op = proc.op /\ proc'.cmd = proc.cmd /\ proc'.pc = "activate"
    BY <1>2, <2>1, StepTo DEF Pcs
  <2>3. Starting' BY <1>1, <2>1, <2>2 DEF Starting, StartPcs, Same, files, refs, user
  <2>4. ProcessInv' /\ HeldInv' BY <1>1, <2>1, <2>2, <2>3 DEF ProcessInv, HeldInv, Same
  <2> QED BY <1>1, <2>2, <2>4, Quiet
<1>3. CASE Raise BY <1>1, <1>3, Raised
<1> QED BY <1>2, <1>3 DEF InspectPublished

LEMMA AnchorOriginalInv == Inv /\ AnchorOriginal => Inv'
<1> SUFFICES ASSUME Inv, AnchorOriginal PROVE Inv' OBVIOUS
<1>1. proc # Idle /\ proc.pc = "anchor" BY DEF AnchorOriginal, Idle
<1>2. CASE Raise /\ UNCHANGED recovery
  BY <1>1, <1>2, Raised DEF AnchorOriginal, Same, refs
<1>3. CASE recovery' = [recovery EXCEPT ![proc.op] = plan[proc.op]] /\ Goto("publish")
  <2>1. proc \in Procs /\ proc.op \in Ops /\ child = None /\ Starting /\ active = None
    BY <1>1, AtStart DEF StartPcs
  <2>2. /\ proc' \in Procs /\ proc'.op = proc.op /\ proc'.cmd = proc.cmd
        /\ proc'.pc = "publish" /\ proc' # Idle
    BY <1>3, <2>1, StepTo DEF Pcs
  <2>3. /\ UNCHANGED <<branch, output, plan, rec, proof, active, latest, objects, head, safe,
                       meddled, shown, returned, child>>
    BY DEF AnchorOriginal, files, user, history
  <2> USE DEF Inv, objects
  <2>4. TypeOK'
    <3>1. \A o \in Ops : (rec[o] = NoRecord \/ ValidState(rec[o]))'
      BY <2>3 DEF TypeOK, ValidState
    <3> QED BY <1>3, <2>1, <2>2, <2>3, <3>1 DEF TypeOK, ObjectTypeOK
  <2>5. ProcessInv' /\ HeldInv'
    BY <1>1, <2>1, <2>2, <2>3 DEF ProcessInv, HeldInv, Starting, StartPcs
  <2>6. FilesInv' BY <1>3, <2>1, <2>2, <2>3 DEF FilesInv, Starting, TypeOK
  <2>7. LeaseInv' /\ HistoryInv' /\ StoredInv'
    BY <2>3 DEF LeaseInv, PastBuild, HistoryInv, Rewritten, Restoring, StoredInv
  <2>8. OwnedInv' BY <2>1, <2>3, UserCommitsAssumption DEF OwnedInv
  <2> QED BY <2>4, <2>5, <2>6, <2>7, <2>8
<1> QED BY <1>2, <1>3 DEF AnchorOriginal

LEMMA PublishDirectoryInv == Inv /\ PublishDirectory => Inv'
<1> SUFFICES ASSUME Inv, PublishDirectory PROVE Inv' OBVIOUS
<1>1. proc # Idle /\ proc.pc = "publish" BY DEF PublishDirectory, Idle
<1>2. CASE Raise /\ UNCHANGED rec
  BY <1>1, <1>2, Raised DEF PublishDirectory, Same, files
<1>3. CASE /\ RecoveryMatches(proc.op) /\ output[proc.op] = 0
           /\ rec' = [rec EXCEPT ![proc.op] = Fresh]
           /\ Goto("inspect")
  <2>1. proc \in Procs /\ proc.op \in Ops /\ child = None /\ Starting /\ active = None
    BY <1>1, AtStart DEF StartPcs
  <2>2. /\ proc' \in Procs /\ proc'.op = proc.op /\ proc'.cmd = proc.cmd
        /\ proc'.pc = "inspect" /\ proc' # Idle
    BY <1>3, <2>1, StepTo DEF Pcs
  <2>3. /\ UNCHANGED <<branch, output, recovery, plan, proof, active, latest, objects, head,
                       safe, meddled, shown, returned, child>>
    BY DEF PublishDirectory, refs, user, history
  <2>4. /\ Fresh \in Records /\ ValidState(Fresh) /\ Fresh # NoRecord
        /\ ~Terminal(Fresh) /\ ~Restoring(Fresh) /\ ~PastBuild(Fresh) /\ ~Fresh.digest
    BY DEF Fresh, Records, ValidState, Phases, Actions, AllowedNext, NoRecord, Terminal,
           Restoring, PastBuild
  <2> USE DEF Inv, objects
  <2>5. /\ rec \in [Ops -> Records \cup {NoRecord}]
        /\ rec'[proc.op] = Fresh /\ rec[proc.op] = NoRecord
        /\ \A o \in Ops : o # proc.op => rec'[o] = rec[o]
    BY <1>1, <1>3, <2>1 DEF TypeOK, Starting
  <2>6. TypeOK'
    <3>1. \A o \in Ops : (rec[o] = NoRecord \/ ValidState(rec[o]))'
      BY <2>4, <2>5 DEF TypeOK, ValidState
    <3>2. rec' \in [Ops -> Records \cup {NoRecord}] BY <1>3, <2>4, <2>5
    <3> QED BY <2>1, <2>2, <2>3, <3>1, <3>2 DEF TypeOK, ObjectTypeOK
  <2>7. ProcessInv' /\ HeldInv'
    BY <1>1, <2>1, <2>2, <2>3, <2>5 DEF ProcessInv, HeldInv, Starting, StartPcs
  <2>8. FilesInv'
    <3>1. latest' # None => Terminal(rec'[latest'])
      BY <2>3, <2>5 DEF FilesInv, TypeOK, Terminal, NoRecord
    <3> QED BY <1>3, <2>1, <2>3, <2>4, <2>5, <3>1 DEF FilesInv, Starting
  <2>9. LeaseInv' BY <2>1, <2>3, <2>5, UserCommitsAssumption DEF LeaseInv, PastBuild
  <2>10. HistoryInv' BY <2>3, <2>4, <2>5 DEF HistoryInv, Rewritten, Restoring
  <2>11. OwnedInv' /\ StoredInv'
    BY <2>1, <2>3, UserCommitsAssumption DEF OwnedInv, StoredInv
  <2> QED BY <2>6, <2>7, <2>8, <2>9, <2>10, <2>11
<1> QED BY <1>2, <1>3 DEF PublishDirectory

LEMMA ActivateInv == Inv /\ Activate => Inv'
<1> SUFFICES ASSUME Inv, Activate PROVE Inv' OBVIOUS
<1>1. proc # Idle /\ proc.pc = "activate" BY DEF Activate, Idle
<1>2. CASE Raise /\ UNCHANGED active
  BY <1>1, <1>2, Raised DEF Activate, Same, files
<1>3. CASE /\ ResumeReady(proc.op)
           /\ active' = proc.op
           /\ proc' = [proc EXCEPT !.cmd = "continue", !.pc = "load"]
  <2>1. /\ proc \in Procs /\ proc.op \in Ops /\ child = None /\ Starting /\ active = None
        /\ rec[proc.op] = Fresh
    BY <1>1, AtStart DEF StartPcs, Starting
  <2>2. /\ proc' \in Procs /\ proc'.op = proc.op /\ proc'.cmd = "continue"
        /\ proc'.pc = "load" /\ proc' # Idle
    BY <1>3, <2>1 DEF Procs, Pcs, Idle
  <2>3. /\ UNCHANGED <<branch, output, recovery, plan, rec, proof, latest, objects, head,
                       safe, meddled, shown, returned, child>>
    BY DEF Activate, refs, user, history
  <2> USE DEF Inv, objects
  <2>4. TypeOK'
    <3>1. \A o \in Ops : (rec[o] = NoRecord \/ ValidState(rec[o]))'
      BY <2>3 DEF TypeOK, ValidState
    <3> QED BY <1>3, <2>1, <2>2, <2>3, <3>1 DEF TypeOK, ObjectTypeOK
  <2>5. ProcessInv' /\ HeldInv'
    <3>1. Working'
      BY <1>3, <2>1, <2>2, <2>3 DEF Working, WorkPcs, OtherPcs, BuildPcs, VerifyPcs,
         FinalPcs, RestorePcs
    <3> QED BY <2>1, <2>2, <2>3, <3>1 DEF ProcessInv, HeldInv
  <2>6. Fresh # NoRecord BY DEF Fresh, NoRecord
  <2>7. FilesInv'
    BY <1>1, <1>3, <2>1, <2>3, <2>6, UserCommitsAssumption DEF FilesInv, Starting
  <2>8. LeaseInv' BY <2>1, <2>3, UserCommitsAssumption DEF LeaseInv, PastBuild
  <2>9. HistoryInv' /\ StoredInv' BY <2>3 DEF HistoryInv, Rewritten, StoredInv, Restoring
  <2>10. OwnedInv'
    BY <1>3, <2>3 DEF OwnedInv, ResumeReady, RecoveryMatches, OutputRefMatches,
       AllowedBranchTips, Rewritten
  <2> QED BY <2>4, <2>5, <2>7, <2>8, <2>9, <2>10
<1> QED BY <1>2, <1>3 DEF Activate

-----------------------------------------------------------------------------
(* rewrite continue. *)

USE DEF WorkPcs, OtherPcs, BuildPcs, VerifyPcs, FinalPcs, RestorePcs

LEMMA BeginInv ==
  ASSUME Inv, NEW cmd \in {"continue", "abort"}, NEW pc \in {"load", "abort"}, Begin(cmd, pc)
  PROVE  Inv'
<1>1. /\ proc = Idle /\ child = None /\ active # None
      /\ proc' = [cmd |-> cmd, op |-> active, pc |-> pc, lease |-> None, stamp |-> 0]
      /\ UNCHANGED Same
  BY DEF Begin, Idle, Same
<1>2. active \in Ops BY <1>1 DEF Inv, TypeOK
<1>3. proc' \in Procs BY <1>1, <1>2 DEF Procs, Pcs
<1>4. Working' BY <1>1, <1>2 DEF Working, Same, files
<1>5. ProcessInv' /\ HeldInv' BY <1>1, <1>2, <1>4 DEF ProcessInv, HeldInv, Same
<1> USE DEF Inv, Same, refs, files, objects, user, history
<1>6. TypeOK'
  <2>1. \A o \in Ops : (rec[o] = NoRecord \/ ValidState(rec[o]))'
    BY <1>1 DEF TypeOK, ValidState
  <2> QED BY <1>1, <1>3, <2>1 DEF TypeOK, ObjectTypeOK
<1>7. FilesInv' BY <1>1 DEF FilesInv
<1>8. LeaseInv' /\ HistoryInv' /\ OwnedInv' /\ StoredInv'
  BY <1>1 DEF LeaseInv, HistoryInv, OwnedInv, StoredInv, OutputRefMatches, AllowedBranchTips,
     PastBuild
<1> QED BY <1>5, <1>6, <1>7, <1>8

LEMMA LoadInv == Inv /\ Load => Inv'
<1> SUFFICES ASSUME Inv, Load PROVE Inv' OBVIOUS
<1>1. proc # Idle /\ proc.pc = "load" /\ proc.pc \notin StartPcs /\ UNCHANGED Same
  BY DEF Load, Idle, Same, StartPcs
<1>2. CASE Terminal(rec[proc.op]) /\ Goto("latest")
  BY <1>1, <1>2, Walk DEF Pcs, Working, HeldInv, files
<1>3. CASE Goto("abort")
  BY <1>1, <1>3, Walk DEF Pcs, Working, HeldInv, files
<1>4. CASE ~Terminal(rec[proc.op]) /\ ~Restoring(rec[proc.op]) /\ Goto("dispatch")
  BY <1>1, <1>4, Walk DEF Pcs, Working, HeldInv, files
<1>5. CASE Raise BY <1>1, <1>5, Raised
<1> QED BY <1>2, <1>3, <1>4, <1>5 DEF Load

LEMMA DispatchInv == Inv /\ Dispatch => Inv'
<1> SUFFICES ASSUME Inv, Dispatch PROVE Inv' OBVIOUS
<1> DEFINE r == rec[proc.op]
<1>1. proc # Idle /\ proc.pc = "dispatch" /\ proc.pc \notin StartPcs
      /\ UNCHANGED <<refs, objects, user, history, child>>
  BY DEF Dispatch, Idle, StartPcs
<1>2. /\ proc.op \in Ops /\ Working /\ ValidState(r) /\ r \in Records
      /\ ~Terminal(r) /\ ~Restoring(r)
  BY <1>1, AtWork DEF Working
<1>3. CASE /\ r.phase \in {"PREPARED", "PAUSED"}
           /\ Update(proc.op, [r EXCEPT !.phase = Resumed(r)], StageOf(Resumed(r)))
  <2> DEFINE new == [r EXCEPT !.phase = Resumed(r)]
  <2>1. /\ r.next \in {"BUILD_OUTPUT", "VERIFY_SERIES", "UPDATE_BRANCH"}
        /\ r.phase = "PREPARED" => r.next = "BUILD_OUTPUT"
    BY <1>2, <1>3 DEF ValidState, AllowedNext, Restoring, Records, Actions, NoRecord
  <2>2. \/ /\ new.phase = "BUILDING" /\ StageOf(Resumed(r)) = "promote"
           /\ r.next = "BUILD_OUTPUT"
        \/ /\ new.phase = "VERIFYING" /\ StageOf(Resumed(r)) = "verify"
           /\ r.phase = "PAUSED" /\ r.next = "VERIFY_SERIES"
        \/ /\ new.phase = "READY_TO_UPDATE" /\ StageOf(Resumed(r)) = "finalize"
           /\ r.phase = "PAUSED" /\ r.next = "UPDATE_BRANCH"
    BY <1>2, <1>3, <2>1 DEF Resumed, StageOf, Records
  <2>3. new.next = r.next /\ new.outs = r.outs BY <1>2 DEF Records
  <2>4. PastBuild(new) => keep[proc.op] = None
    BY <1>2, <2>2, <2>3 DEF PastBuild, Inv, LeaseInv
  <2>5. ~Restoring(new) BY <2>1, <2>3 DEF Restoring
  <2>6. AllowedBranchTips(proc.op, r) \subseteq AllowedBranchTips(proc.op, new)
    BY <1>3, <2>2, <2>3 DEF AllowedBranchTips
  <2> HIDE DEF new
  <2>7. ASSUME proc' \in Procs, proc'.op = proc.op, proc'.cmd = proc.cmd,
               proc'.pc = StageOf(Resumed(r)), rec'[proc.op] = new, active' = proc.op
        PROVE  Working' /\ HeldInv'
    BY <1>2, <2>2, <2>7 DEF Working, HeldInv
  <2>8. Update(proc.op, new, StageOf(Resumed(r))) BY <1>3 DEF new
  <2>9. StageOf(Resumed(r)) \in Pcs \ {"idle"} BY <2>2 DEF Pcs
  <2> QED BY <1>1, <1>2, <2>4, <2>5, <2>6, <2>7, <2>8, <2>9, Updated
<1>4. CASE /\ r.phase \notin {"PREPARED", "PAUSED"}
           /\ Goto(StageOf(r.phase))
           /\ UNCHANGED files
  <2>1. \/ r.phase = "BUILDING" /\ StageOf(r.phase) = "promote"
        \/ r.phase = "VERIFYING" /\ StageOf(r.phase) = "verify"
        \/ r.phase = "READY_TO_UPDATE" /\ StageOf(r.phase) = "finalize"
    BY <1>2, <1>4 DEF StageOf, Records, Phases, Terminal
  <2>2. UNCHANGED Same BY <1>1, <1>4 DEF Same
  <2> QED BY <1>1, <1>4, <2>1, <2>2, Walk DEF Pcs, Working, HeldInv, files
<1> QED BY <1>3, <1>4 DEF Dispatch

LEMMA PromoteInv == Inv /\ Promote => Inv'
<1> SUFFICES ASSUME Inv, Promote PROVE Inv' OBVIOUS
<1>1. proc # Idle /\ proc.pc = "promote" /\ proc.pc \notin StartPcs /\ UNCHANGED Same
  BY DEF Promote, Idle, Same, StartPcs
<1>2. proc \in Procs /\ proc.op \in Ops /\ Working /\ child = None
  BY <1>1, AtWork
<1>3. CASE keep[proc.op] # None /\ proc' = [proc EXCEPT !.lease = keep[proc.op], !.pc = "outputs"]
  <2>1. keep[proc.op] \in Packs BY <1>2, <1>3 DEF Inv, TypeOK, ObjectTypeOK
  <2>2. /\ proc' \in Procs /\ proc'.op = proc.op /\ proc'.cmd = proc.cmd
        /\ proc'.pc = "outputs" /\ proc'.lease = keep[proc.op]
    BY <1>2, <1>3, <2>1 DEF Procs, Pcs
  <2>3. Working' BY <1>1, <1>2, <2>2 DEF Working, Same, files
  <2>4. ProcessInv' /\ HeldInv'
    BY <1>1, <1>2, <2>1, <2>2, <2>3 DEF ProcessInv, HeldInv, Same, objects
  <2> QED BY <1>1, <2>2, <2>4, Quiet
<1>4. CASE Goto("pack")
  BY <1>1, <1>4, Walk DEF Pcs, Working, HeldInv, files
<1> QED BY <1>3, <1>4 DEF Promote, Goto

\* What the installation of a pack leaves true, by a command or by a child.
LEMMA Installed ==
  ASSUME Inv, NEW op \in Ops, NEW p \in Packs, InstallPack(op, p),
         active = op, rec[op] # NoRecord, rec[op].phase = "BUILDING"
  PROVE  /\ ObjectTypeOK'
         /\ keep'[op] = p
         /\ \A o \in Ops :
              /\ keep'[o] # None => stored'[o] = Outputs
              /\ (rec[o] = NoRecord \/ active # o \/ PastBuild(rec[o])) => keep'[o] = None
              /\ output[o] # Foreign => output[o] <= stored'[o]
<1> USE DEF Inv, InstallPack, TypeOK, ObjectTypeOK
<1>1. ObjectTypeOK' OBVIOUS
<1>2. /\ keep'[op] = p /\ stored'[op] = Outputs
      /\ \A o \in Ops : o # op => keep'[o] = keep[o] /\ stored'[o] = stored[o]
  OBVIOUS
<1>3. output[op] # Foreign => output[op] <= Outputs BY DEF Foreign
<1>4. ~PastBuild(rec[op]) BY DEF PastBuild
<1> QED BY <1>1, <1>2, <1>3, <1>4 DEF LeaseInv, StoredInv

LEMMA PackInv == Inv /\ Pack => Inv'
<1> SUFFICES ASSUME Inv, Pack PROVE Inv' OBVIOUS
<1>1. proc # Idle /\ proc.pc = "pack" /\ proc.pc \notin StartPcs
      /\ UNCHANGED <<refs, files, user, history, child>>
  BY DEF Pack, Idle, StartPcs
<1>2. proc \in Procs /\ proc.op \in Ops /\ Working /\ child = None /\ rec[proc.op] # NoRecord
      /\ active = proc.op /\ rec[proc.op].phase = "BUILDING"
  BY <1>1, AtWork DEF Working
<1>3. PICK p \in Packs : InstallPack(proc.op, p)
                         /\ proc' = [proc EXCEPT !.lease = p, !.pc = "outputs"]
  BY DEF Pack
<1>4. /\ proc' \in Procs /\ proc'.op = proc.op /\ proc'.cmd = proc.cmd
      /\ proc'.pc = "outputs" /\ proc'.lease = p /\ proc' # Idle
  BY <1>2, <1>3 DEF Procs, Pcs, Idle
<1>5. /\ ObjectTypeOK'
      /\ keep'[proc.op] = p
      /\ \A o \in Ops :
           /\ keep'[o] # None => stored'[o] = Outputs
           /\ (rec[o] = NoRecord \/ active # o \/ PastBuild(rec[o])) => keep'[o] = None
           /\ output[o] # Foreign => output[o] <= stored'[o]
  BY <1>2, <1>3, Installed
<1> USE DEF Inv, refs, files, user, history
<1>6. TypeOK'
  <2>1. \A o \in Ops : (rec[o] = NoRecord \/ ValidState(rec[o]))'
    BY <1>1 DEF TypeOK, ValidState
  <2> QED BY <1>1, <1>4, <1>5, <2>1 DEF TypeOK
<1>7. Working' BY <1>1, <1>2, <1>4 DEF Working
<1>8. ProcessInv' /\ HeldInv' BY <1>1, <1>2, <1>4, <1>5, <1>7 DEF ProcessInv, HeldInv
<1>9. FilesInv' BY <1>1, <1>2 DEF FilesInv
<1>10. LeaseInv' /\ StoredInv' BY <1>1, <1>5 DEF LeaseInv, StoredInv, PastBuild
<1>11. HistoryInv' /\ OwnedInv'
  BY <1>1 DEF HistoryInv, OwnedInv, OutputRefMatches, AllowedBranchTips, Rewritten, Restoring,
     Terminal
<1> QED BY <1>6, <1>8, <1>9, <1>10, <1>11

LEMMA NextOutputInv == Inv /\ NextOutput => Inv'
<1> SUFFICES ASSUME Inv, NextOutput PROVE Inv' OBVIOUS
<1> DEFINE r == rec[proc.op]
           new == [r EXCEPT !.pending = TRUE]
<1>1. proc # Idle /\ proc.pc = "outputs" /\ proc.pc \notin StartPcs
      /\ UNCHANGED <<refs, objects, user, history, child>>
  BY DEF NextOutput, Idle, StartPcs
<1>2. /\ proc.op \in Ops /\ Working /\ r \in Records /\ r.phase = "BUILDING"
      /\ proc.lease \in Packs /\ keep[proc.op] = proc.lease
  BY <1>1, AtWork DEF Working, Inv, HeldInv
<1>6. ~Restoring(r) BY <1>1, <1>2, AtWork DEF ValidState, AllowedNext, Restoring
<1>3. CASE r.outs = Outputs /\ Goto("release") /\ UNCHANGED files
  BY <1>1, <1>2, <1>6, <1>3, Walk DEF Pcs, Working, HeldInv, files, Same, objects
<1>4. CASE r.pending /\ Goto("swap_output") /\ UNCHANGED files
  BY <1>1, <1>2, <1>4, Walk DEF Pcs, Working, HeldInv, files, Same, objects
<1>5. CASE Update(proc.op, new, "swap_output")
  <2>1. new.phase = "BUILDING" /\ new.pending /\ new.next = r.next
    BY <1>2 DEF Records
  <2>2. ~PastBuild(new) BY <2>1 DEF PastBuild
  <2>3. Restoring(new) => Restoring(r)
    BY <1>2, <2>1 DEF Restoring, NoRecord, Records
  <2>4. ~Terminal(new) /\ ~Restoring(new) =>
          ~Restoring(r) /\ AllowedBranchTips(proc.op, r) \subseteq AllowedBranchTips(proc.op, new)
    BY <1>2, <2>1 DEF Restoring, AllowedBranchTips, NoRecord
  <2> HIDE DEF new
  <2>5. ASSUME proc' \in Procs, proc'.op = proc.op, proc'.cmd = proc.cmd,
               proc'.pc = "swap_output", proc'.lease = proc.lease,
               rec'[proc.op] = new, active' = proc.op, UNCHANGED objects
        PROVE  Working' /\ HeldInv'
    BY <1>2, <2>1, <2>5 DEF Working, HeldInv, objects
  <2> QED BY <1>1, <1>5, <2>2, <2>3, <2>4, <2>5, Updated DEF Pcs
<1> QED BY <1>3, <1>4, <1>5 DEF NextOutput

\* The output ref moves to another commit of the operation's own series.
LEMMA OutputMoved ==
  ASSUME Inv, NEW op \in Ops, NEW n, active = op, rec[op] # NoRecord,
         output' = [output EXCEPT ![op] = n], n \in 0 .. Outputs, n <= stored[op],
         n \in {rec[op].outs} \cup {i \in {rec[op].outs + 1} : rec[op].pending},
         UNCHANGED <<branch, recovery, files, objects, user, history, child>>,
         proc' \in Procs, ProcessInv', HeldInv', child = None
  PROVE  Inv'
<1> USE DEF Inv, files, objects, user, history
<1>1. output'[op] = n /\ \A o \in Ops : o # op => output'[o] = output[o] BY DEF TypeOK
<1>2. TypeOK'
  <2>1. \A o \in Ops : (rec[o] = NoRecord \/ ValidState(rec[o]))' BY DEF TypeOK, ValidState
  <2>2. output' \in [Ops -> 0 .. Foreign] BY DEF TypeOK, Foreign
  <2> QED BY <2>1, <2>2 DEF TypeOK, ObjectTypeOK
<1>3. FilesInv' BY <1>1 DEF FilesInv
<1>4. LeaseInv' /\ HistoryInv'
  BY DEF LeaseInv, PastBuild, HistoryInv, Rewritten, Restoring
<1>5. OwnedInv'
  BY <1>1 DEF OwnedInv, OutputRefMatches, AllowedBranchTips, Rewritten, Restoring, Terminal
<1>6. StoredInv' BY <1>1 DEF StoredInv
<1> QED BY <1>2, <1>3, <1>4, <1>5, <1>6

LEMMA SwapOutputRefInv == Inv /\ SwapOutputRef => Inv'
<1> SUFFICES ASSUME Inv, SwapOutputRef PROVE Inv' OBVIOUS
<1> DEFINE r == rec[proc.op]
<1>1. proc # Idle /\ proc.pc = "swap_output" /\ proc.pc \notin StartPcs
      /\ UNCHANGED <<branch, recovery, files, objects, user, history, child>>
  BY DEF SwapOutputRef, Idle, StartPcs
<1>2. /\ proc \in Procs /\ proc.op \in Ops /\ Working /\ r \in Records /\ r # NoRecord
      /\ r.pending /\ child = None /\ active = proc.op
  BY <1>1, AtWork DEF Working
<1>3. CASE UNCHANGED output /\ Raise
  BY <1>1, <1>3, Raised DEF Same, refs
<1>4. CASE UNCHANGED output /\ Goto("advance")
  <2>1. proc.lease \in Packs /\ keep[proc.op] = proc.lease BY <1>1 DEF Inv, HeldInv
  <2>2. UNCHANGED Same BY <1>1, <1>4 DEF Same, refs
  <2> QED BY <1>1, <1>2, <1>4, <2>1, <2>2, Walk DEF Pcs, Working, HeldInv, files, objects
<1>5. CASE /\ output[proc.op] = r.outs /\ r.outs < stored[proc.op]
           /\ output' = [output EXCEPT ![proc.op] = r.outs + 1]
           /\ Goto("advance")
  <2>1. /\ proc' \in Procs /\ proc'.op = proc.op /\ proc'.cmd = proc.cmd
        /\ proc'.pc = "advance" /\ proc'.lease = proc.lease /\ proc' # Idle
    BY <1>2, <1>5, StepTo DEF Pcs
  <2>2. Working' BY <1>1, <1>2, <2>1 DEF Working, files, history
  <2>3. ProcessInv' /\ HeldInv'
    BY <1>1, <1>2, <2>1, <2>2 DEF ProcessInv, HeldInv, objects, Inv
  <2>4. stored[proc.op] \in 0 .. Outputs /\ r.outs \in 0 .. Outputs
    BY <1>2 DEF Inv, TypeOK, ObjectTypeOK, Records
  <2>5. r.outs + 1 \in 0 .. Outputs /\ r.outs + 1 <= stored[proc.op]
        /\ r.outs + 1 \in {r.outs} \cup {i \in {r.outs + 1} : r.pending}
    BY <1>2, <1>5, <2>4
  <2> QED BY <1>1, <1>2, <1>5, <2>1, <2>3, <2>5, OutputMoved
<1> QED BY <1>3, <1>4, <1>5 DEF SwapOutputRef

LEMMA AdvanceOutputInv == Inv /\ AdvanceOutput => Inv'
<1> SUFFICES ASSUME Inv, AdvanceOutput PROVE Inv' OBVIOUS
<1> DEFINE r == rec[proc.op]
           new == [r EXCEPT !.outs = r.outs + 1, !.pending = FALSE]
<1>1. proc # Idle /\ proc.pc = "advance" /\ proc.pc \notin StartPcs
      /\ UNCHANGED <<refs, objects, user, history, child>>
  BY DEF AdvanceOutput, Idle, StartPcs
<1>2. /\ proc.op \in Ops /\ Working /\ r \in Records /\ r.phase = "BUILDING"
      /\ r # NoRecord /\ ValidState(r) /\ r.pending
      /\ proc.lease \in Packs /\ keep[proc.op] = proc.lease
  BY <1>1, AtWork DEF Working, Inv, HeldInv
<1>3. new.phase = "BUILDING" /\ new.next = "BUILD_OUTPUT"
  BY <1>2 DEF Records, ValidState
<1>4. ~PastBuild(new) /\ ~Restoring(new) /\ ~Restoring(r)
  BY <1>2, <1>3 DEF PastBuild, Restoring, ValidState
<1>5. AllowedBranchTips(proc.op, r) \subseteq AllowedBranchTips(proc.op, new)
  BY <1>2 DEF AllowedBranchTips
<1> HIDE DEF new
<1>6. ASSUME proc' \in Procs, proc'.op = proc.op, proc'.cmd = proc.cmd,
             proc'.pc = "outputs", proc'.lease = proc.lease,
             rec'[proc.op] = new, active' = proc.op, UNCHANGED objects
      PROVE  Working' /\ HeldInv'
  BY <1>2, <1>3, <1>6 DEF Working, HeldInv, objects
<1>7. Update(proc.op, new, "outputs") BY DEF AdvanceOutput, new
<1> QED BY <1>1, <1>4, <1>5, <1>6, <1>7, Updated DEF Pcs

LEMMA ReleaseLeaseInv == Inv /\ ReleaseLease => Inv'
<1> SUFFICES ASSUME Inv, ReleaseLease PROVE Inv' OBVIOUS
<1> DEFINE r == rec[proc.op]
<1>1. proc # Idle /\ proc.pc = "release" /\ proc.pc \notin StartPcs
      /\ UNCHANGED <<refs, files, user, history, child>>
  BY DEF ReleaseLease, Idle, StartPcs
<1>2. /\ proc \in Procs /\ proc.op \in Ops /\ Working /\ r \in Records /\ r # NoRecord
      /\ child = None /\ active = proc.op
      /\ Restoring(r) \/ (r.phase = "BUILDING" /\ r.outs = Outputs)
      /\ proc.lease \in Packs /\ keep[proc.op] \in {None, proc.lease}
  BY <1>1, AtWork DEF Working, Inv, HeldInv
<1>3. CASE Released(proc.op, proc.lease) /\ UNCHANGED objects
           /\ Goto(IF Restoring(r) THEN "close" ELSE "built")
  <2>1. keep[proc.op] = None BY <1>2, <1>3 DEF Released
  <2>2. CASE Restoring(r) /\ Goto("close")
    BY <1>1, <1>2, <1>3, <2>1, <2>2, Walk DEF Pcs, Working, HeldInv, Same, files, objects, history
  <2>3. CASE ~Restoring(r) /\ Goto("built")
    BY <1>1, <1>2, <1>3, <2>1, <2>3, Walk DEF Pcs, Working, HeldInv, Same, files, objects, history
  <2> QED BY <1>3, <2>2, <2>3
<1>4. ASSUME ObjectTypeOK', UNCHANGED <<proc, stored>>, keep'[proc.op] \in {None, proc.lease},
             \A o \in Ops : keep'[o] \in {None, keep[o]}
      PROVE  Inv'
  <2> USE <1>1, <1>2, <1>4 DEF Inv, refs, files, user, history
  <2>1. TypeOK'
    <3>1. \A o \in Ops : (rec[o] = NoRecord \/ ValidState(rec[o]))' BY DEF TypeOK, ValidState
    <3> QED BY <3>1 DEF TypeOK
  <2>2. Working' BY DEF Working
  <2>3. ProcessInv' /\ HeldInv' BY <2>2 DEF ProcessInv, HeldInv
  <2>4. FilesInv' /\ LeaseInv' /\ StoredInv' BY DEF FilesInv, LeaseInv, StoredInv, PastBuild
  <2>5. HistoryInv' /\ OwnedInv'
    BY DEF HistoryInv, OwnedInv, OutputRefMatches, AllowedBranchTips, Rewritten, Restoring,
           Terminal
  <2> QED BY <2>1, <2>3, <2>4, <2>5
<1>5. CASE UnlinkPriorMarker(proc.op, proc.lease) /\ UNCHANGED proc
  BY <1>2, <1>4, <1>5 DEF UnlinkPriorMarker, ObjectTypeOK, Inv, TypeOK
<1>6. CASE RenameKeep(proc.op, proc.lease) /\ UNCHANGED proc
  BY <1>2, <1>4, <1>6 DEF RenameKeep, ObjectTypeOK, Inv, TypeOK
<1>7. CASE UnlinkMarker(proc.op, proc.lease) /\ UNCHANGED proc
  BY <1>2, <1>4, <1>7 DEF UnlinkMarker, ObjectTypeOK, Inv, TypeOK
<1> QED BY <1>3, <1>5, <1>6, <1>7 DEF ReleaseLease

LEMMA FinishBuildInv == Inv /\ FinishBuild => Inv'
<1> SUFFICES ASSUME Inv, FinishBuild PROVE Inv' OBVIOUS
<1> DEFINE r == rec[proc.op]
           new == [r EXCEPT !.phase = "VERIFYING", !.next = "VERIFY_SERIES"]
<1>1. proc # Idle /\ proc.pc = "built" /\ proc.pc \notin StartPcs
      /\ UNCHANGED <<refs, objects, user, history, child>>
  BY DEF FinishBuild, Idle, StartPcs
<1>2. /\ proc.op \in Ops /\ Working /\ r \in Records /\ r.phase = "BUILDING"
      /\ keep[proc.op] = None
  BY <1>1, AtWork DEF Working, Inv, HeldInv
<1>3. new.phase = "VERIFYING" /\ new.next = "VERIFY_SERIES" BY <1>2 DEF Records
<1>4. ~Restoring(new) /\ ~Restoring(r)
      /\ AllowedBranchTips(proc.op, r) \subseteq AllowedBranchTips(proc.op, new)
  BY <1>1, <1>2, <1>3, AtWork DEF Restoring, ValidState, AllowedNext, AllowedBranchTips
<1> HIDE DEF new
<1>5. ASSUME proc' \in Procs, proc'.op = proc.op, proc'.cmd = proc.cmd,
             proc'.pc = "verify", rec'[proc.op] = new, active' = proc.op
      PROVE  Working' /\ HeldInv'
  BY <1>2, <1>3, <1>5 DEF Working, HeldInv
<1>6. Update(proc.op, new, "verify") BY DEF FinishBuild, new
<1> QED BY <1>1, <1>2, <1>4, <1>5, <1>6, Updated DEF Pcs

LEMMA VerifyInv == Inv /\ Verify => Inv'
<1> SUFFICES ASSUME Inv, Verify PROVE Inv' OBVIOUS
<1>1. proc # Idle /\ proc.pc = "verify" /\ proc.pc \notin StartPcs /\ UNCHANGED Same
  BY DEF Verify, Idle, Same, StartPcs
<1>2. proc \in Procs /\ proc.op \in Ops /\ Working /\ child = None
  BY <1>1, AtWork
<1>3. CASE proc' = [proc EXCEPT !.stamp = 0, !.pc = "stamp"]
  <2>1. /\ proc' \in Procs /\ proc'.op = proc.op /\ proc'.cmd = proc.cmd /\ proc'.pc = "stamp"
    <3>1. 0 \in 0 .. Outputs /\ "stamp" \in Pcs BY DEF Pcs
    <3> QED BY <1>2, <1>3, <3>1 DEF Procs
  <2>2. Working' BY <1>1, <1>2, <2>1 DEF Working, Same, files
  <2>3. ProcessInv' /\ HeldInv' BY <1>1, <1>2, <2>1, <2>2 DEF ProcessInv, HeldInv, Same
  <2> QED BY <1>1, <2>1, <2>3, Quiet
<1>4. CASE Raise BY <1>1, <1>4, Raised
<1> QED BY <1>3, <1>4 DEF Verify

LEMMA StampInv == Inv /\ Stamp => Inv'
<1> SUFFICES ASSUME Inv, Stamp PROVE Inv' OBVIOUS
<1> DEFINE r == rec[proc.op]
           new == [r EXCEPT !.verified = proc.stamp + 1]
<1>1. proc # Idle /\ proc.pc = "stamp" /\ proc.pc \notin StartPcs
      /\ UNCHANGED <<refs, objects, user, history, child>>
  BY DEF Stamp, Idle, StartPcs
<1>2. /\ proc \in Procs /\ proc.op \in Ops /\ Working /\ r \in Records
      /\ r.phase = "VERIFYING" /\ child = None /\ active = proc.op /\ rec \in [Ops -> Records \cup {NoRecord}]
      /\ ValidState(r)
  BY <1>1, AtWork DEF Working, Inv, TypeOK
<1>3. CASE proc.stamp < Outputs /\ Write(proc.op, new) /\ proc' = [proc EXCEPT !.stamp = @ + 1]
  <2>1. new.phase = "VERIFYING" /\ new.next = "VERIFY_SERIES" /\ new.outs = r.outs
    BY <1>2 DEF Records, ValidState, AllowedNext
  <2>2. ~Restoring(new) /\ ~Restoring(r)
        /\ AllowedBranchTips(proc.op, r) \subseteq AllowedBranchTips(proc.op, new)
    BY <1>2, <2>1 DEF Restoring, ValidState, AllowedNext, AllowedBranchTips
  <2>3. /\ proc' \in Procs /\ proc'.op = proc.op /\ proc'.cmd = proc.cmd /\ proc'.pc = "stamp"
    BY <1>1, <1>2, <1>3 DEF Procs
  <2>4. rec'[proc.op] = new /\ active' = active BY <1>2, <1>3 DEF Write
  <2>5. PastBuild(new) => keep[proc.op] = None
    BY <1>2 DEF Inv, LeaseInv, PastBuild
  <2> HIDE DEF new
  <2>6. Working' BY <1>1, <1>2, <2>1, <2>3, <2>4 DEF Working
  <2>7. ProcessInv' /\ HeldInv' BY <1>1, <1>2, <2>3, <2>6 DEF ProcessInv, HeldInv
  <2>8. Write(proc.op, new) BY <1>3 DEF new
  <2> QED BY <1>1, <1>2, <2>2, <2>3, <2>5, <2>7, <2>8, Checkpoint DEF history
<1>4. CASE Raise /\ UNCHANGED files BY <1>1, <1>4, Raised DEF Same
<1>5. CASE Goto("prove") /\ UNCHANGED files
  BY <1>1, <1>2, <1>5, Walk DEF Pcs, Working, HeldInv, files, Same
<1> QED BY <1>3, <1>4, <1>5 DEF Stamp

LEMMA WriteVerificationInv == Inv /\ WriteVerification => Inv'
<1> SUFFICES ASSUME Inv, WriteVerification PROVE Inv' OBVIOUS
<1>1. proc # Idle /\ proc.pc = "prove" /\ proc.pc \notin StartPcs /\ Goto("ready")
      /\ proof' = proof \cup {proc.op}
      /\ UNCHANGED <<refs, plan, rec, active, latest, objects, user, history, child>>
  BY DEF WriteVerification, Idle, StartPcs
<1>2. /\ proc \in Procs /\ proc.op \in Ops /\ Working /\ child = None
  BY <1>1, AtWork
<1>3. /\ proc' \in Procs /\ proc'.op = proc.op /\ proc'.cmd = proc.cmd /\ proc'.pc = "ready"
  BY <1>1, <1>2, StepTo DEF Pcs
<1> USE DEF Inv, refs, objects, user, history
<1>4. TypeOK'
  <2>1. \A o \in Ops : (rec[o] = NoRecord \/ ValidState(rec[o]))'
    BY <1>1 DEF TypeOK, ValidState
  <2> QED BY <1>1, <1>2, <1>3, <2>1 DEF TypeOK, ObjectTypeOK
<1>5. Working' BY <1>1, <1>2, <1>3 DEF Working
<1>6. ProcessInv' /\ HeldInv' BY <1>1, <1>2, <1>3, <1>5 DEF ProcessInv, HeldInv
<1>7. FilesInv' BY <1>1, <1>2 DEF FilesInv
<1>8. LeaseInv' /\ StoredInv' /\ HistoryInv' /\ OwnedInv'
  BY <1>1 DEF LeaseInv, StoredInv, HistoryInv, OwnedInv, OutputRefMatches, AllowedBranchTips,
     Rewritten, Restoring, Terminal, PastBuild
<1> QED BY <1>4, <1>6, <1>7, <1>8

LEMMA MakeReadyInv == Inv /\ MakeReady => Inv'
<1> SUFFICES ASSUME Inv, MakeReady PROVE Inv' OBVIOUS
<1> DEFINE r == rec[proc.op]
           new == [r EXCEPT !.phase = "READY_TO_UPDATE", !.next = "UPDATE_BRANCH",
                            !.verified = Outputs, !.digest = TRUE]
<1>1. proc # Idle /\ proc.pc = "ready" /\ proc.pc \notin StartPcs
      /\ UNCHANGED <<refs, objects, user, history, child>>
  BY DEF MakeReady, Idle, StartPcs
<1>2. /\ proc.op \in Ops /\ Working /\ r \in Records /\ r.phase = "VERIFYING" /\ ValidState(r)
  BY <1>1, AtWork DEF Working
<1>3. new.phase = "READY_TO_UPDATE" /\ new.next = "UPDATE_BRANCH" BY <1>2 DEF Records
<1>4. ~Restoring(new) /\ ~Restoring(r)
      /\ AllowedBranchTips(proc.op, r) \subseteq AllowedBranchTips(proc.op, new)
  BY <1>2, <1>3 DEF Restoring, ValidState, AllowedNext, AllowedBranchTips
<1>5. keep[proc.op] = None BY <1>2 DEF Inv, LeaseInv, PastBuild
<1> HIDE DEF new
<1>6. ASSUME proc' \in Procs, proc'.op = proc.op, proc'.cmd = proc.cmd,
             proc'.pc = "finalize", rec'[proc.op] = new, active' = proc.op
      PROVE  Working' /\ HeldInv'
  BY <1>2, <1>3, <1>6 DEF Working, HeldInv
<1>7. Update(proc.op, new, "finalize") BY DEF MakeReady, new
<1> QED BY <1>1, <1>4, <1>5, <1>6, <1>7, Updated DEF Pcs

LEMMA RequireFinalReadyInv == Inv /\ RequireFinalReady => Inv'
<1> SUFFICES ASSUME Inv, RequireFinalReady PROVE Inv' OBVIOUS
<1>1. proc # Idle /\ proc.pc = "finalize" /\ proc.pc \notin StartPcs /\ UNCHANGED Same
  BY DEF RequireFinalReady, Idle, Same, StartPcs
<1>2. CASE Goto("compare")
  BY <1>1, <1>2, Walk DEF Pcs, Working, HeldInv, files
<1>3. CASE Raise BY <1>1, <1>3, Raised
<1> QED BY <1>2, <1>3 DEF RequireFinalReady

LEMMA CompareTipInv == Inv /\ CompareTip => Inv'
<1> SUFFICES ASSUME Inv, CompareTip PROVE Inv' OBVIOUS
<1>1. proc # Idle /\ proc.pc = "compare" /\ proc.pc \notin StartPcs /\ UNCHANGED Same
  BY DEF CompareTip, Idle, Same, StartPcs
<1>2. CASE Goto("swap")
  BY <1>1, <1>2, Walk DEF Pcs, Working, HeldInv, files
<1>3. CASE branch = Rewritten(proc.op) /\ Goto("complete")
  <2>1. proc.op \in Ops BY <1>1, AtWork
  <2>2. proc.op \in shown BY <1>3, <2>1 DEF Inv, HistoryInv
  <2> QED BY <1>1, <1>3, <2>2, Walk DEF Pcs, Working, HeldInv, files, history
<1>4. CASE Raise BY <1>1, <1>4, Raised
<1> QED BY <1>2, <1>3, <1>4 DEF CompareTip

LEMMA MarkCompleteInv == Inv /\ MarkComplete => Inv'
<1> SUFFICES ASSUME Inv, MarkComplete PROVE Inv' OBVIOUS
<1> DEFINE r == rec[proc.op]
           new == [r EXCEPT !.phase = "COMPLETE", !.next = "NONE"]
<1>1. proc # Idle /\ proc.pc = "complete" /\ proc.pc \notin StartPcs
      /\ UNCHANGED <<refs, objects, user, history, child>>
  BY DEF MarkComplete, Idle, StartPcs
<1>2. /\ proc.op \in Ops /\ Working /\ r \in Records /\ r.phase = "READY_TO_UPDATE"
  BY <1>1, AtWork DEF Working
<1>3. new.phase = "COMPLETE" /\ new.next = "NONE" BY <1>2 DEF Records
<1>4. ~Restoring(new) /\ Terminal(new) BY <1>3 DEF Restoring, Terminal
<1>5. keep[proc.op] = None BY <1>2 DEF Inv, LeaseInv, PastBuild
<1> HIDE DEF new
<1>6. ASSUME proc' \in Procs, proc'.op = proc.op, proc'.cmd = proc.cmd,
             proc'.pc = "latest", rec'[proc.op] = new, active' = proc.op
      PROVE  Working' /\ HeldInv'
  BY <1>2, <1>4, <1>6 DEF Working, HeldInv, Terminal
<1>7. Update(proc.op, new, "latest") BY DEF MarkComplete, new
<1> QED BY <1>1, <1>4, <1>5, <1>6, <1>7, Updated DEF Pcs

\* The two pointers of an operation that is over.
LEMMA PointLatestInv == Inv /\ PointLatest => Inv'
<1> SUFFICES ASSUME Inv, PointLatest PROVE Inv' OBVIOUS
<1>1. proc # Idle /\ proc.pc = "latest" /\ proc.pc \notin StartPcs /\ Goto("deactivate")
      /\ latest' = proc.op
      /\ UNCHANGED <<refs, plan, rec, proof, active, objects, user, history, child>>
  BY DEF PointLatest, Idle, StartPcs
<1>2. /\ proc \in Procs /\ proc.op \in Ops /\ Working /\ child = None /\ Terminal(rec[proc.op])
  BY <1>1, AtWork DEF Working
<1>3. /\ proc' \in Procs /\ proc'.op = proc.op /\ proc'.cmd = proc.cmd
      /\ proc'.pc = "deactivate"
  BY <1>1, <1>2, StepTo DEF Pcs
<1> USE DEF Inv, refs, objects, user, history
<1>4. TypeOK'
  <2>1. \A o \in Ops : (rec[o] = NoRecord \/ ValidState(rec[o]))'
    BY <1>1 DEF TypeOK, ValidState
  <2> QED BY <1>1, <1>2, <1>3, <2>1 DEF TypeOK, ObjectTypeOK
<1>5. Working' BY <1>1, <1>2, <1>3 DEF Working, Terminal
<1>6. ProcessInv' /\ HeldInv' BY <1>1, <1>2, <1>3, <1>5 DEF ProcessInv, HeldInv
<1>7. FilesInv' BY <1>1, <1>2 DEF FilesInv, Terminal
<1>8. LeaseInv' /\ StoredInv' /\ HistoryInv' /\ OwnedInv'
  BY <1>1 DEF LeaseInv, StoredInv, HistoryInv, OwnedInv, OutputRefMatches, AllowedBranchTips,
     Rewritten, Restoring, Terminal, PastBuild
<1> QED BY <1>4, <1>6, <1>7, <1>8

LEMMA DeactivateInv == Inv /\ Deactivate => Inv'
<1> SUFFICES ASSUME Inv, Deactivate PROVE Inv' OBVIOUS
<1>1. proc # Idle /\ proc.pc = "deactivate" /\ proc.pc \notin StartPcs
      /\ proc' = Idle /\ active' = None
      /\ UNCHANGED <<refs, plan, rec, proof, latest, objects, user, history, child>>
  BY DEF Deactivate, Idle, StartPcs
<1>2. /\ proc.op \in Ops /\ child = None /\ active = proc.op /\ Terminal(rec[proc.op])
      /\ rec[proc.op] # NoRecord /\ rec[proc.op] \in Records
  BY <1>1, AtWork DEF Working
<1> USE DEF Inv, refs, objects, user, history
<1>3. TypeOK'
  <2>1. \A o \in Ops : (rec[o] = NoRecord \/ ValidState(rec[o]))'
    BY <1>1 DEF TypeOK, ValidState
  <2>2. proc' \in Procs BY <1>1 DEF Procs, Pcs, Idle
  <2> QED BY <1>1, <2>1, <2>2 DEF TypeOK, ObjectTypeOK
<1>4. ProcessInv' /\ HeldInv' BY <1>1 DEF ProcessInv, HeldInv
<1>5. FilesInv' BY <1>1, <1>2, UserCommitsAssumption DEF FilesInv, Terminal
<1>6. LeaseInv'
  <2>1. PastBuild(rec[proc.op]) BY <1>2 DEF PastBuild, Terminal
  <2> QED BY <1>1, <1>2, <2>1, UserCommitsAssumption DEF LeaseInv, PastBuild
<1>7. StoredInv' /\ HistoryInv' /\ OwnedInv'
  BY <1>1, UserCommitsAssumption DEF StoredInv, HistoryInv, OwnedInv, Rewritten, Restoring
<1> QED BY <1>3, <1>4, <1>5, <1>6, <1>7

\* The pause that a failure leaves behind resumes where it happened.
LEMMA PauseKeepsNext ==
  ASSUME NEW r \in Records, ValidState(r), ~Terminal(r)
  PROVE  LET new == [r EXCEPT !.phase = "PAUSED", !.next = NextAfterFailure(r)] IN
           /\ new.phase = "PAUSED" /\ new.outs = r.outs
           /\ \/ r.phase \in {"PREPARED", "BUILDING"} /\ new.next = "BUILD_OUTPUT"
              \/ r.phase = "VERIFYING" /\ new.next = "VERIFY_SERIES"
              \/ r.phase = "READY_TO_UPDATE" /\ new.next = "UPDATE_BRANCH"
              \/ r.phase = "PAUSED" /\ new.next = r.next
           /\ Restoring(new) <=> Restoring(r)
<1> DEFINE new == [r EXCEPT !.phase = "PAUSED", !.next = NextAfterFailure(r)]
<1>1. new.phase = "PAUSED" /\ new.next = NextAfterFailure(r) /\ new.outs = r.outs
  BY DEF Records
<1>2. \/ r.phase \in {"PREPARED", "BUILDING"} /\ new.next = "BUILD_OUTPUT"
      \/ r.phase = "VERIFYING" /\ new.next = "VERIFY_SERIES"
      \/ r.phase = "READY_TO_UPDATE" /\ new.next = "UPDATE_BRANCH"
      \/ r.phase = "PAUSED" /\ new.next = r.next
  BY <1>1 DEF NextAfterFailure, Records, Phases, Terminal
<1>3. new # NoRecord /\ r # NoRecord
  <2>1. r.phase # "none" BY DEF Records, Phases
  <2> HIDE DEF new
  <2> QED BY <1>1, <2>1 DEF NoRecord
<1>4. r.next = "RESTORE_ORIGINAL" <=> new.next = "RESTORE_ORIGINAL"
  BY <1>2 DEF ValidState, AllowedNext
<1>5. Restoring(new) <=> Restoring(r)
  <2> HIDE DEF new
  <2> QED BY <1>3, <1>4 DEF Restoring
<1> QED BY <1>1, <1>2, <1>5

LEMMA PauseAfterFailureInv == Inv /\ PauseAfterFailure => Inv'
<1> SUFFICES ASSUME Inv, PauseAfterFailure PROVE Inv' OBVIOUS
<1> DEFINE r == rec[proc.op]
           new == [r EXCEPT !.phase = "PAUSED", !.next = NextAfterFailure(r)]
<1>1. proc # Idle /\ proc.pc = "pause" /\ proc.pc \notin StartPcs /\ proc' = Idle
      /\ UNCHANGED <<refs, objects, user, history, child>>
  BY DEF PauseAfterFailure, Idle, StartPcs
<1>2. /\ proc.op \in Ops /\ r \in Records /\ ValidState(r) /\ child = None
      /\ active = proc.op
  BY <1>1, AtWork
<1>3. proc' \in Procs /\ ProcessInv' /\ HeldInv'
  BY <1>1 DEF ProcessInv, HeldInv, Procs, Pcs, Idle
<1>4. CASE ~Terminal(r) /\ Write(proc.op, new)
  <2>2. /\ new.phase = "PAUSED" /\ new.outs = r.outs
        /\ \/ r.phase \in {"PREPARED", "BUILDING"} /\ new.next = "BUILD_OUTPUT"
           \/ r.phase = "VERIFYING" /\ new.next = "VERIFY_SERIES"
           \/ r.phase = "READY_TO_UPDATE" /\ new.next = "UPDATE_BRANCH"
           \/ r.phase = "PAUSED" /\ new.next = r.next
        /\ Restoring(new) <=> Restoring(r)
    BY <1>2, <1>4, PauseKeepsNext
  <2>3. PastBuild(new) => PastBuild(r) BY <2>2 DEF PastBuild
  <2>5. AllowedBranchTips(proc.op, r) \subseteq AllowedBranchTips(proc.op, new)
    BY <1>2, <2>2 DEF AllowedBranchTips
  <2>6. PastBuild(new) => keep[proc.op] = None BY <1>2, <2>3 DEF Inv, LeaseInv
  <2>7. Restoring(new) /\ branch = plan[proc.op] => proc.op \in returned
    BY <1>2, <2>2 DEF Inv, HistoryInv
  <2> HIDE DEF new
  <2> QED BY <1>1, <1>2, <1>3, <1>4, <2>2, <2>5, <2>6, <2>7, Checkpoint DEF history
<1>5. CASE UNCHANGED files
  BY <1>1, <1>3, <1>5, Quiet DEF Same
<1> QED BY <1>4, <1>5 DEF PauseAfterFailure

\* The branch is swapped by a command that owns both tips.
LEMMA BranchSwapped ==
  ASSUME Inv, NEW op \in Ops, NEW c \in Commits, active = op, rec[op] # NoRecord,
         child = None, branch' = c, Observe,
         UNCHANGED <<recovery, output, files, objects, user, child>>,
         ~Restoring(rec[op]) => c \in AllowedBranchTips(op, rec[op]),
         proc' \in Procs, ProcessInv', HeldInv'
  PROVE  Inv'
<1> USE DEF Inv, files, objects, user
<1>1. TypeOK'
  <2>1. \A o \in Ops : (rec[o] = NoRecord \/ ValidState(rec[o]))'
    BY DEF TypeOK, ValidState
  <2> QED BY <2>1 DEF TypeOK, ObjectTypeOK
<1>2. FilesInv' BY DEF FilesInv
<1>3. LeaseInv' /\ StoredInv' BY DEF LeaseInv, StoredInv, PastBuild
<1>4. HistoryInv' BY DEF HistoryInv, Observe, Rewritten, Restoring
<1>5. OwnedInv'
  BY DEF OwnedInv, OutputRefMatches, AllowedBranchTips, Rewritten, Restoring, Terminal
<1> QED BY <1>1, <1>2, <1>3, <1>4, <1>5

LEMMA SwapBranchInv == Inv /\ SwapBranch => Inv'
<1> SUFFICES ASSUME Inv, SwapBranch PROVE Inv' OBVIOUS
<1>1. proc # Idle /\ proc.pc = "swap" /\ proc.pc \notin StartPcs
      /\ UNCHANGED <<recovery, output, objects, user, child>>
  BY DEF SwapBranch, Idle, StartPcs
<1>2. /\ proc \in Procs /\ proc.op \in Ops /\ Working /\ child = None /\ active = proc.op
      /\ rec[proc.op] # NoRecord /\ rec[proc.op].phase = "READY_TO_UPDATE"
      /\ ValidState(rec[proc.op])
  BY <1>1, AtWork DEF Working
<1>3. CASE /\ branch' = Rewritten(proc.op) /\ Goto("complete") /\ UNCHANGED files
           /\ Observe
  <2>1. /\ proc' \in Procs /\ proc'.op = proc.op /\ proc'.cmd = proc.cmd
        /\ proc'.pc = "complete"
    BY <1>2, <1>3, StepTo DEF Pcs
  <2>2. proc.op \in shown' BY <1>2, <1>3 DEF Observe
  <2>3. Working' BY <1>1, <1>2, <1>3, <2>1, <2>2 DEF Working, files
  <2>4. ProcessInv' /\ HeldInv' BY <1>1, <1>2, <2>1, <2>3 DEF ProcessInv, HeldInv
  <2>5. Rewritten(proc.op) \in Commits BY <1>2 DEF Rewritten, Commits
  <2>6. Rewritten(proc.op) \in AllowedBranchTips(proc.op, rec[proc.op])
    BY <1>2 DEF AllowedBranchTips, ValidState
  <2> QED BY <1>1, <1>2, <1>3, <2>1, <2>4, <2>5, <2>6, BranchSwapped
<1>4. CASE Raise /\ UNCHANGED <<branch, files, history>>
  BY <1>1, <1>4, Raised DEF Same, refs
<1> QED BY <1>3, <1>4 DEF SwapBranch, CompareAndSwapBranch

-----------------------------------------------------------------------------
(* rewrite abort. *)

LEMMA RequireOwnedInv == Inv /\ RequireOwned => Inv'
<1> SUFFICES ASSUME Inv, RequireOwned PROVE Inv' OBVIOUS
<1>1. proc # Idle /\ proc.pc = "abort" /\ proc.pc \notin StartPcs /\ UNCHANGED Same
  BY DEF RequireOwned, Idle, Same, StartPcs
<1>2. CASE Terminal(rec[proc.op]) /\ Goto("latest")
  BY <1>1, <1>2, Walk DEF Pcs, Working, HeldInv, files, Terminal
<1>3. CASE Raise BY <1>1, <1>3, Raised
<1>4. CASE ~Terminal(rec[proc.op]) /\ rec[proc.op].pending /\ Goto("retract")
  BY <1>1, <1>4, Walk DEF Pcs, Working, HeldInv, files, Terminal
<1>5. CASE ~Terminal(rec[proc.op]) /\ ~rec[proc.op].pending /\ Goto("intend")
  BY <1>1, <1>5, Walk DEF Pcs, Working, HeldInv, files, Terminal
<1> QED BY <1>2, <1>3, <1>4, <1>5 DEF RequireOwned

LEMMA RetractOutputRefInv == Inv /\ RetractOutputRef => Inv'
<1> SUFFICES ASSUME Inv, RetractOutputRef PROVE Inv' OBVIOUS
<1> DEFINE r == rec[proc.op]
<1>1. proc # Idle /\ proc.pc = "retract" /\ proc.pc \notin StartPcs
      /\ UNCHANGED <<branch, recovery, files, objects, user, history, child>>
  BY DEF RetractOutputRef, Idle, StartPcs
<1>2. /\ proc \in Procs /\ proc.op \in Ops /\ Working /\ child = None /\ active = proc.op
      /\ r \in Records /\ r # NoRecord /\ r.pending /\ ~Terminal(r) /\ ValidState(r)
  BY <1>1, AtWork DEF Working
<1>3. CASE UNCHANGED output /\ Raise
  BY <1>1, <1>3, Raised DEF Same, refs
<1>4. CASE /\ output[proc.op] \in {r.outs, r.outs + 1}
           /\ output' = [output EXCEPT ![proc.op] = r.outs]
           /\ Goto("retracted")
  <2>1. /\ proc' \in Procs /\ proc'.op = proc.op /\ proc'.cmd = proc.cmd
        /\ proc'.pc = "retracted"
    BY <1>2, <1>4, StepTo DEF Pcs
  <2>2. Working' BY <1>1, <1>2, <2>1 DEF Working, files, Terminal
  <2>3. ProcessInv' /\ HeldInv' BY <1>1, <1>2, <2>1, <2>2 DEF ProcessInv, HeldInv
  <2>4. r.outs \in 0 .. Outputs /\ stored[proc.op] \in 0 .. Outputs /\ r.outs < Outputs
    BY <1>2 DEF Inv, TypeOK, ObjectTypeOK, Records, ValidState
  <2>5. output[proc.op] # Foreign /\ output[proc.op] <= stored[proc.op]
    BY <1>2, <1>4, <2>4 DEF Inv, StoredInv, Foreign
  <2>6. r.outs <= stored[proc.op] BY <1>4, <2>4, <2>5
  <2> QED BY <1>1, <1>2, <1>4, <2>1, <2>3, <2>4, <2>6, OutputMoved
<1> QED BY <1>3, <1>4 DEF RetractOutputRef

LEMMA ForgetPendingInv == Inv /\ ForgetPending => Inv'
<1> SUFFICES ASSUME Inv, ForgetPending PROVE Inv' OBVIOUS
<1> DEFINE r == rec[proc.op]
           new == [r EXCEPT !.pending = FALSE]
<1>1. proc # Idle /\ proc.pc = "retracted" /\ proc.pc \notin StartPcs
      /\ UNCHANGED <<refs, objects, user, history, child>>
  BY DEF ForgetPending, Idle, StartPcs
<1>2. /\ proc.op \in Ops /\ Working /\ r \in Records /\ ValidState(r) /\ ~Terminal(r)
      /\ r.pending
  BY <1>1, AtWork DEF Working
<1>3. new.phase = r.phase /\ new.next = "BUILD_OUTPUT" /\ ~new.pending
      /\ r.phase \in {"BUILDING", "PAUSED"} /\ r.next = "BUILD_OUTPUT"
      /\ new.outs = r.outs
  BY <1>2 DEF Records, ValidState
<1>4. ~PastBuild(new) /\ ~Restoring(new) /\ ~Restoring(r) /\ ~Terminal(new)
  BY <1>3 DEF PastBuild, Restoring, Terminal
<1>5. AllowedBranchTips(proc.op, r) \subseteq AllowedBranchTips(proc.op, new)
  BY <1>3 DEF AllowedBranchTips
<1> HIDE DEF new
<1>6. ASSUME proc' \in Procs, proc'.op = proc.op, proc'.cmd = proc.cmd,
             proc'.pc = "intend", rec'[proc.op] = new, active' = proc.op
      PROVE  Working' /\ HeldInv'
  BY <1>2, <1>3, <1>4, <1>6 DEF Working, HeldInv, Terminal
<1>7. Update(proc.op, new, "intend") BY DEF ForgetPending, new
<1> QED BY <1>1, <1>4, <1>5, <1>6, <1>7, Updated DEF Pcs

LEMMA PersistIntentInv == Inv /\ PersistIntent => Inv'
<1> SUFFICES ASSUME Inv, PersistIntent PROVE Inv' OBVIOUS
<1> DEFINE r == rec[proc.op]
           new == [r EXCEPT !.phase = "PAUSED", !.next = "RESTORE_ORIGINAL"]
<1>1. proc # Idle /\ proc.pc = "intend" /\ proc.pc \notin StartPcs
      /\ UNCHANGED <<refs, objects, user, child>>
  BY DEF PersistIntent, Idle, StartPcs
<1>2. /\ proc \in Procs /\ proc.op \in Ops /\ Working /\ r \in Records
      /\ child = None /\ active = proc.op /\ rec \in [Ops -> Records \cup {NoRecord}]
  BY <1>1, AtWork DEF Inv, TypeOK
<1>3. CASE ~CanUpdate(proc.op, new) /\ Raise /\ UNCHANGED <<files, history>>
  BY <1>1, <1>3, Raised DEF Same
<1>4. CASE Write(proc.op, new) /\ Goto("restore") /\ Observe
  <2>1. /\ proc' \in Procs /\ proc'.op = proc.op /\ proc'.cmd = proc.cmd
        /\ proc'.pc = "restore" /\ proc' # Idle
    BY <1>2, <1>4, StepTo DEF Pcs
  <2>2. new.phase = "PAUSED" /\ new.next = "RESTORE_ORIGINAL" BY <1>2 DEF Records
  <2>3. ~PastBuild(new) /\ Restoring(new) BY <2>2 DEF PastBuild, Restoring, NoRecord
  <2>4. rec'[proc.op] = new /\ active' = active /\ plan' = plan
    BY <1>2, <1>4 DEF Write
  <2> HIDE DEF new
  <2>5. Working' BY <1>2, <2>1, <2>3, <2>4 DEF Working
  <2>6. ProcessInv' /\ HeldInv' BY <1>1, <1>2, <2>1, <2>5 DEF ProcessInv, HeldInv
  <2>7. shown \subseteq shown' /\ returned \subseteq returned' BY <1>4 DEF Observe
  <2>8. branch = plan[proc.op] => proc.op \in returned'
    BY <1>1, <1>2, <1>4, <2>3, <2>4 DEF Observe, refs
  <2>9. Write(proc.op, new) BY <1>4 DEF new
  <2> QED BY <1>1, <1>2, <2>1, <2>3, <2>6, <2>7, <2>8, <2>9, Checkpoint
<1> QED BY <1>3, <1>4 DEF PersistIntent

LEMMA CompareRestoredInv == Inv /\ CompareRestored => Inv'
<1> SUFFICES ASSUME Inv, CompareRestored PROVE Inv' OBVIOUS
<1>1. proc # Idle /\ proc.pc = "restore" /\ proc.pc \notin StartPcs /\ UNCHANGED Same
  BY DEF CompareRestored, Idle, Same, StartPcs
<1>2. proc.op \in Ops /\ Restoring(rec[proc.op]) BY <1>1, AtWork DEF Working
<1>3. CASE branch = plan[proc.op] /\ Goto("adopt")
  <2>1. proc.op \in returned BY <1>2, <1>3 DEF Inv, HistoryInv
  <2> QED BY <1>1, <1>3, <2>1, Walk DEF Pcs, Working, HeldInv, files, history
<1>4. CASE WasFinalized(rec[proc.op]) /\ Goto("swap_back")
  BY <1>1, <1>4, Walk DEF Pcs, Working, HeldInv, files, WasFinalized
<1>5. CASE Raise BY <1>1, <1>5, Raised
<1> QED BY <1>3, <1>4, <1>5 DEF CompareRestored

LEMMA SwapBranchBackInv == Inv /\ SwapBranchBack => Inv'
<1> SUFFICES ASSUME Inv, SwapBranchBack PROVE Inv' OBVIOUS
<1>1. proc # Idle /\ proc.pc = "swap_back" /\ proc.pc \notin StartPcs
      /\ UNCHANGED <<recovery, output, objects, user, child>>
  BY DEF SwapBranchBack, Idle, StartPcs
<1>2. /\ proc \in Procs /\ proc.op \in Ops /\ Working /\ child = None /\ active = proc.op
      /\ rec[proc.op] # NoRecord /\ Restoring(rec[proc.op]) /\ plan[proc.op] # None
  BY <1>1, AtWork DEF Working
<1>3. CASE /\ branch' = plan[proc.op] /\ Goto("adopt") /\ UNCHANGED files /\ Observe
  <2>1. /\ proc' \in Procs /\ proc'.op = proc.op /\ proc'.cmd = proc.cmd
        /\ proc'.pc = "adopt"
    BY <1>2, <1>3, StepTo DEF Pcs
  <2>2. proc.op \in returned' BY <1>2, <1>3 DEF Observe, files
  <2>3. Working' BY <1>1, <1>2, <1>3, <2>1, <2>2 DEF Working, files
  <2>4. ProcessInv' /\ HeldInv' BY <1>1, <1>2, <2>1, <2>3 DEF ProcessInv, HeldInv
  <2>5. plan[proc.op] \in Commits BY <1>2 DEF Inv, TypeOK
  <2> QED BY <1>1, <1>2, <1>3, <2>1, <2>4, <2>5, BranchSwapped
<1>4. CASE Raise /\ UNCHANGED <<branch, files, history>>
  BY <1>1, <1>4, Raised DEF Same, refs
<1> QED BY <1>3, <1>4 DEF SwapBranchBack, CompareAndSwapBranch

LEMMA AdoptLeaseInv == Inv /\ AdoptLease => Inv'
<1> SUFFICES ASSUME Inv, AdoptLease PROVE Inv' OBVIOUS
<1>1. proc # Idle /\ proc.pc = "adopt" /\ proc.pc \notin StartPcs /\ UNCHANGED Same
  <2>1. proc.pc = "adopt" /\ UNCHANGED Same BY DEF AdoptLease, Same
  <2> QED BY <2>1 DEF Idle, StartPcs
<1>2. proc \in Procs /\ proc.op \in Ops /\ Working /\ child = None
  BY <1>1, AtWork
<1>3. CASE NothingToAdopt(proc.op) /\ Goto("close")
  BY <1>1, <1>3, Walk DEF Pcs, Working, HeldInv, files, objects, history, NothingToAdopt
<1>4. ASSUME NEW p \in AdoptableLeases(proc.op),
             proc' = [proc EXCEPT !.lease = p, !.pc = "release"]
      PROVE  Inv'
  <2>1. p \in Packs /\ keep[proc.op] \in {None, p}
    BY <1>2, <1>4 DEF AdoptableLeases, Inv, TypeOK, ObjectTypeOK
  <2>2. /\ proc' \in Procs /\ proc'.op = proc.op /\ proc'.cmd = proc.cmd
        /\ proc'.pc = "release" /\ proc'.lease = p
    BY <1>2, <1>4, <2>1 DEF Procs, Pcs
  <2>3. Working' BY <1>1, <1>2, <2>2 DEF Working, Same, files, history
  <2>4. ProcessInv' /\ HeldInv'
    BY <1>1, <1>2, <2>1, <2>2, <2>3 DEF ProcessInv, HeldInv, Same, objects
  <2> QED BY <1>1, <2>2, <2>4, Quiet
<1>5. CASE Raise BY <1>1, <1>5, Raised
<1> QED BY <1>3, <1>4, <1>5 DEF AdoptLease

LEMMA MarkAbortedInv == Inv /\ MarkAborted => Inv'
<1> SUFFICES ASSUME Inv, MarkAborted PROVE Inv' OBVIOUS
<1> DEFINE r == rec[proc.op]
           new == [r EXCEPT !.phase = "ABORTED", !.next = "NONE"]
<1>1. proc # Idle /\ proc.pc = "close" /\ proc.pc \notin StartPcs
      /\ UNCHANGED <<refs, objects, user, history, child>>
  BY DEF MarkAborted, Idle, StartPcs
<1>2. proc.op \in Ops /\ Working /\ r \in Records /\ keep[proc.op] = None
  BY <1>1, AtWork DEF Inv, HeldInv
<1>3. new.phase = "ABORTED" /\ new.next = "NONE" BY <1>2 DEF Records
<1>4. ~Restoring(new) /\ Terminal(new) BY <1>3 DEF Restoring, Terminal
<1> HIDE DEF new
<1>5. ASSUME proc' \in Procs, proc'.op = proc.op, proc'.cmd = proc.cmd,
             proc'.pc = "latest", rec'[proc.op] = new, active' = proc.op
      PROVE  Working' /\ HeldInv'
  BY <1>2, <1>4, <1>5 DEF Working, HeldInv, Terminal
<1>6. Update(proc.op, new, "latest") BY DEF MarkAborted, new
<1> QED BY <1>1, <1>2, <1>4, <1>5, <1>6, Updated DEF Pcs

-----------------------------------------------------------------------------
(* Failures. *)

LEMMA FailInv == Inv /\ Fail => Inv'
BY Raised DEF Fail, Same

LEMMA DieInv == Inv /\ Die => Inv'
<1> SUFFICES ASSUME Inv, Die PROVE Inv' OBVIOUS
<1>1. /\ proc # Idle /\ proc' = Idle
      /\ UNCHANGED <<refs, files, objects, user, history>>
  BY DEF Die
<1>2. proc' \in Procs /\ ProcessInv' /\ HeldInv'
  BY <1>1 DEF ProcessInv, HeldInv, Procs, Pcs, Idle
<1>3. CASE proc.pc = "pack" /\ child' = proc.op
  <2>1. proc.op \in Ops /\ active = proc.op /\ rec[proc.op].phase = "BUILDING"
    BY <1>1, <1>3, AtWork DEF Working, StartPcs
  <2> USE DEF Inv, refs, files, objects, user, history
  <2>2. TypeOK'
    <3>1. \A o \in Ops : (rec[o] = NoRecord \/ ValidState(rec[o]))'
      BY <1>1 DEF TypeOK, ValidState
    <3> QED BY <1>1, <1>2, <1>3, <2>1, <3>1 DEF TypeOK, ObjectTypeOK
  <2>3. FilesInv' BY <1>1, <1>3, <2>1 DEF FilesInv
  <2>4. LeaseInv' /\ HistoryInv' /\ OwnedInv' /\ StoredInv'
    BY <1>1 DEF LeaseInv, HistoryInv, OwnedInv, StoredInv, OutputRefMatches,
       AllowedBranchTips, PastBuild, Rewritten, Restoring, Terminal
  <2> QED BY <1>2, <2>2, <2>3, <2>4
<1>4. CASE child' = None
  <2>1. child = None BY <1>1 DEF Inv, ProcessInv
  <2> QED BY <1>1, <1>2, <1>4, <2>1, Quiet DEF Same
<1> QED BY <1>3, <1>4 DEF Die

LEMMA ChildEndsInv == Inv /\ ChildEnds => Inv'
<1> SUFFICES ASSUME Inv, ChildEnds PROVE Inv' OBVIOUS
<1>1. /\ child # None /\ child' = None
      /\ UNCHANGED <<refs, files, user, history, proc>>
  BY DEF ChildEnds
<1>2. /\ child \in Ops /\ active = child /\ rec[child].phase = "BUILDING" /\ proc = Idle
      /\ rec[child] # NoRecord
  BY <1>1 DEF Inv, FilesInv, TypeOK
<1> USE DEF Inv, refs, files, user, history
<1>3. ASSUME ObjectTypeOK',
             \A o \in Ops :
               /\ keep'[o] # None => stored'[o] = Outputs
               /\ (rec[o] = NoRecord \/ active # o \/ PastBuild(rec[o])) => keep'[o] = None
               /\ output[o] # Foreign => output[o] <= stored'[o]
      PROVE  Inv'
  <2>1. TypeOK'
    <3>1. \A o \in Ops : (rec[o] = NoRecord \/ ValidState(rec[o]))'
      BY <1>1 DEF TypeOK, ValidState
    <3> QED BY <1>1, <1>3, <3>1 DEF TypeOK
  <2>2. ProcessInv' /\ HeldInv' BY <1>1, <1>2 DEF ProcessInv, HeldInv, Idle
  <2>3. FilesInv' BY <1>1 DEF FilesInv
  <2>4. LeaseInv' /\ StoredInv' BY <1>1, <1>3 DEF LeaseInv, StoredInv, PastBuild
  <2>5. HistoryInv' /\ OwnedInv'
    BY <1>1 DEF HistoryInv, OwnedInv, OutputRefMatches, AllowedBranchTips, Rewritten,
       Restoring, Terminal
  <2> QED BY <2>1, <2>2, <2>3, <2>4, <2>5
<1>4. CASE \E p \in Packs : InstallPack(child, p)
  <2>1. PICK p \in Packs : InstallPack(child, p) BY <1>4
  <2> QED BY <1>2, <1>3, <2>1, Installed
<1>5. CASE UNCHANGED objects
  BY <1>3, <1>5 DEF objects, TypeOK, ObjectTypeOK, LeaseInv, StoredInv
<1> QED BY <1>4, <1>5 DEF ChildEnds

-----------------------------------------------------------------------------
(* The user and git. *)

\* Whatever someone else does to the refs, the files keep their invariant, and
\* the operation is no longer only its own.
LEMMA Meddled ==
  ASSUME Inv, UNCHANGED <<files, objects, proc, child>>, branch' \in Commits,
         head' \in BOOLEAN, safe' \in BOOLEAN, meddled' \in BOOLEAN,
         recovery' \in [Ops -> Commits \cup {None}], output' \in [Ops -> 0 .. Foreign],
         \A op \in Ops :
           /\ output'[op] = output[op] \/ (output'[op] = Foreign /\ plan[op] # None)
           /\ plan[op] = None => recovery'[op] = None,
         meddled' \/ UNCHANGED <<refs, meddled>>,
         \/ Observe
         \/ UNCHANGED <<branch, history>>
  PROVE  Inv'
<1> USE DEF Inv, files, objects
<1>1. TypeOK'
  <2>1. \A o \in Ops : (rec[o] = NoRecord \/ ValidState(rec[o]))'
    BY DEF TypeOK, ValidState
  <2> QED BY <2>1 DEF TypeOK, ObjectTypeOK
<1>2. shown \subseteq shown' /\ returned \subseteq returned' BY DEF Observe, history
<1>3. ProcessInv'
  <2>1. ASSUME proc.op \in Ops, Starting PROVE Starting'
    BY <2>1 DEF Starting, refs
  <2>2. ASSUME proc.op \in Ops, Working PROVE Working'
    BY <1>2, <2>2 DEF Working
  <2> QED BY <2>1, <2>2 DEF ProcessInv
<1>4. FilesInv' BY DEF FilesInv
<1>5. LeaseInv' /\ HeldInv' BY DEF LeaseInv, HeldInv, PastBuild
<1>6. HistoryInv'
  BY DEF HistoryInv, Observe, Rewritten, Restoring, history
<1>7. OwnedInv'
  BY DEF OwnedInv, OutputRefMatches, AllowedBranchTips, Rewritten, Restoring, Terminal, refs
<1>8. StoredInv' BY DEF StoredInv
<1> QED BY <1>1, <1>3, <1>4, <1>5, <1>6, <1>7, <1>8

LEMMA EnvironmentInv == Inv /\ Environment => Inv'
<1> SUFFICES ASSUME Inv, Environment PROVE Inv' OBVIOUS
<1>1. /\ branch \in Commits /\ recovery \in [Ops -> Commits \cup {None}]
      /\ output \in [Ops -> 0 .. Foreign]
      /\ head \in BOOLEAN /\ safe \in BOOLEAN /\ meddled \in BOOLEAN
      /\ \A op \in Ops : plan[op] = None => recovery[op] = None
  BY DEF Inv, TypeOK, FilesInv
<1>2. ASSUME MoveBranch PROVE Inv'
  <2>1. branch' \in Commits BY <1>2 DEF MoveBranch, Commits, Rewritten
  <2> QED BY <1>1, <1>2, <2>1, Meddled DEF MoveBranch, Meddle
<1>3. ASSUME MoveOperationRef PROVE Inv'
  <2>1. PICK op \in Ops :
       \/ /\ plan[op] # None
          /\ output' = [output EXCEPT ![op] = Foreign]
          /\ UNCHANGED recovery
       \/ /\ recovery[op] # None
          /\ recovery' = [recovery EXCEPT ![op] = None]
          /\ UNCHANGED output
    BY <1>3 DEF MoveOperationRef
  <2>2. Foreign \in 0 .. Foreign BY DEF Foreign
  <2>3. /\ recovery' \in [Ops -> Commits \cup {None}] /\ output' \in [Ops -> 0 .. Foreign]
        /\ \A o \in Ops :
             /\ output'[o] = output[o] \/ (output'[o] = Foreign /\ plan[o] # None)
             /\ plan[o] = None => recovery'[o] = None
    BY <1>1, <2>1, <2>2
  <2> QED BY <1>1, <1>3, <2>3, Meddled DEF MoveOperationRef, Meddle
<1>4. ASSUME CheckOut PROVE Inv'
  BY <1>1, <1>4, Meddled DEF CheckOut, Meddle, refs
<1>5. ASSUME ChangeFacts PROVE Inv'
  BY <1>1, <1>5, Meddled DEF ChangeFacts, Meddle, refs
<1>6. ASSUME Gc PROVE Inv'
  <2>1. /\ UNCHANGED <<refs, files, history, proc, child, head, safe, meddled>>
        /\ CollectGarbage(Reachable)
    BY <1>6 DEF Gc
  <2> USE DEF Inv, refs, files, history
  <2>2. ASSUME NEW o \in Ops
        PROVE  /\ Reachable(o) \in 0 .. Outputs
               /\ output[o] # Foreign => output[o] <= Reachable(o)
    BY <2>2 DEF Reachable, TypeOK, Foreign
  <2>3. ObjectTypeOK' BY <2>1, <2>2 DEF CollectGarbage, TypeOK, ObjectTypeOK
  <2>4. keep' = keep BY <2>1 DEF CollectGarbage
  <2>5. ASSUME NEW o \in Ops
        PROVE  /\ keep[o] # None => stored'[o] = stored[o]
               /\ output[o] # Foreign => output[o] <= stored'[o]
    BY <2>1, <2>2, <2>5 DEF CollectGarbage, StoredInv, TypeOK, ObjectTypeOK
  <2>6. TypeOK'
    <3>1. \A o \in Ops : (rec[o] = NoRecord \/ ValidState(rec[o]))'
      BY <2>1 DEF TypeOK, ValidState
    <3> QED BY <2>1, <2>3, <3>1 DEF TypeOK
  <2>7. ProcessInv'
    <3>1. Starting => Starting' BY <2>1 DEF Starting
    <3>2. Working => Working' BY <2>1 DEF Working
    <3> QED BY <2>1, <3>1, <3>2 DEF ProcessInv
  <2>8. FilesInv' BY <2>1 DEF FilesInv
  <2>9. LeaseInv' /\ HeldInv' /\ StoredInv'
    BY <2>1, <2>4, <2>5 DEF LeaseInv, HeldInv, StoredInv, PastBuild
  <2>10. HistoryInv' /\ OwnedInv'
    BY <2>1 DEF HistoryInv, OwnedInv, OutputRefMatches, AllowedBranchTips, Rewritten,
       Restoring, Terminal
  <2> QED BY <2>6, <2>7, <2>8, <2>9, <2>10
<1> QED BY <1>2, <1>3, <1>4, <1>5, <1>6 DEF Environment

-----------------------------------------------------------------------------
LEMMA StepInv == Inv /\ Step => Inv'
BY RequireStartFactsInv, AnchorOriginalInv, PublishDirectoryInv, InspectPublishedInv,
   ActivateInv, LoadInv, DispatchInv, PromoteInv, PackInv, NextOutputInv,
   SwapOutputRefInv, AdvanceOutputInv, ReleaseLeaseInv, FinishBuildInv, VerifyInv,
   StampInv, WriteVerificationInv, MakeReadyInv, RequireFinalReadyInv, CompareTipInv,
   SwapBranchInv, MarkCompleteInv, PointLatestInv, DeactivateInv, PauseAfterFailureInv,
   RequireOwnedInv, RetractOutputRefInv, ForgetPendingInv, PersistIntentInv,
   CompareRestoredInv, SwapBranchBackInv, AdoptLeaseInv, MarkAbortedInv
   DEF Step

LEMMA StutterInv == Inv /\ UNCHANGED vars => Inv'
<1> SUFFICES ASSUME Inv, UNCHANGED vars PROVE Inv' OBVIOUS
<1>1. UNCHANGED Same /\ UNCHANGED proc BY DEF vars, Same
<1> USE DEF Inv, Same, refs, files, objects, user, history
<1>2. proc' \in Procs BY <1>1 DEF TypeOK
<1>3. ProcessInv' /\ HeldInv'
  BY <1>1 DEF ProcessInv, HeldInv, Starting, Working, Idle
<1>4. TypeOK'
  <2>1. \A o \in Ops : (rec[o] = NoRecord \/ ValidState(rec[o]))'
    BY <1>1 DEF TypeOK, ValidState
  <2> QED BY <1>1, <2>1 DEF TypeOK, ObjectTypeOK
<1>5. FilesInv' BY <1>1 DEF FilesInv
<1>6. LeaseInv' /\ HistoryInv' /\ OwnedInv' /\ StoredInv'
  BY <1>1 DEF LeaseInv, HistoryInv, OwnedInv, StoredInv, OutputRefMatches, AllowedBranchTips,
     PastBuild, Rewritten, Restoring, Terminal
<1> QED BY <1>3, <1>4, <1>5, <1>6

\* Every step of the commands, the user and git preserves the invariant.
THEOREM Inductive == Spec => []Inv
<1>1. ASSUME Inv, BeginContinue \/ BeginAbort PROVE Inv'
  BY <1>1, BeginInv DEF BeginContinue, BeginAbort
<1>2. Inv /\ [Next]_vars => Inv'
  BY <1>1, PrepareInv, StepInv, FailInv, DieInv, ChildEndsInv, EnvironmentInv, StutterInv
     DEF Next
<1> QED BY <1>2, InitInv, PTL DEF Spec

\* The state is well typed: every checkpoint that is written passes the
\* validation of state.json.
THEOREM TypeCorrect == Spec => []TypeOK
<1>1. Inv => TypeOK BY DEF Inv
<1> QED BY <1>1, Inductive, PTL

\* The checkpoint, `active` and `latest` always fit together, whatever step of
\* apply, continue or abort a command dies at.
THEOREM PointersFit == Spec => []PointersAgree
<1>1. Inv => PointersAgree
  BY DEF Inv, FilesInv, LeaseInv, PointersAgree, Fresh
<1> QED BY <1>1, Inductive, PTL

\* An operation that is over holds no lease on a pack.
THEOREM LeasesEnd == Spec => []LeaseEnds
<1>1. ASSUME Inv PROVE LeaseEnds
  <2> SUFFICES ASSUME NEW op \in Ops, Terminal(rec[op])
               PROVE  keep[op] = None /\ child # op
    BY DEF LeaseEnds
  <2>1. PastBuild(rec[op]) BY DEF PastBuild, Terminal
  <2>2. child # op BY <1>1, UserCommitsAssumption DEF Inv, FilesInv, Terminal
  <2> QED BY <1>1, <2>1, <2>2 DEF Inv, LeaseInv
<1> QED BY <1>1, Inductive, PTL

\* No gc takes a commit away from a build.
THEOREM Shielded == Spec => []BuildIsShielded
<1>1. ASSUME Inv PROVE BuildIsShielded
  <2> SUFFICES ASSUME proc.cmd = "continue", ~Restoring(rec[proc.op]), ~meddled,
                      proc.pc \in {"outputs", "swap_output", "advance", "release", "built",
                                   "stamp", "prove", "ready", "compare", "swap"}
               PROVE  stored[proc.op] = Outputs
    BY DEF BuildIsShielded
  <2>1. proc # Idle /\ proc.pc \notin StartPcs BY DEF Idle, StartPcs
  <2>2. /\ proc.op \in Ops /\ Working /\ active = proc.op /\ ValidState(rec[proc.op])
        /\ rec[proc.op] \in Records
    BY <1>1, <2>1, AtWork
  <2>3. CASE proc.pc \in {"outputs", "swap_output", "advance"}
    BY <1>1, <2>1, <2>2, <2>3 DEF Inv, HeldInv, LeaseInv
  <2>4. CASE proc.pc \notin {"outputs", "swap_output", "advance"}
    <3>1. rec[proc.op].outs = Outputs /\ ~rec[proc.op].pending
      BY <2>2, <2>4 DEF Working, ValidState, Records
    <3>2. output[proc.op] = Outputs
      BY <1>1, <2>2, <3>1 DEF Inv, OwnedInv, OutputRefMatches
    <3>3. Outputs <= stored[proc.op] /\ stored[proc.op] \in 0 .. Outputs
      BY <1>1, <2>2, <3>2 DEF Inv, StoredInv, TypeOK, ObjectTypeOK, Foreign
    <3> QED BY <3>3
  <2> QED BY <2>3, <2>4
<1> QED BY <1>1, Inductive, PTL

\* Whatever step a command dies at, the checkpoint it leaves can be continued.
THEOREM Resumes == Spec => []CheckpointResumes
<1>1. ASSUME Inv PROVE CheckpointResumes
  <2> SUFFICES ASSUME NEW op \in Ops, active = op, ~Terminal(rec[op]), ~Restoring(rec[op]),
                      ~meddled, head, safe
               PROVE  ResumeReady(op)
    BY DEF CheckpointResumes
  <2>1. rec[op] # NoRecord BY <1>1, UserCommitsAssumption DEF Inv, FilesInv
  <2>2. ValidState(rec[op]) /\ rec[op] \in Records
    BY <1>1, <2>1 DEF Inv, TypeOK
  <2>3. /\ recovery[op] = plan[op] /\ OutputRefMatches(op, rec[op])
        /\ branch \in AllowedBranchTips(op, rec[op])
    BY <1>1 DEF Inv, OwnedInv
  <2>4. rec[op].outs <= stored[op]
    <3>1. output[op] \in 0 .. Foreign /\ stored[op] \in 0 .. Outputs
          /\ rec[op].outs \in 0 .. Outputs
      BY <1>1, <2>2 DEF Inv, TypeOK, ObjectTypeOK, Records
    <3>2. output[op] # Foreign /\ rec[op].outs <= output[op]
      BY <2>2, <2>3, <3>1 DEF OutputRefMatches, ValidState, Foreign
    <3>3. output[op] <= stored[op] BY <1>1, <3>2 DEF Inv, StoredInv
    <3> QED BY <3>1, <3>2, <3>3
  <2>5. VerificationMatches(op, rec[op])
    BY <1>1, <2>1 DEF Inv, FilesInv, VerificationMatches
  <2> QED BY <2>3, <2>4, <2>5 DEF ResumeReady, RecoveryMatches
<1> QED BY <1>1, Inductive, PTL

-----------------------------------------------------------------------------
(* The branch. *)

LEMMA BranchKept ==
  ASSUME Step, ~SwapBranch, ~SwapBranchBack
  PROVE  branch' = branch
<1> USE DEF refs
<1>1. CASE RequireStartFacts \/ AnchorOriginal \/ PublishDirectory \/ InspectPublished
             \/ Activate \/ Load \/ Dispatch \/ Promote \/ Pack
  BY <1>1 DEF RequireStartFacts, AnchorOriginal, PublishDirectory, InspectPublished,
     Activate, Load, Dispatch, Promote, Pack
<1>2. CASE NextOutput \/ SwapOutputRef \/ AdvanceOutput \/ ReleaseLease \/ FinishBuild
             \/ Verify \/ Stamp \/ WriteVerification \/ MakeReady
  BY <1>2 DEF NextOutput, SwapOutputRef, AdvanceOutput, ReleaseLease, FinishBuild,
     Verify, Stamp, WriteVerification, MakeReady
<1>3. CASE RequireFinalReady \/ CompareTip \/ MarkComplete
             \/ PointLatest \/ Deactivate \/ PauseAfterFailure
  BY <1>3 DEF RequireFinalReady, CompareTip, MarkComplete, PointLatest, Deactivate,
     PauseAfterFailure
<1>4. CASE RequireOwned \/ RetractOutputRef \/ ForgetPending \/ PersistIntent
             \/ CompareRestored \/ AdoptLease \/ MarkAborted
  BY <1>4 DEF RequireOwned, RetractOutputRef, ForgetPending, PersistIntent,
     CompareRestored, AdoptLease, MarkAborted
<1> QED BY <1>1, <1>2, <1>3, <1>4 DEF Step

\* A rewrite command moves the branch only from the tip its plan was made for
\* to a verified series, or back once the wish to abort is on disk.
THEOREM MovesAreOwned == Spec => BranchMovesAreOwned
<1> DEFINE Owned ==
      (Step /\ branch' # branch) =>
        \/ /\ branch = plan[Me] /\ branch' = Rewritten(Me)
           /\ WasFinalized(rec[Me]) /\ Me \in proof
           /\ stored[Me] = Outputs
        \/ /\ branch = Rewritten(Me) /\ branch' = plan[Me]
           /\ Restoring(rec[Me])
<1>1. ASSUME Inv, SwapBranch, branch' # branch PROVE Owned
  <2>1. proc # Idle /\ proc.pc \notin StartPcs BY <1>1 DEF SwapBranch, Idle, StartPcs
  <2>2. /\ proc.op \in Ops /\ rec[proc.op] # NoRecord /\ Working
        /\ ValidState(rec[proc.op])
    BY <1>1, <2>1, AtWork
  <2>3. WasFinalized(rec[proc.op])
    BY <1>1, <2>2 DEF SwapBranch, Working, FinalPcs, ValidState, WasFinalized
  <2>4. proc.op \in proof BY <1>1, <2>2, <2>3 DEF Inv, FilesInv, WasFinalized
  <2>5. branch = plan[proc.op] /\ branch' = Rewritten(proc.op) /\ Exists(Rewritten(proc.op))
    BY <1>1 DEF SwapBranch, CompareAndSwapBranch
  <2>6. stored[proc.op] = Outputs BY <2>2, <2>5 DEF Exists
  <2> QED BY <2>3, <2>4, <2>5, <2>6
<1>2. ASSUME Inv, SwapBranchBack, branch' # branch PROVE Owned
  <2>1. proc # Idle /\ proc.pc \notin StartPcs BY <1>2 DEF SwapBranchBack, Idle, StartPcs
  <2>2. Working BY <1>2, <2>1, AtWork
  <2>3. Restoring(rec[proc.op]) BY <1>2, <2>2 DEF SwapBranchBack, Working, RestorePcs
  <2> QED BY <1>2, <2>3 DEF SwapBranchBack, CompareAndSwapBranch
<1>3. Inv /\ [Next]_vars => [Owned]_vars BY <1>1, <1>2, BranchKept
<1> QED BY <1>3, Inductive, PTL DEF Spec, BranchMovesAreOwned

-----------------------------------------------------------------------------
(* The commands implement HistoryRewrite. *)

\* How the outcome of an operation follows from its checkpoint.
LEMMA OutcomeFacts ==
  ASSUME Inv, NEW op \in Ops
  PROVE  /\ op # None
         /\ rec[op] = NoRecord => OutcomeOf(op) = "none"
         /\ OutcomeOf(op) = "restoring" <=> Restoring(rec[op])
         /\ active = op /\ ~Terminal(rec[op]) /\ ~Restoring(rec[op]) =>
              OutcomeOf(op) = "open"
         /\ active # op => OutcomeOf(op) \in {"none", "complete", "aborted"}
         /\ OutcomeOf(op) # "none" => PlannedFor[op] = plan[op] /\ plan[op] \in Commits
         /\ OutcomeOf(op) = "none" => PlannedFor[op] = None
<1>1. op # None BY UserCommitsAssumption
<1>2. rec[op] = NoRecord => OutcomeOf(op) = "none"
  BY DEF Inv, FilesInv, OutcomeOf, NoRecord
<1>3. rec[op] # NoRecord => rec[op].next \in AllowedNext[rec[op].phase]
  BY DEF Inv, TypeOK, ValidState
<1>4. Restoring(rec[op]) => active = op /\ ~Terminal(rec[op])
  BY <1>3 DEF Inv, FilesInv, Restoring, Terminal, AllowedNext, Fresh
<1>5. OutcomeOf(op) = "restoring" <=> Restoring(rec[op])
  BY <1>4 DEF OutcomeOf, Terminal
<1>6. OutcomeOf(op) # "none" => plan[op] \in Commits
  BY <1>2 DEF Inv, FilesInv, TypeOK
<1> QED BY <1>1, <1>2, <1>5, <1>6 DEF OutcomeOf, PlannedFor, Terminal

\* What the abstract rewrite sees of a step that does not concern it.
LEMMA Hidden ==
  ASSUME UNCHANGED <<branch, rec, active, plan, history>>
  PROVE  UNCHANGED Promise!vars
BY DEF Promise!vars, Outcome, PlannedFor, OutcomeOf, Restoring, history

\* A checkpoint that changes no outcome.
LEMMA HiddenCheckpoint ==
  ASSUME Inv, NEW op \in Ops, NEW r, active = op, Write(op, r), UNCHANGED <<branch, history>>,
         ~Terminal(r), Restoring(r) <=> Restoring(rec[op])
  PROVE  UNCHANGED Promise!vars
<1>1. rec' = [rec EXCEPT ![op] = r] /\ UNCHANGED <<plan, active>> /\ ~Terminal(rec[op])
  BY OutcomeFacts DEF Write, CanUpdate, Terminal, AllowedTransitions
<1>2. DOMAIN rec = Ops BY DEF Inv, TypeOK
<1>3. ASSUME NEW o \in Ops PROVE OutcomeOf(o)' = OutcomeOf(o)
  <2>1. CASE o = op BY <1>1, <1>2, <2>1 DEF OutcomeOf, Terminal, Restoring
  <2>2. CASE o # op BY <1>1, <1>2, <2>2 DEF OutcomeOf, Restoring
  <2> QED BY <2>1, <2>2
<1> QED BY <1>1, <1>3 DEF Promise!vars, Outcome, PlannedFor, history

LEMMA HiddenUpdate ==
  ASSUME Inv, proc # Idle, proc.pc \notin StartPcs, NEW r, NEW pc, Update(proc.op, r, pc),
         UNCHANGED <<branch, history>>, ~Terminal(r),
         Restoring(r) <=> Restoring(rec[proc.op])
  PROVE  UNCHANGED Promise!vars
<1>1. proc.op \in Ops /\ active = proc.op BY AtWork
<1>2. CASE Write(proc.op, r) BY <1>1, <1>2, HiddenCheckpoint
<1>3. CASE UNCHANGED files BY <1>3, Hidden DEF files
<1> QED BY <1>2, <1>3 DEF Update

\* An outcome that is written: the abstract steps that end an operation or ask
\* for its original.
LEMMA OutcomeWritten ==
  ASSUME Inv, Inv', NEW op \in Ops, NEW r, Write(op, r), active = op,
         OutcomeOf(op) # "none", OutcomeOf(op)' # "none"
  PROVE  /\ Outcome' = [Outcome EXCEPT ![op] = OutcomeOf(op)']
         /\ PlannedFor' = PlannedFor
<1>1. rec' = [rec EXCEPT ![op] = r] /\ UNCHANGED <<plan, active>> BY DEF Write
<1>2. DOMAIN rec = Ops BY DEF Inv, TypeOK
<1>3. ASSUME NEW o \in Ops, o # op PROVE OutcomeOf(o)' = OutcomeOf(o)
  BY <1>1, <1>2, <1>3 DEF OutcomeOf, Restoring
<1>4. Outcome' = [Outcome EXCEPT ![op] = OutcomeOf(op)'] BY <1>3 DEF Outcome
<1>5. PlannedFor' = PlannedFor BY <1>1, <1>3 DEF PlannedFor
<1> QED BY <1>4, <1>5

\* Observe is the abstract one.
LEMMA Observed ==
  ASSUME Inv', Observe, plan' = plan
  PROVE  Promise!Observe
<1>1. ASSUME NEW op \in Ops
      PROVE  (Restoring(rec'[op]) /\ branch' = plan[op])
               <=> (OutcomeOf(op)' = "restoring" /\ branch' = PlannedFor'[op])
  <2>1. OutcomeOf(op)' = "restoring" <=> Restoring(rec'[op])
    <3>1. rec'[op] # NoRecord => rec'[op].next \in AllowedNext[rec'[op].phase]
      BY DEF Inv, TypeOK, ValidState
    <3>2. Restoring(rec'[op]) => active' = op /\ ~Terminal(rec'[op])
      BY <3>1 DEF Inv, FilesInv, Restoring, Terminal, AllowedNext, Fresh
    <3> QED BY <3>2 DEF OutcomeOf, Terminal, Restoring
  <2>2. OutcomeOf(op)' = "restoring" => PlannedFor'[op] = plan'[op]
    BY DEF PlannedFor
  <2> QED BY <2>1, <2>2
<1>2. \A op \in Ops : Outcome'[op] = OutcomeOf(op)' BY DEF Outcome
<1> QED BY <1>1, <1>2 DEF Observe, Promise!Observe

LEMMA HiddenStart ==
  ASSUME Inv, \/ \E op \in Ops : Prepare(op)
              \/ RequireStartFacts \/ AnchorOriginal \/ PublishDirectory \/ InspectPublished
  PROVE  UNCHANGED Promise!vars
<1>1. ASSUME NEW op \in Ops, Prepare(op) PROVE UNCHANGED Promise!vars
  <2>1. rec[op] = NoRecord /\ active # op BY <1>1 DEF Inv, FilesInv, Prepare
  <2>2. /\ UNCHANGED <<branch, rec, active, history>>
        /\ plan' = [plan EXCEPT ![op] = branch] /\ DOMAIN plan = Ops
    BY <1>1 DEF Prepare, refs, Inv, TypeOK
  <2>3. ASSUME NEW o \in Ops
        PROVE  /\ OutcomeOf(o)' = OutcomeOf(o)
               /\ OutcomeOf(o) # "none" => plan'[o] = plan[o]
    BY <2>1, <2>2 DEF OutcomeOf, NoRecord
  <2> QED BY <2>2, <2>3 DEF Promise!vars, Outcome, PlannedFor, history
<1>2. ASSUME PublishDirectory PROVE UNCHANGED Promise!vars
  <2>1. /\ proc.op \in Ops /\ active = None /\ rec[proc.op] = NoRecord
        /\ DOMAIN rec = Ops
    BY <1>2 DEF PublishDirectory, Inv, ProcessInv, Starting, Working, WorkPcs, BuildPcs,
       VerifyPcs, FinalPcs, RestorePcs, OtherPcs, Idle, TypeOK
  <2>2. /\ UNCHANGED <<branch, active, plan, history>>
        /\ rec' = rec \/ rec' = [rec EXCEPT ![proc.op] = Fresh]
    BY <1>2 DEF PublishDirectory, refs
  <2>3. ASSUME NEW o \in Ops PROVE OutcomeOf(o)' = OutcomeOf(o)
    BY <2>1, <2>2, UserCommitsAssumption DEF OutcomeOf, NoRecord, Fresh, Restoring
  <2> QED BY <2>2, <2>3 DEF Promise!vars, Outcome, PlannedFor, history
<1>3. CASE RequireStartFacts \/ AnchorOriginal \/ InspectPublished
  BY <1>3, Hidden DEF RequireStartFacts, AnchorOriginal, InspectPublished, refs, files
<1> QED BY <1>1, <1>2, <1>3

\* The steps that only read, or write nothing but refs and objects of the
\* operation.
LEMMA HiddenReads ==
  ASSUME \/ Load \/ Promote \/ Pack \/ SwapOutputRef \/ ReleaseLease \/ Verify
         \/ WriteVerification \/ RequireFinalReady \/ CompareTip \/ PointLatest
         \/ RequireOwned \/ RetractOutputRef \/ CompareRestored \/ AdoptLease
  PROVE  UNCHANGED Promise!vars
<1>1. CASE Load \/ Promote \/ Pack \/ SwapOutputRef \/ ReleaseLease \/ Verify
  BY <1>1, Hidden DEF Load, Promote, Pack, SwapOutputRef, ReleaseLease, Verify, refs, files
<1>2. CASE WriteVerification \/ RequireFinalReady \/ CompareTip \/ PointLatest
  BY <1>2, Hidden DEF WriteVerification, RequireFinalReady, CompareTip, PointLatest, refs, files
<1>3. CASE RequireOwned \/ RetractOutputRef \/ CompareRestored \/ AdoptLease
  BY <1>3, Hidden DEF RequireOwned, RetractOutputRef, CompareRestored, AdoptLease, refs, files
<1> QED BY <1>1, <1>2, <1>3

\* The steps that write a checkpoint on the way.
LEMMA HiddenWrites ==
  ASSUME Inv, \/ Dispatch \/ NextOutput \/ AdvanceOutput \/ FinishBuild \/ Stamp
              \/ MakeReady \/ ForgetPending \/ PauseAfterFailure
  PROVE  UNCHANGED Promise!vars
<1> DEFINE op == proc.op
           old == rec[op]
<1>1. proc # Idle /\ proc.pc \notin StartPcs
  BY DEF Dispatch, NextOutput, AdvanceOutput, FinishBuild, Stamp, MakeReady, ForgetPending,
     PauseAfterFailure, Idle, StartPcs
<1>2. /\ proc.op \in Ops /\ active = proc.op /\ Working /\ ValidState(old) /\ old \in Records
  BY <1>1, AtWork
<1>3. CASE Dispatch
  <2>1. CASE Update(op, [old EXCEPT !.phase = Resumed(old)], StageOf(Resumed(old)))
    <3>1. ~Restoring(old) /\ ~Terminal(old) BY <1>2, <1>3 DEF Dispatch, Working
    <3> DEFINE r == [old EXCEPT !.phase = Resumed(old)]
    <3>2. ~Terminal(r) /\ ~Restoring(r)
      BY <1>2, <3>1 DEF Terminal, Restoring, Resumed, Records, NoRecord
    <3> QED BY <1>1, <1>3, <2>1, <3>1, <3>2, HiddenUpdate DEF Dispatch, refs
  <2>2. CASE UNCHANGED files BY <1>3, <2>2, Hidden DEF Dispatch, refs, files
  <2> QED BY <1>3, <2>1, <2>2 DEF Dispatch
<1>4. CASE NextOutput
  <2>1. CASE Update(op, [old EXCEPT !.pending = TRUE], "swap_output")
    <3> DEFINE r == [old EXCEPT !.pending = TRUE]
    <3>2. ~Terminal(r) /\ (Restoring(r) <=> Restoring(old))
      BY <1>2, <1>4 DEF NextOutput, Working, BuildPcs, Terminal, Restoring, Records, NoRecord
    <3> QED BY <1>1, <1>4, <2>1, <3>2, HiddenUpdate DEF NextOutput, refs
  <2>2. CASE UNCHANGED files BY <1>4, <2>2, Hidden DEF NextOutput, refs, files
  <2> QED BY <1>4, <2>1, <2>2 DEF NextOutput
<1>5. CASE AdvanceOutput
  <2> DEFINE r == [old EXCEPT !.outs = old.outs + 1, !.pending = FALSE]
  <2>1. ~Terminal(r) /\ (Restoring(r) <=> Restoring(old))
    BY <1>2, <1>5 DEF AdvanceOutput, Working, BuildPcs, Terminal, Restoring, Records, NoRecord
  <2> QED BY <1>1, <1>5, <2>1, HiddenUpdate DEF AdvanceOutput, refs
<1>6. CASE FinishBuild
  <2> DEFINE r == [old EXCEPT !.phase = "VERIFYING", !.next = "VERIFY_SERIES"]
  <2>1. ~Terminal(r) /\ ~Restoring(r)
    BY <1>2 DEF Terminal, Restoring, Records
  <2>2. ~Restoring(old)
    BY <1>2, <1>6 DEF FinishBuild, Working, BuildPcs, Restoring, ValidState, AllowedNext
  <2> QED BY <1>1, <1>6, <2>1, <2>2, HiddenUpdate DEF FinishBuild, refs
<1>7. CASE Stamp
  <2> DEFINE r == [old EXCEPT !.verified = proc.stamp + 1]
  <2>1. CASE Write(op, r)
    <3>1. ~Terminal(r) /\ (Restoring(r) <=> Restoring(old))
      BY <1>2, <1>7 DEF Stamp, Working, VerifyPcs, Terminal, Restoring, Records, NoRecord
    <3> QED BY <1>2, <1>7, <2>1, <3>1, HiddenCheckpoint DEF Stamp, refs
  <2>2. CASE UNCHANGED files BY <1>7, <2>2, Hidden DEF Stamp, refs, files
  <2> QED BY <1>7, <2>1, <2>2 DEF Stamp
<1>8. CASE MakeReady
  <2> DEFINE r == [old EXCEPT !.phase = "READY_TO_UPDATE", !.next = "UPDATE_BRANCH",
                              !.verified = Outputs, !.digest = TRUE]
  <2>1. ~Terminal(r) /\ ~Restoring(r)
    BY <1>2 DEF Terminal, Restoring, Records
  <2>2. ~Restoring(old)
    BY <1>2, <1>8 DEF MakeReady, Working, VerifyPcs, Restoring, ValidState, AllowedNext
  <2> QED BY <1>1, <1>8, <2>1, <2>2, HiddenUpdate DEF MakeReady, refs
<1>9. CASE ForgetPending
  <2> DEFINE r == [old EXCEPT !.pending = FALSE]
  <2>1. ~Terminal(r) /\ (Restoring(r) <=> Restoring(old))
    BY <1>2, <1>9 DEF ForgetPending, Working, Terminal, Restoring, Records, NoRecord
  <2> QED BY <1>1, <1>9, <2>1, HiddenUpdate DEF ForgetPending, refs
<1>10. CASE PauseAfterFailure
  <2> DEFINE r == [old EXCEPT !.phase = "PAUSED", !.next = NextAfterFailure(old)]
  <2>1. CASE Write(op, r)
    <3>1. ~Terminal(r) BY <1>2 DEF Terminal, Records
    <3>2. ~Terminal(old) BY <2>1 DEF Write, CanUpdate, Terminal, AllowedTransitions
    <3>3. Restoring(r) <=> Restoring(old) BY <1>2, <3>2, PauseKeepsNext
    <3> QED BY <1>2, <1>10, <2>1, <3>1, <3>3, HiddenCheckpoint DEF PauseAfterFailure, refs
  <2>2. CASE UNCHANGED files BY <1>10, <2>2, Hidden DEF PauseAfterFailure, refs, files
  <2> QED BY <1>10, <2>1, <2>2 DEF PauseAfterFailure
<1> QED BY <1>3, <1>4, <1>5, <1>6, <1>7, <1>8, <1>9, <1>10

\* The step to the active pointer opens the operation.
LEMMA ActivateOpens ==
  ASSUME Inv, Activate
  PROVE  [Promise!Next]_(Promise!vars)
<1>1. CASE UNCHANGED active
  BY <1>1, Hidden DEF Activate, refs
<1>2. CASE active' = proc.op
  <2>1. /\ proc.op \in Ops /\ active = None /\ rec[proc.op] = Fresh /\ plan[proc.op] # None
    BY <1>2 DEF Activate, Inv, ProcessInv, Starting, Working, WorkPcs, BuildPcs,
       VerifyPcs, FinalPcs, RestorePcs, OtherPcs, Idle
  <2>0. PICK op \in Ops : op = proc.op BY <2>1
  <2>2. UNCHANGED <<branch, rec, plan, history>> BY <1>2 DEF Activate, refs
  <2>3. \A o \in Ops : OutcomeOf(o) \in {"none", "complete", "aborted"}
    BY <2>1, OutcomeFacts
  <2>4. OutcomeOf(op) = "none" /\ OutcomeOf(op)' = "open"
    BY <1>2, <2>0, <2>1, <2>2, UserCommitsAssumption DEF OutcomeOf, Fresh, Restoring, NoRecord
  <2>5. ASSUME NEW o \in Ops, o # op PROVE OutcomeOf(o)' = OutcomeOf(o)
    BY <1>2, <2>0, <2>1, <2>2, <2>5, UserCommitsAssumption DEF OutcomeOf, Restoring
  <2>6. Outcome' = [Outcome EXCEPT ![op] = "open"] BY <2>4, <2>5 DEF Outcome
  <2>7. PlannedFor' = [PlannedFor EXCEPT ![op] = plan[op]]
    BY <2>2, <2>4, <2>5 DEF PlannedFor
  <2>8. plan[op] \in Commits BY <2>0, <2>1 DEF Inv, TypeOK
  <2>9. /\ Outcome[op] = "none"
        /\ \A o \in Ops : Outcome[o] \in {"none", "complete", "aborted"}
    BY <2>1, <2>3, <2>4 DEF Outcome
  <2>10. Promise!Open(op)
    BY <2>2, <2>6, <2>7, <2>8, <2>9 DEF Promise!Open, Promise!Underway, history
  <2> QED BY <2>1, <2>10 DEF Promise!Next
<1> QED BY <1>1, <1>2 DEF Activate

LEMMA DeactivateHidden ==
  ASSUME Inv, Deactivate
  PROVE  UNCHANGED Promise!vars
<1>1. proc # Idle /\ proc.pc \notin StartPcs BY DEF Deactivate, Idle, StartPcs
<1>2. proc.op \in Ops /\ active = proc.op /\ Terminal(rec[proc.op])
  BY <1>1, AtWork DEF Deactivate, Working
<1>3. UNCHANGED <<branch, rec, plan, history>> /\ active' = None BY DEF Deactivate, refs
<1>4. ASSUME NEW o \in Ops PROVE OutcomeOf(o)' = OutcomeOf(o)
  BY <1>2, <1>3, UserCommitsAssumption DEF OutcomeOf, Terminal, Restoring
<1> QED BY <1>3, <1>4 DEF Promise!vars, Outcome, PlannedFor, history

\* The swaps of the branch publish the new history, and restore the old one.
LEMMA SwapPublishes ==
  ASSUME Inv, Inv', SwapBranch \/ SwapBranchBack
  PROVE  [Promise!Next]_(Promise!vars)
<1>1. proc # Idle /\ proc.pc \notin StartPcs BY DEF SwapBranch, SwapBranchBack, Idle, StartPcs
<1>2. /\ proc.op \in Ops /\ active = proc.op /\ Working /\ ValidState(rec[proc.op])
      /\ rec[proc.op] # NoRecord
  BY <1>1, AtWork
<1>3. CASE UNCHANGED <<branch, files, history>> BY <1>3, Hidden DEF files
<1>4. CASE SwapBranch /\ branch = plan[proc.op] /\ branch' = Rewritten(proc.op)
           /\ UNCHANGED files /\ Observe
  <2>1. ~Terminal(rec[proc.op]) /\ ~Restoring(rec[proc.op])
    BY <1>2, <1>4 DEF SwapBranch, Working, FinalPcs, ValidState, AllowedNext, Terminal, Restoring
  <2>2. Outcome[proc.op] = "open" /\ PlannedFor[proc.op] = plan[proc.op]
    BY <1>2, <2>1, OutcomeFacts DEF Outcome
  <2>3. Promise!Observe BY <1>4, Observed DEF files
  <2>4. UNCHANGED <<Outcome, PlannedFor>>
    BY <1>4 DEF files, Outcome, PlannedFor, OutcomeOf, Restoring
  <2>5. Promise!Publish(proc.op) BY <1>4, <2>2, <2>3, <2>4 DEF Promise!Publish
  <2> QED BY <1>2, <2>5 DEF Promise!Next
<1>5. CASE SwapBranchBack /\ branch = Rewritten(proc.op) /\ branch' = plan[proc.op]
           /\ UNCHANGED files /\ Observe
  <2>1. Restoring(rec[proc.op])
    BY <1>2, <1>5 DEF SwapBranchBack, Working, RestorePcs
  <2>2. Outcome[proc.op] = "restoring" /\ PlannedFor[proc.op] = plan[proc.op]
    BY <1>2, <2>1, OutcomeFacts DEF Outcome
  <2>3. Promise!Observe BY <1>5, Observed DEF files
  <2>4. UNCHANGED <<Outcome, PlannedFor>>
    BY <1>5 DEF files, Outcome, PlannedFor, OutcomeOf, Restoring
  <2>5. Promise!Restore(proc.op) BY <1>5, <2>2, <2>3, <2>4 DEF Promise!Restore
  <2> QED BY <1>2, <2>5 DEF Promise!Next
<1> QED BY <1>3, <1>4, <1>5 DEF SwapBranch, SwapBranchBack, CompareAndSwapBranch

\* The wish to abort.
LEMMA IntentAsks ==
  ASSUME Inv, Inv', PersistIntent
  PROVE  [Promise!Next]_(Promise!vars)
<1>0. PICK op \in Ops : op = proc.op
  <2>1. proc # Idle /\ proc.pc \notin StartPcs BY DEF PersistIntent, Idle, StartPcs
  <2> QED BY <2>1, AtWork
<1> DEFINE r == [rec[op] EXCEPT !.phase = "PAUSED", !.next = "RESTORE_ORIGINAL"]
<1>1. proc # Idle /\ proc.pc \notin StartPcs BY DEF PersistIntent, Idle, StartPcs
<1>2. /\ op \in Ops /\ active = op /\ ~Terminal(rec[op]) /\ rec[op] \in Records
      /\ rec[op] # NoRecord
  BY <1>0, <1>1, AtWork DEF PersistIntent, Working
<1>3. CASE UNCHANGED <<files, history>> BY <1>3, Hidden DEF PersistIntent, refs, files
<1>4. CASE Write(op, r) /\ Observe
  <2>1. branch' = branch /\ rec' = [rec EXCEPT ![op] = r] /\ UNCHANGED <<plan, active>>
        /\ DOMAIN rec = Ops
    BY <1>4 DEF PersistIntent, refs, Write, Inv, TypeOK
  <2>2. r.phase = "PAUSED" /\ r.next = "RESTORE_ORIGINAL" /\ r # NoRecord
    BY <1>2 DEF Records, NoRecord
  <2>3. OutcomeOf(op)' = "restoring"
    BY <1>2, <2>1, <2>2 DEF OutcomeOf, Restoring
  <2>4. Promise!Observe BY <1>4, <2>1, Observed
  <2>5. OutcomeOf(op) # "none" BY <1>2, OutcomeFacts
  <2>6. Outcome' = [Outcome EXCEPT ![op] = "restoring"] /\ PlannedFor' = PlannedFor
    BY <1>2, <1>4, <2>3, <2>5, OutcomeWritten
  <2>7. CASE ~Restoring(rec[op])
    <3>1. Outcome[op] = "open" BY <1>2, <2>7, OutcomeFacts DEF Outcome
    <3>2. Promise!AskForOriginal(op)
      BY <2>1, <2>4, <2>6, <3>1 DEF Promise!AskForOriginal
    <3> QED BY <1>2, <3>2 DEF Promise!Next
  <2>8. CASE Restoring(rec[op])
    <3>1. \A o \in Ops : Restoring(rec'[o]) => Restoring(rec[o])
      BY <2>1, <2>8 DEF Restoring
    <3>2. shown' = shown /\ returned' = returned
      BY <1>4, <2>1, <3>1 DEF Observe, Inv, HistoryInv
    <3>3. Outcome[op] = "restoring" BY <1>2, <2>8, OutcomeFacts DEF Outcome
    <3>4. Outcome' = Outcome BY <2>6, <3>3 DEF Outcome
    <3> QED BY <2>1, <2>6, <3>2, <3>4 DEF Promise!vars
  <2> QED BY <2>7, <2>8
<1> QED BY <1>0, <1>3, <1>4 DEF PersistIntent

\* The checkpoints that say how the operation ended.
LEMMA EndIsSaid ==
  ASSUME Inv, Inv', MarkComplete \/ MarkAborted
  PROVE  [Promise!Next]_(Promise!vars)
<1>0. PICK op \in Ops : op = proc.op
  <2>1. proc # Idle /\ proc.pc \notin StartPcs BY DEF MarkComplete, MarkAborted, Idle, StartPcs
  <2> QED BY <2>1, AtWork
<1>1. proc # Idle /\ proc.pc \notin StartPcs BY DEF MarkComplete, MarkAborted, Idle, StartPcs
<1>2. /\ op \in Ops /\ active = op /\ Working /\ rec[op] \in Records /\ ValidState(rec[op])
      /\ rec[op] # NoRecord
  BY <1>0, <1>1, AtWork
<1>3. UNCHANGED <<branch, history>> BY DEF MarkComplete, MarkAborted, refs
<1>4. CASE UNCHANGED files BY <1>3, <1>4, Hidden DEF files
<1>5. CASE MarkComplete /\ Write(op, [rec[op] EXCEPT !.phase = "COMPLETE", !.next = "NONE"])
  <2> DEFINE r == [rec[op] EXCEPT !.phase = "COMPLETE", !.next = "NONE"]
  <2>1. ~Terminal(rec[op]) /\ ~Restoring(rec[op]) /\ op \in shown
    BY <1>0, <1>2, <1>5 DEF MarkComplete, Working, FinalPcs, ValidState, AllowedNext, Terminal,
       Restoring
  <2>2. OutcomeOf(op)' = "complete"
    BY <1>2, <1>5 DEF Write, Inv, TypeOK, OutcomeOf, Records
  <2>3. Outcome[op] = "open" BY <1>2, <2>1, OutcomeFacts DEF Outcome
  <2>4. OutcomeOf(op) = "open" BY <1>2, <2>3 DEF Outcome
  <2>5. Outcome' = [Outcome EXCEPT ![op] = "complete"] /\ PlannedFor' = PlannedFor
    <3> HIDE DEF r
    <3> QED BY <1>2, <1>5, <2>2, <2>4, OutcomeWritten DEF r
  <2>6. Promise!Complete(op) BY <1>3, <2>1, <2>3, <2>5 DEF Promise!Complete, history
  <2> QED BY <1>2, <2>6 DEF Promise!Next
<1>6. CASE MarkAborted /\ Write(op, [rec[op] EXCEPT !.phase = "ABORTED", !.next = "NONE"])
  <2> DEFINE r == [rec[op] EXCEPT !.phase = "ABORTED", !.next = "NONE"]
  <2>1. Restoring(rec[op]) /\ op \in returned
    BY <1>0, <1>2, <1>6 DEF MarkAborted, Working, RestorePcs
  <2>2. OutcomeOf(op)' = "aborted"
    BY <1>2, <1>6 DEF Write, Inv, TypeOK, OutcomeOf, Records
  <2>3. Outcome[op] = "restoring" BY <1>2, <2>1, OutcomeFacts DEF Outcome
  <2>4. OutcomeOf(op) = "restoring" BY <1>2, <2>3 DEF Outcome
  <2>5. Outcome' = [Outcome EXCEPT ![op] = "aborted"] /\ PlannedFor' = PlannedFor
    <3> HIDE DEF r
    <3> QED BY <1>2, <1>6, <2>2, <2>4, OutcomeWritten DEF r
  <2>6. Promise!Abandon(op) BY <1>3, <2>1, <2>3, <2>5 DEF Promise!Abandon, history
  <2> QED BY <1>2, <2>6 DEF Promise!Next
<1> QED BY <1>0, <1>4, <1>5, <1>6 DEF MarkComplete, MarkAborted, Update

LEMMA EnvironmentMoves ==
  ASSUME Inv, Inv', Environment
  PROVE  [Promise!Next]_(Promise!vars)
<1>1. CASE MoveBranch
  <2>1. UNCHANGED files /\ Observe /\ branch' \in Commits
    BY <1>1 DEF MoveBranch, Meddle, Inv, TypeOK
  <2>2. Promise!Observe BY <2>1, Observed DEF files
  <2>3. UNCHANGED <<Outcome, PlannedFor>>
    BY <2>1 DEF files, Outcome, PlannedFor, OutcomeOf, Restoring
  <2> QED BY <2>1, <2>2, <2>3 DEF Promise!MoveBranch, Promise!Next
<1>2. CASE MoveOperationRef \/ CheckOut \/ ChangeFacts \/ Gc
  BY <1>2, Hidden DEF MoveOperationRef, CheckOut, ChangeFacts, Gc, Meddle, refs, files
<1> QED BY <1>1, <1>2 DEF Environment

\* The commands implement the atomic rewrite: the branch goes from the planned
\* tip to the new history, or back, in one step each, and an operation ends
\* saying which of the two the branch has named.
THEOREM Atomic == Spec => RewriteIsAtomic
<1>1. Init => Promise!Init
  <2> SUFFICES ASSUME Init PROVE Promise!Init OBVIOUS
  <2>1. Outcome = [op \in Ops |-> "none"] 
    BY UserCommitsAssumption DEF Init, Outcome, OutcomeOf, NoRecord
  <2>2. PlannedFor = [op \in Ops |-> None]
    BY UserCommitsAssumption DEF PlannedFor, OutcomeOf, Init, NoRecord
  <2> QED BY <2>1, <2>2 DEF Promise!Init, Init, Commits
<1>2. ASSUME Inv, Inv', [Next]_vars PROVE [Promise!Next]_(Promise!vars)
  <2>1. CASE UNCHANGED vars BY <2>1, Hidden DEF vars, refs, files
  <2>2. CASE \E op \in Ops : Prepare(op) BY <1>2, <2>2, HiddenStart
  <2>3. CASE BeginContinue \/ BeginAbort
    BY <2>3, Hidden DEF BeginContinue, BeginAbort, Begin, refs, files
  <2>4. CASE Fail \/ Die \/ ChildEnds
    BY <2>4, Hidden DEF Fail, Die, ChildEnds, refs, files
  <2>5. CASE Environment BY <1>2, <2>5, EnvironmentMoves
  <2>6. CASE Step
    BY <1>2, <2>6, HiddenStart, HiddenReads, HiddenWrites, ActivateOpens, DeactivateHidden,
       SwapPublishes, IntentAsks, EndIsSaid DEF Step
  <2> QED BY <1>2, <2>1, <2>2, <2>3, <2>4, <2>5, <2>6 DEF Next
<1> QED BY <1>1, <1>2, Inductive, PTL DEF Spec, RewriteIsAtomic, Promise!Spec

=============================================================================
