------------------------- MODULE SessionLockProofs -------------------------
(* SessionLock's safety properties for any number of processes, commands and  *)
(* nested steps, and those of StatusCache beside them.  The inductive          *)
(* invariant says who can have the flock, what the depth is, how the           *)
(* generations of open prompts compare, and what generations a cached summary  *)
(* can claim.                                                                  *)
EXTENDS StatusCache, TLAPS

Gen(p) == proc[p].gen

\* The flock belongs to the process inside, or to a child that outlives it.
HeldInside == \A p \in Procs : Pc(p) \in Inside \/ p \in child => flock = p
HeldByThem == \A p \in Procs : flock = p => Pc(p) \in Inside \/ p \in child

\* A process with a child of its own command has marked the descriptor as lent.
ChildIsLent ==
  \A p \in Procs : p \in child =>
    /\ Pc(p) \notin {"truncate", "publish", "load", "compare"} \cup Prompting
    /\ Pc(p) \in {"act", "cleanup"} => proc[p].lent

\* The depth counts the contexts that are open, or were when the prompt opened.
DepthCounts ==
  \A p \in Procs :
    /\ Pc(p) \in {"load", "compare", "act", "cleanup"} => proc[p].depth = proc[p].inner + 1
    /\ Pc(p) \in Prompting => proc[p].depth = 0 /\ proc[p].kept = proc[p].inner + 1
    /\ Pc(p) \in {"out", "ask"} => proc[p].depth = 0

Emptied == \E q \in Procs : Pc(q) = "publish"

\* A prompt that a generation can warn.
Warned(p) == Pc(p) \in Prompting /\ p \notin excused

\* The holder's generation is the file's, and newer than that of any prompt.
HolderIsCurrent ==
  \A q \in Procs : Pc(q) \in {"load", "compare", "act", "cleanup"} => Gen(q) = counter
HolderIsNewer ==
  \A p \in Procs, q \in Procs :
    /\ Warned(p) /\ Pc(q) \in {"load", "compare", "act", "cleanup"} /\ q \notin excused
    => Gen(p) < Gen(q)
NextIsNewer ==
  \A p \in Procs, q \in Procs : Warned(p) /\ Pc(q) = "publish" => Gen(p) < Gen(q)

\* Of two open prompts one is older, and no prompt is newer than the file.
PromptsDiffer ==
  \A p \in Procs, q \in Procs : Warned(p) /\ Warned(q) /\ p # q => Gen(p) # Gen(q)
PromptsAreOld == \A p \in Procs : Warned(p) => Gen(p) <= counter \/ Emptied

\* The generation moved on when an open prompt's selected change was altered.
StaleIsOlder ==
  \A p \in Procs : Warned(p) /\ p \in stale => Gen(p) < counter \/ Emptied

Locked == HeldInside /\ HeldByThem /\ ChildIsLent

Generations ==
  /\ HolderIsCurrent /\ HolderIsNewer /\ NextIsNewer
  /\ PromptsDiffer /\ PromptsAreOld /\ StaleIsOlder /\ ActsOnLoadedChange

IInv == TypeOK /\ Locked /\ DepthCounts /\ Generations

\* Where a process is, and what its prompt knows, is expanded throughout.
USE DEF Pc, Gen, Goto, Inside, Waiting, Prompting, Warned, Emptied

LEMMA TakeFlockKeeps == ASSUME NEW p \in Procs, IInv, TakeFlock(p) PROVE IInv'
<1>1. TypeOK'
  BY BoundsAssumption DEF IInv, TakeFlock, TypeOK, ProcStates, Aims, DepthCounts
<1>2. Locked'
  BY ProcsAssumption DEF IInv, TakeFlock, TypeOK, ProcStates, Aims, Locked, HeldInside,
     HeldByThem, ChildIsLent
<1>3. DepthCounts'
  BY DEF IInv, TakeFlock, TypeOK, ProcStates, Aims, DepthCounts
<1>4. Generations'
  BY DEF IInv, TakeFlock, TypeOK, ProcStates, Aims, Locked, HeldInside, HeldByThem,
     ChildIsLent, Generations, HolderIsCurrent, HolderIsNewer, NextIsNewer,
     PromptsDiffer, PromptsAreOld, StaleIsOlder, ActsOnLoadedChange
<1> QED
  BY <1>1, <1>2, <1>3, <1>4 DEF IInv

LEMMA TruncateKeeps == ASSUME NEW p \in Procs, IInv, Truncate(p) PROVE IInv'
<1>1. TypeOK'
  BY BoundsAssumption DEF IInv, Truncate, TypeOK, ProcStates, Aims, DepthCounts
<1>2. Locked'
  BY ProcsAssumption DEF IInv, Truncate, TypeOK, ProcStates, Aims, Locked, HeldInside,
     HeldByThem, ChildIsLent
<1>3. DepthCounts'
  BY DEF IInv, Truncate, TypeOK, ProcStates, Aims, DepthCounts
<1>4. Generations'
  BY DEF IInv, Truncate, TypeOK, ProcStates, Aims, Locked, HeldInside, HeldByThem,
     ChildIsLent, Generations, HolderIsCurrent, HolderIsNewer, NextIsNewer,
     PromptsDiffer, PromptsAreOld, StaleIsOlder, ActsOnLoadedChange
<1> QED
  BY <1>1, <1>2, <1>3, <1>4 DEF IInv

LEMMA PublishKeeps == ASSUME NEW p \in Procs, IInv, Publish(p) PROVE IInv'
<1>1. TypeOK'
  BY BoundsAssumption DEF IInv, Publish, TypeOK, ProcStates, Aims, DepthCounts
<1>2. Locked'
  BY ProcsAssumption DEF IInv, Publish, TypeOK, ProcStates, Aims, Locked, HeldInside,
     HeldByThem, ChildIsLent
<1>3. DepthCounts'
  BY DEF IInv, Publish, TypeOK, ProcStates, Aims, DepthCounts
<1>4. Generations'
  BY DEF IInv, Publish, TypeOK, ProcStates, Aims, Locked, HeldInside, HeldByThem,
     ChildIsLent, Generations, HolderIsCurrent, HolderIsNewer, NextIsNewer,
     PromptsDiffer, PromptsAreOld, StaleIsOlder, ActsOnLoadedChange
<1> QED
  BY <1>1, <1>2, <1>3, <1>4 DEF IInv

LEMMA BeginKeeps == ASSUME NEW p \in Procs, IInv, Begin(p) PROVE IInv'
<1>a. PICK aim \in Aims : Enter(p, aim) /\ Pc(p) = "out" /\ started' \in 0 .. MaxCommands
  BY BoundsAssumption DEF IInv, Begin, Start, TypeOK, Aims
<1>b. proc[p].depth = 0
  BY <1>a DEF IInv, DepthCounts
<1>c. proc' = [proc EXCEPT ![p].pc = "wait", ![p].aim = aim, ![p].inner = 0]
  BY <1>a, <1>b DEF Enter
<1>d. proc' \in [Procs -> ProcStates]
  <2>1. aim \in Aims /\ proc[p] \in ProcStates
    BY <1>a DEF IInv, TypeOK
  <2>2. [proc[p] EXCEPT !.pc = "wait", !.aim = aim, !.inner = 0] \in ProcStates
    BY <2>1 DEF ProcStates
  <2> QED
    BY <1>c, <2>2 DEF IInv, TypeOK
<1>1. TypeOK'
  BY <1>a, <1>d DEF IInv, Begin, TypeOK
<1>2. Locked'
  BY <1>a, <1>c, ProcsAssumption DEF IInv, Begin, TypeOK, ProcStates, Aims, Locked,
     HeldInside, HeldByThem, ChildIsLent
<1>3. DepthCounts'
  BY <1>a, <1>c DEF IInv, Begin, TypeOK, ProcStates, Aims, DepthCounts
<1>4. Generations'
  BY <1>a, <1>c DEF IInv, Begin, TypeOK, ProcStates, Aims, Locked, HeldInside,
     HeldByThem, ChildIsLent, Generations, HolderIsCurrent, HolderIsNewer, NextIsNewer,
     PromptsDiffer, PromptsAreOld, StaleIsOlder, ActsOnLoadedChange
<1> QED
  BY <1>1, <1>2, <1>3, <1>4 DEF IInv

LEMMA LoadKeeps == ASSUME NEW p \in Procs, IInv, Load(p) PROVE IInv'
<1>1. TypeOK'
  BY BoundsAssumption DEF IInv, Load, Leave, Unlocked, Out, TypeOK, ProcStates, Aims,
     DepthCounts
<1>2. Locked'
  BY ProcsAssumption DEF IInv, Load, Leave, Unlocked, Out, TypeOK, ProcStates, Aims,
     Locked, HeldInside, HeldByThem, ChildIsLent
<1>3. DepthCounts'
  BY DEF IInv, Load, Leave, Unlocked, Out, TypeOK, ProcStates, Aims, DepthCounts
<1>4. Generations'
  BY DEF IInv, Load, Leave, Unlocked, Out, TypeOK, ProcStates, Aims, Locked, HeldInside,
     HeldByThem, ChildIsLent, Generations, HolderIsCurrent, HolderIsNewer, NextIsNewer,
     PromptsDiffer, PromptsAreOld, StaleIsOlder, ActsOnLoadedChange
<1> QED
  BY <1>1, <1>2, <1>3, <1>4 DEF IInv

LEMMA DispatchKeeps == ASSUME NEW p \in Procs, IInv, Dispatch(p) PROVE IInv'
<1>a. PICK aim \in Aims : Enter(p, aim) /\ Pc(p) = "ask" /\ started' \in 0 .. MaxCommands
  BY BoundsAssumption DEF IInv, Dispatch, Start, TypeOK, Aims
<1>b. proc[p].depth = 0
  BY <1>a DEF IInv, DepthCounts
<1>c. proc' = [proc EXCEPT ![p].pc = "wait", ![p].aim = aim, ![p].inner = 0]
  BY <1>a, <1>b DEF Enter
<1>d. proc' \in [Procs -> ProcStates]
  <2>1. aim \in Aims /\ proc[p] \in ProcStates
    BY <1>a DEF IInv, TypeOK
  <2>2. [proc[p] EXCEPT !.pc = "wait", !.aim = aim, !.inner = 0] \in ProcStates
    BY <2>1 DEF ProcStates
  <2> QED
    BY <1>c, <2>2 DEF IInv, TypeOK
<1>1. TypeOK'
  BY <1>a, <1>d DEF IInv, Dispatch, TypeOK
<1>2. Locked'
  BY <1>a, <1>c, ProcsAssumption DEF IInv, Dispatch, TypeOK, ProcStates, Aims, Locked,
     HeldInside, HeldByThem, ChildIsLent
<1>3. DepthCounts'
  BY <1>a, <1>c DEF IInv, Dispatch, TypeOK, ProcStates, Aims, DepthCounts
<1>4. Generations'
  BY <1>a, <1>c DEF IInv, Dispatch, TypeOK, ProcStates, Aims, Locked, HeldInside,
     HeldByThem, ChildIsLent, Generations, HolderIsCurrent, HolderIsNewer, NextIsNewer,
     PromptsDiffer, PromptsAreOld, StaleIsOlder, ActsOnLoadedChange
<1> QED
  BY <1>1, <1>2, <1>3, <1>4 DEF IInv

LEMMA CompareKeeps == ASSUME NEW p \in Procs, IInv, Compare(p) PROVE IInv'
<1>a. Pc(p) = "compare"
  BY DEF Compare
<1>1. CASE p \in stale
  <2>a. /\ proc' = [proc EXCEPT ![p] = [Out EXCEPT !.pc = "wait", !.aim = "load"]]
        /\ flock' = Unlocked(p) /\ UNCHANGED <<counter, child, stale, excused, started>>
    BY <1>1 DEF Compare, Leave
  <2>1. TypeOK'
    BY <1>a, <2>a, BoundsAssumption DEF IInv, Unlocked, Out, TypeOK, ProcStates, Aims,
       DepthCounts
  <2>2. Locked'
    BY <1>a, <2>a, ProcsAssumption DEF IInv, Unlocked, Out, TypeOK, ProcStates, Aims,
       Locked, HeldInside, HeldByThem, ChildIsLent
  <2>3. DepthCounts'
    BY <1>a, <2>a DEF IInv, Unlocked, Out, TypeOK, ProcStates, Aims, DepthCounts
  <2>4. Generations'
    BY <1>a, <2>a DEF IInv, Unlocked, Out, TypeOK, ProcStates, Aims, Locked, HeldInside,
       HeldByThem, ChildIsLent, Generations, HolderIsCurrent, HolderIsNewer,
       NextIsNewer, PromptsDiffer, PromptsAreOld, StaleIsOlder, ActsOnLoadedChange
  <2> QED
    BY <2>1, <2>2, <2>3, <2>4 DEF IInv
<1>2. CASE p \notin stale
  <2>1. TypeOK'
    BY <1>2, BoundsAssumption DEF IInv, Compare, TypeOK, ProcStates, Aims, DepthCounts
  <2>2. Locked'
    BY <1>2, ProcsAssumption DEF IInv, Compare, TypeOK, ProcStates, Aims, Locked,
       HeldInside, HeldByThem, ChildIsLent
  <2>3. DepthCounts'
    BY <1>2 DEF IInv, Compare, TypeOK, ProcStates, Aims, DepthCounts
  <2>4. Generations'
    BY <1>2 DEF IInv, Compare, TypeOK, ProcStates, Aims, Locked, HeldInside, HeldByThem,
       ChildIsLent, Generations, HolderIsCurrent, HolderIsNewer, NextIsNewer,
       PromptsDiffer, PromptsAreOld, StaleIsOlder, ActsOnLoadedChange
  <2> QED
    BY <2>1, <2>2, <2>3, <2>4 DEF IInv
<1> QED
  BY <1>1, <1>2

LEMMA WriteKeeps == ASSUME NEW p \in Procs, IInv, Write(p) PROVE IInv'
<1>1. TypeOK'
  BY BoundsAssumption DEF IInv, Write, Working, Worked, Alters, Asking, Sharing, TypeOK,
     ProcStates, Aims, DepthCounts
<1>2. Locked'
  BY ProcsAssumption DEF IInv, Write, Working, Worked, Alters, Asking, Sharing, TypeOK,
     ProcStates, Aims, Locked, HeldInside, HeldByThem, ChildIsLent
<1>3. DepthCounts'
  BY DEF IInv, Write, Working, Worked, Alters, Asking, Sharing, TypeOK, ProcStates, Aims,
     DepthCounts
<1>4. Generations'
  BY DEF IInv, Write, Working, Worked, Alters, Asking, Sharing, TypeOK, ProcStates, Aims, Locked,
     HeldInside, HeldByThem, ChildIsLent, Generations, HolderIsCurrent, HolderIsNewer,
     NextIsNewer, PromptsDiffer, PromptsAreOld, StaleIsOlder, ActsOnLoadedChange
<1> QED
  BY <1>1, <1>2, <1>3, <1>4 DEF IInv

LEMMA NestKeeps == ASSUME NEW p \in Procs, IInv, Nest(p) PROVE IInv'
<1>a. /\ Pc(p) = "act" /\ proc[p].left > 0
      /\ proc' = [proc EXCEPT ![p].depth = @ + 1, ![p].inner = @ + 1, ![p].left = @ - 1]
  BY DEF IInv, Nest, Working, Enter, DepthCounts, TypeOK, ProcStates
<1>1. TypeOK'
  BY <1>a, BoundsAssumption DEF IInv, Nest, TypeOK, ProcStates, Aims, DepthCounts
<1>2. Locked'
  BY <1>a, ProcsAssumption DEF IInv, Nest, TypeOK, ProcStates, Aims, Locked, HeldInside,
     HeldByThem, ChildIsLent
<1>3. DepthCounts'
  BY <1>a DEF IInv, Nest, TypeOK, ProcStates, Aims, DepthCounts
<1>4. Generations'
  BY <1>a DEF IInv, Nest, TypeOK, ProcStates, Aims, Locked, HeldInside, HeldByThem,
     ChildIsLent, Generations, HolderIsCurrent, HolderIsNewer, NextIsNewer,
     PromptsDiffer, PromptsAreOld, StaleIsOlder, ActsOnLoadedChange
<1> QED
  BY <1>1, <1>2, <1>3, <1>4 DEF IInv

LEMMA UnnestKeeps == ASSUME NEW p \in Procs, IInv, Unnest(p) PROVE IInv'
<1>1. TypeOK'
  BY BoundsAssumption DEF IInv, Unnest, TypeOK, ProcStates, Aims, DepthCounts
<1>2. Locked'
  BY ProcsAssumption DEF IInv, Unnest, TypeOK, ProcStates, Aims, Locked, HeldInside,
     HeldByThem, ChildIsLent
<1>3. DepthCounts'
  BY DEF IInv, Unnest, TypeOK, ProcStates, Aims, DepthCounts
<1>4. Generations'
  BY DEF IInv, Unnest, TypeOK, ProcStates, Aims, Locked, HeldInside, HeldByThem,
     ChildIsLent, Generations, HolderIsCurrent, HolderIsNewer, NextIsNewer,
     PromptsDiffer, PromptsAreOld, StaleIsOlder, ActsOnLoadedChange
<1> QED
  BY <1>1, <1>2, <1>3, <1>4 DEF IInv

LEMMA LendKeeps == ASSUME NEW p \in Procs, IInv, Lend(p) PROVE IInv'
<1>a. /\ Pc(p) = "act" /\ proc[p].left > 0
      /\ proc' = [proc EXCEPT ![p].left = @ - 1, ![p].lent = TRUE]
  BY DEF IInv, Lend, Working, Worked, TypeOK, ProcStates
<1>b. proc[p].left - 1 \in Nat /\ proc[p] \in ProcStates
  BY <1>a DEF IInv, TypeOK, ProcStates
<1>c. proc' \in [Procs -> ProcStates]
  BY <1>a, <1>b DEF IInv, TypeOK, ProcStates
<1>1. TypeOK'
  BY <1>c DEF IInv, Lend, TypeOK, Aims, DepthCounts
<1>2. Locked'
  BY <1>a, ProcsAssumption DEF IInv, Lend, TypeOK, ProcStates, Aims, Locked, HeldInside,
     HeldByThem, ChildIsLent
<1>3. DepthCounts'
  BY <1>a DEF IInv, Lend, TypeOK, ProcStates, Aims, DepthCounts
<1>4. Generations'
  BY <1>a DEF IInv, Lend, TypeOK, ProcStates, Aims, Locked, HeldInside, HeldByThem,
     ChildIsLent, Generations, HolderIsCurrent, HolderIsNewer, NextIsNewer,
     PromptsDiffer, PromptsAreOld, StaleIsOlder, ActsOnLoadedChange
<1> QED
  BY <1>1, <1>2, <1>3, <1>4 DEF IInv

LEMMA FinishKeeps == ASSUME NEW p \in Procs, IInv, Finish(p) PROVE IInv'
<1>a. Pc(p) \in {"act", "cleanup"}
  BY DEF Finish
<1>1. CASE Leave(p, "wait", "load")
  <2>a. /\ proc' = [proc EXCEPT ![p] = [Out EXCEPT !.pc = "wait", !.aim = "load"]]
        /\ flock' = Unlocked(p) /\ UNCHANGED <<counter, child, stale, excused, started>>
    BY <1>1 DEF Finish, Leave
  <2>1. TypeOK'
    BY <1>a, <2>a, BoundsAssumption DEF IInv, Unlocked, Out, TypeOK, ProcStates, Aims,
       DepthCounts
  <2>2. Locked'
    BY <1>a, <2>a, ProcsAssumption DEF IInv, Unlocked, Out, TypeOK, ProcStates, Aims,
       Locked, HeldInside, HeldByThem, ChildIsLent
  <2>3. DepthCounts'
    BY <1>a, <2>a DEF IInv, Unlocked, Out, TypeOK, ProcStates, Aims, DepthCounts
  <2>4. Generations'
    BY <1>a, <2>a DEF IInv, Unlocked, Out, TypeOK, ProcStates, Aims, Locked, HeldInside,
       HeldByThem, ChildIsLent, Generations, HolderIsCurrent, HolderIsNewer,
       NextIsNewer, PromptsDiffer, PromptsAreOld, StaleIsOlder, ActsOnLoadedChange
  <2> QED
    BY <2>1, <2>2, <2>3, <2>4 DEF IInv
<1>2. CASE Leave(p, "out", "run")
  <2>a. /\ proc' = [proc EXCEPT ![p] = [Out EXCEPT !.pc = "out", !.aim = "run"]]
        /\ flock' = Unlocked(p) /\ UNCHANGED <<counter, child, stale, excused, started>>
    BY <1>2 DEF Finish, Leave
  <2>1. TypeOK'
    BY <1>a, <2>a, BoundsAssumption DEF IInv, Unlocked, Out, TypeOK, ProcStates, Aims,
       DepthCounts
  <2>2. Locked'
    BY <1>a, <2>a, ProcsAssumption DEF IInv, Unlocked, Out, TypeOK, ProcStates, Aims,
       Locked, HeldInside, HeldByThem, ChildIsLent
  <2>3. DepthCounts'
    BY <1>a, <2>a DEF IInv, Unlocked, Out, TypeOK, ProcStates, Aims, DepthCounts
  <2>4. Generations'
    BY <1>a, <2>a DEF IInv, Unlocked, Out, TypeOK, ProcStates, Aims, Locked, HeldInside,
       HeldByThem, ChildIsLent, Generations, HolderIsCurrent, HolderIsNewer,
       NextIsNewer, PromptsDiffer, PromptsAreOld, StaleIsOlder, ActsOnLoadedChange
  <2> QED
    BY <2>1, <2>2, <2>3, <2>4 DEF IInv
<1> QED
  BY <1>1, <1>2 DEF Finish

LEMMA RefusePromptKeeps == ASSUME NEW p \in Procs, IInv, RefusePrompt(p) PROVE IInv'
<1>1. TypeOK'
  BY BoundsAssumption DEF IInv, RefusePrompt, Working, Leave, Unlocked, Out, TypeOK,
     ProcStates, Aims, DepthCounts
<1>2. Locked'
  BY ProcsAssumption DEF IInv, RefusePrompt, Working, Leave, Unlocked, Out, TypeOK,
     ProcStates, Aims, Locked, HeldInside, HeldByThem, ChildIsLent
<1>3. DepthCounts'
  BY DEF IInv, RefusePrompt, Working, Leave, Unlocked, Out, TypeOK, ProcStates, Aims,
     DepthCounts
<1>4. Generations'
  BY DEF IInv, RefusePrompt, Working, Leave, Unlocked, Out, TypeOK, ProcStates, Aims,
     Locked, HeldInside, HeldByThem, ChildIsLent, Generations, HolderIsCurrent,
     HolderIsNewer, NextIsNewer, PromptsDiffer, PromptsAreOld, StaleIsOlder,
     ActsOnLoadedChange
<1> QED
  BY <1>1, <1>2, <1>3, <1>4 DEF IInv

LEMMA OpenPromptKeeps == ASSUME NEW p \in Procs, IInv, OpenPrompt(p) PROVE IInv'
<1>1. TypeOK'
  BY BoundsAssumption DEF IInv, OpenPrompt, Working, Worked, TypeOK, ProcStates, Aims,
     DepthCounts
<1>2. Locked'
  BY ProcsAssumption DEF IInv, OpenPrompt, Working, Worked, TypeOK, ProcStates, Aims,
     Locked, HeldInside, HeldByThem, ChildIsLent
<1>3. DepthCounts'
  BY DEF IInv, OpenPrompt, Working, Worked, TypeOK, ProcStates, Aims, DepthCounts
<1>4. Generations'
  BY DEF IInv, OpenPrompt, Working, Worked, TypeOK, ProcStates, Aims, Locked,
     HeldInside, HeldByThem, ChildIsLent, Generations, HolderIsCurrent, HolderIsNewer,
     NextIsNewer, PromptsDiffer, PromptsAreOld, StaleIsOlder, ActsOnLoadedChange
<1> QED
  BY <1>1, <1>2, <1>3, <1>4 DEF IInv

LEMMA ReplyKeeps == ASSUME NEW p \in Procs, IInv, Reply(p) PROVE IInv'
<1>1. TypeOK'
  BY BoundsAssumption DEF IInv, Reply, TypeOK, ProcStates, Aims, DepthCounts
<1>2. Locked'
  BY ProcsAssumption DEF IInv, Reply, TypeOK, ProcStates, Aims, Locked, HeldInside,
     HeldByThem, ChildIsLent
<1>3. DepthCounts'
  BY DEF IInv, Reply, TypeOK, ProcStates, Aims, DepthCounts
<1>4. Generations'
  BY DEF IInv, Reply, TypeOK, ProcStates, Aims, Locked, HeldInside, HeldByThem,
     ChildIsLent, Generations, HolderIsCurrent, HolderIsNewer, NextIsNewer,
     PromptsDiffer, PromptsAreOld, StaleIsOlder, ActsOnLoadedChange
<1> QED
  BY <1>1, <1>2, <1>3, <1>4 DEF IInv

LEMMA RelockKeeps == ASSUME NEW p \in Procs, IInv, Relock(p) PROVE IInv'
<1>a. Pc(p) = "answered" /\ flock = None
  BY DEF Relock
<1>1. CASE counter = Gen(p)
  <2>a. /\ flock' = p /\ UNCHANGED <<counter, child, stale, excused, started>>
        /\ proc' = [proc EXCEPT ![p].pc = "act", ![p].depth = proc[p].kept, ![p].kept = 0,
                                ![p].gen = counter]
    BY <1>1 DEF IInv, TypeOK, ProcStates, Relock, Restored
  <2>1. TypeOK'
    BY <1>a, <1>1, <2>a, BoundsAssumption DEF IInv, TypeOK, ProcStates, Aims,
       DepthCounts
  <2>2. Locked'
    BY <1>a, <1>1, <2>a, ProcsAssumption DEF IInv, TypeOK, ProcStates, Aims, Locked,
       HeldInside, HeldByThem, ChildIsLent
  <2>3. DepthCounts'
    BY <1>a, <1>1, <2>a DEF IInv, TypeOK, ProcStates, Aims, DepthCounts
  <2>4. Generations'
    <3>1. HolderIsCurrent'
      BY <1>a, <1>1, <2>a, ProcsAssumption DEF IInv, TypeOK, ProcStates, Aims, Locked,
         Generations, HeldInside, HolderIsCurrent, HolderIsNewer, NextIsNewer,
         PromptsDiffer, PromptsAreOld, StaleIsOlder
    <3>2. HolderIsNewer'
      BY <1>a, <1>1, <2>a, ProcsAssumption DEF IInv, TypeOK, ProcStates, Aims, Locked,
         Generations, HeldInside, HolderIsCurrent, HolderIsNewer, NextIsNewer,
         PromptsDiffer, PromptsAreOld, StaleIsOlder
    <3>3. NextIsNewer'
      BY <1>a, <1>1, <2>a, ProcsAssumption DEF IInv, TypeOK, ProcStates, Aims, Locked,
         Generations, HeldInside, HolderIsCurrent, HolderIsNewer, NextIsNewer,
         PromptsDiffer, PromptsAreOld, StaleIsOlder
    <3>4. PromptsDiffer'
      BY <1>a, <1>1, <2>a, ProcsAssumption DEF IInv, TypeOK, ProcStates, Aims, Locked,
         Generations, HeldInside, HolderIsCurrent, HolderIsNewer, NextIsNewer,
         PromptsDiffer, PromptsAreOld, StaleIsOlder
    <3>5. PromptsAreOld'
      BY <1>a, <1>1, <2>a, ProcsAssumption DEF IInv, TypeOK, ProcStates, Aims, Locked,
         Generations, HeldInside, HolderIsCurrent, HolderIsNewer, NextIsNewer,
         PromptsDiffer, PromptsAreOld, StaleIsOlder
    <3>6. StaleIsOlder'
      BY <1>a, <1>1, <2>a, ProcsAssumption DEF IInv, TypeOK, ProcStates, Aims, Locked,
         Generations, HeldInside, HolderIsCurrent, HolderIsNewer, NextIsNewer,
         PromptsDiffer, PromptsAreOld, StaleIsOlder
    <3>7. ActsOnLoadedChange'
      BY <1>a, <1>1, <2>a, ProcsAssumption DEF IInv, TypeOK, ProcStates, Aims, Locked,
         Generations, HeldInside, HolderIsCurrent, HolderIsNewer, NextIsNewer,
         PromptsDiffer, PromptsAreOld, StaleIsOlder, ActsOnLoadedChange
    <3> QED
      BY <3>1, <3>2, <3>3, <3>4, <3>5, <3>6, <3>7 DEF Generations
  <2> QED
    BY <2>1, <2>2, <2>3, <2>4 DEF IInv
<1>2. CASE counter # Gen(p)
  <2>a. /\ proc' = [proc EXCEPT ![p] = [Out EXCEPT !.pc = "wait", !.aim = "load"]]
        /\ flock' = Unlocked(p) /\ UNCHANGED <<counter, child, stale, excused, started>>
    BY <1>2 DEF Relock, Leave
  <2>1. TypeOK'
    BY <1>a, <2>a, BoundsAssumption DEF IInv, Unlocked, Out, TypeOK, ProcStates, Aims,
       DepthCounts
  <2>2. Locked'
    BY <1>a, <2>a, ProcsAssumption DEF IInv, Unlocked, Out, TypeOK, ProcStates, Aims,
       Locked, HeldInside, HeldByThem, ChildIsLent
  <2>3. DepthCounts'
    BY <1>a, <2>a DEF IInv, Unlocked, Out, TypeOK, ProcStates, Aims, DepthCounts
  <2>4. Generations'
    BY <1>a, <2>a DEF IInv, Unlocked, Out, TypeOK, ProcStates, Aims, Locked, HeldInside,
       HeldByThem, ChildIsLent, Generations, HolderIsCurrent, HolderIsNewer,
       NextIsNewer, PromptsDiffer, PromptsAreOld, StaleIsOlder, ActsOnLoadedChange
  <2> QED
    BY <2>1, <2>2, <2>3, <2>4 DEF IInv
<1> QED
  BY <1>1, <1>2

LEMMA RelockCanceledKeeps == ASSUME NEW p \in Procs, IInv, RelockCanceled(p) PROVE IInv'
<1>1. TypeOK'
  BY BoundsAssumption DEF IInv, RelockCanceled, Restored, Asking, Sharing, TypeOK, ProcStates, Aims,
     DepthCounts
<1>2. Locked'
  BY ProcsAssumption DEF IInv, RelockCanceled, Restored, Asking, Sharing, TypeOK, ProcStates, Aims,
     Locked, HeldInside, HeldByThem, ChildIsLent
<1>3. DepthCounts'
  BY DEF IInv, RelockCanceled, Restored, Asking, Sharing, TypeOK, ProcStates, Aims, DepthCounts
<1>4. Generations'
  <2>a. /\ Pc(p) = "canceled" /\ flock = None
        /\ proc' = [proc EXCEPT ![p].pc = "cleanup", ![p].depth = proc[p].kept,
                                ![p].kept = 0, ![p].gen = counter]
        /\ UNCHANGED <<counter, child, stale, started>>
        /\ excused' = IF Sharing \ {p} = {} THEN excused ELSE excused \cup {p}
    BY DEF RelockCanceled, Restored
  <2>b. ~Emptied /\ \A q \in Procs : Pc(q) \notin Inside
    BY <2>a, ProcsAssumption DEF IInv, TypeOK, Locked, HeldInside
  <2>c. /\ excused' = excused \/ excused' = excused \cup {p}
        /\ p \in excused' \/ \A q \in Procs \ {p} : Pc(q) \in Prompting => Gen(q) # counter
    <3>1. CASE Sharing \ {p} = {}
      BY <2>a, <3>1 DEF Asking, Sharing
    <3>2. CASE Sharing \ {p} # {}
      BY <2>a, <3>2
    <3> QED BY <3>1, <3>2
  <2>d. \A q \in Procs : Gen(q) \in Nat /\ counter \in Nat
    BY DEF IInv, TypeOK, ProcStates
  <2>e. /\ Pc(p)' = "cleanup" /\ Gen(p)' = counter
        /\ \A q \in Procs \ {p} : Pc(q)' = Pc(q) /\ Gen(q)' = Gen(q)
    BY <2>a DEF IInv, TypeOK, ProcStates
  <2>f. \A q \in Procs : Warned(q)' => q # p /\ Warned(q) /\ Gen(q)' = Gen(q)
    BY <2>c, <2>e
  <2>g. \A q \in Procs : Pc(q)' \in Inside => q = p
    BY <2>b, <2>e
  <2>1. HolderIsCurrent'
    BY <2>a, <2>b, <2>c, <2>d, <2>e DEF IInv, Generations, HolderIsCurrent
  <2>2. HolderIsNewer'
    <3>1. SUFFICES ASSUME NEW q \in Procs, Warned(q)', p \notin excused'
                   PROVE  Gen(q)' < Gen(p)'
      BY <2>g DEF HolderIsNewer
    <3>2. Gen(q) # counter /\ (Gen(q) <= counter \/ Emptied)
      BY <2>c, <2>f, <3>1 DEF IInv, Generations, PromptsAreOld
    <3> QED BY <2>b, <2>d, <2>e, <2>f, <3>1, <3>2
  <2>3. NextIsNewer'
    BY <2>a, <2>b, <2>c, <2>d, <2>e DEF IInv, Generations, NextIsNewer
  <2>4. PromptsDiffer'
    BY <2>f DEF IInv, Generations, PromptsDiffer
  <2>5. PromptsAreOld'
    BY <2>a, <2>b, <2>c, <2>d, <2>e DEF IInv, Generations, PromptsAreOld
  <2>6. StaleIsOlder'
    BY <2>a, <2>b, <2>c, <2>d, <2>e DEF IInv, Generations, StaleIsOlder
  <2>7. ActsOnLoadedChange'
    BY <2>a, <2>b, <2>c, <2>d, <2>e DEF IInv, Generations, ActsOnLoadedChange
  <2> QED
    BY <2>1, <2>2, <2>3, <2>4, <2>5, <2>6, <2>7 DEF Generations
<1> QED
  BY <1>1, <1>2, <1>3, <1>4 DEF IInv

LEMMA CleanupKeeps == ASSUME NEW p \in Procs, IInv, Cleanup(p) PROVE IInv'
<1>a. /\ Pc(p) = "cleanup" /\ stale' \subseteq Procs /\ excused' \subseteq Procs
      /\ proc' = [proc EXCEPT ![p].left = @ - 1] /\ proc[p].left > 0
  BY DEF IInv, Cleanup, Worked, Alters, Asking, Sharing, TypeOK, ProcStates
<1>1. TypeOK'
  BY <1>a, BoundsAssumption DEF IInv, Cleanup, Alters, Asking, Sharing, TypeOK, ProcStates, Aims,
     DepthCounts
<1>2. Locked'
  BY <1>a, ProcsAssumption DEF IInv, Cleanup, Alters, Asking, Sharing, TypeOK, ProcStates, Aims,
     Locked, HeldInside, HeldByThem, ChildIsLent
<1>3. DepthCounts'
  BY <1>a DEF IInv, Cleanup, Alters, Asking, Sharing, TypeOK, ProcStates, Aims, DepthCounts
<1>4. Generations'
  <2>1. HolderIsCurrent'
    BY <1>a, ProcsAssumption DEF IInv, Cleanup, Alters, Asking, Sharing, TypeOK, ProcStates,
       Aims, Locked, Generations, HeldInside, HolderIsCurrent, HolderIsNewer,
       NextIsNewer, PromptsDiffer, PromptsAreOld, StaleIsOlder
  <2>2. HolderIsNewer'
    BY <1>a, ProcsAssumption DEF IInv, Cleanup, Alters, Asking, Sharing, TypeOK, ProcStates,
       Aims, Locked, Generations, HeldInside, HolderIsCurrent, HolderIsNewer,
       NextIsNewer, PromptsDiffer, PromptsAreOld, StaleIsOlder
  <2>3. NextIsNewer'
    BY <1>a, ProcsAssumption DEF IInv, Cleanup, Alters, Asking, Sharing, TypeOK, ProcStates,
       Aims, Locked, Generations, HeldInside, HolderIsCurrent, HolderIsNewer,
       NextIsNewer, PromptsDiffer, PromptsAreOld, StaleIsOlder
  <2>4. PromptsDiffer'
    BY <1>a, ProcsAssumption DEF IInv, Cleanup, Alters, Asking, Sharing, TypeOK, ProcStates,
       Aims, Locked, Generations, HeldInside, HolderIsCurrent, HolderIsNewer,
       NextIsNewer, PromptsDiffer, PromptsAreOld, StaleIsOlder
  <2>5. PromptsAreOld'
    BY <1>a, ProcsAssumption DEF IInv, Cleanup, Alters, Asking, Sharing, TypeOK, ProcStates,
       Aims, Locked, Generations, HeldInside, HolderIsCurrent, HolderIsNewer,
       NextIsNewer, PromptsDiffer, PromptsAreOld, StaleIsOlder
  <2>6. StaleIsOlder'
    BY <1>a, ProcsAssumption DEF IInv, Cleanup, Alters, Asking, Sharing, TypeOK, ProcStates,
       Aims, Locked, Generations, HeldInside, HolderIsCurrent, HolderIsNewer,
       NextIsNewer, PromptsDiffer, PromptsAreOld, StaleIsOlder
  <2>7. ActsOnLoadedChange'
    BY <1>a, ProcsAssumption DEF IInv, Cleanup, Alters, Asking, Sharing, TypeOK, ProcStates,
       Aims, Locked, Generations, HeldInside, HolderIsCurrent, HolderIsNewer,
       NextIsNewer, PromptsDiffer, PromptsAreOld, StaleIsOlder, ActsOnLoadedChange
  <2> QED
    BY <2>1, <2>2, <2>3, <2>4, <2>5, <2>6, <2>7 DEF Generations
<1> QED
  BY <1>1, <1>2, <1>3, <1>4 DEF IInv

LEMMA ShowAgainKeeps == ASSUME NEW p \in Procs, IInv, ShowAgain(p) PROVE IInv'
<1>1. TypeOK'
  BY BoundsAssumption DEF IInv, ShowAgain, TypeOK, ProcStates, Aims, DepthCounts
<1>2. Locked'
  BY ProcsAssumption DEF IInv, ShowAgain, TypeOK, ProcStates, Aims, Locked, HeldInside,
     HeldByThem, ChildIsLent
<1>3. DepthCounts'
  BY DEF IInv, ShowAgain, TypeOK, ProcStates, Aims, DepthCounts
<1>4. Generations'
  BY DEF IInv, ShowAgain, TypeOK, ProcStates, Aims, Locked, HeldInside, HeldByThem,
     ChildIsLent, Generations, HolderIsCurrent, HolderIsNewer, NextIsNewer,
     PromptsDiffer, PromptsAreOld, StaleIsOlder, ActsOnLoadedChange
<1> QED
  BY <1>1, <1>2, <1>3, <1>4 DEF IInv

LEMMA DieKeeps == ASSUME NEW p \in Procs, IInv, Die(p) PROVE IInv'
<1>1. TypeOK'
  BY BoundsAssumption DEF IInv, Die, Leave, Unlocked, Out, Asking, TypeOK, ProcStates,
     Aims, DepthCounts
<1>2. Locked'
  BY ProcsAssumption DEF IInv, Die, Leave, Unlocked, Out, Asking, TypeOK, ProcStates,
     Aims, Locked, HeldInside, HeldByThem, ChildIsLent
<1>3. DepthCounts'
  BY DEF IInv, Die, Leave, Unlocked, Out, Asking, TypeOK, ProcStates, Aims, DepthCounts
<1>4. Generations'
  BY DEF IInv, Die, Leave, Unlocked, Out, Asking, TypeOK, ProcStates, Aims, Locked,
     HeldInside, HeldByThem, ChildIsLent, Generations, HolderIsCurrent, HolderIsNewer,
     NextIsNewer, PromptsDiffer, PromptsAreOld, StaleIsOlder, ActsOnLoadedChange
<1> QED
  BY <1>1, <1>2, <1>3, <1>4 DEF IInv

LEMMA ChildEndsKeeps == ASSUME NEW p \in Procs, IInv, ChildEnds(p) PROVE IInv'
<1>1. TypeOK'
  BY BoundsAssumption DEF IInv, ChildEnds, TypeOK, ProcStates, Aims, DepthCounts
<1>2. Locked'
  BY ProcsAssumption DEF IInv, ChildEnds, TypeOK, ProcStates, Aims, Locked, HeldInside,
     HeldByThem, ChildIsLent
<1>3. DepthCounts'
  BY DEF IInv, ChildEnds, TypeOK, ProcStates, Aims, DepthCounts
<1>4. Generations'
  BY DEF IInv, ChildEnds, TypeOK, ProcStates, Aims, Locked, HeldInside, HeldByThem,
     ChildIsLent, Generations, HolderIsCurrent, HolderIsNewer, NextIsNewer,
     PromptsDiffer, PromptsAreOld, StaleIsOlder, ActsOnLoadedChange
<1> QED
  BY <1>1, <1>2, <1>3, <1>4 DEF IInv

LEMMA InitHolds == Init => IInv
  BY ProcsAssumption, BoundsAssumption DEF Init, Out, IInv, TypeOK, ProcStates, Aims,
     Locked, HeldInside, HeldByThem, ChildIsLent, DepthCounts, Generations,
     HolderIsCurrent, HolderIsNewer, NextIsNewer, PromptsDiffer, PromptsAreOld,
     StaleIsOlder, ActsOnLoadedChange

LEMMA StutterKeeps == ASSUME IInv, UNCHANGED vars PROVE IInv'
  BY DEF vars, IInv, TypeOK, ProcStates, Locked, HeldInside, HeldByThem, ChildIsLent,
     DepthCounts, Generations, HolderIsCurrent, HolderIsNewer, NextIsNewer,
     PromptsDiffer, PromptsAreOld, StaleIsOlder, ActsOnLoadedChange

\* One lemma per step of the lock's users.
LEMMA NextKeeps == IInv /\ [Next]_vars => IInv'
<1> SUFFICES ASSUME IInv, [Next]_vars PROVE IInv'
  OBVIOUS
<1>1. CASE UNCHANGED vars
  BY <1>1, StutterKeeps
<1>2. ASSUME NEW p \in Procs, Changes(p) PROVE IInv'
  BY <1>2, WriteKeeps, CleanupKeeps DEF Changes
<1>3. ASSUME NEW p \in Procs, Goes(p) PROVE IInv'
  BY <1>3, TruncateKeeps, PublishKeeps, LoadKeeps, CompareKeeps, NestKeeps,
     UnnestKeeps, LendKeeps, FinishKeeps, RefusePromptKeeps, OpenPromptKeeps,
     ShowAgainKeeps DEF Goes
<1>4. ASSUME NEW p \in Procs, Locks(p) PROVE IInv'
  BY <1>4, TakeFlockKeeps, RelockKeeps, RelockCanceledKeeps DEF Locks
<1>5. ASSUME NEW p \in Procs, Users(p) PROVE IInv'
  BY <1>5, BeginKeeps, DispatchKeeps, ReplyKeeps DEF Users
<1> QED
  BY <1>1, <1>2, <1>3, <1>4, <1>5, DieKeeps, ChildEndsKeeps DEF Next, Keeps

\* Every state of the lock's users satisfies the invariant.
THEOREM Inductive == Spec => []IInv
BY NextKeeps, InitHolds, PTL DEF Spec

\* The lock file, the flock and every process have the values they can have.
THEOREM TypeCorrect == Spec => []TypeOK
<1>1. IInv => TypeOK
  BY DEF IInv
<1> QED
  BY <1>1, Inductive, PTL

\* One process, with its children, works under the session lock at a time
\* (acquire_session_lock, temporarily_release_session_lock).
THEOREM Exclusive == Spec => []OneWriter
<1>1. IInv => OneWriter
  BY DEF IInv, Locked, HeldInside, OneWriter
<1> QED
  BY <1>1, Inductive, PTL

\* No process waits for the flock that it holds (acquire_session_lock's depth).
THEOREM NeverWaitsForItself == Spec => []NoSelfDeadlock
<1>1. IInv => NoSelfDeadlock
  BY DEF IInv, Locked, HeldByThem, NoSelfDeadlock
<1> QED
  BY <1>1, Inductive, PTL

\* What an interactive action acts on is the change loaded or shown for its user,
\* however many prompts are open (temporarily_release_session_lock's comparison).
THEOREM ActsKnowingly == Spec => []ActsOnLoadedChange
<1>1. IInv => ActsOnLoadedChange
  BY DEF IInv, Generations
<1> QED
  BY <1>1, Inductive, PTL

-----------------------------------------------------------------------------
(* The cached summary                                                          *)

Entries == [marker : Nat, gen : Nat, exact : BOOLEAN, true : BOOLEAN]

CacheTypeOK ==
  /\ entry \in Entries /\ reader \in Entries
  /\ worker \in [pc : {"none", "read", "reading", "write"}, marker : Nat, gen : Nat, true : BOOLEAN]
  /\ marker \in Nat /\ sessions \in Nat
  /\ prompted \subseteq Procs /\ murky \subseteq Nat

\* The generations that an entry, or the worker that is to write one, claims.
Claimed ==
  {e.gen : e \in {x \in {entry, reader} : x.exact}}
    \cup (IF worker.pc = "none" THEN {} ELSE {worker.gen})

\* No generation is claimed that the lock file has not reached.
ClaimsReached ==
  \A g \in Claimed \ murky :
    IF Emptied THEN \A q \in Procs : Pc(q) = "publish" => g < Gen(q) ELSE g <= counter

\* One who alters state does it under a generation that nobody claims yet, or
\* has been through a prompt.
AltersFresh ==
  \A p \in Procs :
    /\ Pc(p) \in {"load", "compare", "act"} /\ proc[p].left > 0 /\ p \notin prompted
    => \A g \in Claimed \ murky : g < counter

PromptedAre == \A p \in Procs : Pc(p) \in Prompting \cup {"cleanup"} => p \in prompted

\* No reading of the lock file will find this generation in it again.
Past(g) == g \in murky \/ g < counter \/ Emptied

ClaimsTrue ==
  /\ \A e \in {entry, reader} : e.exact => e.true \/ Past(e.gen)
  /\ worker.pc \in {"reading", "write"} => worker.true \/ Past(worker.gen)

CacheInv == CacheTypeOK /\ ClaimsReached /\ AltersFresh /\ PromptedAre /\ ClaimsTrue

\* Where a command of the lock's users may bring the lock file and itself.
MovesTo(p) ==
  \/ Pc(p) = "truncate" /\ Pc(p)' = "publish" /\ counter' = 0 /\ Gen(p)' = counter + 1
  \/ /\ Pc(p) = "publish" /\ Pc(p)' \in {"load", "compare", "act"} /\ counter' = Gen(p)
  \/ Pc(p) = "publish" /\ Pc(p)' = "out" /\ UNCHANGED counter
  \/ /\ Pc(p) # "publish" /\ Pc(p)' # "publish" /\ UNCHANGED counter
     /\ Pc(p)' \in {"load", "compare", "act"} =>
          \/ Pc(p) \in {"load", "compare", "act"} /\ (proc[p].left)' <= proc[p].left
          \/ Pc(p) \in {"answered", "cleanup"}
     /\ Pc(p)' \in {"answered", "canceled", "cleanup"} => Pc(p) \in Prompting \cup {"cleanup"}

LEMMA KeepsMoves ==
  ASSUME NEW p \in Procs, IInv, Keeps(p)
  PROVE  MovesTo(p) /\ \A q \in Procs \ {p} : proc'[q] = proc[q]
<1>0. proc \in [Procs -> ProcStates] /\ counter \in Nat /\ proc[p].left \in Nat /\ Gen(p) \in Nat
  BY DEF IInv, TypeOK, ProcStates
<1>1. CASE Truncate(p)
  BY <1>0, <1>1 DEF Truncate, MovesTo, ProcStates
<1>2. CASE Publish(p)
  <2>1. proc[p].aim \in Aims
    BY <1>0 DEF ProcStates
  <2> QED BY <1>0, <1>2, <2>1 DEF Publish, MovesTo, ProcStates, Aims
<1>3. CASE Die(p)
  BY <1>0, <1>3 DEF Die, Leave, MovesTo, Out, ProcStates
<1>4. CASE ChildEnds(p)
  <2>1. Pc(p) # "publish"
    BY <1>4 DEF ChildEnds, IInv, Locked, ChildIsLent
  <2> QED BY <1>0, <1>4, <2>1 DEF ChildEnds, MovesTo
<1>5. ASSUME NEW aim, NEW pc \in {"out", "ask", "wait"}, Leave(p, pc, aim), Pc(p) # "publish",
             UNCHANGED counter
      PROVE  MovesTo(p) /\ \A q \in Procs \ {p} : proc'[q] = proc[q]
  <2>1. (proc'[p]).pc = pc /\ \A q \in Procs \ {p} : proc'[q] = proc[q]
    BY <1>0, <1>5 DEF Leave, Out
  <2> QED BY <1>5, <2>1 DEF MovesTo
<1>11. ASSUME NEW pc \in {"load", "compare", "act"}, Pc(p) \in {"load", "compare", "act", "cleanup"},
              proc'[p].pc = IF Pc(p) = "cleanup" THEN "cleanup" ELSE pc,
              proc'[p].left <= proc[p].left, UNCHANGED counter,
              \A q \in Procs \ {p} : proc'[q] = proc[q]
       PROVE  MovesTo(p) /\ \A q \in Procs \ {p} : proc'[q] = proc[q]
  BY <1>11 DEF MovesTo
<1>12. CASE Load(p)
  BY <1>5, <1>12 DEF Load
<1>13. CASE Compare(p)
  <2>1. CASE Leave(p, "wait", "load")
    BY <1>5, <1>13, <2>1 DEF Compare
  <2>2. CASE Goto(p, "act")
    BY <1>0, <1>11, <1>13, <2>2 DEF Compare, ProcStates
  <2> QED BY <1>13, <2>1, <2>2 DEF Compare
<1>14. CASE Lend(p)
  BY <1>0, <1>11, <1>14 DEF Lend, Working, ProcStates
<1>15. CASE Unnest(p)
  BY <1>0, <1>11, <1>15 DEF Unnest, ProcStates
<1>6. CASE Nest(p)
  <2>1. proc[p].depth > 0
    BY <1>0, <1>6 DEF Nest, Working, IInv, DepthCounts, ProcStates
  <2> QED BY <1>0, <1>6, <2>1 DEF Nest, Enter, Working, MovesTo, ProcStates
<1>7. CASE Finish(p) \/ RefusePrompt(p)
  BY <1>5, <1>7 DEF Finish, RefusePrompt, Working
<1>19. CASE ShowAgain(p)
  BY <1>0, <1>19 DEF ShowAgain, MovesTo, ProcStates
<1>16. CASE OpenPrompt(p)
  BY <1>0, <1>16 DEF OpenPrompt, Working, Worked, MovesTo, ProcStates
<1>8. CASE TakeFlock(p)
  BY <1>0, <1>8 DEF TakeFlock, MovesTo, ProcStates
<1>17. CASE RelockCanceled(p)
  BY <1>0, <1>17 DEF RelockCanceled, Restored, MovesTo, ProcStates
<1>18. CASE Relock(p)
  <2>1. CASE Leave(p, "wait", "load")
    BY <1>5, <1>18, <2>1 DEF Relock
  <2>2. CASE proc' = Restored(p, "act")
    BY <1>0, <1>18, <2>2 DEF Relock, Restored, MovesTo, ProcStates
  <2> QED BY <1>18, <2>1, <2>2 DEF Relock
<1>9. CASE Begin(p) \/ Dispatch(p)
  <2>1. Pc(p) \in {"out", "ask"} /\ UNCHANGED counter /\ \E aim \in Aims : Enter(p, aim)
    BY <1>9 DEF Begin, Dispatch, Aims
  <2>2. proc[p].depth = 0
    BY <2>1 DEF IInv, DepthCounts
  <2>3. PICK aim \in Aims : Enter(p, aim)
    BY <2>1
  <2>4. proc' = [proc EXCEPT ![p].pc = "wait", ![p].aim = aim, ![p].inner = 0]
    BY <2>2, <2>3 DEF Enter
  <2> QED BY <1>0, <2>1, <2>4 DEF MovesTo, ProcStates
<1>10. CASE Reply(p)
  BY <1>0, <1>10 DEF Reply, MovesTo, ProcStates
<1> QED BY <1>1, <1>2, <1>3, <1>4, <1>5, <1>6, <1>7, <1>8, <1>9, <1>10,
            <1>12, <1>13, <1>14, <1>15, <1>16, <1>17, <1>18, <1>19 DEF Keeps, Goes, Locks, Users

\* One process at a time is where only the holder of the flock can be.
LEMMA OneInside ==
  ASSUME IInv, NEW p \in Procs, NEW q \in Procs, Pc(p) \in Inside, Pc(q) \in Inside
  PROVE  p = q /\ flock = p /\ flock # None
BY ProcsAssumption DEF IInv, Locked, HeldInside

LEMMA CacheKeepsTypes ==
  ASSUME IInv, CacheTypeOK, [CacheNext]_allVars
  PROVE  CacheTypeOK'
<1>0. counter \in Nat /\ \A p \in Procs : Gen(p) \in Nat
  BY DEF IInv, TypeOK, ProcStates
<1>1. ASSUME NEW p \in Procs, Alter(p) PROVE CacheTypeOK'
  <2>1. entry' \in Entries /\ reader' \in Entries
    BY <1>1 DEF Alter, CacheTypeOK, Entries
  <2>2. worker' \in [pc : {"none", "read", "reading", "write"}, marker : Nat, gen : Nat, true : BOOLEAN]
    BY <1>1 DEF Alter, CacheTypeOK
  <2>3. marker' \in Nat /\ sessions' \in Nat
    BY <1>1 DEF Alter, CacheTypeOK
  <2>4. prompted' \subseteq Procs /\ murky' \subseteq Nat
    BY <1>0, <1>1 DEF Alter, CacheTypeOK
  <2> QED BY <2>1, <2>2, <2>3, <2>4 DEF CacheTypeOK
<1>2. ASSUME NEW p \in Procs, Proceed(p) PROVE CacheTypeOK'
  BY <1>0, <1>2 DEF Proceed, CacheTypeOK, Entries
<1>3. ASSUME NEW p \in Procs, CacheExact(p) PROVE CacheTypeOK'
  BY <1>0, <1>3 DEF CacheExact, files, CacheTypeOK, Entries
<1>4. CASE PromptRead
  <2>1. CASE Seed
    <3>1. UNCHANGED <<marker, sessions, prompted, murky, reader, worker>>
      BY <2>1 DEF Seed
    <3>2. \/ entry' = entry
          \/ entry' = [marker |-> marker, gen |-> counter, exact |-> FALSE, true |-> TRUE]
      BY <2>1 DEF Seed
    <3>3. entry' \in Entries
      <4>1. [marker |-> marker, gen |-> counter, exact |-> FALSE, true |-> TRUE] \in Entries
        BY <1>0 DEF CacheTypeOK, Entries
      <4> QED BY <3>2, <4>1 DEF CacheTypeOK
    <3> QED BY <3>1, <3>3 DEF CacheTypeOK
  <2>2. CASE ReadEntry \/ ShowEntry
    <3>1. UNCHANGED <<marker, sessions, prompted, murky, entry, worker>>
      BY <2>2 DEF ReadEntry, ShowEntry, files
    <3>2. reader' = entry \/ reader' = NoEntry
      BY <2>2 DEF ReadEntry, ShowEntry
    <3>3. NoEntry \in Entries
      BY DEF NoEntry, Entries
    <3> QED BY <3>1, <3>2, <3>3 DEF CacheTypeOK
  <2> QED BY <1>4, <2>1, <2>2 DEF PromptRead
<1>5. CASE Refresh \/ WorkerDies
  <2>1. CASE Request \/ Spawn \/ WorkerGivesUp
    BY <2>1 DEF Request, Spawn, WorkerGivesUp, files, CacheTypeOK
  <2>2. CASE StartWorker
    BY <1>0, <2>2 DEF StartWorker, files, CacheTypeOK
  <2>3. CASE BeginSummary
    BY <2>3 DEF BeginSummary, files, CacheTypeOK
  <2>4. CASE CompareGeneration
    <3>1. UNCHANGED <<marker, sessions, prompted, murky, entry, reader>>
      BY <2>4 DEF CompareGeneration, files
    <3>2. worker' = [worker EXCEPT !.pc = "write"] \/ worker' = NoWorker
      BY <2>4 DEF CompareGeneration
    <3>3. worker' \in [pc : {"none", "read", "reading", "write"}, marker : Nat, gen : Nat,
                       true : BOOLEAN]
      <4>1. CASE worker' = NoWorker
        BY <4>1 DEF NoWorker
      <4>2. CASE worker' = [worker EXCEPT !.pc = "write"]
        BY <4>2 DEF CacheTypeOK
      <4> QED BY <3>2, <4>1, <4>2
    <3> QED BY <3>1, <3>3 DEF CacheTypeOK
  <2>5. CASE WriteEntry \/ WorkerDies
    <3>1. UNCHANGED <<marker, sessions, prompted, murky, reader>> /\ worker' = NoWorker
      BY <2>5 DEF WriteEntry, WorkerDies, files
    <3>2. entry' \in Entries
      <4>1. CASE WorkerDies
        BY <4>1 DEF WorkerDies, CacheTypeOK
      <4>2. CASE WriteEntry
        <5>1. worker.marker \in Nat /\ worker.gen \in Nat /\ worker.true \in BOOLEAN
          BY DEF CacheTypeOK
        <5> QED BY <4>2, <5>1 DEF WriteEntry, Entries
      <4> QED BY <2>5, <4>1, <4>2
    <3> QED BY <3>1, <3>2 DEF NoWorker, CacheTypeOK
  <2> QED BY <1>5, <2>1, <2>2, <2>3, <2>4, <2>5 DEF Refresh
<1>6. CASE UNCHANGED allVars
  BY <1>6 DEF allVars, cacheVars, CacheTypeOK
<1> QED BY <1>1, <1>2, <1>3, <1>4, <1>5, <1>6 DEF CacheNext, Commands, PromptRead

\* The status command's caching is no step of the lock's users.
LEMMA ExactKeeps == ASSUME NEW p \in Procs, IInv, CacheExact(p) PROVE IInv'
<1>a. /\ Pc(p) = "act" /\ proc' = [proc EXCEPT ![p].left = 0]
      /\ UNCHANGED <<counter, flock, child, stale, excused, started>>
  BY DEF CacheExact
<1>1. TypeOK'
  BY <1>a DEF IInv, TypeOK, ProcStates, Aims
<1>2. Locked'
  BY <1>a DEF IInv, TypeOK, ProcStates, Aims, Locked, HeldInside, HeldByThem, ChildIsLent
<1>3. DepthCounts'
  BY <1>a DEF IInv, TypeOK, ProcStates, Aims, DepthCounts
<1>4. Generations'
  BY <1>a DEF IInv, TypeOK, ProcStates, Aims, Locked, Generations, HeldInside, HolderIsCurrent,
     HolderIsNewer, NextIsNewer, PromptsDiffer, PromptsAreOld, StaleIsOlder, ActsOnLoadedChange
<1> QED BY <1>1, <1>2, <1>3, <1>4 DEF IInv

LEMMA LockUnderCache == IInv /\ [CacheNext]_allVars => IInv'
<1> SUFFICES ASSUME IInv, [CacheNext]_allVars PROVE IInv'
  OBVIOUS
<1>1. ASSUME NEW p \in Procs, Alter(p) \/ Proceed(p) PROVE IInv'
  BY <1>1, NextKeeps DEF Alter, Proceed, Next
<1>2. ASSUME NEW p \in Procs, CacheExact(p) PROVE IInv'
  BY <1>2, ExactKeeps
<1>3. CASE PromptRead \/ Refresh \/ WorkerDies \/ UNCHANGED allVars
  <2>1. UNCHANGED vars
    BY <1>3 DEF PromptRead, Seed, ReadEntry, ShowEntry, Refresh, Request, Spawn, StartWorker,
       WorkerGivesUp, BeginSummary, CompareGeneration, WriteEntry, WorkerDies, allVars
  <2> QED BY <2>1, NextKeeps
<1> QED BY <1>1, <1>2, <1>3 DEF CacheNext, Commands

LEMMA InsideFacts ==
  ASSUME IInv
  PROVE  /\ counter \in Nat /\ \A p \in Procs : Gen(p) \in Nat /\ proc[p].left \in Nat
         /\ \A p \in Procs : Pc(p) \in {"load", "compare", "act"} => Gen(p) = counter
         /\ \A p, q \in Procs : Pc(p) \in Inside /\ Pc(q) \in Inside => p = q
         /\ flock = None => \A p \in Procs : Pc(p) \notin Inside
<1>1. counter \in Nat /\ \A p \in Procs : Gen(p) \in Nat /\ proc[p].left \in Nat
  BY DEF IInv, TypeOK, ProcStates
<1>2. \A p \in Procs : Pc(p) \in {"load", "compare", "act"} => Gen(p) = counter
  BY DEF IInv, Generations, HolderIsCurrent
<1>3. \A p, q \in Procs : Pc(p) \in Inside /\ Pc(q) \in Inside => p = q
  BY OneInside
<1>4. flock = None => \A p \in Procs : Pc(p) \notin Inside
  BY OneInside
<1> QED BY <1>1, <1>2, <1>3, <1>4

LEMMA ClaimedNat ==
  ASSUME CacheTypeOK
  PROVE  /\ Claimed \subseteq Nat
         /\ \A e \in {entry, reader} : e.exact => e.gen \in Claimed
         /\ worker.pc # "none" => worker.gen \in Claimed
BY DEF CacheTypeOK, Entries, Claimed

\* The entry, the prompt's copy of it and the worker, while commands go on.
LEMMA ClaimsSame ==
  ASSUME UNCHANGED <<entry, reader, worker>>
  PROVE  Claimed' = Claimed
BY DEF Claimed

\* What holds of a generation when a command proceeds: it stays in the past, and
\* reached, unless the command dies with the lock file emptied.
Reached(g) == IF Emptied THEN \A q \in Procs : Pc(q) = "publish" => g < Gen(q) ELSE g <= counter

LEMMA ProceedKeepsPast ==
  ASSUME IInv, NEW p \in Procs, Proceed(p), NEW g \in Nat, g \in murky \/ Reached(g)
  PROVE  /\ g \in murky' \/ Reached(g)'
         /\ Past(g) => Past(g)'
<1>0. /\ counter \in Nat /\ Gen(p) \in Nat /\ MovesTo(p) /\ murky \subseteq murky'
      /\ \A q \in Procs \ {p} : proc'[q] = proc[q]
  BY InsideFacts, KeepsMoves DEF Proceed
<1>1. CASE g \in murky
  BY <1>0, <1>1 DEF Past
<1>2. CASE g \notin murky
  <2>1. CASE Pc(p) = "truncate" /\ Pc(p)' = "publish" /\ counter' = 0 /\ Gen(p)' = counter + 1
    <3>1. \A q \in Procs \ {p} : Pc(q) # "publish" /\ Pc(q)' # "publish"
      BY <1>0, <2>1, InsideFacts
    <3>2. g <= counter
      BY <1>2, <2>1, <3>1 DEF Reached
    <3>3. Emptied' /\ Reached(g)'
      BY <1>0, <2>1, <3>1, <3>2 DEF Reached
    <3> QED BY <3>3 DEF Past
  <2>2. CASE Pc(p) = "publish" /\ Pc(p)' \in {"load", "compare", "act"} /\ counter' = Gen(p)
    <3>1. \A q \in Procs \ {p} : Pc(q)' # "publish"
      BY <1>0, <2>2, InsideFacts
    <3>2. g < Gen(p)
      BY <1>2, <2>2 DEF Reached
    <3>3. ~Emptied' /\ g < counter' /\ g <= counter'
      BY <1>0, <2>2, <3>1, <3>2
    <3> QED BY <3>3 DEF Reached, Past
  <2>3. CASE Pc(p) = "publish" /\ Pc(p)' = "out"
    <3>1. g < Gen(p)
      BY <1>2, <2>3 DEF Reached
    <3>2. g \in murky'
      BY <1>0, <2>3, <3>1 DEF Proceed
    <3> QED BY <3>2 DEF Past
  <2>4. CASE Pc(p) # "publish" /\ Pc(p)' # "publish" /\ UNCHANGED counter
    <3>1. \A q \in Procs : (Pc(q)' = "publish" <=> Pc(q) = "publish")
                           /\ (Pc(q) = "publish" => Gen(q)' = Gen(q))
      BY <1>0, <2>4
    <3>2. Emptied' = Emptied /\ (Reached(g) => Reached(g)')
      BY <2>4, <3>1 DEF Reached
    <3> QED BY <1>2, <2>4, <3>2 DEF Past
  <2> QED BY <1>0, <2>1, <2>2, <2>3, <2>4 DEF MovesTo
<1> QED BY <1>1, <1>2

LEMMA ReachedIs == ClaimsReached <=> \A g \in Claimed : g \in murky \/ Reached(g)
BY DEF ClaimsReached, Reached

LEMMA ProceedKeeps ==
  ASSUME IInv, CacheInv, NEW p \in Procs, Proceed(p)
  PROVE  ClaimsReached' /\ AltersFresh' /\ PromptedAre' /\ ClaimsTrue'
<1>0. /\ MovesTo(p) /\ murky \subseteq murky' /\ UNCHANGED <<entry, reader, worker>>
      /\ \A q \in Procs \ {p} : proc'[q] = proc[q]
  BY KeepsMoves DEF Proceed
<1>1. /\ Claimed' = Claimed /\ Claimed \subseteq Nat
      /\ \A e \in {entry, reader} : e.exact => e.gen \in Claimed
      /\ worker.pc # "none" => worker.gen \in Claimed
  BY <1>0, ClaimsSame, ClaimedNat DEF CacheInv
<1>2. \A g \in Claimed : g \in murky \/ Reached(g)
  BY ReachedIs DEF CacheInv
<1>3. \A g \in Claimed : (g \in murky' \/ Reached(g)') /\ (Past(g) => Past(g)')
  BY <1>1, <1>2, ProceedKeepsPast
<1>4. ClaimsReached'
  BY <1>1, <1>3 DEF ClaimsReached, Reached
<1>5. ClaimsTrue'
  BY <1>0, <1>1, <1>3 DEF CacheInv, ClaimsTrue
<1>6. PromptedAre'
  <2>1. ASSUME NEW q \in Procs, Pc(q)' \in Prompting \cup {"cleanup"}, q # p PROVE q \in prompted'
    <3>1. q \in prompted
      BY <1>0, <2>1 DEF CacheInv, PromptedAre
    <3> QED BY <2>1, <3>1 DEF Proceed
  <2>2. ASSUME Pc(p)' \in Prompting \cup {"cleanup"} PROVE p \in prompted'
    <3>1. CASE Pc(p)' = "prompt"
      BY <3>1 DEF Proceed
    <3>2. CASE Pc(p)' \in {"answered", "canceled", "cleanup"}
      <4>1. p \in prompted
        BY <1>0, <3>2 DEF MovesTo, CacheInv, PromptedAre
      <4> QED BY <3>2, <4>1 DEF Proceed
    <3> QED BY <2>2, <3>1, <3>2
  <2> QED BY <2>1, <2>2 DEF PromptedAre
<1>7. AltersFresh'
  <2>1. SUFFICES ASSUME NEW q \in Procs, Pc(q)' \in {"load", "compare", "act"},
                        (proc[q].left)' > 0, q \notin prompted', NEW g \in Claimed, g \notin murky'
                 PROVE  g < counter'
    BY <1>1 DEF AltersFresh
  <2>2. g \notin murky /\ g \in Nat /\ counter \in Nat /\ proc[q].left \in Nat
    BY <1>0, <1>1, <2>1, InsideFacts
  <2>3. CASE q # p
    <3>1. proc'[q] = proc[q]
      BY <1>0, <2>3
    <3>2. q \notin prompted
      BY <2>1, <2>3 DEF Proceed
    <3>3. g < counter
      BY <2>1, <2>2, <3>1, <3>2 DEF CacheInv, AltersFresh
    <3>4. Pc(p) \notin Inside
      BY <2>1, <2>3, <3>1, InsideFacts
    <3>5. UNCHANGED counter
      BY <1>0, <3>4 DEF MovesTo
    <3> QED BY <3>3, <3>5
  <2>4. CASE q = p
    <3>1. p \notin prompted
      BY <2>1, <2>4 DEF Proceed
    <3>2. Pc(p) \notin {"answered", "cleanup"}
      BY <3>1 DEF CacheInv, PromptedAre
    <3>3. CASE Pc(p) = "publish" /\ counter' = Gen(p)
      BY <1>2, <2>2, <3>3 DEF Reached
    <3>4. CASE /\ Pc(p) \in {"load", "compare", "act"} /\ (proc[p].left)' <= proc[p].left
               /\ UNCHANGED counter
      <4>1. (proc[p].left)' \in Nat
        <5>1. IInv'
          BY LockUnderCache DEF CacheNext, Commands
        <5> QED BY <5>1 DEF IInv, TypeOK, ProcStates
      <4>2. proc[p].left > 0
        BY <2>1, <2>2, <2>4, <3>4, <4>1
      <4> QED BY <2>2, <3>1, <3>4, <4>2 DEF CacheInv, AltersFresh
    <3> QED BY <1>0, <2>1, <2>4, <3>2, <3>3, <3>4 DEF MovesTo
  <2> QED BY <2>3, <2>4
<1> QED BY <1>4, <1>5, <1>6, <1>7

\* An alteration makes what was read untrue, and nobody claims its generation.
LEMMA AlterKeeps ==
  ASSUME IInv, CacheInv, NEW p \in Procs, Alter(p)
  PROVE  ClaimsReached' /\ AltersFresh' /\ PromptedAre' /\ ClaimsTrue'
<1>0. /\ Pc(p) \in {"act", "cleanup"} /\ proc[p].left > 0 /\ UNCHANGED <<counter, prompted>>
      /\ \A q \in Procs : Pc(q)' = Pc(q) /\ Gen(q)' = Gen(q)
      /\ \A q \in Procs : proc[q].left >= (proc[q].left)'
      /\ murky' = IF p \in prompted THEN murky \cup {counter} ELSE murky
  <2>1. UNCHANGED counter /\ proc \in [Procs -> ProcStates]
    BY DEF Alter, Changes, Write, Cleanup, IInv, TypeOK
  <2>2. \/ Pc(p) = "act" /\ proc[p].left > 0 /\ proc' = [proc EXCEPT ![p].left = @ - 1]
        \/ Pc(p) = "cleanup" /\ proc[p].left > 0 /\ proc' = [proc EXCEPT ![p].left = @ - 1]
    BY DEF Alter, Changes, Write, Working, Worked, Cleanup
  <2>3. \A q \in Procs : proc[q].left \in Nat
    BY InsideFacts
  <2>4. \A q \in Procs : Pc(q)' = Pc(q) /\ Gen(q)' = Gen(q)
    BY <2>1, <2>2 DEF ProcStates
  <2>5. \A q \in Procs : proc[q].left >= (proc[q].left)'
    BY <2>1, <2>2, <2>3 DEF ProcStates
  <2> QED BY <2>1, <2>2, <2>4, <2>5 DEF Alter
<1>1. /\ Claimed' = Claimed /\ Claimed \subseteq Nat
      /\ \A e \in {entry, reader} : e.exact => e.gen \in Claimed
      /\ worker.pc # "none" => worker.gen \in Claimed
  <2>1. /\ entry'.exact = entry.exact /\ entry'.gen = entry.gen
        /\ reader'.exact = reader.exact /\ reader'.gen = reader.gen
        /\ worker'.pc = worker.pc /\ worker'.gen = worker.gen
    BY DEF Alter, CacheInv, CacheTypeOK, Entries
  <2>2. Claimed' = Claimed
    BY <2>1 DEF Claimed
  <2> QED BY <2>2, ClaimedNat DEF CacheInv
<1>2. counter \in Nat /\ \A q \in Procs : Pc(q) \in Inside => q = p
  BY <1>0, InsideFacts
<1>3. ~Emptied
  BY <1>0, <1>2
<1>4. \A g \in Claimed : g \in murky' \/ g < counter
  <2>1. CASE p \in prompted
    BY <1>0, <1>1, <1>2, <1>3, <2>1 DEF CacheInv, ClaimsReached
  <2>2. CASE p \notin prompted
    <3>1. Pc(p) # "cleanup"
      BY <2>2 DEF CacheInv, PromptedAre
    <3> QED BY <1>0, <2>2, <3>1 DEF CacheInv, AltersFresh
  <2> QED BY <2>1, <2>2
<1>5. ClaimsReached'
  BY <1>0, <1>1, <1>2, <1>3, <1>4 DEF ClaimsReached
<1>6. AltersFresh'
  BY <1>0, <1>1, <1>4 DEF AltersFresh
<1>7. PromptedAre'
  BY <1>0 DEF CacheInv, PromptedAre
<1>8. ClaimsTrue'
  <2>1. \A g \in Claimed : Past(g)'
    BY <1>0, <1>4 DEF Past
  <2>2. \A e \in {entry', reader'} : e.exact => e.gen \in Claimed
    BY <1>1 DEF Claimed
  <2>3. worker'.pc # "none" => worker'.gen \in Claimed
    BY <1>1 DEF Claimed
  <2> QED BY <2>1, <2>2, <2>3 DEF ClaimsTrue
<1> QED BY <1>5, <1>6, <1>7, <1>8

\* The status command reads and caches under the lock, and alters nothing more.
LEMMA ExactClaims ==
  ASSUME IInv, CacheInv, NEW p \in Procs, CacheExact(p)
  PROVE  ClaimsReached' /\ AltersFresh' /\ PromptedAre' /\ ClaimsTrue'
<1>0. /\ Pc(p) = "act" /\ proc' = [proc EXCEPT ![p].left = 0]
      /\ UNCHANGED <<counter, prompted, murky, reader, worker>>
      /\ entry' = [marker |-> marker, gen |-> proc[p].gen, exact |-> TRUE, true |-> TRUE]
  BY DEF CacheExact, files
<1>1. /\ counter \in Nat /\ \A q \in Procs : Pc(q) \in Inside => q = p
      /\ Gen(p) = counter /\ \A q \in Procs : proc[q].left \in Nat
  BY <1>0, InsideFacts
<1>2. /\ \A q \in Procs : Pc(q)' = Pc(q) /\ Gen(q)' = Gen(q)
      /\ \A q \in Procs \ {p} : (proc[q].left)' = proc[q].left
      /\ (proc[p].left)' = 0
  BY <1>0 DEF IInv, TypeOK, ProcStates
<1>3. Claimed' \subseteq Claimed \cup {counter}
  BY <1>0, <1>1 DEF Claimed
<1>4. ~Emptied /\ ~Emptied'
  BY <1>0, <1>1, <1>2
<1>5. ClaimsReached'
  <2>1. \A g \in Claimed : g \in murky \/ g <= counter
    BY <1>4 DEF CacheInv, ClaimsReached
  <2> QED BY <1>0, <1>1, <1>3, <1>4, <2>1 DEF ClaimsReached
<1>6. AltersFresh'
  BY <1>1, <1>2 DEF AltersFresh
<1>7. PromptedAre'
  BY <1>0, <1>2 DEF CacheInv, PromptedAre
<1>8. ClaimsTrue'
  <2>1. \A g : Past(g)' <=> Past(g)
    BY <1>0, <1>4 DEF Past
  <2> QED BY <1>0, <2>1 DEF CacheInv, ClaimsTrue
<1> QED BY <1>5, <1>6, <1>7, <1>8

\* The prompt and the refresh: while they go on no command does.
LEMMA RestKeeps ==
  ASSUME IInv, CacheInv, UNCHANGED <<vars, prompted, murky>>,
         Claimed' \subseteq Claimed \/ (Available /\ Claimed' \subseteq Claimed \cup {counter}),
         ClaimsTrue'
  PROVE  ClaimsReached' /\ AltersFresh' /\ PromptedAre' /\ ClaimsTrue'
<1>0. UNCHANGED <<counter, proc>> /\ counter \in Nat
  BY InsideFacts DEF vars
<1>1. Available => \A p \in Procs : Pc(p) \notin Inside
  BY InsideFacts DEF Available
<1>2. ClaimsReached'
  <2>1. CASE Claimed' \subseteq Claimed
    BY <1>0, <2>1 DEF CacheInv, ClaimsReached
  <2>2. CASE Available /\ Claimed' \subseteq Claimed \cup {counter}
    BY <1>0, <1>1, <2>2 DEF CacheInv, ClaimsReached
  <2> QED BY <2>1, <2>2
<1>3. AltersFresh'
  <2>1. CASE Claimed' \subseteq Claimed
    BY <1>0, <2>1 DEF CacheInv, AltersFresh
  <2>2. CASE Available
    BY <1>0, <1>1, <2>2 DEF AltersFresh
  <2> QED BY <2>1, <2>2
<1>4. PromptedAre'
  BY <1>0 DEF CacheInv, PromptedAre
<1> QED BY <1>2, <1>3, <1>4

LEMMA PastRests ==
  ASSUME UNCHANGED <<vars, murky>>
  PROVE  \A g : Past(g)' <=> Past(g)
BY DEF vars, Past

LEMMA PromptClaims ==
  ASSUME IInv, CacheInv, PromptRead
  PROVE  ClaimsReached' /\ AltersFresh' /\ PromptedAre' /\ ClaimsTrue'
<1>1. UNCHANGED <<vars, prompted, murky, worker>>
  BY DEF PromptRead, Seed, ReadEntry, ShowEntry, files
<1>2. \A g : Past(g)' <=> Past(g)
  BY <1>1, PastRests
<1>3. \A e \in {entry', reader'} : e.exact => e \in {entry, reader}
  <2>1. CASE Seed
    BY <2>1 DEF Seed
  <2>2. CASE ReadEntry \/ ShowEntry
    BY <2>2 DEF ReadEntry, ShowEntry, NoEntry, files
  <2> QED BY <2>1, <2>2 DEF PromptRead
<1>4. Claimed' \subseteq Claimed
  BY <1>1, <1>3 DEF Claimed
<1>5. ClaimsTrue'
  BY <1>1, <1>2, <1>3 DEF CacheInv, ClaimsTrue
<1> QED BY <1>1, <1>4, <1>5, RestKeeps

\* What a worker has read is true until the generation it noted is past.
LEMMA RefreshClaims ==
  ASSUME IInv, CacheInv, Refresh \/ WorkerDies
  PROVE  ClaimsReached' /\ AltersFresh' /\ PromptedAre' /\ ClaimsTrue'
<1>1. UNCHANGED <<vars, prompted, murky, reader>>
  BY DEF Refresh, Request, Spawn, StartWorker, WorkerGivesUp, BeginSummary, CompareGeneration,
     WriteEntry, WorkerDies, files
<1>2. \A g : Past(g)' <=> Past(g)
  BY <1>1, PastRests
<1>3. CASE Request \/ Spawn \/ WorkerGivesUp
  <2>1. UNCHANGED <<entry, worker>>
    BY <1>3 DEF Request, Spawn, WorkerGivesUp
  <2>2. Claimed' \subseteq Claimed /\ ClaimsTrue'
    BY <1>1, <1>2, <2>1 DEF Claimed, CacheInv, ClaimsTrue
  <2> QED BY <1>1, <2>2, RestKeeps
<1>4. CASE StartWorker
  <2>1. /\ UNCHANGED entry /\ Available
        /\ worker' = [pc |-> "read", marker |-> marker, gen |-> counter, true |-> FALSE]
    BY <1>4 DEF StartWorker
  <2>2. Claimed' \subseteq Claimed \cup {counter} /\ ClaimsTrue'
    BY <1>1, <1>2, <2>1 DEF Claimed, CacheInv, ClaimsTrue
  <2> QED BY <1>1, <2>1, <2>2, RestKeeps
<1>5. CASE BeginSummary
  <2>1. UNCHANGED entry /\ worker' = [worker EXCEPT !.pc = "reading", !.true = TRUE] /\ worker.pc = "read"
    BY <1>5 DEF BeginSummary
  <2>2. worker'.pc = "reading" /\ worker'.true = TRUE /\ worker'.gen = worker.gen
    BY <2>1 DEF CacheInv, CacheTypeOK
  <2>3. Claimed' \subseteq Claimed /\ ClaimsTrue'
    BY <1>1, <1>2, <2>1, <2>2 DEF Claimed, CacheInv, ClaimsTrue
  <2> QED BY <1>1, <2>3, RestKeeps
<1>6. CASE CompareGeneration
  <2>1. UNCHANGED entry /\ worker.pc = "reading"
    BY <1>6 DEF CompareGeneration
  <2>2. CASE worker' = [worker EXCEPT !.pc = "write"]
    <3>1. worker'.pc = "write" /\ worker'.true = worker.true /\ worker'.gen = worker.gen
      BY <2>2 DEF CacheInv, CacheTypeOK
    <3>2. Claimed' \subseteq Claimed /\ ClaimsTrue'
      BY <1>1, <1>2, <2>1, <3>1 DEF Claimed, CacheInv, ClaimsTrue
    <3> QED BY <1>1, <3>2, RestKeeps
  <2>3. CASE worker' = NoWorker
    <3>1. Claimed' \subseteq Claimed /\ ClaimsTrue'
      BY <1>1, <1>2, <2>1, <2>3 DEF NoWorker, Claimed, CacheInv, ClaimsTrue
    <3> QED BY <1>1, <3>1, RestKeeps
  <2> QED BY <1>6, <2>2, <2>3 DEF CompareGeneration
<1>7. CASE WriteEntry
  <2>1. /\ worker.pc = "write" /\ worker' = NoWorker
        /\ entry' = [marker |-> worker.marker, gen |-> worker.gen, exact |-> TRUE,
                     true |-> worker.true]
    BY <1>7 DEF WriteEntry
  <2>2. Claimed' \subseteq Claimed
    BY <1>1, <2>1 DEF NoWorker, Claimed
  <2>3. ClaimsTrue'
    BY <1>1, <1>2, <2>1 DEF NoWorker, CacheInv, ClaimsTrue
  <2> QED BY <1>1, <2>2, <2>3, RestKeeps
<1>8. CASE WorkerDies
  <2>1. Claimed' \subseteq Claimed /\ ClaimsTrue'
    BY <1>1, <1>2, <1>8 DEF WorkerDies, NoWorker, Claimed, CacheInv, ClaimsTrue
  <2> QED BY <1>1, <2>1, RestKeeps
<1> QED BY <1>3, <1>4, <1>5, <1>6, <1>7, <1>8 DEF Refresh

LEMMA CacheStep == IInv /\ CacheInv /\ [CacheNext]_allVars => CacheInv'
<1> SUFFICES ASSUME IInv, CacheInv, [CacheNext]_allVars PROVE CacheInv'
  OBVIOUS
<1>1. CacheTypeOK'
  BY CacheKeepsTypes DEF CacheInv
<1>2. CASE UNCHANGED allVars
  <2>1. UNCHANGED <<vars, prompted, murky, entry, reader, worker>>
    BY <1>2 DEF allVars, cacheVars
  <2>2. Claimed' \subseteq Claimed /\ ClaimsTrue'
    BY <2>1, PastRests DEF Claimed, CacheInv, ClaimsTrue
  <2> QED BY <1>1, <2>1, <2>2, RestKeeps DEF CacheInv
<1>3. CASE CacheNext
  BY <1>1, <1>3, AlterKeeps, ProceedKeeps, ExactClaims, PromptClaims, RefreshClaims
     DEF CacheInv, CacheNext, Commands
<1> QED BY <1>2, <1>3

LEMMA CacheStarts == CacheInit => IInv /\ CacheInv
<1> SUFFICES ASSUME CacheInit PROVE IInv /\ CacheInv
  OBVIOUS
<1>1. IInv /\ counter = 0 /\ \A p \in Procs : Pc(p) = "out"
  BY InitHolds DEF CacheInit, Init, Out
<1>2. CacheTypeOK
  BY DEF CacheInit, CacheTypeOK, Entries, NoEntry, NoWorker
<1>3. Claimed = {}
  BY DEF CacheInit, Claimed, NoEntry, NoWorker
<1>4. ClaimsTrue
  BY DEF CacheInit, ClaimsTrue, NoEntry, NoWorker
<1> QED BY <1>1, <1>2, <1>3, <1>4 DEF CacheInv, ClaimsReached, AltersFresh, PromptedAre

\* A summary is true or claims a generation that is over, through every command,
\* prompt, refresh and death.
THEOREM CacheInductive == CacheSpec => [](IInv /\ CacheInv)
<1>1. (IInv /\ CacheInv) /\ [CacheNext]_allVars => (IInv /\ CacheInv)'
  BY LockUnderCache, CacheStep
<1> QED BY <1>1, CacheStarts, PTL DEF CacheSpec

\* What the prompt shows as needing no refresh is true of the session as it is
\* now, though it was read without the lock (refresh_status_summary_cache).
THEOREM CacheIsTrue == CacheSpec => []CurrentEntryIsTrue
<1>1. IInv /\ CacheInv => CurrentEntryIsTrue
  <2> SUFFICES ASSUME IInv, CacheInv, NEW e \in {entry, reader}, Available, IsCurrent(e),
                      e.gen \notin murky
               PROVE  e.true
    BY DEF CurrentEntryIsTrue
  <2>1. counter \in Nat /\ ~Emptied
    BY InsideFacts DEF Available
  <2>2. ~Past(e.gen)
    BY <2>1 DEF Past, IsCurrent
  <2> QED BY <2>2 DEF IsCurrent, CacheInv, ClaimsTrue
<1> QED BY <1>1, CacheInductive, PTL
=============================================================================
