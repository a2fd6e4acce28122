---------------------------- MODULE SessionLock ----------------------------
(* The advisory lock that serialises the commands of one repository           *)
(* (utils/session_lock.py), as its users take it: a command line process      *)
(* holds it from start to end, the interactive interface takes it for every    *)
(* load and every action and gives it up while a prompt waits for the user.    *)
(*                                                                             *)
(* The lock is an flock on session.lock, held by an open file description: a   *)
(* child that inherits the descriptor shares it.  The file's content is a      *)
(* generation, advanced at every fresh acquisition, by which a process whose   *)
(* prompt comes back learns that another one has run in between.               *)
EXTENDS Naturals, FiniteSets

CONSTANTS
  Procs,        \* slots for running processes
  Tuis,         \* those that run the interactive interface
  None,
  MaxCommands,  \* bound: commands and interactive actions started
  MaxWork       \* bound: what one command does while it holds the lock

ASSUME ProcsAssumption == Tuis \subseteq Procs /\ None \notin Procs
ASSUME BoundsAssumption == MaxCommands \in Nat /\ MaxWork \in Nat

VARIABLES
  counter,   \* the generation in session.lock; 0 is an empty or missing file
  flock,     \* the process whose open file description is locked, or None
  child,     \* the processes with a live child that inherited the descriptor
  proc,      \* what each process has in its globals and local variables
  stale,     \* those whose loaded selected change another process altered
  excused,   \* history: those that hold a generation another one may hold too
  started    \* commands and actions started so far

vars == <<counter, flock, child, proc, stale, excused, started>>

Aims == {"load", "hunk", "run"}

Out == [pc |-> "out", aim |-> "run", depth |-> 0, kept |-> 0, inner |-> 0,
        gen |-> 0, lent |-> FALSE, left |-> 0]

Pc(p) == proc[p].pc
Goto(p, pc) == proc' = [proc EXCEPT ![p].pc = pc]

\* Where a process believes that it has the lock to itself.
Inside == {"truncate", "publish", "load", "compare", "act", "cleanup"}
Waiting == {"wait", "answered", "canceled"}
Prompting == {"prompt", "answered", "canceled"}

Init ==
  /\ counter = 0 /\ flock = None /\ child = {}
  /\ proc = [p \in Procs |-> Out]
  /\ stale = {} /\ excused = {} /\ started = 0

-----------------------------------------------------------------------------
(* Taking the lock and giving it up                                            *)

\* acquire_session_lock: nested in a context of the same process it only counts.
Enter(p, aim) ==
  proc' = IF proc[p].depth > 0
            THEN [proc EXCEPT ![p].depth = @ + 1, ![p].inner = @ + 1, ![p].left = @ - 1]
            ELSE [proc EXCEPT ![p].pc = "wait", ![p].aim = aim, ![p].inner = 0]

\* Closing the descriptor ends the flock, unless a child still has it open.
Unlocked(p) == IF flock = p /\ p \notin child THEN None ELSE flock

\* The outermost context ends, by return or by exception: the handle is closed.
Leave(p, pc, aim) ==
  /\ proc' = [proc EXCEPT ![p] = [Out EXCEPT !.pc = pc, !.aim = aim]]
  /\ flock' = Unlocked(p)

TakeFlock(p) ==
  /\ Pc(p) = "wait" /\ flock = None
  /\ flock' = p
  /\ Goto(p, "truncate")
  /\ UNCHANGED <<counter, child, stale, excused, started>>

\* _advance_lock_generation reads the file, then empties it ...
Truncate(p) ==
  /\ Pc(p) = "truncate"
  /\ counter' = 0
  /\ proc' = [proc EXCEPT ![p].gen = counter + 1, ![p].pc = "publish"]
  /\ UNCHANGED <<flock, child, stale, excused, started>>

\* ... and writes the next generation.  A command that reads its own state
\* under the lock starts from the present one.
Publish(p) ==
  /\ Pc(p) = "publish"
  /\ counter' = proc[p].gen
  /\ proc' = [proc EXCEPT ![p].depth = 1, ![p].lent = FALSE,
                          ![p].left = MaxWork,
                          ![p].pc = CASE proc[p].aim = "load" -> "load"
                                      [] proc[p].aim = "hunk" -> "compare"
                                      [] proc[p].aim = "run"  -> "act"]
  /\ stale' = IF proc[p].aim = "run" THEN stale \ {p} ELSE stale
  /\ excused' = excused \ {p}
  /\ UNCHANGED <<flock, child, started>>

-----------------------------------------------------------------------------
(* What a command does with the lock                                           *)

Start(p) == started < MaxCommands /\ started' = started + 1

\* A user starts a command line process or the interactive interface.
Begin(p) ==
  /\ Pc(p) = "out" /\ Start(p)
  /\ Enter(p, IF p \in Tuis THEN "load" ELSE "run")
  /\ UNCHANGED <<counter, flock, child, stale, excused>>

\* The interactive loop loads the selected change, then asks for an action
\* without the lock.
Load(p) ==
  /\ Pc(p) = "load"
  /\ stale' = stale \ {p}
  /\ Leave(p, "ask", "load")
  /\ UNCHANGED <<counter, child, excused, started>>

\* The user chooses an action, one that needs the shown hunk or another one.
Dispatch(p) ==
  /\ Pc(p) = "ask" /\ Start(p)
  /\ \E aim \in {"hunk", "run"} : Enter(p, aim)
  /\ UNCHANGED <<counter, flock, child, stale, excused>>

\* The change is loaded again; if it is not the one loaded before nothing is done.
Compare(p) ==
  /\ Pc(p) = "compare"
  /\ IF p \in stale
       THEN Leave(p, "wait", "load")
       ELSE Goto(p, "act") /\ UNCHANGED flock
  /\ UNCHANGED <<counter, child, stale, excused, started>>

Working(p) == Pc(p) = "act" /\ proc[p].left > 0
Worked(p) == [proc EXCEPT ![p].left = @ - 1]

Asking == {q \in Procs : Pc(q) \in Prompting}

\* The open prompts that hold the generation in the file.
Sharing == {q \in Asking : proc[q].gen = counter}

\* The command alters the session state, the selected change with it.  Under a
\* generation that is not its own it leaves the others nothing to notice it by.
Alters(p) ==
  /\ stale' = stale \cup (Procs \ {p})
  /\ excused' = IF p \in excused THEN excused \cup Sharing ELSE excused

Write(p) ==
  /\ Working(p)
  /\ proc' = Worked(p)
  /\ Alters(p)
  /\ UNCHANGED <<counter, flock, child, started>>

\* A callee takes the lock again, as promotion and the escape to a command do.
Nest(p) ==
  /\ Working(p) /\ proc[p].inner = 0
  /\ Enter(p, "run")
  /\ UNCHANGED <<counter, flock, child, stale, excused, started>>

Unnest(p) ==
  /\ Pc(p) \in {"act", "cleanup"} /\ proc[p].inner > 0
  /\ proc' = [proc EXCEPT ![p].depth = @ - 1, ![p].inner = @ - 1]
  /\ UNCHANGED <<counter, flock, child, stale, excused, started>>

\* acquire_session_lock_descriptor: a child is started with the descriptor,
\* which it may keep after the command has gone on or died.
Lend(p) ==
  /\ Working(p) /\ p \notin child
  /\ child' = child \cup {p}
  /\ proc' = [proc EXCEPT ![p].left = @ - 1, ![p].lent = TRUE]
  /\ UNCHANGED <<counter, flock, stale, excused, started>>

\* A command line process ends, and the interactive loop goes on or is quit.
Finish(p) ==
  /\ Pc(p) \in {"act", "cleanup"} /\ proc[p].inner = 0
  /\ \/ p \in Tuis /\ Leave(p, "wait", "load")
     \/ (p \in Tuis => proc[p].aim = "run") /\ Leave(p, "out", "run")
  /\ UNCHANGED <<counter, child, stale, excused, started>>

-----------------------------------------------------------------------------
(* A prompt inside an action                                                   *)

\* temporarily_release_session_lock refuses while a child has the descriptor:
\* the RuntimeError ends the process.
RefusePrompt(p) ==
  /\ Working(p) /\ p \in Tuis /\ proc[p].lent
  /\ Leave(p, "out", "run")
  /\ UNCHANGED <<counter, child, stale, excused, started>>

\* A mistake: the lock is released under a child that shares it.
OpenPromptUnderChild(p) ==
  /\ Working(p) /\ p \in Tuis
  /\ flock' = None
  /\ proc' = [Worked(p) EXCEPT ![p].pc = "prompt", ![p].kept = proc[p].depth,
                               ![p].depth = 0]
  /\ UNCHANGED <<counter, child, stale, excused, started>>

\* A mistake: the lock is kept while the prompt waits.
OpenPromptLocked(p) ==
  /\ Working(p) /\ p \in Tuis /\ ~proc[p].lent
  /\ proc' = [Worked(p) EXCEPT ![p].pc = "prompt", ![p].kept = proc[p].depth,
                               ![p].depth = 0]
  /\ UNCHANGED <<counter, flock, child, stale, excused, started>>

\* LOCK_UN frees the file description whoever else shares it.
OpenPrompt(p) ==
  /\ Working(p) /\ p \in Tuis /\ ~proc[p].lent
  /\ flock' = None
  /\ proc' = [Worked(p) EXCEPT ![p].pc = "prompt", ![p].kept = proc[p].depth,
                               ![p].depth = 0]
  /\ UNCHANGED <<counter, child, stale, excused, started>>

\* The user answers, or gives up with Ctrl-C or an end of file.
Reply(p) ==
  /\ Pc(p) = "prompt"
  /\ \E pc \in {"answered", "canceled"} : Goto(p, pc)
  /\ UNCHANGED <<counter, flock, child, stale, excused, started>>

\* A mistake: the depth does not come back with the lock.
RestoredShallow(p, pc) ==
  [proc EXCEPT ![p].pc = pc, ![p].depth = 0, ![p].kept = 0, ![p].gen = counter]

\* The depth comes back with the lock, and the generation of the file.
Restored(p, pc) ==
  [proc EXCEPT ![p].pc = pc, ![p].depth = proc[p].kept, ![p].kept = 0,
               ![p].gen = counter]

\* A mistake: the lock is enough for an answer to be good.
RelockUnseen(p) ==
  /\ Pc(p) = "answered" /\ flock = None
  /\ flock' = p /\ proc' = Restored(p, "act")
  /\ UNCHANGED <<counter, child, stale, excused, started>>

\* An answer is refused if another process has advanced the generation: the
\* exception unwinds the action and the interface loads the change again.
Relock(p) ==
  /\ Pc(p) = "answered" /\ flock = None
  /\ IF counter = proc[p].gen
       THEN flock' = p /\ proc' = Restored(p, "act")
       ELSE Leave(p, "wait", "load")
  /\ UNCHANGED <<counter, child, stale, excused, started>>

\* A prompt that raised is not checked: its caller takes it for "no" or
\* "cancel" and goes on, under the generation of whoever advanced it last.  If
\* that one has a prompt open too, neither learns what the other does.
RelockCanceled(p) ==
  /\ Pc(p) = "canceled" /\ flock = None
  /\ flock' = p
  /\ proc' = Restored(p, "cleanup")
  /\ excused' = IF Sharing \ {p} = {} THEN excused ELSE excused \cup {p}
  /\ UNCHANGED <<counter, child, stale, started>>

\* The fixup menu clears its state on "cancel".
Cleanup(p) ==
  /\ Pc(p) = "cleanup" /\ proc[p].left > 0
  /\ proc' = Worked(p)
  /\ Alters(p)
  /\ UNCHANGED <<counter, flock, child, started>>

\* The file review, its file chooser and the batch menu take a canceled prompt
\* for no choice: they read the session again, show it and go on asking.
ShowAgain(p) ==
  /\ Pc(p) = "cleanup"
  /\ Goto(p, "act")
  /\ stale' = stale \ {p}
  /\ UNCHANGED <<counter, flock, child, excused, started>>

-----------------------------------------------------------------------------
(* What the processes do not decide                                            *)

\* A process dies at any point.  If it had emptied the file, the generations
\* begin again and a prompt that is open may see its own once more.
Die(p) ==
  /\ Pc(p) # "out"
  /\ Leave(p, "out", "run")
  /\ excused' = IF Pc(p) = "publish"
                  THEN excused \cup Asking
                  ELSE excused
  /\ UNCHANGED <<counter, child, stale, started>>

\* The last descriptor of the file description is closed with the child.
ChildEnds(p) ==
  /\ p \in child
  /\ child' = child \ {p}
  /\ flock' = IF flock = p /\ Pc(p) \notin Inside THEN None ELSE flock
  /\ UNCHANGED <<counter, proc, stale, excused, started>>

Changes(p) == Write(p) \/ Cleanup(p)

Goes(p) ==
  \/ Truncate(p) \/ Publish(p) \/ Load(p) \/ Compare(p) \/ Nest(p) \/ Unnest(p)
  \/ Lend(p) \/ Finish(p) \/ RefusePrompt(p) \/ OpenPrompt(p) \/ ShowAgain(p)

Locks(p) == TakeFlock(p) \/ Relock(p) \/ RelockCanceled(p)
Users(p) == Begin(p) \/ Dispatch(p) \/ Reply(p)

Keeps(p) == Goes(p) \/ Locks(p) \/ Users(p) \/ Die(p) \/ ChildEnds(p)

Next == \E p \in Procs : Changes(p) \/ Keeps(p)

Spec == Init /\ [][Next]_vars

\* A process that can run does run, a child of index-pack's kind comes to an
\* end, and a blocked flock is granted if the lock is free again and again (the
\* kernel queues its waiters).  Nothing is assumed of the users: a prompt may
\* stay open for ever.
Fairness ==
  \A p \in Procs : /\ WF_vars(Goes(p) \/ Changes(p))
                   /\ WF_vars(ChildEnds(p))
                   /\ SF_vars(Locks(p))

FairSpec == Spec /\ Fairness

-----------------------------------------------------------------------------
(* Properties                                                                  *)

ProcStates ==
  [pc : Inside \cup Waiting \cup {"out", "ask", "prompt"}, aim : Aims,
   depth : Nat, kept : Nat, inner : Nat, gen : Nat, lent : BOOLEAN, left : Nat]

\* The lock file, the flock and every process have the values they can have.
TypeOK ==
  /\ counter \in Nat /\ flock \in Procs \cup {None} /\ child \subseteq Procs
  /\ proc \in [Procs -> ProcStates]
  /\ stale \subseteq Procs /\ excused \subseteq Procs /\ started \in 0 .. MaxCommands

\* While one process works under the lock, or a child that inherited its
\* descriptor still does (even after the parent died), no other process works
\* under it and no other one has such a child (acquire_session_lock and
\* acquire_session_lock_descriptor, across prompts, nesting and deaths).
OneWriter ==
  \A p \in Procs, q \in Procs :
    (Pc(p) \in Inside \/ p \in child) /\ (Pc(q) \in Inside \/ q \in child) => p = q

\* No process blocks on the flock that it holds itself: a prompt brings back the
\* nesting depth it took away, so that a nested acquisition after it still only
\* counts (temporarily_release_session_lock, acquire_session_lock).
NoSelfDeadlock ==
  \A p \in Procs : Pc(p) \in Waiting /\ flock = p => p \in child

\* An action that goes on, from the interface's comparison or from an answered
\* prompt, acts on the selected change that was loaded or shown for it, though
\* prompts of others come and go: whatever another process altered meanwhile was
\* noticed.  Not claimed of a process whose generation is not its own: one that
\* took a canceled prompt for an answer while a prompt of the generation's owner
\* was open, one whose prompt was open while a process died with the file empty,
\* and the prompts with whose generation these then alter state.
ActsOnLoadedChange ==
  \A p \in Procs : Pc(p) = "act" /\ p \in stale => p \in excused

\* A process that waits for the lock, at its start or after a prompt, gets it,
\* though the prompt of another process is never answered
\* (temporarily_release_session_lock).
PromptsBlockNobody ==
  \A p \in Procs : Pc(p) \in Waiting ~> Pc(p) \notin Waiting
=============================================================================
