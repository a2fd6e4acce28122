-------------------------- MODULE SessionOwnership --------------------------
(* Which linked worktree owns the one session of a repository                 *)
(* (data/session_ownership.py).  The session marker lies in the worktree's    *)
(* own git directory; the owner record, the recovery anchors and the lock lie *)
(* in the common one.  start, stop and abort alter the three stores one after *)
(* the other, under the lock; every mutating command first checks the owner,  *)
(* and the interactive interface does so before it takes the lock.            *)
EXTENDS FiniteSets

CONSTANTS
  Procs,      \* slots for running processes
  Worktrees,  \* the linked worktrees
  None

ASSUME NoneAssumption == None \notin Procs /\ None \notin Worktrees

VARIABLES
  lock,     \* the process that holds the session lock, or None
  owner,    \* the worktree that the owner record names, or None
  marker,   \* the worktrees with a session marker
  anchors,  \* the worktrees whose session's objects have their anchor refs
  proc,     \* what each process is doing
  closing,  \* history: sessions whose own stop or abort has begun to clear them
  harmed    \* history: sessions left unclaimed by a death, or cleared without
            \* the lock

vars == <<lock, owner, marker, anchors, proc, closing, harmed>>

Commands == {"start", "stop", "abort", "use"}
Pcs == {"out", "wait", "read", "exists", "unanchor", "disown", "snapshot", "mark",
        "claim", "work", "stop", "abort", "clear", "unmark", "release"}

Out == [pc |-> "out", wt |-> None, cmd |-> "use", seen |-> None]
Procedures ==
  [pc : Pcs, wt : Worktrees \cup {None}, cmd : Commands,
   seen : Worktrees \cup {None}]

At(p, pc) == proc[p].pc = pc
Goto(p, pc) == proc' = [proc EXCEPT ![p].pc = pc]
Mine(p) == proc[p].wt
Holds(p) == lock = p

Init ==
  /\ lock = None /\ owner = None
  /\ marker = {} /\ anchors = {}
  /\ proc = [p \in Procs |-> Out]
  /\ closing = {} /\ harmed = {}

\* The process ends, with or without an error, and with it its lock.
Exit(p) ==
  /\ proc' = [proc EXCEPT ![p] = Out]
  /\ lock' = IF Holds(p) THEN None ELSE lock

Files == <<owner, marker, anchors, closing, harmed>>

-----------------------------------------------------------------------------
(* The check that every mutating command makes first                           *)

\* A command in some worktree.  Commands take the lock and then check; the
\* interactive interface, which begins like start, checks and then takes it.
Begin(p) ==
  /\ At(p, "out")
  /\ \E w \in Worktrees, cmd \in Commands, first \in {"wait", "read"} :
       /\ first = "read" => cmd = "start"
       /\ proc' = [proc EXCEPT ![p] = [pc |-> first, wt |-> w, cmd |-> cmd,
                                       seen |-> None]]
  /\ UNCHANGED <<Files, lock>>

Lock(p) ==
  /\ At(p, "wait") /\ lock = None
  /\ lock' = p
  /\ Goto(p, "read")
  /\ UNCHANGED Files

\* The check has passed: the interface now waits for the lock, to start a
\* session under it; the commands go on.
Passed(p) ==
  proc' = [proc EXCEPT ![p].seen = None,
             ![p].pc = CASE ~Holds(p) -> "wait"
                         [] Holds(p) /\ proc[p].cmd = "start" ->
                              IF Mine(p) \in marker THEN "work" ELSE "snapshot"
                         [] Holds(p) /\ proc[p].cmd = "use" -> "work"
                         [] Holds(p) /\ proc[p].cmd = "stop" -> "stop"
                         [] Holds(p) /\ proc[p].cmd = "abort" -> "abort"]

\* A mistake: the anchors go before the marker is looked for.
ReadOwnerUnanchoring(p) ==
  /\ At(p, "read")
  /\ IF owner \in {None, Mine(p)}
       THEN Passed(p) /\ UNCHANGED anchors
       ELSE /\ proc' = [proc EXCEPT ![p].pc = "exists", ![p].seen = owner]
            /\ anchors' = {}
  /\ UNCHANGED <<lock, owner, marker, closing, harmed>>

\* require_no_foreign_session_owner loads the record ...
ReadOwner(p) ==
  /\ At(p, "read")
  /\ IF owner \in {None, Mine(p)}
       THEN Passed(p)
       ELSE proc' = [proc EXCEPT ![p].pc = "exists", ![p].seen = owner]
  /\ UNCHANGED <<Files, lock>>

\* ... and looks for the marker that it names: a session that is alive refuses
\* the command, a record without one is stale.
RefuseForeign(p) ==
  /\ At(p, "exists") /\ proc[p].seen \in marker
  /\ Exit(p)
  /\ UNCHANGED Files

\* A mistake: the marker looked for is that of the command's own worktree.
FindOwnStale(p) ==
  /\ At(p, "exists") /\ Mine(p) \notin marker
  /\ Goto(p, "unanchor")
  /\ UNCHANGED <<Files, lock>>

FindStale(p) ==
  /\ At(p, "exists") /\ proc[p].seen \notin marker
  /\ Goto(p, "unanchor")
  /\ UNCHANGED <<Files, lock>>

\* clear_recovery_anchors deletes every anchor there is, whoever set it.
Unanchor(p, pc) ==
  /\ anchors' = {}
  /\ harmed' = IF Holds(p) THEN harmed ELSE harmed \cup anchors
  /\ Goto(p, pc)

DiscardAnchors(p) ==
  /\ At(p, "unanchor")
  /\ Unanchor(p, "disown")
  /\ UNCHANGED <<lock, owner, marker, closing>>

DiscardOwner(p) ==
  /\ At(p, "disown")
  /\ owner' = None
  /\ harmed' = IF Holds(p) \/ owner = None THEN harmed ELSE harmed \cup {owner}
  /\ Passed(p)
  /\ UNCHANGED <<lock, marker, anchors, closing>>

-----------------------------------------------------------------------------
(* start                                                                       *)

\* The recovery snapshot is anchored before the marker completes it.
SnapshotAndAnchor(p) ==
  /\ At(p, "snapshot")
  /\ anchors' = anchors \cup {Mine(p)}
  /\ closing' = closing \ {Mine(p)} /\ harmed' = harmed \ {Mine(p)}
  /\ Goto(p, "mark")
  /\ UNCHANGED <<lock, owner, marker>>

WriteMarker(p) ==
  /\ At(p, "mark")
  /\ marker' = marker \cup {Mine(p)}
  /\ Goto(p, "claim")
  /\ UNCHANGED <<lock, owner, anchors, closing, harmed>>

Claim(p) ==
  /\ At(p, "claim")
  /\ owner' = Mine(p)
  /\ Goto(p, "work")
  /\ UNCHANGED <<lock, marker, anchors, closing, harmed>>

\* The record cannot be written: the new session is taken back.
ClaimFails(p) ==
  /\ At(p, "claim") /\ owner # Mine(p)
  /\ closing' = closing \cup {Mine(p)}
  /\ Goto(p, "clear")
  /\ UNCHANGED <<lock, owner, marker, anchors, harmed>>

-----------------------------------------------------------------------------
(* The commands of a session                                                   *)

\* require_current_session_owner, and claim_session_ownership for a start that
\* goes on with a session: one without a record is claimed here.
RequireCurrentOwner(p) ==
  owner' = IF Mine(p) \in marker /\ owner = None THEN Mine(p) ELSE owner

\* A command has found its session, or start has made it, and alters neither.
Work(p) ==
  /\ At(p, "work")
  /\ RequireCurrentOwner(p)
  /\ Exit(p)
  /\ UNCHANGED <<marker, anchors, closing, harmed>>

\* stop without a session clears what a torn one may have left.
Stop(p) ==
  /\ At(p, "stop")
  /\ RequireCurrentOwner(p)
  /\ Goto(p, "clear")
  /\ closing' = closing \cup {Mine(p)}
  /\ UNCHANGED <<lock, marker, anchors, harmed>>

\* abort needs a session and every anchor of its snapshot.
Abort(p) ==
  /\ At(p, "abort") /\ Mine(p) \in marker
  /\ RequireCurrentOwner(p)
  /\ IF Mine(p) \in anchors
       THEN /\ Goto(p, "clear") /\ UNCHANGED lock
            /\ closing' = closing \cup {Mine(p)}
       ELSE Exit(p) /\ UNCHANGED closing
  /\ UNCHANGED <<marker, anchors, harmed>>

AbortNothing(p) ==
  /\ At(p, "abort") /\ Mine(p) \notin marker
  /\ Exit(p)
  /\ UNCHANGED Files

\* clear_session_state: the anchors go with the undo history, then the marker
\* with the session's files.
Clear(p) ==
  /\ At(p, "clear")
  /\ Unanchor(p, "unmark")
  /\ UNCHANGED <<lock, owner, marker, closing>>

RemoveMarker(p) ==
  /\ At(p, "unmark")
  /\ marker' = marker \ {Mine(p)}
  /\ IF proc[p].cmd = "start" THEN Exit(p) ELSE Goto(p, "release") /\ UNCHANGED lock
  /\ UNCHANGED <<owner, anchors, closing, harmed>>

\* release_session_ownership, which refuses to remove another's record.
Release(p) ==
  /\ At(p, "release")
  /\ owner' = IF owner = Mine(p) THEN None ELSE owner
  /\ Exit(p)
  /\ UNCHANGED <<marker, anchors, closing, harmed>>

-----------------------------------------------------------------------------
(* What no command decides                                                     *)

\* start has written the marker and has yet to claim the session or to take it
\* back.
Unclaimed(p) == proc[p].cmd = "start" /\ proc[p].pc \in {"claim", "clear", "unmark"}

\* A process dies: one that had written a marker leaves a session unclaimed.
Die(p) ==
  /\ ~At(p, "out")
  /\ harmed' = IF Unclaimed(p) THEN harmed \cup {Mine(p)} ELSE harmed
  /\ Exit(p)
  /\ UNCHANGED <<owner, marker, anchors, closing>>

\* git worktree remove, with the git directory of the worktree.
RemoveWorktree(w) ==
  /\ w \in marker /\ \A p \in Procs : Mine(p) # w
  /\ marker' = marker \ {w}
  /\ UNCHANGED <<lock, owner, anchors, proc, closing, harmed>>

Check(p) ==
  \/ ReadOwner(p) \/ RefuseForeign(p) \/ FindStale(p)
  \/ DiscardAnchors(p) \/ DiscardOwner(p)
Open(p) == SnapshotAndAnchor(p) \/ WriteMarker(p) \/ Claim(p) \/ ClaimFails(p)
Close(p) ==
  \/ Stop(p) \/ Abort(p) \/ AbortNothing(p) \/ Clear(p) \/ RemoveMarker(p) \/ Release(p)

Step(p) == Lock(p) \/ Check(p) \/ Open(p) \/ Work(p) \/ Close(p)

Next ==
  \/ \E p \in Procs : Begin(p) \/ Step(p) \/ Die(p)
  \/ \E w \in Worktrees : RemoveWorktree(w)

Spec == Init /\ [][Next]_vars

-----------------------------------------------------------------------------
(* Properties                                                                  *)

\* The lock, the stores and the processes have the values they can have; a
\* process that has ended holds nothing.
TypeOK ==
  /\ lock \in Procs \cup {None}
  /\ owner \in Worktrees \cup {None}
  /\ marker \subseteq Worktrees /\ anchors \subseteq Worktrees
  /\ closing \subseteq Worktrees /\ harmed \subseteq Worktrees
  /\ proc \in [Procs -> Procedures]
  /\ \A p \in Procs : Holds(p) => ~At(p, "out") /\ ~At(p, "wait")

Opening(w) == \E p \in Procs : Mine(p) = w /\ Unclaimed(p)

\* A session that is alive is the one that the owner record names, so that no
\* other worktree has one, whatever commands of this and other worktrees began,
\* failed and died.  Not claimed of a session whose start died before it claimed
\* it, nor of one whose record a check without the lock took away.
LiveSessionIsOwned ==
  \A w \in marker : w \notin harmed => owner = w \/ Opening(w)

\* The objects an abort needs keep their anchors until the session's own stop or
\* abort drops them, though every session's are dropped together
\* (clear_recovery_anchors, _discard_stale_owner).
LiveSessionIsAnchored ==
  \A w \in marker : w \notin harmed \cup closing => w \in anchors

\* docs/commands.md: only one linked worktree may own an active session, and a
\* stale record is reclaimed safely.  A session that was claimed stays owned.
ReclaimIsSafe ==
  [][\A w \in Worktrees :
       w \in marker /\ owner = w /\ w \in marker' => owner' = w]_vars
=============================================================================
