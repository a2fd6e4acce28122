------------------------------ MODULE FileJobs ------------------------------
(* One call of run_file_jobs over worker processes (utils/file_jobs.py,        *)
(* utils/file_job_process.py): a parent that submits jobs and collects          *)
(* responses, and workers with one duplex pipe each.  A pipe buffers what is    *)
(* small; a bulky job or result passes only while the other side reads.  The    *)
(* artifacts that workers read and write vanish when the call is over.          *)
(*                                                                              *)
(* A job is its ordinal.  Ctrl-C signals every process of the terminal, and     *)
(* each takes notice in its own time.                                           *)
EXTENDS Naturals, Sequences, FiniteSets

CONSTANTS
  JobCount,
  WorkerCount,
  Large,       \* jobs that may be of a larger estimated size
  Bulky,       \* jobs whose payload and result may not fit into a pipe
  MaxFaults    \* bound: deaths, failed starts, late exits and interrupts

ASSUME CountsAssumption == JobCount \in Nat \ {0} /\ WorkerCount \in Nat \ {0}
ASSUME JobsAssumption == Large \subseteq 1 .. JobCount /\ Bulky \subseteq 1 .. JobCount
ASSUME FaultsAssumption == MaxFaults \in Nat

Jobs == 1 .. JobCount
Workers == 1 .. WorkerCount
Parent == 0
NoJob == 0
Stop == 0    \* the message that asks a worker to return

VARIABLES
  large,     \* the jobs of a larger estimated size
  bulky,     \* the jobs whose payload and result do not fit into a pipe
  call,      \* where the parent is, what it submits to whom, how the call ends
  ready,     \* jobs not submitted yet
  pending,   \* per worker, submitted jobs whose response was not received
  results, failures,   \* jobs of which a response was received
  worker,    \* per worker, where it is and what it works on
  inbox, outbox,       \* the two directions of a worker's pipe
  open,      \* the parent has its ends of the pipes
  killed,    \* workers that were sent SIGTERM or SIGKILL
  signals,   \* processes with a SIGINT to take notice of
  ran,       \* history: how the computation of each job ended
  escaped,   \* history: an interrupt broke off the termination of the workers
  faults

parentVars == <<call, ready, pending, results, failures, open, killed>>
pipes == <<inbox, outbox>>
history == <<ran, escaped, faults>>
jobs == <<large, bulky>>
vars == <<jobs, parentVars, worker, pipes, signals, history>>

PendingPerWorker == 2
None == [kind |-> "none", job |-> NoJob]
Unborn == [pc |-> "unborn", job |-> NoJob, kind |-> "result"]

Init ==
  /\ large \in SUBSET Large /\ bulky \in SUBSET Bulky
  /\ call = [pc |-> "start", job |-> NoJob, to |-> 1, end |-> None]
  /\ ready = Jobs
  /\ pending = [w \in Workers |-> <<>>]
  /\ results = {} /\ failures = {}
  /\ worker = [w \in Workers |-> Unborn]
  /\ inbox = [w \in Workers |-> <<>>] /\ outbox = [w \in Workers |-> <<>>]
  /\ open = TRUE /\ killed = {} /\ signals = {}
  /\ ran = [j \in Jobs |-> "no"] /\ escaped = FALSE /\ faults = 0

At(pc) == call.pc = pc
Goto(pc) == call' = [call EXCEPT !.pc = pc]
Pc(w) == worker[w].pc
Move(w, pc) == worker' = [worker EXCEPT ![w].pc = pc]

Gone(w) == Pc(w) \in {"exited", "dead"}
Alive(w) == Pc(w) \notin {"unborn", "exited", "dead"}
Over == At("over") \/ At("gone")

Lowest(S) == CHOOSE j \in S : \A i \in S : j <= i

-----------------------------------------------------------------------------
(* How the parent ends a call                                                   *)

\* _lowest_failure_ordinal: a failure that was received or the job that the
\* supervisor's error names; otherwise the first job without a result.
Blamed(job) ==
  LET candidates == failures \cup ({job} \ {NoJob})
      unresolved == Jobs \ results
  IN IF candidates # {} THEN Lowest(candidates)
     ELSE IF unresolved # {} THEN Lowest(unresolved) ELSE Lowest(Jobs)

Failed(job) == [kind |-> "failed", job |-> job]
Interrupted == [kind |-> "interrupted", job |-> NoJob]

\* Every way out but the normal one passes through terminate.
EndWith(end) == call' = [call EXCEPT !.pc = "terminate", !.end = end]
Raise(job) == EndWith(Failed(Blamed(job)))

\* What the call returns or raises when all of its workers have finished.
Verdict ==
  IF failures # {} THEN Failed(Lowest(failures)) ELSE [kind |-> "results", job |-> NoJob]

\* _start_worker, for one worker after the other.
StartWorker(w) ==
  /\ At("start") /\ call.to = w
  /\ Move(w, "boot")
  /\ call' = IF w = WorkerCount THEN [call EXCEPT !.pc = "loop"]
                                ELSE [call EXCEPT !.to = w + 1]
  /\ UNCHANGED <<jobs, ready, pending, results, failures, open, killed,
                 pipes, signals, history>>

Fault == faults < MaxFaults /\ faults' = faults + 1

\* The process could not be started; what was started of it is stopped.
StartFails ==
  /\ At("start") /\ Fault /\ Raise(NoJob)
  /\ UNCHANGED <<jobs, ready, pending, results, failures, open, killed,
                 worker, pipes, signals, ran, escaped>>

-----------------------------------------------------------------------------
(* Submitting                                                                   *)

CanSubmit == \E w \in Workers : Len(pending[w]) < PendingPerWorker
Submits == ready # {} /\ failures = {} /\ CanSubmit

\* _jobs_by_submission_priority: the largest first, then by ordinal.
First(j) ==
  /\ j \in ready
  /\ \A i \in ready : IF (i \in large) = (j \in large) THEN j <= i ELSE j \in large

LeastLoaded(w) ==
  \A v \in Workers : Len(pending[w]) < Len(pending[v])
                       \/ (Len(pending[w]) = Len(pending[v]) /\ w <= v)

FirstGone(w) == Gone(w) /\ \A v \in Workers : v < w => ~Gone(v)
HeadJob(w) == IF pending[w] = <<>> THEN NoJob ELSE Head(pending[w])

\* submit: _raise_for_dead_workers, then the choice of a worker.
Submit(j) ==
  /\ At("loop") /\ Submits /\ First(j)
  /\ ready' = ready \ {j}
  /\ \/ \E w \in Workers : FirstGone(w) /\ Raise(HeadJob(w))
     \/ /\ \A w \in Workers : ~Gone(w)
        /\ \E w \in Workers :
             /\ LeastLoaded(w)
             /\ call' = [call EXCEPT !.pc = "send", !.job = j, !.to = w]
  /\ UNCHANGED <<jobs, pending, results, failures, open, killed, worker,
                 pipes, signals, history>>

Sent(w) ==
  /\ Goto("loop")
  /\ pending' = [pending EXCEPT ![w] = Append(@, call.job)]

Send(w) ==
  /\ At("send") /\ call.to = w
  /\ \/ /\ ~Gone(w) /\ call.job \notin bulky
        /\ inbox' = [inbox EXCEPT ![w] = Append(@, call.job)]
        /\ Sent(w)
     \/ /\ Gone(w) /\ Raise(call.job)
        /\ UNCHANGED <<inbox, pending>>
  /\ UNCHANGED <<jobs, ready, results, failures, open, killed, worker,
                 outbox, signals, history>>

\* A bulky job is through when the worker has read all of it.
SendBulky(w) ==
  /\ At("send") /\ call.to = w /\ call.job \in bulky
  /\ Pc(w) = "recv" /\ inbox[w] = <<>>
  /\ worker' = [worker EXCEPT ![w] = [pc |-> "compute", job |-> call.job, kind |-> "result"]]
  /\ Sent(w)
  /\ UNCHANGED <<jobs, ready, results, failures, open, killed, pipes,
                 signals, history>>

-----------------------------------------------------------------------------
(* Receiving                                                                    *)

Waiting == \E w \in Workers : pending[w] # <<>>

\* Slip: the call ends with the first failure that arrives.
PendingNone == FALSE

\* _has_pending_lower_ordinal
PendingLower ==
  \E w \in Workers : \E n \in DOMAIN pending[w] : pending[w][n] < Lowest(failures)

Decided == failures # {} /\ ~PendingLower

\* The loop of _run_process_file_jobs ends, or stops at a failure.
LeaveLoop ==
  /\ At("loop") /\ ~Submits
  /\ IF ~Waiting THEN Goto("close") ELSE Decided /\ EndWith(Verdict)
  /\ UNCHANGED <<jobs, ready, pending, results, failures, open, killed,
                 worker, pipes, signals, history>>

Receives == At("loop") /\ ~Submits /\ Waiting /\ ~Decided
Pushing(w) == Pc(w) = "push" /\ worker[w].job \in bulky /\ worker[w].kind = "result"
Readable(w) == pending[w] # <<>> /\ (outbox[w] # <<>> \/ Pushing(w) \/ Gone(w))

\* Slip: a job that was interrupted counts as one that returned.
AcceptInterrupted(r) ==
  CASE r.kind \in {"result", "interrupted"} ->
         Goto("loop") /\ results' = results \cup {r.job} /\ UNCHANGED <<ready, failures>>
    [] r.kind = "error" ->
         Goto("loop") /\ failures' = failures \cup {r.job} /\ ready' = {}
         /\ UNCHANGED results

Accept(r) ==
  CASE r.kind = "interrupted" ->
         EndWith(Interrupted) /\ UNCHANGED <<ready, results, failures>>
    [] r.kind = "result" ->
         Goto("loop") /\ results' = results \cup {r.job} /\ UNCHANGED <<ready, failures>>
    [] r.kind = "error" ->
         Goto("loop") /\ failures' = failures \cup {r.job} /\ ready' = {}
         /\ UNCHANGED results

\* receive, when a connection is ready.
Receive(w) ==
  /\ Receives /\ Readable(w)
  /\ pending' = [pending EXCEPT ![w] = Tail(@)]
  /\ LET expected == Head(pending[w])
         r == IF outbox[w] # <<>> THEN Head(outbox[w])
              ELSE [job |-> worker[w].job, kind |-> worker[w].kind]
     IN IF (outbox[w] = <<>> /\ Gone(w)) \/ r.job # expected \/ r.kind = "torn"
          THEN Raise(expected) /\ UNCHANGED <<ready, results, failures>>
          ELSE Accept(r)
  /\ outbox' = IF outbox[w] # <<>> THEN [outbox EXCEPT ![w] = Tail(@)] ELSE outbox
  /\ IF outbox[w] = <<>> /\ Pushing(w) THEN Move(w, "recv") ELSE UNCHANGED worker
  /\ UNCHANGED <<jobs, open, killed, inbox, signals, history>>

\* receive: the wait timed out.
Poll ==
  /\ Receives /\ \A w \in Workers : ~Readable(w)
  /\ Goto("poll")
  /\ UNCHANGED <<jobs, ready, pending, results, failures, open, killed,
                 worker, pipes, signals, history>>

\* _raise_for_dead_workers
RaiseForDeadWorkers ==
  /\ At("poll")
  /\ IF \E w \in Workers : Gone(w)
       THEN \E w \in Workers : FirstGone(w) /\ Raise(HeadJob(w))
       ELSE Goto("loop")
  /\ UNCHANGED <<jobs, ready, pending, results, failures, open, killed,
                 worker, pipes, signals, history>>

-----------------------------------------------------------------------------
(* Closing and terminating                                                      *)

\* close: every live worker is asked to return.  Writing to one that ended a
\* moment ago fails.
Close ==
  /\ At("close")
  /\ \/ /\ inbox' = [w \in Workers |-> IF Gone(w) THEN inbox[w] ELSE Append(inbox[w], Stop)]
        /\ Goto("join")
     \/ /\ \E w \in Workers : Gone(w)
        /\ Raise(NoJob) /\ UNCHANGED inbox
  /\ UNCHANGED <<jobs, ready, pending, results, failures, open, killed,
                 worker, outbox, signals, history>>

Join ==
  /\ At("join")
  /\ \/ /\ \A w \in Workers : Pc(w) = "exited"
        /\ open' = FALSE
        /\ call' = [call EXCEPT !.pc = "over", !.end = Verdict]
     \/ /\ \E w \in Workers : Pc(w) = "dead" /\ \A v \in Workers : v < w => Gone(v)
        /\ Raise(NoJob) /\ UNCHANGED open
  /\ UNCHANGED <<jobs, ready, pending, results, failures, killed, worker,
                 pipes, signals, history>>

\* A worker did not return within five seconds.
JoinTimesOut ==
  /\ At("join") /\ Fault
  /\ \E w \in Workers : Alive(w)
  /\ Raise(NoJob)
  /\ UNCHANGED <<jobs, ready, pending, results, failures, open, killed,
                 worker, pipes, signals, ran, escaped>>

\* terminate: SIGTERM, and SIGKILL for those that five seconds later still live.
Terminate ==
  /\ At("terminate")
  /\ killed' = {w \in Workers : Alive(w)}
  /\ Goto("reap")
  /\ UNCHANGED <<jobs, ready, pending, results, failures, open, worker,
                 pipes, signals, history>>

\* Slip: the connections are closed and nobody is waited for.
ReapNobody ==
  /\ At("reap")
  /\ open' = FALSE /\ Goto("over")
  /\ UNCHANGED <<jobs, ready, pending, results, failures, killed, worker,
                 pipes, signals, history>>

Reap ==
  /\ At("reap") /\ \A w \in Workers : ~Alive(w)
  /\ open' = FALSE /\ Goto("over")
  /\ UNCHANGED <<jobs, ready, pending, results, failures, killed, worker,
                 pipes, signals, history>>

\* KeyboardInterrupt in the parent.  terminate swallows it where it waits or
\* signals, though its last wait is then cut short; between these it still closes
\* the connections, and no more.
TakeNotice ==
  /\ Parent \in signals /\ signals' = signals \ {Parent}
  /\ IF At("terminate") \/ At("reap")
       THEN \/ UNCHANGED <<call, open, escaped>>
            \/ /\ \E end \in {call.end, Interrupted} :
                    call' = [call EXCEPT !.pc = "over", !.end = end]
               /\ open' = FALSE /\ escaped' = TRUE
       ELSE /\ IF Over THEN UNCHANGED call ELSE EndWith(Interrupted)
            /\ UNCHANGED <<open, escaped>>
  /\ UNCHANGED <<jobs, ready, pending, results, failures, killed, worker,
                 pipes, ran, faults>>

\* The parent dies; the kernel closes its connections.
Die ==
  /\ ~Over /\ Fault
  /\ Goto("gone") /\ open' = FALSE /\ signals' = signals \ {Parent}
  /\ UNCHANGED <<jobs, ready, pending, results, failures, killed, worker,
                 pipes, ran, escaped>>

-----------------------------------------------------------------------------
(* A worker                                                                     *)

ParentRests == UNCHANGED <<jobs, parentVars>>

\* _initialize_file_job_worker
Boot(w) ==
  /\ Pc(w) = "boot" /\ Move(w, "recv")
  /\ ParentRests /\ UNCHANGED <<pipes, signals, history>>

\* Slip: a worker waits for a job that nobody can send any more.
TakeForever(w) ==
  /\ Pc(w) = "recv" /\ inbox[w] # <<>>
  /\ worker' = [worker EXCEPT ![w] =
       IF Head(inbox[w]) = Stop THEN [@ EXCEPT !.pc = "exited"]
       ELSE [pc |-> "compute", job |-> Head(inbox[w]), kind |-> "result"]]
  /\ inbox' = [inbox EXCEPT ![w] = Tail(@)]
  /\ ParentRests /\ UNCHANGED <<outbox, signals, history>>

Take(w) ==
  /\ Pc(w) = "recv"
  /\ \/ /\ inbox[w] # <<>>
        /\ worker' = [worker EXCEPT ![w] =
             IF Head(inbox[w]) = Stop THEN [@ EXCEPT !.pc = "exited"]
             ELSE [pc |-> "compute", job |-> Head(inbox[w]), kind |-> "result"]]
        /\ inbox' = [inbox EXCEPT ![w] = Tail(@)]
     \/ /\ inbox[w] = <<>> /\ ~open    \* EOFError
        /\ Move(w, "exited") /\ UNCHANGED inbox
  /\ ParentRests /\ UNCHANGED <<outbox, signals, history>>

Computed(w, kind) ==
  /\ worker' = [worker EXCEPT ![w].pc = "push", ![w].kind = kind]
  /\ ran' = [ran EXCEPT ![worker[w].job] = IF @ = "no" THEN kind ELSE "twice"]

\* compute returns or raises; a result that no pipe may carry is an error too.
Compute(w) ==
  /\ Pc(w) = "compute"
  /\ \E kind \in {"result", "error"} : Computed(w, kind)
  /\ ParentRests /\ UNCHANGED <<pipes, signals, escaped, faults>>

Respond(w, responses) == outbox' = [outbox EXCEPT ![w] = @ \o responses]
Response(w, kind) == [job |-> worker[w].job, kind |-> kind]

\* connection.send; a broken pipe ends the worker.
Push(w) ==
  /\ Pc(w) = "push"
  /\ \/ /\ open /\ ~Pushing(w)
        /\ Respond(w, <<Response(w, worker[w].kind)>>) /\ Move(w, "recv")
     \/ /\ ~open /\ Move(w, "exited") /\ UNCHANGED outbox
  /\ ParentRests /\ UNCHANGED <<inbox, signals, history>>

\* KeyboardInterrupt in a worker.  In the middle of a response the handler sends
\* an error for the same job, after all, some or nothing of the response.
TakeNoticeAtWork(w) ==
  /\ w \in signals /\ signals' = signals \ {w}
  /\ \/ /\ Pc(w) = "boot" /\ \E pc \in {"exited", "dead"} : Move(w, pc)
        /\ UNCHANGED <<outbox, ran>>
     \/ Pc(w) = "recv" /\ Move(w, "exited") /\ UNCHANGED <<outbox, ran>>
     \/ Pc(w) = "compute" /\ Computed(w, "interrupted") /\ UNCHANGED outbox
     \/ /\ Pc(w) = "push"
        /\ \/ Move(w, "exited") /\ UNCHANGED outbox
           \/ Move(w, "recv") /\ Respond(w, <<Response(w, "error")>>)
           \/ /\ ~Pushing(w) /\ Move(w, "recv")
              /\ Respond(w, <<Response(w, worker[w].kind), Response(w, "error")>>)
           \/ Pushing(w) /\ Move(w, "recv") /\ Respond(w, <<Response(w, "torn")>>)
        /\ UNCHANGED ran
     \/ ~Alive(w) /\ UNCHANGED <<worker, outbox, ran>>
  /\ ParentRests /\ UNCHANGED <<inbox, escaped, faults>>

\* A failed initialisation, the kernel, or anyone else ends the worker.
WorkerDies(w) ==
  /\ Alive(w) /\ Fault /\ Move(w, "dead")
  /\ ParentRests /\ UNCHANGED <<pipes, signals, ran, escaped>>

Killed(w) ==
  /\ Alive(w) /\ w \in killed /\ Move(w, "dead")
  /\ ParentRests /\ UNCHANGED <<pipes, signals, history>>

\* Ctrl-C
Interrupt ==
  /\ ~At("gone") /\ Fault
  /\ signals' = {Parent} \cup {w \in Workers : Alive(w)}
  /\ ParentRests /\ UNCHANGED <<worker, pipes, ran, escaped>>

-----------------------------------------------------------------------------
Proceeds ==
  \/ \E w \in Workers : StartWorker(w) \/ Send(w) \/ SendBulky(w) \/ Receive(w)
  \/ \E j \in Jobs : Submit(j)
  \/ LeaveLoop \/ Poll \/ RaiseForDeadWorkers \/ Close \/ Join \/ Terminate \/ Reap

Works(w) == Boot(w) \/ Take(w) \/ Compute(w) \/ Push(w) \/ Killed(w)

Next ==
  \/ Proceeds \/ StartFails \/ JoinTimesOut \/ TakeNotice \/ Die \/ Interrupt
  \/ \E w \in Workers : Works(w) \/ TakeNoticeAtWork(w) \/ WorkerDies(w)

Spec == Init /\ [][Next]_vars

\* Processes run, computations end, signals arrive.  Nothing has to fail.
Fairness ==
  /\ WF_vars(Proceeds) /\ WF_vars(TakeNotice)
  /\ \A w \in Workers : WF_vars(Works(w)) /\ WF_vars(TakeNoticeAtWork(w))

FairSpec == Spec /\ Fairness

-----------------------------------------------------------------------------
(* Properties                                                                   *)

Awaited == {j \in Jobs : \E w \in Workers : \E n \in DOMAIN pending[w] : pending[w][n] = j}

\* The call ended with what run_file_jobs returns or raises.
Ended(kind) == At("over") /\ call.end.kind = kind

\* A list of results is returned only when every job was computed to its end
\* exactly once, whatever died, was interrupted or answered twice.
SuccessIsComplete ==
  Ended("results") => results = Jobs /\ \A j \in Jobs : ran[j] = "result"

NeverSubmitted(j) ==
  ran[j] = "no" /\ j \notin Awaited

\* Without a fault a call fails only for a job that failed, and of the jobs that
\* were submitted none with a lower ordinal did; and no later fault hides a
\* failure that was received (tests/utils/test_file_jobs.py:567, 1202).
BlamesLowestFailure ==
  Ended("failed") =>
    /\ faults = 0 =>
         /\ ran[call.end.job] = "error"
         /\ \A i \in Jobs : i < call.end.job => i \in results \/ NeverSubmitted(i)
    /\ \A i \in failures : call.end.job <= i

\* The artifacts vanish after the workers that use them, unless a second Ctrl-C
\* breaks off their termination (tests/utils/test_file_jobs.py:836).
WorkersEndFirst ==
  At("over") /\ ~escaped => \A w \in Workers : ~Alive(w)

\* Parent and worker write to each other what does not fit into the pipe.
Crossed ==
  At("send") /\ call.job \in bulky /\ Pushing(call.to)

\* Whatever dies, the call ends and its workers with it, also if the parent
\* itself dies, unless two bulky messages cross.
CallEnds == []<>((Over /\ \A w \in Workers : ~Alive(w)) \/ Crossed)
=============================================================================
