--------------------------- MODULE FileJobsProofs ---------------------------
(***************************************************************************)
(* For any number of jobs, workers and faults, and whichever jobs are      *)
(* large or bulky: a list of results is complete, a call that fails blames *)
(* the lowest failed job, and workers end before the call does.            *)
(***************************************************************************)
EXTENDS FileJobs, SequenceTheorems, WellFoundedInduction, TLAPS

Computing(w) == Pc(w) = "compute"
Answering(w) == Pc(w) = "push"

WorkerPcs == {"unborn", "boot", "recv", "compute", "push", "exited", "dead"}
Kinds     == {"result", "error", "interrupted"}
Responses == [job : Jobs, kind : Kinds \cup {"torn"}]
Endings   == [kind : {"none", "results", "failed", "interrupted"}, job : Jobs \cup {NoJob}]
CallPcs   == {"start", "loop", "send", "poll", "close", "join", "terminate", "reap",
              "over", "gone"}

TypeOK ==
  /\ large \subseteq Jobs /\ bulky \subseteq Jobs
  /\ call \in [pc : CallPcs, job : Jobs \cup {NoJob}, to : Workers, end : Endings]
  /\ ready \subseteq Jobs /\ results \subseteq Jobs /\ failures \subseteq Jobs
  /\ pending \in [Workers -> Seq(Jobs)]
  /\ worker \in [Workers -> [pc : WorkerPcs, job : Jobs \cup {NoJob}, kind : Kinds]]
  /\ \A w \in Workers : Computing(w) \/ Answering(w) => worker[w].job \in Jobs
  /\ inbox \in [Workers -> Seq(Jobs \cup {Stop})]
  /\ outbox \in [Workers -> Seq(Responses)]
  /\ open \in BOOLEAN /\ escaped \in BOOLEAN
  /\ killed \subseteq Workers /\ signals \subseteq Workers \cup {Parent}
  /\ ran \in [Jobs -> Kinds \cup {"no", "twice"}]
  /\ faults \in Nat
  /\ At("send") => call.job \in Jobs

-----------------------------------------------------------------------------
(* No job is computed twice                                                    *)

Asked(q)   == {q[n] : n \in 1 .. Len(q)} \ {Stop}
AskedOnce(q) == \A m, n \in 1 .. Len(q) : q[m] = q[n] => m = n \/ q[m] = Stop

Queued(w)  == Asked(inbox[w])
Current(w) == IF Computing(w) THEN {worker[w].job} ELSE {}
Held(w)    == Queued(w) \cup Current(w)
Carried    == IF At("send") THEN {call.job} ELSE {}

\* A job that is not computed yet is in one place at most.
Once ==
  /\ \A w \in Workers :
       /\ AskedOnce(inbox[w]) /\ Current(w) \cap Queued(w) = {}
       /\ Held(w) \cap (ready \cup Carried) = {}
       /\ \A v \in Workers \ {w} : Held(v) \cap Held(w) = {}
       /\ \A j \in Held(w) : ran[j] = "no"
  /\ Carried \cap ready = {}
  /\ \A j \in ready \cup Carried : ran[j] = "no"

\* A result says how the computation of its job ended.
Truthful ==
  /\ \A w \in Workers :
       /\ Answering(w) => ran[worker[w].job] = worker[w].kind
       /\ \A n \in 1 .. Len(outbox[w]) :
            outbox[w][n].kind = "result" => ran[outbox[w][n].job] = "result"
  /\ \A j \in results : ran[j] = "result"

-----------------------------------------------------------------------------
(* No job is forgotten                                                         *)

Submitting == call.pc \in {"start", "loop", "send", "poll"}
Closing    == call.pc \in {"close", "join"}

Accounted ==
  /\ Submitting /\ failures = {} => Jobs = ready \cup Carried \cup Awaited \cup results
  /\ Closing /\ failures = {} => Jobs = results
  /\ Closing => \A w \in Workers : pending[w] = <<>>

\* What a call that is about to end ends with.
Endgame ==
  /\ Submitting \/ Closing => call.end = None
  /\ call.end.kind = "failed" => call.end.job \in Jobs /\ \A i \in failures : call.end.job <= i
  /\ call.end.kind = "results" => results = Jobs

-----------------------------------------------------------------------------
(* A call without a fault                                                      *)

Busy(w) == IF Computing(w) \/ Answering(w) THEN 1 ELSE 0

\* Jobs and responses pass a worker in the order of submission: what is awaited
\* (p) has been answered (o), is being worked on, or lies in the inbox (i).
InOrder(p, o, busy, job, i) ==
  /\ Len(p) = Len(o) + busy + Len(i)
  /\ \A n \in 1 .. Len(o) : p[n] = o[n].job
  /\ busy = 1 => p[Len(o) + 1] = job
  /\ \A n \in 1 .. Len(i) : p[Len(o) + busy + n] = i[n]

Fifo(w) == InOrder(pending[w], outbox[w], Busy(w), worker[w].job, inbox[w])

Orderly ==
  /\ signals = {}
  /\ At("start") => \A w \in Workers : w >= call.to => Pc(w) = "unborn"
  /\ Submitting \/ Closing => killed = {} /\ open
  /\ Submitting \/ At("close") => \A w \in Workers : ~Gone(w) /\ Fifo(w)
  /\ At("join") => \A w \in Workers : Pc(w) # "dead"

\* Every response is a result or an error of its job's computation.
Plain ==
  /\ \A w \in Workers :
       /\ Answering(w) => worker[w].kind \in {"result", "error"}
       /\ \A n \in 1 .. Len(outbox[w]) :
            outbox[w][n].kind \in {"result", "error"} /\ ran[outbox[w][n].job] = outbox[w][n].kind
  /\ \A j \in failures : ran[j] = "error"

\* Whatever was or will be computed is awaited or was received.
Followed ==
  /\ \A w \in Workers : Held(w) \subseteq Awaited
  /\ Submitting \/ Closing =>
       \A j \in Jobs : ran[j] = "no" \/ j \in results \cup failures \cup Awaited

Blame ==
  call.end.kind = "failed" =>
    /\ ran[call.end.job] = "error"
    /\ \A i \in Jobs : i < call.end.job => i \in results \/ NeverSubmitted(i)

Faultless == faults = 0 => Orderly /\ Plain /\ Followed /\ Blame

Inv == Once /\ Truthful /\ Accounted /\ Endgame /\ Faultless /\ WorkersEndFirst

-----------------------------------------------------------------------------
(* Helpers                                                                     *)

LEMMA NonEmpty == 1 \in Jobs /\ 1 \in Workers /\ Jobs \subseteq Nat /\ Workers \subseteq Nat
BY CountsAssumption DEF Jobs, Workers

LEMMA LowestIsLeast ==
  ASSUME NEW S \in SUBSET Jobs, S # {}
  PROVE  Lowest(S) \in S /\ \A i \in S : Lowest(S) <= i
<1> DEFINE Less == {ss \in Nat \X Nat : ss[1] < ss[2]}
<1>1. S \subseteq Nat
  BY NonEmpty
<1>2. IsWellFoundedOn(Less, Nat)
  BY NatLessThanWellFounded, Zenon DEF OpToRel
<1> HIDE DEF Less
<1>3. PICK j \in S : \A i \in S : ~ (<<i, j>> \in Less)
  BY ONLY <1>1, <1>2, S # {}, WFMin, Zenon
<1>4. ASSUME NEW i \in S PROVE j <= i
  <2>1. <<i, j>> \in Nat \X Nat /\ ~ (<<i, j>> \in Less)
    BY <1>1, <1>3
  <2> QED BY <1>1, <2>1 DEF Less
<1> QED BY <1>4 DEF Lowest

\* _lowest_failure_ordinal names a job, and none above a failure.
LEMMA BlamedIsLow ==
  ASSUME TypeOK, NEW job \in Jobs \cup {NoJob}
  PROVE  Blamed(job) \in Jobs /\ \A i \in failures : Blamed(job) <= i
<1> DEFINE candidates == failures \cup ({job} \ {NoJob})
<1>1. candidates \subseteq Jobs /\ failures \subseteq candidates /\ Jobs \ results \subseteq Jobs
  BY DEF TypeOK
<1> HIDE DEF candidates
<1>2. CASE candidates # {}
  <2>1. Blamed(job) = Lowest(candidates)
    BY <1>2 DEF Blamed, candidates
  <2> QED BY <1>1, <1>2, <2>1, LowestIsLeast
<1>3. CASE candidates = {}
  <2>1. Blamed(job) = Lowest(Jobs \ results) \/ Blamed(job) = Lowest(Jobs)
    BY <1>3 DEF Blamed, candidates
  <2>2. Blamed(job) = Lowest(Jobs \ results) => Jobs \ results # {} \/ Blamed(job) = Lowest(Jobs)
    BY <1>3 DEF Blamed, candidates
  <2>3. Jobs # {}
    BY NonEmpty
  <2> QED BY <1>1, <1>3, <2>1, <2>2, <2>3, LowestIsLeast
<1> QED BY <1>2, <1>3

LEMMA VerdictFits ==
  ASSUME TypeOK
  PROVE  /\ Verdict \in Endings /\ Verdict # None
         /\ Verdict.kind = "results" => failures = {}
         /\ Verdict.kind = "failed" =>
              failures # {} /\ Verdict.job \in failures /\ \A i \in failures : Verdict.job <= i
<1>1. failures \subseteq Jobs
  BY DEF TypeOK
<1> QED BY <1>1, LowestIsLeast DEF Verdict, Failed, Endings, None

\* What a raise makes of the call.
LEMMA RaiseFits ==
  ASSUME TypeOK, NEW job \in Jobs \cup {NoJob}, Raise(job)
  PROVE  /\ call' = [call EXCEPT !.pc = "terminate", !.end = Failed(Blamed(job))]
         /\ Failed(Blamed(job)) \in Endings
         /\ Blamed(job) \in Jobs /\ \A i \in failures : Blamed(job) <= i
BY BlamedIsLow DEF Raise, EndWith, Failed, Endings

LEMMA HeadJobFits ==
  ASSUME TypeOK, NEW w \in Workers
  PROVE  HeadJob(w) \in Jobs \cup {NoJob}
BY HeadTailProperties DEF TypeOK, HeadJob

LEMMA AppendFacts ==
  ASSUME NEW S, NEW s \in Seq(S), NEW e \in S
  PROVE  /\ Append(s, e) \in Seq(S) /\ Len(Append(s, e)) = Len(s) + 1
         /\ \A n \in 1 .. Len(s) : Append(s, e)[n] = s[n]
         /\ Append(s, e)[Len(s) + 1] = e
         /\ Len(s) \in Nat /\ s \o <<e>> = Append(s, e)
BY AppendProperties, LenProperties, AppendIsConcat

LEMMA TailFacts ==
  ASSUME NEW S, NEW s \in Seq(S), s # <<>>
  PROVE  /\ Head(s) \in S /\ Head(s) = s[1]
         /\ Tail(s) \in Seq(S) /\ Len(Tail(s)) = Len(s) - 1
         /\ \A n \in 1 .. Len(Tail(s)) : Tail(s)[n] = s[n + 1]
         /\ Len(s) \in Nat /\ Len(s) >= 1
BY HeadTailProperties, LenProperties, EmptySeq

-----------------------------------------------------------------------------
(* Types                                                                       *)

LEMMA TypeInit == Init => TypeOK
<1> SUFFICES ASSUME Init PROVE TypeOK
  OBVIOUS
<1>1. call \in [pc : CallPcs, job : Jobs \cup {NoJob}, to : Workers, end : Endings]
  BY NonEmpty DEF Init, CallPcs, Endings, None
<1>2. worker \in [Workers -> [pc : WorkerPcs, job : Jobs \cup {NoJob}, kind : Kinds]]
  BY DEF Init, Unborn, WorkerPcs, Kinds
<1>3. \A w \in Workers : ~Computing(w) /\ ~Answering(w)
  BY DEF Init, Unborn, Computing, Answering, Pc
<1>4. /\ pending \in [Workers -> Seq(Jobs)] /\ inbox \in [Workers -> Seq(Jobs \cup {Stop})]
      /\ outbox \in [Workers -> Seq(Responses)]
  BY EmptySeq DEF Init
<1>5. large \subseteq Jobs /\ bulky \subseteq Jobs
  BY JobsAssumption DEF Init, Jobs
<1>6. ~At("send")
  BY DEF Init, At
<1> QED BY <1>1, <1>2, <1>3, <1>4, <1>5, <1>6 DEF Init, TypeOK

LEMMA MoveType ==
  ASSUME TypeOK, NEW w \in Workers, NEW pc \in WorkerPcs,
         pc \in {"compute", "push"} => Pc(w) \in {"compute", "push"},
         worker' = [worker EXCEPT ![w].pc = pc]
  PROVE  /\ worker' \in [Workers -> [pc : WorkerPcs, job : Jobs \cup {NoJob}, kind : Kinds]]
         /\ \A v \in Workers : (Computing(v) \/ Answering(v))' => worker'[v].job \in Jobs
<1>1. worker[w] \in [pc : WorkerPcs, job : Jobs \cup {NoJob}, kind : Kinds]
  BY DEF TypeOK
<1>2. [worker[w] EXCEPT !.pc = pc] \in [pc : WorkerPcs, job : Jobs \cup {NoJob}, kind : Kinds]
  BY <1>1
<1>3. worker' = [worker EXCEPT ![w] = [worker[w] EXCEPT !.pc = pc]]
  OBVIOUS
<1>4. ASSUME NEW v \in Workers, (Computing(v) \/ Answering(v))' PROVE worker'[v].job \in Jobs
  <2>1. CASE v # w
    BY <1>3, <1>4, <2>1 DEF TypeOK, Pc, Computing, Answering
  <2>2. CASE v = w
    <3>1. worker'[w].pc = pc /\ worker'[w].job = worker[w].job
      BY <1>1, <1>3 DEF TypeOK
    <3> QED BY <1>4, <2>2, <3>1 DEF TypeOK, Pc, Computing, Answering
  <2> QED BY <2>1, <2>2
<1> QED BY <1>2, <1>3, <1>4 DEF TypeOK

\* A worker that has taken a job.
LEMMA TakenType ==
  ASSUME TypeOK, NEW w \in Workers, NEW j \in Jobs,
         worker' = [worker EXCEPT ![w] = [pc |-> "compute", job |-> j, kind |-> "result"]]
  PROVE  /\ worker' \in [Workers -> [pc : WorkerPcs, job : Jobs \cup {NoJob}, kind : Kinds]]
         /\ \A v \in Workers : (Computing(v) \/ Answering(v))' => worker'[v].job \in Jobs
BY DEF TypeOK, Pc, Computing, Answering, WorkerPcs, Kinds

LEMMA ComputedType ==
  ASSUME TypeOK, NEW w \in Workers, NEW kind \in Kinds, Pc(w) = "compute", Computed(w, kind)
  PROVE  /\ worker' \in [Workers -> [pc : WorkerPcs, job : Jobs \cup {NoJob}, kind : Kinds]]
         /\ \A v \in Workers : (Computing(v) \/ Answering(v))' => worker'[v].job \in Jobs
         /\ ran' \in [Jobs -> Kinds \cup {"no", "twice"}]
<1> DEFINE new == [worker[w] EXCEPT !.pc = "push", !.kind = kind]
<1>1. worker[w] \in [pc : WorkerPcs, job : Jobs \cup {NoJob}, kind : Kinds] /\ worker[w].job \in Jobs
  BY DEF TypeOK, Computing, Pc
<1>2. /\ new \in [pc : WorkerPcs, job : Jobs \cup {NoJob}, kind : Kinds]
      /\ new.job = worker[w].job /\ new.pc = "push" /\ new.kind = kind
  BY <1>1 DEF WorkerPcs
<1>3. worker' = [worker EXCEPT ![w] = new]
  BY DEF Computed
<1> HIDE DEF new
<1>4. worker' \in [Workers -> [pc : WorkerPcs, job : Jobs \cup {NoJob}, kind : Kinds]]
  BY <1>2, <1>3 DEF TypeOK
<1>5. \A v \in Workers : (Computing(v) \/ Answering(v))' => worker'[v].job \in Jobs
  BY <1>1, <1>2, <1>3 DEF TypeOK, Computing, Answering, Pc
<1>6. ran' \in [Jobs -> Kinds \cup {"no", "twice"}]
  BY DEF TypeOK, Computed
<1> QED BY <1>4, <1>5, <1>6

\* A worker that answers.
LEMMA RespondType ==
  ASSUME TypeOK, NEW w \in Workers, NEW r \in Responses, NEW s \in Responses,
         Respond(w, <<r>>) \/ Respond(w, <<r, s>>)
  PROVE  outbox' \in [Workers -> Seq(Responses)]
<1>1. outbox[w] \in Seq(Responses) /\ <<r>> \in Seq(Responses) /\ <<r, s>> \in Seq(Responses)
  BY DEF TypeOK
<1>2. outbox[w] \o <<r>> \in Seq(Responses) /\ outbox[w] \o <<r, s>> \in Seq(Responses)
  BY <1>1, ConcatProperties
<1> QED BY <1>2 DEF TypeOK, Respond

LEMMA RaiseType ==
  ASSUME TypeOK, NEW job \in Jobs \cup {NoJob}, Raise(job)
  PROVE  /\ call' \in [pc : CallPcs, job : Jobs \cup {NoJob}, to : Workers, end : Endings]
         /\ At("send")' => call'.job \in Jobs
<1>1. PICK end \in Endings : call' = [call EXCEPT !.pc = "terminate", !.end = end]
  BY RaiseFits
<1> QED BY <1>1 DEF TypeOK, CallPcs, At

\* What the parent makes of the next response.
LEMMA ReceiveCases ==
  ASSUME TypeOK, NEW w \in Workers, Receive(w)
  PROVE  /\ pending[w] # <<>> /\ Head(pending[w]) \in Jobs
         /\ \/ Raise(Head(pending[w])) /\ UNCHANGED <<ready, results, failures>>
            \/ \E r : /\ r.job = Head(pending[w]) /\ r.kind \in Kinds /\ Accept(r)
                      /\ \/ outbox[w] # <<>> /\ r = Head(outbox[w])
                         \/ /\ outbox[w] = <<>> /\ Pushing(w)
                            /\ r.job = worker[w].job /\ r.kind = worker[w].kind
<1> DEFINE r == IF outbox[w] # <<>> THEN Head(outbox[w])
                ELSE [job |-> worker[w].job, kind |-> worker[w].kind]
<1>1. pending[w] # <<>> /\ (outbox[w] # <<>> \/ Pushing(w) \/ Gone(w))
  BY DEF Receive, Readable
<1>2. Head(pending[w]) \in Jobs
  BY <1>1, TailFacts DEF TypeOK
<1>3. r.kind \in Kinds \cup {"torn"}
  <2>1. outbox[w] # <<>> => Head(outbox[w]) \in Responses
    BY TailFacts DEF TypeOK
  <2>2. worker[w].kind \in Kinds
    BY DEF TypeOK
  <2> QED BY <2>1, <2>2 DEF Responses
<1>4. \/ Raise(Head(pending[w])) /\ UNCHANGED <<ready, results, failures>>
      \/ /\ outbox[w] # <<>> \/ ~Gone(w)
         /\ r.job = Head(pending[w]) /\ r.kind # "torn" /\ Accept(r)
  BY DEF Receive
<1>5. outbox[w] = <<>> => r.job = worker[w].job /\ r.kind = worker[w].kind
  OBVIOUS
<1>6. outbox[w] # <<>> => r = Head(outbox[w])
  OBVIOUS
<1> HIDE DEF r
<1>7. CASE Raise(Head(pending[w])) /\ UNCHANGED <<ready, results, failures>>
  BY <1>1, <1>2, <1>7
<1>8. CASE /\ outbox[w] # <<>> \/ ~Gone(w)
           /\ r.job = Head(pending[w]) /\ r.kind # "torn" /\ Accept(r)
  BY <1>1, <1>2, <1>3, <1>5, <1>6, <1>8
<1> QED BY <1>4, <1>7, <1>8

\* The steps of the parent, as far as the call itself is concerned.
LEMMA CallType ==
  ASSUME TypeOK, [Next]_vars
  PROVE  /\ call' \in [pc : CallPcs, job : Jobs \cup {NoJob}, to : Workers, end : Endings]
         /\ At("send")' => call'.job \in Jobs
<1> DEFINE Goal == /\ call' \in [pc : CallPcs, job : Jobs \cup {NoJob}, to : Workers, end : Endings]
                   /\ At("send")' => call'.job \in Jobs
<1>1. UNCHANGED call => Goal
  BY DEF TypeOK, At
<1>2. \A pc \in CallPcs \ {"send"} : Goto(pc) => Goal
  BY DEF TypeOK, Goto, At
<1>3. \A end \in Endings : EndWith(end) => Goal
  BY DEF TypeOK, EndWith, At, CallPcs
<1>4. \A job \in Jobs \cup {NoJob} : Raise(job) => Goal
  BY RaiseType
<1>5. Verdict \in Endings /\ Interrupted \in Endings
  BY VerdictFits DEF Interrupted, Endings
<1>6. \A w \in Workers : HeadJob(w) \in Jobs \cup {NoJob}
  BY HeadJobFits
<1>7. \A pc \in {"loop", "close", "poll", "join", "reap", "over", "gone"} : pc \in CallPcs \ {"send"}
  BY DEF CallPcs
<1>8. ASSUME NEW w \in Workers, StartWorker(w) PROVE Goal
  <2>1. w # WorkerCount => w + 1 \in Workers
    BY CountsAssumption DEF Workers
  <2> QED BY <1>8, <2>1 DEF StartWorker, TypeOK, CallPcs, At
<1>9. ASSUME NEW j \in Jobs, Submit(j) PROVE Goal
  <2>1. ASSUME NEW w \in Workers, call' = [call EXCEPT !.pc = "send", !.job = j, !.to = w]
        PROVE  Goal
    BY <2>1 DEF TypeOK, CallPcs, At
  <2>2. ASSUME NEW w \in Workers, Raise(HeadJob(w)) PROVE Goal
    BY <1>4, <1>6, <2>2
  <2> HIDE DEF Goal
  <2>3. \/ \E w \in Workers : Raise(HeadJob(w))
        \/ \E w \in Workers : call' = [call EXCEPT !.pc = "send", !.job = j, !.to = w]
    BY <1>9, Zenon DEF Submit
  <2> QED BY <2>1, <2>2, <2>3
<1>10. ASSUME NEW w \in Workers, Send(w) \/ SendBulky(w) PROVE Goal
  <2>1. At("send") => call.job \in Jobs
    BY DEF TypeOK
  <2> QED BY <1>2, <1>4, <1>7, <1>10, <2>1 DEF Send, SendBulky, Sent
<1>11. ASSUME NEW w \in Workers, Receive(w) PROVE Goal
  <2>1. ASSUME NEW r, Accept(r), r.kind \in Kinds PROVE Goal
    BY <1>2, <1>3, <1>5, <1>7, <2>1 DEF Accept, Kinds
  <2> HIDE DEF Goal
  <2> QED BY <1>4, <1>11, <2>1, ReceiveCases
<1>12. LeaveLoop => Goal
  BY <1>2, <1>3, <1>5, <1>7 DEF LeaveLoop
<1>13. Poll \/ Terminate \/ Reap \/ Die => Goal
  BY <1>2, <1>7 DEF Poll, Terminate, Reap, Die
<1>14. RaiseForDeadWorkers => Goal
  BY <1>2, <1>4, <1>6, <1>7 DEF RaiseForDeadWorkers
<1>15. Close \/ StartFails \/ JoinTimesOut => Goal
  BY <1>2, <1>4, <1>7 DEF Close, StartFails, JoinTimesOut
<1>16. Join => Goal
  BY <1>4, <1>5 DEF Join, TypeOK, CallPcs, At
<1>17. TakeNotice => Goal
  <2>1. ASSUME NEW end \in {call.end, Interrupted}, call' = [call EXCEPT !.pc = "over", !.end = end]
        PROVE  Goal
    <3>1. end \in Endings
      BY <1>5 DEF TypeOK
    <3> QED BY <2>1, <3>1 DEF TypeOK, CallPcs, At
  <2> QED BY <1>1, <1>3, <1>5, <2>1 DEF TakeNotice
<1>18. ASSUME NEW w \in Workers, Works(w) \/ TakeNoticeAtWork(w) \/ WorkerDies(w) PROVE Goal
  BY <1>1, <1>18 DEF Works, Boot, Take, Compute, Push, Killed, TakeNoticeAtWork, WorkerDies,
     ParentRests, parentVars
<1>19. Interrupt \/ UNCHANGED vars => Goal
  BY <1>1 DEF Interrupt, ParentRests, parentVars, vars
<1> QED
  BY <1>8, <1>9, <1>10, <1>11, <1>12, <1>13, <1>14, <1>15, <1>16, <1>17, <1>18, <1>19
     DEF Next, Proceeds

WorkerType ==
  /\ worker \in [Workers -> [pc : WorkerPcs, job : Jobs \cup {NoJob}, kind : Kinds]]
  /\ \A v \in Workers : Computing(v) \/ Answering(v) => worker[v].job \in Jobs

PipeType ==
  /\ inbox \in [Workers -> Seq(Jobs \cup {Stop})]
  /\ outbox \in [Workers -> Seq(Responses)]

ListType ==
  /\ ready \subseteq Jobs /\ results \subseteq Jobs /\ failures \subseteq Jobs
  /\ pending \in [Workers -> Seq(Jobs)]

RestType ==
  /\ large \subseteq Jobs /\ bulky \subseteq Jobs
  /\ open \in BOOLEAN /\ escaped \in BOOLEAN
  /\ killed \subseteq Workers /\ signals \subseteq Workers \cup {Parent}
  /\ ran \in [Jobs -> Kinds \cup {"no", "twice"}]
  /\ faults \in Nat

LEMMA WorkerTypeStep ==
  ASSUME TypeOK, [Next]_vars
  PROVE  WorkerType'
<1>1. UNCHANGED worker => WorkerType'
  BY DEF TypeOK, WorkerType, Computing, Answering, Pc
<1>2. \A w \in Workers, pc \in {"boot", "recv", "exited", "dead"} : Move(w, pc) => WorkerType'
  BY MoveType DEF Move, WorkerType, WorkerPcs
<1>3. \A w \in Workers, j \in Jobs :
        worker' = [worker EXCEPT ![w] = [pc |-> "compute", job |-> j, kind |-> "result"]] => WorkerType'
  BY TakenType DEF WorkerType
<1>4. \A w \in Workers, kind \in Kinds : Pc(w) = "compute" /\ Computed(w, kind) => WorkerType'
  BY ComputedType DEF WorkerType
<1>5. ASSUME NEW w \in Workers, StartWorker(w) \/ Send(w) \/ SendBulky(w) \/ Receive(w)
      PROVE  WorkerType'
  <2>1. SendBulky(w) => call.job \in Jobs
    BY DEF SendBulky, TypeOK
  <2> QED BY <1>1, <1>2, <1>3, <1>5, <2>1 DEF StartWorker, Send, SendBulky, Receive
<1>6. ASSUME NEW w \in Workers, Take(w) PROVE WorkerType'
  <2>1. inbox[w] # <<>> => Head(inbox[w]) \in Jobs \cup {Stop}
    BY TailFacts DEF TypeOK
  <2>2. CASE inbox[w] # <<>> /\ Head(inbox[w]) = Stop
    <3>1. Move(w, "exited")
      BY <1>6, <2>2 DEF Take, Move
    <3> QED BY <1>2, <3>1
  <2>3. CASE inbox[w] # <<>> /\ Head(inbox[w]) # Stop
    BY <1>3, <1>6, <2>1, <2>3 DEF Take
  <2>4. CASE inbox[w] = <<>>
    BY <1>2, <1>6, <2>4 DEF Take
  <2> QED BY <2>2, <2>3, <2>4
<1>7. ASSUME NEW w \in Workers, Boot(w) \/ Compute(w) \/ Push(w) \/ Killed(w) \/ WorkerDies(w)
      PROVE  WorkerType'
  BY <1>1, <1>2, <1>4, <1>7 DEF Boot, Compute, Push, Killed, WorkerDies, Kinds
<1>8. ASSUME NEW w \in Workers, TakeNoticeAtWork(w) PROVE WorkerType'
  BY <1>1, <1>2, <1>4, <1>8 DEF TakeNoticeAtWork, Kinds
<1>9. ASSUME NEW j \in Jobs, Submit(j) PROVE WorkerType'
  BY <1>1, <1>9 DEF Submit
<1>10. LeaveLoop \/ Poll \/ RaiseForDeadWorkers \/ Close \/ Join \/ Terminate \/ Reap \/ StartFails
         \/ JoinTimesOut \/ TakeNotice \/ Die \/ Interrupt \/ UNCHANGED vars => WorkerType'
  BY <1>1 DEF LeaveLoop, Poll, RaiseForDeadWorkers, Close, Join, Terminate, Reap, StartFails,
     JoinTimesOut, TakeNotice, Die, Interrupt, vars
<1> QED BY <1>5, <1>6, <1>7, <1>8, <1>9, <1>10 DEF Next, Proceeds, Works

LEMMA PipeTypeStep ==
  ASSUME TypeOK, [Next]_vars
  PROVE  PipeType'
<1>1. UNCHANGED pipes => PipeType'
  BY DEF TypeOK, PipeType, pipes
<1>2. ASSUME NEW w \in Workers, Send(w) PROVE PipeType'
  <2>1. Append(inbox[w], call.job) \in Seq(Jobs \cup {Stop})
    BY <1>2, AppendFacts DEF Send, TypeOK
  <2> QED BY <1>2, <2>1 DEF Send, TypeOK, PipeType
<1>3. ASSUME NEW w \in Workers, Receive(w) PROVE PipeType'
  <2>1. outbox[w] # <<>> => Tail(outbox[w]) \in Seq(Responses)
    BY TailFacts DEF TypeOK
  <2> QED BY <1>3, <2>1 DEF Receive, TypeOK, PipeType
<1>4. ASSUME NEW w \in Workers, Take(w) PROVE PipeType'
  <2>1. inbox[w] # <<>> => Tail(inbox[w]) \in Seq(Jobs \cup {Stop})
    BY TailFacts DEF TypeOK
  <2>2. inbox' \in [Workers -> Seq(Jobs \cup {Stop})]
    <3>1. UNCHANGED inbox \/ (inbox[w] # <<>> /\ inbox' = [inbox EXCEPT ![w] = Tail(@)])
      BY <1>4, Zenon DEF Take
    <3> QED BY <2>1, <3>1 DEF TypeOK
  <2> QED BY <1>4, <2>2 DEF Take, TypeOK, PipeType
<1>5. ASSUME NEW w \in Workers, Push(w) \/ TakeNoticeAtWork(w) PROVE PipeType'
  <2>1. Pc(w) = "push" => \A kind \in Kinds \cup {"torn"} : Response(w, kind) \in Responses
    BY DEF TypeOK, Answering, Pc, Response, Responses
  <2>2. \A r, s \in Responses : Respond(w, <<r>>) \/ Respond(w, <<r, s>>) => outbox' \in [Workers -> Seq(Responses)]
    BY RespondType
  <2>3. worker[w].kind \in Kinds
    BY DEF TypeOK
  <2>4. UNCHANGED outbox => outbox' \in [Workers -> Seq(Responses)]
    BY DEF TypeOK
  <2>5. UNCHANGED inbox
    BY <1>5 DEF Push, TakeNoticeAtWork
  <2>6. outbox' \in [Workers -> Seq(Responses)]
    <3>1. CASE UNCHANGED outbox
      BY <2>4, <3>1
    <3>2. CASE ~UNCHANGED outbox
      <4>1. Pc(w) = "push"
        BY <1>5, <3>2 DEF Push, TakeNoticeAtWork
      <4> DEFINE R(kind) == Response(w, kind)
      <4>2. R(worker[w].kind) \in Responses /\ R("error") \in Responses /\ R("torn") \in Responses
        BY <2>1, <2>3, <4>1 DEF Kinds
      <4>3. \/ Respond(w, <<R(worker[w].kind)>>) \/ Respond(w, <<R("error")>>)
            \/ Respond(w, <<R("torn")>>) \/ Respond(w, <<R(worker[w].kind), R("error")>>)
        BY <1>5, <3>2 DEF Push, TakeNoticeAtWork
      <4> HIDE DEF R
      <4> QED BY <2>2, <4>2, <4>3
    <3> QED BY <3>1, <3>2
  <2> QED BY <2>5, <2>6 DEF TypeOK, PipeType
<1>6. Close => PipeType'
  <2>1. \A w \in Workers : Append(inbox[w], Stop) \in Seq(Jobs \cup {Stop})
    BY AppendFacts DEF TypeOK
  <2>2. \A w \in Workers : inbox[w] \in Seq(Jobs \cup {Stop})
    BY DEF TypeOK
  <2>3. Close => inbox' \in [Workers -> Seq(Jobs \cup {Stop})]
    <3> DEFINE new == [w \in Workers |-> IF Gone(w) THEN inbox[w] ELSE Append(inbox[w], Stop)]
    <3>1. \A w \in Workers : new[w] \in Seq(Jobs \cup {Stop})
      BY <2>1, <2>2
    <3>2. new \in [Workers -> Seq(Jobs \cup {Stop})]
      BY <3>1
    <3>3. Close => inbox' = new \/ UNCHANGED inbox
      BY DEF Close
    <3> HIDE DEF new
    <3> QED BY <3>2, <3>3 DEF TypeOK
  <2>4. Close => UNCHANGED outbox
    BY DEF Close
  <2> QED BY <2>3, <2>4 DEF TypeOK, PipeType
<1>7. ASSUME NEW w \in Workers, \/ StartWorker(w) \/ SendBulky(w) \/ Boot(w) \/ Compute(w)
                                \/ Killed(w) \/ WorkerDies(w)
      PROVE  PipeType'
  BY <1>1, <1>7 DEF StartWorker, SendBulky, Boot, Compute, Killed, WorkerDies
<1>8. ASSUME NEW j \in Jobs, Submit(j) PROVE PipeType'
  BY <1>1, <1>8 DEF Submit
<1>9. LeaveLoop \/ Poll \/ RaiseForDeadWorkers \/ Join \/ Terminate \/ Reap \/ StartFails
        \/ JoinTimesOut \/ TakeNotice \/ Die \/ Interrupt \/ UNCHANGED vars => PipeType'
  BY <1>1 DEF LeaveLoop, Poll, RaiseForDeadWorkers, Join, Terminate, Reap, StartFails,
     JoinTimesOut, TakeNotice, Die, Interrupt, vars
<1> QED BY <1>2, <1>3, <1>4, <1>5, <1>6, <1>7, <1>8, <1>9 DEF Next, Proceeds, Works

LEMMA ListTypeStep ==
  ASSUME TypeOK, [Next]_vars
  PROVE  ListType'
<1>1. UNCHANGED <<ready, pending, results, failures>> => ListType'
  BY DEF TypeOK, ListType
<1>2. ASSUME NEW j \in Jobs, Submit(j) PROVE ListType'
  BY <1>2 DEF Submit, TypeOK, ListType
<1>3. ASSUME NEW w \in Workers, Send(w) \/ SendBulky(w) PROVE ListType'
  <2>1. Append(pending[w], call.job) \in Seq(Jobs)
    BY <1>3, AppendFacts DEF Send, SendBulky, TypeOK
  <2>2. UNCHANGED pending \/ pending' = [pending EXCEPT ![w] = Append(@, call.job)]
    BY <1>3, Zenon DEF Send, SendBulky, Sent
  <2>3. pending' \in [Workers -> Seq(Jobs)]
    BY <2>1, <2>2 DEF TypeOK
  <2> QED BY <1>3, <2>3 DEF Send, SendBulky, TypeOK, ListType
<1>4. ASSUME NEW w \in Workers, Receive(w) PROVE ListType'
  <2>1. Tail(pending[w]) \in Seq(Jobs)
    BY <1>4, ReceiveCases, TailFacts DEF TypeOK
  <2>2. pending' \in [Workers -> Seq(Jobs)]
    BY <1>4, <2>1 DEF TypeOK, Receive
  <2>3. ASSUME NEW r, r.job \in Jobs, Accept(r), r.kind \in Kinds
        PROVE  ready' \subseteq Jobs /\ results' \subseteq Jobs /\ failures' \subseteq Jobs
    BY <2>3 DEF Accept, TypeOK, Kinds
  <2>4. UNCHANGED <<ready, results, failures>>
          => ready' \subseteq Jobs /\ results' \subseteq Jobs /\ failures' \subseteq Jobs
    BY DEF TypeOK
  <2>5. ready' \subseteq Jobs /\ results' \subseteq Jobs /\ failures' \subseteq Jobs
    <3>1. CASE UNCHANGED <<ready, results, failures>>
      BY <2>4, <3>1
    <3>2. CASE \E r : r.job = Head(pending[w]) /\ r.kind \in Kinds /\ Accept(r)
      BY <1>4, <2>3, <3>2, ReceiveCases, Zenon
    <3> QED BY <1>4, <3>1, <3>2, ReceiveCases, Zenon
  <2> QED BY <2>2, <2>5 DEF ListType
<1>5. ASSUME NEW w \in Workers, StartWorker(w) \/ Works(w) \/ TakeNoticeAtWork(w) \/ WorkerDies(w)
      PROVE  ListType'
  BY <1>1, <1>5 DEF StartWorker, Works, Boot, Take, Compute, Push, Killed, TakeNoticeAtWork,
     WorkerDies, ParentRests, parentVars
<1>6. LeaveLoop \/ Poll \/ RaiseForDeadWorkers \/ Close \/ Join \/ Terminate \/ Reap \/ StartFails
        \/ JoinTimesOut \/ TakeNotice \/ Die \/ Interrupt \/ UNCHANGED vars => ListType'
  BY <1>1 DEF LeaveLoop, Poll, RaiseForDeadWorkers, Close, Join, Terminate, Reap, StartFails,
     JoinTimesOut, TakeNotice, Die, Interrupt, ParentRests, parentVars, vars
<1> QED BY <1>2, <1>3, <1>4, <1>5, <1>6 DEF Next, Proceeds

LEMMA RestTypeStep ==
  ASSUME TypeOK, [Next]_vars
  PROVE  RestType'
<1>1. UNCHANGED <<jobs, open, killed, signals, history>> => RestType'
  BY DEF TypeOK, RestType, jobs, history
<1>2. ASSUME NEW w \in Workers, StartWorker(w) \/ Send(w) \/ SendBulky(w) \/ Receive(w)
                                \/ Boot(w) \/ Take(w) \/ Push(w) \/ Killed(w)
      PROVE  RestType'
  BY <1>1, <1>2 DEF StartWorker, Send, SendBulky, Receive, Boot, Take, Push, Killed,
     ParentRests, parentVars
<1>3. ASSUME NEW w \in Workers, Compute(w) \/ TakeNoticeAtWork(w) PROVE RestType'
  <2>1. ran' \in [Jobs -> Kinds \cup {"no", "twice"}]
    <3>1. \A kind \in Kinds : Pc(w) = "compute" /\ Computed(w, kind) => ran' \in [Jobs -> Kinds \cup {"no", "twice"}]
      BY ComputedType
    <3> QED BY <1>3, <3>1 DEF Compute, TakeNoticeAtWork, Kinds, TypeOK
  <2> QED BY <1>3, <2>1 DEF Compute, TakeNoticeAtWork, ParentRests, parentVars, jobs, TypeOK, RestType
<1>4. ASSUME NEW w \in Workers, WorkerDies(w) PROVE RestType'
  BY <1>4 DEF WorkerDies, Fault, ParentRests, parentVars, jobs, TypeOK, RestType
<1>5. ASSUME NEW j \in Jobs, Submit(j) PROVE RestType'
  BY <1>1, <1>5 DEF Submit
<1>6. LeaveLoop \/ Poll \/ RaiseForDeadWorkers \/ Close \/ UNCHANGED vars => RestType'
  BY <1>1 DEF LeaveLoop, Poll, RaiseForDeadWorkers, Close, parentVars, vars
<1>7. Join \/ Terminate \/ Reap \/ TakeNotice => RestType'
  BY DEF Join, Terminate, Reap, TakeNotice, jobs, history, TypeOK, RestType
<1>8. StartFails \/ JoinTimesOut \/ Die => RestType'
  <2>1. StartFails \/ JoinTimesOut \/ Die =>
          /\ UNCHANGED <<jobs, killed, ran, escaped>> /\ faults' = faults + 1
          /\ (UNCHANGED open \/ open' = FALSE) /\ signals' \subseteq signals
    BY DEF StartFails, JoinTimesOut, Die, Fault
  <2>2. StartFails \/ JoinTimesOut \/ Die =>
          /\ open' \in BOOLEAN /\ escaped' \in BOOLEAN
          /\ large' \subseteq Jobs /\ bulky' \subseteq Jobs
    BY <2>1 DEF jobs, TypeOK
  <2>3. StartFails \/ JoinTimesOut \/ Die =>
          /\ killed' \subseteq Workers /\ signals' \subseteq Workers \cup {Parent}
          /\ faults' \in Nat /\ ran' \in [Jobs -> Kinds \cup {"no", "twice"}]
    BY <2>1 DEF TypeOK
  <2> QED BY <2>2, <2>3 DEF RestType
<1>9. Interrupt => RestType'
  <2>1. {Parent} \cup {w \in Workers : Alive(w)} \subseteq Workers \cup {Parent}
    OBVIOUS
  <2> QED BY <2>1 DEF Interrupt, Fault, ParentRests, parentVars, jobs, TypeOK, RestType
<1> QED BY <1>2, <1>3, <1>4, <1>5, <1>6, <1>7, <1>8, <1>9 DEF Next, Proceeds, Works

LEMMA TypeStep == TypeOK /\ [Next]_vars => TypeOK'
BY CallType, WorkerTypeStep, PipeTypeStep, ListTypeStep, RestTypeStep
   DEF TypeOK, WorkerType, PipeType, ListType, RestType

\* Every variable has its type in every reachable state.
THEOREM TypeCorrect == Spec => []TypeOK
BY TypeInit, TypeStep, PTL DEF Spec

-----------------------------------------------------------------------------
(* No job is computed twice                                                    *)

LEMMA AskedTail ==
  ASSUME NEW q \in Seq(Jobs \cup {Stop}), q # <<>>, AskedOnce(q)
  PROVE  /\ AskedOnce(Tail(q)) /\ Asked(Tail(q)) \subseteq Asked(q)
         /\ Head(q) # Stop => Head(q) \in Asked(q) /\ Head(q) \notin Asked(Tail(q))
<1>1. /\ Head(q) = q[1] /\ Len(q) \in Nat /\ Len(q) >= 1 /\ Len(Tail(q)) = Len(q) - 1
      /\ \A n \in 1 .. Len(Tail(q)) : Tail(q)[n] = q[n + 1]
  BY TailFacts
<1>2. \A n \in 1 .. Len(Tail(q)) : n + 1 \in 1 .. Len(q)
  BY <1>1
<1>3. AskedOnce(Tail(q))
  BY <1>1, <1>2 DEF AskedOnce
<1>4. Asked(Tail(q)) \subseteq Asked(q)
  BY <1>1, <1>2 DEF Asked
<1>5. ASSUME Head(q) # Stop PROVE Head(q) \in Asked(q) /\ Head(q) \notin Asked(Tail(q))
  <2>1. 1 \in 1 .. Len(q)
    BY <1>1
  <2>2. ASSUME NEW n \in 1 .. Len(Tail(q)), Tail(q)[n] = Head(q) PROVE FALSE
    <3>1. q[n + 1] = q[1] /\ n + 1 # 1
      BY <1>1, <2>2
    <3> QED BY <1>1, <1>2, <1>5, <2>1, <3>1 DEF AskedOnce
  <2> QED BY <1>1, <1>5, <2>1, <2>2 DEF Asked
<1> QED BY <1>3, <1>4, <1>5

LEMMA AskedAppend ==
  ASSUME NEW q \in Seq(Jobs \cup {Stop}), NEW e \in Jobs \cup {Stop}, AskedOnce(q),
         e = Stop \/ e \notin Asked(q)
  PROVE  /\ AskedOnce(Append(q, e)) /\ Asked(Append(q, e)) = Asked(q) \cup ({e} \ {Stop})
<1> DEFINE a == Append(q, e)
<1>1. /\ Len(a) = Len(q) + 1 /\ Len(q) \in Nat /\ a[Len(q) + 1] = e
      /\ \A n \in 1 .. Len(q) : a[n] = q[n]
  BY AppendFacts
<1> HIDE DEF a
<1>2. 1 .. Len(a) = (1 .. Len(q)) \cup {Len(q) + 1}
  BY <1>1
<1>3. Asked(a) = Asked(q) \cup ({e} \ {Stop})
  BY <1>1, <1>2 DEF Asked
<1>4. AskedOnce(a)
  <2>1. ASSUME NEW m \in 1 .. Len(q), q[m] = e PROVE e = Stop
    BY <2>1 DEF Asked
  <2> QED BY <1>1, <1>2, <2>1 DEF AskedOnce
<1> QED BY <1>3, <1>4 DEF a

LEMMA HeldJobs ==
  ASSUME TypeOK
  PROVE  /\ \A w \in Workers : Held(w) \subseteq Jobs /\ inbox[w] \in Seq(Jobs \cup {Stop})
         /\ ready \subseteq Jobs /\ Carried \subseteq Jobs
<1>1. ASSUME NEW w \in Workers PROVE Queued(w) \subseteq Jobs
  <2>1. inbox[w] \in Seq(Jobs \cup {Stop})
    BY DEF TypeOK
  <2>2. \A n \in 1 .. Len(inbox[w]) : inbox[w][n] \in Jobs \cup {Stop}
    BY <2>1, ElementOfSeq
  <2> QED BY <2>2 DEF Queued, Asked
<1>2. \A w \in Workers : Current(w) \subseteq Jobs
  BY DEF TypeOK, Current
<1> QED BY <1>1, <1>2 DEF TypeOK, Held, Carried

\* A step in which no place gains a job, but for one that is taken from another.
LEMMA OnceShrinks ==
  ASSUME TypeOK, Once,
         \A w \in Workers : /\ AskedOnce(inbox'[w]) /\ (Current(w) \cap Queued(w))' = {}
                            /\ Held(w)' \subseteq Held(w),
         ready' \subseteq ready, Carried' \subseteq ready \cup Carried, (Carried \cap ready)' = {},
         \A j \in Jobs : \/ ran'[j] = ran[j]
                         \/ j \notin (ready \cup Carried)' /\ \A w \in Workers : j \notin Held(w)'
  PROVE  Once'
<1>1. \A w \in Workers : Held(w) \cap (ready \cup Carried) = {}
  BY DEF Once
<1>2. \A w \in Workers : (Held(w) \cap (ready \cup Carried))' = {}
  BY <1>1
<1>3. \A w \in Workers : \A v \in Workers \ {w} : (Held(v) \cap Held(w))' = {}
  BY DEF Once
<1>4. \A w \in Workers : \A j \in Held(w)' : ran'[j] = "no"
  BY HeldJobs DEF Once
<1>5. \A j \in (ready \cup Carried)' : ran'[j] = "no"
  BY HeldJobs DEF Once
<1> QED BY <1>2, <1>3, <1>4, <1>5 DEF Once

\* The parent's steps, which leave the workers and their pipes alone.
LEMMA OnceParent ==
  ASSUME TypeOK, Once, UNCHANGED <<worker, inbox, ran>>, ready' \subseteq ready,
         Carried' \subseteq ready \cup Carried, (Carried \cap ready)' = {}
  PROVE  Once'
<1>1. \A w \in Workers : /\ AskedOnce(inbox'[w]) /\ (Current(w) \cap Queued(w))' = {}
                         /\ Held(w)' \subseteq Held(w)
  BY DEF Once, Held, Current, Queued, Computing, Pc
<1> QED BY <1>1, OnceShrinks

\* A worker goes on, and has computed what it had to.
LEMMA OnceMove ==
  ASSUME TypeOK, Once, NEW w \in Workers, NEW pc \in WorkerPcs \ {"compute"}, Move(w, pc),
         UNCHANGED <<inbox, ran>>, ready' \subseteq ready, Carried' \subseteq Carried
  PROVE  Once'
<1>1. \A v \in Workers : Current(v)' \subseteq Current(v) /\ Queued(v)' = Queued(v)
  BY DEF Move, TypeOK, Current, Queued, Computing, Pc
<1>2. \A v \in Workers : /\ AskedOnce(inbox'[v]) /\ (Current(v) \cap Queued(v))' = {}
                         /\ Held(v)' \subseteq Held(v)
  BY <1>1 DEF Once, Held
<1>3. (Carried \cap ready)' = {}
  BY DEF Once
<1> QED BY <1>2, <1>3, OnceShrinks

LEMMA OnceComputed ==
  ASSUME TypeOK, Once, NEW w \in Workers, NEW kind \in Kinds, Pc(w) = "compute",
         Computed(w, kind), UNCHANGED <<inbox, ready, call>>
  PROVE  Once'
<1> DEFINE job == worker[w].job
<1>1. job \in Jobs /\ Current(w) = {job}
  BY DEF TypeOK, Computing, Pc, Current
<1>2. Current(w)' = {} /\ \A v \in Workers \ {w} : Current(v)' = Current(v)
  BY DEF Computed, TypeOK, Current, Computing, Pc
<1>3. \A v \in Workers : Queued(v)' = Queued(v)
  BY DEF Queued
<1>4. \A j \in Jobs \ {job} : ran'[j] = ran[j]
  BY DEF Computed, TypeOK
<1> HIDE DEF job
<1>5. Carried' = Carried
  BY DEF Carried, At
<1>6. \A v \in Workers : job \notin Held(v)'
  BY <1>1, <1>2, <1>3 DEF Once, Held
<1>7. job \notin (ready \cup Carried)'
  BY <1>1, <1>5 DEF Once, Held
<1>8. \A v \in Workers : /\ AskedOnce(inbox'[v]) /\ (Current(v) \cap Queued(v))' = {}
                         /\ Held(v)' \subseteq Held(v)
  BY <1>2, <1>3 DEF Once, Held
<1>9. (Carried \cap ready)' = {} /\ ready' \subseteq ready /\ Carried' \subseteq ready \cup Carried
  BY <1>5 DEF Once
<1> QED BY <1>4, <1>6, <1>7, <1>8, <1>9, OnceShrinks

LEMMA OnceTake ==
  ASSUME TypeOK, Once, NEW w \in Workers, Take(w)
  PROVE  Once'
<1>1. UNCHANGED <<ready, call, ran>> /\ Carried' = Carried
  BY DEF Take, ParentRests, parentVars, history, Carried, At
<1>2. CASE inbox[w] = <<>>
  <2>1. Move(w, "exited") /\ UNCHANGED inbox /\ "exited" \in WorkerPcs \ {"compute"}
    BY <1>2 DEF Take, WorkerPcs
  <2> QED BY <1>1, <2>1, OnceMove
<1>3. CASE inbox[w] # <<>>
  <2> DEFINE q == inbox[w]
             head == Head(q)
  <2>1. /\ Pc(w) = "recv" /\ q # <<>> /\ inbox' = [inbox EXCEPT ![w] = Tail(q)]
        /\ worker' = [worker EXCEPT ![w] =
             IF head = Stop THEN [worker[w] EXCEPT !.pc = "exited"]
             ELSE [pc |-> "compute", job |-> head, kind |-> "result"]]
    BY <1>3 DEF Take
  <2>2. q \in Seq(Jobs \cup {Stop}) /\ AskedOnce(q)
    BY HeldJobs DEF Once
  <2>3. inbox'[w] = Tail(q) /\ \A v \in Workers \ {w} : inbox'[v] = inbox[v]
    BY <2>1 DEF TypeOK
  <2>4. /\ AskedOnce(Tail(q)) /\ Asked(Tail(q)) \subseteq Asked(q)
        /\ head # Stop => head \in Asked(q) /\ head \notin Asked(Tail(q))
    BY <2>1, <2>2, AskedTail
  <2> HIDE DEF q, head
  <2>5. /\ Current(w)' = IF head = Stop THEN {} ELSE {head}
        /\ \A v \in Workers \ {w} : Current(v)' = Current(v)
    BY <2>1 DEF TypeOK, Current, Computing, Pc
  <2>6. Queued(w) = Asked(q) /\ Queued(w)' = Asked(Tail(q)) /\ \A v \in Workers \ {w} : Queued(v)' = Queued(v)
    BY <2>3 DEF Queued, q
  <2>7. ASSUME NEW v \in Workers
        PROVE  /\ AskedOnce(inbox'[v]) /\ (Current(v) \cap Queued(v))' = {}
               /\ Held(v)' \subseteq Held(v)
    <3>1. CASE v = w
      BY <2>3, <2>4, <2>5, <2>6, <3>1 DEF Held
    <3>2. CASE v # w
      BY <2>3, <2>5, <2>6, <3>2 DEF Once, Held
    <3> QED BY <3>1, <3>2
  <2>8. (Carried \cap ready)' = {}
    BY <1>1 DEF Once
  <2> QED BY <1>1, <2>7, <2>8, OnceShrinks
<1> QED BY <1>2, <1>3

\* The job that is sent is the worker's from now on.
LEMMA OnceGiven ==
  ASSUME TypeOK, Once, NEW w \in Workers, At("send"), Carried' = {}, UNCHANGED <<ready, ran>>,
         AskedOnce(inbox'[w]), (Current(w) \cap Queued(w))' = {},
         Held(w)' = Held(w) \cup {call.job},
         \A v \in Workers \ {w} : /\ inbox'[v] = inbox[v] /\ Current(v)' = Current(v)
                                  /\ Queued(v)' = Queued(v)
  PROVE  Once'
<1> DEFINE job == call.job
<1>1. Carried = {job}
  BY DEF Carried
<1> HIDE DEF job
<1>2. /\ job \notin ready /\ ran[job] = "no" /\ \A v \in Workers : job \notin Held(v)
  BY <1>1 DEF Once
<1>3. Held(w)' = Held(w) \cup {job} /\ \A v \in Workers \ {w} : Held(v)' = Held(v)
  BY DEF Held, job
<1>4. \A v \in Workers : AskedOnce(inbox'[v]) /\ (Current(v) \cap Queued(v))' = {}
  BY DEF Once
<1>5. \A v \in Workers : (Held(v) \cap (ready \cup Carried))' = {}
  BY <1>2, <1>3 DEF Once
<1>6. \A v \in Workers : \A u \in Workers \ {v} : (Held(u) \cap Held(v))' = {}
  BY <1>2, <1>3 DEF Once
<1>7. \A v \in Workers : \A j \in Held(v)' : ran'[j] = "no"
  BY <1>2, <1>3 DEF Once
<1>8. (Carried \cap ready)' = {} /\ \A j \in (ready \cup Carried)' : ran'[j] = "no"
  BY DEF Once
<1> QED BY <1>4, <1>5, <1>6, <1>7, <1>8 DEF Once

LEMMA OnceSend ==
  ASSUME TypeOK, Once, NEW w \in Workers, Send(w) \/ SendBulky(w)
  PROVE  Once'
<1>1. At("send") /\ Carried = {call.job} /\ call.job \in Jobs /\ UNCHANGED <<ready, ran>>
  BY DEF Send, SendBulky, Carried, TypeOK, history
<1>2. CASE Send(w) /\ ~Gone(w)
  <2>1. /\ inbox' = [inbox EXCEPT ![w] = Append(@, call.job)]
        /\ UNCHANGED worker /\ Goto("loop")
    BY <1>2 DEF Send, Sent
  <2>2. Carried' = {}
    BY <2>1 DEF Goto, TypeOK, Carried, At
  <2>3. inbox'[w] = Append(inbox[w], call.job) /\ \A v \in Workers \ {w} : inbox'[v] = inbox[v]
    BY <2>1 DEF TypeOK
  <2>4. /\ inbox[w] \in Seq(Jobs \cup {Stop}) /\ AskedOnce(inbox[w])
        /\ call.job \notin Asked(inbox[w]) /\ call.job # Stop /\ call.job \notin Current(w)
    BY <1>1, HeldJobs, NonEmpty DEF Once, Held, Queued, Jobs, Stop
  <2>5. AskedOnce(inbox'[w]) /\ Queued(w)' = Queued(w) \cup {call.job}
    BY <1>1, <2>3, <2>4, AskedAppend DEF Queued
  <2>6. \A v \in Workers : Current(v)' = Current(v)
    BY <2>1 DEF Current, Computing, Pc
  <2>7. \A v \in Workers \ {w} : Queued(v)' = Queued(v)
    BY <2>3 DEF Queued
  <2>8. (Current(w) \cap Queued(w))' = {} /\ Held(w)' = Held(w) \cup {call.job}
    BY <2>4, <2>5, <2>6 DEF Once, Held
  <2> QED BY <1>1, <2>2, <2>3, <2>5, <2>6, <2>7, <2>8, OnceGiven
<1>3. CASE Send(w) /\ Gone(w)
  <2>1. PICK end : call' = [call EXCEPT !.pc = "terminate", !.end = end]
    BY <1>1, <1>3, RaiseFits DEF Send
  <2>2. Carried' = {}
    BY <2>1 DEF TypeOK, Carried, At
  <2>3. UNCHANGED <<worker, inbox>>
    BY <1>3 DEF Send
  <2> QED BY <1>1, <2>2, <2>3, OnceParent
<1>4. CASE SendBulky(w)
  <2>1. /\ Pc(w) = "recv" /\ inbox[w] = <<>> /\ UNCHANGED inbox /\ Goto("loop")
        /\ worker' = [worker EXCEPT ![w] = [pc |-> "compute", job |-> call.job, kind |-> "result"]]
    BY <1>4 DEF SendBulky, Sent, pipes
  <2>2. Carried' = {}
    BY <2>1 DEF Goto, TypeOK, Carried, At
  <2>3. Current(w) = {} /\ Current(w)' = {call.job} /\ \A v \in Workers \ {w} : Current(v)' = Current(v)
    BY <2>1 DEF TypeOK, Current, Computing, Pc
  <2>4. Queued(w) = {} /\ \A v \in Workers : Queued(v)' = Queued(v)
    BY <2>1 DEF Queued, Asked
  <2>5. (Current(w) \cap Queued(w))' = {} /\ Held(w)' = Held(w) \cup {call.job}
    BY <2>3, <2>4 DEF Held
  <2>6. AskedOnce(inbox'[w])
    BY <2>1 DEF Once
  <2> QED BY <1>1, <2>1, <2>2, <2>3, <2>4, <2>5, <2>6, OnceGiven
<1> QED BY <1>2, <1>3, <1>4

\* Where the parent goes when it carries no job.
LEMMA EmptyHanded ==
  ASSUME TypeOK
  PROVE  /\ \A pc \in CallPcs \ {"send"} : Goto(pc) => Carried' = {}
         /\ \A end : EndWith(end) => Carried' = {}
         /\ \A job : Raise(job) => Carried' = {}
         /\ UNCHANGED call => Carried' = Carried
BY DEF TypeOK, Goto, EndWith, Raise, Carried, At

LEMMA OnceStep == TypeOK /\ Once /\ [Next]_vars => Once'
<1> SUFFICES ASSUME TypeOK, Once, [Next]_vars PROVE Once'
  OBVIOUS
<1>0. \A pc \in {"boot", "recv", "push", "exited", "dead"} : pc \in WorkerPcs \ {"compute"}
  BY DEF WorkerPcs
<1>00. \A pc \in {"loop", "close", "poll", "join", "reap", "over", "gone"} : pc \in CallPcs \ {"send"}
  BY DEF CallPcs
<1>1. ASSUME UNCHANGED <<worker, inbox, ran>>, ready' \subseteq ready,
             Carried' = {} \/ Carried' = Carried
      PROVE  Once'
  BY <1>1, OnceParent DEF Once
<1>2. ASSUME NEW w \in Workers, StartWorker(w) PROVE Once'
  <2>1. Carried' = {}
    BY <1>2 DEF StartWorker, TypeOK, Carried, At
  <2> QED BY <1>0, <1>2, <2>1, OnceMove DEF StartWorker, pipes, history
<1>3. ASSUME NEW j \in Jobs, Submit(j) PROVE Once'
  <2>1. UNCHANGED <<worker, inbox, ran>> /\ ready' = ready \ {j} /\ j \in ready
    BY <1>3 DEF Submit, First, pipes, history
  <2>2. CASE \E w \in Workers : Raise(HeadJob(w))
    BY <1>1, <2>1, <2>2, EmptyHanded
  <2>3. CASE \E w \in Workers : call' = [call EXCEPT !.pc = "send", !.job = j, !.to = w]
    <3>1. Carried' = {j}
      BY <2>3 DEF TypeOK, Carried, At
    <3> QED BY <2>1, <3>1, OnceParent
  <2> QED BY <1>3, <2>2, <2>3, Zenon DEF Submit
<1>4. ASSUME NEW w \in Workers, Receive(w) PROVE Once'
  <2>1. UNCHANGED <<inbox, ran>>
    BY <1>4 DEF Receive, history
  <2>2. ASSUME NEW r, Accept(r), r.kind \in Kinds PROVE ready' \subseteq ready /\ Carried' = {}
    BY <1>00, <2>2, EmptyHanded DEF Accept, Kinds
  <2>3. ready' \subseteq ready /\ Carried' = {}
    <3>1. CASE Raise(Head(pending[w])) /\ UNCHANGED <<ready, results, failures>>
      BY <3>1, EmptyHanded
    <3>2. CASE \E r : Accept(r) /\ r.kind \in Kinds
      BY <2>2, <3>2
    <3> QED BY <1>4, <3>1, <3>2, ReceiveCases, Zenon
  <2>4. Move(w, "recv") \/ UNCHANGED worker
    BY <1>4 DEF Receive
  <2> QED BY <1>0, <1>1, <2>1, <2>3, <2>4, OnceMove
<1>5. LeaveLoop \/ Poll \/ RaiseForDeadWorkers \/ Terminate \/ Reap \/ StartFails \/ JoinTimesOut
        \/ Die \/ Interrupt \/ UNCHANGED vars => Once'
  <2>1. LeaveLoop \/ Poll \/ RaiseForDeadWorkers \/ Terminate \/ Reap \/ StartFails \/ JoinTimesOut
          \/ Die \/ Interrupt \/ UNCHANGED vars => UNCHANGED <<worker, inbox, ran, ready>>
    BY DEF LeaveLoop, Poll, RaiseForDeadWorkers, Terminate, Reap, StartFails, JoinTimesOut, Die,
       Interrupt, ParentRests, parentVars, pipes, history, vars
  <2>2. LeaveLoop \/ Poll \/ RaiseForDeadWorkers \/ Terminate \/ Reap => Carried' = {}
    BY <1>00, EmptyHanded DEF LeaveLoop, Poll, RaiseForDeadWorkers, Terminate, Reap
  <2>3. StartFails \/ JoinTimesOut \/ Die => Carried' = {}
    BY <1>00, EmptyHanded DEF StartFails, JoinTimesOut, Die
  <2>4. Interrupt \/ UNCHANGED vars => Carried' = Carried
    BY EmptyHanded DEF Interrupt, ParentRests, parentVars, vars
  <2> QED BY <1>1, <2>1, <2>2, <2>3, <2>4
<1>6. ASSUME Close PROVE Once'
  <2>1. UNCHANGED <<worker, ran, ready>>
    BY <1>6 DEF Close, history
  <2>2. Carried' = {}
    BY <1>00, <1>6, EmptyHanded DEF Close
  <2>3. CASE UNCHANGED inbox
    BY <1>1, <2>1, <2>2, <2>3
  <2>4. CASE inbox' = [w \in Workers |-> IF Gone(w) THEN inbox[w] ELSE Append(inbox[w], Stop)]
    <3>1. ASSUME NEW w \in Workers
          PROVE  /\ AskedOnce(inbox'[w]) /\ (Current(w) \cap Queued(w))' = {}
                 /\ Held(w)' \subseteq Held(w)
      <4>1. inbox[w] \in Seq(Jobs \cup {Stop}) /\ AskedOnce(inbox[w])
        BY HeldJobs DEF Once
      <4>2. AskedOnce(inbox'[w]) /\ Queued(w)' = Queued(w)
        BY <2>4, <4>1, AskedAppend DEF Queued
      <4>3. Current(w)' = Current(w)
        BY <2>1 DEF Current, Computing, Pc
      <4> QED BY <4>2, <4>3 DEF Once, Held
    <3> QED BY <2>1, <2>2, <3>1, OnceShrinks
  <2> QED BY <1>6, <2>3, <2>4 DEF Close
<1>7. ASSUME Join PROVE Once'
  <2>1. Carried' = {}
    BY <1>7, EmptyHanded DEF Join, TypeOK, Carried, At
  <2> QED BY <1>1, <1>7, <2>1 DEF Join, pipes, history
<1>8. ASSUME TakeNotice PROVE Once'
  <2>1. UNCHANGED <<worker, inbox, ran, ready>>
    BY <1>8 DEF TakeNotice, pipes
  <2>2. ASSUME NEW end, call' = [call EXCEPT !.pc = "over", !.end = end] PROVE Carried' = {}
    BY <2>2 DEF TypeOK, Carried, At
  <2>3. Carried' = {} \/ Carried' = Carried
    BY <1>8, <2>2, EmptyHanded DEF TakeNotice
  <2> QED BY <1>1, <2>1, <2>3
<1>9. ASSUME NEW w \in Workers, \/ Boot(w) \/ Push(w) \/ Killed(w) \/ WorkerDies(w)
                                \/ Compute(w) \/ TakeNoticeAtWork(w)
      PROVE  Once'
  <2>1. UNCHANGED <<inbox, ready, call>> /\ Carried' = Carried
    BY <1>9, EmptyHanded DEF Boot, Push, Killed, WorkerDies, Compute, TakeNoticeAtWork, ParentRests,
       parentVars, pipes
  <2>2. \/ UNCHANGED ran /\ \E pc \in {"boot", "recv", "push", "exited", "dead"} : Move(w, pc)
        \/ Pc(w) = "compute" /\ \E kind \in Kinds : Computed(w, kind)
        \/ UNCHANGED <<worker, ran>>
    BY <1>9 DEF Boot, Push, Killed, WorkerDies, Compute, TakeNoticeAtWork, history, Kinds
  <2> QED BY <1>0, <1>1, <2>1, <2>2, OnceMove, OnceComputed
<1> QED BY <1>2, <1>3, <1>4, <1>5, <1>6, <1>7, <1>8, <1>9, OnceTake, OnceSend DEF Next, Proceeds, Works

LEMMA OnceInit == Init => Once
<1> SUFFICES ASSUME Init PROVE Once
  OBVIOUS
<1>1. \A w \in Workers : inbox[w] = <<>> /\ Len(inbox[w]) = 0 /\ ~Computing(w)
  BY EmptySeq DEF Init, Unborn, Computing, Pc
<1>2. \A w \in Workers : Queued(w) = {} /\ Current(w) = {} /\ AskedOnce(inbox[w])
  BY <1>1 DEF Queued, Asked, AskedOnce, Current
<1>3. Carried = {} /\ \A j \in ready : ran[j] = "no"
  BY DEF Init, Carried, At
<1> QED BY <1>2, <1>3 DEF Once, Held

-----------------------------------------------------------------------------
(* A result is one                                                             *)

\* A computation is begun by a worker that was given the job, and ends once.
LEMMA ComputedOnce ==
  ASSUME TypeOK, Once, [Next]_vars
  PROVE  /\ \A j \in Jobs : ran'[j] = ran[j] \/ (ran[j] = "no" /\ \E w \in Workers : j \in Current(w))
         /\ UNCHANGED ran \/ \E w \in Workers, kind \in Kinds :
                               /\ Pc(w) = "compute" /\ Computed(w, kind) /\ UNCHANGED outbox
                               /\ UNCHANGED parentVars
                               /\ kind = "interrupted" => w \in signals
<1>1. UNCHANGED ran \/ \E w \in Workers, kind \in Kinds :
                         /\ Pc(w) = "compute" /\ Computed(w, kind) /\ UNCHANGED outbox
                         /\ UNCHANGED parentVars
                         /\ kind = "interrupted" => w \in signals
  <2>1. ASSUME NEW w \in Workers, Works(w) \/ TakeNoticeAtWork(w)
        PROVE  \/ UNCHANGED ran
               \/ \E kind \in Kinds : /\ Pc(w) = "compute" /\ Computed(w, kind) /\ UNCHANGED outbox
                                      /\ UNCHANGED parentVars
                                      /\ kind = "interrupted" => w \in signals
    BY <2>1 DEF Works, Boot, Take, Compute, Push, Killed, TakeNoticeAtWork, ParentRests, pipes,
       history, Kinds
  <2>2. (\E w \in Workers : StartWorker(w) \/ Send(w) \/ SendBulky(w) \/ Receive(w) \/ WorkerDies(w))
          => UNCHANGED ran
    BY DEF StartWorker, Send, SendBulky, Receive, WorkerDies, history
  <2>3. (\E j \in Jobs : Submit(j)) => UNCHANGED ran
    BY DEF Submit, history
  <2>4. LeaveLoop \/ Poll \/ RaiseForDeadWorkers \/ Close \/ Join \/ Terminate \/ Reap \/ StartFails
          \/ JoinTimesOut \/ TakeNotice \/ Die \/ Interrupt \/ UNCHANGED vars => UNCHANGED ran
    BY DEF LeaveLoop, Poll, RaiseForDeadWorkers, Close, Join, Terminate, Reap, StartFails,
       JoinTimesOut, TakeNotice, Die, Interrupt, history, vars
  <2> QED BY <2>1, <2>2, <2>3, <2>4 DEF Next, Proceeds
<1>2. ASSUME NEW w \in Workers, NEW kind \in Kinds, Pc(w) = "compute", Computed(w, kind)
      PROVE  \A j \in Jobs : ran'[j] = ran[j] \/ (ran[j] = "no" /\ j \in Current(w))
  <2>1. Current(w) = {worker[w].job} /\ ran[worker[w].job] = "no"
    BY <1>2 DEF Once, Held, Current, Computing
  <2>2. \A j \in Jobs : j # worker[w].job => ran'[j] = ran[j]
    BY <1>2 DEF Computed, TypeOK
  <2> QED BY <2>1, <2>2
<1> QED BY <1>1, <1>2

LEMMA RanStays ==
  ASSUME TypeOK, Once, [Next]_vars, NEW j \in Jobs, ran[j] # "no"
  PROVE  ran'[j] = ran[j]
BY ComputedOnce

\* What a step may put into the pipe to the parent.
LEMMA OutboxStep ==
  ASSUME TypeOK, [Next]_vars, NEW w \in Workers
  PROVE  \/ outbox'[w] = outbox[w]
         \/ outbox[w] # <<>> /\ outbox'[w] = Tail(outbox[w])
         \/ /\ Pc(w) = "push" /\ UNCHANGED ran
            /\ \/ outbox'[w] = outbox[w] \o <<Response(w, worker[w].kind)>>
               \/ /\ w \in signals
                  /\ \/ outbox'[w] = outbox[w] \o <<Response(w, "error")>>
                     \/ outbox'[w] = outbox[w] \o <<Response(w, "torn")>>
                     \/ outbox'[w] = outbox[w] \o <<Response(w, worker[w].kind), Response(w, "error")>>
<1> DEFINE Goal ==
         \/ outbox'[w] = outbox[w]
         \/ outbox[w] # <<>> /\ outbox'[w] = Tail(outbox[w])
         \/ /\ Pc(w) = "push" /\ UNCHANGED ran
            /\ \/ outbox'[w] = outbox[w] \o <<Response(w, worker[w].kind)>>
               \/ /\ w \in signals
                  /\ \/ outbox'[w] = outbox[w] \o <<Response(w, "error")>>
                     \/ outbox'[w] = outbox[w] \o <<Response(w, "torn")>>
                     \/ outbox'[w] = outbox[w] \o <<Response(w, worker[w].kind), Response(w, "error")>>
<1>1. UNCHANGED outbox => Goal
  OBVIOUS
<1>2. ASSUME NEW v \in Workers, Receive(v) PROVE Goal
  BY <1>2 DEF Receive, TypeOK
<1>3. ASSUME NEW v \in Workers, Push(v) \/ TakeNoticeAtWork(v) PROVE Goal
  <2>1. CASE UNCHANGED outbox
    BY <2>1
  <2>2. CASE ~UNCHANGED outbox
    <3>1. /\ Pc(v) = "push" /\ UNCHANGED ran
          /\ \/ outbox' = [outbox EXCEPT ![v] = @ \o <<Response(v, worker[v].kind)>>]
             \/ /\ v \in signals
                /\ \/ outbox' = [outbox EXCEPT ![v] = @ \o <<Response(v, "error")>>]
                   \/ outbox' = [outbox EXCEPT ![v] = @ \o <<Response(v, "torn")>>]
                   \/ outbox' = [outbox EXCEPT ![v] = @ \o <<Response(v, worker[v].kind), Response(v, "error")>>]
      BY <1>3, <2>2 DEF Push, TakeNoticeAtWork, Respond, history
    <3>2. CASE v = w
      BY <3>1, <3>2 DEF TypeOK
    <3>3. CASE v # w
      BY <3>1, <3>3 DEF TypeOK
    <3> QED BY <3>2, <3>3
  <2> QED BY <2>1, <2>2
<1>4. ASSUME NEW v \in Workers, \/ StartWorker(v) \/ Send(v) \/ SendBulky(v) \/ Boot(v) \/ Take(v)
                                \/ Compute(v) \/ Killed(v) \/ WorkerDies(v)
      PROVE  UNCHANGED outbox
  BY <1>4 DEF StartWorker, Send, SendBulky, Boot, Take, Compute, Killed, WorkerDies, pipes
<1>5. ASSUME NEW j \in Jobs, Submit(j) PROVE UNCHANGED outbox
  BY <1>5 DEF Submit, pipes
<1>6. LeaveLoop \/ Poll \/ RaiseForDeadWorkers \/ Close \/ Join \/ Terminate \/ Reap \/ StartFails
        \/ JoinTimesOut \/ TakeNotice \/ Die \/ Interrupt \/ UNCHANGED vars => UNCHANGED outbox
  BY DEF LeaveLoop, Poll, RaiseForDeadWorkers, Close, Join, Terminate, Reap, StartFails,
     JoinTimesOut, TakeNotice, Die, Interrupt, pipes, vars
<1> HIDE DEF Goal
<1>7. Goal
  BY <1>1, <1>2, <1>3, <1>4, <1>5, <1>6 DEF Next, Proceeds, Works
<1> QED BY <1>7 DEF Goal

\* A worker that has an answer computed it just now, or had it before.
LEMMA AnswerStep ==
  ASSUME TypeOK, [Next]_vars, NEW w \in Workers, Answering(w)'
  PROVE  \/ Answering(w) /\ worker'[w] = worker[w]
         \/ \E kind \in Kinds : Pc(w) = "compute" /\ Computed(w, kind)
<1> DEFINE Goal == Answering(w)' =>
                     \/ Answering(w) /\ worker'[w] = worker[w]
                     \/ \E kind \in Kinds : Pc(w) = "compute" /\ Computed(w, kind)
<1>1. UNCHANGED worker => Goal
  BY DEF Answering, Pc
<1>2. ASSUME NEW v \in Workers, NEW pc \in {"boot", "recv", "exited", "dead"}, Move(v, pc) PROVE Goal
  BY <1>2 DEF Move, TypeOK, Answering, Pc
<1>3. ASSUME NEW v \in Workers, NEW j, worker' = [worker EXCEPT ![v] = [pc |-> "compute", job |-> j, kind |-> "result"]]
      PROVE  Goal
  BY <1>3 DEF TypeOK, Answering, Pc
<1>4. ASSUME NEW v \in Workers, NEW kind \in Kinds, Pc(v) = "compute", Computed(v, kind) PROVE Goal
  <2>1. v # w => worker'[w] = worker[w]
    BY <1>4 DEF Computed, TypeOK
  <2> QED BY <1>4, <2>1 DEF Answering, Pc
<1> HIDE DEF Goal
<1>5. ASSUME NEW v \in Workers, StartWorker(v) \/ Send(v) \/ SendBulky(v) \/ Receive(v) PROVE Goal
  BY <1>1, <1>2, <1>3, <1>5 DEF StartWorker, Send, SendBulky, Receive
<1>6. ASSUME NEW v \in Workers, Take(v) PROVE Goal
  <2>1. CASE inbox[v] # <<>> /\ Head(inbox[v]) = Stop
    <3>1. Move(v, "exited")
      BY <1>6, <2>1 DEF Take, Move
    <3> QED BY <1>2, <3>1
  <2>2. CASE inbox[v] # <<>> /\ Head(inbox[v]) # Stop
    BY <1>3, <1>6, <2>2 DEF Take
  <2>3. CASE inbox[v] = <<>>
    BY <1>2, <1>6, <2>3 DEF Take
  <2> QED BY <2>1, <2>2, <2>3
<1>7. ASSUME NEW v \in Workers, Boot(v) \/ Compute(v) \/ Push(v) \/ Killed(v) \/ WorkerDies(v)
                                \/ TakeNoticeAtWork(v)
      PROVE  Goal
  BY <1>1, <1>2, <1>4, <1>7 DEF Boot, Compute, Push, Killed, WorkerDies, TakeNoticeAtWork, Kinds
<1>8. ASSUME NEW j \in Jobs, Submit(j) PROVE Goal
  BY <1>1, <1>8 DEF Submit
<1>9. LeaveLoop \/ Poll \/ RaiseForDeadWorkers \/ Close \/ Join \/ Terminate \/ Reap \/ StartFails
        \/ JoinTimesOut \/ TakeNotice \/ Die \/ Interrupt \/ UNCHANGED vars => Goal
  BY <1>1 DEF LeaveLoop, Poll, RaiseForDeadWorkers, Close, Join, Terminate, Reap, StartFails,
     JoinTimesOut, TakeNotice, Die, Interrupt, vars
<1>10. Goal
  BY <1>5, <1>6, <1>7, <1>8, <1>9 DEF Next, Proceeds, Works
<1> QED BY <1>10 DEF Goal

LEMMA OutboxValues ==
  ASSUME TypeOK, [Next]_vars, NEW w \in Workers, NEW n \in 1 .. Len(outbox'[w])
  PROVE  \/ \E m \in 1 .. Len(outbox[w]) : outbox'[w][n] = outbox[w][m]
         \/ /\ Pc(w) = "push" /\ UNCHANGED ran
            /\ \/ outbox'[w][n] = Response(w, worker[w].kind)
               \/ w \in signals /\ outbox'[w][n].kind \in {"error", "torn"}
<1> DEFINE q == outbox[w]
<1>0. q \in Seq(Responses) /\ Len(q) \in Nat
  BY LenProperties DEF TypeOK
<1>1. ASSUME NEW r, outbox'[w] = q \o <<r>>
      PROVE  outbox'[w][n] = r \/ (n \in 1 .. Len(q) /\ outbox'[w][n] = q[n])
  BY <1>0, <1>1
<1>2. ASSUME NEW r, NEW s, outbox'[w] = q \o <<r, s>>
      PROVE  outbox'[w][n] \in {r, s} \/ (n \in 1 .. Len(q) /\ outbox'[w][n] = q[n])
  BY <1>0, <1>2
<1>3. ASSUME q # <<>>, outbox'[w] = Tail(q)
      PROVE  n + 1 \in 1 .. Len(q) /\ outbox'[w][n] = q[n + 1]
  BY <1>0, <1>3, TailFacts
<1>4. /\ Response(w, "error").kind = "error" /\ Response(w, "torn").kind = "torn"
  BY DEF Response
<1>5. CASE outbox'[w] = outbox[w]
  BY <1>5
<1>6. CASE q # <<>> /\ outbox'[w] = Tail(q)
  BY <1>3, <1>6
<1> DEFINE pushes == Pc(w) = "push" /\ UNCHANGED ran
<1>7. CASE pushes /\ outbox'[w] = q \o <<Response(w, worker[w].kind)>>
  BY <1>1, <1>7
<1>8. CASE pushes /\ w \in signals /\ outbox'[w] = q \o <<Response(w, "error")>>
  BY <1>1, <1>4, <1>8
<1>9. CASE pushes /\ w \in signals /\ outbox'[w] = q \o <<Response(w, "torn")>>
  BY <1>1, <1>4, <1>9
<1>10. CASE pushes /\ w \in signals /\ outbox'[w] = q \o <<Response(w, worker[w].kind), Response(w, "error")>>
  BY <1>2, <1>4, <1>10
<1> QED BY <1>5, <1>6, <1>7, <1>8, <1>9, <1>10, OutboxStep

\* What the parent has received it has from a worker.
LEMMA ReceivedStep ==
  ASSUME TypeOK, [Next]_vars
  PROVE  \/ UNCHANGED <<results, failures>> /\ ready' \subseteq ready
         \/ \E w \in Workers : \E r :
              /\ Receive(w) /\ Accept(r) /\ r.kind \in Kinds
              /\ pending[w] # <<>> /\ r.job = Head(pending[w]) /\ r.job \in Jobs
              /\ \/ \E n \in 1 .. Len(outbox[w]) : r = outbox[w][n]
                 \/ Answering(w) /\ r.job = worker[w].job /\ r.kind = worker[w].kind
<1>1. ASSUME NEW w \in Workers, Receive(w)
      PROVE  \/ UNCHANGED <<results, failures>> /\ ready' \subseteq ready
             \/ \E r :
                  /\ Receive(w) /\ Accept(r) /\ r.kind \in Kinds
                  /\ pending[w] # <<>> /\ r.job = Head(pending[w]) /\ r.job \in Jobs
                  /\ \/ \E n \in 1 .. Len(outbox[w]) : r = outbox[w][n]
                     \/ Answering(w) /\ r.job = worker[w].job /\ r.kind = worker[w].kind
  <2>1. outbox[w] # <<>> => 1 \in 1 .. Len(outbox[w]) /\ Head(outbox[w]) = outbox[w][1]
    BY TailFacts DEF TypeOK
  <2>2. Pushing(w) => Answering(w)
    BY DEF Pushing, Answering
  <2>3. CASE UNCHANGED <<ready, results, failures>>
    BY <2>3
  <2>4. CASE \E r : /\ r.job = Head(pending[w]) /\ r.kind \in Kinds /\ Accept(r)
                    /\ \/ outbox[w] # <<>> /\ r = Head(outbox[w])
                       \/ /\ outbox[w] = <<>> /\ Pushing(w)
                          /\ r.job = worker[w].job /\ r.kind = worker[w].kind
    <3>1. pending[w] # <<>> /\ Head(pending[w]) \in Jobs
      BY <1>1, ReceiveCases
    <3>2. PICK r : /\ r.job = Head(pending[w]) /\ r.kind \in Kinds /\ Accept(r)
                   /\ \/ outbox[w] # <<>> /\ r = Head(outbox[w])
                      \/ /\ outbox[w] = <<>> /\ Pushing(w)
                         /\ r.job = worker[w].job /\ r.kind = worker[w].kind
      BY <2>4
    <3> QED BY <1>1, <2>1, <2>2, <3>1, <3>2
  <2> QED BY <1>1, <2>3, <2>4, ReceiveCases, Zenon
<1>2. ASSUME NEW w \in Workers, StartWorker(w) \/ Send(w) \/ SendBulky(w) \/ Works(w)
                                \/ TakeNoticeAtWork(w) \/ WorkerDies(w)
      PROVE  UNCHANGED <<ready, results, failures>>
  BY <1>2 DEF StartWorker, Send, SendBulky, Works, Boot, Take, Compute, Push, Killed, WorkerDies,
     TakeNoticeAtWork, ParentRests, parentVars
<1>3. ASSUME NEW j \in Jobs, Submit(j)
      PROVE  UNCHANGED <<results, failures>> /\ ready' \subseteq ready
  BY <1>3 DEF Submit
<1>4. LeaveLoop \/ Poll \/ RaiseForDeadWorkers \/ Close \/ Join \/ Terminate \/ Reap \/ StartFails
        \/ JoinTimesOut \/ TakeNotice \/ Die \/ Interrupt \/ UNCHANGED vars
        => UNCHANGED <<ready, results, failures>>
  BY DEF LeaveLoop, Poll, RaiseForDeadWorkers, Close, Join, Terminate, Reap, StartFails,
     JoinTimesOut, TakeNotice, Die, Interrupt, ParentRests, parentVars, vars
<1> QED BY <1>1, <1>2, <1>3, <1>4 DEF Next, Proceeds

LEMMA TruthfulStep == TypeOK /\ Once /\ Truthful /\ [Next]_vars => Truthful'
<1> SUFFICES ASSUME TypeOK, Once, Truthful, [Next]_vars PROVE Truthful'
  OBVIOUS
<1>0. "no" \notin Kinds
  BY DEF Kinds
<1>1. ASSUME NEW w \in Workers, Answering(w)' PROVE ran'[worker'[w].job] = worker'[w].kind
  <2>1. CASE Answering(w) /\ worker'[w] = worker[w]
    <3>1. worker[w].job \in Jobs /\ worker[w].kind \in Kinds /\ ran[worker[w].job] = worker[w].kind
      BY <2>1 DEF TypeOK, Truthful
    <3> QED BY <1>0, <2>1, <3>1, RanStays
  <2>2. CASE \E kind \in Kinds : Pc(w) = "compute" /\ Computed(w, kind)
    <3>1. PICK kind \in Kinds : Pc(w) = "compute" /\ Computed(w, kind)
      BY <2>2
    <3>2. ran[worker[w].job] = "no" /\ worker[w].job \in Jobs
      BY <3>1 DEF Once, Held, Current, Computing, TypeOK
    <3> QED BY <3>1, <3>2 DEF Computed, TypeOK
  <2> QED BY <1>1, <2>1, <2>2, AnswerStep
<1>2. ASSUME NEW w \in Workers, NEW n \in 1 .. Len(outbox'[w]), outbox'[w][n].kind = "result"
      PROVE  ran'[outbox'[w][n].job] = "result"
  <2>1. ASSUME NEW m \in 1 .. Len(outbox[w]), outbox'[w][n] = outbox[w][m]
        PROVE  ran'[outbox'[w][n].job] = "result"
    <3>1. outbox[w][m] \in Responses
      BY ElementOfSeq DEF TypeOK
    <3>2. outbox[w][m].job \in Jobs /\ ran[outbox[w][m].job] = "result"
      BY <1>2, <2>1, <3>1 DEF Responses, Truthful
    <3> QED BY <2>1, <3>2, RanStays
  <2>2. ASSUME Pc(w) = "push", UNCHANGED ran, outbox'[w][n] = Response(w, worker[w].kind)
        PROVE  ran'[outbox'[w][n].job] = "result"
    BY <1>2, <2>2 DEF Response, Truthful, Answering
  <2> QED BY <1>2, <2>1, <2>2, OutboxValues
<1>3. ASSUME NEW j \in results' PROVE ran'[j] = "result"
  <2>1. ASSUME j \in results PROVE ran'[j] = "result"
    BY <2>1, RanStays DEF Truthful, TypeOK
  <2>2. ASSUME NEW w \in Workers, NEW r, Accept(r), r.kind \in Kinds, r.job \in Jobs, j \notin results,
               \/ \E n \in 1 .. Len(outbox[w]) : r = outbox[w][n]
               \/ Answering(w) /\ r.job = worker[w].job /\ r.kind = worker[w].kind
        PROVE  ran'[j] = "result"
    <3>1. r.kind = "result" /\ j = r.job
      BY <1>3, <2>2 DEF Accept, Kinds
    <3>2. ran[j] = "result"
      BY <2>2, <3>1 DEF Truthful
    <3> QED BY <2>2, <3>1, <3>2, RanStays
  <2>3. \/ UNCHANGED results
        \/ \E w \in Workers : \E r :
             /\ Accept(r) /\ r.kind \in Kinds /\ r.job \in Jobs
             /\ \/ \E n \in 1 .. Len(outbox[w]) : r = outbox[w][n]
                \/ Answering(w) /\ r.job = worker[w].job /\ r.kind = worker[w].kind
    BY ReceivedStep
  <2> QED BY <1>3, <2>1, <2>2, <2>3
<1> QED BY <1>1, <1>2, <1>3 DEF Truthful

LEMMA TruthfulInit == Init => Truthful
<1> SUFFICES ASSUME Init PROVE Truthful
  OBVIOUS
<1>1. \A w \in Workers : ~Answering(w) /\ Len(outbox[w]) = 0
  BY EmptySeq DEF Init, Unborn, Answering, Pc
<1> QED BY <1>1 DEF Truthful, Init

-----------------------------------------------------------------------------
(* No job is forgotten                                                         *)

AwaitedIn(p) == {j \in Jobs : \E w \in Workers : \E n \in DOMAIN p[w] : p[w][n] = j}

LEMMA AwaitedIs == Awaited = AwaitedIn(pending) /\ Awaited' = AwaitedIn(pending')
BY DEF Awaited, AwaitedIn

LEMMA InAwaited ==
  ASSUME NEW p \in [Workers -> Seq(Jobs)], NEW w \in Workers, NEW n \in 1 .. Len(p[w])
  PROVE  p[w][n] \in AwaitedIn(p)
<1>1. p[w] \in Seq(Jobs) /\ DOMAIN p[w] = 1 .. Len(p[w])
  BY LenProperties
<1>2. p[w][n] \in Jobs
  BY <1>1, ElementOfSeq
<1> QED BY <1>1, <1>2 DEF AwaitedIn

LEMMA OfAwaited ==
  ASSUME NEW p \in [Workers -> Seq(Jobs)], NEW j \in AwaitedIn(p)
  PROVE  \E w \in Workers : \E n \in 1 .. Len(p[w]) : p[w][n] = j
<1>1. \A w \in Workers : DOMAIN p[w] = 1 .. Len(p[w])
  BY LenProperties
<1> QED BY <1>1 DEF AwaitedIn

LEMMA AwaitedSent ==
  ASSUME NEW p \in [Workers -> Seq(Jobs)], NEW w \in Workers, NEW j \in Jobs
  PROVE  AwaitedIn([p EXCEPT ![w] = Append(@, j)]) = AwaitedIn(p) \cup {j}
<1> DEFINE new == [p EXCEPT ![w] = Append(@, j)]
<1>1. /\ Len(Append(p[w], j)) = Len(p[w]) + 1 /\ Len(p[w]) \in Nat
      /\ \A n \in 1 .. Len(p[w]) : Append(p[w], j)[n] = p[w][n]
      /\ Append(p[w], j)[Len(p[w]) + 1] = j
      /\ Append(p[w], j) \in Seq(Jobs)
  BY AppendFacts
<1>2. /\ new \in [Workers -> Seq(Jobs)] /\ \A v \in Workers \ {w} : new[v] = p[v]
      /\ Len(new[w]) = Len(p[w]) + 1 /\ \A n \in 1 .. Len(p[w]) : new[w][n] = p[w][n]
      /\ new[w][Len(p[w]) + 1] = j
  BY <1>1
<1> HIDE DEF new
<1>3. ASSUME NEW i \in AwaitedIn(p) PROVE i \in AwaitedIn(new)
  <2>1. PICK v \in Workers : \E n \in 1 .. Len(p[v]) : p[v][n] = i
    BY OfAwaited
  <2>2. PICK n \in 1 .. Len(p[v]) : p[v][n] = i
    BY <2>1
  <2>3. v = w => n \in 1 .. Len(new[v]) /\ new[v][n] = i
    BY <1>1, <1>2, <2>2
  <2>4. v # w => n \in 1 .. Len(new[v]) /\ new[v][n] = i
    BY <1>2, <2>2
  <2> QED BY <1>2, <2>3, <2>4, InAwaited
<1>4. j \in AwaitedIn(new)
  <2>1. Len(p[w]) + 1 \in 1 .. Len(new[w])
    BY <1>1, <1>2
  <2> QED BY <1>2, <2>1, InAwaited
<1>5. ASSUME NEW i \in AwaitedIn(new) PROVE i \in AwaitedIn(p) \cup {j}
  <2>1. PICK v \in Workers : \E n \in 1 .. Len(new[v]) : new[v][n] = i
    BY <1>2, OfAwaited
  <2>2. PICK n \in 1 .. Len(new[v]) : new[v][n] = i
    BY <2>1
  <2>3. CASE v = w /\ n = Len(p[w]) + 1
    BY <1>2, <2>2, <2>3
  <2>4. CASE ~(v = w /\ n = Len(p[w]) + 1)
    <3>1. n \in 1 .. Len(p[v]) /\ p[v][n] = i
      BY <1>1, <1>2, <2>2, <2>4
    <3> QED BY <3>1, InAwaited
  <2> QED BY <2>3, <2>4
<1> QED BY <1>3, <1>4, <1>5 DEF new

LEMMA AwaitedReceived ==
  ASSUME NEW p \in [Workers -> Seq(Jobs)], NEW w \in Workers, p[w] # <<>>
  PROVE  LET new == [p EXCEPT ![w] = Tail(@)]
         IN /\ AwaitedIn(new) \subseteq AwaitedIn(p)
            /\ AwaitedIn(p) \subseteq AwaitedIn(new) \cup {Head(p[w])}
            /\ Head(p[w]) \in AwaitedIn(p)
<1> DEFINE new == [p EXCEPT ![w] = Tail(@)]
<1>1. /\ Len(Tail(p[w])) = Len(p[w]) - 1 /\ Len(p[w]) \in Nat /\ Len(p[w]) >= 1
      /\ \A n \in 1 .. Len(Tail(p[w])) : Tail(p[w])[n] = p[w][n + 1]
      /\ Head(p[w]) = p[w][1] /\ Tail(p[w]) \in Seq(Jobs)
  BY TailFacts
<1>2. /\ new \in [Workers -> Seq(Jobs)] /\ \A v \in Workers \ {w} : new[v] = p[v]
      /\ Len(new[w]) = Len(p[w]) - 1
      /\ \A n \in 1 .. Len(new[w]) : new[w][n] = p[w][n + 1]
  BY <1>1
<1> HIDE DEF new
<1>3. ASSUME NEW i \in AwaitedIn(p), i # Head(p[w]) PROVE i \in AwaitedIn(new)
  <2>1. PICK v \in Workers : \E n \in 1 .. Len(p[v]) : p[v][n] = i
    BY OfAwaited
  <2>2. PICK n \in 1 .. Len(p[v]) : p[v][n] = i
    BY <2>1
  <2>3. CASE v = w
    <3>1. n # 1 /\ n - 1 \in 1 .. Len(new[w]) /\ new[w][n - 1] = p[w][n]
      BY <1>1, <1>2, <1>3, <2>2, <2>3
    <3> QED BY <1>2, <2>2, <2>3, <3>1, InAwaited
  <2>4. CASE v # w
    BY <1>2, <2>2, <2>4, InAwaited
  <2> QED BY <2>3, <2>4
<1>4. ASSUME NEW i \in AwaitedIn(new) PROVE i \in AwaitedIn(p)
  <2>1. PICK v \in Workers : \E n \in 1 .. Len(new[v]) : new[v][n] = i
    BY <1>2, OfAwaited
  <2>2. PICK n \in 1 .. Len(new[v]) : new[v][n] = i
    BY <2>1
  <2>3. CASE v = w
    <3>1. n + 1 \in 1 .. Len(p[w]) /\ p[w][n + 1] = i
      BY <1>1, <1>2, <2>2, <2>3
    <3> QED BY <3>1, InAwaited
  <2>4. CASE v # w
    BY <1>2, <2>2, <2>4, InAwaited
  <2> QED BY <2>3, <2>4
<1>5. Head(p[w]) \in AwaitedIn(p)
  <2>1. 1 \in 1 .. Len(p[w])
    BY <1>1
  <2> QED BY <1>1, <2>1, InAwaited
<1> QED BY <1>3, <1>4, <1>5 DEF new

\* A call that ends, by whatever error, claims nothing of what it leaves undone.
Ending == ~Submitting /\ ~Closing

LEMMA EndingIs ==
  ASSUME TypeOK
  PROVE  /\ \A job : Raise(job) => Ending'
         /\ \A end : EndWith(end) => Ending'
         /\ \A pc \in {"terminate", "reap", "over", "gone"} : Goto(pc) => Ending'
         /\ \A end : call' = [call EXCEPT !.pc = "over", !.end = end] => Ending'
BY DEF TypeOK, Raise, EndWith, Goto, Ending, Submitting, Closing

LEMMA AccountedInit == Init => Accounted
<1> SUFFICES ASSUME Init PROVE Accounted
  OBVIOUS
<1>1. ready = Jobs /\ results = {} /\ ~Closing /\ Carried = {} /\ Awaited \subseteq Jobs
  BY DEF Init, Closing, Carried, At, Awaited
<1> QED BY <1>1 DEF Accounted

LEMMA AccountedStep == TypeOK /\ Accounted /\ [Next]_vars => Accounted'
<1> SUFFICES ASSUME TypeOK, Accounted, [Next]_vars PROVE Accounted'
  OBVIOUS
<1>0. pending \in [Workers -> Seq(Jobs)] /\ \A w \in Workers : pending[w] \in Seq(Jobs)
  BY DEF TypeOK
<1>1. Ending' => Accounted'
  BY DEF Ending, Accounted
<1>2. ASSUME UNCHANGED <<ready, pending, results, failures>>, Carried' = Carried,
             Submitting' => Submitting, Closing' => Closing
      PROVE  Accounted'
  BY <1>2, AwaitedIs DEF Accounted
<1>3. UNCHANGED parentVars => Accounted'
  BY <1>2 DEF parentVars, Carried, At, Submitting, Closing
<1>4. ASSUME NEW w \in Workers, StartWorker(w) PROVE Accounted'
  <2>1. /\ UNCHANGED <<ready, pending, results, failures>> /\ Submitting
        /\ Submitting' /\ ~Closing' /\ Carried = {} /\ Carried' = {}
    BY <1>4 DEF StartWorker, TypeOK, Submitting, Closing, Carried, At
  <2> QED BY <1>2, <2>1
<1>5. ASSUME NEW j \in Jobs, Submit(j) PROVE Accounted'
  <2>1. CASE \E w \in Workers : Raise(HeadJob(w))
    BY <1>1, <2>1, EndingIs
  <2>2. CASE \E w \in Workers : call' = [call EXCEPT !.pc = "send", !.job = j, !.to = w]
    <3>1. Submitting /\ Submitting' /\ ~Closing' /\ Carried = {} /\ Carried' = {j}
      BY <1>5, <2>2 DEF Submit, TypeOK, Submitting, Closing, Carried, At
    <3>2. ready' = ready \ {j} /\ UNCHANGED <<pending, results, failures>> /\ Awaited' = Awaited
      BY <1>5, AwaitedIs DEF Submit
    <3> QED BY <3>1, <3>2 DEF Accounted
  <2> QED BY <1>5, <2>1, <2>2, Zenon DEF Submit
<1>6. ASSUME NEW w \in Workers, Send(w) \/ SendBulky(w) PROVE Accounted'
  <2>1. CASE Raise(call.job)
    BY <1>1, <2>1, EndingIs
  <2>2. CASE Sent(w)
    <3>1. /\ call.job \in Jobs /\ Submitting /\ Submitting' /\ ~Closing'
          /\ Carried = {call.job} /\ Carried' = {}
      BY <1>6, <2>2 DEF Send, SendBulky, Sent, Goto, TypeOK, Submitting, Closing, Carried, At
    <3>2. UNCHANGED <<ready, results, failures>>
      BY <1>6 DEF Send, SendBulky
    <3>3. Awaited' = Awaited \cup {call.job}
      BY <1>0, <2>2, <3>1, AwaitedIs, AwaitedSent DEF Sent
    <3> QED BY <3>1, <3>2, <3>3 DEF Accounted
  <2> QED BY <1>6, <2>1, <2>2, Zenon DEF Send, SendBulky
<1>7. ASSUME LeaveLoop PROVE Accounted'
  <2>1. CASE Waiting
    BY <1>1, <1>7, <2>1, EndingIs DEF LeaveLoop
  <2>2. CASE ~Waiting
    <3>1. Goto("close") /\ At("loop") /\ ~Submits /\ UNCHANGED <<ready, pending, results, failures>>
      BY <1>7, <2>2 DEF LeaveLoop
    <3>2. \A w \in Workers : pending[w] = <<>>
      BY <2>2 DEF Waiting
    <3>3. CanSubmit
      BY <3>2, NonEmpty, EmptySeq DEF CanSubmit, PendingPerWorker
    <3>4. Awaited = {}
      BY <1>0, <3>2, AwaitedIs, OfAwaited, EmptySeq
    <3>5. Submitting /\ ~Submitting' /\ Closing' /\ Carried = {}
      BY <3>1 DEF Goto, TypeOK, Submitting, Closing, Carried, At
    <3>6. failures = {} => ready = {}
      BY <3>1, <3>3 DEF Submits
    <3>7. failures = {} => Jobs = results
      BY <3>4, <3>5, <3>6 DEF Accounted
    <3> QED BY <3>1, <3>2, <3>5, <3>7 DEF Accounted
  <2> QED BY <2>1, <2>2
<1>8. ASSUME NEW w \in Workers, Receive(w) PROVE Accounted'
  <2>1. /\ pending[w] # <<>> /\ pending' = [pending EXCEPT ![w] = Tail(@)] /\ At("loop")
    BY <1>8, ReceiveCases DEF Receive, Receives
  <2>2. Awaited \subseteq Awaited' \cup {Head(pending[w])} /\ Awaited' \subseteq Awaited
        /\ Head(pending[w]) \in Awaited
    BY <1>0, <2>1, AwaitedReceived, AwaitedIs
  <2>3. CASE Raise(Head(pending[w]))
    BY <1>1, <2>3, EndingIs
  <2>4. ASSUME NEW r, r.job = Head(pending[w]), r.kind \in Kinds, Accept(r) PROVE Accounted'
    <3>1. CASE r.kind = "interrupted"
      BY <1>1, <2>4, <3>1, EndingIs DEF Accept
    <3>2. CASE r.kind # "interrupted"
      <4>1. Submitting /\ Submitting' /\ ~Closing' /\ Carried = {} /\ Carried' = {}
        BY <2>1, <2>4, <3>2 DEF Accept, Kinds, Goto, TypeOK, Submitting, Closing, Carried, At
      <4>2. \/ results' = results \cup {Head(pending[w])} /\ UNCHANGED <<ready, failures>>
            \/ failures' = failures \cup {Head(pending[w])}
        BY <2>4, <3>2 DEF Accept, Kinds
      <4>3. results \subseteq Jobs /\ Head(pending[w]) \in Jobs
        BY <1>8, ReceiveCases DEF TypeOK
      <4> QED BY <2>2, <4>1, <4>2, <4>3 DEF Accounted, Awaited
    <3> QED BY <3>1, <3>2
  <2> QED BY <1>8, <2>3, <2>4, ReceiveCases, Zenon
<1>9. ASSUME Poll \/ RaiseForDeadWorkers PROVE Accounted'
  <2>1. CASE \E w \in Workers : Raise(HeadJob(w))
    BY <1>1, <2>1, EndingIs
  <2>2. CASE ~ \E w \in Workers : Raise(HeadJob(w))
    <3>1. Goto("poll") \/ Goto("loop")
      BY <1>9, <2>2 DEF Poll, RaiseForDeadWorkers
    <3>2. Submitting /\ Submitting' /\ ~Closing' /\ Carried = {} /\ Carried' = {}
      BY <1>9, <3>1 DEF Poll, RaiseForDeadWorkers, Receives, Goto, TypeOK, Submitting, Closing, Carried, At
    <3>3. UNCHANGED <<ready, pending, results, failures>>
      BY <1>9 DEF Poll, RaiseForDeadWorkers
    <3> QED BY <1>2, <3>2, <3>3
  <2> QED BY <2>1, <2>2
<1>10. ASSUME Close PROVE Accounted'
  <2>1. CASE Raise(NoJob)
    BY <1>1, <2>1, EndingIs
  <2>2. CASE Goto("join")
    <3>1. Closing /\ Closing' /\ ~Submitting' /\ UNCHANGED <<ready, pending, results, failures>>
      BY <1>10, <2>2 DEF Close, Goto, TypeOK, Submitting, Closing, At
    <3> QED BY <3>1 DEF Accounted
  <2> QED BY <1>10, <2>1, <2>2 DEF Close
<1>11. Join \/ Terminate \/ Reap \/ StartFails \/ JoinTimesOut \/ Die => Ending'
  BY EndingIs DEF Join, Terminate, Reap, StartFails, JoinTimesOut, Die
<1>12. ASSUME TakeNotice PROVE Accounted'
  <2>1. CASE Ending'
    BY <1>1, <2>1
  <2>2. CASE ~Ending'
    <3>1. UNCHANGED call
      BY <1>12, <2>2, EndingIs DEF TakeNotice
    <3>2. UNCHANGED <<ready, pending, results, failures>>
      BY <1>12 DEF TakeNotice
    <3>3. Carried' = Carried /\ (Submitting' => Submitting) /\ (Closing' => Closing)
      BY <3>1 DEF Carried, At, Submitting, Closing
    <3> QED BY <1>2, <3>2, <3>3
  <2> QED BY <2>1, <2>2
<1>13. ASSUME NEW w \in Workers, Works(w) \/ TakeNoticeAtWork(w) \/ WorkerDies(w) PROVE Accounted'
  BY <1>3, <1>13 DEF Works, Boot, Take, Compute, Push, Killed, TakeNoticeAtWork, WorkerDies, ParentRests
<1>14. Interrupt \/ UNCHANGED vars => Accounted'
  BY <1>3 DEF Interrupt, ParentRests, vars
<1> QED
  BY <1>1, <1>4, <1>5, <1>6, <1>7, <1>8, <1>9, <1>10, <1>11, <1>12, <1>13, <1>14 DEF Next, Proceeds

\* How a call that is about to end came to it.
LEMMA EndgameInit == Init => Endgame
BY DEF Init, Endgame, None

LEMMA EndgameStep == TypeOK /\ Accounted /\ Endgame /\ [Next]_vars => Endgame'
<1> SUFFICES ASSUME TypeOK, Accounted, Endgame, [Next]_vars PROVE Endgame'
  OBVIOUS
<1>1. ASSUME UNCHANGED <<results, failures>>, call'.end = call.end,
             Submitting' \/ Closing' => Submitting \/ Closing
      PROVE  Endgame'
  BY <1>1 DEF Endgame
<1>2. ASSUME UNCHANGED <<results, failures>>, NEW job \in Jobs \cup {NoJob}, Raise(job)
      PROVE  Endgame'
  <2>1. /\ call'.end = Failed(Blamed(job)) /\ Blamed(job) \in Jobs
        /\ \A i \in failures : Blamed(job) <= i
    BY <1>2, RaiseFits DEF TypeOK
  <2>2. Ending'
    BY <1>2, EndingIs
  <2> QED BY <1>2, <2>1, <2>2 DEF Endgame, Ending, Failed
<1>3. ASSUME EndWith(Interrupted) PROVE Endgame'
  <2>1. call'.end = Interrupted /\ Ending'
    BY <1>3, EndingIs DEF EndWith, TypeOK
  <2> QED BY <2>1 DEF Endgame, Ending, Interrupted
<1>4. ASSUME UNCHANGED <<results, failures>>, Ending', call'.end = Verdict, failures = {} => results = Jobs
      PROVE  Endgame'
  <2>1. failures \subseteq Jobs
    BY DEF TypeOK
  <2> QED BY <1>4, <2>1, VerdictFits DEF Endgame, Ending
<1>5. \A w \in Workers : HeadJob(w) \in Jobs \cup {NoJob}
  BY HeadJobFits
<1>6. \A pc \in CallPcs : Goto(pc) => call'.end = call.end
  BY DEF TypeOK, Goto
<1>7. ASSUME NEW w \in Workers, StartWorker(w) PROVE Endgame'
  <2>1. call'.end = call.end /\ Submitting /\ UNCHANGED <<results, failures>>
    BY <1>7 DEF StartWorker, TypeOK, Submitting, At
  <2> QED BY <1>1, <2>1
<1>8. ASSUME NEW j \in Jobs, Submit(j) PROVE Endgame'
  <2>1. UNCHANGED <<results, failures>> /\ Submitting
    BY <1>8 DEF Submit, Submitting, At
  <2>2. CASE \E w \in Workers : Raise(HeadJob(w))
    BY <1>2, <1>5, <2>1, <2>2
  <2>3. CASE \E w \in Workers : call' = [call EXCEPT !.pc = "send", !.job = j, !.to = w]
    <3>1. call'.end = call.end
      BY <2>3 DEF TypeOK
    <3> QED BY <1>1, <2>1, <3>1
  <2> QED BY <1>8, <2>2, <2>3, Zenon DEF Submit
<1>9. ASSUME NEW w \in Workers, Send(w) \/ SendBulky(w) PROVE Endgame'
  <2>1. UNCHANGED <<results, failures>> /\ Submitting /\ call.job \in Jobs \cup {NoJob}
    BY <1>9 DEF Send, SendBulky, Submitting, At, TypeOK
  <2>2. Raise(call.job) \/ Goto("loop")
    BY <1>9 DEF Send, SendBulky, Sent
  <2>3. Goto("loop") => call'.end = call.end
    BY <1>6 DEF CallPcs
  <2> QED BY <1>1, <1>2, <2>1, <2>2, <2>3
<1>10. ASSUME LeaveLoop PROVE Endgame'
  <2>1. UNCHANGED <<results, failures>> /\ Submitting
    BY <1>10 DEF LeaveLoop, Submitting, At
  <2>2. Goto("close") \/ (Decided /\ EndWith(Verdict))
    BY <1>10 DEF LeaveLoop
  <2>3. Goto("close") => call'.end = call.end
    BY <1>6 DEF CallPcs
  <2>4. Decided /\ EndWith(Verdict) => call'.end = Verdict /\ Ending' /\ failures # {}
    BY EndingIs DEF EndWith, TypeOK, Decided
  <2> QED BY <1>1, <1>4, <2>1, <2>2, <2>3, <2>4
<1>11. ASSUME NEW w \in Workers, Receive(w) PROVE Endgame'
  <2>1. At("loop") /\ Head(pending[w]) \in Jobs
    BY <1>11, ReceiveCases DEF Receive, Receives
  <2>2. CASE Raise(Head(pending[w])) /\ UNCHANGED <<ready, results, failures>>
    BY <1>2, <2>1, <2>2
  <2>3. ASSUME NEW r, r.kind \in Kinds, Accept(r) PROVE Endgame'
    <3>1. CASE r.kind = "interrupted"
      BY <1>3, <2>3, <3>1 DEF Accept
    <3>2. CASE r.kind # "interrupted"
      <4>1. Goto("loop")
        BY <2>3, <3>2 DEF Accept, Kinds
      <4>2. call'.end = None
        BY <1>6, <2>1, <4>1 DEF Endgame, Submitting, At, CallPcs
      <4> QED BY <4>2 DEF Endgame, None
    <3> QED BY <3>1, <3>2
  <2> QED BY <1>11, <2>2, <2>3, ReceiveCases, Zenon
<1>12. ASSUME Poll \/ RaiseForDeadWorkers PROVE Endgame'
  <2>1. UNCHANGED <<results, failures>> /\ Submitting
    BY <1>12 DEF Poll, RaiseForDeadWorkers, Receives, Submitting, At
  <2>2. Goto("poll") \/ Goto("loop") \/ \E w \in Workers : Raise(HeadJob(w))
    BY <1>12 DEF Poll, RaiseForDeadWorkers
  <2>3. Goto("poll") \/ Goto("loop") => call'.end = call.end
    BY <1>6 DEF CallPcs
  <2> QED BY <1>1, <1>2, <1>5, <2>1, <2>2, <2>3
<1>13. ASSUME Close \/ StartFails \/ JoinTimesOut PROVE Endgame'
  <2>1. UNCHANGED <<results, failures>> /\ (Submitting \/ Closing)
    BY <1>13 DEF Close, StartFails, JoinTimesOut, Submitting, Closing, At
  <2>2. Goto("join") \/ Raise(NoJob)
    BY <1>13 DEF Close, StartFails, JoinTimesOut
  <2>3. Goto("join") => call'.end = call.end
    BY <1>6 DEF CallPcs
  <2> QED BY <1>1, <1>2, <2>1, <2>2, <2>3
<1>14. ASSUME Join PROVE Endgame'
  <2>1. UNCHANGED <<results, failures>> /\ Closing
    BY <1>14 DEF Join, Closing, At
  <2>2. Raise(NoJob) \/ call' = [call EXCEPT !.pc = "over", !.end = Verdict]
    BY <1>14 DEF Join
  <2>3. call' = [call EXCEPT !.pc = "over", !.end = Verdict] => call'.end = Verdict /\ Ending'
    BY EndingIs DEF TypeOK
  <2> QED BY <1>2, <1>4, <2>1, <2>2, <2>3 DEF Accounted
<1>15. ASSUME Terminate \/ Reap \/ Die PROVE Endgame'
  <2>1. UNCHANGED <<results, failures>> /\ call'.end = call.end /\ Ending'
    BY <1>6, <1>15, EndingIs DEF Terminate, Reap, Die, CallPcs
  <2> QED BY <1>1, <2>1 DEF Ending
<1>16. ASSUME TakeNotice PROVE Endgame'
  <2>1. UNCHANGED <<results, failures>>
    BY <1>16 DEF TakeNotice
  <2>2. CASE UNCHANGED call
    BY <1>1, <2>1, <2>2 DEF Submitting, Closing
  <2>3. CASE EndWith(Interrupted)
    BY <1>3, <2>3
  <2>4. ASSUME NEW end \in {call.end, Interrupted}, call' = [call EXCEPT !.pc = "over", !.end = end]
        PROVE  Endgame'
    <3>1. call'.end = end /\ Ending'
      BY <2>4, EndingIs DEF TypeOK
    <3> QED BY <2>1, <2>4, <3>1 DEF Endgame, Ending, Interrupted
  <2> QED BY <1>16, <2>2, <2>3, <2>4 DEF TakeNotice
<1>17. ASSUME UNCHANGED parentVars PROVE Endgame'
  BY <1>1, <1>17 DEF parentVars, Submitting, Closing
<1>18. ASSUME NEW w \in Workers, Works(w) \/ TakeNoticeAtWork(w) \/ WorkerDies(w) PROVE Endgame'
  BY <1>17, <1>18 DEF Works, Boot, Take, Compute, Push, Killed, TakeNoticeAtWork, WorkerDies, ParentRests
<1>19. Interrupt \/ UNCHANGED vars => Endgame'
  BY <1>17 DEF Interrupt, ParentRests, vars
<1> QED
  BY <1>7, <1>8, <1>9, <1>10, <1>11, <1>12, <1>13, <1>14, <1>15, <1>16, <1>18, <1>19
     DEF Next, Proceeds

-----------------------------------------------------------------------------
(* Workers end first                                                           *)

LEMMA WorkersEndStep == TypeOK /\ WorkersEndFirst /\ [Next]_vars => WorkersEndFirst'
<1> SUFFICES ASSUME TypeOK, WorkersEndFirst, [Next]_vars, At("over")', ~escaped',
                    NEW w \in Workers
             PROVE  ~Alive(w)'
  BY DEF WorkersEndFirst
<1>1. ASSUME At("over"), ~escaped PROVE ~Alive(w)'
  <2>1. \A v \in Workers : Pc(v) \in {"unborn", "exited", "dead"}
    BY <1>1 DEF WorkersEndFirst, Alive
  <2>2. (\E v \in Workers : TakeNoticeAtWork(v)) => UNCHANGED worker
    BY <2>1 DEF TakeNoticeAtWork, Alive
  <2>3. ~ \E v \in Workers : \/ StartWorker(v) \/ Send(v) \/ SendBulky(v) \/ Receive(v)
                             \/ Works(v) \/ WorkerDies(v)
    BY <1>1, <2>1 DEF At, StartWorker, Send, SendBulky, Receive, Receives, Works, Boot, Take, Compute,
       Push, Killed, WorkerDies, Alive
  <2>4. ~ \E j \in Jobs : Submit(j)
    BY <1>1 DEF Submit, At
  <2>5. UNCHANGED worker
    BY <2>2, <2>3, <2>4
       DEF Next, Proceeds, LeaveLoop, Poll, RaiseForDeadWorkers, Close, Join, Terminate, Reap,
       StartFails, JoinTimesOut, TakeNotice, Die, Interrupt, vars
  <2> QED BY <2>1, <2>5 DEF Alive, Pc
<1>2. ASSUME ~At("over") PROVE ~Alive(w)'
  <2>1. \A pc \in CallPcs \ {"over"} : Goto(pc) => ~At("over")'
    BY DEF Goto, TypeOK, At
  <2>2. \A end : EndWith(end) => ~At("over")'
    BY DEF EndWith, TypeOK, At
  <2>3. \A job : Raise(job) => ~At("over")'
    BY <2>2 DEF Raise
  <2>4. \A pc \in {"loop", "close", "poll", "join", "reap", "gone"} : pc \in CallPcs \ {"over"}
    BY DEF CallPcs
  <2>5. UNCHANGED call => ~At("over")'
    BY <1>2 DEF At
  <2>6. ASSUME NEW v \in Workers, StartWorker(v) PROVE FALSE
    BY <2>6 DEF StartWorker, TypeOK, At
  <2>7. ASSUME NEW v \in Workers, Send(v) \/ SendBulky(v) PROVE FALSE
    BY <2>1, <2>3, <2>4, <2>7 DEF Send, SendBulky, Sent
  <2>8. ASSUME NEW v \in Workers, Receive(v) PROVE FALSE
    <3>1. \A r : Accept(r) /\ r.kind \in Kinds => ~At("over")'
      BY <2>1, <2>2, <2>4 DEF Accept, Kinds
    <3> QED BY <2>3, <2>8, <3>1, ReceiveCases, Zenon
  <2>9. ASSUME NEW j \in Jobs, Submit(j) PROVE FALSE
    <3>1. \A v \in Workers : call' = [call EXCEPT !.pc = "send", !.job = j, !.to = v] => ~At("over")'
      BY DEF TypeOK, At
    <3> QED BY <2>3, <2>9, <3>1, Zenon DEF Submit
  <2>10. LeaveLoop \/ Poll \/ RaiseForDeadWorkers \/ Close \/ Terminate => FALSE
    BY <2>1, <2>2, <2>3, <2>4 DEF LeaveLoop, Poll, RaiseForDeadWorkers, Close, Terminate
  <2>11. StartFails \/ JoinTimesOut \/ Die => FALSE
    BY <2>1, <2>3, <2>4 DEF StartFails, JoinTimesOut, Die
  <2>12. Join \/ Reap => (~Alive(w) /\ UNCHANGED worker)
    BY <2>3 DEF Join, Reap, Alive
  <2>13. TakeNotice => FALSE
    BY <2>2, <2>5 DEF TakeNotice
  <2>14. ASSUME NEW v \in Workers, Works(v) \/ TakeNoticeAtWork(v) \/ WorkerDies(v) PROVE FALSE
    BY <2>5, <2>14 DEF Works, Boot, Take, Compute, Push, Killed, TakeNoticeAtWork, WorkerDies,
       ParentRests, parentVars
  <2>15. ~Interrupt /\ ~UNCHANGED vars
    BY <2>5 DEF Interrupt, ParentRests, parentVars, vars
  <2>16. ~Alive(w) /\ UNCHANGED worker
    BY <2>6, <2>7, <2>8, <2>9, <2>10, <2>11, <2>12, <2>13, <2>14, <2>15 DEF Next, Proceeds
  <2> QED BY <2>16 DEF Alive, Pc
<1>3. escaped => escaped'
  BY DEF Next, Proceeds, Works, StartWorker, Send, SendBulky, Receive, Submit, LeaveLoop, Poll,
     RaiseForDeadWorkers, Close, Join, Terminate, Reap, StartFails, JoinTimesOut, TakeNotice, Die,
     Interrupt, Boot, Take, Compute, Push, Killed, TakeNoticeAtWork, WorkerDies, history, vars
<1> QED BY <1>1, <1>2, <1>3

-----------------------------------------------------------------------------
(* A call without a fault                                                      *)

LEMMA OrderedSend ==
  ASSUME NEW p \in Seq(Jobs), NEW o \in Seq(Responses), NEW busy \in {0, 1}, NEW job,
         NEW i \in Seq(Jobs \cup {Stop}), InOrder(p, o, busy, job, i), NEW j \in Jobs
  PROVE  InOrder(Append(p, j), o, busy, job, Append(i, j))
<1> DEFINE pp == Append(p, j)
           ii == Append(i, j)
<1>1. /\ Len(pp) = Len(p) + 1 /\ \A n \in 1 .. Len(p) : pp[n] = p[n]
      /\ pp[Len(p) + 1] = j
  BY AppendFacts
<1>2. /\ Len(ii) = Len(i) + 1 /\ \A n \in 1 .. Len(i) : ii[n] = i[n]
      /\ ii[Len(i) + 1] = j
  BY AppendFacts
<1>3. Len(p) \in Nat /\ Len(o) \in Nat /\ Len(i) \in Nat
  BY LenProperties
<1> HIDE DEF pp, ii
<1>4. /\ Len(p) = Len(o) + busy + Len(i)
      /\ \A n \in 1 .. Len(o) : p[n] = o[n].job
      /\ busy = 1 => p[Len(o) + 1] = job
      /\ \A n \in 1 .. Len(i) : p[Len(o) + busy + n] = i[n]
  BY DEF InOrder
<1>5. Len(pp) = Len(o) + busy + Len(ii)
  BY <1>1, <1>2, <1>3, <1>4
<1>6. \A n \in 1 .. Len(o) : pp[n] = o[n].job
  BY <1>1, <1>3, <1>4
<1>7. busy = 1 => pp[Len(o) + 1] = job
  BY <1>1, <1>3, <1>4
<1>8. ASSUME NEW n \in 1 .. Len(ii) PROVE pp[Len(o) + busy + n] = ii[n]
  <2>1. CASE n \in 1 .. Len(i)
    <3>1. Len(o) + busy + n \in 1 .. Len(p)
      BY <1>3, <1>4, <2>1
    <3> QED BY <1>1, <1>2, <1>4, <2>1, <3>1
  <2>2. CASE n = Len(i) + 1
    BY <1>1, <1>2, <1>3, <1>4, <2>2
  <2> QED BY <1>2, <1>3, <2>1, <2>2
<1> QED BY <1>5, <1>6, <1>7, <1>8 DEF InOrder, pp, ii

LEMMA OrderedSendBulky ==
  ASSUME NEW p \in Seq(Jobs), NEW o \in Seq(Responses), NEW job,
         InOrder(p, o, 0, job, <<>>), NEW j \in Jobs
  PROVE  InOrder(Append(p, j), o, 1, j, <<>>)
<1>1. /\ Len(Append(p, j)) = Len(p) + 1 /\ \A n \in 1 .. Len(p) : Append(p, j)[n] = p[n]
      /\ Append(p, j)[Len(p) + 1] = j
  BY AppendFacts
<1>2. Len(p) \in Nat /\ Len(o) \in Nat /\ Len(<<>>) = 0
  BY LenProperties, EmptySeq
<1> QED BY <1>1, <1>2 DEF InOrder

LEMMA OrderedTake ==
  ASSUME NEW p \in Seq(Jobs), NEW o \in Seq(Responses), NEW job,
         NEW i \in Seq(Jobs \cup {Stop}), i # <<>>, InOrder(p, o, 0, job, i)
  PROVE  Head(i) \in Jobs /\ InOrder(p, o, 1, Head(i), Tail(i))
<1>1. /\ Len(Tail(i)) = Len(i) - 1 /\ Len(i) >= 1 /\ Head(i) = i[1]
      /\ \A n \in 1 .. Len(Tail(i)) : Tail(i)[n] = i[n + 1]
  BY TailFacts
<1>2. Len(p) \in Nat /\ Len(o) \in Nat /\ Len(i) \in Nat
  BY LenProperties
<1>3. /\ Len(p) = Len(o) + Len(i)
      /\ \A n \in 1 .. Len(o) : p[n] = o[n].job
      /\ \A n \in 1 .. Len(i) : p[Len(o) + n] = i[n]
  BY <1>2 DEF InOrder
<1>4. Head(i) = p[Len(o) + 1] /\ Len(o) + 1 \in 1 .. Len(p)
  BY <1>1, <1>2, <1>3
<1>5. Head(i) \in Jobs
  BY <1>4, ElementOfSeq
<1>6. ASSUME NEW n \in 1 .. Len(Tail(i)) PROVE p[Len(o) + 1 + n] = Tail(i)[n]
  <2>1. n + 1 \in 1 .. Len(i) /\ Len(o) + 1 + n = Len(o) + (n + 1)
    BY <1>1, <1>2
  <2> QED BY <1>1, <1>3, <2>1
<1>7. Len(p) = Len(o) + 1 + Len(Tail(i))
  BY <1>1, <1>2, <1>3
<1> QED BY <1>3, <1>4, <1>5, <1>6, <1>7 DEF InOrder

LEMMA OrderedPush ==
  ASSUME NEW p \in Seq(Jobs), NEW o \in Seq(Responses), NEW job,
         NEW i \in Seq(Jobs \cup {Stop}), InOrder(p, o, 1, job, i),
         NEW r \in Responses, r.job = job
  PROVE  InOrder(p, Append(o, r), 0, job, i)
<1> DEFINE oo == Append(o, r)
<1>1. /\ Len(oo) = Len(o) + 1 /\ \A n \in 1 .. Len(o) : oo[n] = o[n]
      /\ oo[Len(o) + 1] = r
  BY AppendFacts
<1>2. Len(p) \in Nat /\ Len(o) \in Nat /\ Len(i) \in Nat
  BY LenProperties
<1> HIDE DEF oo
<1>3. Len(p) = Len(oo) + 0 + Len(i)
  BY <1>1, <1>2 DEF InOrder
<1>4. ASSUME NEW n \in 1 .. Len(oo) PROVE p[n] = oo[n].job
  <2>1. CASE n \in 1 .. Len(o)
    BY <1>1, <2>1 DEF InOrder
  <2>2. CASE n = Len(o) + 1
    BY <1>1, <2>2 DEF InOrder
  <2> QED BY <1>1, <1>2, <2>1, <2>2
<1>5. \A n \in 1 .. Len(i) : p[Len(oo) + 0 + n] = i[n]
  BY <1>1, <1>2 DEF InOrder
<1> QED BY <1>3, <1>4, <1>5 DEF InOrder, oo

LEMMA OrderedReceive ==
  ASSUME NEW p \in Seq(Jobs), NEW o \in Seq(Responses), NEW busy \in {0, 1}, NEW job,
         NEW i \in Seq(Jobs \cup {Stop}), InOrder(p, o, busy, job, i), o # <<>>
  PROVE  /\ p # <<>> /\ Head(p) = Head(o).job
         /\ InOrder(Tail(p), Tail(o), busy, job, i)
<1>1. /\ Len(Tail(o)) = Len(o) - 1 /\ Len(o) >= 1 /\ Head(o) = o[1]
      /\ \A n \in 1 .. Len(Tail(o)) : Tail(o)[n] = o[n + 1]
  BY TailFacts
<1>2. Len(p) \in Nat /\ Len(o) \in Nat /\ Len(i) \in Nat /\ Len(<<>>) = 0
  BY LenProperties, EmptySeq
<1>3. /\ Len(p) = Len(o) + busy + Len(i)
      /\ \A n \in 1 .. Len(o) : p[n] = o[n].job
      /\ busy = 1 => p[Len(o) + 1] = job
      /\ \A n \in 1 .. Len(i) : p[Len(o) + busy + n] = i[n]
  BY DEF InOrder
<1>4. p # <<>>
  BY <1>1, <1>2, <1>3
<1>5. /\ Len(Tail(p)) = Len(p) - 1 /\ Head(p) = p[1]
      /\ \A n \in 1 .. Len(Tail(p)) : Tail(p)[n] = p[n + 1]
  BY <1>4, TailFacts
<1>6. Head(p) = Head(o).job
  BY <1>1, <1>2, <1>3, <1>5
<1>7. Len(Tail(p)) = Len(Tail(o)) + busy + Len(i)
  BY <1>1, <1>2, <1>3, <1>5
<1>8. ASSUME NEW n \in 1 .. Len(Tail(o)) PROVE Tail(p)[n] = Tail(o)[n].job
  <2>1. n \in 1 .. Len(Tail(p)) /\ n + 1 \in 1 .. Len(o)
    BY <1>1, <1>2, <1>7
  <2> QED BY <1>1, <1>3, <1>5, <2>1
<1>9. ASSUME busy = 1 PROVE Tail(p)[Len(Tail(o)) + 1] = job
  <2>1. Len(Tail(o)) + 1 \in 1 .. Len(Tail(p)) /\ Len(Tail(o)) + 1 + 1 = Len(o) + 1
    BY <1>1, <1>2, <1>7, <1>9
  <2> QED BY <1>3, <1>5, <1>9, <2>1
<1>10. ASSUME NEW n \in 1 .. Len(i) PROVE Tail(p)[Len(Tail(o)) + busy + n] = i[n]
  <2>1. /\ Len(Tail(o)) + busy + n \in 1 .. Len(Tail(p))
        /\ Len(Tail(o)) + busy + n + 1 = Len(o) + busy + n
    BY <1>1, <1>2, <1>7
  <2> QED BY <1>3, <1>5, <2>1
<1> QED BY <1>4, <1>6, <1>7, <1>8, <1>9, <1>10 DEF InOrder

LEMMA OrderedReceiveBulky ==
  ASSUME NEW p \in Seq(Jobs), NEW job,
         NEW i \in Seq(Jobs \cup {Stop}), InOrder(p, <<>>, 1, job, i)
  PROVE  /\ p # <<>> /\ Head(p) = job
         /\ InOrder(Tail(p), <<>>, 0, job, i)
<1>1. Len(p) \in Nat /\ Len(i) \in Nat /\ Len(<<>>) = 0
  BY LenProperties, EmptySeq
<1>2. /\ Len(p) = 1 + Len(i) /\ p[1] = job
      /\ \A n \in 1 .. Len(i) : p[1 + n] = i[n]
  BY <1>1 DEF InOrder
<1>3. p # <<>>
  BY <1>1, <1>2
<1>4. /\ Len(Tail(p)) = Len(p) - 1 /\ Head(p) = p[1]
      /\ \A n \in 1 .. Len(Tail(p)) : Tail(p)[n] = p[n + 1]
  BY <1>3, TailFacts
<1>5. \A n \in 1 .. Len(i) : Tail(p)[n] = i[n]
  <2>1. \A n \in 1 .. Len(i) : n \in 1 .. Len(Tail(p)) /\ n + 1 = 1 + n
    BY <1>1, <1>2, <1>4
  <2> QED BY <1>2, <1>4, <2>1
<1>6. \A n \in 1 .. Len(i) : 0 + 0 + n = n
  BY <1>1
<1> QED BY <1>1, <1>2, <1>3, <1>4, <1>5, <1>6 DEF InOrder

LEMMA OrderedEmpty ==
  ASSUME NEW o \in Seq(Responses), NEW busy \in {0, 1}, NEW job,
         NEW i \in Seq(Jobs \cup {Stop}), InOrder(<<>>, o, busy, job, i)
  PROVE  o = <<>> /\ busy = 0 /\ i = <<>>
<1>1. Len(o) \in Nat /\ Len(i) \in Nat /\ Len(<<>>) = 0
  BY LenProperties, EmptySeq
<1>2. Len(o) = 0 /\ busy = 0 /\ Len(i) = 0
  BY <1>1 DEF InOrder
<1> QED BY <1>2, EmptySeq

\* Without a fault the parent proceeds and the workers work, and that is all.
LEMMA CalmStep ==
  ASSUME TypeOK, Orderly, [Next]_vars, faults' = 0
  PROVE  /\ faults = 0 /\ signals = {}
         /\ Proceeds \/ (\E w \in Workers : Works(w)) \/ UNCHANGED vars
<1>1. signals = {} /\ faults \in Nat
  BY DEF Orderly, TypeOK
<1>2. ~Fault
  BY <1>1 DEF Fault
<1>3. Proceeds \/ (\E w \in Workers : Works(w)) \/ UNCHANGED vars
  <2>1. ~StartFails /\ ~JoinTimesOut /\ ~Die /\ ~Interrupt /\ \A w \in Workers : ~WorkerDies(w)
    BY <1>2 DEF StartFails, JoinTimesOut, Die, Interrupt, WorkerDies
  <2>2. ~TakeNotice /\ \A w \in Workers : ~TakeNoticeAtWork(w)
    BY <1>1 DEF TakeNotice, TakeNoticeAtWork
  <2> QED BY <2>1, <2>2 DEF Next
<1>4. UNCHANGED faults
  <2>1. ASSUME Proceeds PROVE UNCHANGED faults
    BY <2>1 DEF Proceeds, StartWorker, Send, SendBulky, Receive, Submit, LeaveLoop, Poll,
       RaiseForDeadWorkers, Close, Join, Terminate, Reap, history
  <2>2. ASSUME NEW w \in Workers, Works(w) PROVE UNCHANGED faults
    BY <2>2 DEF Works, Boot, Take, Compute, Push, Killed, history
  <2> QED BY <1>3, <2>1, <2>2 DEF vars, history
<1> QED BY <1>1, <1>3, <1>4

LEMMA OrderlyEnding ==
  ASSUME Orderly, Ending', UNCHANGED signals
  PROVE  Orderly'
BY DEF Orderly, Ending, Submitting, Closing, At

\* The parent goes on with its loop, or to its end.
LEMMA OrderlyGoto ==
  ASSUME TypeOK, Orderly, Submitting, (Submitting \/ At("close"))', ~At("start")',
         UNCHANGED <<worker, pending, pipes, signals, killed, open>>
  PROVE  Orderly'
<1>1. \A w \in Workers : ~Gone(w) /\ Fifo(w)
  BY DEF Orderly
<1>2. \A w \in Workers : ~Gone(w)' /\ Fifo(w)'
  BY <1>1 DEF Gone, Pc, Fifo, Busy, Computing, Answering, pipes
<1>3. ~At("join")'
  BY DEF Submitting, At
<1> QED BY <1>2, <1>3 DEF Orderly

LEMMA FifoSame ==
  ASSUME NEW w \in Workers, Fifo(w), pending'[w] = pending[w], inbox'[w] = inbox[w],
         outbox'[w] = outbox[w], Busy(w)' = Busy(w), worker'[w].job = worker[w].job
  PROVE  Fifo(w)'
BY DEF Fifo

\* A step that only one worker and its pipes take part in, at the parent's side too.
LEMMA OrderlyAtOne ==
  ASSUME TypeOK, Orderly, NEW w \in Workers,
         \A v \in Workers \ {w} : /\ pending'[v] = pending[v] /\ worker'[v] = worker[v]
                                  /\ inbox'[v] = inbox[v] /\ outbox'[v] = outbox[v],
         UNCHANGED <<signals, killed, open>>,
         (Submitting \/ At("close"))' => Submitting \/ At("close"),
         At("join")' => At("join"),
         At("start")' => UNCHANGED call /\ Pc(w) # "unborn",
         (Submitting \/ At("close"))' => ~Gone(w)' /\ Fifo(w)',
         At("join")' => Pc(w)' # "dead"
  PROVE  Orderly'
<1>1. \A v \in Workers \ {w} :
        Gone(v)' = Gone(v) /\ Pc(v)' = Pc(v) /\ (Fifo(v) => Fifo(v)')
  BY FifoSame DEF Gone, Pc, Busy, Computing, Answering
<1>2. At("start")' => \A v \in Workers : v >= call'.to => Pc(v)' = "unborn"
  BY <1>1 DEF Orderly, At
<1>3. (Submitting \/ Closing)' => Submitting \/ Closing
  BY DEF Closing, At, Submitting
<1>4. (Submitting \/ At("close"))' => \A v \in Workers : ~Gone(v)' /\ Fifo(v)'
  BY <1>1 DEF Orderly
<1>5. At("join")' => \A v \in Workers : Pc(v)' # "dead"
  BY <1>1 DEF Orderly
<1>6. (signals = {})' /\ ((Submitting \/ Closing)' => (killed = {} /\ open)')
  BY <1>3 DEF Orderly
<1> QED BY <1>2, <1>4, <1>5, <1>6 DEF Orderly

LEMMA OrderlyStart ==
  ASSUME TypeOK, Orderly, NEW w \in Workers, StartWorker(w)
  PROVE  Orderly'
<1>1. /\ At("start") /\ call.to = w /\ Move(w, "boot") /\ Submitting /\ Pc(w) = "unborn"
      /\ UNCHANGED <<pending, pipes, signals, killed, open>>
      /\ call' = IF w = WorkerCount THEN [call EXCEPT !.pc = "loop"] ELSE [call EXCEPT !.to = w + 1]
  <2>1. At("start") /\ call.to = w /\ Move(w, "boot")
    BY DEF StartWorker
  <2>2. Submitting /\ w \in Nat
    BY <2>1, NonEmpty DEF Submitting, At
  <2>3. Pc(w) = "unborn"
    BY <2>1, <2>2 DEF Orderly
  <2> QED BY <2>1, <2>2, <2>3 DEF StartWorker, history
<1>2. /\ \A v \in Workers : Fifo(v) /\ ~Gone(v)
      /\ killed = {} /\ open
      /\ \A v \in Workers : v >= call.to => Pc(v) = "unborn"
  BY <1>1 DEF Orderly
<1>3. \A v \in Workers : /\ worker'[v].job = worker[v].job
                         /\ Pc(v)' = IF v = w THEN "boot" ELSE Pc(v)
  BY <1>1 DEF TypeOK, Move, Pc
<1>4. \A v \in Workers : Fifo(v)' /\ ~Gone(v)'
  <2>1. \A v \in Workers : Busy(v)' = Busy(v) /\ ~Gone(v)'
    BY <1>1, <1>2, <1>3 DEF Busy, Computing, Answering, Gone
  <2> QED BY <1>1, <1>2, <1>3, <2>1, FifoSame DEF pipes
<1>5. At("start")' => \A v \in Workers : v >= call'.to => Pc(v)' = "unborn"
  <2>1. SUFFICES ASSUME At("start")', NEW v \in Workers, v >= call'.to PROVE Pc(v)' = "unborn"
    OBVIOUS
  <2>2. call'.to = w + 1
    BY <1>1, <2>1 DEF TypeOK, At
  <2>3. v # w /\ v >= call.to
    BY <1>1, <2>1, <2>2, NonEmpty
  <2> QED BY <1>2, <1>3, <2>3
<1>6. ~At("join")'
  BY <1>1 DEF TypeOK, At
<1>7. (signals = {})' /\ (killed = {} /\ open)'
  BY <1>1, <1>2 DEF Orderly
<1> QED BY <1>4, <1>5, <1>6, <1>7 DEF Orderly

LEMMA OrderlySend ==
  ASSUME TypeOK, Orderly, NEW w \in Workers, Send(w) \/ SendBulky(w)
  PROVE  Orderly'
<1>1. /\ At("send") /\ Submitting /\ call.job \in Jobs
      /\ UNCHANGED <<signals, killed, open, outbox>>
  BY DEF TypeOK, Send, SendBulky, history, pipes, Submitting, At
<1>2. /\ ~Gone(w) /\ Fifo(w)
      /\ pending[w] \in Seq(Jobs) /\ outbox[w] \in Seq(Responses)
      /\ inbox[w] \in Seq(Jobs \cup {Stop})
  BY <1>1 DEF Orderly, TypeOK
<1>3. Sent(w)
  BY <1>2 DEF Send, SendBulky
<1>4. /\ call'.pc = "loop"
      /\ pending'[w] = Append(pending[w], call.job)
      /\ \A v \in Workers \ {w} : pending'[v] = pending[v]
  BY <1>3 DEF Sent, Goto, TypeOK
<1>5. /\ \A v \in Workers \ {w} : worker'[v] = worker[v] /\ inbox'[v] = inbox[v]
      /\ ~Gone(w)' /\ Fifo(w)'
  <2>1. CASE Send(w)
    <3>1. worker' = worker /\ inbox' = [inbox EXCEPT ![w] = Append(@, call.job)]
      BY <2>1, <1>2 DEF Send
    <3>2. inbox'[w] = Append(inbox[w], call.job) /\ Busy(w) \in {0, 1} /\ Busy(w)' = Busy(w)
      BY <3>1 DEF TypeOK, Busy, Computing, Answering, Pc
    <3>3. InOrder(pending'[w], outbox[w], Busy(w), worker[w].job, inbox'[w])
      BY <1>1, <1>2, <1>4, <3>2, OrderedSend DEF Fifo
    <3> QED BY <1>1, <1>2, <3>1, <3>2, <3>3 DEF Fifo, Gone, Pc, TypeOK
  <2>2. CASE SendBulky(w)
    <3>1. /\ Pc(w) = "recv" /\ inbox[w] = <<>> /\ inbox' = inbox
          /\ worker' = [worker EXCEPT ![w] = [pc |-> "compute", job |-> call.job, kind |-> "result"]]
      BY <2>2 DEF SendBulky, pipes
    <3>2. worker'[w].pc = "compute" /\ worker'[w].job = call.job
      BY <3>1 DEF TypeOK
    <3>3. Busy(w) = 0 /\ Busy(w)' = 1
      BY <3>1, <3>2 DEF Busy, Computing, Answering, Pc
    <3>4. InOrder(pending[w], outbox[w], 0, worker[w].job, <<>>)
      BY <1>2, <3>1, <3>3 DEF Fifo
    <3>5. InOrder(pending'[w], outbox[w], 1, call.job, <<>>)
      BY <1>1, <1>2, <1>4, <3>4, OrderedSendBulky
    <3> QED BY <1>1, <3>1, <3>2, <3>3, <3>5 DEF Fifo, Gone, Pc, TypeOK
  <2> QED BY <2>1, <2>2
<1>6. ~At("join")' /\ ~At("start")' /\ (Submitting \/ At("close"))
  BY <1>1, <1>4 DEF At
<1> QED BY <1>1, <1>4, <1>5, <1>6, OrderlyAtOne

\* Without a fault what the parent receives is the result or the error it expects.
LEMMA CalmReceive ==
  ASSUME TypeOK, Orderly, Plain, Truthful, NEW w \in Workers, Receive(w)
  PROVE  /\ call'.pc = "loop" /\ call'.end = call.end /\ Fifo(w)' /\ ~Gone(w)'
         /\ \E r : /\ r.job = Head(pending[w]) /\ r.kind \in {"result", "error"} /\ Accept(r)
                   /\ ran[r.job] = r.kind
<1>1. /\ Submitting /\ At("loop") /\ ~Gone(w) /\ Fifo(w)
      /\ pending[w] \in Seq(Jobs) /\ outbox[w] \in Seq(Responses)
      /\ inbox[w] \in Seq(Jobs \cup {Stop}) /\ Busy(w) \in {0, 1}
  BY DEF Receive, Receives, Submitting, At, Orderly, TypeOK, Busy
<1>2. /\ pending[w] # <<>> /\ (outbox[w] # <<>> \/ Pushing(w))
      /\ pending' = [pending EXCEPT ![w] = Tail(@)] /\ inbox' = inbox
      /\ outbox' = IF outbox[w] # <<>> THEN [outbox EXCEPT ![w] = Tail(@)] ELSE outbox
      /\ IF outbox[w] = <<>> /\ Pushing(w) THEN Move(w, "recv") ELSE UNCHANGED worker
  BY <1>1 DEF Receive, Readable
<1>3. pending'[w] = Tail(pending[w])
  BY <1>2 DEF TypeOK
<1>4. /\ Fifo(w)' /\ ~Gone(w)'
      /\ \E r : /\ r.job = Head(pending[w]) /\ r.kind \in {"result", "error"} /\ Accept(r)
                /\ ran[r.job] = r.kind
  <2>1. CASE outbox[w] # <<>>
    <3> DEFINE r == Head(outbox[w])
    <3>1. /\ Head(pending[w]) = r.job
          /\ InOrder(Tail(pending[w]), Tail(outbox[w]), Busy(w), worker[w].job, inbox[w])
      BY <1>1, <2>1, OrderedReceive DEF Fifo
    <3>2. r.kind \in {"result", "error"} /\ ran[r.job] = r.kind
      <4>1. r = outbox[w][1] /\ 1 \in 1 .. Len(outbox[w])
        BY <1>1, <2>1, TailFacts
      <4> QED BY <4>1 DEF Plain
    <3>3. Accept(r)
      BY <2>1, <3>1, <3>2 DEF Receive
    <3>4. worker' = worker /\ outbox'[w] = Tail(outbox[w])
      BY <1>2, <2>1 DEF TypeOK
    <3>5. Busy(w)' = Busy(w) /\ ~Gone(w)'
      BY <1>1, <3>4 DEF Busy, Computing, Answering, Pc, Gone
    <3>6. Fifo(w)'
      BY <1>2, <1>3, <3>1, <3>4, <3>5 DEF Fifo
    <3> QED BY <3>1, <3>2, <3>3, <3>5, <3>6
  <2>2. CASE outbox[w] = <<>>
    <3> DEFINE r == [job |-> worker[w].job, kind |-> worker[w].kind]
    <3>1. Pushing(w) /\ Answering(w) /\ Busy(w) = 1
      BY <1>2, <2>2 DEF Pushing, Answering, Busy, Computing
    <3>2. /\ Head(pending[w]) = worker[w].job
          /\ InOrder(Tail(pending[w]), <<>>, 0, worker[w].job, inbox[w])
      BY <1>1, <2>2, <3>1, OrderedReceiveBulky DEF Fifo
    <3>3. /\ r.job = Head(pending[w]) /\ r.kind = "result" /\ Pc(w) = "push"
          /\ ran[worker[w].job] = worker[w].kind
      BY <3>1, <3>2 DEF Pushing, Truthful, Answering
    <3>4. Accept(r)
      BY <2>2, <3>3, <1>1 DEF Receive
    <3>5. Pc(w)' = "recv" /\ worker'[w].job = worker[w].job /\ outbox' = outbox
      BY <1>2, <2>2, <3>1 DEF Move, TypeOK, Pc
    <3>6. Busy(w)' = 0 /\ ~Gone(w)'
      BY <3>5 DEF Busy, Computing, Answering, Gone
    <3>7. Fifo(w)'
      BY <1>2, <1>3, <2>2, <3>2, <3>5, <3>6 DEF Fifo
    <3> QED BY <3>3, <3>4, <3>6, <3>7
  <2> QED BY <2>1, <2>2
<1>5. call'.pc = "loop" /\ call'.end = call.end
  <2>1. Goto("loop")
    BY <1>4 DEF Accept
  <2> QED BY <2>1 DEF Goto, TypeOK
<1> QED BY <1>4, <1>5

LEMMA OrderlyReceive ==
  ASSUME TypeOK, Orderly, Plain, Truthful, NEW w \in Workers, Receive(w)
  PROVE  Orderly'
<1>1. call'.pc = "loop" /\ Fifo(w)' /\ ~Gone(w)'
  BY CalmReceive
<1>2. /\ \A v \in Workers \ {w} : /\ pending'[v] = pending[v] /\ worker'[v] = worker[v]
                                  /\ inbox'[v] = inbox[v] /\ outbox'[v] = outbox[v]
      /\ UNCHANGED <<signals, killed, open>>
      /\ Submitting
  BY DEF Receive, Receives, Move, TypeOK, history, Submitting, At
<1> QED BY <1>1, <1>2, OrderlyAtOne DEF At

\* The workers' steps.
LEMMA OrderlyBoot ==
  ASSUME TypeOK, Orderly, NEW w \in Workers, Boot(w)
  PROVE  Orderly'
<1>1. /\ Pc(w) = "boot" /\ Move(w, "recv") /\ UNCHANGED <<parentVars, pipes, signals>>
  BY DEF Boot, ParentRests
<1>2. Pc(w)' = "recv" /\ worker'[w].job = worker[w].job
  BY <1>1 DEF Move, TypeOK, Pc
<1>3. ~Gone(w)' /\ (Fifo(w) => Fifo(w)')
  BY <1>1, <1>2, FifoSame DEF Busy, Computing, Answering, Gone, parentVars, pipes
<1>4. UNCHANGED <<call, killed, open, pending, inbox, outbox>>
  BY <1>1 DEF parentVars, pipes
<1>5. \A v \in Workers \ {w} : worker'[v] = worker[v]
  BY <1>1 DEF Move, TypeOK
<1>6. (Submitting \/ At("close"))' => Fifo(w)'
  BY <1>3, <1>4 DEF Orderly, Submitting, At
<1> QED BY <1>1, <1>2, <1>3, <1>4, <1>5, <1>6, OrderlyAtOne DEF Submitting, At

LEMMA OrderlyTake ==
  ASSUME TypeOK, Orderly, NEW w \in Workers, Take(w)
  PROVE  Orderly'
<1>1. /\ Pc(w) = "recv" /\ UNCHANGED <<call, killed, open, pending, outbox, signals>>
      /\ \A v \in Workers \ {w} : worker'[v] = worker[v] /\ inbox'[v] = inbox[v]
  BY DEF Take, ParentRests, parentVars, Move, TypeOK
<1>2. Pc(w)' \in {"exited", "compute"}
  BY DEF Take, Move, TypeOK, Pc
<1>3. ASSUME Submitting \/ At("close") PROVE ~Gone(w)' /\ Fifo(w)'
  <2>1. Fifo(w) /\ open /\ Busy(w) = 0
    BY <1>1, <1>3 DEF Orderly, Busy, Computing, Answering, Closing, At
  <2>2. /\ inbox[w] # <<>> /\ inbox' = [inbox EXCEPT ![w] = Tail(@)]
        /\ worker' = [worker EXCEPT ![w] =
             IF Head(inbox[w]) = Stop THEN [@ EXCEPT !.pc = "exited"]
             ELSE [pc |-> "compute", job |-> Head(inbox[w]), kind |-> "result"]]
    BY <2>1 DEF Take
  <2>3. /\ Head(inbox[w]) \in Jobs
        /\ InOrder(pending[w], outbox[w], 1, Head(inbox[w]), Tail(inbox[w]))
    BY <2>1, <2>2, OrderedTake DEF Fifo, TypeOK
  <2>4. /\ inbox'[w] = Tail(inbox[w])
        /\ worker'[w] = [pc |-> "compute", job |-> Head(inbox[w]), kind |-> "result"]
    BY <2>2, <2>3 DEF TypeOK, Jobs, Stop
  <2>5. Busy(w)' = 1 /\ ~Gone(w)'
    BY <2>4 DEF Busy, Computing, Answering, Gone, Pc
  <2> QED BY <1>1, <2>3, <2>4, <2>5 DEF Fifo
<1> QED BY <1>1, <1>2, <1>3, OrderlyAtOne DEF Submitting, At

LEMMA OrderlyCompute ==
  ASSUME TypeOK, Orderly, NEW w \in Workers, Compute(w)
  PROVE  Orderly'
<1>1. PICK kind \in {"result", "error"} : Computed(w, kind)
  BY DEF Compute
<1>2. /\ Pc(w) = "compute"
      /\ UNCHANGED <<call, killed, open, pending, inbox, outbox, signals>>
  BY DEF Compute, ParentRests, parentVars, pipes
<1>3. /\ \A v \in Workers \ {w} : worker'[v] = worker[v]
      /\ Pc(w)' = "push" /\ worker'[w].job = worker[w].job
  BY <1>1 DEF Computed, TypeOK, Pc
<1>4. Busy(w)' = Busy(w) /\ ~Gone(w)'
  BY <1>2, <1>3 DEF Busy, Computing, Answering, Gone
<1>5. Fifo(w) => Fifo(w)'
  BY <1>2, <1>3, <1>4, FifoSame
<1>6. (Submitting \/ At("close"))' => Fifo(w)'
  BY <1>2, <1>5 DEF Orderly, Submitting, At
<1> QED BY <1>2, <1>3, <1>4, <1>6, OrderlyAtOne DEF Submitting, At

LEMMA OrderlyPush ==
  ASSUME TypeOK, Orderly, NEW w \in Workers, Push(w)
  PROVE  Orderly'
<1>1. /\ Pc(w) = "push" /\ worker[w].job \in Jobs
      /\ UNCHANGED <<call, killed, open, pending, inbox, signals>>
  BY DEF Push, ParentRests, parentVars, TypeOK, Answering
<1>2. /\ \A v \in Workers \ {w} : worker'[v] = worker[v] /\ outbox'[v] = outbox[v]
      /\ worker'[w].job = worker[w].job /\ Pc(w)' \in {"recv", "exited"}
  BY DEF Push, Move, Respond, TypeOK, Pc
<1>3. ASSUME Submitting \/ At("close") PROVE ~Gone(w)' /\ Fifo(w)'
  <2> DEFINE r == Response(w, worker[w].kind)
  <2>1. Fifo(w) /\ open /\ Busy(w) = 1
    BY <1>1, <1>3 DEF Orderly, Busy, Computing, Answering, Closing, At
  <2>2. Respond(w, <<r>>) /\ Move(w, "recv")
    BY <2>1 DEF Push
  <2>3. r \in Responses /\ r.job = worker[w].job
    BY <1>1 DEF TypeOK, Responses, Response
  <2>4. outbox[w] \in Seq(Responses)
    BY DEF TypeOK
  <2>5. outbox'[w] = Append(outbox[w], r)
    BY <2>2, <2>3, <2>4, AppendFacts DEF Respond, TypeOK
  <2>6. Pc(w)' = "recv"
    BY <2>2 DEF Move, TypeOK, Pc
  <2>7. Busy(w)' = 0 /\ ~Gone(w)'
    BY <2>6 DEF Busy, Computing, Answering, Gone
  <2>8. InOrder(pending[w], Append(outbox[w], r), 0, worker[w].job, inbox[w])
    BY <2>1, <2>3, <2>4, OrderedPush DEF Fifo, TypeOK
  <2> QED BY <1>1, <1>2, <2>5, <2>7, <2>8 DEF Fifo
<1> QED BY <1>1, <1>2, <1>3, OrderlyAtOne DEF Submitting, At

LEMMA OrderlyKilled ==
  ASSUME TypeOK, Orderly, NEW w \in Workers, Killed(w)
  PROVE  Orderly'
<1>1. UNCHANGED <<call, signals>> /\ killed # {}
  BY DEF Killed, ParentRests, parentVars
<1>2. Ending'
  BY <1>1 DEF Orderly, Ending, Submitting, Closing
<1> QED BY <1>1, <1>2, OrderlyEnding

LEMMA OrderlyProceeds ==
  ASSUME TypeOK, Orderly, Plain, Truthful, Proceeds
  PROVE  Orderly'
<1>1. ASSUME NEW j \in Jobs, Submit(j) PROVE Orderly'
  <2>1. Submitting /\ UNCHANGED <<worker, pending, pipes, signals, killed, open>>
    BY <1>1 DEF Submit, Submitting, At, history
  <2>2. call'.pc = "send"
    BY <1>1, <2>1 DEF Submit, Orderly, FirstGone, TypeOK
  <2> QED BY <2>1, <2>2, OrderlyGoto DEF Submitting, At
<1>2. ASSUME LeaveLoop \/ Poll \/ RaiseForDeadWorkers PROVE Orderly'
  <2>1. Submitting /\ UNCHANGED <<worker, pending, pipes, signals, killed, open>>
    BY <1>2 DEF LeaveLoop, Poll, RaiseForDeadWorkers, Receives, Submitting, At, history
  <2>2. ~RaiseForDeadWorkers \/ Goto("loop")
    BY <2>1 DEF RaiseForDeadWorkers, Orderly
  <2>3. call'.pc \in {"close", "poll", "loop", "terminate"}
    BY <1>2, <2>2 DEF LeaveLoop, Poll, Goto, EndWith, TypeOK
  <2>4. CASE call'.pc = "terminate"
    BY <2>1, <2>4, OrderlyEnding DEF Ending, Submitting, Closing
  <2>5. CASE call'.pc \in {"close", "poll", "loop"}
    BY <2>1, <2>5, OrderlyGoto DEF Submitting, At
  <2> QED BY <2>3, <2>4, <2>5
<1>3. ASSUME Close PROVE Orderly'
  <2>1. /\ At("close") /\ UNCHANGED <<killed, open, worker, signals>>
        /\ \A w \in Workers : ~Gone(w)
    BY <1>3 DEF Close, Orderly, history
  <2>2. call'.pc = "join"
    BY <1>3, <2>1 DEF Close, Goto, TypeOK
  <2>3. \A w \in Workers : Pc(w)' # "dead"
    BY <2>1 DEF Gone, Pc
  <2> QED BY <2>1, <2>2, <2>3 DEF Orderly, Submitting, Closing, At
<1>4. ASSUME Join \/ Terminate \/ Reap PROVE Orderly'
  <2>1. UNCHANGED signals
    BY <1>4 DEF Join, Terminate, Reap, history
  <2>2. Ending'
    BY <1>4, EndingIs DEF Join, Terminate, Reap, Raise
  <2> QED BY <2>1, <2>2, OrderlyEnding
<1> QED BY <1>1, <1>2, <1>3, <1>4, OrderlyStart, OrderlySend, OrderlyReceive DEF Proceeds

LEMMA OrderlyStep ==
  ASSUME TypeOK, Orderly, Plain, Truthful, [Next]_vars, faults' = 0
  PROVE  Orderly'
<1>1. ASSUME UNCHANGED vars PROVE Orderly'
  BY <1>1 DEF vars, parentVars, pipes, Orderly, Submitting, Closing, At, Gone, Pc, Fifo, Busy,
     Computing, Answering
<1>2. ASSUME NEW w \in Workers, Works(w) PROVE Orderly'
  BY <1>2, OrderlyBoot, OrderlyTake, OrderlyCompute, OrderlyPush, OrderlyKilled DEF Works
<1> QED BY <1>1, <1>2, CalmStep, OrderlyProceeds

LEMMA OrderlyInit == Init => Orderly
<1> SUFFICES ASSUME Init PROVE Orderly
  OBVIOUS
<1>1. \A w \in Workers : /\ Pc(w) = "unborn" /\ pending[w] = <<>> /\ inbox[w] = <<>>
                         /\ outbox[w] = <<>>
  BY DEF Init, Unborn, Pc
<1>2. \A w \in Workers : ~Gone(w) /\ Busy(w) = 0
  BY <1>1 DEF Gone, Busy, Computing, Answering
<1>3. \A w \in Workers : Fifo(w)
  BY <1>1, <1>2, EmptySeq DEF Fifo, InOrder
<1>4. signals = {} /\ killed = {} /\ open /\ call.pc = "start"
  BY DEF Init
<1> QED BY <1>1, <1>2, <1>3, <1>4 DEF Orderly, At

\* Without a fault a worker is not interrupted, and nothing else disturbs an answer.
LEMMA PlainStep ==
  ASSUME TypeOK, Once, Orderly, Plain, Truthful, [Next]_vars, faults' = 0
  PROVE  Plain'
<1>1. signals = {}
  BY DEF Orderly
<1>2. ASSUME NEW w \in Workers, Answering(w)' PROVE worker'[w].kind \in {"result", "error"}
  <2>1. CASE Answering(w) /\ worker'[w] = worker[w]
    BY <2>1 DEF Plain
  <2>2. CASE \E kind \in Kinds : Pc(w) = "compute" /\ Computed(w, kind)
    <3>1. PICK kind \in Kinds : Pc(w) = "compute" /\ Computed(w, kind)
      BY <2>2
    <3>2. worker'[w].kind = kind /\ worker'[w].pc = "push"
      BY <3>1 DEF Computed, TypeOK
    <3>3. ran' # ran
      <4>1. worker[w].job \in Jobs /\ ran[worker[w].job] = "no"
        BY <3>1 DEF TypeOK, Once, Held, Current, Computing
      <4>2. ran'[worker[w].job] = kind
        BY <3>1, <4>1 DEF Computed, TypeOK
      <4> QED BY <4>1, <4>2 DEF Kinds
    <3>4. PICK v \in Workers, k \in Kinds : Pc(v) = "compute" /\ Computed(v, k) /\ k # "interrupted"
      BY <3>3, <1>1, ComputedOnce
    <3>5. v = w
      <4>1. v # w => worker'[w] = worker[w]
        BY <3>4 DEF Computed, TypeOK
      <4> QED BY <3>1, <3>2, <4>1 DEF Pc
    <3>6. k = kind
      BY <3>2, <3>4, <3>5 DEF Computed, TypeOK
    <3> QED BY <3>2, <3>4, <3>6 DEF Kinds
  <2> QED BY <1>2, <2>1, <2>2, AnswerStep
<1>3. ASSUME NEW w \in Workers, NEW n \in 1 .. Len(outbox'[w])
      PROVE  /\ outbox'[w][n].kind \in {"result", "error"}
             /\ ran'[outbox'[w][n].job] = outbox'[w][n].kind
  <2>1. CASE \E m \in 1 .. Len(outbox[w]) : outbox'[w][n] = outbox[w][m]
    <3>1. PICK m \in 1 .. Len(outbox[w]) : outbox'[w][n] = outbox[w][m]
      BY <2>1
    <3>2. outbox[w][m].kind \in {"result", "error"} /\ ran[outbox[w][m].job] = outbox[w][m].kind
      BY DEF Plain
    <3>3. outbox[w][m].job \in Jobs
      <4>1. outbox[w][m] \in Responses
        BY ElementOfSeq DEF TypeOK
      <4> QED BY <4>1 DEF Responses
    <3> QED BY <3>1, <3>2, <3>3, RanStays
  <2>2. CASE Pc(w) = "push" /\ UNCHANGED ran /\ outbox'[w][n] = Response(w, worker[w].kind)
    BY <2>2 DEF Plain, Truthful, Answering, Response
  <2> QED BY <1>1, <2>1, <2>2, OutboxValues
<1>4. ASSUME NEW j \in failures' PROVE ran'[j] = "error"
  <2>1. CASE j \in failures
    BY <2>1, RanStays DEF Plain, TypeOK
  <2>2. CASE j \notin failures
    <3>4. PICK w \in Workers :
            \E r : /\ Accept(r) /\ r.job \in Jobs /\ r.kind \in Kinds
                   /\ \/ \E n \in 1 .. Len(outbox[w]) : r = outbox[w][n]
                      \/ Answering(w) /\ r.job = worker[w].job /\ r.kind = worker[w].kind
      BY <1>4, <2>2, ReceivedStep
    <3>1. PICK r : /\ Accept(r) /\ r.job \in Jobs /\ r.kind \in Kinds
                   /\ \/ \E n \in 1 .. Len(outbox[w]) : r = outbox[w][n]
                      \/ Answering(w) /\ r.job = worker[w].job /\ r.kind = worker[w].kind
      BY <3>4
    <3>2. ran[r.job] = r.kind
      BY <3>1 DEF Plain, Truthful
    <3>3. r.kind = "error" /\ j = r.job
      BY <1>4, <2>2, <3>1 DEF Accept, Kinds
    <3> QED BY <3>1, <3>2, <3>3, RanStays
  <2> QED BY <2>1, <2>2
<1> QED BY <1>2, <1>3, <1>4 DEF Plain

LEMMA PlainInit == Init => Plain
<1> SUFFICES ASSUME Init PROVE Plain
  OBVIOUS
<1>1. \A w \in Workers : ~Answering(w) /\ Len(outbox[w]) = 0
  BY EmptySeq DEF Init, Unborn, Answering, Pc
<1>2. \A w \in Workers : 1 .. Len(outbox[w]) = {}
  BY <1>1
<1> QED BY <1>1, <1>2 DEF Plain, Init

\* A job comes to a worker by being sent to it, and in no other way.
LEMMA HeldStep ==
  ASSUME TypeOK, Once, Proceeds \/ (\E w \in Workers : Works(w)) \/ UNCHANGED vars,
         NEW v \in Workers
  PROVE  \/ Held(v)' \subseteq Held(v)
         \/ \E w \in Workers : /\ Send(w) \/ SendBulky(w)
                               /\ Held(v)' \subseteq Held(v) \cup {call.job}
<1>0. inbox[v] \in Seq(Jobs \cup {Stop}) /\ AskedOnce(inbox[v])
  BY HeldJobs DEF Once
<1>1. ASSUME UNCHANGED <<worker, inbox>> PROVE Held(v)' \subseteq Held(v)
  BY <1>1 DEF Held, Queued, Current, Computing, Pc
<1>2. ASSUME NEW w \in Workers, NEW pc \in WorkerPcs \ {"compute"}, Move(w, pc), UNCHANGED inbox
      PROVE  Held(v)' \subseteq Held(v)
  BY <1>2 DEF Move, TypeOK, Held, Queued, Current, Computing, Pc
<1>3. ASSUME NEW w \in Workers, Send(w) \/ SendBulky(w)
      PROVE  Held(v)' \subseteq Held(v) \cup {call.job}
  <2>1. CASE Send(w)
    <3>1. worker' = worker /\ call.job \in Jobs
      BY <2>1 DEF Send, TypeOK
    <3>2. inbox'[v] = inbox[v] \/ inbox'[v] = Append(inbox[v], call.job)
      BY <2>1 DEF Send, TypeOK
    <3>3. Queued(v)' \subseteq Queued(v) \cup {call.job}
      <4>1. CASE inbox'[v] = inbox[v]
        BY <4>1 DEF Queued
      <4>2. CASE inbox'[v] = Append(inbox[v], call.job)
        <5>1. /\ Len(inbox'[v]) = Len(inbox[v]) + 1 /\ Len(inbox[v]) \in Nat
              /\ \A n \in 1 .. Len(inbox[v]) : inbox'[v][n] = inbox[v][n]
              /\ inbox'[v][Len(inbox[v]) + 1] = call.job
          BY <1>0, <3>1, <4>2, AppendFacts
        <5>2. \A n \in 1 .. Len(inbox'[v]) : n \in 1 .. Len(inbox[v]) \/ n = Len(inbox[v]) + 1
          BY <5>1
        <5> QED BY <5>1, <5>2 DEF Queued, Asked
      <4> QED BY <3>2, <4>1, <4>2
    <3> QED BY <3>1, <3>3 DEF Held, Current, Computing, Pc
  <2>2. CASE SendBulky(w)
    <3>1. inbox' = inbox /\ worker' = [worker EXCEPT ![w] =
            [pc |-> "compute", job |-> call.job, kind |-> "result"]]
      BY <2>2 DEF SendBulky, pipes
    <3> QED BY <3>1 DEF TypeOK, Held, Queued, Current, Computing, Pc
  <2> QED BY <1>3, <2>1, <2>2
<1>4. ASSUME NEW w \in Workers, Take(w) PROVE Held(v)' \subseteq Held(v)
  <2>1. CASE inbox[w] = <<>>
    <3>1. Move(w, "exited") /\ UNCHANGED inbox /\ "exited" \in WorkerPcs \ {"compute"}
      BY <1>4, <2>1 DEF Take, WorkerPcs
    <3> QED BY <1>2, <3>1
  <2>2. CASE inbox[w] # <<>>
    <3>1. /\ inbox' = [inbox EXCEPT ![w] = Tail(@)]
          /\ worker' = [worker EXCEPT ![w] =
               IF Head(inbox[w]) = Stop THEN [@ EXCEPT !.pc = "exited"]
               ELSE [pc |-> "compute", job |-> Head(inbox[w]), kind |-> "result"]]
      BY <1>4, <2>2 DEF Take
    <3>2. CASE v = w
      <4>1. inbox'[w] = Tail(inbox[w])
        BY <3>1 DEF TypeOK
      <4>2. /\ Asked(Tail(inbox[w])) \subseteq Asked(inbox[w])
            /\ Head(inbox[w]) # Stop => Head(inbox[w]) \in Asked(inbox[w])
        BY <1>0, <2>2, <3>2, AskedTail
      <4>3. Current(w)' \subseteq IF Head(inbox[w]) = Stop THEN {} ELSE {Head(inbox[w])}
        BY <3>1 DEF TypeOK, Current, Computing, Pc
      <4> QED BY <3>2, <4>1, <4>2, <4>3 DEF Held, Queued
    <3>3. CASE v # w
      <4>1. inbox'[v] = inbox[v] /\ worker'[v] = worker[v]
        BY <3>1, <3>3 DEF TypeOK
      <4> QED BY <4>1 DEF Held, Queued, Current, Computing, Pc
    <3> QED BY <3>2, <3>3
  <2> QED BY <2>1, <2>2
<1>5. ASSUME NEW w \in Workers, Compute(w) PROVE Held(v)' \subseteq Held(v)
  <2>1. PICK kind \in {"result", "error"} : Computed(w, kind)
    BY <1>5 DEF Compute
  <2>2. Current(v)' \subseteq Current(v)
    BY <2>1 DEF Computed, TypeOK, Current, Computing, Pc
  <2>3. Queued(v)' = Queued(v)
    BY <1>5 DEF Compute, pipes, Queued
  <2> QED BY <2>2, <2>3 DEF Held
<1>6. ASSUME Close PROVE Held(v)' \subseteq Held(v)
  <2>1. inbox'[v] = inbox[v] \/ inbox'[v] = Append(inbox[v], Stop)
    BY <1>6 DEF Close
  <2>2. Queued(v)' = Queued(v)
    BY <1>0, <2>1, AskedAppend DEF Queued
  <2>3. Current(v)' = Current(v)
    BY <1>6 DEF Close, Current, Computing, Pc
  <2> QED BY <2>2, <2>3 DEF Held
<1>7. ASSUME NEW w \in Workers, StartWorker(w) \/ Receive(w) PROVE Held(v)' \subseteq Held(v)
  <2>1. UNCHANGED inbox /\ (Move(w, "boot") \/ Move(w, "recv") \/ UNCHANGED worker)
    BY <1>7 DEF StartWorker, Receive, pipes
  <2>2. {"boot", "recv"} \subseteq WorkerPcs \ {"compute"}
    BY DEF WorkerPcs
  <2> QED BY <1>1, <1>2, <2>1, <2>2
<1>8. ASSUME NEW w \in Workers, Boot(w) \/ Push(w) \/ Killed(w) PROVE Held(v)' \subseteq Held(v)
  <2>1. UNCHANGED inbox /\ (Move(w, "recv") \/ Move(w, "exited") \/ Move(w, "dead"))
    BY <1>8 DEF Boot, Push, Killed, pipes
  <2>2. {"recv", "exited", "dead"} \subseteq WorkerPcs \ {"compute"}
    BY DEF WorkerPcs
  <2> QED BY <1>2, <2>1, <2>2
<1>9. ASSUME (\E j \in Jobs : Submit(j)) \/ LeaveLoop \/ Poll \/ RaiseForDeadWorkers \/ Join
               \/ Terminate \/ Reap \/ UNCHANGED vars
      PROVE  Held(v)' \subseteq Held(v)
  <2>1. UNCHANGED <<worker, inbox>>
    BY <1>9 DEF Submit, LeaveLoop, Poll, RaiseForDeadWorkers, Join, Terminate, Reap, vars, pipes
  <2> QED BY <1>1, <2>1
<1> QED BY <1>3, <1>4, <1>5, <1>6, <1>7, <1>8, <1>9 DEF Proceeds, Works

\* A calm step of the parent, as far as it leaves the jobs where they are.
LEMMA ListsRest ==
  ASSUME TypeOK, Proceeds, \A w \in Workers : ~Send(w) /\ ~SendBulky(w) /\ ~Receive(w)
  PROVE  /\ UNCHANGED <<pending, results, failures, ran>>
         /\ (Submitting \/ Closing)' => Submitting \/ Closing
<1>1. UNCHANGED <<pending, results, failures, ran>>
  BY DEF Proceeds, StartWorker, Submit, LeaveLoop, Poll, RaiseForDeadWorkers, Close, Join,
     Terminate, Reap, history
<1>2. Terminate \/ Reap => ~Submitting' /\ ~Closing'
  BY DEF Terminate, Reap, Goto, TypeOK, Submitting, Closing
<1>3. ~Terminate /\ ~Reap => Submitting \/ Closing
  BY DEF Proceeds, StartWorker, Submit, LeaveLoop, Poll, RaiseForDeadWorkers, Close, Join,
     Receives, Submitting, Closing, At
<1> QED BY <1>1, <1>2, <1>3

LEMMA CalmSend ==
  ASSUME TypeOK, Orderly, NEW w \in Workers, Send(w) \/ SendBulky(w)
  PROVE  /\ Sent(w) /\ At("send") /\ call.job \in Jobs /\ call'.pc = "loop" /\ call'.end = call.end
         /\ UNCHANGED <<results, failures, ran>> /\ Awaited' = Awaited \cup {call.job}
<1>1. At("send") /\ call.job \in Jobs /\ UNCHANGED <<results, failures, ran>>
  BY DEF Send, SendBulky, TypeOK, history
<1>2. ~Gone(w)
  BY <1>1 DEF Orderly, Submitting, At
<1>3. Sent(w)
  BY <1>2 DEF Send, SendBulky
<1>4. call'.pc = "loop" /\ call'.end = call.end
  BY <1>3 DEF Sent, Goto, TypeOK
<1>5. Awaited' = Awaited \cup {call.job}
  BY <1>1, <1>3, AwaitedIs, AwaitedSent DEF Sent, TypeOK
<1> QED BY <1>1, <1>3, <1>4, <1>5

LEMMA FollowedStep ==
  ASSUME TypeOK, Once, Orderly, Plain, Truthful, Endgame, Followed, [Next]_vars, faults' = 0
  PROVE  Followed'
<1>0. pending \in [Workers -> Seq(Jobs)]
  BY DEF TypeOK
<1>1. ASSUME UNCHANGED <<pending, results, failures>>,
             (Submitting \/ Closing)' => Submitting \/ Closing,
             \A w \in Workers : Held(w)' \subseteq Held(w)
      PROVE  Followed'
  <2>1. Awaited' = Awaited
    BY <1>1, AwaitedIs
  <2>2. \A w \in Workers : Held(w)' \subseteq Awaited'
    BY <1>1, <2>1 DEF Followed
  <2>3. ASSUME NEW j \in Jobs, (Submitting \/ Closing)'
        PROVE  ran'[j] = "no" \/ j \in results' \cup failures' \cup Awaited'
    <3>1. CASE ran'[j] = ran[j]
      BY <1>1, <2>1, <2>3, <3>1 DEF Followed
    <3>2. CASE \E w \in Workers : j \in Current(w)
      BY <2>1, <3>2 DEF Followed, Held
    <3> QED BY <3>1, <3>2, ComputedOnce
  <2> QED BY <2>2, <2>3 DEF Followed
<1>2. ASSUME NEW u \in Workers, Send(u) \/ SendBulky(u) PROVE Followed'
  <2>1. /\ At("send") /\ UNCHANGED <<results, failures, ran>>
        /\ Awaited' = Awaited \cup {call.job}
    BY <1>2, CalmSend
  <2>2. \A w \in Workers : Held(w)' \subseteq Awaited'
    BY <1>2, <2>1, HeldStep DEF Followed, Proceeds
  <2>3. Submitting
    BY <2>1 DEF Submitting, At
  <2> QED BY <2>1, <2>2, <2>3 DEF Followed
<1>3. ASSUME NEW u \in Workers, Receive(u) PROVE Followed'
  <2>1. PICK r : /\ r.job = Head(pending[u]) /\ r.kind \in {"result", "error"} /\ Accept(r)
                 /\ ran[r.job] = r.kind
    BY <1>3, CalmReceive
  <2>2. /\ pending[u] # <<>> /\ pending' = [pending EXCEPT ![u] = Tail(@)]
        /\ UNCHANGED ran /\ At("loop")
    BY <1>3 DEF Receive, Receives, Readable, history
  <2>3. Awaited \subseteq Awaited' \cup {r.job}
    BY <1>0, <2>1, <2>2, AwaitedReceived, AwaitedIs
  <2>4. ASSUME NEW w \in Workers PROVE Held(w)' \subseteq Awaited'
    <3>1. Held(w)' \subseteq Held(w)
      <4>1. \A v \in Workers : ~Send(v) /\ ~SendBulky(v)
        BY <2>2 DEF Send, SendBulky, At
      <4> QED BY <1>3, <4>1, HeldStep DEF Proceeds
    <3>2. r.job \notin Held(w)
      BY <2>1 DEF Once
    <3>3. Held(w) \subseteq Awaited
      BY DEF Followed
    <3> QED BY <2>3, <3>1, <3>2, <3>3
  <2>5. results \cup failures \cup {r.job} \subseteq results' \cup failures'
    BY <2>1 DEF Accept
  <2>6. Submitting
    BY <2>2 DEF Submitting, At
  <2> QED BY <2>2, <2>3, <2>4, <2>5, <2>6 DEF Followed
<1>4. ASSUME Proceeds, \A w \in Workers : ~Send(w) /\ ~SendBulky(w) /\ ~Receive(w) PROVE Followed'
  <2>1. \A w \in Workers : Held(w)' \subseteq Held(w)
    BY <1>4, HeldStep
  <2> QED BY <1>1, <1>4, <2>1, ListsRest
<1>5. ASSUME (\E w \in Workers : Works(w)) \/ UNCHANGED vars PROVE Followed'
  <2>1. UNCHANGED <<call, pending, results, failures>>
    BY <1>5 DEF Works, Boot, Take, Compute, Push, Killed, ParentRests, parentVars, vars
  <2>2. (Submitting \/ Closing)' => Submitting \/ Closing
    BY <2>1 DEF Submitting, Closing
  <2>3. ASSUME NEW w \in Workers PROVE Held(w)' \subseteq Held(w)
    <3>1. CASE Held(w)' \subseteq Held(w)
      BY <3>1
    <3>2. CASE \E u \in Workers : Send(u) \/ SendBulky(u)
      <4>1. call'.pc = "loop" /\ At("send")
        BY <3>2, CalmSend
      <4> QED BY <2>1, <4>1 DEF At
    <3> QED BY <1>5, <3>1, <3>2, HeldStep
  <2> QED BY <1>1, <2>1, <2>2, <2>3
<1> QED BY <1>2, <1>3, <1>4, <1>5, CalmStep

LEMMA FollowedInit == Init => Followed
<1> SUFFICES ASSUME Init PROVE Followed
  OBVIOUS
<1>1. \A w \in Workers : inbox[w] = <<>> /\ ~Computing(w)
  BY DEF Init, Unborn, Computing, Pc
<1>2. \A w \in Workers : Asked(inbox[w]) = {}
  BY <1>1, EmptySeq DEF Asked
<1>3. \A w \in Workers : Held(w) = {}
  BY <1>1, <1>2 DEF Held, Queued, Current
<1>4. \A j \in Jobs : ran[j] = "no"
  BY DEF Init
<1> QED BY <1>3, <1>4 DEF Followed

\* The verdict, where it is passed, is about the lowest job that failed.
LEMMA VerdictBlames ==
  ASSUME TypeOK, Plain, Followed, Submitting \/ Closing, Verdict.kind = "failed",
         Decided \/ \A w \in Workers : pending[w] = <<>>
  PROVE  /\ ran[Verdict.job] = "error"
         /\ \A i \in Jobs : i < Verdict.job => i \in results \/ NeverSubmitted(i)
<1>0. pending \in [Workers -> Seq(Jobs)]
  BY DEF TypeOK
<1>1. /\ failures # {} /\ Verdict.job = Lowest(failures) /\ Verdict.job \in failures
      /\ \A i \in failures : Verdict.job <= i
  <2>1. failures # {} /\ Verdict.job \in failures /\ \A i \in failures : Verdict.job <= i
    BY VerdictFits
  <2> QED BY <2>1 DEF Verdict, Failed
<1>2. ran[Verdict.job] = "error"
  BY <1>1 DEF Plain
<1>3. ASSUME NEW i \in Jobs, i < Verdict.job PROVE i \in results \/ NeverSubmitted(i)
  <2>1. i \notin failures
    <3>1. i \in Nat /\ Verdict.job \in Nat
      BY <1>1, NonEmpty DEF TypeOK
    <3> QED BY <1>1, <1>3, <3>1
  <2>2. i \notin Awaited
    <3>1. SUFFICES ASSUME i \in Awaited PROVE FALSE
      OBVIOUS
    <3>2. PICK w \in Workers : \E n \in 1 .. Len(pending[w]) : pending[w][n] = i
      BY <1>0, <3>1, AwaitedIs, OfAwaited
    <3>3. PICK n \in 1 .. Len(pending[w]) : pending[w][n] = i
      BY <3>2
    <3>4. pending[w] # <<>> /\ DOMAIN pending[w] = 1 .. Len(pending[w])
      BY <1>0, <3>3, EmptySeq
    <3>5. PendingLower
      BY <1>1, <1>3, <3>3, <3>4 DEF PendingLower
    <3> QED BY <3>4, <3>5 DEF Decided
  <2> QED BY <2>1, <2>2 DEF Followed, NeverSubmitted
<1> QED BY <1>2, <1>3

\* Without a fault nothing but a verdict ends a call.
LEMMA CalmEnd ==
  ASSUME TypeOK, Orderly, Plain, Truthful, Proceeds
  PROVE  \/ call'.end = call.end
         \/ /\ call'.end = Verdict /\ UNCHANGED <<pending, results, ran>>
            /\ (LeaveLoop /\ Submitting /\ Decided) \/ (Join /\ Closing)
<1>1. ASSUME NEW w \in Workers, StartWorker(w) PROVE call'.end = call.end
  BY <1>1 DEF StartWorker, TypeOK
<1>2. ASSUME NEW w \in Workers, Send(w) \/ SendBulky(w) \/ Receive(w) PROVE call'.end = call.end
  BY <1>2, CalmSend, CalmReceive
<1>3. ASSUME (\E j \in Jobs : Submit(j)) \/ Poll \/ RaiseForDeadWorkers PROVE call'.end = call.end
  <2>1. \A w \in Workers : ~Gone(w)
    BY <1>3 DEF Submit, Poll, RaiseForDeadWorkers, Receives, Orderly, Submitting, At
  <2> QED BY <1>3, <2>1 DEF Submit, Poll, RaiseForDeadWorkers, FirstGone, Goto, TypeOK
<1>4. ASSUME Close \/ Terminate \/ Reap PROVE call'.end = call.end
  <2>1. Close => \A w \in Workers : ~Gone(w)
    BY DEF Close, Orderly
  <2> QED BY <1>4, <2>1 DEF Close, Terminate, Reap, Goto, TypeOK
<1>5. ASSUME LeaveLoop
      PROVE  \/ call'.end = call.end
             \/ call'.end = Verdict /\ UNCHANGED <<pending, results, ran>> /\ Submitting /\ Decided
  BY <1>5 DEF LeaveLoop, Goto, EndWith, TypeOK, Submitting, At, history
<1>6. ASSUME Join
      PROVE  call'.end = Verdict /\ UNCHANGED <<pending, results, ran>> /\ Closing
  <2>1. At("join") /\ Closing /\ \A w \in Workers : Pc(w) # "dead"
    BY <1>6 DEF Join, Orderly, Closing, At
  <2> QED BY <1>6, <2>1 DEF Join, TypeOK, history
<1> QED BY <1>1, <1>2, <1>3, <1>4, <1>5, <1>6 DEF Proceeds

LEMMA BlameStep ==
  ASSUME TypeOK, Once, Truthful, Accounted, Endgame, Orderly, Plain, Followed, Blame,
         [Next]_vars, faults' = 0
  PROVE  Blame'
<1>0. SUFFICES ASSUME call'.end.kind = "failed"
               PROVE  /\ ran'[call'.end.job] = "error"
                      /\ \A i \in Jobs : i < call'.end.job => i \in results' \/ NeverSubmitted(i)'
  BY DEF Blame
<1>1. ASSUME call'.end = call.end
      PROVE  /\ ran'[call'.end.job] = "error"
             /\ \A i \in Jobs : i < call'.end.job => i \in results' \/ NeverSubmitted(i)'
  <2>1. /\ call.end.kind = "failed" /\ call.end.job \in Jobs /\ ran[call.end.job] = "error"
        /\ ~Submitting /\ ~Closing
    BY <1>0, <1>1 DEF Blame, Endgame, None
  <2>2. UNCHANGED <<pending, results>>
    <3>1. ASSUME Proceeds PROVE UNCHANGED <<pending, results>>
      <4>1. \A w \in Workers : ~Send(w) /\ ~SendBulky(w) /\ ~Receive(w)
        BY <2>1 DEF Send, SendBulky, Receive, Receives, Submitting, At
      <4> QED BY <3>1, <4>1, ListsRest
    <3>2. ASSUME (\E w \in Workers : Works(w)) \/ UNCHANGED vars PROVE UNCHANGED <<pending, results>>
      BY <3>2 DEF Works, Boot, Take, Compute, Push, Killed, ParentRests, parentVars, vars
    <3> QED BY <3>1, <3>2, CalmStep
  <2>3. ASSUME NEW i \in Jobs, NeverSubmitted(i) PROVE NeverSubmitted(i)'
    <3>1. Awaited' = Awaited
      BY <2>2, AwaitedIs
    <3>2. \A w \in Workers : i \notin Current(w)
      BY <2>3 DEF NeverSubmitted, Followed, Held
    <3>3. ran'[i] = ran[i]
      BY <3>2, ComputedOnce
    <3> QED BY <2>3, <3>1, <3>3 DEF NeverSubmitted
  <2>4. ran'[call.end.job] = ran[call.end.job]
    BY <2>1, RanStays
  <2> QED BY <1>1, <2>1, <2>2, <2>3, <2>4 DEF Blame
<1>2. ASSUME Proceeds, call'.end # call.end
      PROVE  /\ ran'[call'.end.job] = "error"
             /\ \A i \in Jobs : i < call'.end.job => i \in results' \/ NeverSubmitted(i)'
  <2>1. /\ call'.end = Verdict /\ UNCHANGED <<pending, results, ran>>
        /\ Submitting \/ Closing
        /\ Decided \/ \A w \in Workers : pending[w] = <<>>
    BY <1>2, CalmEnd DEF Accounted
  <2>2. /\ ran[Verdict.job] = "error"
        /\ \A i \in Jobs : i < Verdict.job => i \in results \/ NeverSubmitted(i)
    BY <1>0, <2>1, VerdictBlames
  <2>3. Awaited' = Awaited
    BY <2>1, AwaitedIs
  <2> QED BY <2>1, <2>2, <2>3 DEF NeverSubmitted
<1>3. ASSUME (\E w \in Workers : Works(w)) \/ UNCHANGED vars PROVE call'.end = call.end
  BY <1>3 DEF Works, Boot, Take, Compute, Push, Killed, ParentRests, parentVars, vars
<1> QED BY <1>1, <1>2, <1>3, CalmStep

LEMMA FaultlessStep ==
  ASSUME TypeOK, Inv, [Next]_vars
  PROVE  Faultless'
<1> SUFFICES ASSUME faults' = 0 PROVE (Orderly /\ Plain /\ Followed /\ Blame)'
  BY DEF Faultless
<1>1. faults = 0
  <2>1. UNCHANGED faults \/ faults' = faults + 1
    BY DEF Next, Proceeds, StartWorker, Send, SendBulky, Receive, Submit, LeaveLoop, Poll,
       RaiseForDeadWorkers, Close, Join, Terminate, Reap, StartFails, JoinTimesOut, TakeNotice, Die,
       Interrupt, Works, Boot, Take, Compute, Push, Killed, TakeNoticeAtWork, WorkerDies, Fault,
       history, vars
  <2> QED BY <2>1 DEF TypeOK
<1>2. Orderly /\ Plain /\ Followed /\ Blame
  BY <1>1 DEF Inv, Faultless
<1> QED BY <1>2, OrderlyStep, PlainStep, FollowedStep, BlameStep DEF Inv

LEMMA InvStep == TypeOK /\ Inv /\ [Next]_vars => Inv'
BY OnceStep, TruthfulStep, AccountedStep, EndgameStep, FaultlessStep, WorkersEndStep DEF Inv

LEMMA InvInit == Init => Inv
<1> SUFFICES ASSUME Init PROVE Inv
  OBVIOUS
<1>1. Blame
  BY DEF Init, None, Blame
<1>2. WorkersEndFirst
  BY DEF Init, WorkersEndFirst, At
<1> QED BY <1>1, <1>2, OnceInit, TruthfulInit, AccountedInit, EndgameInit, OrderlyInit, PlainInit,
           FollowedInit DEF Inv, Faultless

\* No job is forgotten, answered twice or paired with another job's answer, and a
\* call without faults keeps the order in which each worker was given its jobs.
THEOREM InvHolds == Spec => [](TypeOK /\ Inv)
<1>1. TypeOK /\ Inv /\ [Next]_vars => (TypeOK /\ Inv)'
  BY TypeStep, InvStep
<1> QED BY <1>1, TypeInit, InvInit, PTL DEF Spec

-----------------------------------------------------------------------------
(* What a call ends with                                                       *)

\* run_file_jobs returns a list of results only when every job was computed to
\* its end exactly once, whatever died, was interrupted or answered twice.
THEOREM SuccessComplete == Spec => []SuccessIsComplete
<1>1. TypeOK /\ Inv => SuccessIsComplete
  BY DEF Inv, Endgame, Truthful, SuccessIsComplete, Ended
<1> QED BY <1>1, InvHolds, PTL

\* When run_file_jobs raises, no job below the one that it blames is known to
\* have failed; and in a call without a fault that job did fail, and each job
\* below it has a result or was never submitted.
THEOREM BlameIsRight == Spec => []BlamesLowestFailure
<1>1. TypeOK /\ Inv => BlamesLowestFailure
  <2> SUFFICES ASSUME TypeOK, Inv, Ended("failed")
               PROVE  /\ faults = 0 =>
                           /\ ran[call.end.job] = "error"
                           /\ \A i \in Jobs : i < call.end.job => i \in results \/ NeverSubmitted(i)
                      /\ \A i \in failures : call.end.job <= i
    BY DEF BlamesLowestFailure
  <2>1. \A i \in failures : call.end.job <= i
    BY DEF Inv, Endgame, Ended
  <2>2. faults = 0 => Blame
    BY DEF Inv, Faultless
  <2> QED BY <2>1, <2>2 DEF Ended, Blame
<1> QED BY <1>1, InvHolds, PTL

\* The artifacts of a call vanish after the last worker that uses them has ended,
\* unless an interrupt broke off the termination of the workers.
THEOREM WorkersEnd == Spec => []WorkersEndFirst
<1>1. TypeOK /\ Inv => WorkersEndFirst
  BY DEF Inv
<1> QED BY <1>1, InvHolds, PTL
=============================================================================
