---------------------------- MODULE StatusCache ----------------------------
(* The cached status summary that a shell prompt shows                        *)
(* (commands/status_cache.py, data/status_summary_cache.py), beside the       *)
(* commands of SessionLock that alter what it summarises.  The prompt never   *)
(* waits for the lock: it shows the cached entry and says whether a refresh   *)
(* is wanted, and a detached worker rebuilds the entry between two readings   *)
(* of the lock's generation.                                                  *)
(*                                                                            *)
(* A summary is not a value here but whether it still tells the truth: it is  *)
(* true when read and false once any command has altered the session state.   *)
EXTENDS SessionLock

CONSTANT MaxSessions   \* bound: sessions begun, each with a marker of its own

ASSUME SessionsAssumption == MaxSessions \in Nat \ {0}

VARIABLES
  marker,     \* identity of the session's marker file, 0 without a session
  sessions,   \* markers made so far
  requested,  \* the session's prompt has asked for a summary before
  entry,      \* the cache file
  reader,     \* what a prompt has read and has yet to compare
  due,        \* a command or a prompt is about to ask for a refresh
  slot,       \* holder of the refresh lock
  spawned,    \* a worker was started and has not tried the refresh lock yet
  worker,     \* the worker that has it
  prompted,   \* history: those whose action has been through a prompt
  murky       \* history: generations under which state changed twice

cacheVars == <<marker, sessions, requested, entry, reader, due, slot, spawned,
               worker, prompted, murky>>
files == <<marker, sessions, requested, prompted, murky>>

NoEntry == [marker |-> 0, gen |-> 0, exact |-> FALSE, true |-> FALSE]
NoWorker == [pc |-> "none", marker |-> 0, gen |-> 0, true |-> FALSE]

CacheInit ==
  /\ Init
  /\ marker = 1 /\ sessions = 1 /\ requested = FALSE
  /\ entry = NoEntry /\ reader = NoEntry
  /\ due = FALSE /\ slot = "free" /\ spawned = FALSE /\ worker = NoWorker
  /\ prompted = {} /\ murky = {}

-----------------------------------------------------------------------------
(* The commands                                                                *)

\* Every alteration makes all summaries read so far untrue.  Stopping a session
\* removes the marker, starting one makes a marker never seen before.
Alter(p) ==
  /\ Changes(p)
  /\ \/ UNCHANGED <<marker, sessions>>
     \/ marker # 0 /\ marker' = 0 /\ UNCHANGED sessions
     \/ /\ marker = 0 /\ sessions < MaxSessions
        /\ sessions' = sessions + 1 /\ marker' = sessions'
  /\ entry' = [entry EXCEPT !.true = FALSE]
  /\ reader' = [reader EXCEPT !.true = FALSE]
  /\ worker' = [worker EXCEPT !.true = FALSE]
  /\ murky' = IF p \in prompted THEN murky \cup {counter} ELSE murky
  /\ UNCHANGED <<requested, due, slot, spawned, prompted>>

\* The other steps of a command.  One that ends asks for a refresh, after it
\* has released the lock.
Proceed(p) ==
  /\ Keeps(p)
  /\ due' = (due \/ (Pc(p) \in {"act", "cleanup", "ask"} /\ Pc(p)' = "out"))
  /\ prompted' = CASE Pc(p)' = "prompt" -> prompted \cup {p}
                   [] Pc(p)' = "publish" -> prompted \ {p}
                   [] OTHER -> prompted
  /\ murky' = IF Pc(p) = "publish" /\ Pc(p)' = "out"
                THEN murky \cup 0 .. proc[p].gen ELSE murky
  /\ UNCHANGED <<marker, sessions, requested, entry, reader, slot, spawned, worker>>

\* The status command caches what it has read under the lock and alters nothing
\* (cache_exact_prompt_status_if_requested).
CacheExact(p) ==
  /\ p \notin Tuis /\ Pc(p) = "act" /\ proc[p].left = MaxWork
  /\ proc' = [proc EXCEPT ![p].left = 0]
  /\ requested /\ marker # 0
  /\ entry' = [marker |-> marker, gen |-> proc[p].gen, exact |-> TRUE, true |-> TRUE]
  /\ UNCHANGED <<counter, flock, child, stale, excused, started>>
  /\ UNCHANGED <<files, reader, due, slot, spawned, worker>>

-----------------------------------------------------------------------------
(* The prompt                                                                  *)

\* read_cached_prompt_status: an entry of another session is no entry.
Cached == entry # NoEntry /\ entry.marker = marker

IsCurrent(e) == e.exact /\ e.gen = counter

\* read_session_lock_generation_if_available, None while the lock is held.
Available == flock = None

\* Without an entry the prompt seeds one, marked as not exact, unless a command
\* runs meanwhile; it starts a refresh.
Seed ==
  /\ marker # 0 /\ reader = NoEntry /\ ~Cached
  /\ requested' = TRUE
  /\ IF Available
       THEN /\ entry' = [marker |-> marker, gen |-> counter, exact |-> FALSE,
                         true |-> TRUE]
            /\ due' = TRUE
       ELSE UNCHANGED <<entry, due>>
  /\ UNCHANGED <<vars, marker, sessions, prompted, murky, reader, slot, spawned, worker>>

ReadEntry ==
  /\ marker # 0 /\ reader = NoEntry /\ Cached
  /\ requested' = TRUE
  /\ reader' = entry
  /\ UNCHANGED <<vars, marker, sessions, prompted, murky, entry, due, slot, spawned, worker>>

\* A mistake: an exact entry is taken to be good, whatever its generation.
NeedsRefreshOnce == ~reader.exact

\* needs_refresh compares the entry read before with the generation read now.
NeedsRefresh == ~(Available /\ IsCurrent(reader))

ShowEntry ==
  /\ reader # NoEntry
  /\ due' = (due \/ NeedsRefresh)
  /\ reader' = NoEntry
  /\ UNCHANGED <<vars, files, entry, slot, spawned, worker>>

-----------------------------------------------------------------------------
(* The refresh                                                                 *)

\* request_status_summary_cache_refresh: the refresh lock is tried to see
\* whether a worker runs, and is held for that moment.
Request ==
  /\ due /\ due' = FALSE
  /\ slot' = IF /\ marker # 0 /\ requested /\ Available
                /\ ~(Cached /\ IsCurrent(entry))
                /\ slot = "free"
               THEN "probe" ELSE slot
  /\ UNCHANGED <<vars, files, entry, reader, spawned, worker>>

Spawn ==
  /\ slot = "probe" /\ slot' = "free"
  /\ spawned' = TRUE
  /\ UNCHANGED <<vars, files, entry, reader, due, worker>>

StartWorker ==
  /\ spawned /\ spawned' = FALSE
  /\ slot = "free" /\ marker # 0 /\ requested /\ Available
  /\ slot' = "worker"
  /\ worker' = [pc |-> "read", marker |-> marker, gen |-> counter, true |-> FALSE]
  /\ UNCHANGED <<vars, files, entry, reader, due>>

\* A worker that finds the refresh lock taken, by another one or by a probe,
\* ends; so does one that finds no session or the session lock held.
WorkerGivesUp ==
  /\ spawned /\ spawned' = FALSE
  /\ slot # "free" \/ marker = 0 \/ ~Available
  /\ UNCHANGED <<vars, files, entry, reader, due, slot, worker>>

\* The summary is read without the lock, from many files one after the other:
\* it is true if nothing alters them from the first to the last.
BeginSummary ==
  /\ worker.pc = "read"
  /\ worker' = [worker EXCEPT !.pc = "reading", !.true = TRUE]
  /\ UNCHANGED <<vars, files, entry, reader, due, slot, spawned>>

\* A mistake: the entry is given the generation found after the reading.
CompareNothing ==
  /\ worker.pc = "reading"
  /\ IF Available
       THEN /\ worker' = [worker EXCEPT !.pc = "write", !.gen = counter]
            /\ UNCHANGED slot
       ELSE worker' = NoWorker /\ slot' = "free"
  /\ UNCHANGED <<vars, files, entry, reader, due, spawned>>

CompareGeneration ==
  /\ worker.pc = "reading"
  /\ IF Available /\ counter = worker.gen /\ marker = worker.marker
       THEN worker' = [worker EXCEPT !.pc = "write"] /\ UNCHANGED slot
       ELSE worker' = NoWorker /\ slot' = "free"
  /\ UNCHANGED <<vars, files, entry, reader, due, spawned>>

WriteEntry ==
  /\ worker.pc = "write"
  /\ entry' = [marker |-> worker.marker, gen |-> worker.gen, exact |-> TRUE,
               true |-> worker.true]
  /\ worker' = NoWorker /\ slot' = "free"
  /\ UNCHANGED <<vars, files, reader, due, spawned>>

\* A worker dies or its reading fails: the kernel drops the refresh lock.
WorkerDies ==
  /\ worker # NoWorker
  /\ worker' = NoWorker /\ slot' = "free"
  /\ UNCHANGED <<vars, files, entry, reader, due, spawned>>

Commands == \E p \in Procs : Alter(p) \/ Proceed(p) \/ CacheExact(p)
PromptRead == Seed \/ ReadEntry \/ ShowEntry
Refresh == Request \/ Spawn \/ StartWorker \/ WorkerGivesUp \/ BeginSummary
           \/ CompareGeneration \/ WriteEntry

CacheNext == Commands \/ PromptRead \/ Refresh \/ WorkerDies

allVars == <<vars, cacheVars>>

CacheSpec == CacheInit /\ [][CacheNext]_allVars

\* The shell shows its prompt again and again, and workers run.  One that dies
\* each time refreshes nothing, and one that always starts while a probe has the
\* refresh lock does not either: both must come to pass in the end.
CacheFairness ==
  /\ WF_allVars(Seed \/ ReadEntry) /\ WF_allVars(ShowEntry)
  /\ WF_allVars(Request) /\ WF_allVars(Spawn) /\ SF_allVars(StartWorker)
  /\ SF_allVars(BeginSummary) /\ SF_allVars(CompareGeneration) /\ SF_allVars(WriteEntry)

FairCacheSpec == CacheSpec /\ CacheFairness

-----------------------------------------------------------------------------
(* Properties                                                                  *)

\* What the prompt would show as needing no refresh is true of the session as
\* it is now, for the entry in the file and for one read a moment ago, though
\* it was put together without the lock (refresh_status_summary_cache,
\* read_prompt_status_from_cache).  Not claimed for a generation under which a
\* command went on altering state after a prompt, or that a torn lock file
\* made to be issued twice.
CurrentEntryIsTrue ==
  \A e \in {entry, reader} :
    /\ e # NoEntry /\ e.marker = marker /\ Available /\ IsCurrent(e)
    /\ e.gen \notin murky
    => e.true

Settled == marker # 0 /\ requested /\ Available

\* When commands leave a session alone, its prompt comes to show a summary that
\* needs no refresh: a refresh given up, because a command ran beside it or
\* another one seemed to be running, is started again
\* (request_status_summary_cache_refresh, read_prompt_status_from_cache).
CacheCatchesUp == Settled ~> (Cached /\ IsCurrent(entry)) \/ ~Settled
=============================================================================
