----------------------------- MODULE SearchPool -----------------------------
(***************************************************************************)
(* The bounded pool of search threads (server/src/pool.rs): callers on the *)
(* async runtime, a bounded channel, worker threads that share one         *)
(* receiver, a shutdown, and the counters all of them move with relaxed    *)
(* atomic operations.  What one thread stores and counts back to back is   *)
(* one step.                                                               *)
(*                                                                         *)
(* execute() is one caller; its synchronous part cannot be dropped, its    *)
(* awaits can, when the client disconnects.  The durations are left out:   *)
(* a timer may fire at any time.                                           *)
(***************************************************************************)
EXTENDS Integers, Sequences, FiniteSets

CONSTANTS
  Request,   \* calls of execute
  Worker,    \* search threads
  MaxQueue,  \* capacity of the channel, at least 1 (config.rs)
  Nobody,    \* no worker holds the lock
  None       \* no job in hand

ASSUME PoolAssumption ==
  /\ IsFiniteSet(Request) /\ IsFiniteSet(Worker)
  /\ Worker # {}
  /\ MaxQueue \in Nat \ {0}
  /\ Nobody \notin Worker /\ None \notin Request

VARIABLES
  open,      \* the pool still holds its sender
  call,      \* where each caller is in execute
  answer,    \* what each caller was told
  started,   \* job_started of each job
  reply,     \* the oneshot channel of each job
  queue,     \* the jobs in the channel
  lock,      \* the worker holding the receiver's mutex, or Nobody
  worker,    \* where each worker is in worker_loop and the job it runs
  job,       \* the job each worker has in hand, or None
  queued, running, accepted, completed,
  rejectedFull, rejectedTimeout, panics   \* PoolMetrics

counters == <<queued, running, accepted, completed,
              rejectedFull, rejectedTimeout, panics>>
callers == <<call, answer>>
threads == <<lock, worker, job>>
vars == <<open, callers, started, reply, queue, threads, counters>>

Calls == {"new", "counted", "sent", "waiting", "extended", "ended"}
Answers == {"none", "Ok", "QueueFull", "QueueTimeout", "Failed", "dropped"}
Places == {"locking", "receiving", "claimed", "running", "completed", "unwound", "exited"}

Init ==
  /\ open = TRUE
  /\ call = [r \in Request |-> "new"]
  /\ answer = [r \in Request |-> "none"]
  /\ started = [r \in Request |-> FALSE]
  /\ reply = [r \in Request |-> "pending"]
  /\ queue = <<>>
  /\ lock = Nobody
  /\ worker = [w \in Worker |-> "locking"]
  /\ job = [w \in Worker |-> None]
  /\ queued = 0 /\ running = 0 /\ accepted = 0 /\ completed = 0
  /\ rejectedFull = 0 /\ rejectedTimeout = 0 /\ panics = 0

-----------------------------------------------------------------------------
(* execute                                                                   *)

Return(r, a) ==
  /\ call' = [call EXCEPT ![r] = "ended"]
  /\ answer' = [answer EXCEPT ![r] = a]

Step(r, from, to) ==
  /\ call[r] = from
  /\ call' = [call EXCEPT ![r] = to]
  /\ UNCHANGED answer

FindPoolClosed(r) ==
  /\ call[r] = "new"
  /\ ~open
  /\ Return(r, "Failed")
  /\ UNCHANGED <<open, started, reply, queue, threads, counters>>

\* The caller's clone of the sender, then the gauge, before the job is sent:
\* the worker that takes it away again can only follow.
Arrive(r) ==
  /\ open
  /\ Step(r, "new", "counted")
  /\ queued' = queued + 1
  /\ UNCHANGED <<open, started, reply, queue, threads, running, accepted,
                 completed, rejectedFull, rejectedTimeout, panics>>

\* Mutant: one job too many.
SendPastCapacity(r) ==
  /\ Len(queue) <= MaxQueue
  /\ Step(r, "counted", "sent")
  /\ queue' = Append(queue, r)
  /\ UNCHANGED <<open, started, reply, threads, counters>>

Send(r) ==
  /\ Len(queue) < MaxQueue
  /\ Step(r, "counted", "sent")
  /\ queue' = Append(queue, r)
  /\ UNCHANGED <<open, started, reply, threads, counters>>

Refuse(r) ==
  /\ call[r] = "counted"
  /\ Len(queue) = MaxQueue
  /\ queued' = queued - 1
  /\ rejectedFull' = rejectedFull + 1
  /\ Return(r, "QueueFull")
  /\ UNCHANGED <<open, started, reply, queue, threads, running, accepted,
                 completed, rejectedTimeout, panics>>

CountAccepted(r) ==
  /\ Step(r, "sent", "waiting")
  /\ accepted' = accepted + 1
  /\ UNCHANGED <<open, started, reply, queue, threads, queued, running,
                 completed, rejectedFull, rejectedTimeout, panics>>

\* Mutant: a dropped reply channel is taken for a value.
ReceiveAnything(r) ==
  /\ call[r] \in {"waiting", "extended"}
  /\ reply[r] # "pending"
  /\ Return(r, "Ok")
  /\ UNCHANGED <<open, started, reply, queue, threads, counters>>

\* Mutant: a dropped reply channel is never noticed.
ReceiveValues(r) ==
  /\ call[r] \in {"waiting", "extended"}
  /\ reply[r] = "sent" /\ Return(r, "Ok")
  /\ UNCHANGED <<open, started, reply, queue, threads, counters>>

Receive(r) ==
  /\ call[r] \in {"waiting", "extended"}
  /\ \/ reply[r] = "sent" /\ Return(r, "Ok")
     \/ reply[r] = "closed" /\ Return(r, "Failed")
  /\ UNCHANGED <<open, started, reply, queue, threads, counters>>

QueueTimer(r) ==
  /\ call[r] = "waiting"
  /\ IF started[r]
     THEN Step(r, "waiting", "extended") /\ UNCHANGED rejectedTimeout
     ELSE Return(r, "QueueTimeout") /\ rejectedTimeout' = rejectedTimeout + 1
  /\ UNCHANGED <<open, started, reply, queue, threads, queued, running,
                 accepted, completed, rejectedFull, panics>>

\* timeout() polls the receiver before its timer.
BudgetTimer(r) ==
  /\ call[r] = "extended"
  /\ reply[r] = "pending"
  /\ Return(r, "QueueTimeout")
  /\ UNCHANGED <<open, started, reply, queue, threads, counters>>

\* The client disconnects: the runtime drops the future at an await.
Drop(r) ==
  /\ call[r] \in {"waiting", "extended"}
  /\ Return(r, "dropped")
  /\ UNCHANGED <<open, started, reply, queue, threads, counters>>

-----------------------------------------------------------------------------
(* worker_loop and the job it runs                                           *)

Move(w, from, to) ==
  /\ worker[w] = from
  /\ worker' = [worker EXCEPT ![w] = to]

Lock(w) ==
  /\ lock = Nobody
  /\ Move(w, "locking", "receiving")
  /\ lock' = w
  /\ UNCHANGED <<open, callers, started, reply, queue, job, counters>>

\* recv, and the guard dropped at the end of its block.
Claim(w) ==
  /\ queue # <<>>
  /\ Move(w, "receiving", "claimed")
  /\ job' = [job EXCEPT ![w] = Head(queue)]
  /\ queue' = Tail(queue)
  /\ lock' = Nobody
  /\ UNCHANGED <<open, callers, started, reply, counters>>

\* A caller's clone lives until execute returns or is dropped.
SenderAlive == open \/ \E r \in Request : call[r] \notin {"new", "ended"}

\* Mutant: shutdown is a flag, not the last sender going away.
ExitOnceClosed(w) ==
  /\ queue = <<>>
  /\ ~open
  /\ Move(w, "receiving", "exited")
  /\ lock' = Nobody
  /\ UNCHANGED <<open, callers, started, reply, queue, job, counters>>

\* Mutant: the guard outlives the thread.
ExitHoldingLock(w) ==
  /\ queue = <<>>
  /\ ~SenderAlive
  /\ Move(w, "receiving", "exited")
  /\ UNCHANGED <<open, callers, started, reply, queue, lock, job, counters>>

Exit(w) ==
  /\ queue = <<>>
  /\ ~SenderAlive
  /\ Move(w, "receiving", "exited")
  /\ lock' = Nobody
  /\ UNCHANGED <<open, callers, started, reply, queue, job, counters>>

StartJob(w) ==
  /\ Move(w, "claimed", "running")
  /\ started' = [started EXCEPT ![job[w]] = TRUE]
  /\ queued' = queued - 1
  /\ running' = running + 1
  /\ UNCHANGED <<open, callers, reply, queue, lock, job, accepted,
                 completed, rejectedFull, rejectedTimeout, panics>>

TaskReturns(w) ==
  /\ Move(w, "running", "completed")
  /\ running' = running - 1
  /\ completed' = completed + 1
  /\ UNCHANGED <<open, callers, started, reply, queue, lock, job, queued,
                 accepted, rejectedFull, rejectedTimeout, panics>>

SendReply(w) ==
  /\ Move(w, "completed", "locking")
  /\ reply' = [reply EXCEPT ![job[w]] = "sent"]
  /\ job' = [job EXCEPT ![w] = None]
  /\ UNCHANGED <<open, callers, started, queue, lock, counters>>

\* The unwinding closure drops its end of the reply channel, so the caller may
\* know before the thread has caught the panic and counted it.
TaskPanics(w) ==
  /\ Move(w, "running", "unwound")
  /\ reply' = [reply EXCEPT ![job[w]] = "closed"]
  /\ UNCHANGED <<open, callers, started, queue, lock, job, counters>>

\* Mutant: a panic leaves the gauge up.
CatchPanicStillRunning(w) ==
  /\ Move(w, "unwound", "locking")
  /\ panics' = panics + 1
  /\ job' = [job EXCEPT ![w] = None]
  /\ UNCHANGED <<open, callers, started, reply, queue, lock, queued, running,
                 accepted, completed, rejectedFull, rejectedTimeout>>

CatchPanic(w) ==
  /\ Move(w, "unwound", "locking")
  /\ panics' = panics + 1
  /\ running' = running - 1
  /\ job' = [job EXCEPT ![w] = None]
  /\ UNCHANGED <<open, callers, started, reply, queue, lock, queued,
                 accepted, completed, rejectedFull, rejectedTimeout>>

-----------------------------------------------------------------------------
(* shutdown takes the sender, then joins the workers.                        *)

TakeSender ==
  /\ open
  /\ open' = FALSE
  /\ UNCHANGED <<callers, started, reply, queue, threads, counters>>

Joined == \A w \in Worker : worker[w] = "exited"

-----------------------------------------------------------------------------

Advance(r) ==
  \/ FindPoolClosed(r) \/ Arrive(r) \/ Send(r) \/ Refuse(r)
  \/ CountAccepted(r) \/ Receive(r) \/ QueueTimer(r) \/ BudgetTimer(r)

Work(w) ==
  \/ Claim(w) \/ Exit(w) \/ StartJob(w)
  \/ TaskReturns(w) \/ SendReply(w) \/ TaskPanics(w) \/ CatchPanic(w)

Next ==
  \/ TakeSender
  \/ \E r \in Request : Advance(r) \/ Drop(r)
  \/ \E w \in Worker : Lock(w) \/ Work(w)

Spec == Init /\ [][Next]_vars

(***************************************************************************)
(* A thread that can run does, a task returns or panics (a search enforces *)
(* its own deadline), timers fire, and an arrived caller goes on.  The     *)
(* mutex is not fair to any one worker, and no client must call, or hang   *)
(* up, or stop the pool.                                                   *)
(***************************************************************************)
Fairness ==
  /\ \A r \in Request : WF_vars(call[r] # "new" /\ Advance(r))
  /\ \A w \in Worker : WF_vars(Work(w))
  /\ WF_vars(\E w \in Worker : Lock(w))

FairSpec == Spec /\ Fairness

-----------------------------------------------------------------------------

CallsAt(S) == Cardinality({r \in Request : call[r] \in S})
WorkersAt(S) == Cardinality({w \in Worker : worker[w] \in S})
RepliesThat(s) == Cardinality({r \in Request : reply[r] = s})

(* The channel keeps its capacity, and only the lock's holder is inside recv. *)
TypeOK ==
  /\ open \in BOOLEAN
  /\ call \in [Request -> Calls]
  /\ answer \in [Request -> Answers]
  /\ started \in [Request -> BOOLEAN]
  /\ reply \in [Request -> {"pending", "sent", "closed"}]
  /\ queue \in Seq(Request) /\ Len(queue) <= MaxQueue
  /\ worker \in [Worker -> Places]
  /\ lock \in Worker \cup {Nobody}
  /\ \A w \in Worker : worker[w] = "receiving" <=> lock = w
  /\ job \in [Worker -> Request \cup {None}]
  /\ {queued, running, accepted, completed,
      rejectedFull, rejectedTimeout, panics} \subseteq Nat

(***************************************************************************)
(* The counters on /metrics add up at every instant, although each is      *)
(* moved by its own relaxed atomic on one of two threads: the gauges are   *)
(* the jobs on their way in and the tasks being run, so neither can wrap   *)
(* below zero and both return to zero at rest, after panics and timeouts   *)
(* too; and every admitted job is waiting, in hand, completed or panicked. *)
(***************************************************************************)
CountersBalance ==
  /\ queued = CallsAt({"counted"}) + Len(queue) + WorkersAt({"claimed"})
  /\ running = WorkersAt({"running", "unwound"})
  /\ accepted + CallsAt({"sent"}) =
       Len(queue) + WorkersAt({"claimed", "running", "unwound"})
         + completed + panics
  /\ completed = RepliesThat("sent") + WorkersAt({"completed"})
  /\ panics + WorkersAt({"unwound"}) = RepliesThat("closed")

(***************************************************************************)
(* A worker leaves only when no job waits and nobody can send one: neither *)
(* a panic nor a shutdown that races a caller costs a job its thread.      *)
(***************************************************************************)
WorkersStay ==
  (\E w \in Worker : worker[w] = "exited") => queue = <<>> /\ ~SenderAlive

(***************************************************************************)
(* The pool is a bounded service: see BoundedService.                      *)
(***************************************************************************)
Fate(r) ==
  CASE reply[r] = "sent" -> "finished"
    [] reply[r] = "closed" -> "panicked"
    [] reply[r] = "pending" /\ \E i \in DOMAIN queue : queue[i] = r -> "waiting"
    [] reply[r] = "pending" /\ \E w \in Worker : job[w] = r -> "running"
    [] answer[r] = "QueueFull" -> "refused"
    [] OTHER -> "new"

Service == INSTANCE BoundedService WITH
  fate <- [r \in Request |-> Fate(r)],
  answer <- [r \in Request |-> IF answer[r] = "dropped" THEN "none" ELSE answer[r]]

ServesAsPromised == Service!Spec

(* Every caller that arrives is answered, or has hung up: whether its job  *)
(* is refused, orphaned in the queue, slow, panicking or overtaken by the  *)
(* shutdown.  A caller arrives once, so in the end none is under way.      *)
Answered == <>[](\A r \in Request : call[r] \in {"new", "ended"})

Admitted(r) ==
  \/ call[r] \in {"sent", "waiting", "extended"}
  \/ answer[r] \in {"Ok", "QueueTimeout", "dropped"}

(* An admitted job runs, also when its caller gave up on it, its caller's  *)
(* client disconnected, or the pool is shutting down.                      *)
AdmittedRuns == <>[](\A r \in Request : Admitted(r) => reply[r] # "pending")

(* shutdown's joins return: the sender clones that keep the channel open   *)
(* all belong to callers that will end.                                    *)
ShutdownJoins == ~open ~> Joined
=============================================================================
