------------------------- MODULE SearchPool_proofs -------------------------
(***************************************************************************)
(* The search pool keeps its counters, its jobs and its threads, and is a  *)
(* bounded service, for every set of callers and workers and every         *)
(* capacity of the channel.                                                *)
(***************************************************************************)
EXTENDS SearchPool, CommonLemmas

-----------------------------------------------------------------------------
(* The invariant.  Where a job is: in the channel, in one worker's hands,   *)
(* or gone with its reply.                                                  *)

Holds(q, r) == \E i \in 1..Len(q) : q[i] = r
Distinct(q) == \A i, j \in 1..Len(q) : q[i] = q[j] => i = j

InQueue(r) == Holds(queue, r)
InHand(r) == \E w \in Worker : job[w] = r

\* A worker between jobs has none in hand, two workers never have the same,
\* and the reply of the job in hand is settled by this worker only.
JobsInHand ==
  /\ \A w \in Worker :
       /\ job[w] = None <=> worker[w] \in {"locking", "receiving", "exited"}
       /\ worker[w] \in {"claimed", "running", "completed"} => reply[job[w]] = "pending"
       /\ worker[w] = "unwound" => reply[job[w]] = "closed"
  /\ \A v, w \in Worker : job[v] = job[w] => v = w \/ job[v] = None

\* A job is in the channel once, unsettled, and then in nobody's hands.
JobsInQueue ==
  /\ Distinct(queue)
  /\ \A r \in Request : InQueue(r) => reply[r] = "pending" /\ ~InHand(r)

\* A caller that was not admitted has no job anywhere; the job of one that
\* waits is somewhere.
CallersAndJobs ==
  \A r \in Request :
    /\ call[r] = "ended" <=> answer[r] # "none"
    /\ call[r] \in {"new", "counted"} \/ answer[r] = "QueueFull" =>
         reply[r] = "pending" /\ ~InQueue(r) /\ ~InHand(r)
    /\ call[r] \in {"sent", "waiting", "extended"} =>
         reply[r] # "pending" \/ InQueue(r) \/ InHand(r)

IInv ==
  /\ TypeOK
  /\ CountersBalance
  /\ WorkersStay
  /\ JobsInHand
  /\ JobsInQueue
  /\ CallersAndJobs

-----------------------------------------------------------------------------
(* Counting.                                                                 *)

(* Sets that differ in one element differ by one in size.                  *)
LEMMA CountsDiffer ==
  ASSUME NEW A, NEW B, NEW x, IsFiniteSet(A), A \ {x} = B \ {x}
  PROVE  /\ Cardinality(A) \in Nat /\ Cardinality(B) \in Nat
         /\ Cardinality(B) + (IF x \in A THEN 1 ELSE 0)
              = Cardinality(A) + (IF x \in B THEN 1 ELSE 0)
<1>1. IsFiniteSet(A \ {x}) /\ IsFiniteSet((A \ {x}) \cup {x})
  BY FS_RemoveElement, FS_AddElement
<1>2. B \subseteq (A \ {x}) \cup {x}
  OBVIOUS
<1>3. IsFiniteSet(B)
  BY <1>1, <1>2, FS_Subset
<1>4. Cardinality(A) \in Nat /\ Cardinality(B) \in Nat
  BY <1>3, FS_CardinalityType
<1>5. /\ Cardinality(A \ {x}) = IF x \in A THEN Cardinality(A) - 1 ELSE Cardinality(A)
      /\ Cardinality(B \ {x}) = IF x \in B THEN Cardinality(B) - 1 ELSE Cardinality(B)
  BY <1>3, FS_RemoveElement
<1> QED BY <1>4, <1>5

\* How many x of D have f[x] in S.  The counts of CountersBalance are the
\* operators below, of the callers, of the workers and of the replies.
Count(D, f, S) == Cardinality({x \in D : f[x] \in S})

Held(q) == Len(q)
Counted(c) == Count(Request, c, {"counted"})
Sent(c) == Count(Request, c, {"sent"})
Claimed(p) == Count(Worker, p, {"claimed"})
Busy(p) == Count(Worker, p, {"running", "unwound"})
Laden(p) == Count(Worker, p, {"claimed", "running", "unwound"})
Reporting(p) == Count(Worker, p, {"completed"})
Unwound(p) == Count(Worker, p, {"unwound"})
Replied(a) == Count(Request, a, {"sent"})
Broken(a) == Count(Request, a, {"closed"})

Balance(c, q, p, a, queuedNow, runningNow, acceptedNow, completedNow, panicsNow) ==
  /\ queuedNow = Counted(c) + Held(q) + Claimed(p)
  /\ runningNow = Busy(p)
  /\ acceptedNow + Sent(c) = Held(q) + Laden(p) + completedNow + panicsNow
  /\ completedNow = Replied(a) + Reporting(p)
  /\ panicsNow + Unwound(p) = Broken(a)

(* CountersBalance, and its primed form, is a balance of the counters      *)
(* with the callers, the jobs and the workers.                             *)
LEMMA BalanceMeans ==
  /\ CountersBalance <=>
       Balance(call, queue, worker, reply, queued, running, accepted, completed, panics)
  /\ CountersBalance' <=>
       Balance(call', queue', worker', reply', queued', running', accepted',
               completed', panics')
<1>1. \A f, s : {r \in Request : f[r] \in {s}} = {r \in Request : f[r] = s}
  OBVIOUS
<1> QED
  BY <1>1 DEF CountersBalance, Balance, CallsAt, WorkersAt, RepliesThat, Count,
              Held, Counted, Sent, Claimed, Busy, Laden, Reporting, Unwound, Replied, Broken

(* One entry of a function changes: its old value's count loses one, its   *)
(* new value's count gains one.                                            *)
LEMMA CountMoves ==
  ASSUME NEW D, IsFiniteSet(D), NEW x \in D, NEW f, NEW g,
         \A y \in D : y # x => g[y] = f[y], NEW S
  PROVE  /\ Count(D, f, S) \in Nat /\ Count(D, g, S) \in Nat
         /\ Count(D, g, S) + (IF f[x] \in S THEN 1 ELSE 0)
              = Count(D, f, S) + (IF g[x] \in S THEN 1 ELSE 0)
<1> DEFINE A == {y \in D : f[y] \in S}
           B == {y \in D : g[y] \in S}
<1>1. IsFiniteSet(A)
  BY FS_Subset
<1>2. /\ A \ {x} = B \ {x} /\ (x \in A <=> f[x] \in S) /\ (x \in B <=> g[x] \in S)
      /\ Count(D, f, S) = Cardinality(A) /\ Count(D, g, S) = Cardinality(B)
  BY DEF Count
<1> HIDE DEF A, B
<1> QED BY <1>1, <1>2, CountsDiffer

CallMoved(c, d, r) ==
  /\ Counted(d) = Counted(c) + (IF d[r] = "counted" THEN 1 ELSE 0)
                             - (IF c[r] = "counted" THEN 1 ELSE 0)
  /\ Sent(d) = Sent(c) + (IF d[r] = "sent" THEN 1 ELSE 0)
                       - (IF c[r] = "sent" THEN 1 ELSE 0)

WorkerMoved(p, u, w) ==
  /\ Claimed(u) = Claimed(p) + (IF u[w] = "claimed" THEN 1 ELSE 0)
                             - (IF p[w] = "claimed" THEN 1 ELSE 0)
  /\ Busy(u) = Busy(p) + (IF u[w] \in {"running", "unwound"} THEN 1 ELSE 0)
                       - (IF p[w] \in {"running", "unwound"} THEN 1 ELSE 0)
  /\ Laden(u) = Laden(p) + (IF u[w] \in {"claimed", "running", "unwound"} THEN 1 ELSE 0)
                         - (IF p[w] \in {"claimed", "running", "unwound"} THEN 1 ELSE 0)
  /\ Reporting(u) = Reporting(p) + (IF u[w] = "completed" THEN 1 ELSE 0)
                                 - (IF p[w] = "completed" THEN 1 ELSE 0)
  /\ Unwound(u) = Unwound(p) + (IF u[w] = "unwound" THEN 1 ELSE 0)
                             - (IF p[w] = "unwound" THEN 1 ELSE 0)

ReplySettled(a, b, r) ==
  /\ Replied(b) = Replied(a) + (IF b[r] = "sent" THEN 1 ELSE 0)
                             - (IF a[r] = "sent" THEN 1 ELSE 0)
  /\ Broken(b) = Broken(a) + (IF b[r] = "closed" THEN 1 ELSE 0)
                           - (IF a[r] = "closed" THEN 1 ELSE 0)

(* The counts the balance is made of are natural numbers.                  *)
LEMMA CountsAreNatural ==
  ASSUME NEW c, NEW p, NEW a
  PROVE  /\ Counted(c) \in Nat /\ Sent(c) \in Nat
         /\ Claimed(p) \in Nat /\ Busy(p) \in Nat /\ Laden(p) \in Nat
         /\ Reporting(p) \in Nat /\ Unwound(p) \in Nat
         /\ Replied(a) \in Nat /\ Broken(a) \in Nat
<1>1. ASSUME NEW D, IsFiniteSet(D), NEW f, NEW S PROVE Count(D, f, S) \in Nat
  BY <1>1, FS_Subset, FS_CardinalityType DEF Count
<1> QED
  BY <1>1, PoolAssumption
     DEF Counted, Sent, Claimed, Busy, Laden, Reporting, Unwound, Replied, Broken

(* One caller goes on.                                                     *)
LEMMA CallMoves ==
  ASSUME NEW c, NEW d, NEW r \in Request, \A q \in Request : q # r => d[q] = c[q]
  PROVE  CallMoved(c, d, r)
<1>1. \A S : /\ Count(Request, c, S) \in Nat /\ Count(Request, d, S) \in Nat
             /\ Count(Request, d, S) + (IF c[r] \in S THEN 1 ELSE 0)
                  = Count(Request, c, S) + (IF d[r] \in S THEN 1 ELSE 0)
  BY PoolAssumption, CountMoves
<1> QED BY <1>1 DEF CallMoved, Counted, Sent

(* One worker goes on.                                                     *)
LEMMA WorkerMoves ==
  ASSUME NEW p, NEW u, NEW w \in Worker, \A v \in Worker : v # w => u[v] = p[v]
  PROVE  WorkerMoved(p, u, w)
<1>1. \A S : /\ Count(Worker, p, S) \in Nat /\ Count(Worker, u, S) \in Nat
             /\ Count(Worker, u, S) + (IF p[w] \in S THEN 1 ELSE 0)
                  = Count(Worker, p, S) + (IF u[w] \in S THEN 1 ELSE 0)
  BY PoolAssumption, CountMoves
<1>2. Claimed(u) = Claimed(p) + (IF u[w] = "claimed" THEN 1 ELSE 0)
                              - (IF p[w] = "claimed" THEN 1 ELSE 0)
  BY <1>1 DEF Claimed
<1>5. Reporting(u) = Reporting(p) + (IF u[w] = "completed" THEN 1 ELSE 0)
                                  - (IF p[w] = "completed" THEN 1 ELSE 0)
  BY <1>1 DEF Reporting
<1>6. Unwound(u) = Unwound(p) + (IF u[w] = "unwound" THEN 1 ELSE 0)
                              - (IF p[w] = "unwound" THEN 1 ELSE 0)
  BY <1>1 DEF Unwound
<1>3. Busy(u) = Busy(p) + (IF u[w] \in {"running", "unwound"} THEN 1 ELSE 0)
                        - (IF p[w] \in {"running", "unwound"} THEN 1 ELSE 0)
  BY <1>1 DEF Busy
<1>4. Laden(u) = Laden(p) + (IF u[w] \in {"claimed", "running", "unwound"} THEN 1 ELSE 0)
                          - (IF p[w] \in {"claimed", "running", "unwound"} THEN 1 ELSE 0)
  BY <1>1 DEF Laden
<1> QED BY <1>2, <1>3, <1>4, <1>5, <1>6 DEF WorkerMoved

(* One job's reply is settled.                                             *)
LEMMA ReplySettles ==
  ASSUME NEW a, NEW b, NEW r \in Request, \A q \in Request : q # r => b[q] = a[q]
  PROVE  ReplySettled(a, b, r)
<1>1. \A S : /\ Count(Request, a, S) \in Nat /\ Count(Request, b, S) \in Nat
             /\ Count(Request, b, S) + (IF a[r] \in S THEN 1 ELSE 0)
                  = Count(Request, a, S) + (IF b[r] \in S THEN 1 ELSE 0)
  BY PoolAssumption, CountMoves
<1> QED BY <1>1 DEF ReplySettled, Replied, Broken

-----------------------------------------------------------------------------
(* The counters.                                                             *)

(* What one step of the pool moves, it counts: the gauges and the totals   *)
(* of pool.rs agree with the callers, the channel and the workers after    *)
(* every step.                                                             *)
LEMMA CountersStep ==
  IInv /\ [Next]_vars => CountersBalance'
<1> DEFINE Goal == Balance(call', queue', worker', reply', queued', running',
                           accepted', completed', panics')
<1>0. SUFFICES ASSUME IInv, [Next]_vars PROVE Goal
  BY BalanceMeans
<1>t. /\ call \in [Request -> Calls] /\ worker \in [Worker -> Places]
      /\ reply \in [Request -> {"pending", "sent", "closed"}]
      /\ job \in [Worker -> Request \cup {None}]
      /\ queue \in Seq(Request)
  BY <1>0 DEF IInv, TypeOK
<1>c. Balance(call, queue, worker, reply, queued, running, accepted, completed, panics)
  BY <1>0, BalanceMeans DEF IInv
<1>i. /\ accepted \in Nat /\ completed \in Nat /\ panics \in Nat
      /\ queued \in Nat /\ running \in Nat
  BY <1>0 DEF IInv, TypeOK
<1>n. /\ Counted(call) \in Nat /\ Sent(call) \in Nat
      /\ Claimed(worker) \in Nat /\ Busy(worker) \in Nat /\ Laden(worker) \in Nat
      /\ Reporting(worker) \in Nat /\ Unwound(worker) \in Nat
      /\ Replied(reply) \in Nat /\ Broken(reply) \in Nat
  BY CountsAreNatural
<1>h. Held(queue) \in Nat
  BY <1>t DEF Held
<1>1. CASE TakeSender \/ UNCHANGED vars
  BY <1>1, <1>c DEF TakeSender, vars, callers, threads, counters
<1>2. ASSUME NEW r \in Request, FindPoolClosed(r) PROVE Goal
  <2>1. call[r] = "new"
    BY <1>2 DEF FindPoolClosed, Return
  <2>2. call'[r] = "ended" /\ \A q \in Request : q # r => call'[q] = call[q]
    BY <1>2, <1>t DEF FindPoolClosed, Return
  <2>3. CallMoved(call, call', r)
    BY <2>2, CallMoves
  <2>4. /\ Held(queue') = Held(queue)
        /\ UNCHANGED <<worker, reply, queued, running, accepted, completed, panics>>
    BY <1>2, <1>t DEF FindPoolClosed, Held, callers, threads, counters
  <2> QED BY <2>1, <2>2, <2>3, <2>4, <1>c, <1>i, <1>n, <1>h DEF CallMoved, Balance
<1>3. ASSUME NEW r \in Request, Arrive(r) PROVE Goal
  <2>1. call[r] = "new"
    BY <1>3 DEF Arrive, Step
  <2>2. call'[r] = "counted" /\ \A q \in Request : q # r => call'[q] = call[q]
    BY <1>3, <1>t DEF Arrive, Step
  <2>3. CallMoved(call, call', r)
    BY <2>2, CallMoves
  <2>4. /\ Held(queue') = Held(queue)
        /\ queued' = queued + 1
        /\ UNCHANGED <<worker, reply, running, accepted, completed, panics>>
    BY <1>3, <1>t DEF Arrive, Held, callers, threads, counters
  <2> QED BY <2>1, <2>2, <2>3, <2>4, <1>c, <1>i, <1>n, <1>h DEF CallMoved, Balance
<1>4. ASSUME NEW r \in Request, Send(r) PROVE Goal
  <2>1. call[r] = "counted"
    BY <1>4 DEF Send, Step
  <2>2. call'[r] = "sent" /\ \A q \in Request : q # r => call'[q] = call[q]
    BY <1>4, <1>t DEF Send, Step
  <2>3. CallMoved(call, call', r)
    BY <2>2, CallMoves
  <2>4. /\ Held(queue') = Held(queue) + 1
        /\ UNCHANGED <<worker, reply, queued, running, accepted, completed, panics>>
    BY <1>4, <1>t DEF Send, Held, callers, threads, counters
  <2> QED BY <2>1, <2>2, <2>3, <2>4, <1>c, <1>i, <1>n, <1>h DEF CallMoved, Balance
<1>5. ASSUME NEW r \in Request, Refuse(r) PROVE Goal
  <2>1. call[r] = "counted"
    BY <1>5 DEF Refuse, Return
  <2>2. call'[r] = "ended" /\ \A q \in Request : q # r => call'[q] = call[q]
    BY <1>5, <1>t DEF Refuse, Return
  <2>3. CallMoved(call, call', r)
    BY <2>2, CallMoves
  <2>4. /\ Held(queue') = Held(queue)
        /\ queued' = queued - 1
        /\ UNCHANGED <<worker, reply, running, accepted, completed, panics>>
    BY <1>5, <1>t DEF Refuse, Held, callers, threads, counters
  <2> QED BY <2>1, <2>2, <2>3, <2>4, <1>c, <1>i, <1>n, <1>h DEF CallMoved, Balance
<1>6. ASSUME NEW r \in Request, CountAccepted(r) PROVE Goal
  <2>1. call[r] = "sent"
    BY <1>6 DEF CountAccepted, Step
  <2>2. call'[r] = "waiting" /\ \A q \in Request : q # r => call'[q] = call[q]
    BY <1>6, <1>t DEF CountAccepted, Step
  <2>3. CallMoved(call, call', r)
    BY <2>2, CallMoves
  <2>4. /\ Held(queue') = Held(queue)
        /\ accepted' = accepted + 1
        /\ UNCHANGED <<worker, reply, queued, running, completed, panics>>
    BY <1>6, <1>t DEF CountAccepted, Held, callers, threads, counters
  <2> QED BY <2>1, <2>2, <2>3, <2>4, <1>c, <1>i, <1>n, <1>h DEF CallMoved, Balance
<1>7. ASSUME NEW r \in Request,
             Receive(r) \/ QueueTimer(r) \/ BudgetTimer(r) \/ Drop(r)
      PROVE  Goal
  <2>1. call[r] \in {"waiting", "extended"}
    BY <1>7 DEF Receive, QueueTimer, BudgetTimer, Drop, Step, Return
  <2>2. /\ call'[r] \in {"extended", "ended"}
        /\ \A q \in Request : q # r => call'[q] = call[q]
    BY <1>7, <1>t DEF Receive, QueueTimer, BudgetTimer, Drop, Step, Return
  <2>3. CallMoved(call, call', r)
    BY <2>2, CallMoves
  <2>4. UNCHANGED <<queue, worker, reply, queued, running, accepted, completed, panics>>
    BY <1>7 DEF Receive, QueueTimer, BudgetTimer, Drop, callers, threads, counters
  <2> QED BY <2>1, <2>2, <2>3, <2>4, <1>c, <1>i, <1>n, <1>h DEF CallMoved, Balance
<1>8. ASSUME NEW w \in Worker, Lock(w) PROVE Goal
  <2>1. worker[w] = "locking"
    BY <1>8 DEF Lock, Move
  <2>2. worker'[w] = "receiving" /\ \A v \in Worker : v # w => worker'[v] = worker[v]
    BY <1>8, <1>t DEF Lock, Move
  <2>3. WorkerMoved(worker, worker', w)
    BY <2>2, WorkerMoves
  <2>4. /\ Held(queue') = Held(queue)
        /\ UNCHANGED <<call, queued, running, accepted, completed, panics, reply>>
    BY <1>8, <1>t DEF Lock, Held, callers, threads, counters
  <2> QED BY <2>1, <2>2, <2>3, <2>4, <1>c, <1>i, <1>n, <1>h DEF WorkerMoved, Balance
<1>9. ASSUME NEW w \in Worker, Claim(w) PROVE Goal
  <2>1. worker[w] = "receiving"
    BY <1>9 DEF Claim, Move
  <2>2. worker'[w] = "claimed" /\ \A v \in Worker : v # w => worker'[v] = worker[v]
    BY <1>9, <1>t DEF Claim, Move
  <2>3. WorkerMoved(worker, worker', w)
    BY <2>2, WorkerMoves
  <2>4. /\ Held(queue') = Held(queue) - 1
        /\ UNCHANGED <<call, queued, running, accepted, completed, panics, reply>>
    BY <1>9, <1>t DEF Claim, Held, callers, threads, counters
  <2> QED BY <2>1, <2>2, <2>3, <2>4, <1>c, <1>i, <1>n, <1>h DEF WorkerMoved, Balance
<1>10. ASSUME NEW w \in Worker, Exit(w) PROVE Goal
  <2>1. worker[w] = "receiving"
    BY <1>10 DEF Exit, Move
  <2>2. worker'[w] = "exited" /\ \A v \in Worker : v # w => worker'[v] = worker[v]
    BY <1>10, <1>t DEF Exit, Move
  <2>3. WorkerMoved(worker, worker', w)
    BY <2>2, WorkerMoves
  <2>4. /\ Held(queue') = Held(queue)
        /\ UNCHANGED <<call, queued, running, accepted, completed, panics, reply>>
    BY <1>10, <1>t DEF Exit, Held, callers, threads, counters
  <2> QED BY <2>1, <2>2, <2>3, <2>4, <1>c, <1>i, <1>n, <1>h DEF WorkerMoved, Balance
<1>11. ASSUME NEW w \in Worker, StartJob(w) PROVE Goal
  <2>1. worker[w] = "claimed"
    BY <1>11 DEF StartJob, Move
  <2>2. worker'[w] = "running" /\ \A v \in Worker : v # w => worker'[v] = worker[v]
    BY <1>11, <1>t DEF StartJob, Move
  <2>3. WorkerMoved(worker, worker', w)
    BY <2>2, WorkerMoves
  <2>4. /\ Held(queue') = Held(queue)
        /\ queued' = queued - 1
        /\ running' = running + 1
        /\ UNCHANGED <<call, accepted, completed, panics, reply>>
    BY <1>11, <1>t DEF StartJob, Held, callers, threads, counters
  <2> QED BY <2>1, <2>2, <2>3, <2>4, <1>c, <1>i, <1>n, <1>h DEF WorkerMoved, Balance
<1>12. ASSUME NEW w \in Worker, TaskReturns(w) PROVE Goal
  <2>1. worker[w] = "running"
    BY <1>12 DEF TaskReturns, Move
  <2>2. worker'[w] = "completed" /\ \A v \in Worker : v # w => worker'[v] = worker[v]
    BY <1>12, <1>t DEF TaskReturns, Move
  <2>3. WorkerMoved(worker, worker', w)
    BY <2>2, WorkerMoves
  <2>4. /\ Held(queue') = Held(queue)
        /\ running' = running - 1
        /\ completed' = completed + 1
        /\ UNCHANGED <<call, queued, accepted, panics, reply>>
    BY <1>12, <1>t DEF TaskReturns, Held, callers, threads, counters
  <2> QED BY <2>1, <2>2, <2>3, <2>4, <1>c, <1>i, <1>n, <1>h DEF WorkerMoved, Balance
<1>13. ASSUME NEW w \in Worker, SendReply(w) PROVE Goal
  <2>1. worker[w] = "completed"
    BY <1>13 DEF SendReply, Move
  <2>2. worker'[w] = "locking" /\ \A v \in Worker : v # w => worker'[v] = worker[v]
    BY <1>13, <1>t DEF SendReply, Move
  <2>3. WorkerMoved(worker, worker', w)
    BY <2>2, WorkerMoves
  <2>4. /\ Held(queue') = Held(queue)
        /\ UNCHANGED <<call, queued, running, accepted, completed, panics>>
    BY <1>13, <1>t DEF SendReply, Held, callers, threads, counters
  <2>5. job[w] \in Request /\ reply[job[w]] = "pending"
    BY <1>0, <2>1, <1>t DEF IInv, JobsInHand
  <2>6. reply' = [reply EXCEPT ![job[w]] = "sent"]
    BY <1>13 DEF SendReply
  <2>7. reply'[job[w]] = "sent" /\ \A q \in Request : q # job[w] => reply'[q] = reply[q]
    BY <2>5, <2>6, <1>t
  <2>8. ReplySettled(reply, reply', job[w])
    BY <2>5, <2>7, ReplySettles
  <2> QED BY <2>1, <2>2, <2>3, <2>4, <2>5, <2>7, <2>8, <1>c, <1>i, <1>n, <1>h
             DEF WorkerMoved, ReplySettled, Balance
<1>14. ASSUME NEW w \in Worker, TaskPanics(w) PROVE Goal
  <2>1. worker[w] = "running"
    BY <1>14 DEF TaskPanics, Move
  <2>2. worker'[w] = "unwound" /\ \A v \in Worker : v # w => worker'[v] = worker[v]
    BY <1>14, <1>t DEF TaskPanics, Move
  <2>3. WorkerMoved(worker, worker', w)
    BY <2>2, WorkerMoves
  <2>4. /\ Held(queue') = Held(queue)
        /\ UNCHANGED <<call, queued, running, accepted, completed, panics>>
    BY <1>14, <1>t DEF TaskPanics, Held, callers, threads, counters
  <2>5. job[w] \in Request /\ reply[job[w]] = "pending"
    BY <1>0, <2>1, <1>t DEF IInv, JobsInHand
  <2>6. reply' = [reply EXCEPT ![job[w]] = "closed"]
    BY <1>14 DEF TaskPanics
  <2>7. reply'[job[w]] = "closed" /\ \A q \in Request : q # job[w] => reply'[q] = reply[q]
    BY <2>5, <2>6, <1>t
  <2>8. ReplySettled(reply, reply', job[w])
    BY <2>5, <2>7, ReplySettles
  <2> QED BY <2>1, <2>2, <2>3, <2>4, <2>5, <2>7, <2>8, <1>c, <1>i, <1>n, <1>h
             DEF WorkerMoved, ReplySettled, Balance
<1>15. ASSUME NEW w \in Worker, CatchPanic(w) PROVE Goal
  <2>1. worker[w] = "unwound"
    BY <1>15 DEF CatchPanic, Move
  <2>2. worker'[w] = "locking" /\ \A v \in Worker : v # w => worker'[v] = worker[v]
    BY <1>15, <1>t DEF CatchPanic, Move
  <2>3. WorkerMoved(worker, worker', w)
    BY <2>2, WorkerMoves
  <2>4. /\ Held(queue') = Held(queue)
        /\ running' = running - 1
        /\ panics' = panics + 1
        /\ UNCHANGED <<call, queued, accepted, completed, reply>>
    BY <1>15, <1>t DEF CatchPanic, Held, callers, threads, counters
  <2> QED BY <2>1, <2>2, <2>3, <2>4, <1>c, <1>i, <1>n, <1>h DEF WorkerMoved, Balance
<1> QED
  BY <1>0, <1>1, <1>2, <1>3, <1>4, <1>5, <1>6, <1>7, <1>8, <1>9, <1>10, <1>11, <1>12, <1>13, <1>14, <1>15
     DEF Next, Advance, Work

-----------------------------------------------------------------------------
(* The types.                                                                *)

(* A caller's step only touches the caller, the channel and the counters.  *)
LEMMA CallerStep ==
  ASSUME TypeOK, NEW r \in Request, Advance(r) \/ Drop(r)
  PROVE  /\ UNCHANGED <<open, started, reply, lock, worker, job>>
         /\ call' \in [Request -> Calls] /\ answer' \in [Request -> Answers]
         /\ queue' \in Seq(Request) /\ Len(queue') <= MaxQueue
         /\ {accepted', completed', rejectedFull', rejectedTimeout', panics'} \subseteq Nat
<1> USE DEF Return, Step, callers, threads, counters
<1>t. /\ call \in [Request -> Calls] /\ answer \in [Request -> Answers]
      /\ queue \in Seq(Request) /\ Len(queue) <= MaxQueue
      /\ {accepted, completed, rejectedFull, rejectedTimeout, panics} \subseteq Nat
  BY DEF TypeOK
<1>s. {"counted", "sent", "waiting", "extended", "ended"} \subseteq Calls
      /\ {"Ok", "QueueFull", "QueueTimeout", "Failed", "dropped"} \subseteq Answers
  BY DEF Calls, Answers
<1>1. CASE FindPoolClosed(r)  BY <1>t, <1>s, <1>1 DEF FindPoolClosed
<1>2. CASE Arrive(r)          BY <1>t, <1>s, <1>2 DEF Arrive
<1>3. CASE Send(r)
  <2>1. queue' \in Seq(Request) /\ Len(queue') <= MaxQueue
    BY <1>t, <1>3, PoolAssumption DEF Send
  <2> QED BY <2>1, <1>t, <1>s, <1>3 DEF Send
<1>4. CASE Refuse(r)          BY <1>t, <1>s, <1>4 DEF Refuse
<1>5. CASE CountAccepted(r)   BY <1>t, <1>s, <1>5 DEF CountAccepted
<1>6. CASE Receive(r)         BY <1>t, <1>s, <1>6 DEF Receive
<1>7. CASE QueueTimer(r)      BY <1>t, <1>s, <1>7 DEF QueueTimer
<1>8. CASE BudgetTimer(r)     BY <1>t, <1>s, <1>8 DEF BudgetTimer
<1>9. CASE Drop(r)            BY <1>t, <1>s, <1>9 DEF Drop
<1> QED
  BY <1>1, <1>2, <1>3, <1>4, <1>5, <1>6, <1>7, <1>8, <1>9 DEF Advance

(* A worker's step leaves the callers alone; the mutex stays with the one  *)
(* worker that is inside recv.                                             *)
LEMMA WorkerStep ==
  ASSUME TypeOK, NEW w \in Worker, Lock(w) \/ Work(w)
  PROVE  /\ UNCHANGED <<open, call, answer>>
         /\ started' \in [Request -> BOOLEAN]
         /\ reply' \in [Request -> {"pending", "sent", "closed"}]
         /\ queue' \in Seq(Request) /\ Len(queue') <= MaxQueue
         /\ worker' \in [Worker -> Places] /\ lock' \in Worker \cup {Nobody}
         /\ \A v \in Worker : worker'[v] = "receiving" <=> lock' = v
         /\ job' \in [Worker -> Request \cup {None}]
         /\ {accepted', completed', rejectedFull', rejectedTimeout', panics'} \subseteq Nat
<1> USE DEF Move, callers, threads, counters
<1>t. /\ worker \in [Worker -> Places] /\ lock \in Worker \cup {Nobody}
      /\ \A v \in Worker : worker[v] = "receiving" <=> lock = v
      /\ started \in [Request -> BOOLEAN]
      /\ reply \in [Request -> {"pending", "sent", "closed"}]
      /\ job \in [Worker -> Request \cup {None}]
      /\ queue \in Seq(Request) /\ Len(queue) <= MaxQueue
      /\ {accepted, completed, rejectedFull, rejectedTimeout, panics} \subseteq Nat
  BY DEF TypeOK
<1>s. {"locking", "receiving", "claimed", "running", "completed", "unwound", "exited"}
        \subseteq Places
  BY DEF Places
<1>n. Nobody \notin Worker
  BY PoolAssumption
<1>1. CASE Lock(w)         BY <1>t, <1>s, <1>n, <1>1 DEF Lock
<1>2. CASE Claim(w)
  <2>1. /\ queue' \in Seq(Request) /\ Len(queue') <= MaxQueue
        /\ Head(queue) \in Request
    BY <1>t, <1>2, PoolAssumption, HeadTailProperties DEF Claim
  <2> QED BY <2>1, <1>t, <1>s, <1>n, <1>2 DEF Claim
<1>3. CASE Exit(w)         BY <1>t, <1>s, <1>n, <1>3 DEF Exit
<1>4. CASE StartJob(w)     BY <1>t, <1>s, <1>n, <1>4 DEF StartJob
<1>5. CASE TaskReturns(w)  BY <1>t, <1>s, <1>n, <1>5 DEF TaskReturns
<1>6. CASE SendReply(w)    BY <1>t, <1>s, <1>n, <1>6 DEF SendReply
<1>7. CASE TaskPanics(w)   BY <1>t, <1>s, <1>n, <1>7 DEF TaskPanics
<1>8. CASE CatchPanic(w)   BY <1>t, <1>s, <1>n, <1>8 DEF CatchPanic
<1> QED
  BY <1>1, <1>2, <1>3, <1>4, <1>5, <1>6, <1>7, <1>8 DEF Work

(* The gauges are natural numbers because they are what they count.        *)
LEMMA TypeStep ==
  ASSUME TypeOK, CountersBalance', [Next]_vars
  PROVE  TypeOK'
<1>1. queued' \in Nat /\ running' \in Nat
  <2>1. Balance(call', queue', worker', reply', queued', running', accepted',
                completed', panics')
    BY BalanceMeans
  <2>2. /\ Counted(call') \in Nat /\ Claimed(worker') \in Nat /\ Busy(worker') \in Nat
    BY CountsAreNatural
  <2>3. Held(queue') \in Nat
    <3>1. queue' \in Seq(Request)
      <4>1. CASE \E r \in Request : Advance(r) \/ Drop(r)
        BY <4>1, CallerStep
      <4>2. CASE \E w \in Worker : Lock(w) \/ Work(w)
        BY <4>2, WorkerStep
      <4>3. CASE TakeSender \/ UNCHANGED vars
        BY <4>3 DEF TakeSender, vars, TypeOK
      <4> QED BY <4>1, <4>2, <4>3 DEF Next
    <3> QED BY <3>1 DEF Held
  <2> QED BY <2>1, <2>2, <2>3 DEF Balance
<1>2. CASE \E r \in Request : Advance(r) \/ Drop(r)
  BY <1>1, <1>2, CallerStep DEF TypeOK
<1>3. CASE \E w \in Worker : Lock(w) \/ Work(w)
  BY <1>1, <1>3, WorkerStep DEF TypeOK
<1>4. CASE TakeSender \/ UNCHANGED vars
  BY <1>4 DEF TakeSender, vars, callers, threads, counters, TypeOK
<1> QED BY <1>2, <1>3, <1>4 DEF Next

(* A worker that left leaves an empty channel that nobody can fill: a      *)
(* caller needs the pool's sender to come in, and its own to send.         *)
LEMMA WorkersStayStep ==
  ASSUME TypeOK, WorkersStay, [Next]_vars
  PROVE  WorkersStay'
<1> DEFINE Gone == queue = <<>> /\ ~SenderAlive
<1>1. ASSUME Gone PROVE Gone'
  <2>1. CASE TakeSender \/ UNCHANGED vars
    BY <1>1, <2>1 DEF TakeSender, vars, callers, threads, counters, SenderAlive
  <2>2. CASE \E r \in Request : Advance(r) \/ Drop(r)
    <3>1. PICK r \in Request : Advance(r) \/ Drop(r)
      BY <2>2
    <3>2. ~open /\ call[r] \in {"new", "ended"}
      BY <1>1 DEF SenderAlive
    <3>3. FindPoolClosed(r)
      BY <3>1, <3>2 DEF Advance, Arrive, Send, Refuse, CountAccepted, Receive,
                        QueueTimer, BudgetTimer, Drop, Step
    <3>4. /\ UNCHANGED <<open, queue>>
          /\ \A q \in Request : call'[q] = IF q = r THEN "ended" ELSE call[q]
      BY <3>3 DEF FindPoolClosed, Return, TypeOK
    <3> QED BY <1>1, <3>4 DEF SenderAlive
  <2>3. CASE \E w \in Worker : Lock(w) \/ Work(w)
    <3>1. PICK w \in Worker : Lock(w) \/ Work(w)
      BY <2>3
    <3>2. UNCHANGED <<open, call>>
      BY <3>1, WorkerStep
    <3>3. UNCHANGED queue
      BY <1>1, <3>1 DEF Lock, Work, Claim, Exit, StartJob, TaskReturns, SendReply,
                        TaskPanics, CatchPanic, counters
    <3> QED BY <1>1, <3>2, <3>3 DEF SenderAlive
  <2> QED BY <2>1, <2>2, <2>3 DEF Next
<1>2. ASSUME NEW w \in Worker, worker[w] # "exited", worker'[w] = "exited" PROVE Gone
  <2>1. CASE TakeSender \/ UNCHANGED vars
    BY <1>2, <2>1 DEF TakeSender, vars, threads
  <2>2. CASE \E r \in Request : Advance(r) \/ Drop(r)
    BY <1>2, <2>2, CallerStep
  <2>3. CASE \E v \in Worker : Lock(v) \/ Work(v)
    <3>1. PICK v \in Worker : Lock(v) \/ Work(v)
      BY <2>3
    <3>2. ~Exit(v) => worker'[w] = worker[w] \/ worker'[w] # "exited"
      BY <3>1 DEF TypeOK, Lock, Work, Claim, StartJob, TaskReturns, SendReply,
                  TaskPanics, CatchPanic, Move
    <3> QED BY <1>2, <3>2 DEF Exit
  <2> QED BY <2>1, <2>2, <2>3 DEF Next
<1> QED BY <1>1, <1>2 DEF WorkersStay

-----------------------------------------------------------------------------
(* Where the jobs are.                                                       *)

(* A job sent is in the channel behind the others.                         *)
LEMMA Sending ==
  ASSUME NEW S, NEW q \in Seq(S), NEW e \in S
  PROVE  /\ \A x : Holds(Append(q, e), x) <=> Holds(q, x) \/ x = e
         /\ Distinct(q) /\ ~Holds(q, e) => Distinct(Append(q, e))
<1> DEFINE a == Append(q, e)
<1>1. /\ Len(a) = Len(q) + 1 /\ Len(q) \in Nat
      /\ \A i \in 1..Len(q) : a[i] = q[i]
      /\ a[Len(q) + 1] = e
  OBVIOUS
<1> HIDE DEF a
<1>2. \A i : i \in 1..Len(a) <=> i \in 1..Len(q) \/ i = Len(q) + 1
  BY <1>1
<1>3. \A x : Holds(a, x) <=> Holds(q, x) \/ x = e
  BY <1>1, <1>2, Zenon DEF Holds
<1>4. Distinct(q) /\ ~Holds(q, e) => Distinct(a)
  BY <1>1, <1>2 DEF Holds, Distinct
<1> QED BY <1>3, <1>4 DEF a

(* The job received was in the channel, and no longer is.                  *)
LEMMA Receiving ==
  ASSUME NEW S, NEW q \in Seq(S), q # <<>>, Distinct(q)
  PROVE  /\ Head(q) \in S /\ Holds(q, Head(q)) /\ Distinct(Tail(q))
         /\ \A x : Holds(Tail(q), x) <=> Holds(q, x) /\ x # Head(q)
<1> DEFINE h == Head(q)
           t == Tail(q)
<1>1. /\ Len(q) \in Nat /\ 1 \in 1..Len(q) /\ h = q[1] /\ h \in S
      /\ Len(t) = Len(q) - 1
      /\ \A i \in 1..Len(t) : t[i] = q[i + 1] /\ i + 1 \in 1..Len(q) /\ i + 1 # 1
      /\ \A i \in 1..Len(q) : i # 1 => i - 1 \in 1..Len(t) /\ t[i - 1] = q[i]
  OBVIOUS
<1> HIDE DEF h, t
<1>2. Holds(q, h)
  BY <1>1 DEF Holds
<1>3. Distinct(t)
  <2>1. ASSUME NEW i \in 1..Len(t), NEW j \in 1..Len(t), t[i] = t[j] PROVE i = j
    <3>1. i + 1 = j + 1
      BY <1>1, <2>1 DEF Distinct
    <3> QED BY <3>1
  <2> QED BY <2>1 DEF Distinct
<1>4. ASSUME NEW x, Holds(t, x) PROVE Holds(q, x) /\ x # h
  <2>1. PICK i \in 1..Len(t) : t[i] = x
    BY <1>4 DEF Holds
  <2>2. q[i + 1] = x /\ i + 1 \in 1..Len(q) /\ i + 1 # 1
    BY <1>1, <2>1
  <2> QED BY <1>1, <2>2 DEF Holds, Distinct
<1>5. ASSUME NEW x, Holds(q, x), x # h PROVE Holds(t, x)
  <2>1. PICK i \in 1..Len(q) : q[i] = x
    BY <1>5 DEF Holds
  <2>2. i # 1
    BY <2>1, <1>5, <1>1
  <2> QED BY <1>1, <2>1, <2>2 DEF Holds
<1> QED BY <1>1, <1>2, <1>3, <1>4, <1>5 DEF h, t

(* A caller takes no job from the channel or from a worker, and brings its *)
(* own only when it had none anywhere.                                     *)
LEMMA CallerKeepsJobs ==
  ASSUME IInv, NEW r \in Request, Advance(r) \/ Drop(r)
  PROVE  JobsInHand' /\ JobsInQueue' /\ CallersAndJobs'
<1> USE DEF Return, Step
<1>t. /\ call \in [Request -> Calls] /\ answer \in [Request -> Answers]
      /\ queue \in Seq(Request)
  BY DEF IInv, TypeOK
<1>u. UNCHANGED <<reply, worker, job>>
  BY CallerStep DEF IInv
<1>1. \A q \in Request \ {r} : call'[q] = call[q] /\ answer'[q] = answer[q]
  BY <1>t DEF Advance, Drop, FindPoolClosed, Arrive, Send, Refuse, CountAccepted,
              Receive, QueueTimer, BudgetTimer
<1>2. \/ call[r] = "counted" /\ queue' = Append(queue, r)
         /\ call'[r] = "sent" /\ answer'[r] = answer[r]
      \/ queue' = queue
         /\ \/ call[r] = "new" /\ call'[r] = "counted" /\ answer'[r] = answer[r]
            \/ /\ call[r] \in {"sent", "waiting"} /\ call'[r] \in {"waiting", "extended"}
               /\ answer'[r] = answer[r]
            \/ /\ call[r] \in {"new", "counted"}
               /\ call'[r] = "ended" /\ answer'[r] \in {"Failed", "QueueFull"}
            \/ /\ call[r] \in {"waiting", "extended"}
               /\ call'[r] = "ended" /\ answer'[r] \in {"Ok", "Failed", "QueueTimeout", "dropped"}
  <2>1. CASE Send(r)  BY <2>1, <1>t DEF Send
  <2>2. CASE Arrive(r) \/ FindPoolClosed(r) \/ Refuse(r)
    BY <2>2, <1>t DEF Arrive, FindPoolClosed, Refuse
  <2>3. CASE CountAccepted(r) \/ QueueTimer(r)
    BY <2>3, <1>t DEF CountAccepted, QueueTimer
  <2>4. CASE Receive(r) \/ BudgetTimer(r) \/ Drop(r)
    BY <2>4, <1>t DEF Receive, BudgetTimer, Drop
  <2> QED BY <2>1, <2>2, <2>3, <2>4 DEF Advance
<1>3. \A q \in Request : call[q] = "ended" <=> answer[q] # "none"
  BY DEF IInv, CallersAndJobs
<1>4. \A q : InHand(q)' <=> InHand(q)
  BY <1>u DEF InHand
<1>5. JobsInHand'
  BY <1>u DEF IInv, JobsInHand
<1>6. CASE queue' = queue
  <2>1. JobsInQueue'
    BY <1>4, <1>6, <1>u DEF IInv, JobsInQueue, InQueue
  <2>2. ASSUME NEW q \in Request \ {r}
        PROVE  /\ call'[q] = call[q] /\ answer'[q] = answer[q] /\ reply'[q] = reply[q]
               /\ (InQueue(q)' <=> InQueue(q)) /\ (InHand(q)' <=> InHand(q))
    BY <1>1, <1>4, <1>6, <1>u DEF InQueue
  <2>3. /\ call'[r] = "ended" <=> answer'[r] # "none"
        /\ call'[r] \in {"new", "counted"} \/ answer'[r] = "QueueFull" =>
             call[r] \in {"new", "counted"} \/ answer[r] = "QueueFull"
        /\ call'[r] \in {"sent", "waiting", "extended"} =>
             call[r] \in {"sent", "waiting", "extended"}
    BY <1>2, <1>3, <1>6
  <2>4. CallersAndJobs'
    BY <2>2, <2>3, <1>4, <1>6, <1>u DEF IInv, CallersAndJobs, InQueue
  <2> QED BY <1>5, <2>1, <2>4
<1>7. CASE queue' # queue
  <2>1. /\ call[r] = "counted" /\ queue' = Append(queue, r)
        /\ call'[r] = "sent" /\ answer'[r] = answer[r]
    BY <1>2, <1>7
  <2>2. reply[r] = "pending" /\ ~InQueue(r) /\ ~InHand(r)
    BY <2>1 DEF IInv, CallersAndJobs
  <2>3. /\ \A q : Holds(queue', q) <=> Holds(queue, q) \/ q = r
        /\ Distinct(queue')
    BY <1>t, <2>1, <2>2, Sending DEF InQueue, IInv, JobsInQueue
  <2>4. JobsInQueue'
    BY <1>4, <1>u, <2>2, <2>3 DEF IInv, JobsInQueue, InQueue
  <2>5. CallersAndJobs'
    <3>1. ASSUME NEW q \in Request, q # r
          PROVE  /\ call'[q] = call[q] /\ answer'[q] = answer[q] /\ reply'[q] = reply[q]
                 /\ (InQueue(q)' <=> InQueue(q)) /\ (InHand(q)' <=> InHand(q))
      BY <1>1, <1>4, <1>u, <2>3, <3>1 DEF InQueue
    <3>2. InQueue(r)' /\ answer'[r] = "none"
      BY <1>3, <2>1, <2>3 DEF InQueue
    <3> QED BY <3>1, <3>2, <2>1 DEF IInv, CallersAndJobs
  <2> QED BY <1>5, <2>4, <2>5
<1> QED BY <1>6, <1>7

(* A worker takes the job at the channel's head in its hands, settles its  *)
(* reply, and only then lets go of it.                                     *)
LEMMA WorkerKeepsJobs ==
  ASSUME IInv, NEW w \in Worker, Lock(w) \/ Work(w)
  PROVE  JobsInHand' /\ JobsInQueue' /\ CallersAndJobs'
<1> USE DEF Move, counters, callers, threads
<1>t. /\ queue \in Seq(Request) /\ worker \in [Worker -> Places]
      /\ job \in [Worker -> Request \cup {None}]
      /\ reply \in [Request -> {"pending", "sent", "closed"}]
      /\ None \notin Request
  BY PoolAssumption DEF IInv, TypeOK
<1>u. UNCHANGED <<call, answer>>
  BY WorkerStep DEF IInv
<1>h. /\ \A v \in Worker :
           /\ job[v] = None <=> worker[v] \in {"locking", "receiving", "exited"}
           /\ worker[v] \in {"claimed", "running", "completed"} => reply[job[v]] = "pending"
           /\ worker[v] = "unwound" => reply[job[v]] = "closed"
      /\ \A u, v \in Worker : job[u] = job[v] => u = v \/ job[u] = None
  BY DEF IInv, JobsInHand
<1>1. CASE Claim(w)
  <2>1. /\ queue # <<>> /\ queue' = Tail(queue) /\ worker[w] = "receiving"
        /\ worker' = [worker EXCEPT ![w] = "claimed"]
        /\ job' = [job EXCEPT ![w] = Head(queue)] /\ reply' = reply
    BY <1>1 DEF Claim
  <2>2. PICK j \in Request : /\ j = Head(queue) /\ Holds(queue, j) /\ Distinct(queue')
                             /\ \A x : Holds(queue', x) <=> Holds(queue, x) /\ x # j
    BY <1>t, <2>1, Receiving DEF IInv, JobsInQueue
  <2>3. reply[j] = "pending" /\ \A v \in Worker : job[v] # j
    BY <2>2 DEF IInv, JobsInQueue, InQueue, InHand
  <2>4. /\ worker'[w] = "claimed" /\ job'[w] = j
        /\ \A v \in Worker : v # w => worker'[v] = worker[v] /\ job'[v] = job[v]
    BY <1>t, <2>1, <2>2
  <2>5. job[w] = None
    BY <1>h, <2>1
  <2>6. \A x \in Request : InHand(x)' <=> InHand(x) \/ x = j
    BY <1>t, <2>4, <2>5 DEF InHand
  <2>7. JobsInHand'
    <3>1. \A v \in Worker :
            /\ job'[v] = None <=> worker'[v] \in {"locking", "receiving", "exited"}
            /\ worker'[v] \in {"claimed", "running", "completed"} => reply'[job'[v]] = "pending"
            /\ worker'[v] = "unwound" => reply'[job'[v]] = "closed"
      BY <1>h, <1>t, <2>1, <2>3, <2>4
    <3>2. \A u, v \in Worker : job'[u] = job'[v] => u = v \/ job'[u] = None
      BY <1>h, <2>3, <2>4
    <3> QED BY <3>1, <3>2 DEF JobsInHand
  <2>8. JobsInQueue'
    BY <2>1, <2>2, <2>6 DEF IInv, JobsInQueue, InQueue
  <2>9. CallersAndJobs'
    <3>1. \A r \in Request : InQueue(r)' \/ InHand(r)' <=> InQueue(r) \/ InHand(r)
      BY <2>2, <2>6 DEF InQueue
    <3> QED BY <3>1, <1>u, <2>1 DEF IInv, CallersAndJobs
  <2> QED BY <2>7, <2>8, <2>9
<1>2. CASE SendReply(w) \/ CatchPanic(w)
  <2>1. /\ queue' = queue /\ worker[w] \in {"completed", "unwound"}
        /\ worker' = [worker EXCEPT ![w] = "locking"]
        /\ job' = [job EXCEPT ![w] = None]
        /\ reply' = IF worker[w] = "completed" THEN [reply EXCEPT ![job[w]] = "sent"] ELSE reply
    BY <1>2 DEF SendReply, CatchPanic
  <2>2. PICK j \in Request : job[w] = j
    BY <1>t, <1>h, <2>1
  <2>3. /\ reply'[j] \in {"sent", "closed"}
        /\ \A r \in Request : r # j => reply'[r] = reply[r]
        /\ \A r \in Request : reply[r] # "pending" => reply'[r] # "pending"
    BY <1>t, <1>h, <2>1, <2>2
  <2>4. /\ worker'[w] = "locking" /\ job'[w] = None
        /\ \A v \in Worker : v # w => worker'[v] = worker[v] /\ job'[v] = job[v]
    BY <1>t, <2>1
  <2>5. \A x \in Request : InHand(x)' <=> InHand(x) /\ x # j
    BY <1>t, <1>h, <2>2, <2>4 DEF InHand
  <2>6. JobsInHand'
    <3>1. \A v \in Worker :
            /\ job'[v] = None <=> worker'[v] \in {"locking", "receiving", "exited"}
            /\ worker'[v] \in {"claimed", "running", "completed"} => reply'[job'[v]] = "pending"
            /\ worker'[v] = "unwound" => reply'[job'[v]] = "closed"
      <4>1. CASE worker[w] = "unwound"
        BY <1>h, <1>t, <2>1, <2>4, <4>1
      <4>2. ASSUME NEW v \in Worker, v # w, job[v] # None
            PROVE  job[v] \in Request /\ job[v] # j /\ reply'[job[v]] = reply[job[v]]
        BY <1>h, <1>t, <2>2, <2>3, <4>2
      <4> QED BY <1>h, <2>4, <4>2
    <3>2. \A u, v \in Worker : job'[u] = job'[v] => u = v \/ job'[u] = None
      BY <1>h, <2>4
    <3> QED BY <3>1, <3>2 DEF JobsInHand
  <2>7. InHand(j)
    BY <2>2 DEF InHand
  <2>8. JobsInQueue'
    BY <2>1, <2>3, <2>5, <2>7 DEF IInv, JobsInQueue, InQueue
  <2>9. CallersAndJobs'
    BY <1>u, <2>1, <2>3, <2>5, <2>7 DEF IInv, CallersAndJobs, InQueue
  <2> QED BY <2>6, <2>8, <2>9
<1>3. CASE TaskPanics(w)
  <2>1. /\ queue' = queue /\ worker[w] = "running" /\ job' = job
        /\ worker' = [worker EXCEPT ![w] = "unwound"]
        /\ reply' = [reply EXCEPT ![job[w]] = "closed"]
    BY <1>3 DEF TaskPanics
  <2>2. PICK j \in Request : job[w] = j
    BY <1>t, <1>h, <2>1
  <2>3. reply'[j] = "closed" /\ \A r \in Request : r # j => reply'[r] = reply[r]
    BY <1>t, <2>1, <2>2
  <2>4. worker'[w] = "unwound" /\ \A v \in Worker : v # w => worker'[v] = worker[v]
    BY <1>t, <2>1
  <2>5. \A x : InHand(x)' <=> InHand(x)
    BY <2>1 DEF InHand
  <2>6. JobsInHand'
    <3>1. ASSUME NEW v \in Worker, v # w, job[v] # None
          PROVE  job[v] \in Request /\ reply'[job[v]] = reply[job[v]]
      BY <1>h, <1>t, <2>2, <2>3, <3>1
    <3>2. \A v \in Worker :
            /\ job'[v] = None <=> worker'[v] \in {"locking", "receiving", "exited"}
            /\ worker'[v] \in {"claimed", "running", "completed"} => reply'[job'[v]] = "pending"
            /\ worker'[v] = "unwound" => reply'[job'[v]] = "closed"
      BY <1>h, <1>t, <2>1, <2>2, <2>3, <2>4, <3>1
    <3> QED BY <3>2, <1>h, <2>1 DEF JobsInHand
  <2>7. InHand(j)
    BY <2>2 DEF InHand
  <2>8. JobsInQueue'
    BY <2>1, <2>3, <2>5, <2>7 DEF IInv, JobsInQueue, InQueue
  <2>9. CallersAndJobs'
    BY <1>u, <2>1, <2>3, <2>5, <2>7 DEF IInv, CallersAndJobs, InQueue
  <2> QED BY <2>6, <2>8, <2>9
<1>4. CASE Lock(w) \/ Exit(w) \/ StartJob(w) \/ TaskReturns(w)
  <2>1. /\ UNCHANGED <<queue, job, reply>>
        /\ \/ /\ worker[w] \in {"locking", "receiving"}
              /\ worker'[w] \in {"receiving", "exited"}
           \/ /\ worker[w] \in {"claimed", "running"}
              /\ worker'[w] \in {"running", "completed"}
        /\ \A v \in Worker : v # w => worker'[v] = worker[v]
    BY <1>4, <1>t DEF Lock, Exit, StartJob, TaskReturns
  <2>2. \A x : InHand(x)' <=> InHand(x)
    BY <2>1 DEF InHand
  <2>3. JobsInHand'
    BY <1>h, <2>1 DEF JobsInHand
  <2> QED BY <1>u, <2>1, <2>2, <2>3 DEF IInv, JobsInQueue, CallersAndJobs, InQueue
<1> QED BY <1>1, <1>2, <1>3, <1>4 DEF Work

-----------------------------------------------------------------------------
(* The invariant holds.                                                      *)

(* A count of elements of which none qualifies is zero.                    *)
LEMMA NothingCounted ==
  ASSUME NEW D, NEW f, NEW S, \A x \in D : f[x] \notin S
  PROVE  Count(D, f, S) = 0
<1>1. {x \in D : f[x] \in S} = {}
  OBVIOUS
<1> QED BY <1>1, FS_EmptySet DEF Count

(* A pool that has just been built satisfies the invariant.                *)
LEMMA InitInvariant == Init => IInv
<1> SUFFICES ASSUME Init PROVE IInv
  OBVIOUS
<1> USE DEF Init
<1>1. TypeOK
  BY PoolAssumption DEF TypeOK, Calls, Answers, Places
<1>2. CountersBalance
  <2>1. Counted(call) = 0 /\ Sent(call) = 0
    BY NothingCounted DEF Counted, Sent
  <2>2. /\ Claimed(worker) = 0 /\ Busy(worker) = 0 /\ Laden(worker) = 0
        /\ Reporting(worker) = 0 /\ Unwound(worker) = 0
    BY NothingCounted DEF Claimed, Busy, Laden, Reporting, Unwound
  <2>3. Replied(reply) = 0 /\ Broken(reply) = 0
    BY NothingCounted DEF Replied, Broken
  <2>4. Held(queue) = 0
    BY DEF Held
  <2> QED BY <2>1, <2>2, <2>3, <2>4, BalanceMeans DEF Balance
<1>3. WorkersStay
  BY DEF WorkersStay
<1>4. \A r : ~InQueue(r)
  BY DEF InQueue, Holds
<1>5. \A r \in Request : ~InHand(r)
  BY PoolAssumption DEF InHand
<1>6. Distinct(queue)
  BY DEF Distinct
<1>7. JobsInHand /\ JobsInQueue
  BY <1>4, <1>6 DEF JobsInHand, JobsInQueue
<1>8. CallersAndJobs
  BY <1>4, <1>5 DEF CallersAndJobs
<1> QED BY <1>1, <1>2, <1>3, <1>7, <1>8 DEF IInv

(* Every step of a caller and of a worker preserves the invariant.         *)
LEMMA StepInvariant == IInv /\ [Next]_vars => IInv'
<1> SUFFICES ASSUME IInv, [Next]_vars PROVE IInv'
  OBVIOUS
<1>1. CountersBalance' /\ TypeOK' /\ WorkersStay'
  BY CountersStep, TypeStep, WorkersStayStep DEF IInv
<1>2. JobsInHand' /\ JobsInQueue' /\ CallersAndJobs'
  <2>1. CASE \E r \in Request : Advance(r) \/ Drop(r)
    BY <2>1, CallerKeepsJobs
  <2>2. CASE \E w \in Worker : Lock(w) \/ Work(w)
    BY <2>2, WorkerKeepsJobs
  <2>3. CASE TakeSender \/ UNCHANGED vars
    BY <2>3 DEF TakeSender, vars, callers, threads, counters, IInv, JobsInHand,
                JobsInQueue, CallersAndJobs, InQueue, InHand
  <2> QED BY <2>1, <2>2, <2>3 DEF Next
<1> QED BY <1>1, <1>2 DEF IInv

(* The invariant of pool.rs: the types, the counters, the threads and      *)
(* where every job is, in every reachable state.                           *)
THEOREM Invariant == Spec => []IInv
<1> QED BY InitInvariant, StepInvariant, PTL DEF Spec

(* The channel never holds more than MaxQueue jobs, and only the holder of *)
(* the mutex is inside recv.                                               *)
THEOREM TypeCorrect == Spec => []TypeOK
<1>1. IInv => TypeOK  BY DEF IInv
<1> QED BY <1>1, Invariant, PTL

(* What PoolMetrics reports is what there is, after every step of every    *)
(* caller and worker, however many of them there are.                      *)
THEOREM CountersAlwaysBalance == Spec => []CountersBalance
<1>1. IInv => CountersBalance  BY DEF IInv
<1> QED BY <1>1, Invariant, PTL

(* No worker leaves while a job waits or somebody can still send one.      *)
THEOREM WorkersAlwaysStay == Spec => []WorkersStay
<1>1. IInv => WorkersStay  BY DEF IInv
<1> QED BY <1>1, Invariant, PTL

-----------------------------------------------------------------------------
(* The pool is a bounded service.                                            *)

\* What Fate says of each job, in terms of the three places it can be.
FatesTold ==
  \A r \in Request :
    /\ reply[r] = "sent" => Fate(r) = "finished"
    /\ reply[r] = "closed" => Fate(r) = "panicked"
    /\ InQueue(r) => Fate(r) = "waiting"
    /\ reply[r] = "pending" /\ InHand(r) => Fate(r) = "running"
    /\ reply[r] = "pending" /\ ~InQueue(r) /\ ~InHand(r) =>
         Fate(r) = IF answer[r] = "QueueFull" THEN "refused" ELSE "new"

(* Under the invariant, where a job is and how its reply stands tell its   *)
(* fate.                                                                   *)
LEMMA FatesAreTold == IInv => FatesTold
<1> SUFFICES ASSUME IInv, NEW r \in Request
             PROVE  /\ reply[r] = "sent" => Fate(r) = "finished"
                    /\ reply[r] = "closed" => Fate(r) = "panicked"
                    /\ InQueue(r) => Fate(r) = "waiting"
                    /\ reply[r] = "pending" /\ InHand(r) => Fate(r) = "running"
                    /\ reply[r] = "pending" /\ ~InQueue(r) /\ ~InHand(r) =>
                         Fate(r) = IF answer[r] = "QueueFull" THEN "refused" ELSE "new"
  BY DEF FatesTold
<1>1. (\E i \in DOMAIN queue : queue[i] = r) <=> InQueue(r)
  BY DEF IInv, TypeOK, InQueue, Holds
<1>2. (\E w \in Worker : job[w] = r) <=> InHand(r)
  BY DEF InHand
<1>3. /\ InQueue(r) => reply[r] = "pending" /\ ~InHand(r)
      /\ answer[r] = "QueueFull" => reply[r] = "pending" /\ ~InQueue(r) /\ ~InHand(r)
  BY DEF IInv, JobsInQueue, CallersAndJobs
<1>4. Fate(r) =
        CASE reply[r] = "sent" -> "finished"
          [] reply[r] = "closed" -> "panicked"
          [] reply[r] = "pending" /\ InQueue(r) -> "waiting"
          [] reply[r] = "pending" /\ InHand(r) -> "running"
          [] answer[r] = "QueueFull" -> "refused"
          [] OTHER -> "new"
  BY <1>1, <1>2, Zenon DEF Fate
<1> QED BY <1>3, <1>4

(* An interval from one has as many elements as its upper end says.        *)
LEMMA IntervalSize ==
  ASSUME NEW n \in Nat
  PROVE  IsFiniteSet(1..n) /\ Cardinality(1..n) = n
BY FS_Interval

(* The jobs that wait are the channel's.                                   *)
LEMMA WaitingJobs ==
  IInv => Cardinality({r \in Request : Fate(r) = "waiting"}) = Len(queue)
<1> SUFFICES ASSUME IInv
             PROVE  Cardinality({r \in Request : Fate(r) = "waiting"}) = Len(queue)
  OBVIOUS
<1> DEFINE T == {r \in Request : Fate(r) = "waiting"}
<1>1. queue \in Seq(Request) /\ Len(queue) \in Nat
      /\ reply \in [Request -> {"pending", "sent", "closed"}]
  BY DEF IInv, TypeOK
<1>2. \A r \in Request : Fate(r) = "waiting" <=> InQueue(r)
  BY <1>1, FatesAreTold DEF FatesTold
<1>3. IsFiniteSet(T)
  BY PoolAssumption, FS_Subset
<1>4. queue \in [1..Len(queue) -> T]
  BY <1>1, <1>2 DEF InQueue, Holds
<1>5. /\ \A i, j \in 1..Len(queue) : queue[i] = queue[j] => i = j
      /\ \A x \in T : \E i \in 1..Len(queue) : queue[i] = x
  BY <1>2 DEF IInv, JobsInQueue, Distinct, InQueue, Holds
<1> HIDE DEF T
<1>6. Len(queue) <= Cardinality(T)
  BY <1>1, <1>3, <1>4, <1>5, DistinctCardinality
<1>7. queue \in Surjection(1..Len(queue), T)
  BY <1>4, <1>5, Fun_IsSurj
<1>8. IsFiniteSet(1..Len(queue)) /\ Cardinality(1..Len(queue)) = Len(queue)
  BY <1>1, IntervalSize, Zenon
<1>9. Cardinality(T) <= Len(queue)
  BY <1>7, <1>8, FS_Surjection
<1>10. Cardinality(T) \in Nat
  BY <1>3, FS_CardinalityType
<1> QED BY <1>1, <1>6, <1>9, <1>10 DEF T

(* While a worker has no job in hand, fewer jobs run than there are        *)
(* workers.                                                                *)
LEMMA RunningJobs ==
  ASSUME IInv, NEW w \in Worker, job[w] = None
  PROVE  Cardinality({r \in Request : Fate(r) = "running"}) < Cardinality(Worker)
<1> DEFINE T == {r \in Request : Fate(r) = "running"}
           hand == [r \in T |-> CHOOSE v \in Worker : job[v] = r]
<1>1. reply \in [Request -> {"pending", "sent", "closed"}] /\ None \notin Request
  BY PoolAssumption DEF IInv, TypeOK
<1>2. \A r \in T : InHand(r)
  BY <1>1, FatesAreTold DEF FatesTold
<1>3. \A r \in T : hand[r] \in Worker /\ job[hand[r]] = r
  BY <1>2 DEF InHand
<1>4. hand \in [T -> Worker \ {w}]
  BY <1>1, <1>3
<1>5. \A q, r \in T : hand[q] = hand[r] => q = r
  BY <1>3
<1>6. IsFiniteSet(Worker) /\ IsFiniteSet(Worker \ {w})
      /\ Cardinality(Worker \ {w}) = Cardinality(Worker) - 1
  BY PoolAssumption, FS_RemoveElement
<1> HIDE DEF T, hand
<1>7. hand \in Injection(T, Worker \ {w})
  BY <1>4, <1>5, Fun_IsInj
<1>8. IsFiniteSet(T) /\ Cardinality(T) <= Cardinality(Worker \ {w})
  BY <1>6, <1>7, FS_Injection
<1>9. Cardinality(T) \in Nat /\ Cardinality(Worker) \in Nat
  BY <1>6, <1>8, FS_CardinalityType
<1> QED BY <1>6, <1>8, <1>9 DEF T

Told(r) == IF answer[r] = "dropped" THEN "none" ELSE answer[r]

(* What does not move a job does not change its fate.                      *)
LEMMA SameFate ==
  ASSUME IInv, FatesTold, FatesTold', NEW r \in Request,
         reply'[r] = reply[r], InQueue(r)' <=> InQueue(r), InHand(r)' <=> InHand(r),
         answer'[r] = "QueueFull" <=> answer[r] = "QueueFull"
  PROVE  Fate(r)' = Fate(r)
<1>1. reply[r] \in {"pending", "sent", "closed"}
  BY DEF IInv, TypeOK
<1>2. InQueue(r) => reply[r] = "pending" /\ ~InHand(r)
  BY DEF IInv, JobsInQueue
<1> QED BY <1>1, <1>2 DEF FatesTold

(* The cardinality of the abstract service's module is the library's.      *)
LEMMA SameCardinality ==
  ASSUME NEW S PROVE Service!Cardinality(S) = Cardinality(S)
BY DEF Service!Cardinality, Cardinality

(* The abstract service's jobs of a fate are the pool's jobs of that       *)
(* fate.                                                                   *)
LEMMA ServiceFates ==
  \A f : Service!InFate(f) = {r \in Request : Fate(r) = f}
BY DEF Service!InFate

(* A pool that has just been built is an idle abstract service.            *)
LEMMA InitServes == Init => Service!Init
<1> SUFFICES ASSUME Init PROVE Service!Init
  OBVIOUS
<1>1. \A r \in Request : ~InQueue(r) /\ ~InHand(r)
  BY PoolAssumption DEF Init, InQueue, Holds, InHand
<1>2. \A r \in Request : Fate(r) = "new"
  BY <1>1, InitInvariant, FatesAreTold DEF Init, FatesTold
<1> QED BY <1>2 DEF Service!Init, Init

(* A caller's step: a job sent is admitted, a refusal is a refusal, an     *)
(* answer tells the truth, and the rest is invisible.                      *)
LEMMA CallerServes ==
  ASSUME IInv, FatesTold, FatesTold', NEW r \in Request, Advance(r) \/ Drop(r)
  PROVE  [Service!Next]_(Service!vars)
<1> USE DEF Return, Step
<1>t. /\ call \in [Request -> Calls] /\ answer \in [Request -> Answers]
      /\ reply \in [Request -> {"pending", "sent", "closed"}]
      /\ queue \in Seq(Request) /\ Len(queue) <= MaxQueue /\ MaxQueue \in Nat
  BY PoolAssumption DEF IInv, TypeOK
<1>u. UNCHANGED <<open, reply, worker, job>>
  BY CallerStep DEF IInv
<1>1. \A q \in Request : q # r => call'[q] = call[q] /\ answer'[q] = answer[q]
  BY <1>t DEF Advance, Drop, FindPoolClosed, Arrive, Send, Refuse, CountAccepted,
              Receive, QueueTimer, BudgetTimer
<1>h. \A q : InHand(q)' <=> InHand(q)
  BY <1>u DEF InHand
<1>k. /\ call[r] = "ended" <=> answer[r] # "none"
      /\ call[r] \in {"new", "counted"} => reply[r] = "pending" /\ ~InQueue(r) /\ ~InHand(r)
      /\ call[r] \in {"sent", "waiting", "extended"} =>
           reply[r] # "pending" \/ InQueue(r) \/ InHand(r)
  BY DEF IInv, CallersAndJobs
<1>2. ASSUME queue' = queue, answer'[r] = "QueueFull" <=> answer[r] = "QueueFull"
      PROVE  \A q \in Request : Fate(q)' = Fate(q)
  <2>1. \A q : InQueue(q)' <=> InQueue(q)
    BY <1>2 DEF InQueue
  <2> QED BY <2>1, <1>2, <1>1, <1>h, <1>u, SameFate
<1>3. ASSUME \A q \in Request : Fate(q)' = Fate(q),
             Told(r)' = Told(r)
      PROVE  UNCHANGED Service!vars
  BY <1>3, <1>1, <1>u DEF Service!vars, Told
<1>4. ASSUME \A q \in Request : Fate(q)' = Fate(q), Told(r) = "none",
             Told(r)' \in Service!Truthful(r)
      PROVE  Service!Answer(r)
  BY <1>4, <1>1, <1>u DEF Service!Answer, Told
<1>5. CASE FindPoolClosed(r)
  <2>1. /\ queue' = queue /\ call[r] = "new" /\ ~open /\ answer'[r] = "Failed"
    BY <1>5, <1>t DEF FindPoolClosed
  <2>2. answer[r] = "none" /\ Fate(r) = "new"
    BY <2>1, <1>k DEF FatesTold
  <2>3. Told(r) = "none" /\ Told(r)' \in Service!Truthful(r)
    BY <2>1, <2>2 DEF Told, Service!Truthful
  <2> QED BY <1>2, <1>4, <2>1, <2>2, <2>3 DEF Service!Next
<1>6. CASE Arrive(r) \/ CountAccepted(r)
  BY <1>6, <1>2, <1>3 DEF Arrive, CountAccepted, Told
<1>7. CASE Send(r)
  <2>1. /\ call[r] = "counted" /\ queue' = Append(queue, r) /\ Len(queue) < MaxQueue
        /\ answer' = answer
    BY <1>7 DEF Send
  <2>2. Fate(r) = "new"
    <3>1. answer[r] # "QueueFull"
      BY <1>k, <2>1
    <3> QED BY <1>k, <2>1, <3>1 DEF FatesTold
  <2>3. \A q : Holds(queue', q) <=> Holds(queue, q) \/ q = r
    BY <1>t, <2>1, Sending
  <2>4. Fate(r)' = "waiting"
    BY <2>3 DEF FatesTold, InQueue
  <2>5. \A q \in Request : q # r => Fate(q)' = Fate(q)
    <3>1. \A q : q # r => (InQueue(q)' <=> InQueue(q))
      BY <2>3 DEF InQueue
    <3> QED BY <3>1, <2>1, <1>h, <1>u, SameFate
  <2>6. Cardinality({q \in Request : Fate(q) = "waiting"}) < MaxQueue
    BY <2>1, WaitingJobs
  <2>7. Service!Cardinality(Service!InFate("waiting")) < MaxQueue
    BY <2>6, ServiceFates, SameCardinality
  <2>8. [q \in Request |-> Fate(q)]'
          = [[q \in Request |-> Fate(q)] EXCEPT ![r] = "waiting"]
    BY <2>4, <2>5
  <2>9. [q \in Request |-> Told(q)]' = [q \in Request |-> Told(q)]
    BY <2>1 DEF Told
  <2>10. Service!Admit(r)
    BY <2>2, <2>7, <2>8, <2>9, <1>u DEF Service!Admit, Told
  <2> QED BY <2>10 DEF Service!Next
<1>8. CASE Refuse(r)
  <2>1. /\ call[r] = "counted" /\ queue' = queue /\ Len(queue) = MaxQueue
        /\ answer'[r] = "QueueFull"
    BY <1>8, <1>t DEF Refuse
  <2>2. answer[r] = "none" /\ reply[r] = "pending" /\ ~InQueue(r) /\ ~InHand(r)
    BY <1>k, <2>1
  <2>3. Fate(r) = "new"
    BY <2>2 DEF FatesTold
  <2>4. \A q : InQueue(q)' <=> InQueue(q)
    BY <2>1 DEF InQueue
  <2>5. Fate(r)' = "refused"
    <3>1. reply'[r] = "pending" /\ ~InQueue(r)' /\ ~InHand(r)'
      BY <2>2, <2>4, <1>h, <1>u
    <3> QED BY <2>1, <3>1 DEF FatesTold
  <2>6. \A q \in Request : q # r => Fate(q)' = Fate(q)
    BY <2>4, <1>1, <1>h, <1>u, SameFate
  <2>7. Cardinality({q \in Request : Fate(q) = "waiting"}) = MaxQueue
    BY <2>1, WaitingJobs
  <2>8. Service!Cardinality(Service!InFate("waiting")) = MaxQueue
    BY <2>7, ServiceFates, SameCardinality
  <2>9. [q \in Request |-> Fate(q)]'
          = [[q \in Request |-> Fate(q)] EXCEPT ![r] = "refused"]
    BY <2>5, <2>6
  <2>10. [q \in Request |-> Told(q)]'
           = [[q \in Request |-> Told(q)] EXCEPT ![r] = "QueueFull"]
    <3>1. \A q \in Request : Told(q)' = IF q = r THEN "QueueFull" ELSE Told(q)
      BY <2>1, <1>1 DEF Told
    <3> QED BY <3>1
  <2>11. Service!Refuse(r)
    BY <2>3, <2>8, <2>9, <2>10, <1>u DEF Service!Refuse, Told
  <2> QED BY <2>11 DEF Service!Next
<1>9. CASE Receive(r)
  <2>1. /\ queue' = queue /\ call[r] \in {"waiting", "extended"}
        /\ \/ reply[r] = "sent" /\ answer'[r] = "Ok"
           \/ reply[r] = "closed" /\ answer'[r] = "Failed"
    BY <1>9, <1>t DEF Receive
  <2>2. answer[r] = "none"
    BY <1>k, <2>1
  <2>3. \/ Fate(r) = "finished" /\ answer'[r] = "Ok"
        \/ Fate(r) = "panicked" /\ answer'[r] = "Failed"
    BY <2>1 DEF FatesTold
  <2>4. Told(r) = "none" /\ Told(r)' \in Service!Truthful(r)
    BY <2>2, <2>3 DEF Told, Service!Truthful
  <2> QED BY <1>2, <1>4, <2>1, <2>2, <2>4 DEF Service!Next
<1>10. CASE QueueTimer(r) \/ BudgetTimer(r)
  <2>1. /\ queue' = queue /\ call[r] \in {"waiting", "extended"}
        /\ answer'[r] \in {answer[r], "QueueTimeout"}
    BY <1>10, <1>t DEF QueueTimer, BudgetTimer
  <2>2. answer[r] = "none"
    BY <1>k, <2>1
  <2>3. \A q \in Request : Fate(q)' = Fate(q)
    BY <1>2, <2>1, <2>2
  <2>4. Fate(r) # "new"
    BY <1>k, <1>t, <2>1 DEF FatesTold
  <2>5. CASE answer'[r] = answer[r]
    BY <1>3, <2>3, <2>5 DEF Told
  <2>6. CASE answer'[r] = "QueueTimeout"
    <3>1. Told(r) = "none" /\ Told(r)' = "QueueTimeout"
      BY <2>2, <2>6 DEF Told
    <3>2. "QueueTimeout" \in Service!Truthful(r)
      BY <2>4 DEF Service!Truthful
    <3> QED BY <1>4, <2>3, <3>1, <3>2 DEF Service!Next
  <2> QED BY <2>1, <2>5, <2>6
<1>11. CASE Drop(r)
  <2>1. /\ queue' = queue /\ call[r] \in {"waiting", "extended"} /\ answer'[r] = "dropped"
    BY <1>11, <1>t DEF Drop
  <2>2. answer[r] = "none"
    BY <2>1, <1>k
  <2> QED BY <1>2, <1>3, <2>1, <2>2 DEF Told
<1> QED BY <1>5, <1>6, <1>7, <1>8, <1>9, <1>10, <1>11 DEF Advance

(* A worker's step: the channel's head begins, the job in hand ends when   *)
(* its reply is settled, and the rest is invisible.                        *)
LEMMA WorkerServes ==
  ASSUME IInv, FatesTold, FatesTold', NEW w \in Worker, Lock(w) \/ Work(w)
  PROVE  [Service!Next]_(Service!vars)
<1> USE DEF Move
<1>t. /\ queue \in Seq(Request) /\ worker \in [Worker -> Places]
      /\ job \in [Worker -> Request \cup {None}]
      /\ reply \in [Request -> {"pending", "sent", "closed"}]
      /\ None \notin Request
  BY PoolAssumption DEF IInv, TypeOK
<1>u. UNCHANGED <<open, call, answer>>
  BY WorkerStep DEF IInv
<1>v. [q \in Request |-> Told(q)]' = [q \in Request |-> Told(q)]
  BY <1>u DEF Told
<1>h. /\ job[w] = None <=> worker[w] \in {"locking", "receiving", "exited"}
      /\ worker[w] \in {"claimed", "running", "completed"} => reply[job[w]] = "pending"
      /\ worker[w] = "unwound" => reply[job[w]] = "closed"
  BY DEF IInv, JobsInHand
<1>1. ASSUME \A q \in Request : Fate(q)' = Fate(q) PROVE UNCHANGED Service!vars
  BY <1>1, <1>u, <1>v DEF Service!vars, Told
<1>2. CASE Claim(w)
  <2>1. /\ queue # <<>> /\ queue' = Tail(queue) /\ worker[w] = "receiving"
        /\ job' = [job EXCEPT ![w] = Head(queue)] /\ reply' = reply
    BY <1>2 DEF Claim
  <2>2. PICK j \in Request : /\ j = Head(queue) /\ Holds(queue, j)
                             /\ \A x : Holds(queue', x) <=> Holds(queue, x) /\ x # j
    BY <1>t, <2>1, Receiving DEF IInv, JobsInQueue
  <2>3. Fate(j) = "waiting" /\ reply[j] = "pending"
    BY <2>2 DEF FatesTold, IInv, JobsInQueue, InQueue
  <2>4. job[w] = None
    BY <1>h, <2>1
  <2>5. \A x \in Request : InHand(x)' <=> InHand(x) \/ x = j
    <3>1. job'[w] = j /\ \A v \in Worker : v # w => job'[v] = job[v]
      BY <1>t, <2>1, <2>2
    <3> QED BY <1>t, <2>4, <3>1 DEF InHand
  <2>6. Fate(j)' = "running"
    BY <2>1, <2>3, <2>5 DEF FatesTold
  <2>7. \A q \in Request : q # j => Fate(q)' = Fate(q)
    <3>1. \A q : q # j => (InQueue(q)' <=> InQueue(q))
      BY <2>2 DEF InQueue
    <3> QED BY <3>1, <2>1, <2>5, <1>u, SameFate
  <2>8. Service!Cardinality(Service!InFate("running")) < Service!Cardinality(Worker)
    BY <2>4, RunningJobs, ServiceFates, SameCardinality
  <2>9. [q \in Request |-> Fate(q)]'
          = [[q \in Request |-> Fate(q)] EXCEPT ![j] = "running"]
    BY <2>6, <2>7
  <2>10. Service!Begin(j)
    BY <2>3, <2>8, <2>9, <1>u, <1>v DEF Service!Begin
  <2> QED BY <2>10 DEF Service!Next
<1>3. CASE SendReply(w) \/ TaskPanics(w)
  <2>1. PICK f \in {"sent", "closed"} :
          /\ queue' = queue /\ worker[w] \in {"running", "completed"}
          /\ reply' = [reply EXCEPT ![job[w]] = f]
          /\ job' = job \/ job' = [job EXCEPT ![w] = None]
    BY <1>3 DEF SendReply, TaskPanics
  <2>2. PICK j \in Request : job[w] = j
    BY <1>t, <1>h, <2>1
  <2>3. /\ reply[j] = "pending" /\ reply'[j] = f
        /\ \A r \in Request : r # j => reply'[r] = reply[r]
    BY <1>t, <1>h, <2>1, <2>2
  <2>4. Fate(j) = "running"
    BY <2>2, <2>3 DEF FatesTold, InHand
  <2>5. PICK g \in {"finished", "panicked"} : Fate(j)' = g
    BY <2>1, <2>3 DEF FatesTold
  <2>6. \A q \in Request : q # j => Fate(q)' = Fate(q)
    <3>1. \A q \in Request : q # j => (InHand(q)' <=> InHand(q))
      BY <1>t, <2>1, <2>2 DEF InHand
    <3>2. \A q : InQueue(q)' <=> InQueue(q)
      BY <2>1 DEF InQueue
    <3> QED BY <3>1, <3>2, <2>3, <1>u, SameFate
  <2>7. [q \in Request |-> Fate(q)]'
          = [[q \in Request |-> Fate(q)] EXCEPT ![j] = g]
    BY <2>5, <2>6
  <2>8. Service!End(j)
    BY <2>4, <2>7, <1>u, <1>v DEF Service!End
  <2> QED BY <2>8 DEF Service!Next
<1>4. CASE CatchPanic(w)
  <2>1. /\ queue' = queue /\ reply' = reply /\ worker[w] = "unwound"
        /\ job' = [job EXCEPT ![w] = None]
    BY <1>4 DEF CatchPanic
  <2>2. PICK j \in Request : job[w] = j
    BY <1>t, <1>h, <2>1
  <2>3. Fate(j) = "panicked" /\ Fate(j)' = "panicked"
    BY <1>h, <2>1, <2>2 DEF FatesTold
  <2>4. \A q \in Request : q # j => (InHand(q)' <=> InHand(q))
    BY <1>t, <2>1, <2>2 DEF InHand
  <2>5. \A q \in Request : q # j => Fate(q)' = Fate(q)
    <3>1. \A q : InQueue(q)' <=> InQueue(q)
      BY <2>1 DEF InQueue
    <3> QED BY <3>1, <2>1, <2>4, <1>u, SameFate
  <2> QED BY <1>1, <2>3, <2>5
<1>5. CASE Lock(w) \/ Exit(w) \/ StartJob(w) \/ TaskReturns(w)
  <2>1. UNCHANGED <<queue, job, reply>>
    BY <1>5 DEF Lock, Exit, StartJob, TaskReturns
  <2>2. \A q : (InQueue(q)' <=> InQueue(q)) /\ (InHand(q)' <=> InHand(q))
    BY <2>1 DEF InQueue, InHand
  <2> QED BY <1>1, <1>u, <2>1, <2>2, SameFate
<1> QED BY <1>2, <1>3, <1>4, <1>5 DEF Work

(* Every step of the pool is a step of the abstract service or leaves it   *)
(* unchanged.                                                              *)
LEMMA StepServes ==
  IInv /\ FatesTold /\ FatesTold' /\ [Next]_vars => [Service!Next]_(Service!vars)
<1> SUFFICES ASSUME IInv, FatesTold, FatesTold', [Next]_vars
             PROVE  [Service!Next]_(Service!vars)
  OBVIOUS
<1>1. CASE \E r \in Request : Advance(r) \/ Drop(r)
  BY <1>1, CallerServes
<1>2. CASE \E w \in Worker : Lock(w) \/ Work(w)
  BY <1>2, WorkerServes
<1>3. CASE TakeSender \/ UNCHANGED vars
  <2>1. UNCHANGED <<callers, reply, queue, threads>>
    BY <1>3 DEF TakeSender, vars
  <2>2. \A q \in Request : Fate(q)' = Fate(q)
    <3>1. \A q : (InQueue(q)' <=> InQueue(q)) /\ (InHand(q)' <=> InHand(q))
      BY <2>1 DEF InQueue, InHand, threads
    <3> QED BY <2>1, <3>1, SameFate DEF callers
  <2>3. UNCHANGED <<[q \in Request |-> Fate(q)], [q \in Request |-> Told(q)]>>
    BY <2>1, <2>2 DEF callers, Told
  <2>4. CASE TakeSender
    BY <2>3, <2>4 DEF TakeSender, Service!Close, Service!Next, Told
  <2>5. CASE UNCHANGED vars
    BY <2>3, <2>5 DEF vars, Service!vars, Told
  <2> QED BY <1>3, <2>4, <2>5
<1> QED BY <1>1, <1>2, <1>3 DEF Next

(* The pool of pool.rs serves as BoundedService promises: an offered job   *)
(* is refused only when MaxQueue jobs wait, a refused job never runs, an   *)
(* admitted one runs at most once, on one of the workers, and what a       *)
(* caller is told is true of its job.                                      *)
THEOREM PoolServes == Spec => ServesAsPromised
<1>1. IInv /\ IInv' => FatesTold /\ FatesTold'
  BY FatesAreTold, PTL
<1>2. IInv /\ IInv' /\ [Next]_vars => [Service!Next]_(Service!vars)
  BY <1>1, StepServes
<1> QED BY <1>2, InitServes, Invariant, PTL DEF Spec, ServesAsPromised, Service!Spec
=============================================================================
