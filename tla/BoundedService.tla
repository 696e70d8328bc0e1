--------------------------- MODULE BoundedService ---------------------------
(***************************************************************************)
(* What the search pool promises its callers, without its queue, threads   *)
(* and channels: an offered job is refused only when MaxQueue jobs wait, a *)
(* refused job never runs, an admitted one runs exactly once on one of the *)
(* Workers, and an answer tells the truth about the job's fate.            *)
(***************************************************************************)
EXTENDS Integers, FiniteSets

CONSTANTS
  Request,   \* the callers, each with one job
  Worker,    \* the search threads
  MaxQueue   \* jobs that may wait

VARIABLES
  fate,      \* what became of each job
  answer,    \* what each caller was told
  open       \* whether new jobs are taken

vars == <<fate, answer, open>>

InFate(f) == {r \in Request : fate[r] = f}

Init ==
  /\ fate = [r \in Request |-> "new"]
  /\ answer = [r \in Request |-> "none"]
  /\ open = TRUE

Admit(r) ==
  /\ fate[r] = "new"
  /\ Cardinality(InFate("waiting")) < MaxQueue
  /\ fate' = [fate EXCEPT ![r] = "waiting"]
  /\ UNCHANGED <<answer, open>>

Refuse(r) ==
  /\ fate[r] = "new"
  /\ Cardinality(InFate("waiting")) = MaxQueue
  /\ fate' = [fate EXCEPT ![r] = "refused"]
  /\ answer' = [answer EXCEPT ![r] = "QueueFull"]
  /\ UNCHANGED open

Begin(r) ==
  /\ fate[r] = "waiting"
  /\ Cardinality(InFate("running")) < Cardinality(Worker)
  /\ fate' = [fate EXCEPT ![r] = "running"]
  /\ UNCHANGED <<answer, open>>

End(r) ==
  /\ fate[r] = "running"
  /\ \E f \in {"finished", "panicked"} : fate' = [fate EXCEPT ![r] = f]
  /\ UNCHANGED <<answer, open>>

\* The answers a fate allows.  An impatient caller may be told QueueTimeout
\* whatever its admitted job is doing.
Truthful(r) ==
  CASE fate[r] = "new" -> IF open THEN {} ELSE {"Failed"}
    [] fate[r] = "finished" -> {"Ok", "QueueTimeout"}
    [] fate[r] = "panicked" -> {"Failed", "QueueTimeout"}
    [] OTHER -> {"QueueTimeout"}

Answer(r) ==
  /\ answer[r] = "none"
  /\ \E a \in Truthful(r) : answer' = [answer EXCEPT ![r] = a]
  /\ UNCHANGED <<fate, open>>

Close ==
  /\ open
  /\ open' = FALSE
  /\ UNCHANGED <<fate, answer>>

Next ==
  \/ Close
  \/ \E r \in Request : Admit(r) \/ Refuse(r) \/ Begin(r) \/ End(r) \/ Answer(r)

Spec == Init /\ [][Next]_vars
=============================================================================
