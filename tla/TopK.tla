-------------------------------- MODULE TopK --------------------------------
(***************************************************************************)
(* The canonical ranking of deck results and the retained list of the      *)
(* Top-K tracker (src/src/search/tracker.rs), as operators.                *)
(*                                                                         *)
(* A result is a record with at least the fields                           *)
(*   score   the encoded primary objective of the exact evaluator          *)
(*   power   the clamped resolved power (read for MySekai requests only)   *)
(*   set     the sorted public card ids of the deck                        *)
(*   layout  the ids in slot order, then the dense variants                *)
(* The two arrays are compared lexicographically in the code; here each is *)
(* a natural number that enumerates the arrays in that order.              *)
(*                                                                         *)
(* A context cx is a record with the fields target and minimize.           *)
(***************************************************************************)
EXTENDS Integers, Sequences, FiniteSets, SequencesExt

Minimizing(cx) == cx.minimize /\ cx.target = "power"

\* The code complements the score, which reverses its order and nothing else.
Objective(cx, r) == IF Minimizing(cx) THEN r.score ELSE -r.score

ResolvedPower(cx, r) == IF cx.target = "mysekai" THEN -r.power ELSE 0

\* The derived order of ResultKey: field by field, smaller is better.
KeyLess(cx, a, b) ==
  \/ Objective(cx, a) < Objective(cx, b)
  \/ /\ Objective(cx, a) = Objective(cx, b)
     /\ \/ ResolvedPower(cx, a) < ResolvedPower(cx, b)
        \/ /\ ResolvedPower(cx, a) = ResolvedPower(cx, b)
           /\ \/ a.set < b.set
              \/ a.set = b.set /\ a.layout < b.layout

-----------------------------------------------------------------------------
(* What a Top-K answer is, whatever order results were met in: the best     *)
(* representative of each public set, and the first K of those.             *)

Representatives(cx, S) ==
  {r \in S : \A o \in S : o.set = r.set => ~KeyLess(cx, o, r)}

CanonicalTopK(cx, k, S) ==
  LET reps == Representatives(cx, S)
  IN  {r \in reps : Cardinality({o \in reps : KeyLess(cx, o, r)}) < k}

-----------------------------------------------------------------------------
(* The tracker's own list.                                                  *)

\* The first position whose key is not below the candidate's.
PartitionPoint(cx, list, c) ==
  CHOOSE p \in 1..Len(list) + 1 :
    \A i \in 1..Len(list) : KeyLess(cx, list[i], c) <=> i < p

SameSet(list, c) == {i \in DOMAIN list : list[i].set = c.set}

\* Mutant: the displaced representative stays.
WithAll(list, dropped) == list

Without(list, dropped) ==
  IF dropped = {} THEN list ELSE RemoveAt(list, CHOOSE i \in dropped : TRUE)

\* Mutant: a set already in the list is not looked up.
RejectsWhenFull(cx, k, list, c) ==
  \/ k = 0
  \/ Len(list) >= k /\ ~KeyLess(cx, c, list[Len(list)])

\* A full list does not look at a key its last entry already beats.
Rejects(cx, k, list, c) ==
  \/ k = 0
  \/ Len(list) >= k /\ ~KeyLess(cx, c, list[Len(list)])
  \/ \E i \in SameSet(list, c) : ~KeyLess(cx, c, list[i])

Placed(cx, list, c) ==
  LET kept == Without(list, SameSet(list, c))
  IN  InsertAt(kept, PartitionPoint(cx, kept, c), c)

\* Mutant: nothing is popped.
InsertUnbounded(cx, k, list, c) ==
  IF Rejects(cx, k, list, c) THEN list ELSE Placed(cx, list, c)

Insert(cx, k, list, c) ==
  IF Rejects(cx, k, list, c)
  THEN list
  ELSE LET grown == Placed(cx, list, c)
       IN  IF Len(grown) > k THEN Front(grown) ELSE grown

-----------------------------------------------------------------------------
(* Pruning cutoffs read from the list.                                      *)

Larger(a, b) == IF a >= b THEN a ELSE b

Full(k, list) == k > 0 /\ Len(list) >= k

\* cutoff() is Some
HasCutoff(k, list, floor) == Full(k, list) \/ floor # 0

\* Mutant: the best result is read instead of the K-th.
ThresholdOfBest(k, list, floor) ==
  IF Full(k, list) THEN Larger(list[1].score, floor) ELSE floor

\* Mutant: a full list forgets the floor.
ThresholdWithoutFloor(k, list, floor) ==
  IF Full(k, list) THEN list[Len(list)].score ELSE floor

\* threshold(): 0 when cutoff() is None
Threshold(k, list, floor) ==
  IF Full(k, list)
  THEN Larger(list[Len(list)].score, floor)
  ELSE floor

\* rank_threshold: for MySekai the pair (objective, power) as one number, base
\* being larger than every power (2^32 in the code).
RankThreshold(cx, k, list, floor, base) ==
  IF cx.target # "mysekai"
  THEN Threshold(k, list, floor)
  ELSE IF Full(k, list)
       THEN Larger(list[Len(list)].score * base + list[Len(list)].power, floor * base)
       ELSE floor * base

Rank(cx, r, base) ==
  IF cx.target = "mysekai" THEN r.score * base + r.power ELSE r.score
=============================================================================
