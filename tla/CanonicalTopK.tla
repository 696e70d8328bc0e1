--------------------------- MODULE CanonicalTopK ---------------------------
(***************************************************************************)
(* What every exact search of the recommender promises about its answer:   *)
(* after any sequence of legal results, in any order and with repetitions, *)
(* the answer is the canonical Top-K of the results met so far.            *)
(***************************************************************************)
EXTENDS TopK

CONSTANT Result    \* the concrete legal deck results

VARIABLES
  ctx,      \* the request's target and direction, fixed
  topK,     \* the requested number of public sets, fixed
  offered,  \* the results met so far
  answer    \* the set of retained results

Init ==
  /\ offered = {}
  /\ answer = {}

Offer(r) ==
  /\ offered' = offered \cup {r}
  /\ answer' = CanonicalTopK(ctx, topK, offered')
  /\ UNCHANGED <<ctx, topK>>

Next == \E r \in Result : Offer(r)

Spec == Init /\ [][Next]_<<ctx, topK, offered, answer>>
=============================================================================
