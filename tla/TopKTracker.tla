---------------------------- MODULE TopKTracker ----------------------------
(***************************************************************************)
(* The tracker every solver feeds (src/src/search/tracker.rs), as the      *)
(* state machine of one search: results arrive in an order the traversal   *)
(* decides, some of them twice, and the solver prunes with what the        *)
(* tracker answers in between.                                             *)
(***************************************************************************)
EXTENDS TopK

CONSTANTS
  Result,    \* the concrete legal deck results
  Contexts,  \* the requests: [target, minimize] records
  TopKs,     \* the requested result counts
  Base       \* the factor of the MySekai rank encoding, 2^32 in the code

\* A layout lists the deck's concrete cards, so it and the public set it sorts
\* to determine the result; and the rank encoding has room for every power.
ASSUME ResultAssumption ==
  /\ \A r \in Result : /\ r.score \in Nat
                       /\ r.power \in Nat
                       /\ r.set \in Nat
                       /\ r.layout \in Nat
                       /\ r.power < Base
  /\ \A a, b \in Result : a.set = b.set /\ a.layout = b.layout => a = b

ASSUME ParameterAssumption ==
  /\ TopKs \subseteq Nat
  /\ Base \in Nat \ {0}
  /\ \A c \in Contexts : c.target \in {"score", "power", "mysekai"}
                         /\ c.minimize \in BOOLEAN

VARIABLES
  ctx, topK,       \* the request, fixed
  floor,           \* external incumbent: an objective K known sets reach, or 0
  outside,         \* history: the results known outside this tracker
  boundsEnabled,   \* whether cutoffs are reported at all
  results,         \* the retained list, best first
  offered          \* history: every result inserted so far

vars == <<ctx, topK, floor, outside, boundsEnabled, results, offered>>

(***************************************************************************)
(* with_floor: a floor comes with K distinct public sets that reach it,    *)
(* found by a maximising search.                                           *)
(***************************************************************************)
FloorContract ==
  \/ floor = 0 /\ outside = {}
  \/ /\ ~Minimizing(ctx)
     /\ IsFiniteSet(outside)
     /\ Cardinality({r.set : r \in {o \in outside : o.score >= floor}}) >= topK

Init ==
  /\ ctx \in Contexts
  /\ topK \in TopKs
  /\ outside \in SUBSET Result
  /\ floor \in {0} \cup {r.score : r \in outside}
  /\ FloorContract
  /\ boundsEnabled \in BOOLEAN
  /\ results = <<>>
  /\ offered = {}

InsertResult(r) ==
  /\ results' = Insert(ctx, topK, results, r)
  /\ offered' = offered \cup {r}
  /\ UNCHANGED <<ctx, topK, floor, outside, boundsEnabled>>

Next == \E r \in Result : InsertResult(r)

Spec == Init /\ [][Next]_vars

-----------------------------------------------------------------------------
(* What a solver reads.                                                      *)

Cutoff == IF boundsEnabled THEN Threshold(topK, results, floor) ELSE 0

RankCutoff == IF boundsEnabled THEN RankThreshold(ctx, topK, results, floor, Base) ELSE 0

\* A bound that rules a result out: strictly below the cutoff, strictly above
\* it when the weakest deck is wanted.
BeyondCutoff(r) ==
  /\ boundsEnabled /\ HasCutoff(topK, results, floor)
  /\ IF Minimizing(ctx) THEN r.score > Cutoff ELSE Rank(ctx, r, Base) < RankCutoff

\* cutoff_public_set: outside MySekai, a tie with the cutoff that sorts later.
\* Its readers (solver/numeric.rs and solver/power.rs) own trackers without a
\* floor; above the K-th objective a floor would break the test.
TieBeyondCutoff(r) ==
  /\ boundsEnabled /\ Full(topK, results) /\ floor = 0
  /\ ctx.target # "mysekai"
  /\ r.score = Cutoff
  /\ r.set > results[Len(results)].set

Pruned(r) == BeyondCutoff(r) \/ TieBeyondCutoff(r)

-----------------------------------------------------------------------------
(* The tracker's list is a list of at most K known results.                 *)
TypeOK ==
  /\ ctx \in Contexts
  /\ topK \in TopKs
  /\ floor \in Nat
  /\ outside \subseteq Result
  /\ boundsEnabled \in BOOLEAN
  /\ results \in Seq(Result)
  /\ Len(results) <= topK
  /\ offered \subseteq Result

(***************************************************************************)
(* The order in which a search meets its results, and meeting one again,   *)
(* never changes the answer: the list is the canonical Top-K of what was   *)
(* inserted, even when a retained set's representative is replaced at the  *)
(* moment the list is full, or when an evicted set returns with a better   *)
(* representative.                                                         *)
(***************************************************************************)
Canonical == INSTANCE CanonicalTopK WITH answer <- ToSet(results)

AnswersCanonically == Canonical!Spec

(***************************************************************************)
(* The list is in the order the caller returns it: best key first, one     *)
(* entry for each public set.                                              *)
(***************************************************************************)
RankedDistinct ==
  \A i, j \in 1..Len(results) :
    i < j => /\ KeyLess(ctx, results[i], results[j])
             /\ results[i].set # results[j].set

(***************************************************************************)
(* What a solver may conclude from the cutoffs it reads.  A deck they rule *)
(* out is in no answer that also counts the results known outside, so a    *)
(* floor handed to an inner search and the public-set test on ties lose    *)
(* nothing.                                                                *)
(***************************************************************************)
PrunedIsNeverCanonical ==
  \A r \in Result \ (offered \cup outside) :
    Pruned(r) =>
      r \notin CanonicalTopK(ctx, topK, offered \cup outside \cup {r})

(***************************************************************************)
(* A decision taken against the cutoff stays right: solvers keep a         *)
(* threshold they read at a node's entry while its children insert         *)
(* results, so what was ruled out once must stay ruled out.                *)
(***************************************************************************)
PruningIsStable ==
  [][\A r \in Result : Pruned(r) => Pruned(r)']_vars
=============================================================================
