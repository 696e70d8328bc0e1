------------------------- MODULE TopKTracker_proofs -------------------------
(***************************************************************************)
(* The Top-K tracker answers canonically, for every set of results, every  *)
(* request, floor and K; and what a solver may conclude from its cutoffs:  *)
(* a cutoff only moves towards the answer, and nothing it rules out        *)
(* belongs there.                                                          *)
(***************************************************************************)
EXTENDS TopKTracker, CommonLemmas

-----------------------------------------------------------------------------
(* The tracker's results.                                                    *)

(* The results of a search are a set the ranking can order.                *)
LEMMA TrackerResults == ResultSet(Result) /\ Keyed(Result)
  BY ResultAssumption DEF ResultSet, Keyed

(* Their keys are made of integers.                                        *)
LEMMA ResultKeys ==
  ASSUME NEW cx, NEW a \in Result
  PROVE  /\ Objective(cx, a) \in Int /\ ResolvedPower(cx, a) \in Int
         /\ a.set \in Nat /\ a.layout \in Nat
  BY TrackerResults, KeyParts

(* Their keys are a strict total order.                                    *)
LEMMA ResultOrder ==
  ASSUME NEW cx
  PROVE  /\ \A a \in Result : ~KeyLess(cx, a, a)
         /\ \A a, b, d \in Result :
              KeyLess(cx, a, b) /\ KeyLess(cx, b, d) => KeyLess(cx, a, d)
         /\ \A a, b \in Result : KeyLess(cx, a, b) \/ KeyLess(cx, b, a) \/ a = b
  BY TrackerResults, KeyLessIsTotalOrder

-----------------------------------------------------------------------------
(* The invariant of the machine.                                             *)

\* TypeOK bounds the list and RankedDistinct orders it; neither says why what
\* is missing may be missing.  Coverage does, and it is what survives a step:
\* whether the list is canonical for the results offered so far cannot be
\* carried over an insertion without it.
Coverage ==
  /\ IsFiniteSet(offered)
  /\ ToSet(results) \subseteq offered
  /\ \A o \in offered : Covers(ctx, topK, results, o)

IInv == TypeOK /\ RankedDistinct /\ Coverage

(* A search starts with the empty list and nothing offered.                *)
LEMMA InitIInv ==
  Init => IInv
<1> SUFFICES ASSUME Init PROVE IInv
  OBVIOUS
<1>1. topK \in Nat  BY ParameterAssumption DEF Init
<1>2. Len(results) = 0 /\ results \in Seq(Result) /\ ToSet(results) = {}
  <2>1. results = <<>>  BY DEF Init
  <2> QED BY <2>1, EmptySeq DEF ToSet
<1>3. floor \in Nat
  BY ResultAssumption DEF Init
<1>4. TypeOK  BY <1>1, <1>2, <1>3 DEF Init, TypeOK
<1>5. RankedDistinct  BY <1>2 DEF RankedDistinct
<1>6. Coverage  BY <1>2, FS_EmptySet DEF Init, Coverage
<1> QED BY <1>4, <1>5, <1>6 DEF IInv

(* Every insertion preserves the invariant, by InsertCorrect, TrackerResults.              *)
LEMMA StepIInv ==
  IInv /\ [Next]_vars => IInv'
<1> SUFFICES ASSUME IInv, [Next]_vars PROVE IInv'
  OBVIOUS
<1>t. /\ ctx \in Contexts /\ topK \in Nat /\ results \in Seq(Result)
      /\ Len(results) <= topK /\ Ranked(ctx, results)
      /\ offered \subseteq Result
  BY ParameterAssumption DEF IInv, TypeOK, RankedDistinct, Ranked
<1>1. ASSUME NEW r \in Result, InsertResult(r) PROVE IInv'
  <2>1. Inserted(Result, ctx, topK, results, r, results')
    BY <1>t, <1>1, InsertCorrect, TrackerResults DEF InsertResult
  <2>2. UNCHANGED <<ctx, topK, floor, outside, boundsEnabled>>
        /\ offered' = offered \cup {r}
    BY <1>1 DEF InsertResult
  <2>3. TypeOK'
    BY <2>1, <2>2 DEF IInv, TypeOK, Inserted
  <2>4. RankedDistinct'
    BY <2>1, <2>2 DEF RankedDistinct, Inserted, Ranked
  <2>5. IsFiniteSet(offered')
    BY <2>2, FS_AddElement DEF IInv, Coverage
  <2>6. ToSet(results') \subseteq offered'
    <3>1. results' \in Seq(Result) /\ \A i \in 1..Len(results') :
            results'[i] = r \/ \E j \in 1..Len(results) : results'[i] = results[j]
      BY <2>1 DEF Inserted
    <3>2. \A j \in 1..Len(results) : results[j] \in offered
      BY <1>t, LenProperties DEF IInv, Coverage, ToSet
    <3>3. \A i \in 1..Len(results') : results'[i] \in offered'
      BY <3>1, <3>2, <2>2
    <3> QED BY <3>1, <3>3, LenProperties DEF ToSet
  <2>7. \A o \in offered' : Covers(ctx', topK', results', o)
    <3>1. Covers(ctx, topK, results', r)  BY <2>1 DEF Inserted
    <3>2. \A o \in offered : Covers(ctx, topK, results', o)
      BY <2>1, <1>t DEF Inserted, IInv, Coverage
    <3> QED BY <3>1, <3>2, <2>2
  <2> QED BY <2>3, <2>4, <2>5, <2>6, <2>7 DEF IInv, Coverage
<1>2. CASE UNCHANGED vars
  BY <1>2 DEF vars, IInv, TypeOK, RankedDistinct, Coverage
<1> QED BY <1>1, <1>2 DEF Next

(* The inductive invariant holds in every state of every search.           *)
THEOREM Invariant == Spec => []IInv
<1>1. Init => IInv  BY InitIInv
<1>2. IInv /\ [Next]_vars => IInv'  BY StepIInv
<1> QED BY <1>1, <1>2, PTL DEF Spec

(* The tracker's list is a list of at most K known results: every deck a   *)
(* caller is handed was offered by a solver and none exceeds the limit.    *)
THEOREM TypeCorrect == Spec => []TypeOK
<1>1. IInv => TypeOK  BY DEF IInv
<1> QED BY <1>1, Invariant, PTL

(* The list is always strictly ranked and holds one representative of each *)
(* public set, as deck_result_cmp and the public-set identity of           *)
(* tracker.rs require.                                                     *)
THEOREM ResultsAreRanked == Spec => []RankedDistinct
<1>1. IInv => RankedDistinct  BY DEF IInv
<1> QED BY <1>1, Invariant, PTL

-----------------------------------------------------------------------------
(* The tracker implements the canonical answer.                              *)

(* The invariant makes the list the canonical answer to what was offered.  *)
LEMMA CanonicalAnswer ==
  IInv => ToSet(results) = CanonicalTopK(ctx, topK, offered)
<1> SUFFICES ASSUME IInv PROVE ToSet(results) = CanonicalTopK(ctx, topK, offered)
  OBVIOUS
<1>1. /\ ctx \in Contexts /\ topK \in Nat /\ results \in Seq(Result)
      /\ Len(results) <= topK /\ Ranked(ctx, results)
      /\ offered \in SUBSET Result
  BY ParameterAssumption DEF IInv, TypeOK, RankedDistinct, Ranked
<1>2. /\ IsFiniteSet(offered) /\ ToSet(results) \subseteq offered
      /\ \A o \in offered : Covers(ctx, topK, results, o)
  BY DEF IInv, Coverage
<1> QED BY <1>1, <1>2, CoveringListIsCanonical, TrackerResults

(* The abstract specification's own copy of the definition says the same.  *)
LEMMA SameCardinality ==
  ASSUME NEW S PROVE Canonical!Cardinality(S) = Cardinality(S)
BY DEF Canonical!Cardinality, Cardinality

(* The two instances of CanonicalTopK agree on every argument.             *)
LEMMA SameCanonicalTopK ==
  ASSUME NEW cx, NEW k, NEW S
  PROVE  Canonical!CanonicalTopK(cx, k, S) = CanonicalTopK(cx, k, S)
<1>1. \A a, b : Canonical!KeyLess(cx, a, b) <=> KeyLess(cx, a, b)
  BY DEF KeyLess, Canonical!KeyLess, Objective, Canonical!Objective,
         ResolvedPower, Canonical!ResolvedPower, Minimizing, Canonical!Minimizing
<1>2. Canonical!Representatives(cx, S) = Representatives(cx, S)
  BY <1>1 DEF Representatives, Canonical!Representatives
<1> QED BY <1>1, <1>2, SameCardinality DEF CanonicalTopK, Canonical!CanonicalTopK

(* Initial states map to initial states.                                   *)
LEMMA InitRefines ==
  Init => Canonical!Init
<1>1. ASSUME results = <<>> PROVE ToSet(results) = {}
  BY <1>1 DEF ToSet
<1> QED BY <1>1 DEF Init, Canonical!Init

(* An insertion maps to an offer, a stutter to a stutter.                  *)
LEMMA StepRefines ==
  IInv /\ IInv' /\ [Next]_vars =>
    [Canonical!Next]_<<ctx, topK, offered, ToSet(results)>>
<1> SUFFICES ASSUME IInv, IInv', [Next]_vars
             PROVE  [Canonical!Next]_<<ctx, topK, offered, ToSet(results)>>
  OBVIOUS
<1>1. ASSUME NEW r \in Result, InsertResult(r) PROVE Canonical!Next
  <2>1. ToSet(results') = CanonicalTopK(ctx', topK', offered')
    <3>1. IInv' => (ToSet(results) = CanonicalTopK(ctx, topK, offered))'
      BY CanonicalAnswer, PTL
    <3> QED BY <3>1
  <2>2. UNCHANGED <<ctx, topK>> /\ offered' = offered \cup {r}
    BY <1>1 DEF InsertResult
  <2>3. Canonical!Offer(r)
    BY <2>1, <2>2, SameCanonicalTopK DEF Canonical!Offer
  <2> QED BY <2>3 DEF Canonical!Next
<1>2. CASE UNCHANGED vars
  BY <1>2 DEF vars
<1> QED BY <1>1, <1>2 DEF Next

(* In whatever order a traversal meets its results, and however often, the *)
(* tracker holds the canonical Top-K of what it met, for every set of      *)
(* decks, every request and every K.                                       *)
THEOREM TrackerAnswersCanonically == Spec => AnswersCanonically
<1>1. Init => Canonical!Init  BY InitRefines
<1>2. IInv /\ IInv' /\ [Next]_vars =>
        [Canonical!Next]_<<ctx, topK, offered, ToSet(results)>>
  BY StepRefines
<1> QED BY <1>1, <1>2, Invariant, PTL DEF Spec, AnswersCanonically, Canonical!Spec

-----------------------------------------------------------------------------
(* The K-th entry.                                                           *)

(* Once full, a list stays full, and its last entry never gets worse.      *)
LEMMA LastEntryImproves ==
  ASSUME NEW cx \in Contexts, NEW k \in Nat, NEW s \in Seq(Result),
         Len(s) = k, k # 0, Ranked(cx, s), NEW c \in Result,
         NEW t, t = Insert(cx, k, s, c)
  PROVE  /\ Len(t) = k
         /\ t[k] = s[k] \/ KeyLess(cx, t[k], s[k])
<1>1. CASE Rejects(cx, k, s, c)
  BY <1>1 DEF Insert
<1>2. CASE ~Rejects(cx, k, s, c)
  <2> DEFINE kept == Without(s, SameSet(s, c))
             p == PartitionPoint(cx, kept, c)
             grown == InsertAt(kept, p, c)
  <2>1. t = IF Len(grown) > k THEN Front(grown) ELSE grown
    BY <1>2 DEF Insert, Placed
  <2>2. IsKept(Result, cx, s, c, kept)  BY KeptProperties, TrackerResults
  <2> HIDE DEF kept
  <2>3. kept \in Seq(Result) /\ Ranked(cx, kept)  BY <2>2 DEF IsKept
  <2>4. Separates(cx, kept, c, p)
    BY <2>3, PartitionPointProperties, TrackerResults DEF Separates
  <2> HIDE DEF p
  <2>5. IsGrown(Result, kept, p, c, grown)
    <3>1. p \in 1..Len(kept) + 1  BY <2>4 DEF Separates
    <3>2. /\ grown \in Seq(Result)
          /\ Len(grown) = Len(kept) + 1
          /\ \A i \in 1..Len(kept) + 1 :
               grown[i] = IF i < p THEN kept[i] ELSE IF i = p THEN c ELSE kept[i - 1]
      BY <2>3, <3>1, InsertAtProperties
    <3> HIDE DEF grown
    <3> QED BY <3>2 DEF IsGrown
  <2> HIDE DEF grown
  <2>6. Placement(Result, cx, k, s, c, grown)
    BY <1>2, <2>2, <2>4, <2>5, PlacedProperties, TrackerResults
  <2>7. grown \in Seq(Result) /\ Len(grown) \in Nat /\ Overflow(cx, k, s, grown)
    BY <2>6, LenProperties DEF Placement
  <2>8. Len(t) = k /\ t[k] = grown[k]
    BY <2>1, <2>7, FrontProperties DEF Overflow
  <2> QED BY <2>7, <2>8 DEF Overflow
<1> QED BY <1>1, <1>2

(* In a ranked list of K entries every entry is at least as good as the    *)
(* last.                                                                   *)
LEMMA LastIsWorst ==
  ASSUME NEW cx \in Contexts, NEW s \in Seq(Result), Ranked(cx, s),
         NEW i \in 1..Len(s)
  PROVE  s[i] = s[Len(s)] \/ KeyLess(cx, s[i], s[Len(s)])
  BY LenProperties DEF Ranked

-----------------------------------------------------------------------------
(* When a result is in no answer.                                            *)

(* A result that K public sets beat is in no canonical answer.             *)
LEMMA ManyBetterSets ==
  ASSUME NEW cx \in Contexts, NEW k \in Nat,
         NEW S \in SUBSET Result, IsFiniteSet(S), NEW r \in S,
         NEW T, IsFiniteSet(T), k <= Cardinality(T),
         \A x \in T : \E o \in S : o.set = x /\ KeyLess(cx, o, r)
  PROVE  r \notin CanonicalTopK(cx, k, S)
<1> DEFINE Reps == Representatives(cx, S)
           Better == {q \in Reps : KeyLess(cx, q, r)}
           first == [x \in T |-> CHOOSE q \in Better : q.set = x]
<1>1. ASSUME NEW x \in T PROVE \E q \in Better : q.set = x
  <2>1. PICK o \in S : o.set = x /\ KeyLess(cx, o, r)  OBVIOUS
  <2>2. PICK q \in Reps : q.set = o.set /\ ~KeyLess(cx, o, q)
    BY RepresentativeExists, TrackerResults
  <2>3. q \in Result /\ o \in Result /\ r \in Result
    BY DEF Representatives
  <2>4. KeyLess(cx, q, r)
    BY <2>1, <2>2, <2>3, ResultOrder
  <2> QED BY <2>1, <2>2, <2>4
<1>2. \A x \in T : first[x] \in Better /\ first[x].set = x
  <2> HIDE DEF Better
  <2> QED BY <1>1
<1>3. IsFiniteSet(Better)
  <2>1. Better \in SUBSET S  BY DEF Representatives
  <2> HIDE DEF Better
  <2> QED BY <2>1, FS_Subset
<1>4. first \in Injection(T, Better)
  <2>1. first \in [T -> Better]  BY <1>2
  <2>2. \A x, y \in T : first[x] = first[y] => x = y  BY <1>2
  <2> HIDE DEF first, Better
  <2> QED BY <2>1, <2>2, Fun_IsInj
<1>5. Cardinality(T) <= Cardinality(Better)
  <2> HIDE DEF first, Better
  <2> QED BY <1>3, <1>4, FS_Injection
<1>6. Cardinality(T) \in Nat /\ Cardinality(Better) \in Nat
  <2> HIDE DEF Better
  <2> QED BY <1>3, FS_CardinalityType
<1>7. ~(Cardinality(Better) < k)
  <2> HIDE DEF Better
  <2> QED BY <1>5, <1>6
<1> QED BY <1>7 DEF CanonicalTopK

(* The entries of a full list that a result sorts behind.                  *)
LEMMA BehindFullList ==
  ASSUME NEW cx \in Contexts, NEW k \in Nat, NEW s \in Seq(Result),
         Len(s) = k, k # 0, Ranked(cx, s),
         NEW S \in SUBSET Result, IsFiniteSet(S), ToSet(s) \subseteq S,
         NEW r \in S, KeyLess(cx, s[k], r)
  PROVE  r \notin CanonicalTopK(cx, k, S)
<1> DEFINE sets == [i \in 1..k |-> s[i].set]
           T == {s[i].set : i \in 1..k}
<1>0. /\ \A i \in 1..k : s[i] \in Result /\ s[i] \in S
      /\ k \in 1..k
  BY LenProperties, ElementOfSeq DEF ToSet
<1>1. \A x \in T : \E o \in S : o.set = x /\ KeyLess(cx, o, r)
  <2>1. ASSUME NEW i \in 1..k PROVE KeyLess(cx, s[i], r)
    BY <1>0, LastIsWorst, ResultOrder
  <2> QED BY <2>1, <1>0
<1>2. IsFiniteSet(T)
  <2>1. DOMAIN sets = 1..k /\ sets = [i \in 1..k |-> sets[i]]
        /\ \A x \in T : \E i \in 1..k : sets[i] = x
    OBVIOUS
  <2> HIDE DEF sets, T
  <2> QED BY <2>1, ImageCardinality
<1>3. k <= Cardinality(T)
  <2>1. sets \in [1..k -> T]  OBVIOUS
  <2>2. \A i, j \in 1..k : sets[i] = sets[j] => i = j
    BY LenProperties DEF Ranked
  <2> HIDE DEF sets, T
  <2> QED BY <2>1, <2>2, <1>2, DistinctCardinality
<1> HIDE DEF T
<1> QED BY <1>1, <1>2, <1>3, ManyBetterSets

-----------------------------------------------------------------------------
(* What it means to be beyond a cutoff.                                      *)

\* r is strictly behind the entry e in what cutoffs compare: the objective,
\* and for MySekai the power.
Behind(cx, e, r) ==
  IF Minimizing(cx)
  THEN r.score > e.score
  ELSE \/ r.score < e.score
       \/ cx.target = "mysekai" /\ r.score = e.score /\ r.power < e.power

(* Behind an entry, a result sorts behind it, and behind every better one. *)
LEMMA BehindKeys ==
  ASSUME NEW cx \in Contexts, NEW e \in Result, NEW r \in Result, Behind(cx, e, r)
  PROVE  /\ KeyLess(cx, e, r)
         /\ \A d \in Result : KeyLess(cx, d, e) => Behind(cx, d, r)
<1>1. /\ r.score \in Nat /\ r.power \in Nat
      /\ \A d \in Result : d.score \in Nat /\ d.power \in Nat
  BY ResultAssumption
<1>2. CASE Minimizing(cx)
  BY <1>1, <1>2 DEF Behind, KeyLess, Objective, ResolvedPower, Minimizing
<1>3. CASE ~Minimizing(cx)
  BY <1>1, <1>3 DEF Behind, KeyLess, Objective, ResolvedPower
<1> QED BY <1>2, <1>3

\* The list is full and its last entry is ahead of r.
BehindLast(r) ==
  /\ topK # 0 /\ Len(results) = topK
  /\ Behind(ctx, results[topK], r)

\* The floor rules r out by itself.
BelowFloor(r) == ~Minimizing(ctx) /\ r.score < floor

BeyondCutoffReading ==
  \A r \in Result :
    BeyondCutoff(r) <=> boundsEnabled /\ (BehindLast(r) \/ BelowFloor(r))

(* A bound is beyond the cutoff exactly when the last entry of a full list  *)
(* or the floor says so, whatever encodes the rank.                        *)
LEMMA BeyondCutoffMeans ==
  TypeOK /\ FloorContract => BeyondCutoffReading
<1> SUFFICES ASSUME TypeOK, FloorContract, NEW r \in Result
             PROVE  BeyondCutoff(r) <=> boundsEnabled /\ (BehindLast(r) \/ BelowFloor(r))
  BY DEF BeyondCutoffReading
<1> DEFINE last == results[topK]
<1>1. /\ topK \in Nat /\ floor \in Nat /\ Len(results) \in Nat /\ Len(results) <= topK
      /\ ctx \in Contexts
  BY ParameterAssumption, LenProperties DEF TypeOK
<1>2. Full(topK, results) <=> topK # 0 /\ Len(results) = topK
  BY <1>1 DEF Full
<1>3. r.score \in Nat /\ r.power \in Nat /\ r.power < Base
  BY ResultAssumption
<1>4. ASSUME Full(topK, results)
      PROVE  /\ last \in Result /\ results[Len(results)] = last
             /\ last.score \in Nat /\ last.power \in Nat /\ last.power < Base
  BY <1>1, <1>2, <1>4, ElementOfSeq, ResultAssumption DEF TypeOK
<1>5. Base \in Nat /\ 0 < Base  BY ParameterAssumption
<1>6. CASE Minimizing(ctx)
  <2>1. floor = 0  BY <1>6 DEF FloorContract
  <2> QED BY <2>1, <1>1, <1>2, <1>3, <1>4, <1>6
          DEF BeyondCutoff, HasCutoff, Cutoff, Threshold, Larger, BehindLast,
              BelowFloor, Behind
<1>7. CASE ~Minimizing(ctx) /\ ctx.target # "mysekai"
  BY <1>1, <1>2, <1>3, <1>4, <1>7
  DEF BeyondCutoff, HasCutoff, RankCutoff, RankThreshold, Threshold, Larger, Rank,
      BehindLast, BelowFloor, Behind
<1>8. CASE ~Minimizing(ctx) /\ ctx.target = "mysekai"
  <2>1. Rank(ctx, r, Base) < floor * Base <=> r.score < floor
    <3>1. r.score * Base + r.power < floor * Base + 0 <=> r.score < floor
      BY <1>1, <1>3, <1>5, RankOrder
    <3>2. floor * Base \in Nat  BY <1>1, <1>5
    <3> QED BY <3>1, <3>2, <1>8 DEF Rank
  <2>2. CASE Full(topK, results)
    <3> DEFINE own == last.score * Base + last.power
    <3>1. Rank(ctx, r, Base) < own <=> Behind(ctx, last, r)
      <4>1. r.score * Base + r.power < own
              <=> r.score < last.score \/ (r.score = last.score /\ r.power < last.power)
        <5>1. \A a, b, p, q \in Nat :
                p < Base /\ q < Base =>
                  (a * Base + p < b * Base + q <=> a < b \/ (a = b /\ p < q))
          BY <1>5, RankOrder
        <5>2. /\ last.score \in Nat /\ last.power \in Nat /\ last.power < Base
          BY <1>4, <2>2
        <5> HIDE DEF last
        <5> QED BY <5>1, <5>2, <1>3
      <4> HIDE DEF own, last
      <4> QED BY <4>1, <1>8 DEF Rank, Behind
    <3>2. RankThreshold(ctx, topK, results, floor, Base) = Larger(own, floor * Base)
      BY <1>4, <1>8, <2>2 DEF RankThreshold
    <3>3. own \in Int /\ floor * Base \in Int /\ Rank(ctx, r, Base) \in Int
      BY <1>1, <1>3, <1>4, <1>5, <2>2 DEF Rank
    <3> HIDE DEF own
    <3>4. Rank(ctx, r, Base) < Larger(own, floor * Base)
            <=> Rank(ctx, r, Base) < own \/ Rank(ctx, r, Base) < floor * Base
      BY <3>3 DEF Larger
    <3> QED BY <3>1, <3>2, <3>4, <2>1, <2>2, <1>2, <1>8
            DEF BeyondCutoff, HasCutoff, RankCutoff, BehindLast, BelowFloor
  <2>3. CASE ~Full(topK, results)
    <3>1. RankThreshold(ctx, topK, results, floor, Base) = floor * Base
      BY <1>8, <2>3 DEF RankThreshold
    <3>2. r.score < floor => floor # 0  BY <1>1, <1>3
    <3> QED BY <3>1, <3>2, <2>1, <2>3, <1>2, <1>8
            DEF BeyondCutoff, HasCutoff, RankCutoff, BehindLast, BelowFloor
  <2> QED BY <2>2, <2>3
<1> QED BY <1>6, <1>7, <1>8

\* The tie test: level with the last entry of a full list, and a later set.
TiesLast(r) ==
  /\ topK # 0 /\ Len(results) = topK
  /\ r.score = results[topK].score
  /\ r.set > results[topK].set

TieBeyondCutoffReading ==
  \A r \in Result :
    TieBeyondCutoff(r) <=>
      boundsEnabled /\ floor = 0 /\ ctx.target # "mysekai" /\ TiesLast(r)

(* The public-set test compares with the last entry.                       *)
LEMMA TieBeyondCutoffMeans ==
  TypeOK => TieBeyondCutoffReading
<1> SUFFICES ASSUME TypeOK, NEW r \in Result
             PROVE  TieBeyondCutoff(r) <=>
                      boundsEnabled /\ floor = 0 /\ ctx.target # "mysekai" /\ TiesLast(r)
  BY DEF TieBeyondCutoffReading
<1>1. /\ topK \in Nat /\ Len(results) \in Nat /\ Len(results) <= topK
  BY ParameterAssumption, LenProperties DEF TypeOK
<1>2. Full(topK, results) <=> topK # 0 /\ Len(results) = topK
  BY <1>1 DEF Full
<1>3. ASSUME Full(topK, results)
      PROVE  results[topK].score \in Nat /\ results[Len(results)] = results[topK]
  BY <1>1, <1>2, <1>3, ElementOfSeq, ResultAssumption DEF TypeOK
<1>4. Full(topK, results) /\ boundsEnabled /\ floor = 0 => Cutoff = results[topK].score
  BY <1>2, <1>3 DEF Cutoff, Threshold, Larger
<1> QED BY <1>2, <1>3, <1>4 DEF TieBeyondCutoff, TiesLast

(* A result that ties with a later set sorts behind the last entry, and    *)
(* once that entry improves it ties with a later set again or is beyond    *)
(* the cutoff.                                                             *)
LEMMA TieKeys ==
  ASSUME NEW cx \in Contexts, cx.target # "mysekai",
         NEW e \in Result, NEW r \in Result, r.score = e.score, r.set > e.set
  PROVE  /\ KeyLess(cx, e, r)
         /\ \A d \in Result :
              KeyLess(cx, d, e) =>
                \/ Behind(cx, d, r)
                \/ r.score = d.score /\ r.set > d.set
<1>1. \A d \in Result : d.score \in Nat /\ d.set \in Nat
  BY ResultAssumption
<1> QED BY <1>1 DEF KeyLess, Objective, ResolvedPower, Behind

-----------------------------------------------------------------------------
(* The cutoffs are sound.                                                    *)

CutoffInv == IInv /\ FloorContract

(* A result that K sets known outside outrank is in no answer.             *)
LEMMA FloorIsSound ==
  ASSUME CutoffInv, NEW r \in Result, BelowFloor(r),
         NEW S \in SUBSET Result, IsFiniteSet(S), outside \subseteq S, r \in S
  PROVE  r \notin CanonicalTopK(ctx, topK, S)
<1> DEFINE High == {o \in outside : o.score >= floor}
           T == {o.set : o \in High}
           setOf == [o \in High |-> o.set]
<1>1. /\ ctx \in Contexts /\ topK \in Nat /\ floor \in Nat
      /\ outside \subseteq Result
  BY ParameterAssumption DEF CutoffInv, IInv, TypeOK
<1>2. /\ ~Minimizing(ctx) /\ r.score < floor /\ r.score \in Nat
  BY ResultAssumption DEF BelowFloor
<1>3. IsFiniteSet(outside) /\ Cardinality(T) >= topK
  BY <1>1, <1>2 DEF CutoffInv, FloorContract
<1>4. IsFiniteSet(T)
  <2>1. High \in SUBSET outside  OBVIOUS
  <2>2. IsFiniteSet(High)
    <3> HIDE DEF High
    <3> QED BY <2>1, <1>3, FS_Subset
  <2>3. setOf \in [High -> T] /\ \A x \in T : \E o \in High : setOf[o] = x
    OBVIOUS
  <2> HIDE DEF High, T, setOf
  <2>4. setOf \in Surjection(High, T)  BY <2>3, Fun_IsSurj
  <2> QED BY <2>2, <2>4, FS_Surjection
<1>5. \A x \in T : \E o \in S : o.set = x /\ KeyLess(ctx, o, r)
  <2>1. ASSUME NEW o \in High PROVE o \in S /\ KeyLess(ctx, o, r)
    <3>1. o \in Result /\ o.score \in Nat /\ r.score < o.score
      BY <1>1, <1>2, ResultAssumption
    <3>2. Behind(ctx, o, r)  BY <3>1, <1>2 DEF Behind
    <3> QED BY <3>1, <3>2, <1>1, BehindKeys
  <2> QED BY <2>1
<1>6. topK <= Cardinality(T) /\ T = T
  <2>1. Cardinality(T) \in Nat
    <3> HIDE DEF T
    <3> QED BY <1>4, FS_CardinalityType
  <2> HIDE DEF T
  <2> QED BY <2>1, <1>1, <1>3
<1> HIDE DEF T
<1> QED BY <1>1, <1>4, <1>5, <1>6, ManyBetterSets

(* The property of the state.                                              *)
LEMMA CutoffsAreSound ==
  CutoffInv => PrunedIsNeverCanonical
<1> SUFFICES ASSUME CutoffInv, NEW r \in Result \ (offered \cup outside), Pruned(r)
             PROVE  r \notin CanonicalTopK(ctx, topK, offered \cup outside \cup {r})
  BY DEF PrunedIsNeverCanonical
<1> DEFINE S == offered \cup outside \cup {r}
<1>1. /\ TypeOK /\ FloorContract /\ ctx \in Contexts /\ topK \in Nat
      /\ results \in Seq(Result) /\ Ranked(ctx, results)
      /\ offered \subseteq Result /\ outside \subseteq Result
      /\ IsFiniteSet(offered) /\ ToSet(results) \subseteq offered
  BY ParameterAssumption DEF CutoffInv, IInv, TypeOK, RankedDistinct, Ranked, Coverage
<1>2. S \in SUBSET Result /\ r \in S /\ r \in Result
      /\ outside \subseteq S /\ ToSet(results) \subseteq S
  BY <1>1
<1>3. IsFiniteSet(S)
  <2>1. IsFiniteSet(outside)
    BY <1>1, FS_EmptySet DEF FloorContract
  <2>2. IsFiniteSet(offered \cup outside)
    BY <2>1, <1>1, FS_Union
  <2> QED BY <2>2, FS_AddElement
<1> HIDE DEF S
<1>4. ASSUME topK # 0, Len(results) = topK
      PROVE  results[topK] \in Result
  BY <1>1, <1>4, ElementOfSeq
<1>5. CASE BehindLast(r)
  <2>1. KeyLess(ctx, results[topK], r)
    BY <1>1, <1>2, <1>4, <1>5, BehindKeys DEF BehindLast
  <2> QED BY <2>1, <1>1, <1>2, <1>3, <1>5, BehindFullList DEF BehindLast, S
<1>6. CASE BelowFloor(r)
  BY <1>2, <1>3, <1>6, FloorIsSound DEF S
<1>7. CASE ctx.target # "mysekai" /\ TiesLast(r)
  <2>1. KeyLess(ctx, results[topK], r)
    BY <1>1, <1>2, <1>4, <1>7, TieKeys DEF TiesLast
  <2> QED BY <2>1, <1>1, <1>2, <1>3, <1>7, BehindFullList DEF TiesLast, S
<1> QED BY <1>1, <1>2, <1>5, <1>6, <1>7, BeyondCutoffMeans, TieBeyondCutoffMeans
        DEF Pruned, BeyondCutoffReading, TieBeyondCutoffReading

-----------------------------------------------------------------------------
(* The cutoffs are stable.                                                   *)

(* The property of a step.                                                 *)
LEMMA CutoffsAreStable ==
  ASSUME CutoffInv, CutoffInv', [Next]_vars, NEW r \in Result, Pruned(r)
  PROVE  Pruned(r)'
<1>1. /\ TypeOK /\ FloorContract /\ ctx \in Contexts /\ topK \in Nat
      /\ results \in Seq(Result) /\ Ranked(ctx, results)
  BY ParameterAssumption DEF CutoffInv, IInv, TypeOK, RankedDistinct, Ranked
<1>2. TypeOK' /\ FloorContract'
  BY DEF CutoffInv, IInv
<1>3. BeyondCutoff(r)' <=> boundsEnabled' /\ (BehindLast(r)' \/ BelowFloor(r)')
  <2>1. TypeOK' /\ FloorContract' => BeyondCutoffReading'
    BY BeyondCutoffMeans, PTL
  <2> QED BY <2>1, <1>2 DEF BeyondCutoffReading
<1>4. TieBeyondCutoff(r)' <=>
        boundsEnabled' /\ floor' = 0 /\ (ctx').target # "mysekai" /\ TiesLast(r)'
  <2>1. TypeOK' => TieBeyondCutoffReading'
    BY TieBeyondCutoffMeans, PTL
  <2> QED BY <2>1, <1>2 DEF TieBeyondCutoffReading
<1>5. ASSUME NEW c \in Result, InsertResult(c) PROVE Pruned(r)'
  <2>1. UNCHANGED <<ctx, topK, floor, boundsEnabled>>
        /\ results' = Insert(ctx, topK, results, c)
    BY <1>5 DEF InsertResult
  <2>2. results' \in Seq(Result)
    BY <1>2 DEF TypeOK
  <2>3. ASSUME topK # 0, Len(results) = topK
        PROVE  /\ Len(results') = topK
               /\ results[topK] \in Result /\ results'[topK] \in Result
               /\ \/ results'[topK] = results[topK]
                  \/ KeyLess(ctx, results'[topK], results[topK])
    <3>1. /\ Len(results') = topK
          /\ \/ results'[topK] = results[topK]
             \/ KeyLess(ctx, results'[topK], results[topK])
      BY <1>1, <2>1, <2>3, LastEntryImproves
    <3> QED BY <3>1, <1>1, <2>2, <2>3, ElementOfSeq
  <2>4. CASE boundsEnabled /\ BehindLast(r)
    <3>1. Behind(ctx, results'[topK], r)
      BY <1>1, <2>3, <2>4, BehindKeys DEF BehindLast
    <3>2. BehindLast(r)'
      BY <3>1, <2>1, <2>3, <2>4 DEF BehindLast
    <3> QED BY <3>2, <2>1, <2>4, <1>3 DEF Pruned
  <2>5. CASE boundsEnabled /\ BelowFloor(r)
    <3>1. BelowFloor(r)'  BY <2>1, <2>5 DEF BelowFloor
    <3> QED BY <3>1, <2>1, <2>5, <1>3 DEF Pruned
  <2>6. CASE /\ boundsEnabled /\ floor = 0 /\ ctx.target # "mysekai" /\ TiesLast(r)
    <3>1. /\ topK # 0 /\ Len(results) = topK
          /\ r.score = results[topK].score /\ r.set > results[topK].set
      BY <2>6 DEF TiesLast
    <3>2. \/ Behind(ctx, results'[topK], r)
          \/ r.score = results'[topK].score /\ r.set > results'[topK].set
      BY <3>1, <2>3, <2>6, <1>1, TieKeys
    <3>3. BehindLast(r)' \/ TiesLast(r)'
      BY <3>1, <3>2, <2>1, <2>3 DEF BehindLast, TiesLast
    <3> QED BY <3>3, <2>1, <2>6, <1>3, <1>4 DEF Pruned
  <2> QED
    BY <2>4, <2>5, <2>6, <1>1, BeyondCutoffMeans, TieBeyondCutoffMeans
    DEF Pruned, BeyondCutoffReading, TieBeyondCutoffReading
<1>6. CASE UNCHANGED vars
  <2>1. BeyondCutoff(r)' <=> BeyondCutoff(r)
    BY <1>6 DEF vars, BeyondCutoff, Cutoff, RankCutoff
  <2>2. TieBeyondCutoff(r)' <=> TieBeyondCutoff(r)
    BY <1>6 DEF vars, TieBeyondCutoff, Cutoff
  <2> QED BY <2>1, <2>2 DEF Pruned
<1> QED BY <1>5, <1>6 DEF Next

-----------------------------------------------------------------------------
(* The theorems.                                                             *)

(* The request, the floor and what is known outside stay what the caller   *)
(* of the search made them.                                                *)
LEMMA CutoffInvariant == Spec => []CutoffInv
<1>1. Init => FloorContract  BY DEF Init
<1>2. FloorContract /\ [Next]_vars => FloorContract'
  <2>1. FloorContract /\ UNCHANGED <<ctx, topK, floor, outside>> => FloorContract'
    BY DEF FloorContract
  <2> QED BY <2>1 DEF Next, InsertResult, vars
<1> QED BY <1>1, <1>2, Invariant, PTL DEF Spec, CutoffInv

(* A deck that the tracker's threshold, rank threshold or public-set test  *)
(* rules out is in no answer, also when the floor of with_floor stands for *)
(* results the tracker does not hold.                                      *)
THEOREM PruningIsSound == Spec => []PrunedIsNeverCanonical
  BY CutoffInvariant, CutoffsAreSound, PTL

(* A decision a solver took against a cutoff it read before its children   *)
(* inserted results would be taken again now.                              *)
THEOREM PruningStaysValid == Spec => PruningIsStable
<1>1. CutoffInv /\ CutoffInv' /\ [Next]_vars =>
        [\A r \in Result : Pruned(r) => Pruned(r)']_vars
  BY CutoffsAreStable
<1> QED BY <1>1, CutoffInvariant, PTL DEF Spec, PruningIsStable
=============================================================================
