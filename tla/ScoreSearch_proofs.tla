------------------------- MODULE ScoreSearch_proofs -------------------------
(***************************************************************************)
(* Theorems about the score search: its list is ranked, its calls are in    *)
(* shape, and the cutoffs it caches are exact, however they were reached    *)
(* from the ones cached before.                                            *)
(***************************************************************************)
EXTENDS ScoreSearch, CommonLemmas

-----------------------------------------------------------------------------
(* The inductive invariant.                                                  *)

Fields == {"mode", "deck", "dense", "partial", "bounded", "threshold", "check", "extra", "queue"}

\* Cards of the pool, of distinct characters.
DeckOK(deck) ==
  /\ deck \in Seq(request.pool)
  /\ \A i, j \in 1..Len(deck) : Card[deck[i]].char = Card[deck[j]].char => i = j

\* The bonus of a prefix is a number, and can be replaced.
PartialOK(partial) == "skill" \in DOMAIN partial /\ partial.bonus \in Nat

\* The lanes ahead bring another character.
LanesOK(f) ==
  \E T : /\ f.queue \in Seq(T)
         /\ \A l \in T : l.card \in request.pool /\ Card[l.card].char \notin UsedBy(f.deck)

\* An open call: only one that is entered may have a whole deck.
FrameOK(f) ==
  /\ DOMAIN f = Fields
  /\ DeckOK(f.deck)
  /\ Len(f.deck) \in 0..(IF f.mode = "enter" THEN DeckSize ELSE DeckSize - 1)
  /\ f.dense \in FirstCard..LastCard + 1
  /\ PartialOK(f.partial)
  /\ f.extra \in Nat
  /\ LanesOK(f)

StackOK(s) == \E S : s \in Seq(S) /\ \A f \in S : FrameOK(f)

\* The tracker's list is ranked by keys that are numbers.
ResultsOK(list) == \E R : Keyed(R) /\ list \in Trackers(R, Ctx, request.topK)

Exact(c, b) ==
  \A l \in 0..LiveLimit : l >= c.live <=> PackScore(l, b) >= c.threshold

Caches ==
  {c \in UNION {[D -> [threshold : Int, live : Nat]] : D \in SUBSET Nat} :
     \A b \in DOMAIN c : Exact(c[b], b)}

Positions == request.pool \cup {LastCard + 1}

BonusFields == {"bonus", "base", "limited"}

\* What is prepared for the pool bounds bonuses by numbers.
SuffixOK ==
  /\ suffix.extra \in Nat
  /\ suffix.support.count \in Nat
  /\ suffix.support.cards \in Seq([id : Nat, value : Nat])
  /\ \A dense \in Positions, field \in BonusFields, slots \in 0..DeckSize :
       DenseTail(dense, field, slots) \in Nat

\* The variables that a step can change.
ShapeOK(sd, ld, st, rs, ct) ==
  /\ sd \in Seq([Slots -> request.pool])
  /\ ld \in Seq(request.pool)
  /\ StackOK(st)
  /\ ResultsOK(rs)
  /\ ct \in Caches

IInv ==
  /\ request \in Requests
  /\ SuffixOK
  /\ ShapeOK(seeds, leaders, stack, results, cutoff)

-----------------------------------------------------------------------------
(* Least elements, functions on an interval, function sets.                  *)

(* A set of naturals that is not empty has a least element.                *)
LEMMA MinProperties ==
  ASSUME NEW S \in SUBSET Nat, S # {}
  PROVE  Min(S) \in S /\ \A y \in S : Min(S) <= y
<1>1. \E x \in S : \A y \in S : x =< y
  BY LeastNatural
<1>2. Min(S) \in S /\ \A y \in S : Min(S) =< y
  BY <1>1, Zenon DEF Min
<1> QED BY <1>2

\* h makes a value of V from an index and another one.
Steps(n, V, h) == \A i \in 1..n, v \in V : h[<<i, v>>] \in V

\* g starts with b and goes on by h.
Follows(n, b, h, g) == g = [i \in 0..n |-> IF i = 0 THEN b ELSE h[<<i, g[i - 1]>>]]

(* A function on 0..n can be defined step by step.                         *)
LEMMA ListRecursion ==
  ASSUME NEW n \in Nat, NEW V, NEW b \in V, NEW h, Steps(n, V, h)
  PROVE  \E g \in [0..n -> V] : Follows(n, b, h, g)
<1> DEFINE Made(m, g) == /\ g \in [0..m -> V] /\ g[0] = b
                         /\ \A i \in 1..m : g[i] = h[<<i, g[i - 1]>>]
           Bad == {m \in 0..n : ~ \E g : Made(m, g)}
<1>1. Bad = {}
  <2> SUFFICES ASSUME Bad # {} PROVE FALSE
    OBVIOUS
  <2>1. PICK m \in Bad : \A k \in Bad : m <= k
    <3>1. Bad \subseteq Nat
      OBVIOUS
    <3> HIDE DEF Bad
    <3> QED BY <3>1, LeastNatural
  <2>2. m \in 0..n /\ ~ \E g : Made(m, g)
    OBVIOUS
  <2>3. CASE m = 0
    <3>1. Made(0, [i \in 0..0 |-> b])
      OBVIOUS
    <3> QED BY <2>2, <2>3, <3>1
  <2>4. CASE m > 0
    <3>1. m - 1 \in 0..n /\ m - 1 \notin Bad
      BY <2>1, <2>4
    <3>2. PICK g : Made(m - 1, g)
      BY <3>1
    <3> DEFINE k == [i \in 0..m |-> IF i = m THEN h[<<m, g[m - 1]>>] ELSE g[i]]
    <3>3. m \in Nat /\ m \in 1..n
      BY <2>2, <2>4
    <3>4. g[m - 1] \in V /\ \A i \in 0..m - 1 : g[i] \in V
      BY <3>2, <3>3
    <3>5. h[<<m, g[m - 1]>>] \in V
      BY <3>3, <3>4 DEF Steps
    <3>6. k \in [0..m -> V]
      BY <3>3, <3>4, <3>5
    <3>7. \A i \in 0..m : k[i] = IF i = m THEN h[<<m, g[m - 1]>>] ELSE g[i]
      OBVIOUS
    <3> HIDE DEF k
    <3>8. k[0] = b
      BY <3>2, <3>3, <3>7
    <3>9. ASSUME NEW i \in 1..m PROVE k[i] = h[<<i, k[i - 1]>>]
      <4>1. i \in 0..m /\ i - 1 \in 0..m /\ i - 1 # m
        BY <3>3
      <4>2. k[i - 1] = g[i - 1]
        BY <3>7, <4>1
      <4>3. CASE i = m
        BY <4>1, <4>2, <4>3, <3>7
      <4>4. CASE i # m
        <5>1. i \in 1..m - 1
          BY <4>4, <3>3
        <5> QED BY <5>1, <4>1, <4>2, <4>4, <3>2, <3>7
      <4> QED BY <4>3, <4>4
    <3>10. Made(m, k)
      BY <3>6, <3>8, <3>9
    <3> QED BY <2>2, <3>10
  <2> QED BY <2>2, <2>3, <2>4
<1>2. PICK g : Made(n, g)
  <2>1. n \in 0..n /\ n \notin Bad
    BY <1>1
  <2> QED BY <2>1
<1>3. g \in [0..n -> V] /\ g[0] = b /\ \A i \in 1..n : g[i] = h[<<i, g[i - 1]>>]
  BY <1>2
<1>4. \A i \in 0..n : g[i] = IF i = 0 THEN b ELSE h[<<i, g[i - 1]>>]
  <2> SUFFICES ASSUME NEW i \in 0..n PROVE g[i] = IF i = 0 THEN b ELSE h[<<i, g[i - 1]>>]
    OBVIOUS
  <2>1. i = 0 \/ i \in 1..n
    OBVIOUS
  <2> QED BY <2>1, <1>3
<1>5. g = [i \in 0..n |-> IF i = 0 THEN b ELSE h[<<i, g[i - 1]>>]]
  BY <1>3, <1>4
<1> QED BY <1>3, <1>5 DEF Follows

(* What holds at the start and passes from each step to the next holds for *)
(* all.                                                                    *)
LEMMA ListInduction ==
  ASSUME NEW n \in Nat, NEW V, NEW g, g[0] \in V,
         \A i \in 1..n : g[i - 1] \in V => g[i] \in V
  PROVE  \A i \in 0..n : g[i] \in V
<1> DEFINE Bad == {m \in 0..n : g[m] \notin V}
<1> SUFFICES ASSUME Bad # {} PROVE FALSE
  OBVIOUS
<1>1. PICK m \in Bad : \A k \in Bad : m <= k
  <2>1. Bad \subseteq Nat
    OBVIOUS
  <2> HIDE DEF Bad
  <2> QED BY <2>1, LeastNatural
<1>2. m \in 1..n /\ m - 1 \in 0..n /\ m - 1 \notin Bad
  BY <1>1
<1> QED BY <1>2

(* There are finitely many functions between finite sets.                  *)
LEMMA FunctionsFinite ==
  ASSUME NEW S, IsFiniteSet(S), NEW T, IsFiniteSet(T)
  PROVE  IsFiniteSet([S -> T])
<1> DEFINE graph(f) == {p \in S \X T : f[p[1]] = p[2]}
           m == [f \in [S -> T] |-> graph(f)]
<1>1. IsFiniteSet(SUBSET (S \X T))
  BY FS_Product, FS_SUBSET
<1>2. m \in [[S -> T] -> SUBSET (S \X T)]
  OBVIOUS
<1>3. ASSUME NEW f \in [S -> T], NEW g \in [S -> T], m[f] = m[g]
      PROVE  f = g
  <2>1. graph(f) = graph(g)
    BY <1>3
  <2>2. ASSUME NEW x \in S PROVE f[x] = g[x]
    <3>1. f[x] \in T /\ <<x, f[x]>> \in S \X T
      OBVIOUS
    <3>2. <<x, f[x]>> \in graph(f)
      BY <3>1
    <3>3. <<x, f[x]>> \in graph(g)
      BY <3>2, <2>1
    <3> QED BY <3>3
  <2> QED BY <2>2
<1> HIDE DEF m
<1>4. m \in Injection([S -> T], SUBSET (S \X T))
  BY <1>2, <1>3 DEF Injection, IsInjective
<1> QED BY <1>1, <1>4, FS_Injection

(* A finite set has finitely many images.                                  *)
LEMMA ImageFinite ==
  ASSUME NEW S, IsFiniteSet(S), NEW f
  PROVE  IsFiniteSet({f[x] : x \in S})
<1> DEFINE T == {f[x] : x \in S}
           m == [x \in S |-> f[x]]
<1>1. m \in Surjection(S, T)
  BY DEF Surjection
<1> HIDE DEF m, T
<1>2. IsFiniteSet(T)
  BY <1>1, FS_Surjection
<1> QED BY <1>2 DEF T

-----------------------------------------------------------------------------
(* Sums and codes of lists.                                                  *)

(* A sum of naturals is one.                                               *)
LEMMA SumOfNat ==
  ASSUME NEW list \in Seq(Nat)
  PROVE  SumOf(list) \in Nat
<1> DEFINE n == Len(list)
           h == [p \in (1..n) \X Nat |-> p[2] + list[p[1]]]
           F == CHOOSE g : g = [i \in 0..n |-> IF i = 0 THEN 0 ELSE g[i - 1] + list[i]]
<1>1. n \in Nat /\ \A i \in 1..n : list[i] \in Nat
  BY LenProperties, ElementOfSeq
<1>2. SumOf(list) = F[n]
  BY Zenon DEF SumOf
<1> HIDE DEF n
<1>3. \A i \in 1..n, v \in Nat : h[<<i, v>>] = v + list[i]
  OBVIOUS
<1> HIDE DEF h
<1>4. Steps(n, Nat, h)
  <2> SUFFICES ASSUME NEW i \in 1..n, NEW v \in Nat PROVE h[<<i, v>>] \in Nat
    BY DEF Steps
  <2>1. h[<<i, v>>] = v + list[i] /\ list[i] \in Nat
    BY <1>1, <1>3
  <2> QED BY <2>1
<1>5. PICK g \in [0..n -> Nat] : Follows(n, 0, h, g)
  <2>1. 0 \in Nat
    OBVIOUS
  <2> QED BY <2>1, <1>1, <1>4, ListRecursion
<1>6. \A i \in 0..n : (IF i = 0 THEN 0 ELSE h[<<i, g[i - 1]>>])
                        = IF i = 0 THEN 0 ELSE g[i - 1] + list[i]
  <2> SUFFICES ASSUME NEW i \in 0..n, i # 0 PROVE h[<<i, g[i - 1]>>] = g[i - 1] + list[i]
    OBVIOUS
  <2>1. i \in 1..n /\ i - 1 \in 0..n
    BY <1>1
  <2>2. g[i - 1] \in Nat
    BY <2>1, <1>5
  <2> QED BY <2>1, <2>2, <1>3
<1>7. g = [i \in 0..n |-> IF i = 0 THEN 0 ELSE g[i - 1] + list[i]]
  BY <1>5, <1>6 DEF Follows
<1>8. F = [i \in 0..n |-> IF i = 0 THEN 0 ELSE F[i - 1] + list[i]]
  BY <1>7, Zenon
<1> HIDE DEF F
<1>9. \A i \in 0..n : F[i] = IF i = 0 THEN 0 ELSE F[i - 1] + list[i]
  BY <1>8, Zenon
<1>10. F[0] \in Nat /\ \A i \in 1..n : F[i - 1] \in Nat => F[i] \in Nat
  <2>1. F[0] = 0
    BY <1>1, <1>9
  <2>2. ASSUME NEW i \in 1..n, F[i - 1] \in Nat PROVE F[i] \in Nat
    <3>1. i \in 0..n /\ i # 0
      BY <1>1
    <3>2. F[i] = F[i - 1] + list[i]
      BY <3>1, <1>9
    <3> QED BY <3>2, <2>2, <1>1
  <2> QED BY <2>1, <2>2
<1>11. \A i \in 0..n : F[i] \in Nat
  BY <1>1, <1>10, ListInduction
<1> QED BY <1>1, <1>2, <1>11

(* A code of naturals is one.                                              *)
LEMMA CodeNat ==
  ASSUME NEW list \in Seq(Nat)
  PROVE  Code(list) \in Nat
<1> DEFINE n == Len(list)
           h == [p \in (1..n) \X Nat |-> p[2] * IdBase + list[p[1]]]
           F == CHOOSE g : g = [i \in 0..n |-> IF i = 0 THEN 0 ELSE g[i - 1] * IdBase + list[i]]
<1>1. n \in Nat /\ \A i \in 1..n : list[i] \in Nat
  BY LenProperties, ElementOfSeq
<1>0. IdBase \in Nat
  BY ConstantAssumption
<1>2. Code(list) = F[n]
  BY Zenon DEF Code
<1> HIDE DEF n
<1>3. \A i \in 1..n, v \in Nat : h[<<i, v>>] = v * IdBase + list[i]
  OBVIOUS
<1> HIDE DEF h
<1>4. Steps(n, Nat, h)
  <2> SUFFICES ASSUME NEW i \in 1..n, NEW v \in Nat PROVE h[<<i, v>>] \in Nat
    BY DEF Steps
  <2>1. h[<<i, v>>] = v * IdBase + list[i] /\ list[i] \in Nat
    BY <1>1, <1>3
  <2>2. v * IdBase \in Nat
    BY <1>0
  <2> QED BY <2>1, <2>2
<1>5. PICK g \in [0..n -> Nat] : Follows(n, 0, h, g)
  <2>1. 0 \in Nat
    OBVIOUS
  <2> QED BY <2>1, <1>1, <1>4, ListRecursion
<1>6. \A i \in 0..n : (IF i = 0 THEN 0 ELSE h[<<i, g[i - 1]>>])
                        = IF i = 0 THEN 0 ELSE g[i - 1] * IdBase + list[i]
  <2> SUFFICES ASSUME NEW i \in 0..n, i # 0 PROVE h[<<i, g[i - 1]>>] = g[i - 1] * IdBase + list[i]
    OBVIOUS
  <2>1. i \in 1..n /\ i - 1 \in 0..n
    BY <1>1
  <2>2. g[i - 1] \in Nat
    BY <2>1, <1>5
  <2> QED BY <2>1, <2>2, <1>3
<1>7. g = [i \in 0..n |-> IF i = 0 THEN 0 ELSE g[i - 1] * IdBase + list[i]]
  BY <1>5, <1>6 DEF Follows
<1>8. F = [i \in 0..n |-> IF i = 0 THEN 0 ELSE F[i - 1] * IdBase + list[i]]
  BY <1>7, Zenon
<1> HIDE DEF F
<1>9. \A i \in 0..n : F[i] = IF i = 0 THEN 0 ELSE F[i - 1] * IdBase + list[i]
  BY <1>8, Zenon
<1>10. F[0] \in Nat /\ \A i \in 1..n : F[i - 1] \in Nat => F[i] \in Nat
  <2>1. F[0] = 0
    BY <1>1, <1>9
  <2>2. ASSUME NEW i \in 1..n, F[i - 1] \in Nat PROVE F[i] \in Nat
    <3>1. i \in 0..n /\ i # 0
      BY <1>1
    <3>2. F[i] = F[i - 1] * IdBase + list[i]
      BY <3>1, <1>9
    <3>3. F[i - 1] * IdBase \in Nat
      BY <2>2, <1>0
    <3> QED BY <3>2, <3>3, <1>1
  <2> QED BY <2>1, <2>2
<1>11. \A i \in 0..n : F[i] \in Nat
  BY <1>1, <1>10, ListInduction
<1> QED BY <1>1, <1>2, <1>11

(* What counts the first values is a natural.                              *)
LEMMA FirstSumNat ==
  ASSUME NEW values \in Seq(Nat), NEW count \in Nat
  PROVE  FirstSum(values, count) \in Nat
<1> DEFINE n == Len(values)
           V == [left : Int, sum : Nat]
           b == [left |-> count, sum |-> 0]
           Counted(prev, i) == IF prev.left = 0 \/ values[i] = 0 THEN prev
                             ELSE [left |-> prev.left - 1, sum |-> prev.sum + values[i]]
           h == [p \in (1..n) \X V |-> Counted(p[2], p[1])]
           F == CHOOSE g : g = [i \in 0..n |-> IF i = 0 THEN b ELSE Counted(g[i - 1], i)]
<1>1. n \in Nat /\ \A i \in 1..n : values[i] \in Nat
  BY LenProperties, ElementOfSeq
<1>2. FirstSum(values, count) = F[n].sum
  BY Zenon DEF FirstSum
<1>b. b \in V
  OBVIOUS
<1>n. \A i \in 1..n, v \in V : Counted(v, i) \in V
  <2> SUFFICES ASSUME NEW i \in 1..n, NEW v \in V PROVE Counted(v, i) \in V
    OBVIOUS
  <2>1. values[i] \in Nat
    BY <1>1
  <2> QED BY <2>1
<1>s. \A v \in V : v.sum \in Nat
  OBVIOUS
<1> HIDE DEF n, Counted, V, b
<1>3. \A i \in 1..n, v \in V : h[<<i, v>>] = Counted(v, i)
  OBVIOUS
<1> HIDE DEF h
<1>4. Steps(n, V, h)
  BY <1>3, <1>n DEF Steps
<1>5. PICK g \in [0..n -> V] : Follows(n, b, h, g)
  BY <1>b, <1>1, <1>4, ListRecursion
<1>6. \A i \in 0..n : (IF i = 0 THEN b ELSE h[<<i, g[i - 1]>>])
                        = IF i = 0 THEN b ELSE Counted(g[i - 1], i)
  <2> SUFFICES ASSUME NEW i \in 0..n, i # 0 PROVE h[<<i, g[i - 1]>>] = Counted(g[i - 1], i)
    OBVIOUS
  <2>1. i \in 1..n /\ i - 1 \in 0..n
    BY <1>1
  <2>2. g[i - 1] \in V
    BY <2>1, <1>5
  <2> QED BY <2>1, <2>2, <1>3
<1>7. g = [i \in 0..n |-> IF i = 0 THEN b ELSE Counted(g[i - 1], i)]
  BY <1>5, <1>6 DEF Follows
<1>8. F = [i \in 0..n |-> IF i = 0 THEN b ELSE Counted(F[i - 1], i)]
  BY <1>7, Zenon
<1> HIDE DEF F
<1>9. \A i \in 0..n : F[i] = IF i = 0 THEN b ELSE Counted(F[i - 1], i)
  BY <1>8, Zenon
<1>10. F[0] \in V /\ \A i \in 1..n : F[i - 1] \in V => F[i] \in V
  <2>1. F[0] = b
    BY <1>1, <1>9
  <2>2. ASSUME NEW i \in 1..n, F[i - 1] \in V PROVE F[i] \in V
    <3>1. i \in 0..n /\ i # 0
      BY <1>1
    <3>2. F[i] = Counted(F[i - 1], i)
      BY <3>1, <1>9
    <3> QED BY <3>2, <2>2, <1>n
  <2> QED BY <2>1, <2>2, <1>b
<1>11. \A i \in 0..n : F[i] \in V
  BY <1>1, <1>10, ListInduction
<1> QED BY <1>1, <1>2, <1>11, <1>s

-----------------------------------------------------------------------------
(* The cached cutoffs.                                                       *)

(* Division keeps the order.                                               *)
LEMMA DivGrows ==
  ASSUME NEW a \in Nat, NEW b \in Nat, a <= b, NEW k \in Nat \ {0}
  PROVE  a \div k \in Nat /\ b \div k \in Nat /\ a \div k <= b \div k
<1> DEFINE p == a \div k
           q == b \div k
<1>1. p \in Nat /\ k * p <= a
  OBVIOUS
<1>2. q \in Nat /\ b < k * q + k
  OBVIOUS
<1> HIDE DEF p, q
<1>3. ~(q < p)
  <2> SUFFICES ASSUME q + 1 <= p PROVE FALSE
    BY <1>1, <1>2
  <2>1. k * (q + 1) <= k * p
    BY <1>1, <1>2
  <2>2. k * (q + 1) = k * q + k
    BY <1>2
  <2> QED BY <2>1, <2>2, <1>1, <1>2
<1> QED BY <1>1, <1>2, <1>3 DEF p, q

(* A key grows with the live score it packs.                               *)
LEMMA PackScoreGrows ==
  ASSUME NEW b \in Nat, NEW l \in Nat, NEW m \in Nat, l <= m
  PROVE  PackScore(l, b) \in Nat /\ PackScore(m, b) \in Nat /\ PackScore(l, b) <= PackScore(m, b)
<1> DEFINE x == l \div LiveStep
           y == m \div LiveStep
           u == (10 + x) * (100 + b)
           v == (10 + y) * (100 + b)
           p == u \div 100
           q == v \div 100
<1>0. LiveStep \in Nat \ {0} /\ RankBase \in Nat
  BY ConstantAssumption
<1>1. x \in Nat /\ y \in Nat /\ x <= y
  BY <1>0, DivGrows
<1>2. PackScore(l, b) = p * RankBase + l /\ PackScore(m, b) = q * RankBase + m
  BY DEF PackScore, EventPoint
<1> HIDE DEF x, y
<1>3. u \in Nat /\ v \in Nat /\ u <= v
  BY <1>1
<1> HIDE DEF u, v
<1>4. p \in Nat /\ q \in Nat /\ p <= q
  BY <1>3, DivGrows
<1> HIDE DEF p, q
<1>5. p * RankBase \in Nat /\ q * RankBase \in Nat /\ p * RankBase <= q * RankBase
  BY <1>0, <1>4
<1> QED BY <1>2, <1>5

(* Searching from a live score that nothing below reaches the threshold    *)
(* for finds the least one that does.                                      *)
LEMMA NeededLiveExact ==
  ASSUME NEW b \in Nat, NEW t \in Int, NEW s \in Nat,
         \A l \in 0..LiveLimit : PackScore(l, b) >= t => l >= s
  PROVE  /\ NeededLive(b, t, s) \in Nat
         /\ \A l \in 0..LiveLimit : l >= NeededLive(b, t, s) <=> PackScore(l, b) >= t
<1> DEFINE m == NeededLive(b, t, s)
           T == {l \in s..LiveLimit : PackScore(l, b) >= t} \cup {LiveLimit + 1}
<1>0. LiveLimit \in Nat
  BY SuffixAssumption
<1>1. CASE s > LiveLimit
  BY <1>0, <1>1 DEF NeededLive
<1>2. CASE ~(s > LiveLimit)
  <2>1. m = Min(T)
    BY <1>2 DEF NeededLive
  <2>2. T \in SUBSET Nat /\ T # {}
    BY <1>0
  <2>3. Min(T) \in T /\ \A y \in T : Min(T) <= y
    <3> HIDE DEF T
    <3> QED BY <2>2, MinProperties
  <2>4. m \in Nat
    BY <2>1, <2>2, <2>3
  <2>5. ASSUME NEW l \in 0..LiveLimit, PackScore(l, b) >= t PROVE l >= m
    <3>1. l \in T
      BY <2>5
    <3> QED BY <3>1, <2>1, <2>3
  <2>6. ASSUME NEW l \in 0..LiveLimit, l >= m PROVE PackScore(l, b) >= t
    <3>1. m \in s..LiveLimit /\ PackScore(m, b) >= t
      BY <2>1, <2>3, <2>4, <2>6, <1>0
    <3> HIDE DEF m
    <3>2. /\ PackScore(m, b) \in Nat /\ PackScore(l, b) \in Nat
          /\ PackScore(m, b) <= PackScore(l, b)
      <4>1. m \in Nat /\ l \in Nat /\ m <= l
        BY <2>4, <2>6, <1>0
      <4> QED BY <4>1, PackScoreGrows
    <3> QED BY <3>1, <3>2
  <2> QED BY <2>4, <2>5, <2>6
<1> QED BY <1>1, <1>2

(* A question keeps the cached cutoffs exact: a higher threshold may go on *)
(* from the live score that the lower one needs.                           *)
LEMMA AskedExact ==
  ASSUME NEW cache \in Caches, NEW b \in Nat, NEW t \in Int
  PROVE  Asked(cache, b, t) \in Caches
<1> DEFINE E == [threshold : Int, live : Nat]
           resume == b \in DOMAIN cache /\ cache[b].threshold < t
           s == IF resume THEN cache[b].live ELSE 0
           new == [threshold |-> t, live |-> NeededLive(b, t, s)]
           c == [x \in DOMAIN cache \cup {b} |-> IF x = b THEN new ELSE cache[x]]
<1>0. LiveLimit \in Nat
  BY SuffixAssumption
<1>1. /\ DOMAIN cache \in SUBSET Nat
      /\ \A x \in DOMAIN cache : cache[x] \in E /\ Exact(cache[x], x)
  <2> HIDE DEF E
  <2>1. PICK D \in SUBSET Nat : cache \in [D -> E]
    BY DEF Caches, E
  <2>2. \A x \in DOMAIN cache : Exact(cache[x], x)
    BY DEF Caches
  <2> QED BY <2>1, <2>2
<1>2. CASE ~Inverted(b) \/ (b \in DOMAIN cache /\ cache[b].threshold = t)
  BY <1>2 DEF Asked
<1>3. CASE ~(~Inverted(b) \/ (b \in DOMAIN cache /\ cache[b].threshold = t))
  <2>1. Asked(cache, b, t) = c
    BY <1>3, Zenon DEF Asked
  <2>2. s \in Nat
    BY <1>1
  <2>3. \A l \in 0..LiveLimit : PackScore(l, b) >= t => l >= s
    <3> SUFFICES ASSUME NEW l \in 0..LiveLimit, PackScore(l, b) >= t, resume
                 PROVE  l >= cache[b].live
      BY <1>0
    <3>1. cache[b].threshold \in Int /\ Exact(cache[b], b)
      BY <1>1
    <3>2. PackScore(l, b) \in Nat
      BY <1>0, PackScoreGrows
    <3>3. PackScore(l, b) >= cache[b].threshold
      BY <3>1, <3>2
    <3> QED BY <3>1, <3>3 DEF Exact
  <2> HIDE DEF s
  <2>4. /\ NeededLive(b, t, s) \in Nat
        /\ \A l \in 0..LiveLimit : l >= NeededLive(b, t, s) <=> PackScore(l, b) >= t
    BY <2>2, <2>3, NeededLiveExact
  <2>5. new \in E /\ Exact(new, b)
    BY <2>4 DEF Exact
  <2> HIDE DEF new
  <2>6. c \in [DOMAIN cache \cup {b} -> E]
    <3> HIDE DEF E
    <3> QED BY <1>1, <2>5
  <2>7. \A x \in DOMAIN cache \cup {b} : Exact(c[x], x)
    BY <1>1, <2>5
  <2>8. DOMAIN cache \cup {b} \in SUBSET Nat
    BY <1>1
  <2> HIDE DEF c
  <2>9. c \in Caches
    BY <2>6, <2>7, <2>8 DEF Caches
  <2> QED BY <2>1, <2>9
<1> QED BY <1>2, <1>3

\* Their bonuses are numbers.
TestsOK(tests) == \E S : tests \in Seq(S) /\ \A in \in S : in.bonus \in Nat

(* Every test of a sequence asks the cache at most once more.              *)
LEMMA TestedExact ==
  ASSUME NEW cache \in Caches, NEW tests, TestsOK(tests), NEW t \in Int
  PROVE  Tested(cache, tests, t).cache \in Caches
<1> DEFINE n == Len(tests)
           Verdict(c, i) == Reaches(c, tests[i], t)
           Verdicts == {TRUE} \cup UNION {{Verdict(Asked(c, tests[i].bonus, t), i) : c \in Caches} : i \in 1..n}
           V == [cache : Caches, ok : Verdicts, passed : Nat]
           b == [cache |-> cache, ok |-> TRUE, passed |-> 0]
           Test(prev, i) ==
             LET asked == Asked(prev.cache, tests[i].bonus, t)
                 ok == Verdict(asked, i)
             IN  IF ~prev.ok THEN prev
                 ELSE [cache |-> asked, ok |-> ok,
                       passed |-> prev.passed + IF ok THEN 1 ELSE 0]
           h == [p \in (1..n) \X V |-> Test(p[2], p[1])]
           F == CHOOSE g : g = [i \in 0..n |-> IF i = 0 THEN b ELSE Test(g[i - 1], i)]
<1>1. n \in Nat /\ \A i \in 1..n : tests[i].bonus \in Nat
  <2>1. PICK S : tests \in Seq(S) /\ \A in \in S : in.bonus \in Nat
    BY DEF TestsOK
  <2> QED BY <2>1, LenProperties, ElementOfSeq
<1>2. Tested(cache, tests, t) = F[n]
  BY Zenon DEF Tested
<1>b. b \in V
  <2> HIDE DEF n
  <2> QED OBVIOUS
<1>s. \A v \in V : v.cache \in Caches /\ v.passed \in Nat
  <2> HIDE DEF Verdicts
  <2> QED OBVIOUS
<1> HIDE DEF n, Verdict, b
<1>v. \A c \in Caches, i \in 1..n : Verdict(Asked(c, tests[i].bonus, t), i) \in Verdicts
  <2> SUFFICES ASSUME NEW c \in Caches, NEW i \in 1..n
               PROVE  Verdict(Asked(c, tests[i].bonus, t), i) \in Verdicts
    OBVIOUS
  <2> DEFINE W(j) == {Verdict(Asked(d, tests[j].bonus, t), j) : d \in Caches}
  <2>1. Verdict(Asked(c, tests[i].bonus, t), i) \in W(i)
    OBVIOUS
  <2> HIDE DEF Verdict
  <2> QED BY <2>1
<1> HIDE DEF Verdicts
<1> HIDE DEF Test
<1>w. \A c \in Caches, ok \in Verdicts, k \in Nat : [cache |-> c, ok |-> ok, passed |-> k] \in V
  OBVIOUS
<1> HIDE DEF V
<1>n. \A i \in 1..n, v \in V : Test(v, i) \in V
  <2> SUFFICES ASSUME NEW i \in 1..n, NEW v \in V PROVE Test(v, i) \in V
    OBVIOUS
  <2> DEFINE asked == Asked(v.cache, tests[i].bonus, t)
             ok == Verdict(asked, i)
             k == v.passed + IF ok THEN 1 ELSE 0
  <2>1. v.cache \in Caches /\ v.passed \in Nat /\ tests[i].bonus \in Nat
    BY <1>1, <1>s
  <2>2. asked \in Caches
    BY <2>1, AskedExact
  <2>3. ok \in Verdicts
    BY <2>1, <1>v
  <2>4. Test(v, i) = IF ~v.ok THEN v ELSE [cache |-> asked, ok |-> ok, passed |-> k]
    BY Zenon DEF Test
  <2>5. k \in Nat
    BY <2>1
  <2> HIDE DEF asked, ok, k
  <2>6. [cache |-> asked, ok |-> ok, passed |-> k] \in V
    BY <2>2, <2>3, <2>5, <1>w
  <2> QED BY <2>4, <2>6
<1>3. \A i \in 1..n, v \in V : h[<<i, v>>] = Test(v, i)
  OBVIOUS
<1> HIDE DEF h
<1>4. Steps(n, V, h)
  BY <1>3, <1>n DEF Steps
<1>5. PICK g \in [0..n -> V] : Follows(n, b, h, g)
  BY <1>b, <1>1, <1>4, ListRecursion
<1>6. \A i \in 0..n : (IF i = 0 THEN b ELSE h[<<i, g[i - 1]>>])
                        = IF i = 0 THEN b ELSE Test(g[i - 1], i)
  <2> SUFFICES ASSUME NEW i \in 0..n, i # 0 PROVE h[<<i, g[i - 1]>>] = Test(g[i - 1], i)
    OBVIOUS
  <2>1. i \in 1..n /\ i - 1 \in 0..n
    BY <1>1
  <2>2. g[i - 1] \in V
    BY <2>1, <1>5
  <2> QED BY <2>1, <2>2, <1>3
<1>7. g = [i \in 0..n |-> IF i = 0 THEN b ELSE Test(g[i - 1], i)]
  BY <1>5, <1>6 DEF Follows
<1>8. F = [i \in 0..n |-> IF i = 0 THEN b ELSE Test(F[i - 1], i)]
  BY <1>7, Zenon
<1> HIDE DEF F
<1>9. \A i \in 0..n : F[i] = IF i = 0 THEN b ELSE Test(F[i - 1], i)
  BY <1>8, Zenon
<1>10. F[0] \in V /\ \A i \in 1..n : F[i - 1] \in V => F[i] \in V
  <2>1. F[0] = b
    BY <1>1, <1>9
  <2>2. ASSUME NEW i \in 1..n, F[i - 1] \in V PROVE F[i] \in V
    <3>1. i \in 0..n /\ i # 0
      BY <1>1
    <3>2. F[i] = Test(F[i - 1], i)
      BY <3>1, <1>9
    <3> QED BY <3>2, <2>2, <1>n
  <2> QED BY <2>1, <2>2, <1>b
<1>11. \A i \in 0..n : F[i] \in V
  BY <1>1, <1>10, ListInduction
<1> QED BY <1>1, <1>2, <1>11, <1>s

(* A cached cutoff decides a test as its ceiling does: the live score that *)
(* is needed stands for every key in between.                              *)
LEMMA ReachesAsCeiling ==
  ASSUME request.target = "score",
         NEW cache \in Caches, NEW in, in.bonus \in Nat, NEW t \in Int,
         Numerator(in.power, in.skill) \div NumeratorScale \in 0..LiveLimit
  PROVE  Reaches(Asked(cache, in.bonus, t), in, t) <=> Ceiling(in) >= t
<1> DEFINE b == in.bonus
           l == Numerator(in.power, in.skill) \div NumeratorScale
           asked == Asked(cache, b, t)
<1>1. Ceiling(in) = PackScore(l, b)
  BY Zenon DEF Ceiling
<1>2. asked \in Caches
  BY AskedExact
<1>3. CASE ~Inverted(b)
  BY <1>3, Zenon DEF Reaches
<1>4. CASE Inverted(b)
  <2>1. b \in DOMAIN asked /\ asked[b].threshold = t
    <3>1. CASE b \in DOMAIN cache /\ cache[b].threshold = t
      BY <3>1, Zenon DEF Asked
    <3>2. CASE ~(b \in DOMAIN cache /\ cache[b].threshold = t)
      <4> DEFINE resume == b \in DOMAIN cache /\ cache[b].threshold < t
                 s == IF resume THEN cache[b].live ELSE 0
                 c == [x \in DOMAIN cache \cup {b} |->
                         IF x = b THEN [threshold |-> t, live |-> NeededLive(b, t, s)]
                         ELSE cache[x]]
      <4>1. asked = c
        BY <1>4, <3>2, Zenon DEF Asked
      <4> HIDE DEF s, asked, b
      <4> QED BY <4>1
    <3> QED BY <3>1, <3>2
  <2>2. Exact(asked[b], b)
    BY <1>2, <2>1 DEF Caches
  <2>3. Reaches(asked, in, t) <=> l >= asked[b].live
    BY <1>4, Zenon DEF Reaches
  <2> HIDE DEF l, asked
  <2>4. l >= asked[b].live <=> PackScore(l, b) >= asked[b].threshold
    BY <2>2 DEF Exact, l
  <2> QED BY <1>1, <2>1, <2>3, <2>4 DEF l, asked
<1> QED BY <1>3, <1>4

-----------------------------------------------------------------------------
(* What a request is.                                                        *)

(* A request's pool is an interval of cards.                               *)
LEMMA RequestFacts ==
  ASSUME request \in Requests
  PROVE  /\ DeckSize \in Nat /\ DeckSize >= 2
         /\ request.pool \in SUBSET Nat /\ request.pool \subseteq DOMAIN Card
         /\ IsFiniteSet(request.pool)
         /\ FirstCard \in request.pool /\ LastCard \in request.pool
         /\ FirstCard \in Nat /\ LastCard \in Nat
         /\ request.pool = FirstCard..LastCard
         /\ request.topK \in Nat \ {0} /\ request.cap \in 0..DeckSize /\ request.floor \in Nat
         /\ request.fixedIds \in Seq(Nat) /\ request.fixedChars \in Seq(Nat)
         /\ request.seeds \in Seq([Slots -> request.pool])
         /\ request.target \in Targets /\ request.unique
<1>1. /\ RequestOK(request) /\ request.unique /\ request.target \in Targets
      /\ request.pool # {} /\ request.pool = FirstCard..LastCard
      /\ request.floor \in Nat
      /\ request.seeds \in Seq([Slots -> request.pool])
  BY ScoreAssumption DEF FirstCard, LastCard, Slots
<1>2. /\ request.pool \subseteq DOMAIN Card /\ IsFiniteSet(request.pool)
      /\ request.topK \in Nat \ {0} /\ request.cap \in 0..DeckSize
      /\ request.fixedIds \in Seq(Nat) /\ request.fixedChars \in Seq(Nat)
  BY <1>1 DEF RequestOK
<1>3. request.pool \in SUBSET Nat /\ request.pool \in SUBSET Int
  <2>1. \A c \in DOMAIN Card : c \in Nat
    BY CardAssumption
  <2> QED BY <2>1, <1>2
<1>4. FirstCard \in request.pool
  BY <1>1, <1>3, MinProperties DEF FirstCard
<1>5. LastCard \in request.pool
  BY <1>1, <1>2, <1>3, MaxProperties DEF LastCard
<1> QED BY <1>1, <1>2, <1>3, <1>4, <1>5, ConstantAssumption

(* What a card has is numbers.                                             *)
LEMMA CardFacts ==
  ASSUME request \in Requests, NEW c \in request.pool
  PROVE  /\ c \in Nat
         /\ Card[c].id \in Nat /\ Card[c].char \in Nat /\ Card[c].unit \in Nat
         /\ Card[c].attr \in Nat
         /\ Card[c].power \in [BOOLEAN -> [BOOLEAN -> Nat]]
         /\ Card[c].kind \in SkillKinds
         /\ Card[c].skill \in Nat /\ Card[c].gain \in Nat /\ Card[c].reference \in Nat
         /\ Card[c].base \in Nat /\ Card[c].limited \in Nat
         /\ Card[c].honor \in Nat /\ Card[c].leaderLimit \in Nat
<1>1. c \in DOMAIN Card /\ c \in Nat
  BY RequestFacts
<1>2. /\ {Card[c].id, Card[c].char, Card[c].attr, Card[c].unit} \subseteq Nat
      /\ Card[c].power \in [BOOLEAN -> [BOOLEAN -> Nat]]
      /\ Card[c].kind \in SkillKinds
      /\ {Card[c].skill, Card[c].gain, Card[c].reference} \subseteq Nat
      /\ {Card[c].base, Card[c].limited, Card[c].honor, Card[c].leaderLimit} \subseteq Nat
  BY <1>1, CardAssumption, Zenon
<1> QED BY <1>1, <1>2

Entries == [id : Nat, value : Nat]

\* A support deck's entries and how many of them count.
ProfileOK(p) == p.count \in Nat /\ p.cards \in Seq(Entries)

(* So have the support decks.                                              *)
LEMMA SupportFacts ==
  ASSUME request \in Requests, NEW char
  PROVE  ProfileOK(SupportFor(char))
<1>1. RequestOK(request)
  BY ScoreAssumption
<1>2. /\ NoChar \in DOMAIN request.support
      /\ \A p \in DOMAIN request.support : ProfileOK(request.support[p])
  BY <1>1 DEF RequestOK, ProfileOK, Entries
<1> QED BY <1>2 DEF SupportFor

(* What support counts is a number.                                        *)
LEMMA SupportSumNat ==
  ASSUME NEW p, ProfileOK(p), NEW main
  PROVE  SupportSum(p, main) \in Nat
<1> DEFINE n == Len(p.cards)
           v == [i \in 1..n |-> IF p.cards[i].id \in main THEN 0 ELSE p.cards[i].value]
<1>1. n \in Nat /\ \A i \in 1..n : p.cards[i] \in Entries
  BY LenProperties, ElementOfSeq DEF ProfileOK
<1>2. \A i \in 1..n : p.cards[i].value \in Nat
  BY <1>1 DEF Entries
<1>3. SupportSum(p, main) = FirstSum(v, p.count)
  BY Zenon DEF SupportSum
<1> HIDE DEF n
<1>4. v \in Seq(Nat)
  BY <1>1, <1>2
<1> HIDE DEF v
<1> QED BY <1>3, <1>4, FirstSumNat DEF ProfileOK

-----------------------------------------------------------------------------
(* What is prepared for a pool.                                              *)

(* A finite set of naturals that is not empty has a largest one.           *)
LEMMA LargestOfNat ==
  ASSUME NEW S \in SUBSET Nat, IsFiniteSet(S), S # {}
  PROVE  Max(S) \in Nat /\ Max(S) \in S /\ \A y \in S : y <= Max(S)
<1>1. S \in SUBSET Int
  OBVIOUS
<1> QED BY <1>1, MaxProperties

(* The largest sum of so many values.                                      *)
LEMMA LargestNat ==
  ASSUME NEW D, IsFiniteSet(D), NEW best \in [D -> Nat], NEW slots \in Nat
  PROVE  Largest(best, slots) \in Nat
<1> DEFINE P == {S \in SUBSET D : Cardinality(S) <= slots}
           T == {SumFunctionOnSet(best, S) : S \in P}
<1>1. Largest(best, slots) = Max(T)
  <2>1. DOMAIN best = D
    OBVIOUS
  <2>2. Largest(best, slots) =
          Max({SumFunctionOnSet(best, S) : S \in {S \in SUBSET DOMAIN best : Cardinality(S) <= slots}})
    BY Zenon DEF Largest, MapThenSumSet, SumFunctionOnSet, FoldFunctionOnSet
  <2> QED BY <2>1, <2>2
<1>2. IsFiniteSet(P)
  <2>1. IsFiniteSet(SUBSET D)
    BY FS_SUBSET
  <2> QED BY <2>1, FS_Subset
<1>3. \A S \in P : SumFunctionOnSet(best, S) \in Nat
  <2> SUFFICES ASSUME NEW S \in P PROVE SumFunctionOnSet(best, S) \in Nat
    OBVIOUS
  <2>1. S \in SUBSET D /\ IsFiniteSet(S)
    BY FS_Subset
  <2>2. \A x \in S : best[x] \in Nat
    BY <2>1
  <2> QED BY <2>1, <2>2, SumNat
<1>4. {} \in P
  BY FS_EmptySet
<1> HIDE DEF P
<1>5. T \in SUBSET Nat /\ T # {}
  BY <1>3, <1>4
<1>6. IsFiniteSet(T)
  <2> DEFINE sum == [S \in P |-> SumFunctionOnSet(best, S)]
  <2>1. T = {sum[S] : S \in P}
    OBVIOUS
  <2> HIDE DEF sum, T
  <2> QED BY <2>1, <1>2, ImageFinite
<1> HIDE DEF T
<1> QED BY <1>1, <1>5, <1>6, LargestOfNat

(* The bonus of the best cards of distinct characters.                     *)
LEMMA BestNat ==
  ASSUME request \in Requests, NEW cards \in SUBSET request.pool,
         NEW field \in BonusFields, NEW slots \in Nat
  PROVE  Best(cards, field, slots) \in Nat
<1> DEFINE D == {Card[c].char : c \in cards}
           Of(ch) == {x \in cards : Card[x].char = ch}
           Values(ch) == {Terms(c)[field] : c \in Of(ch)}
           best == [ch \in D |-> Max(Values(ch))]
<1>1. IsFiniteSet(cards)
  BY RequestFacts, FS_Subset
<1>2. IsFiniteSet(D)
  <2> DEFINE char == [c \in cards |-> Card[c].char]
  <2>1. D = {char[c] : c \in cards}
    OBVIOUS
  <2> HIDE DEF char, D
  <2> QED BY <2>1, <1>1, ImageFinite
<1>3. \A c \in cards : Terms(c)[field] \in Nat
  <2> SUFFICES ASSUME NEW c \in cards PROVE Terms(c)[field] \in Nat
    OBVIOUS
  <2>1. Card[c].base \in Nat /\ Card[c].limited \in Nat
    BY CardFacts
  <2>2. field = "bonus" \/ field = "base" \/ field = "limited"
    BY DEF BonusFields
  <2> QED BY <2>1, <2>2 DEF Terms
<1>4. \A ch \in D : Max(Values(ch)) \in Nat
  <2> SUFFICES ASSUME NEW ch \in D PROVE Max(Values(ch)) \in Nat
    OBVIOUS
  <2>1. Of(ch) \in SUBSET cards /\ Of(ch) # {} /\ IsFiniteSet(Of(ch))
    BY <1>1, FS_Subset
  <2> HIDE DEF Of
  <2>2. Values(ch) \in SUBSET Nat /\ Values(ch) # {}
    BY <2>1, <1>3
  <2>3. IsFiniteSet(Values(ch))
    <3> DEFINE term == [c \in Of(ch) |-> Terms(c)[field]]
    <3>1. Values(ch) = {term[c] : c \in Of(ch)}
      OBVIOUS
    <3> HIDE DEF term, Values
    <3> QED BY <3>1, <2>1, ImageFinite
  <2> HIDE DEF Values
  <2> QED BY <2>2, <2>3, LargestOfNat
<1>5. Best(cards, field, slots) = Max({Largest(best, slots)})
  <2>1. PerCharacter(cards, field) = best
    BY Zenon DEF PerCharacter
  <2>2. Best(cards, field, slots) =
          Max({Largest(b, slots) : b \in {PerCharacter(cs, field) : cs \in {cards}}})
    BY Zenon DEF Best
  <2>3. {PerCharacter(cs, field) : cs \in {cards}} = {best}
    BY <2>1
  <2> HIDE DEF best
  <2>4. {Largest(b, slots) : b \in {best}} = {Largest(best, slots)}
    OBVIOUS
  <2> QED BY <2>2, <2>3, <2>4
<1>6. best \in [D -> Nat]
  BY <1>4
<1> HIDE DEF best, D
<1>7. Largest(best, slots) \in Nat
  BY <1>2, <1>6, LargestNat
<1> DEFINE one == Largest(best, slots)
<1> HIDE DEF one
<1>8. {one} \in SUBSET Nat /\ {one} # {} /\ IsFiniteSet({one})
  BY <1>7, FS_Singleton DEF one
<1>9. Max({one}) \in Nat
  BY <1>8, LargestOfNat
<1> QED BY <1>5, <1>9 DEF one

(* A sequence has finitely many entries.                                   *)
LEMMA EntriesFinite ==
  ASSUME NEW S, NEW s \in Seq(S)
  PROVE  IsFiniteSet(ToSet(s)) /\ ToSet(s) \in SUBSET S
<1>1. DOMAIN s = 1..Len(s) /\ Len(s) \in Nat /\ \A i \in 1..Len(s) : s[i] \in S
  BY LenProperties, ElementOfSeq
<1>2. IsFiniteSet(1..Len(s))
  BY <1>1, FS_Interval
<1>3. ToSet(s) = {s[i] : i \in 1..Len(s)}
  BY <1>1 DEF ToSet
<1> DEFINE D == 1..Len(s)
<1> HIDE DEF D
<1>4. IsFiniteSet({s[i] : i \in D})
  BY <1>2, ImageFinite DEF D
<1> QED BY <1>1, <1>3, <1>4 DEF D

\* By falling value.
EntryOrder(S) ==
  {p \in S \X S : \/ p[1].value > p[2].value
                  \/ p[1].value = p[2].value /\ p[1].id < p[2].id}

(* The support deck of all leaders together is one.                        *)
LEMMA SupportEnvelopeOK ==
  ASSUME request \in Requests
  PROVE  ProfileOK(SupportEnvelope)
<1> DEFINE chars == {Card[c].char : c \in request.pool}
           leading == IF FixedLeaders # {} THEN FixedLeaders ELSE chars
           X == IF request.final THEN leading ELSE {NoChar}
           profiles == {SupportFor(ch) : ch \in X}
           lists == {ToSet(p.cards) : p \in profiles}
           entries == UNION lists
           best == {e \in entries : \A o \in entries : o.id = e.id => o.value <= e.value}
           Before(a, b) == a.value > b.value \/ (a.value = b.value /\ a.id < b.id)
           counts == {p.count : p \in profiles}
           n == Cardinality(best)
           Weight(x) == Cardinality({y \in best : Before(y, x)})
           o == [i \in 1..n |-> CHOOSE x \in best : Weight(x) = i - 1]
<1>1. SupportEnvelope = [cards |-> SubSeq(o, 1, n), count |-> Max(counts)]
  BY Zenon DEF SupportEnvelope, SortedBy
<1>2. IsFiniteSet(X) /\ X # {}
  <2>1. IsFiniteSet(chars) /\ chars # {}
    <3>1. IsFiniteSet(request.pool) /\ request.pool # {}
      BY RequestFacts
    <3> DEFINE char == [c \in request.pool |-> Card[c].char]
    <3>2. chars = {char[c] : c \in request.pool}
      OBVIOUS
    <3>3. chars # {}
      BY <3>1
    <3> HIDE DEF char, chars
    <3> QED BY <3>1, <3>2, <3>3, ImageFinite
  <2>2. IsFiniteSet(FixedLeaders)
    <3>1. CASE request.leader # NoChar
      BY <3>1, FS_Singleton DEF FixedLeaders
    <3>2. CASE ~(request.leader # NoChar)
      <4>1. FixedLeaders \in SUBSET chars
        BY <3>2 DEF FixedLeaders
      <4> HIDE DEF chars
      <4> QED BY <4>1, <2>1, FS_Subset
    <3> QED BY <3>1, <3>2
  <2>3. IsFiniteSet({NoChar}) /\ {NoChar} # {}
    BY FS_Singleton
  <2> HIDE DEF chars
  <2> QED BY <2>1, <2>2, <2>3
<1> HIDE DEF X
<1>3. IsFiniteSet(profiles) /\ profiles # {}
  <2> DEFINE profile == [ch \in X |-> SupportFor(ch)]
  <2>1. profiles = {profile[ch] : ch \in X}
    OBVIOUS
  <2>2. profiles # {}
    BY <1>2
  <2> HIDE DEF profile, profiles
  <2> QED BY <2>1, <2>2, <1>2, ImageFinite
<1>4. \A p \in profiles : ProfileOK(p)
  BY SupportFacts
<1> HIDE DEF profiles
<1>5. \A p \in profiles : p.count \in Nat /\ IsFiniteSet(ToSet(p.cards)) /\ ToSet(p.cards) \in SUBSET Entries
  BY <1>4, EntriesFinite DEF ProfileOK
<1>6. Max(counts) \in Nat
  <2> DEFINE count == [p \in profiles |-> p.count]
  <2>1. counts = {count[p] : p \in profiles}
    OBVIOUS
  <2>2. counts \in SUBSET Nat /\ counts # {}
    BY <1>3, <1>5
  <2> HIDE DEF count, counts
  <2>3. IsFiniteSet(counts)
    BY <2>1, <1>3, ImageFinite
  <2> QED BY <2>2, <2>3, LargestOfNat
<1>7. IsFiniteSet(entries) /\ entries \in SUBSET Entries
  <2> DEFINE list == [p \in profiles |-> ToSet(p.cards)]
  <2>1. lists = {list[p] : p \in profiles}
    OBVIOUS
  <2>2. \A T \in lists : IsFiniteSet(T) /\ T \in SUBSET Entries
    BY <1>5
  <2> HIDE DEF list, lists
  <2>3. IsFiniteSet(lists)
    BY <2>1, <1>3, ImageFinite
  <2> QED BY <2>2, <2>3, FS_UNION
<1> HIDE DEF entries
<1>8. IsFiniteSet(best) /\ best \in SUBSET Entries
  BY <1>7, FS_Subset
<1> HIDE DEF best
<1> DEFINE L == EntryOrder(best)
<1>9. \A x, y \in best : <<x, y>> \in L <=> Before(x, y)
  BY DEF EntryOrder
<1>10. Orders(L, best)
  <2>1. \A x \in best : x.id \in Nat /\ x.value \in Nat
    BY <1>8 DEF Entries
  <2>2. \A x, y \in best : x.id = y.id /\ x.value = y.value => x = y
    BY <1>8 DEF Entries
  <2> HIDE DEF L
  <2>3. \A x \in best : <<x, x>> \notin L
    BY <1>9, <2>1
  <2>4. \A x, y, z \in best : <<x, y>> \in L /\ <<y, z>> \in L => <<x, z>> \in L
    BY <1>9, <2>1
  <2>5. ASSUME NEW x \in best, NEW y \in best, x # y
        PROVE  <<x, y>> \in L \/ <<y, x>> \in L
    <3>1. x.id # y.id \/ x.value # y.value
      BY <2>2, <2>5
    <3>2. Before(x, y) \/ Before(y, x)
      BY <2>1, <3>1
    <3> HIDE DEF Before
    <3> QED BY <1>9, <3>2
  <2> QED BY <2>3, <2>4, <2>5 DEF Orders
<1>11. \A x \in best : RankIn(L, best, x) = Weight(x)
  <2> SUFFICES ASSUME NEW x \in best PROVE RankIn(L, best, x) = Weight(x)
    OBVIOUS
  <2>1. {y \in best : <<y, x>> \in L} = {y \in best : Before(y, x)}
    BY <1>9
  <2> QED BY <2>1 DEF RankIn
<1> HIDE DEF Weight, L, Before
<1>12. n \in Nat /\ \A i \in 1..n : \E x \in best : Weight(x) = i - 1
  <2>1. n \in Nat /\ \A i \in 0..n - 1 : \E x \in best : RankIn(L, best, x) = i
    BY <1>8, <1>10, Ranks
  <2> SUFFICES ASSUME NEW i \in 1..n PROVE \E x \in best : Weight(x) = i - 1
    BY <2>1
  <2>2. i - 1 \in 0..n - 1
    BY <2>1
  <2> QED BY <2>1, <2>2, <1>11
<1> HIDE DEF n
<1>13. \A i \in 1..n : (CHOOSE x \in best : Weight(x) = i - 1) \in best
  BY <1>12, Zenon
<1>14. o \in [1..n -> best]
  BY <1>13, Zenon
<1> HIDE DEF o
<1>15. SubSeq(o, 1, n) \in Seq(Entries)
  <2>1. \A i \in 1..n : o[i] \in Entries
    BY <1>8, <1>14
  <2> QED BY <2>1, <1>12, SubSeqProperties
<1> HIDE DEF counts
<1> QED BY <1>1, <1>6, <1>15 DEF ProfileOK

(* Any completion's extra bonus is at most a number.                       *)
LEMMA ExtraBonusNat ==
  ASSUME request \in Requests
  PROVE  ExtraBonusUb \in Nat
<1> DEFINE amounts == {DiffAttr[n] : n \in 0..DeckSize}
<1>1. Max(amounts) \in Nat
  <2>1. 0..DeckSize # {} /\ IsFiniteSet(0..DeckSize)
    BY RequestFacts, FS_Interval
  <2>2. amounts \in SUBSET Nat /\ amounts # {}
    BY <2>1, ConstantAssumption
  <2> DEFINE D == 0..DeckSize
  <2> HIDE DEF D
  <2>3. IsFiniteSet({DiffAttr[n] : n \in D})
    BY <2>1, ImageFinite DEF D
  <2>4. IsFiniteSet(amounts)
    BY <2>3 DEF D
  <2> HIDE DEF amounts
  <2> QED BY <2>2, <2>4, LargestOfNat
<1>2. SupportSum(SupportEnvelope, {}) \in Nat
  BY SupportEnvelopeOK, SupportSumNat
<1> HIDE DEF amounts
<1> QED BY <1>1, <1>2 DEF ExtraBonusUb, amounts

(* New attributes are at most as many as free slots.                       *)
LEMMA NovelAttrsBounded ==
  ASSUME request \in Requests, NEW attrs, NEW dense, NEW used, NEW rest \in Nat
  PROVE  /\ ReachableNovelAttrs(attrs, dense, used, rest) \in Nat
         /\ ReachableNovelAttrs(attrs, dense, used, rest) <= rest
<1> DEFINE cards == From(dense) \cap Unused(used)
           with(a) == {Card[c].char : c \in {x \in cards : Card[x].attr = a}}
           novel == {Card[c].attr : c \in cards} \ attrs
           chars == {Card[c].char : c \in cards}
           matched == {A \in SUBSET novel :
                         \E f \in Injection(A, chars) : \A a \in A : f[a] \in with(a)}
           sizes == {Cardinality(A) : A \in matched}
           m == Max(sizes)
<1>1. ReachableNovelAttrs(attrs, dense, used, rest) = Min({rest, m})
  BY Zenon DEF ReachableNovelAttrs
<1>2. IsFiniteSet(cards)
  <2>1. cards \in SUBSET request.pool
    BY DEF From
  <2> HIDE DEF cards
  <2> QED BY <2>1, RequestFacts, FS_Subset
<1>3. IsFiniteSet(novel)
  <2> DEFINE attr == [c \in cards |-> Card[c].attr]
             all == {attr[c] : c \in cards}
  <2>1. novel \in SUBSET all
    OBVIOUS
  <2> HIDE DEF attr
  <2>2. IsFiniteSet(all)
    BY <1>2, ImageFinite
  <2> HIDE DEF all, novel
  <2> QED BY <2>1, <2>2, FS_Subset
<1>4. {} \in matched
  <2>1. <<>> \in Injection({}, chars)
    BY DEF Injection, IsInjective
  <2> HIDE DEF chars, with
  <2> QED BY <2>1
<1>5. IsFiniteSet(matched) /\ \A A \in matched : IsFiniteSet(A)
  <2>1. IsFiniteSet(SUBSET novel) /\ matched \in SUBSET SUBSET novel
    BY <1>3, FS_SUBSET
  <2>2. \A A \in SUBSET novel : IsFiniteSet(A)
    BY <1>3, FS_Subset
  <2> HIDE DEF matched, novel
  <2> QED BY <2>1, <2>2, FS_Subset
<1> HIDE DEF matched
<1>6. sizes \in SUBSET Nat /\ sizes # {}
  BY <1>4, <1>5, FS_CardinalityType
<1>7. IsFiniteSet(sizes)
  <2> DEFINE size == [A \in matched |-> Cardinality(A)]
  <2>1. sizes = {size[A] : A \in matched}
    OBVIOUS
  <2> HIDE DEF size, sizes
  <2> QED BY <2>1, <1>5, ImageFinite
<1> HIDE DEF sizes
<1>8. m \in Nat
  BY <1>6, <1>7, LargestOfNat
<1> HIDE DEF m
<1>9. {rest, m} \in SUBSET Nat /\ {rest, m} # {}
  BY <1>8
<1>10. Min({rest, m}) \in {rest, m} /\ Min({rest, m}) <= rest
  BY <1>9, MinProperties
<1> QED BY <1>1, <1>9, <1>10

(* The extra bonus of the completions of some selected cards is a number.  *)
LEMMA WorldBloomExtraNat ==
  ASSUME request \in Requests, SuffixOK,
         NEW attrs, IsFiniteSet(attrs), Cardinality(attrs) <= DeckSize,
         NEW ids, NEW dense, NEW used, NEW rest \in Nat
  PROVE  WorldBloomExtra(attrs, ids, dense, used, rest) \in Nat
<1> DEFINE count == Cardinality(attrs)
           novel == ReachableNovelAttrs(attrs, dense, used, rest)
           most == Min({DeckSize, count + novel})
           amounts == {DiffAttr[n] : n \in count..most}
           support == SupportSum(suffix.support, ids)
           x == Max(amounts) + support
<1>1. CASE ~request.worldBloom
  BY <1>1 DEF WorldBloomExtra, SuffixOK
<1>2. CASE request.worldBloom
  <2>1. WorldBloomExtra(attrs, ids, dense, used, rest) = Min({suffix.extra, x})
    BY <1>2, Zenon DEF WorldBloomExtra
  <2>2. count \in Nat /\ count <= DeckSize /\ novel \in Nat /\ DeckSize \in Nat
    BY FS_CardinalityType, NovelAttrsBounded, RequestFacts
  <2> HIDE DEF count, novel
  <2>3. most \in count..DeckSize
    <3>1. {DeckSize, count + novel} \in SUBSET Nat /\ {DeckSize, count + novel} # {}
      BY <2>2
    <3>2. most \in {DeckSize, count + novel} /\ most <= DeckSize
      BY <3>1, MinProperties
    <3> HIDE DEF most
    <3> QED BY <2>2, <3>2
  <2> HIDE DEF most
  <2>4. amounts \in SUBSET Nat /\ amounts # {}
    <3>1. \A n \in count..most : DiffAttr[n] \in Nat
      BY <2>2, <2>3, ConstantAssumption
    <3> QED BY <2>2, <2>3, <3>1
  <2>5. IsFiniteSet(amounts)
    <3> DEFINE D == count..most
    <3>1. IsFiniteSet(D)
      BY <2>2, <2>3, FS_Interval
    <3> HIDE DEF D
    <3>2. IsFiniteSet({DiffAttr[n] : n \in D})
      BY <3>1, ImageFinite
    <3> QED BY <3>2 DEF D
  <2> HIDE DEF amounts
  <2>6. Max(amounts) \in Nat
    BY <2>4, <2>5, LargestOfNat
  <2>7. support \in Nat
    BY SupportSumNat DEF SuffixOK, ProfileOK, Entries
  <2> HIDE DEF support
  <2>8. x \in Nat /\ suffix.extra \in Nat
    BY <2>6, <2>7 DEF SuffixOK
  <2> HIDE DEF x
  <2>9. {suffix.extra, x} \in SUBSET Nat /\ {suffix.extra, x} # {}
    BY <2>8
  <2> QED BY <2>1, <2>9, MinProperties
<1> QED BY <1>1, <1>2

(* What Build prepares.                                                    *)
LEMMA BuildOK ==
  ASSUME request \in Requests, suffix = Build
  PROVE  SuffixOK
<1> DEFINE fields == {"power", "skill", "bonus", "base", "limited"}
<1>1. suffix.support = SupportEnvelope /\ suffix.extra = ExtraBonusUb
  BY Zenon DEF Build
<1>2. ASSUME NEW dense \in Positions, NEW field \in BonusFields, NEW slots \in 0..DeckSize
      PROVE  DenseTail(dense, field, slots) \in Nat
  <2>1. field \in fields
    BY DEF BonusFields
  <2>2. dense \in request.pool \cup {Max(request.pool) + 1}
    BY DEF Positions, LastCard
  <2>3. DenseTail(dense, field, slots) = Best(From(dense), field, slots)
    BY <2>1, <2>2 DEF DenseTail, Build
  <2>4. From(dense) \in SUBSET request.pool /\ slots \in Nat
    BY RequestFacts DEF From
  <2> QED BY <2>3, <2>4, BestNat
<1>3. ProfileOK(SupportEnvelope) /\ ExtraBonusUb \in Nat
  BY SupportEnvelopeOK, ExtraBonusNat
<1> QED BY <1>1, <1>2, <1>3 DEF SuffixOK, ProfileOK, Entries

-----------------------------------------------------------------------------
(* What a deck is worth is numbers.                                          *)

\* A deck of the pool in which no card is alone.
IsDeck(d) ==
  /\ d \in [Slots -> request.pool]
  /\ \A c \in ToSet(d) : \E o \in ToSet(d) : o # c

(* The members of a deck are cards of the pool.                            *)
LEMMA DeckMembers ==
  ASSUME request \in Requests, NEW d \in [Slots -> request.pool]
  PROVE  /\ d \in Seq(request.pool) /\ Len(d) = DeckSize
         /\ ToSet(d) = {d[i] : i \in Slots}
         /\ ToSet(d) \in SUBSET request.pool /\ IsFiniteSet(ToSet(d))
<1>1. DeckSize \in Nat
  BY RequestFacts
<1>2. d \in Seq(request.pool) /\ Len(d) = DeckSize
  BY <1>1 DEF Slots
<1>3. DOMAIN d = Slots
  OBVIOUS
<1> QED BY <1>2, <1>3, EntriesFinite DEF ToSet

(* A sum over a deck's slots.                                              *)
LEMMA SlotSumNat ==
  ASSUME request \in Requests, NEW list \in [Slots -> Nat]
  PROVE  list \in Seq(Nat) /\ SumOf(list) \in Nat
<1>1. DeckSize \in Nat
  BY RequestFacts
<1>2. list \in Seq(Nat)
  BY <1>1 DEF Slots
<1> QED BY <1>2, SumOfNat

(* Power is a number.                                                      *)
LEMMA PowerNat ==
  ASSUME request \in Requests, NEW d \in [Slots -> request.pool]
  PROVE  Power(d) \in Nat
<1> DEFINE unit == Cardinality({Card[c].unit : c \in ToSet(d)}) = 1
           attr == Cardinality({Card[c].attr : c \in ToSet(d)}) = 1
           list == [i \in Slots |-> Card[d[i]].power[unit][attr]]
<1>1. Power(d) = SumOf(list)
  BY Zenon DEF Power
<1>2. unit \in BOOLEAN /\ attr \in BOOLEAN
  OBVIOUS
<1>3. list \in [Slots -> Nat]
  <2> SUFFICES ASSUME NEW i \in Slots PROVE Card[d[i]].power[unit][attr] \in Nat
    OBVIOUS
  <2>1. Card[d[i]].power \in [BOOLEAN -> [BOOLEAN -> Nat]]
    BY CardFacts
  <2>2. \A u, a \in BOOLEAN : Card[d[i]].power[u][a] \in Nat
    BY <2>1, Zenon
  <2> QED BY <2>2, <1>2, Zenon
<1> HIDE DEF list
<1> QED BY <1>1, <1>3, SlotSumNat

(* A member's skill is a number.                                           *)
LEMMA SkillNat ==
  ASSUME request \in Requests, NEW d, IsDeck(d), NEW c \in ToSet(d)
  PROVE  SkillOf(d, c) \in Nat
<1> DEFINE others == ToSet(d) \ {c}
           k == Card[c]
           sharing == Cardinality({o \in others : Card[o].unit = k.unit})
           statics == {Card[o].reference : o \in others}
           most == Max(statics)
<1>1. ToSet(d) \in SUBSET request.pool /\ IsFiniteSet(ToSet(d)) /\ c \in request.pool
  BY DeckMembers DEF IsDeck
<1>2. IsFiniteSet(others) /\ others # {} /\ others \in SUBSET request.pool
  <2>1. PICK o \in ToSet(d) : o # c
    BY DEF IsDeck
  <2> QED BY <2>1, <1>1, FS_Subset
<1>3. k.skill \in Nat /\ k.gain \in Nat /\ k.kind \in SkillKinds
  BY <1>1, CardFacts
<1> HIDE DEF others
<1>4. sharing \in Nat
  <2>1. IsFiniteSet({o \in others : Card[o].unit = k.unit})
    BY <1>2, FS_Subset
  <2> QED BY <2>1, FS_CardinalityType
<1>5. most \in Nat
  <2> DEFINE static == [o \in others |-> Card[o].reference]
  <2>1. statics = {static[o] : o \in others}
    OBVIOUS
  <2>2. statics \in SUBSET Nat /\ statics # {}
    BY <1>2, CardFacts
  <2> HIDE DEF static, statics
  <2>3. IsFiniteSet(statics)
    BY <2>1, <1>2, ImageFinite
  <2> QED BY <2>2, <2>3, LargestOfNat
<1>6. Min({k.gain, most}) \in Nat
  <2> HIDE DEF most, k
  <2>1. {k.gain, most} \in SUBSET Nat /\ {k.gain, most} # {}
    BY <1>3, <1>5
  <2> QED BY <2>1, MinProperties
<1>7. SkillOf(d, c) = k.skill + CASE k.kind = "plain" -> 0
                                  [] k.kind = "units" -> k.gain * sharing
                                  [] k.kind = "reference" -> Min({k.gain, most})
  BY Zenon DEF SkillOf, others
<1> HIDE DEF sharing, most, k
<1>8. k.gain * sharing \in Nat
  BY <1>3, <1>4
<1>9. k.kind = "plain" \/ k.kind = "units" \/ k.kind = "reference"
  BY <1>3 DEF SkillKinds
<1> QED BY <1>3, <1>6, <1>7, <1>8, <1>9

(* So is the live score.                                                   *)
LEMMA LiveScoreNat ==
  ASSUME request \in Requests, NEW d, IsDeck(d)
  PROVE  LiveScore(d) \in Nat
<1> DEFINE list == [i \in Slots |-> SkillOf(d, d[i])]
           skill == SumOf(list)
           power == Power(d)
<1>1. list \in [Slots -> Nat]
  <2> SUFFICES ASSUME NEW i \in Slots PROVE SkillOf(d, d[i]) \in Nat
    OBVIOUS
  <2>1. d[i] \in ToSet(d)
    BY DeckMembers DEF IsDeck
  <2> QED BY <2>1, SkillNat
<1>2. LiveScore(d) = (power * (10 + skill)) \div 10
  BY Zenon DEF LiveScore, LiveValue
<1> HIDE DEF list
<1>3. skill \in Nat
  BY <1>1, SlotSumNat
<1>4. power \in Nat
  BY PowerNat DEF IsDeck
<1> HIDE DEF power, skill
<1>5. power * (10 + skill) \in Nat
  BY <1>3, <1>4
<1> QED BY <1>2, <1>5, DivGrows

(* So is the bonus.                                                        *)
LEMMA TotalBonusNat ==
  ASSUME request \in Requests, NEW d \in [Slots -> request.pool]
  PROVE  TotalBonus(d) \in Nat
<1> DEFINE bases == [i \in Slots |-> Card[d[i]].base]
           limits == [i \in Slots |-> Card[d[i]].limited]
           cap == IF Capped THEN request.cap ELSE DeckSize
           attrs == {Card[c].attr : c \in ToSet(d)}
           lead == IF request.final THEN Card[d[1]].honor + Card[d[1]].leaderLimit ELSE 0
           world == IF request.worldBloom
                    THEN DiffAttr[Cardinality(attrs)] + SupportBonus(d) ELSE 0
<1>1. TotalBonus(d) = SumOf(bases) + LimitedBonus(d) + lead + world
  BY Zenon DEF TotalBonus
<1>2. DeckSize \in Nat /\ DeckSize >= 2 /\ request.cap \in 0..DeckSize
  BY RequestFacts
<1>3. \A i \in Slots : Card[d[i]].base \in Nat /\ Card[d[i]].limited \in Nat
  BY CardFacts
<1>4. SumOf(bases) \in Nat
  <2>1. bases \in [Slots -> Nat]
    BY <1>3
  <2> HIDE DEF bases
  <2> QED BY <2>1, SlotSumNat
<1>5. LimitedBonus(d) \in Nat
  <2>1. LimitedBonus(d) = FirstSum(limits, cap)
    BY Zenon DEF LimitedBonus
  <2>2. limits \in [Slots -> Nat]
    BY <1>3
  <2> HIDE DEF limits
  <2>3. limits \in Seq(Nat) /\ cap \in Nat
    BY <2>2, <1>2, SlotSumNat
  <2> HIDE DEF cap
  <2> QED BY <2>1, <2>3, FirstSumNat
<1>6. lead \in Nat
  <2>1. d[1] \in request.pool
    BY <1>2 DEF Slots
  <2>2. Card[d[1]].honor \in Nat /\ Card[d[1]].leaderLimit \in Nat
    BY <2>1, CardFacts
  <2> QED BY <2>2
<1>7. DiffAttr[Cardinality(attrs)] \in Nat
  <2>1. attrs = {Card[d[i]].attr : i \in 1..DeckSize}
    BY DeckMembers DEF Slots
  <2> DEFINE f == [i \in 1..DeckSize |-> Card[d[i]].attr]
  <2>2. DOMAIN f = 1..DeckSize /\ f = [i \in 1..DeckSize |-> f[i]] /\ \A x \in attrs : \E i \in 1..DeckSize : f[i] = x
    BY <2>1
  <2> HIDE DEF f, attrs
  <2>3. IsFiniteSet(attrs) /\ Cardinality(attrs) <= DeckSize
    BY <2>2, <1>2, ImageCardinality
  <2>4. Cardinality(attrs) \in Nat
    BY <2>3, FS_CardinalityType
  <2> DEFINE k == Cardinality(attrs)
  <2>5. k \in 0..DeckSize
    BY <2>3, <2>4, <1>2
  <2> HIDE DEF k
  <2>6. DiffAttr[k] \in Nat
    BY <2>5, ConstantAssumption
  <2> QED BY <2>6 DEF k
<1>8. SupportBonus(d) \in Nat
  BY SupportFacts, SupportSumNat DEF SupportBonus
<1>9. world \in Nat
  <2> HIDE DEF attrs
  <2> QED BY <1>7, <1>8
<1> HIDE DEF bases, lead, world
<1> QED BY <1>1, <1>4, <1>5, <1>6, <1>9

(* So is the score.                                                        *)
LEMMA ScoreNat ==
  ASSUME request \in Requests, NEW d, IsDeck(d)
  PROVE  Score(d) \in Nat
<1> DEFINE bonus == TotalBonus(d)
           live == LiveScore(d)
           power == Power(d)
<1>1. bonus \in Nat /\ live \in Nat /\ power \in Nat
  BY TotalBonusNat, LiveScoreNat, PowerNat DEF IsDeck
<1>2. /\ LiveStep \in Nat \ {0} /\ PowerStep \in Nat \ {0} /\ RankBase \in Nat
  BY ConstantAssumption
<1>3. Score(d) = CASE request.target = "score" -> EventPoint(live, bonus) * RankBase + live
                   [] request.target = "live" -> live * RankBase + live
                   [] request.target = "bonus" -> bonus * RankBase + live
                   [] request.target = "mysekai" -> MysekaiValue(power, bonus)
  BY Zenon DEF Score
<1> HIDE DEF bonus, live, power
<1>4. EventPoint(live, bonus) \in Nat
  <2> DEFINE p == live \div LiveStep
             v == (10 + p) * (100 + bonus)
  <2>1. p \in Nat
    BY <1>1, <1>2, DivGrows
  <2> HIDE DEF p
  <2>2. v \in Nat
    BY <2>1, <1>1
  <2> HIDE DEF v
  <2>3. v \div 100 \in Nat
    BY <2>2, DivGrows
  <2> QED BY <2>3 DEF EventPoint, v, p
<1>5. MysekaiValue(power, bonus) \in Nat
  <2> DEFINE p == power \div PowerStep
             v == (10 + p) * (100 + bonus)
  <2>1. p \in Nat
    BY <1>1, <1>2, DivGrows
  <2> HIDE DEF p
  <2>2. v \in Nat
    BY <2>1, <1>1
  <2> HIDE DEF v
  <2>3. v \div 2 \in Nat
    BY <2>2, DivGrows
  <2> QED BY <2>3 DEF MysekaiValue, v, p
<1>6. /\ EventPoint(live, bonus) * RankBase + live \in Nat
      /\ live * RankBase + live \in Nat /\ bonus * RankBase + live \in Nat
  BY <1>1, <1>2, <1>4
<1>7. \/ request.target = "score" \/ request.target = "live"
      \/ request.target = "bonus" \/ request.target = "mysekai"
  BY RequestFacts DEF Targets
<1> QED BY <1>3, <1>5, <1>6, <1>7

-----------------------------------------------------------------------------
(* The results of whole decks.                                               *)

\* A whole deck of distinct characters.
IsWhole(d) ==
  /\ d \in [Slots -> request.pool]
  /\ \A i, j \in Slots : Card[d[i]].char = Card[d[j]].char => i = j

(* In a whole deck no card is alone.                                       *)
LEMMA WholeIsDeck ==
  ASSUME request \in Requests, NEW d, IsWhole(d)
  PROVE  IsDeck(d)
<1>1. DeckSize \in Nat /\ DeckSize >= 2 /\ d \in [Slots -> request.pool]
  BY RequestFacts DEF IsWhole
<1>2. ToSet(d) = {d[i] : i \in Slots}
  BY <1>1, DeckMembers
<1>3. ASSUME NEW c \in ToSet(d) PROVE \E o \in ToSet(d) : o # c
  <2>1. PICK i \in Slots : c = d[i]
    BY <1>2
  <2>2. PICK j \in Slots : j # i
    <3>1. 1 \in Slots /\ 2 \in Slots
      BY <1>1 DEF Slots
    <3> QED BY <3>1
  <2>3. d[j] # d[i]
    BY <2>2 DEF IsWhole
  <2> QED BY <2>1, <2>3, <1>2
<1> QED BY <1>1, <1>3 DEF IsDeck

(* Roles are the first slots.                                              *)
LEMMA RolePrefixType ==
  ASSUME request \in Requests
  PROVE  FixedPrefix \in 0..DeckSize /\ RolePrefix \in 0..DeckSize
<1> DEFINE p == Len(request.fixedIds)
           q == Len(request.fixedChars)
           sum == p + q
           lead == IF request.final THEN 1 ELSE 0
<1>1. DeckSize \in Nat /\ DeckSize >= 2 /\ sum \in Nat
  <2>1. /\ DeckSize \in Nat /\ DeckSize >= 2
        /\ request.fixedIds \in Seq(Nat) /\ request.fixedChars \in Seq(Nat)
    BY RequestFacts
  <2>2. p \in Nat
    BY <2>1, LenProperties
  <2>3. q \in Nat
    BY <2>1, LenProperties
  <2> HIDE DEF p, q
  <2> QED BY <2>1, <2>2, <2>3
<1>2. FixedPrefix = IF request.members THEN 0 ELSE Min({DeckSize, sum})
  BY Zenon DEF FixedPrefix
<1> HIDE DEF sum
<1>3. {DeckSize, sum} \in SUBSET Nat /\ {DeckSize, sum} # {}
  BY <1>1
<1>4. Min({DeckSize, sum}) \in {DeckSize, sum} /\ Min({DeckSize, sum}) <= DeckSize
  BY <1>3, MinProperties
<1>5. FixedPrefix \in 0..DeckSize
  BY <1>1, <1>2, <1>4
<1>6. lead \in Nat /\ lead <= DeckSize
  BY <1>1
<1>7. RolePrefix = Max({FixedPrefix, lead})
  BY Zenon DEF RolePrefix
<1> HIDE DEF lead
<1> DEFINE S == {FixedPrefix, lead}
<1>8. S \in SUBSET Nat /\ S # {} /\ IsFiniteSet(S) /\ \A x \in S : x <= DeckSize
  <2>1. IsFiniteSet({FixedPrefix} \cup {lead})
    BY FS_Singleton, FS_Union
  <2>2. S = {FixedPrefix} \cup {lead}
    OBVIOUS
  <2> QED BY <2>1, <2>2, <1>1, <1>5, <1>6
<1> HIDE DEF S
<1>9. Max(S) \in S /\ Max(S) \in Nat
  BY <1>8, LargestOfNat
<1> QED BY <1>1, <1>5, <1>7, <1>8, <1>9 DEF S

\* By public id, then by index.
CardOrder(S) ==
  {p \in S \X S : \/ Card[p[1]].id < Card[p[2]].id
                  \/ Card[p[1]].id = Card[p[2]].id /\ p[1] < p[2]}

(* The reported order is one of cards of the pool, one for each slot.      *)
LEMMA SortExchangeableOK ==
  ASSUME request \in Requests, NEW d, IsWhole(d)
  PROVE  SortExchangeable(d) \in Seq(request.pool) /\ Len(SortExchangeable(d)) = DeckSize
<1> DEFINE r == RolePrefix
           I == r + 1..DeckSize
           free == {d[i] : i \in I}
           Before(a, b) == \/ Card[a].id < Card[b].id
                           \/ Card[a].id = Card[b].id /\ a < b
           n == Cardinality(free)
           Weight(x) == Cardinality({y \in free : Before(y, x)})
           o == [i \in 1..n |-> CHOOSE x \in free : Weight(x) = i - 1]
           head == SubSeq(d, 1, r)
           tail == SubSeq(o, 1, n)
<1>1. SortExchangeable(d) = head \o tail
  BY Zenon DEF SortExchangeable, SortedBy
<1>2. DeckSize \in Nat /\ r \in 0..DeckSize
  BY RequestFacts, RolePrefixType
<1>3. d \in [Slots -> request.pool] /\ \A i \in Slots : d[i] \in request.pool
  BY DEF IsWhole
<1> HIDE DEF r
<1>4. free \in SUBSET request.pool /\ IsFiniteSet(free) /\ n = DeckSize - r
  <2>1. I \subseteq Slots
    BY <1>2 DEF Slots
  <2>2. IsFiniteSet(I) /\ Cardinality(I) = DeckSize - r
    <3> DEFINE a == r + 1
    <3>1. a \in Int /\ DeckSize \in Int
      BY <1>2
    <3>2. IsFiniteSet(a..DeckSize)
      BY <3>1, FS_Interval
    <3>3. Cardinality(a..DeckSize) = IF a > DeckSize THEN 0 ELSE DeckSize - a + 1
      BY <3>1, FS_Interval
    <3> QED BY <3>2, <3>3, <1>2
  <2>3. \A i, j \in I : d[i] = d[j] => i = j
    BY <2>1 DEF IsWhole
  <2> HIDE DEF I
  <2>4. IsFiniteSet(free) /\ n = Cardinality(I)
    BY <2>2, <2>3, ValuesOfDistinct
  <2> QED BY <2>1, <2>2, <2>4, <1>3
<1> HIDE DEF free
<1> DEFINE L == CardOrder(free)
<1>9. \A x, y \in free : <<x, y>> \in L <=> Before(x, y)
  BY DEF CardOrder
<1>10. Orders(L, free)
  <2>1. \A x \in free : x \in Nat /\ Card[x].id \in Nat
    BY <1>4, CardFacts
  <2> HIDE DEF L
  <2>3. \A x \in free : <<x, x>> \notin L
    BY <1>9, <2>1
  <2>4. \A x, y, z \in free : <<x, y>> \in L /\ <<y, z>> \in L => <<x, z>> \in L
    BY <1>9, <2>1
  <2>5. ASSUME NEW x \in free, NEW y \in free, x # y
        PROVE  <<x, y>> \in L \/ <<y, x>> \in L
    <3>2. Before(x, y) \/ Before(y, x)
      BY <2>1, <2>5
    <3> HIDE DEF Before
    <3> QED BY <1>9, <3>2
  <2> QED BY <2>3, <2>4, <2>5 DEF Orders
<1>11. \A x \in free : RankIn(L, free, x) = Weight(x)
  <2> SUFFICES ASSUME NEW x \in free PROVE RankIn(L, free, x) = Weight(x)
    OBVIOUS
  <2>1. {y \in free : <<y, x>> \in L} = {y \in free : Before(y, x)}
    BY <1>9
  <2> QED BY <2>1 DEF RankIn
<1> HIDE DEF Weight, L, Before
<1>12. n \in Nat /\ \A i \in 1..n : \E x \in free : Weight(x) = i - 1
  <2>1. n \in Nat /\ \A i \in 0..n - 1 : \E x \in free : RankIn(L, free, x) = i
    BY <1>4, <1>10, Ranks
  <2> SUFFICES ASSUME NEW i \in 1..n PROVE \E x \in free : Weight(x) = i - 1
    BY <2>1
  <2>2. i - 1 \in 0..n - 1
    BY <2>1
  <2> QED BY <2>1, <2>2, <1>11
<1> HIDE DEF n
<1>13. \A i \in 1..n : (CHOOSE x \in free : Weight(x) = i - 1) \in free
  BY <1>12, Zenon
<1>14. o \in [1..n -> free]
  BY <1>13, Zenon
<1> HIDE DEF o
<1>15. tail \in Seq(request.pool) /\ Len(tail) = n
  <2>1. \A i \in 1..n : o[i] \in request.pool
    BY <1>4, <1>14
  <2>2. 1 \in Int /\ n \in Int
    BY <1>12
  <2> DEFINE P == request.pool
  <2>3. \A i \in 1..n : o[i] \in P
    BY <2>1
  <2> HIDE DEF P
  <2>4. tail \in Seq(P)
    BY <2>2, <2>3, SubSeqProperties
  <2>5. Len(tail) = IF 1 <= n THEN n - 1 + 1 ELSE 0
    BY <2>2, <2>3, SubSeqProperties
  <2> HIDE DEF tail
  <2> QED BY <2>4, <2>5, <1>12 DEF P
<1>16. head \in Seq(request.pool) /\ Len(head) = r
  <2>1. \A i \in 1..r : d[i] \in request.pool
    BY <1>2, <1>3 DEF Slots
  <2>2. 1 \in Int /\ r \in Int
    BY <1>2
  <2> DEFINE P == request.pool
  <2>3. \A i \in 1..r : d[i] \in P
    BY <2>1
  <2> HIDE DEF P
  <2>4. head \in Seq(P)
    BY <2>2, <2>3, SubSeqProperties
  <2>5. Len(head) = IF 1 <= r THEN r - 1 + 1 ELSE 0
    BY <2>2, <2>3, SubSeqProperties
  <2> HIDE DEF head
  <2> QED BY <2>4, <2>5, <1>2 DEF P
<1> HIDE DEF head, tail
<1> DEFINE t == head \o tail
<1>17. t \in Seq(request.pool) /\ Len(t) = Len(head) + Len(tail)
  BY <1>15, <1>16, ConcatProperties
<1> HIDE DEF t
<1>18. Len(t) = DeckSize
  BY <1>17, <1>15, <1>16, <1>4, <1>2
<1> QED BY <1>1, <1>17, <1>18 DEF t

(* A reported result has numbers for a key.                                *)
LEMMA ReportedKeyed ==
  ASSUME request \in Requests, NEW d, IsDeck(d),
         NEW order \in Seq(request.pool), Len(order) = DeckSize
  PROVE  Keyed({Reported(d, order)})
<1> DEFINE ids == [i \in Slots |-> Card[order[i]].id]
           r == Reported(d, order)
<1>1. /\ r.score = Score(d) /\ r.power = Power(d)
      /\ r.set = Code(Ascending(Ids(d))) /\ r.layout = Code(ids \o order)
  BY DEF Reported
<1>2. Score(d) \in Nat /\ Power(d) \in Nat
  BY ScoreNat, PowerNat DEF IsDeck
<1>3. Code(Ascending(Ids(d))) \in Nat
  <2> DEFINE T == ToSet(d)
             id == [c \in T |-> Card[c].id]
             S == Ids(d)
  <2>1. T \in SUBSET request.pool /\ IsFiniteSet(T)
    BY DeckMembers DEF IsDeck
  <2> HIDE DEF T
  <2>2. S = {id[c] : c \in T} /\ \A c \in T : id[c] \in Nat
    BY <2>1, CardFacts DEF Ids, T
  <2> HIDE DEF id, S
  <2>3. IsFiniteSet(S)
    BY <2>1, <2>2, ImageFinite
  <2>4. S \in SUBSET Nat /\ S \in SUBSET Int
    BY <2>2
  <2>5. Ascending(S) \in Seq(S)
    BY <2>3, <2>4, AscendingProperties
  <2>6. Ascending(S) \in Seq(Nat)
    BY <2>4, <2>5, SeqOfMore
  <2> QED BY <2>6, CodeNat DEF S
<1>4. Code(ids \o order) \in Nat
  <2>1. \A i \in Slots : order[i] \in request.pool
    BY ElementOfSeq DEF Slots
  <2>2. ids \in [Slots -> Nat]
    BY <2>1, CardFacts
  <2> HIDE DEF ids
  <2>3. ids \in Seq(Nat)
    BY <2>2, SlotSumNat
  <2>4. order \in Seq(Nat)
    BY RequestFacts, SeqOfMore
  <2>5. ids \o order \in Seq(Nat)
    BY <2>3, <2>4, ConcatProperties
  <2> QED BY <2>5, CodeNat
<1> HIDE DEF ids, r
<1> QED BY <1>1, <1>2, <1>3, <1>4 DEF Keyed, r

(* A finite set of keyed results has a best one.                           *)
LEMMA BestIsOne ==
  ASSUME NEW S, IsFiniteSet(S), S # {}, Keyed(S)
  PROVE  BestOf(S) \in S
<1> DEFINE Weight(x) == Cardinality({y \in S : KeyLess(Ctx, y, x)})
           W == {Weight(x) : x \in S}
<1>1. \A x \in S : IsFiniteSet({y \in S : KeyLess(Ctx, y, x)}) /\ Weight(x) \in Nat
  <2> SUFFICES ASSUME NEW x \in S PROVE IsFiniteSet({y \in S : KeyLess(Ctx, y, x)})
    BY FS_CardinalityType
  <2> QED BY FS_Subset
<1>2. \E x \in S : \A y \in S : Weight(x) <= Weight(y)
  <2>1. W \subseteq Nat /\ W # {}
    BY <1>1
  <2>2. PICK w \in W : \A v \in W : w <= v
    <3> HIDE DEF W
    <3> QED BY <2>1, LeastNatural
  <2> QED BY <2>2
<1>3. PICK x \in S : \A y \in S : Weight(x) <= Weight(y)
  BY <1>2
<1>4. \A y \in S : ~KeyLess(Ctx, y, x)
  <2> SUFFICES ASSUME NEW y \in S, KeyLess(Ctx, y, x) PROVE FALSE
    OBVIOUS
  <2> DEFINE A == {z \in S : KeyLess(Ctx, z, y)}
             B == {z \in S : KeyLess(Ctx, z, x)}
  <2>1. /\ ~KeyLess(Ctx, y, y)
        /\ \A z \in S : KeyLess(Ctx, z, y) => KeyLess(Ctx, z, x)
    BY KeyLessIsOrder
  <2>2. A \in SUBSET B /\ y \in B /\ y \notin A
    BY <2>1
  <2>3. IsFiniteSet(B)
    BY <1>1
  <2>4. Cardinality(A) \in Nat /\ Cardinality(B) \in Nat
    BY <1>1
  <2> HIDE DEF A, B
  <2>5. Cardinality(A) < Cardinality(B)
    <3>1. Cardinality(A) <= Cardinality(B) /\ (Cardinality(B) = Cardinality(A) => B = A)
      BY <2>2, <2>3, FS_Subset
    <3>2. Cardinality(B) # Cardinality(A)
      BY <3>1, <2>2
    <3> DEFINE p == Cardinality(A)
               q == Cardinality(B)
    <3>3. p \in Nat /\ q \in Nat /\ p <= q /\ q # p
      BY <3>1, <3>2, <1>1, <1>3 DEF A, B
    <3> HIDE DEF p, q
    <3>4. p < q
      BY <3>3
    <3> QED BY <3>4 DEF p, q
  <2>6. Weight(x) <= Weight(y)
    BY <1>3
  <2> QED BY <2>4, <2>5, <2>6 DEF A, B
<1> QED BY <1>4, Zenon DEF BestOf

\* What a set of results must be for the tracker to take it.
Rankable(S) == IsFiniteSet(S) /\ Keyed(S)

(* A whole deck has at most one result, with numbers for a key.            *)
LEMMA EvaluatedOK ==
  ASSUME request \in Requests, NEW d, IsWhole(d)
  PROVE  \E r : Keyed({r}) /\ EvaluateCandidate(d) \in {{}, {r}}
<1> DEFINE tried == IF BonusOrderObservable(d)
                    THEN {<<e, e>> : e \in Arrangements(d)}
                    ELSE {<<d, SortExchangeable(d)>>}
           reports == {Reported(t[1], t[2]) : t \in tried}
<1>0. d \in [Slots -> request.pool] /\ IsDeck(d)
  BY WholeIsDeck DEF IsWhole
<1>1. EvaluateCandidate(d) \in {{}, {BestOf(reports)}}
  <2>1. CASE ~Valid(d)
    BY <2>1, Zenon DEF EvaluateCandidate
  <2>2. CASE Valid(d)
    BY <2>2, Zenon DEF EvaluateCandidate
  <2> QED BY <2>1, <2>2
<1>2. IsFiniteSet(tried) /\ tried # {} /\ \A t \in tried : Keyed({Reported(t[1], t[2])})
  <2>1. CASE BonusOrderObservable(d)
    <3>1. tried = {<<e, e>> : e \in Arrangements(d)}
      BY <2>1
    <3>2. IsFiniteSet(Arrangements(d))
      <4>1. IsFiniteSet(Slots)
        BY RequestFacts, FS_Interval DEF Slots
      <4>2. IsFiniteSet([Slots -> ToSet(d)])
        BY <4>1, <1>0, DeckMembers, FunctionsFinite
      <4>3. Arrangements(d) \in SUBSET [Slots -> ToSet(d)]
        BY DEF Arrangements
      <4> QED BY <4>2, <4>3, FS_Subset
    <3>3. IsFiniteSet(tried)
      <4> DEFINE A == Arrangements(d)
                 pair == [e \in A |-> <<e, e>>]
      <4>1. tried = {pair[e] : e \in A}
        BY <3>1
      <4> HIDE DEF A, pair, tried
      <4> QED BY <4>1, <3>2, ImageFinite DEF A
    <3>4. d \in Arrangements(d)
      <4>1. d \in [Slots -> ToSet(d)]
        BY <1>0, DeckMembers
      <4> QED BY <4>1 DEF Arrangements
    <3>5. ASSUME NEW e \in Arrangements(d) PROVE Keyed({Reported(e, e)})
      <4>1. e \in [Slots -> ToSet(d)] /\ ToSet(e) = ToSet(d)
        BY DEF Arrangements
      <4>2. e \in [Slots -> request.pool]
        BY <4>1, <1>0, DeckMembers
      <4>3. IsDeck(e)
        BY <4>1, <4>2, <1>0 DEF IsDeck
      <4>4. e \in Seq(request.pool) /\ Len(e) = DeckSize
        BY <4>2, DeckMembers
      <4> QED BY <4>3, <4>4, ReportedKeyed
    <3>6. ASSUME NEW t \in tried PROVE Keyed({Reported(t[1], t[2])})
      <4>1. PICK e \in Arrangements(d) : t = <<e, e>>
        BY <3>1
      <4>2. t[1] = e /\ t[2] = e
        BY <4>1
      <4> QED BY <4>2, <3>5
    <3> QED BY <3>1, <3>3, <3>4, <3>6
  <2>2. CASE ~BonusOrderObservable(d)
    <3> DEFINE order == SortExchangeable(d)
    <3>1. tried = {<<d, order>>}
      BY <2>2
    <3>2. Keyed({Reported(d, order)})
      BY <1>0, SortExchangeableOK, ReportedKeyed
    <3>3. IsFiniteSet({<<d, order>>})
      BY FS_Singleton
    <3> HIDE DEF order, tried
    <3> QED BY <3>1, <3>2, <3>3
  <2> QED BY <2>1, <2>2
<1> HIDE DEF tried
<1>3. Keyed(reports) /\ reports # {}
  BY <1>2 DEF Keyed
<1>4. IsFiniteSet(reports)
  <2> DEFINE report == [t \in tried |-> Reported(t[1], t[2])]
  <2>1. reports = {report[t] : t \in tried}
    OBVIOUS
  <2> HIDE DEF report, reports
  <2> QED BY <2>1, <1>2, ImageFinite
<1> HIDE DEF reports
<1>5. BestOf(reports) \in reports
  BY <1>3, <1>4, BestIsOne
<1>6. Keyed({BestOf(reports)})
  BY <1>3, <1>5 DEF Keyed
<1> QED BY <1>1, <1>6

(* Whole decks have rankable results.                                      *)
LEMMA ResultsRankable ==
  ASSUME request \in Requests, NEW D, \A d \in D : IsWhole(d)
  PROVE  Rankable(Results(D))
<1>1. IsFiniteSet(D)
  <2>1. D \in SUBSET [Slots -> request.pool]
    BY DEF IsWhole
  <2>2. IsFiniteSet(Slots) /\ IsFiniteSet(request.pool)
    BY RequestFacts, FS_Interval DEF Slots
  <2>3. IsFiniteSet([Slots -> request.pool])
    BY <2>2, FunctionsFinite
  <2> QED BY <2>1, <2>3, FS_Subset
<1> DEFINE of == [d \in D |-> EvaluateCandidate(d)]
           sets == {of[d] : d \in D}
<1>2. Results(D) = UNION sets
  BY DEF Results
<1>3. \A s \in sets : IsFiniteSet(s) /\ Keyed(s)
  <2> SUFFICES ASSUME NEW d \in D PROVE IsFiniteSet(EvaluateCandidate(d)) /\ Keyed(EvaluateCandidate(d))
    OBVIOUS
  <2>1. PICK r : Keyed({r}) /\ EvaluateCandidate(d) \in {{}, {r}}
    BY EvaluatedOK
  <2>2. IsFiniteSet({r}) /\ IsFiniteSet({}) /\ Keyed({})
    BY FS_Singleton, FS_EmptySet DEF Keyed
  <2> QED BY <2>1, <2>2
<1> HIDE DEF of
<1>4. IsFiniteSet(sets)
  BY <1>1, ImageFinite
<1> HIDE DEF sets
<1>5. IsFiniteSet(UNION sets)
  BY <1>3, <1>4, FS_UNION
<1>6. Keyed(UNION sets)
  BY <1>3 DEF Keyed
<1> QED BY <1>2, <1>5, <1>6 DEF Rankable

(* The tracker takes rankable results.                                     *)
LEMMA InsertAllOK ==
  ASSUME request \in Requests, NEW list, ResultsOK(list), NEW new, Rankable(new)
  PROVE  ResultsOK(InsertAll(list, new))
<1> DEFINE n == Cardinality(new)
           s == SetToSeq(new)
           t == InsertedList(Ctx, request.topK, list, s)
<1>1. PICK R : Keyed(R) /\ list \in Trackers(R, Ctx, request.topK)
  BY DEF ResultsOK
<1> DEFINE U == R \cup new
<1>2. Keyed(U)
  BY <1>1 DEF Keyed, Rankable
<1>3. R \in SUBSET U /\ new \in SUBSET U
  OBVIOUS
<1> HIDE DEF U
<1>4. list \in Trackers(U, Ctx, request.topK)
  <2>1. list \in Seq(R)
    BY <1>1 DEF Trackers
  <2>2. list \in Seq(U)
    BY <2>1, <1>3, SeqOfMore
  <2> QED BY <1>1, <2>2 DEF Trackers
<1>5. s \in Seq(U)
  <2>1. n \in Nat /\ s \in [1..n -> new]
    BY SetToSeqProperties DEF Rankable
  <2> HIDE DEF n, s
  <2>2. s \in Seq(new)
    BY <2>1
  <2> QED BY <2>2, <1>3, SeqOfMore
<1>6. InsertAll(list, new) = t
  BY Zenon DEF InsertAll, InsertedList
<1>7. request.topK \in Nat
  BY RequestFacts
<1> HIDE DEF s
<1>8. t \in Trackers(U, Ctx, request.topK)
  BY <1>2, <1>4, <1>5, <1>7, InsertedListCorrect
<1> HIDE DEF t
<1> QED BY <1>2, <1>6, <1>8 DEF ResultsOK

(* A cutoff is a number.                                                   *)
LEMMA CutNat ==
  ASSUME request \in Requests, ResultsOK(results)
  PROVE  Cut \in Nat
<1> DEFINE k == request.topK
           n == Len(results)
           last == results[n]
<1>1. request.floor \in Nat /\ k \in Nat \ {0} /\ RankBase \in Nat
  BY RequestFacts, ConstantAssumption
<1>2. PICK R : Keyed(R) /\ results \in Trackers(R, Ctx, k)
  BY DEF ResultsOK
<1>3. results \in Seq(R) /\ n \in Nat /\ \A i \in 1..n : results[i] \in R
  BY <1>2, LenProperties, ElementOfSeq DEF Trackers
<1>4. ASSUME Full(k, results) PROVE last.score \in Nat /\ last.power \in Nat
  <2>1. n >= 1
    BY <1>4, <1>1, <1>3 DEF Full
  <2> HIDE DEF n
  <2>2. last \in R
    BY <1>3, <2>1
  <2> QED BY <1>2, <2>2 DEF Keyed
<1>5. Threshold(k, results, request.floor) \in Nat
  BY <1>1, <1>4 DEF Threshold, Larger
<1>6. RankThreshold(Ctx, k, results, request.floor, RankBase) \in Nat
  <2>1. CASE Ctx.target # "mysekai"
    BY <2>1, <1>5 DEF RankThreshold
  <2>2. CASE Ctx.target = "mysekai"
    <3>1. request.floor * RankBase \in Nat
      BY <1>1
    <3>2. ASSUME Full(k, results) PROVE last.score * RankBase + last.power \in Nat
      <4> HIDE DEF last
      <4> QED BY <1>1, <1>4, <3>2
    <3> QED BY <2>2, <3>1, <3>2 DEF RankThreshold, Larger
  <2> QED BY <2>1, <2>2
<1> QED BY <1>6 DEF Cut

-----------------------------------------------------------------------------
(* Seeds.                                                                    *)

(* The roles filled from a deck's cards hold cards of the deck.            *)
LEMMA SeedRolesOK ==
  ASSUME request \in Requests, NEW source \in [Slots -> request.pool]
  PROVE  SeedRoles(source) \in SUBSET Seq(ToSet(source))
<1> DEFINE n == RolePrefix
           T == ToSet(source)
           V == SUBSET Seq(T)
           Rest(p, k) == IF request.final /\ k = 1 THEN {source[1]} ELSE T \ ToSet(p)
           Fit(p, k) == {c \in Rest(p, k) : CardMatchesSlot(k, c)}
           Grown(p, k) == IF Fit(p, k) = {} THEN {} ELSE {Append(p, Min(Fit(p, k)))}
           Role(v, k) == UNION {Grown(p, k) : p \in v}
           b == {<<>>}
           h == [p \in (1..n) \X V |-> Role(p[2], p[1])]
           F == CHOOSE g : g = [i \in 0..n |-> IF i = 0 THEN b ELSE Role(g[i - 1], i)]
<1>1. n \in Nat
  BY RolePrefixType
<1>2. SeedRoles(source) = F[n]
  BY Zenon DEF SeedRoles
<1>b. b \in V
  BY EmptySeq
<1>t. T \in SUBSET Nat /\ source[1] \in T
  <2>1. T \in SUBSET request.pool /\ T = {source[i] : i \in Slots}
    BY DeckMembers
  <2>2. 1 \in Slots
    BY RequestFacts DEF Slots
  <2> QED BY <2>1, <2>2, RequestFacts
<1> HIDE DEF n, T
<1>n. ASSUME NEW i \in 1..n, NEW v \in V PROVE Role(v, i) \in V
  <2>1. ASSUME NEW p \in v PROVE Grown(p, i) \in SUBSET Seq(T)
    <3>1. p \in Seq(T)
      OBVIOUS
    <3>2. Fit(p, i) \in SUBSET T /\ Fit(p, i) \in SUBSET Nat
      BY <1>t
    <3> HIDE DEF Fit
    <3>3. ASSUME Fit(p, i) # {} PROVE Append(p, Min(Fit(p, i))) \in Seq(T)
      <4>1. Min(Fit(p, i)) \in T
        BY <3>2, <3>3, MinProperties
      <4> QED BY <3>1, <4>1, AppendProperties
    <3> QED BY <3>3
  <2> HIDE DEF Grown
  <2> QED BY <2>1
<1> HIDE DEF Role, b
<1>3. \A i \in 1..n, v \in V : h[<<i, v>>] = Role(v, i)
  OBVIOUS
<1> HIDE DEF h, V
<1>4. Steps(n, V, h)
  BY <1>3, <1>n DEF Steps
<1>5. PICK g \in [0..n -> V] : Follows(n, b, h, g)
  BY <1>b, <1>1, <1>4, ListRecursion
<1>6. \A i \in 0..n : (IF i = 0 THEN b ELSE h[<<i, g[i - 1]>>])
                        = IF i = 0 THEN b ELSE Role(g[i - 1], i)
  <2> SUFFICES ASSUME NEW i \in 0..n, i # 0 PROVE h[<<i, g[i - 1]>>] = Role(g[i - 1], i)
    OBVIOUS
  <2>1. i \in 1..n /\ i - 1 \in 0..n
    BY <1>1
  <2>2. g[i - 1] \in V
    BY <2>1, <1>5
  <2> QED BY <2>1, <2>2, <1>3
<1>7. g = [i \in 0..n |-> IF i = 0 THEN b ELSE Role(g[i - 1], i)]
  BY <1>5, <1>6 DEF Follows
<1>8. F = [i \in 0..n |-> IF i = 0 THEN b ELSE Role(F[i - 1], i)]
  BY <1>7, Zenon
<1> HIDE DEF F
<1>9. \A i \in 0..n : F[i] = IF i = 0 THEN b ELSE Role(F[i - 1], i)
  BY <1>8, Zenon
<1>10. F[0] \in V /\ \A i \in 1..n : F[i - 1] \in V => F[i] \in V
  <2>1. F[0] = b
    BY <1>1, <1>9
  <2>2. ASSUME NEW i \in 1..n, F[i - 1] \in V PROVE F[i] \in V
    <3>1. i \in 0..n /\ i # 0
      BY <1>1
    <3>2. F[i] = Role(F[i - 1], i)
      BY <3>1, <1>9
    <3> QED BY <3>2, <2>2, <1>n
  <2> QED BY <2>1, <2>2, <1>b
<1>11. \A i \in 0..n : F[i] \in V
  BY <1>1, <1>10, ListInduction
<1>12. F[n] \in V
  BY <1>1, <1>11
<1> QED BY <1>2, <1>12 DEF V, T

(* A planted seed is one result that can be ranked, or none.               *)
LEMMA CanonicalizedRankable ==
  ASSUME request \in Requests, NEW source \in [Slots -> request.pool]
  PROVE  Rankable(Canonicalized(source))
<1> DEFINE T == ToSet(source)
           decks == {p \o Ascending(T \ ToSet(p)) : p \in SeedRoles(source)}
           D == {d \in decks : Len(d) = DeckSize /\ Cardinality(UsedBy(d)) = DeckSize}
<1>1. Canonicalized(source) = Results(D)
  BY Zenon DEF Canonicalized
<1>2. T \in SUBSET request.pool /\ IsFiniteSet(T) /\ T \in SUBSET Int
  BY DeckMembers, RequestFacts
<1> HIDE DEF T
<1>3. ASSUME NEW d \in D PROVE IsWhole(d)
  <2>1. PICK p \in SeedRoles(source) : d = p \o Ascending(T \ ToSet(p))
    OBVIOUS
  <2>2. p \in Seq(T)
    BY SeedRolesOK DEF T
  <2> DEFINE R == T \ ToSet(p)
             q == Ascending(R)
  <2>3. R \in SUBSET Int /\ IsFiniteSet(R) /\ R \in SUBSET T
    BY <1>2, FS_Subset
  <2> HIDE DEF R
  <2>4. q \in Seq(R)
    BY <2>3, AscendingProperties
  <2>5. q \in Seq(T)
    BY <2>3, <2>4, SeqOfMore
  <2>6. d \in Seq(T)
    <3> HIDE DEF q, D
    <3>1. p \o q \in Seq(T)
      BY <2>2, <2>5, ConcatProperties
    <3> QED BY <3>1, <2>1 DEF q, R
  <2>7. d \in Seq(request.pool)
    BY <2>6, <1>2, SeqOfMore
  <2>8. Len(d) = DeckSize /\ Cardinality(UsedBy(d)) = DeckSize /\ DeckSize \in Nat
    BY RequestFacts
  <2> HIDE DEF D
  <2>9. d \in [Slots -> request.pool]
    BY <2>7, <2>8, LenProperties DEF Slots
  <2>10. IsFiniteSet(Slots) /\ Cardinality(Slots) = DeckSize
    <3>1. Cardinality(1..DeckSize) = IF 1 > DeckSize THEN 0 ELSE DeckSize - 1 + 1
      BY <2>8, FS_Interval
    <3>2. IsFiniteSet(1..DeckSize)
      BY <2>8, FS_Interval
    <3> QED BY <3>1, <3>2, <2>8, RequestFacts DEF Slots
  <2> DEFINE f == [i \in Slots |-> Card[d[i]].char]
  <2>11. UsedBy(d) = {f[i] : i \in Slots}
    <3>1. ToSet(d) = {d[i] : i \in Slots}
      BY <2>9, DeckMembers
    <3> QED BY <3>1 DEF UsedBy
  <2>12. \A i \in Slots : f[i] = Card[d[i]].char
    OBVIOUS
  <2> HIDE DEF f
  <2>13. \A i, j \in Slots : f[i] = f[j] => i = j
    BY <2>8, <2>10, <2>11, DistinctValues
  <2> QED BY <2>9, <2>12, <2>13 DEF IsWhole
<1> HIDE DEF D
<1> QED BY <1>1, <1>3, ResultsRankable

-----------------------------------------------------------------------------
(* What the tests of a card read.                                            *)

(* The bonus tail of a scan is a number.                                   *)
LEMMA BonusTailNat ==
  ASSUME request \in Requests, SuffixOK, NEW dense \in Positions,
         NEW slots \in 0..DeckSize, NEW counted \in 0..1
  PROVE  BonusTail(dense, slots, counted) \in Nat
<1> DEFINE left == request.cap - counted
           room == Max({0, left})
           most == Min({slots, room})
<1>1. DeckSize \in Nat /\ request.cap \in Nat
  BY RequestFacts
<1>2. left \in Int
  BY <1>1
<1> HIDE DEF left
<1>3. room \in Nat
  <2> DEFINE S == {0, left}
  <2>1. S \in SUBSET Int /\ S # {} /\ IsFiniteSet(S) /\ 0 \in S
    <3>1. IsFiniteSet({0} \cup {left})
      BY FS_Singleton, FS_Union
    <3>2. S = {0} \cup {left}
      OBVIOUS
    <3> QED BY <3>1, <3>2, <1>2
  <2> HIDE DEF S
  <2>2. Max(S) \in S /\ Max(S) >= 0
    BY <2>1, MaxProperties
  <2> QED BY <2>1, <2>2 DEF S
<1> HIDE DEF room
<1>4. most \in 0..DeckSize
  <2>1. {slots, room} \in SUBSET Nat /\ {slots, room} # {}
    BY <1>1, <1>3
  <2>2. most \in {slots, room} /\ most <= slots
    BY <2>1, MinProperties
  <2> HIDE DEF most
  <2> QED BY <2>1, <2>2, <1>1
<1>5. /\ DenseTail(dense, "base", slots) \in Nat /\ DenseTail(dense, "bonus", slots) \in Nat
      /\ DenseTail(dense, "limited", most) \in Nat
  <2> HIDE DEF most
  <2> QED BY <1>4 DEF SuffixOK, BonusFields
<1>6. BonusTail(dense, slots, counted) =
        DenseTail(dense, IF request.final THEN "base" ELSE "bonus", slots)
          + IF request.final THEN DenseTail(dense, "limited", most) ELSE 0
  BY DEF BonusTail, room, left
<1> HIDE DEF most
<1> QED BY <1>5, <1>6

\* A call that is scanning, and the card that is next.
IsScan(f) == FrameOK(f) /\ f.mode # "enter" /\ f.dense <= LastCard

(* A scan's next card is in the pool, and there is a slot for it.          *)
LEMMA ScanFacts ==
  ASSUME request \in Requests, NEW f, IsScan(f)
  PROVE  /\ f.dense \in request.pool /\ f.dense \in Nat
         /\ f.dense \in Positions /\ f.dense + 1 \in Positions
         /\ f.dense + 1 \in FirstCard..LastCard + 1
         /\ DeckOK(f.deck) /\ f.deck \in Seq(request.pool)
         /\ Len(f.deck) \in Nat /\ Len(f.deck) + 1 <= DeckSize
         /\ Open(f.deck) \in 1..DeckSize /\ Open(f.deck) - 1 \in 0..DeckSize
         /\ f.partial.bonus \in Nat /\ f.extra \in Nat
<1> DEFINE n == Len(f.deck)
<1>1. DeckSize \in Nat /\ FirstCard \in Nat /\ LastCard \in Nat
  BY RequestFacts
<1>2. request.pool = FirstCard..LastCard
  BY RequestFacts
<1>3. f.dense \in FirstCard..LastCard + 1 /\ f.dense <= LastCard
  BY DEF IsScan, FrameOK
<1>4. n \in 0..DeckSize - 1
  BY DEF IsScan, FrameOK
<1> HIDE DEF n
<1>5. n \in Nat /\ n + 1 <= DeckSize /\ DeckSize - n \in 1..DeckSize /\ DeckSize - n - 1 \in 0..DeckSize
  BY <1>1, <1>4
<1>6. f.dense \in FirstCard..LastCard /\ f.dense \in Nat /\ f.dense + 1 \in FirstCard..LastCard + 1
  BY <1>1, <1>3
<1>7. f.dense + 1 \in (FirstCard..LastCard) \cup {LastCard + 1}
  BY <1>1, <1>3
<1>8. DeckOK(f.deck) /\ f.partial.bonus \in Nat /\ f.extra \in Nat
  BY DEF IsScan, FrameOK, PartialOK
<1>9. f.deck \in Seq(request.pool)
  BY <1>8 DEF DeckOK
<1> QED BY <1>2, <1>5, <1>6, <1>7, <1>8, <1>9 DEF Positions, Open, n

(* The attributes of a prefix are at most as many as its cards.            *)
LEMMA DeckAttrs ==
  ASSUME NEW deck, Len(deck) \in Nat, DOMAIN deck = 1..Len(deck)
  PROVE  /\ IsFiniteSet({Card[c].attr : c \in ToSet(deck)})
         /\ Cardinality({Card[c].attr : c \in ToSet(deck)}) <= Len(deck)
<1> DEFINE n == Len(deck)
           f == [i \in 1..n |-> Card[deck[i]].attr]
           T == {Card[c].attr : c \in ToSet(deck)}
<1>1. \A x \in T : \E i \in 1..n : f[i] = x
  BY DEF ToSet
<1>2. DOMAIN f = 1..n /\ f = [i \in 1..n |-> f[i]] /\ n \in Nat
  OBVIOUS
<1> HIDE DEF f, n, T
<1>3. IsFiniteSet(T) /\ Cardinality(T) <= n
  BY <1>1, <1>2, ImageCardinality
<1> QED BY <1>3 DEF T, n

(* One more card has at most one more attribute.                           *)
LEMMA DeckAttrsMore ==
  ASSUME NEW deck, Len(deck) \in Nat, DOMAIN deck = 1..Len(deck), NEW x
  PROVE  /\ IsFiniteSet({Card[c].attr : c \in ToSet(deck) \cup {x}})
         /\ Cardinality({Card[c].attr : c \in ToSet(deck) \cup {x}}) <= Len(deck) + 1
<1> DEFINE T == {Card[c].attr : c \in ToSet(deck)}
           n == Len(deck)
<1>1. IsFiniteSet(T) /\ Cardinality(T) <= n /\ n \in Nat
  BY DeckAttrs
<1>2. {Card[c].attr : c \in ToSet(deck) \cup {x}} = T \cup {Card[x].attr}
  OBVIOUS
<1> HIDE DEF T, n
<1>3. IsFiniteSet(T \cup {Card[x].attr}) /\ Cardinality(T \cup {Card[x].attr}) <= n + 1
  <2>1. Cardinality(T) \in Nat
    BY <1>1, FS_CardinalityType
  <2>2. IsFiniteSet(T \cup {Card[x].attr})
    BY <1>1, FS_AddElement
  <2>3. Cardinality(T \cup {Card[x].attr}) \in {Cardinality(T), Cardinality(T) + 1}
    BY <1>1, FS_AddElement
  <2> QED BY <1>1, <2>1, <2>2, <2>3
<1> QED BY <1>2, <1>3 DEF n

(* The extra bonus with a scan's next card is a number.                    *)
LEMMA OwnExtraNat ==
  ASSUME request \in Requests, SuffixOK, NEW f, IsScan(f)
  PROVE  OwnExtra(f) \in Nat
<1> DEFINE attrs == {Card[c].attr : c \in ToSet(f.deck) \cup {f.dense}}
           n == Len(f.deck)
           rest == Open(f.deck) - 1
<1>1. f.deck \in Seq(request.pool) /\ n \in Nat /\ n + 1 <= DeckSize /\ rest \in 0..DeckSize
  BY ScanFacts
<1>2. DOMAIN f.deck = 1..n
  BY <1>1, LenProperties
<1>3. DeckSize \in Nat
  BY RequestFacts
<1>4. IsFiniteSet(attrs) /\ Cardinality(attrs) <= n + 1
  BY <1>1, <1>2, DeckAttrsMore
<1> HIDE DEF attrs, n, rest
<1>5. Cardinality(attrs) <= DeckSize
  <2>1. Cardinality(attrs) \in Nat
    BY <1>4, FS_CardinalityType
  <2> QED BY <2>1, <1>1, <1>3, <1>4
<1>6. rest \in Nat
  BY <1>1, <1>3
<1>7. WorldBloomExtra(attrs, Ids(f.deck), f.dense + 1, UsedBy(f.deck) \cup {Card[f.dense].char}, rest) \in Nat
  BY <1>4, <1>5, <1>6, WorldBloomExtraNat
<1> QED BY <1>7 DEF OwnExtra, attrs, rest

(* The extra bonus of a prefix's completions is a number.                  *)
LEMMA PrefixExtraNat ==
  ASSUME request \in Requests, SuffixOK, NEW deck \in Seq(request.pool), Len(deck) <= DeckSize,
         NEW dense
  PROVE  WorldBloomExtra({Card[c].attr : c \in ToSet(deck)}, Ids(deck), dense, UsedBy(deck),
                         Open(deck)) \in Nat
<1> DEFINE attrs == {Card[c].attr : c \in ToSet(deck)}
           n == Len(deck)
           rest == Open(deck)
<1>1. n \in Nat /\ DOMAIN deck = 1..n /\ n <= DeckSize
  BY LenProperties
<1>3. DeckSize \in Nat
  BY RequestFacts
<1>4. IsFiniteSet(attrs) /\ Cardinality(attrs) <= n
  BY <1>1, DeckAttrs
<1>r. rest = DeckSize - n
  BY DEF Open
<1> HIDE DEF attrs, n, rest
<1>5. Cardinality(attrs) <= DeckSize
  <2>1. Cardinality(attrs) \in Nat
    BY <1>4, FS_CardinalityType
  <2> QED BY <2>1, <1>1, <1>3, <1>4
<1>6. rest \in Nat
  BY <1>1, <1>3, <1>r
<1>7. WorldBloomExtra(attrs, Ids(deck), dense, UsedBy(deck), rest) \in Nat
  BY <1>4, <1>5, <1>6, WorldBloomExtraNat
<1> QED BY <1>7 DEF attrs, rest

(* The bonuses of a card's tests are numbers.                              *)
LEMMA CandidateBonusNat ==
  ASSUME request \in Requests, SuffixOK, NEW f, IsScan(f), NEW power, NEW skill,
         NEW extra \in Nat
  PROVE  Ahead(f, power, skill, extra).bonus \in Nat
<1> DEFINE k == Card[f.dense]
           own == IF request.final
                  THEN k.base + (IF CountsLimited THEN k.limited ELSE 0)
                  ELSE k.base + k.limited
           counted == IF CountsLimited /\ k.limited > 0 THEN 1 ELSE 0
           next == f.dense + 1
           slots == Open(f.deck) - 1
           tail == BonusTail(next, slots, counted)
           given == f.partial.bonus
<1>1. /\ f.dense \in request.pool /\ next \in Positions /\ slots \in 0..DeckSize
      /\ given \in Nat
  BY ScanFacts
<1>2. k.base \in Nat /\ k.limited \in Nat
  BY <1>1, CardFacts
<1>3. own \in Nat
  BY <1>2
<1>4. counted \in 0..1
  OBVIOUS
<1>5. Ahead(f, power, skill, extra).bonus = given + own + tail + extra
  BY Zenon DEF Ahead, CandidateInputs
<1> HIDE DEF own, counted, next, slots, given
<1>6. tail \in Nat
  BY <1>1, <1>4, BonusTailNat
<1> HIDE DEF tail
<1> QED BY <1>1, <1>3, <1>5, <1>6

(* So are those of the tests with the best members.                        *)
LEMMA TightBonusNat ==
  ASSUME request \in Requests, NEW f, IsScan(f), NEW extra \in Nat
  PROVE  Tight(f, extra).bonus \in Nat
<1> DEFINE c == f.dense
           used == UsedBy(f.deck) \cup {Card[c].char}
           slots == Open(f.deck) - 1
           best == Best(Unused(used), "bonus", slots)
           given == f.partial.bonus
           own == Terms(c).bonus
<1>1. c \in request.pool /\ slots \in 0..DeckSize /\ given \in Nat /\ DeckSize \in Nat
  BY ScanFacts, RequestFacts
<1>2. own \in Nat
  BY <1>1, CardFacts DEF Terms
<1>3. Tight(f, extra).bonus = given + own + best + extra
  BY DEF Tight, TightInputs, GlobalInputs
<1>4. best \in Nat
  <2>1. Unused(used) \in SUBSET request.pool
    BY DEF Unused
  <2>2. slots \in Nat
    <3> HIDE DEF slots
    <3> QED BY <1>1
  <2> HIDE DEF slots, used
  <2> QED BY <2>1, <2>2, BestNat DEF BonusFields
<1> HIDE DEF given, own, best
<1> QED BY <1>1, <1>2, <1>3, <1>4

(* So is that of the test of the whole rest.                               *)
LEMMA DenseBonusNat ==
  ASSUME request \in Requests, SuffixOK, NEW f, IsScan(f)
  PROVE  DenseInputs(f.dense, f.partial, Open(f.deck), f.extra).bonus \in Nat
<1> DEFINE given == f.partial.bonus
           slots == Open(f.deck)
           tail == BonusTail(f.dense, slots, 0)
<1>1. f.dense \in Positions /\ slots \in 1..DeckSize /\ given \in Nat /\ f.extra \in Nat
  BY ScanFacts
<1>2. DenseInputs(f.dense, f.partial, slots, f.extra).bonus = given + tail + f.extra
  BY DEF DenseInputs
<1>3. slots \in 0..DeckSize /\ 0 \in 0..1
  <2> HIDE DEF slots
  <2> QED BY <1>1
<1> HIDE DEF slots, given
<1>4. tail \in Nat
  BY <1>1, <1>3, BonusTailNat
<1> HIDE DEF tail
<1> QED BY <1>1, <1>2, <1>4 DEF slots

(* Sequences of one and two elements.                                      *)
LEMMA Single ==
  ASSUME NEW S, NEW a \in S
  PROVE  <<a>> \in Seq(S) /\ Len(<<a>>) = 1
OBVIOUS

(* The same with two.                                                      *)
LEMMA Double ==
  ASSUME NEW S, NEW a \in S, NEW b \in S
  PROVE  <<a, b>> \in Seq(S) /\ Len(<<a, b>>) = 2
OBVIOUS

(* The tests of a pruned scan's step can be asked of the cache.            *)
LEMMA ScanTestsOK ==
  ASSUME request \in Requests, SuffixOK, NEW f, IsScan(f), NEW own \in Nat
  PROVE  TestsOK(Tests(f, own))
<1> DEFINE S == {in \in {DenseInputs(f.dense, f.partial, Open(f.deck), f.extra),
                         Ahead(f, Max({CardPower(c) : c \in CandidateRun(f.dense)}),
                               Max({SkillMax(c) : c \in CandidateRun(f.dense)}), f.extra),
                         Ahead(f, CardPower(f.dense), SkillMax(f.dense), f.extra),
                         Ahead(f, CardPower(f.dense), SkillMax(f.dense), own),
                         Tight(f, own), Tight(f, f.extra)} : in.bonus \in Nat}
<1>0. f.extra \in Nat
  BY ScanFacts
<1>1. DenseInputs(f.dense, f.partial, Open(f.deck), f.extra) \in S
  BY DenseBonusNat
<1>2. Ahead(f, Max({CardPower(c) : c \in CandidateRun(f.dense)}),
            Max({SkillMax(c) : c \in CandidateRun(f.dense)}), f.extra) \in S
  BY <1>0, CandidateBonusNat
<1>3. Ahead(f, CardPower(f.dense), SkillMax(f.dense), f.extra) \in S
  BY <1>0, CandidateBonusNat
<1>4. Ahead(f, CardPower(f.dense), SkillMax(f.dense), own) \in S
  BY CandidateBonusNat
<1>5. Tight(f, own) \in S /\ Tight(f, f.extra) \in S
  BY <1>0, TightBonusNat
<1>6. \A in \in S : in.bonus \in Nat
  OBVIOUS
<1> HIDE DEF S
<1>7. DueTests(f) \in Seq(S)
  BY <1>1, EmptySeq, Single DEF DueTests
<1>8. RunTests(f) \in Seq(S)
  BY <1>2, Single DEF RunTests
<1>9. CardTests(f, own) \in Seq(S)
  <2> DEFINE first == <<Ahead(f, CardPower(f.dense), SkillMax(f.dense), f.extra)>>
             rest == CASE FastPath -> <<>>
                       [] request.worldBloom ->
                            <<Ahead(f, CardPower(f.dense), SkillMax(f.dense), own), Tight(f, own)>>
                       [] OTHER -> <<Tight(f, f.extra)>>
  <2>1. first \in Seq(S)
    BY <1>3, Single
  <2>2. rest \in Seq(S)
    BY <1>4, <1>5, EmptySeq, Single, Double
  <2>3. CardTests(f, own) = first \o rest
    BY DEF CardTests
  <2> HIDE DEF first, rest
  <2> QED BY <2>1, <2>2, <2>3, ConcatProperties
<1>10. Tests(f, own) \in Seq(S)
  <2> DEFINE due == DueTests(f)
             run == RunTests(f)
             card == CardTests(f, own)
             rest == IF Fits(f.deck, f.dense) THEN run \o card ELSE <<>>
  <2>1. Tests(f, own) = due \o rest
    BY Zenon DEF Tests
  <2>2. due \in Seq(S) /\ run \in Seq(S) /\ card \in Seq(S)
    BY <1>7, <1>8, <1>9
  <2> HIDE DEF due, run, card
  <2>3. run \o card \in Seq(S)
    BY <2>2, ConcatProperties
  <2>4. rest \in Seq(S)
    BY <2>3, EmptySeq
  <2> HIDE DEF rest
  <2> QED BY <2>1, <2>2, <2>4, ConcatProperties
<1> QED BY <1>6, <1>10 DEF TestsOK

-----------------------------------------------------------------------------
(* What is scanned in an order of its own.                                   *)

(* A card's power is a number.                                             *)
LEMMA CardPowerNat ==
  ASSUME request \in Requests, NEW c \in request.pool
  PROVE  CardPower(c) \in Nat
<1> DEFINE p == Card[c].power
           S == {p[u][a] : u, a \in BOOLEAN}
           D == BOOLEAN
           row == [u \in D |-> {p[u][a] : a \in D}]
<1>1. p \in [D -> [D -> Nat]]
  BY CardFacts
<1> HIDE DEF p
<1>2. IsFiniteSet(D) /\ D # {}
  <2>1. IsFiniteSet({TRUE} \cup {FALSE})
    BY FS_Singleton, FS_Union
  <2>2. {TRUE} \cup {FALSE} = D
    OBVIOUS
  <2> QED BY <2>1, <2>2
<1>3. S = UNION {row[u] : u \in D}
  OBVIOUS
<1> HIDE DEF S, D
<1>4. \A u \in D : IsFiniteSet(row[u]) /\ row[u] \in SUBSET Nat /\ row[u] # {}
  <2> SUFFICES ASSUME NEW u \in D
               PROVE  IsFiniteSet(row[u]) /\ row[u] \in SUBSET Nat /\ row[u] # {}
    OBVIOUS
  <2> DEFINE q == p[u]
  <2>1. row[u] = {q[a] : a \in D} /\ q \in [D -> Nat]
    BY <1>1
  <2> HIDE DEF q, row
  <2>2. IsFiniteSet({q[a] : a \in D})
    BY <1>2, ImageFinite
  <2> QED BY <2>1, <2>2, <1>2
<1> HIDE DEF row
<1> DEFINE rows == {row[u] : u \in D}
<1>5. \A r \in rows : IsFiniteSet(r) /\ r \in SUBSET Nat /\ r # {}
  BY <1>4
<1>6. IsFiniteSet(rows) /\ rows # {}
  BY <1>2, ImageFinite
<1> HIDE DEF rows
<1>7. IsFiniteSet(UNION rows) /\ UNION rows \in SUBSET Nat /\ UNION rows # {}
  BY <1>5, <1>6, FS_UNION
<1>8. Max(S) \in Nat
  BY <1>3, <1>7, LargestOfNat DEF rows
<1> QED BY <1>8 DEF CardPower, S, p

(* So is the largest value of its skill.                                   *)
LEMMA SkillMaxNat ==
  ASSUME request \in Requests, NEW c \in request.pool
  PROVE  SkillMax(c) \in Nat
<1> DEFINE k == Card[c]
           most == k.gain * (DeckSize - 1)
<1>1. k.skill \in Nat /\ k.gain \in Nat /\ k.kind \in SkillKinds
  BY CardFacts
<1>2. DeckSize - 1 \in Nat
  BY RequestFacts
<1>3. most \in Nat
  <2> DEFINE g == k.gain
             n == DeckSize - 1
  <2>1. g \in Nat /\ n \in Nat
    BY <1>1, <1>2
  <2> HIDE DEF g, n
  <2>2. g * n \in Nat
    BY <2>1
  <2> QED BY <2>2 DEF g, n
<1>4. SkillMax(c) = k.skill + CASE k.kind = "plain" -> 0
                                [] k.kind = "units" -> most
                                [] k.kind = "reference" -> k.gain
  BY Zenon DEF SkillMax
<1> HIDE DEF most
<1>5. CASE k.kind = "plain"
  BY <1>5, <1>1, <1>4
<1>6. CASE k.kind = "units"
  BY <1>6, <1>1, <1>3, <1>4
<1>7. CASE k.kind = "reference"
  BY <1>7, <1>1, <1>4
<1> QED BY <1>1, <1>5, <1>6, <1>7 DEF SkillKinds

(* A leader's bonus is a number.                                           *)
LEMMA AsLeaderOK ==
  ASSUME request \in Requests, NEW c \in request.pool
  PROVE  PartialOK(AsLeader(c))
<1>1. /\ Card[c].base \in Nat /\ Card[c].limited \in Nat
      /\ Card[c].honor \in Nat /\ Card[c].leaderLimit \in Nat
  BY CardFacts
<1>2. AsLeader(c).bonus = 0 + (Card[c].base + Card[c].limited) + Card[c].honor + Card[c].leaderLimit
  BY DEF AsLeader, Plus, Terms, NoPartial
<1>3. "skill" \in DOMAIN AsLeader(c)
  BY DEF AsLeader, Plus
<1> QED BY <1>1, <1>2, <1>3 DEF PartialOK

\* By falling strength.
LeaderOrder(S, key) ==
  {p \in S \X S : \/ key[p[1]] > key[p[2]]
                  \/ key[p[1]] = key[p[2]] /\ p[1] < p[2]}

(* The leaders are cards of the pool.                                      *)
LEMMA SortedLeadersOK ==
  ASSUME request \in Requests
  PROVE  SortedLeaders \in Seq(request.pool)
<1> DEFINE key(c) == CardPower(c) * (256 + SkillMax(c)) * (100 + AsLeader(c).bonus)
           S == {c \in request.pool : SlotMatches(1, c)}
           Before(a, b) == key(a) > key(b) \/ (key(a) = key(b) /\ a < b)
           k == [c \in S |-> key(c)]
           n == Cardinality(S)
           Weight(x) == Cardinality({y \in S : Before(y, x)})
           o == [i \in 1..n |-> CHOOSE x \in S : Weight(x) = i - 1]
<1>1. SortedLeaders = SubSeq(o, 1, n)
  BY Zenon DEF SortedLeaders, SortedBy
<1>2. IsFiniteSet(S) /\ S \in SUBSET request.pool /\ request.pool \in SUBSET Nat
  BY RequestFacts, FS_Subset
<1>3. ASSUME NEW c \in S PROVE key(c) \in Nat
  <2> DEFINE p == CardPower(c)
             s == 256 + SkillMax(c)
             b == 100 + AsLeader(c).bonus
  <2>1. p \in Nat /\ SkillMax(c) \in Nat /\ AsLeader(c).bonus \in Nat
    BY <1>2, CardPowerNat, SkillMaxNat, AsLeaderOK DEF PartialOK
  <2>2. s \in Nat /\ b \in Nat
    BY <2>1
  <2> HIDE DEF p, s, b
  <2>3. p * s \in Nat
    BY <2>1, <2>2
  <2>4. (p * s) * b \in Nat
    BY <2>2, <2>3
  <2> QED BY <2>4 DEF p, s, b
<1>4. \A c \in S : k[c] = key(c) /\ k[c] \in Nat
  BY <1>3
<1> DEFINE L == LeaderOrder(S, k)
<1> HIDE DEF S, k
<1>9. \A x, y \in S : <<x, y>> \in L <=> k[x] > k[y] \/ (k[x] = k[y] /\ x < y)
  BY DEF LeaderOrder
<1>10. Orders(L, S)
  <2>1. \A x \in S : x \in Nat /\ k[x] \in Nat
    BY <1>2, <1>4
  <2> HIDE DEF L
  <2>3. \A x \in S : <<x, x>> \notin L
    BY <1>9, <2>1
  <2>4. \A x, y, z \in S : <<x, y>> \in L /\ <<y, z>> \in L => <<x, z>> \in L
    BY <1>9, <2>1
  <2>5. ASSUME NEW x \in S, NEW y \in S PROVE <<x, y>> \in L \/ <<y, x>> \in L \/ x = y
    <3>1. k[x] > k[y] \/ k[y] > k[x] \/ (k[x] = k[y] /\ (x < y \/ y < x \/ x = y))
      BY <2>1
    <3> QED BY <1>9, <3>1
  <2> QED BY <2>3, <2>4, <2>5 DEF Orders
<1>b. \A x, y \in S : <<x, y>> \in L <=> Before(x, y)
  <2> HIDE DEF L, key
  <2> QED BY <1>4, <1>9
<1>11. \A x \in S : RankIn(L, S, x) = Weight(x)
  <2> SUFFICES ASSUME NEW x \in S PROVE RankIn(L, S, x) = Weight(x)
    OBVIOUS
  <2> HIDE DEF L, Before
  <2>1. {y \in S : <<y, x>> \in L} = {y \in S : Before(y, x)}
    BY <1>b
  <2> QED BY <2>1 DEF RankIn
<1> HIDE DEF Weight, L, Before
<1>12. n \in Nat /\ \A i \in 1..n : \E x \in S : Weight(x) = i - 1
  <2>1. n \in Nat /\ \A i \in 0..n - 1 : \E x \in S : RankIn(L, S, x) = i
    BY <1>2, <1>10, Ranks
  <2> SUFFICES ASSUME NEW i \in 1..n PROVE \E x \in S : Weight(x) = i - 1
    BY <2>1
  <2>2. i - 1 \in 0..n - 1
    BY <2>1
  <2> QED BY <2>1, <2>2, <1>11
<1> HIDE DEF n
<1>13. \A i \in 1..n : (CHOOSE x \in S : Weight(x) = i - 1) \in S
  BY <1>12, Zenon
<1>14. o \in [1..n -> S]
  BY <1>13, Zenon
<1> HIDE DEF o
<1>15. SubSeq(o, 1, n) \in Seq(S)
  BY <1>12, <1>14, SubSeqProperties
<1>16. SubSeq(o, 1, n) \in Seq(request.pool)
  BY <1>2, <1>15, SeqOfMore
<1> QED BY <1>1, <1>16

\* The best ones first, then by card.
LaneOrder(S, best) ==
  {p \in S \X S : \/ p[1] \in best /\ p[2] \notin best
                  \/ (p[1] \in best <=> p[2] \in best) /\ p[1].card < p[2].card}

(* The lanes of a block are cards of the pool, of other characters.        *)
LEMMA LanesListed ==
  ASSUME request \in Requests, NEW f, IsScan(f)
  PROVE  \E T : /\ Lanes(f) \in Seq(T)
                /\ \A l \in T : /\ l.card \in request.pool
                                /\ Card[l.card].char \notin UsedBy(f.deck)
<1> DEFINE fit == {c \in Block(f) :
                     Card[c].char \notin UsedBy(f.deck) /\ \A e \in Ends(f) : c < e}
           lanes == UNION {{[card |-> c, bound |-> Ceiling(in)] : in \in {LaneInputs(f, c)}} :
                             c \in fit}
           S == {l \in lanes : l.bound >= Cut}
           best == {l \in S : \A o \in S :
                      l.bound > o.bound \/ (l.bound = o.bound /\ l.card <= o.card)}
           Before(a, b) == \/ a \in best /\ b \notin best
                           \/ (a \in best <=> b \in best) /\ a.card < b.card
           n == Cardinality(S)
           Weight(x) == Cardinality({y \in S : Before(y, x)})
           o == [i \in 1..n |-> CHOOSE x \in S : Weight(x) = i - 1]
<1>1. Lanes(f) = SubSeq(o, 1, n)
  BY Zenon DEF Lanes, SortedBy
<1>2. Block(f) \in SUBSET request.pool
  <2> DEFINE m == f.dense + BlockWidth - 1
             top == Min({LastCard, m})
  <2>1. f.dense \in Nat /\ f.dense \in request.pool
    BY ScanFacts
  <2>2. LastCard \in Nat /\ FirstCard \in Nat /\ request.pool = FirstCard..LastCard
    BY RequestFacts
  <2>3. BlockWidth \in Nat \ {0}
    BY ScoreAssumption
  <2>4. m \in Nat
    BY <2>1, <2>3
  <2> HIDE DEF m
  <2>5. {LastCard, m} \in SUBSET Nat /\ {LastCard, m} # {}
    BY <2>2, <2>4
  <2>6. top \in Nat /\ top <= LastCard
    BY <2>5, MinProperties
  <2>7. Block(f) = f.dense..top
    BY DEF Block, m
  <2> HIDE DEF top
  <2>8. f.dense >= FirstCard
    BY <2>1, <2>2
  <2>9. f.dense..top \in SUBSET (FirstCard..LastCard)
    BY <2>1, <2>2, <2>6, <2>8
  <2> QED BY <2>2, <2>7, <2>9
<1>3. fit \in SUBSET request.pool /\ IsFiniteSet(fit) /\ request.pool \in SUBSET Nat
  <2>1. fit \in SUBSET request.pool
    BY <1>2
  <2> HIDE DEF fit
  <2> QED BY <2>1, RequestFacts, FS_Subset
<1>4. \A c \in fit : Card[c].char \notin UsedBy(f.deck)
  OBVIOUS
<1> HIDE DEF fit
<1>5. IsFiniteSet(lanes)
  <2> DEFINE lane == [c \in fit |-> [card |-> c, bound |-> Ceiling(LaneInputs(f, c))]]
  <2>1. lanes = {lane[c] : c \in fit}
    OBVIOUS
  <2> HIDE DEF lane, lanes
  <2> QED BY <2>1, <1>3, ImageFinite
<1>6. \A l \in lanes : l.card \in fit
  OBVIOUS
<1>7. \A x, y \in lanes : x.card = y.card => x = y
  OBVIOUS
<1> HIDE DEF lanes
<1>8. /\ IsFiniteSet(S) /\ \A l \in S : l.card \in fit
      /\ \A x, y \in S : x.card = y.card => x = y
  BY <1>5, <1>6, <1>7, FS_Subset
<1> DEFINE L == LaneOrder(S, best)
<1> HIDE DEF S, best
<1>9. \A x, y \in S : <<x, y>> \in L <=> Before(x, y)
  BY DEF LaneOrder
<1>10. Orders(L, S)
  <2>1. \A x \in S : x.card \in Nat
    BY <1>3, <1>8
  <2> HIDE DEF L
  <2>3. \A x \in S : <<x, x>> \notin L
    BY <1>9, <2>1
  <2>4. \A x, y, z \in S : <<x, y>> \in L /\ <<y, z>> \in L => <<x, z>> \in L
    BY <1>9, <2>1
  <2>5. ASSUME NEW x \in S, NEW y \in S PROVE <<x, y>> \in L \/ <<y, x>> \in L \/ x = y
    <3>1. x.card < y.card \/ y.card < x.card \/ x.card = y.card
      BY <2>1
    <3>2. x.card < y.card \/ y.card < x.card \/ x = y
      BY <1>8, <3>1
    <3> QED BY <1>9, <3>2
  <2> QED BY <2>3, <2>4, <2>5 DEF Orders
<1>11. \A x \in S : RankIn(L, S, x) = Weight(x)
  <2> SUFFICES ASSUME NEW x \in S PROVE RankIn(L, S, x) = Weight(x)
    OBVIOUS
  <2> HIDE DEF L, Before
  <2>1. {y \in S : <<y, x>> \in L} = {y \in S : Before(y, x)}
    BY <1>9
  <2> QED BY <2>1 DEF RankIn
<1> HIDE DEF Weight, L, Before
<1>12. n \in Nat /\ \A i \in 1..n : \E x \in S : Weight(x) = i - 1
  <2>1. n \in Nat /\ \A i \in 0..n - 1 : \E x \in S : RankIn(L, S, x) = i
    BY <1>8, <1>10, Ranks
  <2> SUFFICES ASSUME NEW i \in 1..n PROVE \E x \in S : Weight(x) = i - 1
    BY <2>1
  <2>2. i - 1 \in 0..n - 1
    BY <2>1
  <2> QED BY <2>1, <2>2, <1>11
<1> HIDE DEF n
<1>13. \A i \in 1..n : (CHOOSE x \in S : Weight(x) = i - 1) \in S
  BY <1>12, Zenon
<1>14. o \in [1..n -> S]
  BY <1>13, Zenon
<1> HIDE DEF o
<1>15. SubSeq(o, 1, n) \in Seq(S)
  BY <1>12, <1>14, SubSeqProperties
<1>16. \A l \in S : l.card \in request.pool /\ Card[l.card].char \notin UsedBy(f.deck)
  BY <1>3, <1>4, <1>8
<1> QED BY <1>1, <1>15, <1>16

-----------------------------------------------------------------------------
(* Open calls.                                                               *)

(* A prefix with a card of another character is a prefix.                  *)
LEMMA AppendedOK ==
  ASSUME NEW deck, DeckOK(deck), NEW c \in request.pool, Card[c].char \notin UsedBy(deck)
  PROVE  DeckOK(Append(deck, c)) /\ Len(Append(deck, c)) = Len(deck) + 1
<1> DEFINE P == request.pool
           n == Len(deck)
           e == Append(deck, c)
<1>1. deck \in Seq(P) /\ n \in Nat /\ DOMAIN deck = 1..n
  BY LenProperties DEF DeckOK
<1>2. c \in P
  OBVIOUS
<1> HIDE DEF P
<1>3. /\ e \in Seq(P) /\ Len(e) = n + 1
      /\ \A i \in 1..n : e[i] = deck[i]
      /\ e[n + 1] = c
  BY <1>1, <1>2, AppendProperties
<1>4. \A i \in 1..n : Card[e[i]].char # Card[c].char
  BY <1>1, <1>3 DEF UsedBy, ToSet
<1>5. \A i, j \in 1..n : Card[e[i]].char = Card[e[j]].char => i = j
  BY <1>3 DEF DeckOK
<1> HIDE DEF e, n
<1>6. \A i, j \in 1..n + 1 : Card[e[i]].char = Card[e[j]].char => i = j
  <2> SUFFICES ASSUME NEW i \in 1..n + 1, NEW j \in 1..n + 1, Card[e[i]].char = Card[e[j]].char
               PROVE  i = j
    OBVIOUS
  <2>1. (i \in 1..n \/ i = n + 1) /\ (j \in 1..n \/ j = n + 1)
    BY <1>1
  <2> QED BY <2>1, <1>3, <1>4, <1>5
<1> QED BY <1>3, <1>6 DEF DeckOK, P, n, e

(* A prefix that fills every slot is a whole deck.                         *)
LEMMA FullDeckIsWhole ==
  ASSUME request \in Requests, NEW deck, DeckOK(deck), Len(deck) = DeckSize
  PROVE  IsWhole(deck)
<1>1. deck \in [Slots -> request.pool]
  BY LenProperties DEF DeckOK, Slots
<1> QED BY <1>1 DEF IsWhole, DeckOK, Slots

(* A prefix's sums with one more card.                                     *)
LEMMA PlusOK ==
  ASSUME request \in Requests, NEW partial, PartialOK(partial), NEW c \in request.pool
  PROVE  PartialOK(Plus(partial, c))
<1>1. Card[c].base \in Nat /\ Card[c].limited \in Nat /\ partial.bonus \in Nat
  BY CardFacts DEF PartialOK
<1>2. Plus(partial, c).bonus = partial.bonus + (Card[c].base + Card[c].limited)
  BY DEF Plus, Terms
<1>3. "skill" \in DOMAIN Plus(partial, c)
  BY DEF Plus
<1> QED BY <1>1, <1>2, <1>3 DEF PartialOK

(* Tightening leaves the bonus alone.                                      *)
LEMMA TightenedOK ==
  ASSUME NEW deck, NEW partial, PartialOK(partial)
  PROVE  PartialOK(Tightened(deck, partial))
<1>1. \A s : PartialOK([partial EXCEPT !.skill = s])
  BY DEF PartialOK
<1> QED BY <1>1 DEF Tightened

(* A new call.                                                             *)
LEMMA FrameIsOK ==
  ASSUME NEW deck, DeckOK(deck), Len(deck) \in 0..DeckSize,
         NEW dense \in FirstCard..LastCard + 1,
         NEW partial, PartialOK(partial), NEW bounded
  PROVE  FrameOK(Frame(deck, dense, partial, bounded))
<1> DEFINE g == Frame(deck, dense, partial, bounded)
<1>1. /\ DOMAIN g = Fields /\ g.deck = deck /\ g.mode = "enter" /\ g.dense = dense
      /\ g.partial = partial /\ g.extra = 0 /\ g.queue = <<>>
  BY DEF Frame, Fields
<1> HIDE DEF g
<1>2. LanesOK(g)
  <2>1. g.queue \in Seq({}) /\ \A l \in {} : l.card \in request.pool /\ Card[l.card].char \notin UsedBy(g.deck)
    BY <1>1, EmptySeq
  <2> QED BY <2>1 DEF LanesOK
<1>3. FrameOK(g)
  BY <1>1, <1>2 DEF FrameOK
<1> QED BY <1>3 DEF g

(* A call with a slot to fill goes on with a card of another character.    *)
LEMMA NextCallOK ==
  ASSUME request \in Requests, NEW f, FrameOK(f), Len(f.deck) + 1 <= DeckSize,
         NEW c \in request.pool, Card[c].char \notin UsedBy(f.deck),
         NEW start \in FirstCard..LastCard + 1, NEW bounded
  PROVE  FrameOK(Frame(Append(f.deck, c), start, Plus(f.partial, c), bounded))
<1>1. DeckOK(f.deck) /\ PartialOK(f.partial) /\ Len(f.deck) \in Nat /\ DeckSize \in Nat
  BY RequestFacts, LenProperties DEF FrameOK, DeckOK
<1>2. DeckOK(Append(f.deck, c)) /\ Len(Append(f.deck, c)) = Len(f.deck) + 1
  BY <1>1, AppendedOK
<1>3. Len(Append(f.deck, c)) \in 0..DeckSize
  <2> DEFINE n == Len(f.deck)
             m == Len(Append(f.deck, c))
  <2>1. n \in Nat /\ m = n + 1 /\ n + 1 <= DeckSize
    BY <1>1, <1>2
  <2> HIDE DEF n, m
  <2>2. m \in 0..DeckSize
    BY <1>1, <2>1
  <2> QED BY <2>2 DEF m
<1>4. PartialOK(Plus(f.partial, c))
  BY <1>1, PlusOK
<1> QED BY <1>2, <1>3, <1>4, FrameIsOK

(* A call that scans differs from the one it was in what a step sets.      *)
LEMMA ScanFrameOK ==
  ASSUME request \in Requests, NEW f, FrameOK(f), Len(f.deck) + 1 <= DeckSize,
         NEW g, DOMAIN g = Fields, g.deck = f.deck,
         g.dense \in FirstCard..LastCard + 1, PartialOK(g.partial), g.extra \in Nat, LanesOK(g)
  PROVE  FrameOK(g)
<1> DEFINE n == Len(f.deck)
<1>1. DeckOK(g.deck) /\ n \in Nat /\ DeckSize \in Nat /\ n + 1 <= DeckSize
  BY RequestFacts, LenProperties DEF FrameOK, DeckOK
<1>2. Len(g.deck) = n
  OBVIOUS
<1> HIDE DEF n
<1>3. Len(g.deck) \in 0..DeckSize /\ Len(g.deck) \in 0..DeckSize - 1
  BY <1>1, <1>2
<1> QED BY <1>1, <1>3 DEF FrameOK

(* The parts of a call.                                                    *)
LEMMA FrameParts ==
  ASSUME NEW f, FrameOK(f)
  PROVE  /\ DOMAIN f = Fields /\ f.dense \in FirstCard..LastCard + 1
         /\ PartialOK(f.partial) /\ f.extra \in Nat /\ LanesOK(f) /\ DeckOK(f.deck)
BY DEF FrameOK

(* The scan passes its card.                                               *)
LEMMA PassedOK ==
  ASSUME request \in Requests, NEW f, IsScan(f)
  PROVE  FrameOK(Passed(f))
<1> DEFINE g == Passed(f)
<1>1. FrameOK(f) /\ Len(f.deck) + 1 <= DeckSize /\ f.dense + 1 \in FirstCard..LastCard + 1
  BY ScanFacts DEF IsScan
<1>2. DOMAIN f = Fields /\ PartialOK(f.partial) /\ f.extra \in Nat /\ LanesOK(f)
  BY <1>1, FrameParts
<1>3. /\ DOMAIN g = Fields /\ g.deck = f.deck /\ g.dense = f.dense + 1 /\ g.partial = f.partial
      /\ g.extra = f.extra /\ g.queue = f.queue
  BY <1>2 DEF Passed, Fields
<1> HIDE DEF g
<1>4. LanesOK(g)
  BY <1>2, <1>3 DEF LanesOK
<1>5. FrameOK(g)
  BY <1>1, <1>2, <1>3, <1>4, ScanFrameOK
<1> QED BY <1>5 DEF g

(* The scan notes that its rest was tested.                                *)
LEMMA CheckedOK ==
  ASSUME request \in Requests, NEW f, IsScan(f)
  PROVE  IsScan(Checked(f))
<1> DEFINE g == Checked(f)
<1>1. FrameOK(f) /\ Len(f.deck) + 1 <= DeckSize /\ f.mode # "enter" /\ f.dense <= LastCard
  BY ScanFacts DEF IsScan
<1>2. /\ DOMAIN f = Fields /\ PartialOK(f.partial) /\ f.extra \in Nat /\ LanesOK(f)
      /\ f.dense \in FirstCard..LastCard + 1
  BY <1>1, FrameParts
<1>3. /\ DOMAIN g = Fields /\ g.deck = f.deck /\ g.dense = f.dense /\ g.partial = f.partial
      /\ g.extra = f.extra /\ g.queue = f.queue /\ g.mode = f.mode
  BY <1>2 DEF Checked, Fields
<1> HIDE DEF g
<1>4. LanesOK(g)
  BY <1>2, <1>3 DEF LanesOK
<1>5. FrameOK(g)
  BY <1>1, <1>2, <1>3, <1>4, ScanFrameOK
<1>6. IsScan(g)
  BY <1>1, <1>3, <1>5 DEF IsScan
<1> QED BY <1>6 DEF g

(* A run that is skipped ends in the pool.                                 *)
LEMMA AfterRunOK ==
  ASSUME request \in Requests, NEW f, IsScan(f)
  PROVE  FrameOK(AfterRun(f))
<1> DEFINE g == AfterRun(f)
           run == CandidateRun(f.dense)
           last == Max(run)
<1>1. FrameOK(f) /\ Len(f.deck) + 1 <= DeckSize /\ f.dense \in request.pool /\ f.dense \in Nat
  BY ScanFacts DEF IsScan
<1>2. DOMAIN f = Fields /\ PartialOK(f.partial) /\ f.extra \in Nat /\ LanesOK(f)
  BY <1>1, FrameParts
<1>3. last \in request.pool
  <2>1. request.pool \in SUBSET Nat /\ IsFiniteSet(request.pool)
    BY RequestFacts
  <2>2. run \in SUBSET request.pool
    BY DEF CandidateRun, From
  <2>3. f.dense \in run
    <3>1. \A x \in f.dense..f.dense : x = f.dense
      BY <1>1
    <3>2. f.dense >= f.dense
      BY <1>1
    <3> QED BY <1>1, <3>1, <3>2 DEF CandidateRun, From
  <2> HIDE DEF run
  <2>4. IsFiniteSet(run) /\ run \in SUBSET Nat /\ run # {}
    BY <2>1, <2>2, <2>3, FS_Subset
  <2> QED BY <2>2, <2>4, LargestOfNat
<1> HIDE DEF run
<1>4. last + 1 \in FirstCard..LastCard + 1
  BY <1>3, RequestFacts
<1>5. /\ DOMAIN g = Fields /\ g.deck = f.deck /\ g.dense = last + 1 /\ g.partial = f.partial
      /\ g.extra = f.extra /\ g.queue = f.queue
  BY <1>2 DEF AfterRun, Fields, run
<1> HIDE DEF g, last
<1>6. LanesOK(g)
  BY <1>2, <1>5 DEF LanesOK
<1>7. FrameOK(g)
  BY <1>1, <1>2, <1>4, <1>5, <1>6, ScanFrameOK
<1> QED BY <1>7 DEF g

(* A scan with a cutoff knows the extra bonus of any completion.           *)
LEMMA PrunedOK ==
  ASSUME request \in Requests, SuffixOK, NEW f, FrameOK(f), Len(f.deck) + 1 <= DeckSize
  PROVE  FrameOK(Pruned(f))
<1> DEFINE g == Pruned(f)
           e == WorldBloomExtra({Card[c].attr : c \in ToSet(f.deck)}, Ids(f.deck), f.dense,
                                UsedBy(f.deck), Open(f.deck))
<1>1. /\ DOMAIN f = Fields /\ PartialOK(f.partial) /\ LanesOK(f) /\ DeckOK(f.deck)
      /\ f.dense \in FirstCard..LastCard + 1
  BY FrameParts
<1>2. e \in Nat
  <2>1. f.deck \in Seq(request.pool)
    BY <1>1 DEF DeckOK
  <2>2. Len(f.deck) \in Nat
    BY <2>1, LenProperties
  <2>3. Len(f.deck) <= DeckSize
    <3> DEFINE n == Len(f.deck)
    <3>1. n \in Nat /\ n + 1 <= DeckSize /\ DeckSize \in Nat
      BY <2>2, RequestFacts
    <3> HIDE DEF n
    <3>2. n <= DeckSize
      BY <3>1
    <3> QED BY <3>2 DEF n
  <2> QED BY <2>1, <2>3, PrefixExtraNat
<1>3. /\ DOMAIN g = Fields /\ g.deck = f.deck /\ g.dense = f.dense /\ g.partial = f.partial
      /\ g.extra = e /\ g.queue = f.queue
  BY <1>1 DEF Pruned, Fields
<1> HIDE DEF g, e
<1>4. LanesOK(g)
  BY <1>1, <1>3 DEF LanesOK
<1>5. FrameOK(g)
  BY <1>1, <1>2, <1>3, <1>4, ScanFrameOK
<1> QED BY <1>5 DEF g

(* A call that is entered starts one of the scans.                         *)
LEMMA ScanOK ==
  ASSUME request \in Requests, SuffixOK, NEW f, FrameOK(f), Len(f.deck) + 1 <= DeckSize
  PROVE  FrameOK(Scan(f))
<1>1. /\ DOMAIN f = Fields /\ PartialOK(f.partial) /\ LanesOK(f) /\ f.extra \in Nat
      /\ f.dense \in FirstCard..LastCard + 1
  BY FrameParts
<1>2. FrameOK(Pruned(f))
  BY PrunedOK
<1>3. ASSUME NEW m, NEW t PROVE FrameOK([f EXCEPT !.mode = m, !.threshold = t])
  <2> DEFINE g == [f EXCEPT !.mode = m, !.threshold = t]
  <2>1. /\ DOMAIN g = Fields /\ g.deck = f.deck /\ g.dense = f.dense /\ g.partial = f.partial
        /\ g.extra = f.extra /\ g.queue = f.queue
    BY <1>1 DEF Fields
  <2> HIDE DEF g
  <2>2. LanesOK(g)
    BY <1>1, <2>1 DEF LanesOK
  <2>3. FrameOK(g)
    BY <1>1, <2>1, <2>2, ScanFrameOK
  <2> QED BY <2>3 DEF g
<1>4. ASSUME NEW m PROVE FrameOK([f EXCEPT !.mode = m])
  <2> DEFINE g == [f EXCEPT !.mode = m]
  <2>1. /\ DOMAIN g = Fields /\ g.deck = f.deck /\ g.dense = f.dense /\ g.partial = f.partial
        /\ g.extra = f.extra /\ g.queue = f.queue
    BY <1>1 DEF Fields
  <2> HIDE DEF g
  <2>2. LanesOK(g)
    BY <1>1, <2>1 DEF LanesOK
  <2>3. FrameOK(g)
    BY <1>1, <2>1, <2>2, ScanFrameOK
  <2> QED BY <2>3 DEF g
<1> QED BY <1>2, <1>3, <1>4 DEF Scan

(* The best members of a block wait in the queue.                          *)
LEMMA FilledOK ==
  ASSUME request \in Requests, NEW f, IsScan(f)
  PROVE  FrameOK([f EXCEPT !.queue = Lanes(f),
                           !.dense = IF Ends(f) = {} THEN Max(Block(f)) + 1 ELSE LastCard + 1])
<1> DEFINE top == Max(Block(f))
           next == IF Ends(f) = {} THEN top + 1 ELSE LastCard + 1
           q == Lanes(f)
           g == [f EXCEPT !.queue = q, !.dense = next]
<1>1. FrameOK(f) /\ Len(f.deck) + 1 <= DeckSize /\ f.dense \in Nat /\ f.dense \in request.pool
  BY ScanFacts DEF IsScan
<1>2. DOMAIN f = Fields /\ PartialOK(f.partial) /\ f.extra \in Nat
  BY <1>1, FrameParts
<1>3. LastCard \in Nat /\ FirstCard \in Nat /\ request.pool = FirstCard..LastCard
  BY RequestFacts
<1>4. top \in FirstCard..LastCard
  <2> DEFINE m == f.dense + BlockWidth - 1
             end == Min({LastCard, m})
  <2>1. BlockWidth \in Nat \ {0}
    BY ScoreAssumption
  <2>2. m \in Nat /\ m >= f.dense
    BY <1>1, <2>1
  <2>3. Block(f) = f.dense..end
    BY DEF Block
  <2> HIDE DEF m
  <2>4. {LastCard, m} \in SUBSET Nat /\ {LastCard, m} # {}
    BY <1>3, <2>2
  <2>5. end \in {LastCard, m} /\ end <= LastCard
    BY <2>4, MinProperties
  <2>6. f.dense >= FirstCard /\ f.dense <= LastCard
    BY <1>1, <1>3
  <2>7. end \in Nat /\ f.dense <= end
    BY <1>3, <2>2, <2>5, <2>6
  <2> HIDE DEF end
  <2>8. IsFiniteSet(Block(f))
    BY <1>1, <2>3, <2>7, FS_Interval
  <2>9. Block(f) \in SUBSET Nat /\ Block(f) # {} /\ Block(f) \in SUBSET (FirstCard..LastCard)
    BY <1>1, <1>3, <2>3, <2>5, <2>6, <2>7
  <2>10. top \in Block(f)
    BY <2>8, <2>9, LargestOfNat
  <2> QED BY <2>9, <2>10
<1> HIDE DEF top
<1>5. next \in FirstCard..LastCard + 1
  BY <1>1, <1>3, <1>4
<1> HIDE DEF next
<1>6. /\ DOMAIN g = Fields /\ g.deck = f.deck /\ g.dense = next /\ g.partial = f.partial
      /\ g.extra = f.extra /\ g.queue = q
  BY <1>2 DEF Fields
<1>7. \E T : /\ q \in Seq(T)
             /\ \A l \in T : /\ l.card \in request.pool
                             /\ Card[l.card].char \notin UsedBy(f.deck)
  BY LanesListed
<1> HIDE DEF g, q
<1>8. LanesOK(g)
  BY <1>6, <1>7 DEF LanesOK
<1>9. FrameOK(g)
  BY <1>1, <1>2, <1>5, <1>6, <1>8, ScanFrameOK
<1> QED BY <1>9 DEF g, q, next, top

(* A lane is taken from the queue.                                         *)
LEMMA TakenOK ==
  ASSUME request \in Requests, NEW f, FrameOK(f), Len(f.deck) + 1 <= DeckSize, f.queue # <<>>
  PROVE  /\ FrameOK([f EXCEPT !.queue = Tail(@)])
         /\ Head(f.queue).card \in request.pool
         /\ Card[Head(f.queue).card].char \notin UsedBy(f.deck)
<1> DEFINE g == [f EXCEPT !.queue = Tail(@)]
<1>1. /\ DOMAIN f = Fields /\ PartialOK(f.partial) /\ f.extra \in Nat /\ LanesOK(f)
      /\ f.dense \in FirstCard..LastCard + 1
  BY FrameParts
<1>2. PICK T : /\ f.queue \in Seq(T)
               /\ \A l \in T : l.card \in request.pool /\ Card[l.card].char \notin UsedBy(f.deck)
  BY <1>1 DEF LanesOK
<1>3. Head(f.queue) \in T /\ Tail(f.queue) \in Seq(T)
  BY <1>2, HeadTailProperties
<1>4. /\ DOMAIN g = Fields /\ g.deck = f.deck /\ g.dense = f.dense /\ g.partial = f.partial
      /\ g.extra = f.extra /\ g.queue = Tail(f.queue)
  BY <1>1 DEF Fields
<1> HIDE DEF g
<1>5. LanesOK(g)
  BY <1>2, <1>3, <1>4 DEF LanesOK
<1>6. FrameOK(g)
  BY <1>1, <1>4, <1>5, ScanFrameOK
<1> QED BY <1>2, <1>3, <1>6 DEF g

(* A fixed slot is scanned from the first card.                            *)
LEMMA FixedOK ==
  ASSUME request \in Requests, NEW f, FrameOK(f), Len(f.deck) + 1 <= DeckSize
  PROVE  FrameOK([f EXCEPT !.mode = "fixed", !.dense = FirstCard])
<1> DEFINE g == [f EXCEPT !.mode = "fixed", !.dense = FirstCard]
<1>1. DOMAIN f = Fields /\ PartialOK(f.partial) /\ f.extra \in Nat /\ LanesOK(f)
  BY FrameParts
<1>2. /\ DOMAIN g = Fields /\ g.deck = f.deck /\ g.dense = FirstCard /\ g.partial = f.partial
      /\ g.extra = f.extra /\ g.queue = f.queue
  BY <1>1 DEF Fields
<1> HIDE DEF g
<1>3. LanesOK(g)
  BY <1>1, <1>2 DEF LanesOK
<1>4. FirstCard \in FirstCard..LastCard + 1
  BY RequestFacts
<1>5. FrameOK(g)
  BY <1>1, <1>2, <1>3, <1>4, ScanFrameOK
<1> QED BY <1>5 DEF g

(* A call with tightened sums is one.                                      *)
LEMMA NodeOK ==
  ASSUME NEW f, FrameOK(f)
  PROVE  /\ FrameOK([f EXCEPT !.partial = Tightened(f.deck, @)])
         /\ [f EXCEPT !.partial = Tightened(f.deck, @)].deck = f.deck
<1> DEFINE p == Tightened(f.deck, f.partial)
           g == [f EXCEPT !.partial = p]
<1>1. DOMAIN f = Fields /\ PartialOK(f.partial) /\ LanesOK(f)
  BY FrameParts
<1>2. PartialOK(p)
  BY <1>1, TightenedOK
<1> HIDE DEF p
<1>3. /\ DOMAIN g = Fields /\ g.deck = f.deck /\ g.dense = f.dense /\ g.partial = p
      /\ g.extra = f.extra /\ g.queue = f.queue /\ g.mode = f.mode
  BY <1>1 DEF Fields
<1> HIDE DEF g
<1>4. LanesOK(g)
  BY <1>1, <1>3 DEF LanesOK
<1>5. FrameOK(g)
  BY <1>2, <1>3, <1>4 DEF FrameOK
<1> QED BY <1>3, <1>5 DEF g, p

-----------------------------------------------------------------------------
(* The stack.                                                                *)

(* One call.                                                               *)
LEMMA OneCallOK ==
  ASSUME NEW f, FrameOK(f)
  PROVE  StackOK(<<f>>)
<1> DEFINE S == {f}
<1>1. <<f>> \in Seq(S) /\ \A x \in S : FrameOK(x)
  BY Single
<1> HIDE DEF S
<1> QED BY <1>1 DEF StackOK

(* No call.                                                                *)
LEMMA NoCallOK == StackOK(<<>>)
<1> DEFINE S == {}
<1>1. <<>> \in Seq(S) /\ \A x \in S : FrameOK(x)
  BY EmptySeq
<1> HIDE DEF S
<1> QED BY <1>1 DEF StackOK

(* The innermost call is one, and the others stay.                         *)
LEMMA InnermostOK ==
  ASSUME NEW s, StackOK(s), s # <<>>
  PROVE  FrameOK(Last(s)) /\ StackOK(Front(s))
<1>1. PICK S : s \in Seq(S) /\ \A f \in S : FrameOK(f)
  BY DEF StackOK
<1>2. Len(s) \in Nat /\ Len(s) > 0
  BY <1>1, EmptySeq, LenProperties
<1>3. Front(s) \in Seq(S)
  BY <1>1, <1>2, FrontProperties
<1>4. Last(s) = s[Len(s)]
  BY DEF Last
<1>5. s[Len(s)] \in S
  <2> DEFINE n == Len(s)
  <2>1. n \in 1..n
    <3> HIDE DEF n
    <3> QED BY <1>2 DEF n
  <2> QED BY <1>1, <2>1, ElementOfSeq
<1> QED BY <1>1, <1>3, <1>4, <1>5 DEF StackOK

(* What a step puts on top of the others.                                  *)
LEMMA PushedOK ==
  ASSUME NEW s, StackOK(s), NEW f, FrameOK(f), NEW g, FrameOK(g)
  PROVE  StackOK(s \o <<f>>) /\ StackOK(s \o <<f, g>>)
<1>1. PICK S : s \in Seq(S) /\ \A x \in S : FrameOK(x)
  BY DEF StackOK
<1> DEFINE T == S \cup {f} \cup {g}
<1>2. S \in SUBSET T /\ f \in T /\ g \in T /\ \A x \in T : FrameOK(x)
  BY <1>1
<1> HIDE DEF T
<1>3. s \in Seq(T)
  BY <1>1, <1>2, SeqOfMore
<1>4. <<f>> \in Seq(T) /\ <<f, g>> \in Seq(T)
  BY <1>2, Single, Double
<1>5. s \o <<f>> \in Seq(T) /\ s \o <<f, g>> \in Seq(T)
  BY <1>3, <1>4, ConcatProperties
<1> QED BY <1>2, <1>5 DEF StackOK

-----------------------------------------------------------------------------
(* The invariant.                                                            *)

\* What a step leaves.
StepOK == ShapeOK(seeds', leaders', stack', results', cutoff')

(* It holds at the start.                                                  *)
LEMMA InitOK ==
  ASSUME Init
  PROVE  IInv
<1>1. request \in Requests /\ suffix = Build
  BY DEF Init
<1>2. /\ seeds = request.seeds /\ leaders = <<>> /\ stack = <<>> /\ results = <<>>
      /\ cutoff = <<>>
  BY DEF Init
<1>3. SuffixOK
  BY <1>1, BuildOK
<1>4. seeds \in Seq([Slots -> request.pool])
  BY <1>1, <1>2, RequestFacts
<1>5. leaders \in Seq(request.pool)
  BY <1>2, EmptySeq
<1>6. StackOK(stack)
  BY <1>2, NoCallOK
<1>7. ResultsOK(results)
  <2> DEFINE R == {}
  <2>1. Keyed(R)
    BY DEF Keyed
  <2> HIDE DEF R
  <2>2. <<>> \in Trackers(R, Ctx, request.topK)
    <3>1. request.topK \in Nat
      BY <1>1, RequestFacts
    <3>2. <<>> \in Seq(R) /\ Len(<<>>) = 0
      BY EmptySeq
    <3>3. Ranked(Ctx, <<>>)
      BY <3>2 DEF Ranked
    <3> DEFINE k == request.topK
    <3>4. 0 <= k
      BY <3>1
    <3> HIDE DEF k
    <3>5. <<>> \in Trackers(R, Ctx, k)
      BY <3>2, <3>3, <3>4 DEF Trackers
    <3> QED BY <3>5 DEF k
  <2> QED BY <1>2, <2>1, <2>2 DEF ResultsOK
<1>8. cutoff \in Caches
  <2>1. DOMAIN cutoff = {}
    BY <1>2
  <2>2. cutoff \in [{} -> [threshold : Int, live : Nat]]
    BY <1>2
  <2> DEFINE V == [threshold : Int, live : Nat]
             F == {[D -> V] : D \in SUBSET Nat}
  <2>3. [{} -> V] \in F
    OBVIOUS
  <2> HIDE DEF V, F
  <2>4. cutoff \in UNION F
    BY <2>2, <2>3 DEF V
  <2> QED BY <2>1, <2>4 DEF Caches, F, V
<1> QED BY <1>1, <1>3, <1>4, <1>5, <1>6, <1>7, <1>8 DEF IInv, ShapeOK

(* A step in which the request stays keeps it.                             *)
LEMMA ShapeIsEnough ==
  ASSUME IInv, request' = request, suffix' = suffix, StepOK
  PROVE  IInv'
<1>1. SuffixOK'
  BY DEF IInv, SuffixOK, Positions, LastCard, DenseTail, BonusFields
<1>2. request' \in Requests
  BY DEF IInv
<1>3. StackOK(stack)'
  BY DEF StepOK, ShapeOK, StackOK, FrameOK, DeckOK, LanesOK, PartialOK, UsedBy, FirstCard, LastCard
<1>4. ResultsOK(results)'
  BY DEF StepOK, ShapeOK, ResultsOK, Ctx
<1>5. (seeds \in Seq([Slots -> request.pool]))'
  BY DEF StepOK, ShapeOK
<1>6. (leaders \in Seq(request.pool))'
  BY DEF StepOK, ShapeOK
<1>7. (cutoff \in Caches)'
  BY DEF StepOK, ShapeOK
<1> QED BY <1>1, <1>2, <1>3, <1>4, <1>5, <1>6, <1>7 DEF IInv, ShapeOK

-----------------------------------------------------------------------------
(* Steps.                                                                    *)

(* The innermost call of some mode.                                        *)
LEMMA InnermostFacts ==
  ASSUME IInv, NEW mode, NEW f \in Innermost(mode)
  PROVE  /\ f = Last(stack) /\ stack # <<>> /\ FrameOK(f) /\ f.mode = mode
         /\ Len(f.deck) \in Nat /\ DeckSize \in Nat
<1>1. f = Last(stack) /\ stack # <<>> /\ f.mode = mode
  BY DEF Innermost, At
<1>2. StackOK(stack)
  BY DEF IInv, ShapeOK
<1>3. FrameOK(f)
  BY <1>1, <1>2, InnermostOK
<1>4. Len(f.deck) \in Nat
  BY <1>3, LenProperties DEF FrameOK, DeckOK
<1> QED BY <1>1, <1>3, <1>4, RequestFacts DEF IInv

(* A call that is not entered any more has a slot to fill.                 *)
LEMMA SlotLeft ==
  ASSUME DeckSize \in Nat, NEW f, FrameOK(f), Len(f.deck) \in Nat,
         f.mode # "enter" \/ Len(f.deck) < DeckSize
  PROVE  Len(f.deck) + 1 <= DeckSize
<1> DEFINE n == Len(f.deck)
<1>1. n < DeckSize
  <2>1. CASE f.mode # "enter"
    <3>1. n \in 0..DeckSize - 1
      BY <2>1 DEF FrameOK
    <3> HIDE DEF n
    <3> QED BY <3>1
  <2> QED BY <2>1
<1>2. n \in Nat
  OBVIOUS
<1> HIDE DEF n
<1>3. n + 1 <= DeckSize
  BY <1>1, <1>2
<1> QED BY <1>3 DEF n

(* A call that scans a card.                                               *)
LEMMA ScanningFacts ==
  ASSUME IInv, NEW mode, mode # "enter", NEW f \in Scanning(mode)
  PROVE  IsScan(f) /\ f \in Innermost(mode)
<1>1. f \in Innermost(mode) /\ f.dense <= LastCard
  BY DEF Scanning
<1>2. FrameOK(f) /\ f.mode = mode
  BY <1>1, InnermostFacts
<1> QED BY <1>1, <1>2 DEF IsScan

(* A call returns.                                                         *)
LEMMA LeaveOK ==
  ASSUME IInv, stack # <<>>, Leave
  PROVE  StackOK(stack')
<1>1. StackOK(Front(stack))
  BY InnermostOK DEF IInv, ShapeOK
<1> QED BY <1>1 DEF Leave

(* A call goes on.                                                         *)
LEMMA StayOK ==
  ASSUME IInv, stack # <<>>, NEW f, FrameOK(f), Stay(f)
  PROVE  StackOK(stack')
<1>1. StackOK(Front(stack))
  BY InnermostOK DEF IInv, ShapeOK
<1>2. StackOK(Front(stack) \o <<f>>)
  BY <1>1, PushedOK
<1> QED BY <1>2 DEF Stay

(* A call calls another.                                                   *)
LEMMA CallOK ==
  ASSUME IInv, stack # <<>>, NEW f, FrameOK(f), NEW child, FrameOK(child), Call(f, child)
  PROVE  StackOK(stack')
<1>1. StackOK(Front(stack))
  BY InnermostOK DEF IInv, ShapeOK
<1>2. StackOK(Front(stack) \o <<f, child>>)
  BY <1>1, PushedOK
<1> QED BY <1>2 DEF Call

(* A step of the stack only.                                               *)
LEMMA StackStep ==
  ASSUME IInv, StackOK(stack'), UNCHANGED <<seeds, leaders, results, cutoff>>
  PROVE  StepOK
BY DEF IInv, ShapeOK, StepOK

(* A seed is planted.                                                      *)
LEMMA PlantSeedOK ==
  ASSUME IInv, PlantSeed
  PROVE  StepOK
<1>1. /\ request \in Requests /\ seeds \in Seq([Slots -> request.pool]) /\ ResultsOK(results)
      /\ seeds # <<>>
  BY DEF IInv, ShapeOK, PlantSeed
<1>2. Head(seeds) \in [Slots -> request.pool] /\ Tail(seeds) \in Seq([Slots -> request.pool])
  <2> DEFINE T == [Slots -> request.pool]
  <2>1. seeds \in Seq(T) /\ seeds # <<>>
    BY <1>1
  <2> HIDE DEF T
  <2>2. Head(seeds) \in T /\ Tail(seeds) \in Seq(T)
    BY <2>1, HeadTailProperties
  <2> QED BY <2>2 DEF T
<1>3. Rankable(Canonicalized(Head(seeds)))
  BY <1>1, <1>2, CanonicalizedRankable
<1>4. ResultsOK(InsertAll(results, Canonicalized(Head(seeds))))
  BY <1>1, <1>3, InsertAllOK
<1> QED BY <1>2, <1>4 DEF PlantSeed, IInv, ShapeOK, StepOK

(* The frontier opens.                                                     *)
LEMMA StartOK ==
  ASSUME IInv, Start
  PROVE  StepOK
<1>1. request \in Requests
  BY DEF IInv
<1>2. UNCHANGED <<seeds, results, cutoff>>
  BY DEF Start
<1>3. CASE request.final
  <2>1. leaders' = SortedLeaders /\ UNCHANGED stack
    BY <1>3 DEF Start
  <2>2. SortedLeaders \in Seq(request.pool)
    BY <1>1, SortedLeadersOK
  <2> QED BY <1>2, <2>1, <2>2 DEF IInv, ShapeOK, StepOK
<1>4. CASE ~request.final
  <2>1. stack' = <<Frame(<<>>, FirstCard, NoPartial, FALSE)>> /\ UNCHANGED leaders
    BY <1>4 DEF Start
  <2>2. DeckOK(<<>>) /\ Len(<<>>) \in 0..DeckSize
    <3>1. <<>> \in Seq(request.pool) /\ Len(<<>>) = 0
      BY EmptySeq
    <3>2. 0 \in 0..DeckSize
      BY <1>1, RequestFacts
    <3> QED BY <3>1, <3>2 DEF DeckOK
  <2>3. FirstCard \in FirstCard..LastCard + 1
    BY <1>1, RequestFacts
  <2>4. PartialOK(NoPartial)
    BY DEF PartialOK, NoPartial
  <2>5. FrameOK(Frame(<<>>, FirstCard, NoPartial, FALSE))
    BY <2>2, <2>3, <2>4, FrameIsOK
  <2>6. StackOK(stack')
    BY <2>1, <2>5, OneCallOK
  <2> QED BY <1>2, <2>1, <2>6, StackStep
<1> QED BY <1>3, <1>4

(* The next leader is tried.                                               *)
LEMMA NextLeaderOK ==
  ASSUME IInv, NextLeader
  PROVE  StepOK
<1>1. request \in Requests /\ leaders \in Seq(request.pool) /\ leaders # <<>>
  BY DEF IInv, ShapeOK, NextLeader
<1> DEFINE leader == Head(leaders)
           f == Frame(<<leader>>, FirstCard, AsLeader(leader), FALSE)
<1>2. leader \in request.pool /\ Tail(leaders) \in Seq(request.pool)
  <2> DEFINE P == request.pool
  <2>1. leaders \in Seq(P) /\ leaders # <<>>
    BY <1>1
  <2> HIDE DEF P
  <2>2. Head(leaders) \in P /\ Tail(leaders) \in Seq(P)
    BY <2>1, HeadTailProperties
  <2> QED BY <2>2 DEF P
<1>3. stack' \in {<<>>, <<f>>} /\ leaders' = Tail(leaders) /\ UNCHANGED <<seeds, results, cutoff>>
  BY DEF NextLeader
<1> HIDE DEF leader
<1>4. DeckOK(<<leader>>) /\ Len(<<leader>>) = 1
  <2>1. <<leader>> \in Seq(request.pool) /\ Len(<<leader>>) = 1
    BY <1>2, Single
  <2>2. \A i, j \in 1..1 : i = j
    OBVIOUS
  <2> QED BY <2>1, <2>2 DEF DeckOK
<1>5. 1 \in 0..DeckSize /\ FirstCard \in FirstCard..LastCard + 1
  BY <1>1, RequestFacts
<1>6. PartialOK(AsLeader(leader))
  BY <1>1, <1>2, AsLeaderOK
<1>7. FrameOK(f)
  BY <1>4, <1>5, <1>6, FrameIsOK
<1> HIDE DEF f
<1>8. StackOK(stack')
  BY <1>3, <1>7, OneCallOK, NoCallOK
<1> QED BY <1>2, <1>3, <1>8 DEF IInv, ShapeOK, StepOK

(* A call in which the members cannot all be placed returns.               *)
LEMMA EnterHopelessOK ==
  ASSUME IInv, EnterHopeless
  PROVE  StepOK
<1>1. PICK f \in Innermost("enter") : Hopeless(f)
  BY DEF EnterHopeless
<1>2. stack # <<>> /\ Leave /\ UNCHANGED <<seeds, leaders, results, cutoff>>
  BY <1>1, InnermostFacts DEF EnterHopeless
<1> QED BY <1>2, LeaveOK, StackStep

(* A whole deck is evaluated.                                              *)
LEMMA EnterLeafOK ==
  ASSUME IInv, EnterLeaf
  PROVE  StepOK
<1>1. PICK f \in Innermost("enter") :
        /\ Len(f.deck) = DeckSize
        /\ results' = IF LeafBelow(f.deck, f.partial)
                      THEN results
                      ELSE InsertAll(results, Results({f.deck}))
  BY DEF EnterLeaf
<1>2. stack # <<>> /\ Leave /\ UNCHANGED <<seeds, leaders, cutoff>> /\ FrameOK(f)
  BY <1>1, InnermostFacts DEF EnterLeaf
<1>3. request \in Requests /\ ResultsOK(results)
  BY DEF IInv, ShapeOK
<1>4. IsWhole(f.deck)
  <2>1. DeckOK(f.deck)
    BY <1>2, FrameParts
  <2> QED BY <1>1, <1>3, <2>1, FullDeckIsWhole
<1>5. Rankable(Results({f.deck}))
  BY <1>3, <1>4, ResultsRankable
<1>6. ResultsOK(results')
  BY <1>1, <1>3, <1>5, InsertAllOK
<1>7. StackOK(stack')
  BY <1>2, LeaveOK
<1> QED BY <1>2, <1>6, <1>7 DEF IInv, ShapeOK, StepOK

(* A fixed slot is next.                                                   *)
LEMMA EnterFixedOK ==
  ASSUME IInv, EnterFixed
  PROVE  StepOK
<1>1. PICK f \in Innermost("enter") :
        /\ Len(f.deck) < DeckSize
        /\ Stay([f EXCEPT !.mode = "fixed", !.dense = FirstCard])
  BY DEF EnterFixed
<1>2. /\ stack # <<>> /\ FrameOK(f) /\ UNCHANGED <<seeds, leaders, results, cutoff>>
      /\ Len(f.deck) \in Nat /\ DeckSize \in Nat
  BY <1>1, InnermostFacts DEF EnterFixed
<1>3. Len(f.deck) + 1 <= DeckSize /\ request \in Requests
  BY <1>1, <1>2, SlotLeft DEF IInv
<1>4. FrameOK([f EXCEPT !.mode = "fixed", !.dense = FirstCard])
  BY <1>2, <1>3, FixedOK
<1>5. StackOK(stack')
  BY <1>1, <1>2, <1>4, StayOK
<1> QED BY <1>2, <1>5, StackStep

(* A call is cut off or starts a scan.                                     *)
LEMMA EnterNodeOK ==
  ASSUME IInv, EnterNode
  PROVE  StepOK
<1>1. PICK f \in Innermost("enter") :
        /\ Len(f.deck) < DeckSize
        /\ \E node \in {[f EXCEPT !.partial = Tightened(f.deck, @)]} :
             Leave \/ Stay(Scan(node))
  BY DEF EnterNode
<1>2. /\ stack # <<>> /\ FrameOK(f) /\ UNCHANGED <<seeds, leaders, results, cutoff>>
      /\ Len(f.deck) \in Nat /\ DeckSize \in Nat
  BY <1>1, InnermostFacts DEF EnterNode
<1>3. Len(f.deck) + 1 <= DeckSize /\ request \in Requests /\ SuffixOK
  BY <1>1, <1>2, SlotLeft DEF IInv
<1> DEFINE node == [f EXCEPT !.partial = Tightened(f.deck, @)]
<1>4. FrameOK(node) /\ node.deck = f.deck
  BY <1>2, NodeOK
<1>5. Leave \/ Stay(Scan(node))
  BY <1>1
<1> HIDE DEF node
<1>6. FrameOK(Scan(node))
  BY <1>3, <1>4, ScanOK
<1>7. StackOK(stack')
  BY <1>2, <1>5, <1>6, LeaveOK, StayOK
<1> QED BY <1>2, <1>7, StackStep

(* A scan has passed the last card.                                        *)
LEMMA EndOfScanOK ==
  ASSUME IInv, EndOfScan
  PROVE  StepOK
<1>1. stack # <<>> /\ Leave /\ UNCHANGED <<seeds, leaders, results, cutoff>>
  BY DEF EndOfScan
<1> QED BY <1>1, LeaveOK, StackStep

(* A scan passes its card or calls.                                        *)
LEMMA PassesOrCalls ==
  ASSUME IInv, stack # <<>>, NEW f, IsScan(f), NEW g, FrameOK(g), NEW start \in FirstCard..LastCard + 1,
         NEW bounded,
         \/ Leave
         \/ Stay(g)
         \/ Fits(f.deck, f.dense) /\ Call(g, Child(f, start, bounded))
  PROVE  StackOK(stack')
<1>1. request \in Requests /\ FrameOK(f)
  BY DEF IInv, IsScan
<1>2. f.dense \in request.pool /\ Len(f.deck) + 1 <= DeckSize
  BY <1>1, ScanFacts
<1>3. ASSUME Fits(f.deck, f.dense) PROVE FrameOK(Child(f, start, bounded))
  <2>1. Card[f.dense].char \notin UsedBy(f.deck)
    BY <1>3 DEF Fits
  <2> QED BY <1>1, <1>2, <2>1, NextCallOK DEF Child
<1> QED BY <1>3, LeaveOK, StayOK, CallOK

(* Where a call's child starts.                                            *)
LEMMA StartsInPool ==
  ASSUME IInv, NEW f, IsScan(f)
  PROVE  FirstCard \in FirstCard..LastCard + 1 /\ f.dense + 1 \in FirstCard..LastCard + 1
BY RequestFacts, ScanFacts DEF IInv

(* A card of a fixed slot.                                                 *)
LEMMA FixedStepOK ==
  ASSUME IInv, FixedStep
  PROVE  StepOK
<1>1. PICK f \in Scanning("fixed") :
        IF Fits(f.deck, f.dense)
        THEN Call(Passed(f), Child(f, FirstCard, FALSE))
        ELSE Stay(Passed(f))
  BY DEF FixedStep
<1>2. IsScan(f) /\ f \in Innermost("fixed")
  BY ScanningFacts
<1>3. stack # <<>> /\ UNCHANGED <<seeds, leaders, results, cutoff>>
  BY <1>2, InnermostFacts DEF FixedStep
<1>4. FrameOK(Passed(f)) /\ FirstCard \in FirstCard..LastCard + 1
  BY <1>2, PassedOK, StartsInPool DEF IInv
<1>5. StackOK(stack')
  BY <1>1, <1>2, <1>3, <1>4, PassesOrCalls
<1> QED BY <1>3, <1>5, StackStep

(* A card of a scan without a cutoff.                                      *)
LEMMA SimpleStepOK ==
  ASSUME IInv, SimpleStep
  PROVE  StepOK
<1>1. PICK f \in Scanning("simple") :
        \/ Stay(Pruned(f))
        \/ Stay(Passed(f))
        \/ Fits(f.deck, f.dense) /\ Call(Passed(f), Child(f, f.dense + 1, FALSE))
  BY DEF SimpleStep
<1>2. IsScan(f) /\ f \in Innermost("simple")
  BY ScanningFacts
<1>3. stack # <<>> /\ UNCHANGED <<seeds, leaders, results, cutoff>>
  BY <1>2, InnermostFacts DEF SimpleStep
<1>4. FrameOK(Passed(f)) /\ f.dense + 1 \in FirstCard..LastCard + 1
  BY <1>2, PassedOK, StartsInPool DEF IInv
<1>5. FrameOK(Pruned(f))
  <2>1. FrameOK(f) /\ Len(f.deck) + 1 <= DeckSize
    BY <1>2, ScanFacts DEF IsScan, IInv
  <2> QED BY <2>1, PrunedOK DEF IInv
<1>6. StackOK(stack')
  BY <1>1, <1>2, <1>3, <1>4, <1>5, PassesOrCalls, StayOK
<1> QED BY <1>3, <1>6, StackStep

(* A card of a scan without an event.                                      *)
LEMMA NoEventStepOK ==
  ASSUME IInv, NoEventStep
  PROVE  StepOK
<1>1. PICK f \in Scanning("live") :
        \/ Leave
        \/ Fits(f.deck, f.dense) /\ Call(Passed(f), Child(f, f.dense + 1, FALSE))
        \/ Stay(Passed(f))
  BY DEF NoEventStep
<1>2. IsScan(f) /\ f \in Innermost("live")
  BY ScanningFacts
<1>3. stack # <<>> /\ UNCHANGED <<seeds, leaders, results, cutoff>>
  BY <1>2, InnermostFacts DEF NoEventStep
<1>4. FrameOK(Passed(f)) /\ f.dense + 1 \in FirstCard..LastCard + 1
  BY <1>2, PassedOK, StartsInPool DEF IInv
<1>5. StackOK(stack')
  BY <1>1, <1>2, <1>3, <1>4, PassesOrCalls
<1> QED BY <1>3, <1>5, StackStep

(* A card of a pruned scan: the tests ask the cache.                       *)
LEMMA PrunedStepOK ==
  ASSUME IInv, PrunedStep
  PROVE  StepOK
<1>1. PICK f \in Scanning("ep") :
        \E own \in {OwnExtra(f)} : \E got \in {Tested(cutoff, Tests(f, own), Cut)} :
          /\ cutoff' = got.cache
          /\ \/ Leave
             \/ Stay(AfterRun(Checked(f)))
             \/ Stay(Passed(Checked(f)))
             \/ /\ Fits(f.deck, f.dense)
                /\ Call(Passed(Checked(f)), Child(f, f.dense + 1, TRUE))
  BY Zenon DEF PrunedStep
<1> DEFINE own == OwnExtra(f)
           got == Tested(cutoff, Tests(f, own), Cut)
<1>2. /\ cutoff' = got.cache
      /\ \/ Leave
         \/ Stay(AfterRun(Checked(f)))
         \/ Stay(Passed(Checked(f)))
         \/ Fits(f.deck, f.dense) /\ Call(Passed(Checked(f)), Child(f, f.dense + 1, TRUE))
  BY <1>1
<1>3. IsScan(f) /\ f \in Innermost("ep")
  BY ScanningFacts
<1>4. stack # <<>> /\ UNCHANGED <<seeds, leaders, results>>
  BY <1>3, InnermostFacts DEF PrunedStep
<1>5. request \in Requests /\ SuffixOK /\ cutoff \in Caches /\ ResultsOK(results)
  BY DEF IInv, ShapeOK
<1>6. cutoff' \in Caches
  <2>1. own \in Nat
    BY <1>3, <1>5, OwnExtraNat
  <2> HIDE DEF own
  <2>2. TestsOK(Tests(f, own))
    BY <1>3, <1>5, <2>1, ScanTestsOK
  <2>3. Cut \in Int
    BY <1>5, CutNat
  <2>4. got.cache \in Caches
    BY <1>5, <2>2, <2>3, TestedExact
  <2> QED BY <1>2, <2>4
<1> HIDE DEF got
<1>7. IsScan(Checked(f)) /\ f.dense + 1 \in FirstCard..LastCard + 1
  BY <1>3, <1>5, CheckedOK, StartsInPool
<1>8. FrameOK(Passed(Checked(f))) /\ FrameOK(AfterRun(Checked(f)))
  BY <1>5, <1>7, PassedOK, AfterRunOK
<1>9. StackOK(stack')
  BY <1>2, <1>3, <1>4, <1>7, <1>8, PassesOrCalls, StayOK
<1> QED BY <1>4, <1>6, <1>9 DEF IInv, ShapeOK, StepOK

(* A block is tested.                                                      *)
LEMMA ShadowFillOK ==
  ASSUME IInv, ShadowFill
  PROVE  StepOK
<1>1. PICK f \in Scanning("shadow") :
        Stay([f EXCEPT !.queue = Lanes(f),
                       !.dense = IF Ends(f) = {} THEN Max(Block(f)) + 1 ELSE LastCard + 1])
  BY DEF ShadowFill
<1>2. IsScan(f) /\ f \in Innermost("shadow")
  BY ScanningFacts
<1>3. stack # <<>> /\ UNCHANGED <<seeds, leaders, results, cutoff>>
  BY <1>2, InnermostFacts DEF ShadowFill
<1>4. FrameOK([f EXCEPT !.queue = Lanes(f),
                        !.dense = IF Ends(f) = {} THEN Max(Block(f)) + 1 ELSE LastCard + 1])
  BY <1>2, FilledOK DEF IInv
<1>5. StackOK(stack')
  BY <1>1, <1>3, <1>4, StayOK
<1> QED BY <1>3, <1>5, StackStep

(* A lane of a block goes on, or is evaluated with the last slot.          *)
LEMMA ShadowLaneOK ==
  ASSUME IInv, ShadowLane
  PROVE  StepOK
<1>1. PICK f \in Innermost("shadow") :
        /\ f.queue # <<>>
        /\ LET lane == Head(f.queue)
               on == [f EXCEPT !.queue = Tail(@)]
               deck == Append(f.deck, lane.card)
           IN  \/ Stay(on) /\ UNCHANGED results
               \/ /\ Open(f.deck) = 1
                  /\ Stay(on) /\ results' = InsertAll(results, Results({deck}))
               \/ /\ Call(on, Frame(deck, lane.card + 1, Plus(f.partial, lane.card), TRUE))
                  /\ UNCHANGED results
  BY Zenon DEF ShadowLane
<1> DEFINE c == Head(f.queue).card
           on == [f EXCEPT !.queue = Tail(@)]
           deck == Append(f.deck, c)
           child == Frame(deck, c + 1, Plus(f.partial, c), TRUE)
<1>2. \/ Stay(on) /\ UNCHANGED results
      \/ Open(f.deck) = 1 /\ Stay(on) /\ results' = InsertAll(results, Results({deck}))
      \/ Call(on, child) /\ UNCHANGED results
  BY <1>1
<1>3. /\ stack # <<>> /\ FrameOK(f) /\ f.mode = "shadow" /\ UNCHANGED <<seeds, leaders, cutoff>>
      /\ Len(f.deck) \in Nat /\ DeckSize \in Nat
  BY InnermostFacts DEF ShadowLane
<1>4. Len(f.deck) + 1 <= DeckSize
  BY <1>3, SlotLeft
<1>5. request \in Requests /\ ResultsOK(results)
  BY DEF IInv, ShapeOK
<1>6. FrameOK(on) /\ c \in request.pool /\ Card[c].char \notin UsedBy(f.deck)
  BY <1>1, <1>3, <1>4, <1>5, TakenOK
<1> HIDE DEF on, c
<1>7. c + 1 \in FirstCard..LastCard + 1
  BY <1>5, <1>6, RequestFacts
<1>8. FrameOK(child)
  BY <1>3, <1>4, <1>5, <1>6, <1>7, NextCallOK
<1>9. ASSUME Open(f.deck) = 1 PROVE IsWhole(deck)
  <2>1. DeckOK(f.deck)
    BY <1>3, FrameParts
  <2>2. DeckOK(deck) /\ Len(deck) = Len(f.deck) + 1
    BY <1>6, <2>1, AppendedOK
  <2>3. Len(f.deck) + 1 = DeckSize
    <3> DEFINE n == Len(f.deck)
    <3>1. DeckSize - n = 1 /\ n \in Nat /\ DeckSize \in Nat
      BY <1>3, <1>9 DEF Open
    <3> HIDE DEF n
    <3>2. n + 1 = DeckSize
      BY <3>1
    <3> QED BY <3>2 DEF n
  <2> HIDE DEF deck
  <2> QED BY <1>5, <2>2, <2>3, FullDeckIsWhole
<1> HIDE DEF deck, child
<1>10. ASSUME Open(f.deck) = 1 PROVE ResultsOK(InsertAll(results, Results({deck})))
  <2>1. Rankable(Results({deck}))
    BY <1>5, <1>9, <1>10, ResultsRankable
  <2> QED BY <1>5, <2>1, InsertAllOK
<1>11. ResultsOK(results')
  BY <1>2, <1>5, <1>10
<1>12. StackOK(stack')
  BY <1>2, <1>3, <1>6, <1>8, StayOK, CallOK
<1> QED BY <1>3, <1>11, <1>12 DEF IInv, ShapeOK, StepOK

(* The deadline strikes.                                                   *)
LEMMA ExpireOK ==
  ASSUME IInv, Expire
  PROVE  StepOK
<1>1. seeds' = <<>> /\ leaders' = <<>> /\ stack' = <<>> /\ UNCHANGED <<results, cutoff>>
  BY DEF Expire
<1>2. <<>> \in Seq([Slots -> request.pool]) /\ <<>> \in Seq(request.pool) /\ StackOK(<<>>)
  BY EmptySeq, NoCallOK
<1> QED BY <1>1, <1>2 DEF IInv, ShapeOK, StepOK

(* Every step keeps the invariant.                                         *)
LEMMA NextOK ==
  ASSUME IInv, [Next]_vars
  PROVE  IInv'
<1>1. request' = request /\ suffix' = suffix
  BY DEF vars, Next, History, PlantSeed, Start, NextLeader, EnterHopeless, EnterLeaf, EnterFixed,
         EnterNode, EndOfScan, FixedStep, SimpleStep, NoEventStep, PrunedStep, ShadowFill,
         ShadowLane, Expire
<1>2. StepOK
  <2>1. ASSUME UNCHANGED vars PROVE StepOK
    BY <2>1 DEF vars, IInv, ShapeOK, StepOK
  <2>2. ASSUME Next PROVE StepOK
    BY <2>2, PlantSeedOK, StartOK, NextLeaderOK, EnterHopelessOK, EnterLeafOK, EnterFixedOK,
       EnterNodeOK, EndOfScanOK, FixedStepOK, SimpleStepOK, NoEventStepOK, PrunedStepOK,
       ShadowFillOK, ShadowLaneOK, ExpireOK DEF Next
  <2> QED BY <2>1, <2>2
<1> QED BY <1>1, <1>2, ShapeIsEnough

(* The cache is exact.                                                     *)
LEMMA ExactCache ==
  ASSUME IInv
  PROVE  CutoffExact
BY DEF IInv, ShapeOK, Caches, Exact, CutoffExact

(***************************************************************************)
(* At all times the cutoff cached for a bonus total is the least live      *)
(* score whose packed key reaches the threshold it was asked for last.     *)
(***************************************************************************)
THEOREM CutoffsExact == Spec => []CutoffExact
<1>1. Init => IInv
  BY InitOK
<1>2. IInv /\ [Next]_vars => IInv'
  BY NextOK
<1>3. IInv => CutoffExact
  BY ExactCache
<1> QED BY <1>1, <1>2, <1>3, PTL DEF Spec

(***************************************************************************)
(* A test that is decided by a cached cutoff, as a pruned scan does, is    *)
(* decided as comparing the packed ceiling with the threshold decides it,   *)
(* for every threshold and whatever was asked before.                      *)
(***************************************************************************)
CacheDecides ==
  request.target = "score" =>
    \A power, skill, bonus \in Nat, t \in Int :
      LET in == [power |-> power, skill |-> skill, bonus |-> bonus]
      IN  Numerator(power, skill) \div NumeratorScale \in 0..LiveLimit =>
            (Reaches(Asked(cutoff, bonus, t), in, t) <=> Ceiling(in) >= t)

(***************************************************************************)
(* At all times the cache decides a test as its ceiling does.              *)
(***************************************************************************)
THEOREM CachedTestsExact == Spec => []CacheDecides
<1>1. Init => IInv
  BY InitOK
<1>2. IInv /\ [Next]_vars => IInv'
  BY NextOK
<1>3. IInv => CacheDecides
  <2> SUFFICES ASSUME IInv, request.target = "score",
                      NEW power \in Nat, NEW skill \in Nat, NEW bonus \in Nat, NEW t \in Int,
                      Numerator(power, skill) \div NumeratorScale \in 0..LiveLimit
               PROVE  LET in == [power |-> power, skill |-> skill, bonus |-> bonus]
                      IN  Reaches(Asked(cutoff, bonus, t), in, t) <=> Ceiling(in) >= t
    BY Zenon DEF CacheDecides
  <2> DEFINE in == [power |-> power, skill |-> skill, bonus |-> bonus]
  <2>1. in.bonus = bonus /\ in.power = power /\ in.skill = skill
    OBVIOUS
  <2>2. cutoff \in Caches
    BY DEF IInv, ShapeOK
  <2> HIDE DEF in
  <2>3. in.bonus \in Nat /\ Numerator(in.power, in.skill) \div NumeratorScale \in 0..LiveLimit
    BY <2>1
  <2>4. Reaches(Asked(cutoff, in.bonus, t), in, t) <=> Ceiling(in) >= t
    BY <2>2, <2>3, ReachesAsCeiling
  <2> QED BY <2>1, <2>4 DEF in
<1> QED BY <1>1, <1>2, <1>3, PTL DEF Spec

(***************************************************************************)
(* At all times the list is one the tracker could hold: no longer than the  *)
(* requested number, best first, one entry for each set of cards.          *)
(***************************************************************************)
THEOREM ListRanked == Spec => [](Len(results) <= request.topK /\ Ranked(Ctx, results))
<1>1. Init => IInv
  BY InitOK
<1>2. IInv /\ [Next]_vars => IInv'
  BY NextOK
<1>3. IInv => Len(results) <= request.topK /\ Ranked(Ctx, results)
  BY DEF IInv, ShapeOK, ResultsOK, Trackers
<1> QED BY <1>1, <1>2, <1>3, PTL DEF Spec

=============================================================================
