---------------------------- MODULE CommonLemmas ----------------------------
(***************************************************************************)
(* What the proofs of this project share: facts about naturals, about the  *)
(* sequence, sum and sorting operators of the community modules and of     *)
(* Sorting, and about the operators of the Top-K tracker, for every set of *)
(* results a request can rank: the key is a strict total order, an         *)
(* insertion keeps the list ranked and never uncovers a result, and a      *)
(* ranked list that covers every result is the canonical answer.           *)
(***************************************************************************)
EXTENDS TopK, Sorting, TLAPS, SequenceTheorems, FiniteSetTheorems,
        FunctionTheorems, WellFoundedInduction

(* Every nonempty set of naturals has a least element. *)
LEMMA LeastNatural ==
  ASSUME NEW T, T \subseteq Nat, T # {}
  PROVE  \E x \in T : \A y \in T : x <= y
<1>1. PICK x \in T : \A y \in T : <<y, x>> \notin OpToRel(<, Nat)
  BY WFMin, NatLessThanWellFounded
<1>2. \A y \in T : ~(y < x)
  BY <1>1 DEF OpToRel
<1> QED BY <1>2

(* What RemoveAt leaves: the other entries, in order. *)
LEMMA RemoveAtProperties ==
  ASSUME NEW S, NEW s \in Seq(S), NEW p \in 1..Len(s)
  PROVE  /\ RemoveAt(s, p) \in Seq(S)
         /\ Len(RemoveAt(s, p)) = Len(s) - 1
         /\ \A i \in 1..Len(s) - 1 :
              RemoveAt(s, p)[i] = IF i < p THEN s[i] ELSE s[i + 1]
<1> DEFINE a == SubSeq(s, 1, p - 1)
           b == SubSeq(s, p + 1, Len(s))
<1>0. Len(s) \in Nat /\ \A i \in 1..Len(s) : s[i] \in S
  BY LenProperties, ElementOfSeq
<1>1. /\ a \in Seq(S) /\ Len(a) = p - 1
      /\ \A i \in 1..p - 1 : a[i] = s[i]
  <2>1. \A i \in 1..p - 1 : s[i] \in S  BY <1>0
  <2> HIDE DEF a
  <2>2. /\ a \in Seq(S)
        /\ Len(a) = IF 1 <= p - 1 THEN (p - 1) - 1 + 1 ELSE 0
        /\ \A i \in 1..(p - 1) - 1 + 1 : a[i] = s[1 + i - 1]
    BY <2>1, <1>0, SubSeqProperties DEF a
  <2> QED BY <2>2, <1>0
<1>2. /\ b \in Seq(S) /\ Len(b) = Len(s) - p
      /\ \A i \in 1..Len(s) - p : b[i] = s[p + i]
  <2>1. \A i \in p + 1..Len(s) : s[i] \in S  BY <1>0
  <2> HIDE DEF b
  <2>2. /\ b \in Seq(S)
        /\ Len(b) = IF p + 1 <= Len(s) THEN Len(s) - (p + 1) + 1 ELSE 0
        /\ \A i \in 1..Len(s) - (p + 1) + 1 : b[i] = s[(p + 1) + i - 1]
    BY <2>1, <1>0, SubSeqProperties DEF b
  <2> QED BY <2>2, <1>0
<1> HIDE DEF a, b
<1>3. /\ a \o b \in Seq(S)
      /\ Len(a \o b) = Len(a) + Len(b)
      /\ \A i \in 1..Len(a) + Len(b) :
           (a \o b)[i] = IF i <= Len(a) THEN a[i] ELSE b[i - Len(a)]
  BY <1>1, <1>2, ConcatProperties
<1>4. RemoveAt(s, p) = a \o b
  BY DEF RemoveAt, a, b
<1>5. Len(s) - 1 = Len(a) + Len(b)
  BY <1>0, <1>1, <1>2
<1>6. ASSUME NEW i \in 1..Len(s) - 1
      PROVE  (a \o b)[i] = IF i < p THEN s[i] ELSE s[i + 1]
  <2>1. (a \o b)[i] = IF i <= Len(a) THEN a[i] ELSE b[i - Len(a)]
    BY <1>3, <1>5
  <2>2. CASE i < p
    <3>1. i \in 1..p - 1 /\ i <= Len(a)  BY <2>2, <1>0, <1>1
    <3> QED BY <2>1, <2>2, <3>1, <1>1
  <2>3. CASE ~(i < p)
    <3>1. /\ i - (p - 1) \in 1..Len(s) - p
          /\ ~(i <= p - 1)
          /\ p + (i - (p - 1)) = i + 1
      BY <2>3, <1>0
    <3>2. b[i - (p - 1)] = s[i + 1]  BY <3>1, <1>2
    <3> QED BY <2>1, <2>3, <3>1, <3>2, <1>1
  <2> QED BY <2>2, <2>3
<1> QED BY <1>0, <1>3, <1>4, <1>5, <1>6

(* What InsertAt makes: the new entry at its position, the others in order. *)
LEMMA InsertAtProperties ==
  ASSUME NEW S, NEW s \in Seq(S), NEW p \in 1..Len(s) + 1, NEW e \in S
  PROVE  /\ InsertAt(s, p, e) \in Seq(S)
         /\ Len(InsertAt(s, p, e)) = Len(s) + 1
         /\ \A i \in 1..Len(s) + 1 :
              InsertAt(s, p, e)[i] =
                IF i < p THEN s[i] ELSE IF i = p THEN e ELSE s[i - 1]
<1> DEFINE a == SubSeq(s, 1, p - 1)
           b == SubSeq(s, p, Len(s))
<1>0. Len(s) \in Nat /\ \A i \in 1..Len(s) : s[i] \in S
  BY LenProperties, ElementOfSeq
<1>1. /\ a \in Seq(S) /\ Len(a) = p - 1
      /\ \A i \in 1..p - 1 : a[i] = s[i]
  <2>1. \A i \in 1..p - 1 : s[i] \in S  BY <1>0
  <2> HIDE DEF a
  <2>2. /\ a \in Seq(S)
        /\ Len(a) = IF 1 <= p - 1 THEN (p - 1) - 1 + 1 ELSE 0
        /\ \A i \in 1..(p - 1) - 1 + 1 : a[i] = s[1 + i - 1]
    BY <2>1, <1>0, SubSeqProperties DEF a
  <2> QED BY <2>2, <1>0
<1>2. /\ b \in Seq(S) /\ Len(b) = Len(s) - p + 1
      /\ \A i \in 1..Len(s) - p + 1 : b[i] = s[p + i - 1]
  <2>1. \A i \in p..Len(s) : s[i] \in S  BY <1>0
  <2> HIDE DEF b
  <2>2. /\ b \in Seq(S)
        /\ Len(b) = IF p <= Len(s) THEN Len(s) - p + 1 ELSE 0
        /\ \A i \in 1..Len(s) - p + 1 : b[i] = s[p + i - 1]
    BY <2>1, <1>0, SubSeqProperties DEF b
  <2> QED BY <2>2, <1>0
<1>3. <<e>> \in Seq(S) /\ Len(<<e>>) = 1 /\ <<e>>[1] = e
  OBVIOUS
<1> HIDE DEF a, b
<1>4. /\ a \o <<e>> \in Seq(S)
      /\ Len(a \o <<e>>) = p
      /\ \A i \in 1..p : (a \o <<e>>)[i] = IF i < p THEN s[i] ELSE e
  <2>1. /\ a \o <<e>> \in Seq(S)
        /\ Len(a \o <<e>>) = Len(a) + Len(<<e>>)
        /\ \A i \in 1..Len(a) + Len(<<e>>) :
             (a \o <<e>>)[i] = IF i <= Len(a) THEN a[i] ELSE <<e>>[i - Len(a)]
    BY <1>1, <1>3, ConcatProperties
  <2> QED BY <2>1, <1>0, <1>1, <1>3
<1> DEFINE ae == a \o <<e>>
<1> HIDE DEF ae
<1>5a. ae \in Seq(S)
  BY <1>4 DEF ae
<1>5. /\ ae \o b \in Seq(S)
      /\ Len(ae \o b) = Len(ae) + Len(b)
      /\ \A i \in 1..Len(ae) + Len(b) :
           (ae \o b)[i] = IF i <= Len(ae) THEN ae[i] ELSE b[i - Len(ae)]
  BY <1>5a, <1>2, ConcatProperties
<1>6. InsertAt(s, p, e) = ae \o b
  BY DEF InsertAt, a, b, ae
<1>7. Len(ae) = p /\ \A i \in 1..p : ae[i] = IF i < p THEN s[i] ELSE e
  BY <1>4 DEF ae
<1> QED BY <1>0, <1>2, <1>5, <1>6, <1>7

(* What Front leaves. *)
LEMMA FrontProperties ==
  ASSUME NEW S, NEW s \in Seq(S), Len(s) > 0
  PROVE  /\ Front(s) \in Seq(S)
         /\ Len(Front(s)) = Len(s) - 1
         /\ \A i \in 1..Len(s) - 1 : Front(s)[i] = s[i]
<1>0. Len(s) \in Nat /\ \A i \in 1..Len(s) : s[i] \in S
  BY LenProperties, ElementOfSeq
<1> DEFINE f == SubSeq(s, 1, Len(s) - 1)
<1>1. \A i \in 1..Len(s) - 1 : s[i] \in S  BY <1>0
<1> HIDE DEF f
<1>2. /\ f \in Seq(S)
      /\ Len(f) = IF 1 <= Len(s) - 1 THEN (Len(s) - 1) - 1 + 1 ELSE 0
      /\ \A i \in 1..(Len(s) - 1) - 1 + 1 : f[i] = s[1 + i - 1]
  BY <1>1, <1>0, SubSeqProperties DEF f
<1>3. Front(s) = f  BY DEF Front, f
<1> QED BY <1>0, <1>2, <1>3

(* At most n values occur at the first n indices. *)
LEMMA ImageCardinality ==
  ASSUME NEW n \in Nat, NEW f, DOMAIN f = 1..n, f = [i \in 1..n |-> f[i]],
         NEW T, \A x \in T : \E i \in 1..n : f[i] = x
  PROVE  IsFiniteSet(T) /\ Cardinality(T) <= n
<1> DEFINE image == {f[i] : i \in 1..n}
<1>1. f \in [1..n -> image]  OBVIOUS
<1>2. f \in Surjection(1..n, image)
  <2> DEFINE im == image
  <2>1. \A x \in im : \E i \in 1..n : f[i] = x  OBVIOUS
  <2>2. f \in [1..n -> im]  BY <1>1
  <2> HIDE DEF im
  <2>3. f \in Surjection(1..n, im)  BY <2>1, <2>2, Fun_IsSurj
  <2> QED BY <2>3 DEF im
<1>3. T \in SUBSET image  OBVIOUS
<1> HIDE DEF image
<1>4. IsFiniteSet(1..n) /\ Cardinality(1..n) = n
  BY FS_Interval
<1>5. IsFiniteSet(image) /\ Cardinality(image) <= n
  BY <1>2, <1>4, FS_Surjection
<1>6. IsFiniteSet(T) /\ Cardinality(T) <= Cardinality(image)
  BY <1>3, <1>5, FS_Subset
<1>7. Cardinality(T) \in Nat /\ Cardinality(image) \in Nat
  BY <1>5, <1>6, FS_CardinalityType
<1> QED BY <1>5, <1>6, <1>7

(* A finite set that holds n different values has at least n elements. *)
LEMMA DistinctCardinality ==
  ASSUME NEW n \in Nat, NEW T, IsFiniteSet(T),
         NEW f \in [1..n -> T],
         \A i, j \in 1..n : f[i] = f[j] => i = j
  PROVE  n <= Cardinality(T)
<1>1. f \in Injection(1..n, T)
  BY Fun_IsInj
<1>2. IsFiniteSet(1..n) /\ Cardinality(1..n) = n
  BY FS_Interval
<1>3. Cardinality(1..n) <= Cardinality(T)
  BY <1>1, FS_Injection
<1> QED BY <1>2, <1>3

-----------------------------------------------------------------------------
(* Functions defined over the subsets of a finite set.                       *)

\* ch picks an element of every subset.
Picks(D, ch) == \A s \in SUBSET D : s # {} => ch[s] \in s

\* h combines an element with a value.
Combines(D, V, h) == \A x \in D, v \in V : h[<<x, v>>] \in V

\* g is b for the empty set, and combines the picked element with what it is
\* for the others.
Recurses(D, b, ch, h, g) ==
  \A s \in SUBSET D :
    g[s] = IF s = {} THEN b ELSE h[<<ch[s], g[s \ {ch[s]}]>>]

(* A function on the subsets of a finite set can be defined by removing a  *)
(* chosen element.                                                         *)
LEMMA SetRecursion ==
  ASSUME NEW D, IsFiniteSet(D), NEW V, NEW b \in V,
         NEW ch, Picks(D, ch), NEW h, Combines(D, V, h)
  PROVE  \E g \in [SUBSET D -> V] : Recurses(D, b, ch, h, g)
<1> DEFINE Small(n) == {s \in SUBSET D : Cardinality(s) <= n}
           Good(n) == \E g \in [Small(n) -> V] : \A s \in Small(n) :
                        g[s] = IF s = {} THEN b ELSE h[<<ch[s], g[s \ {ch[s]}]>>]
           Bad == {n \in Nat : ~Good(n)}
<1>f. \A s \in SUBSET D : IsFiniteSet(s) /\ Cardinality(s) \in Nat
  BY FS_Subset, FS_CardinalityType
<1>c. /\ \A s \in SUBSET D : s # {} => ch[s] \in s
      /\ \A x \in D, v \in V : h[<<x, v>>] \in V
  BY DEF Picks, Combines
<1>1. Good(0)
  <2> DEFINE g == [s \in Small(0) |-> b]
  <2>1. \A s \in Small(0) : s = {}
    <3> SUFFICES ASSUME NEW s \in SUBSET D, Cardinality(s) <= 0 PROVE s = {}
      OBVIOUS
    <3>1. Cardinality(s) = 0  BY <1>f
    <3> QED BY <3>1, <1>f, FS_EmptySet
  <2>2. g \in [Small(0) -> V] /\ \A s \in Small(0) : g[s] = b
    OBVIOUS
  <2> HIDE DEF g
  <2>3. \A s \in Small(0) : g[s] = IF s = {} THEN b ELSE h[<<ch[s], g[s \ {ch[s]}]>>]
    <3> HIDE DEF Small
    <3> QED BY <2>1, <2>2
  <2> QED BY <2>2, <2>3
<1>2. ASSUME NEW n \in Nat, Good(n) PROVE Good(n + 1)
  <2>1. PICK g \in [Small(n) -> V] : \A s \in Small(n) :
          g[s] = IF s = {} THEN b ELSE h[<<ch[s], g[s \ {ch[s]}]>>]
    BY <1>2
  <2> DEFINE k == [s \in Small(n + 1) |->
                     IF s = {} THEN b ELSE h[<<ch[s], g[s \ {ch[s]}]>>]]
  <2>2. ASSUME NEW s \in Small(n + 1), s # {}
        PROVE  ch[s] \in D /\ s \ {ch[s]} \in Small(n) /\ s \ {ch[s]} \in Small(n + 1)
    <3>1. ch[s] \in s /\ s \in SUBSET D /\ Cardinality(s) <= n + 1  BY <2>2, <1>c
    <3>2. Cardinality(s \ {ch[s]}) = Cardinality(s) - 1
      BY <3>1, <1>f, FS_RemoveElement
    <3>3. Cardinality(s) \in Nat /\ Cardinality(s \ {ch[s]}) <= n
      BY <3>1, <3>2, <1>f
    <3>4. Cardinality(s \ {ch[s]}) \in Nat
      BY <3>1, <1>f
    <3> QED BY <3>1, <3>3, <3>4
  <2>3. k \in [Small(n + 1) -> V]
    <3>1. ASSUME NEW s \in Small(n + 1)
          PROVE  (IF s = {} THEN b ELSE h[<<ch[s], g[s \ {ch[s]}]>>]) \in V
      <4>1. CASE s = {}  BY <4>1
      <4>2. CASE s # {}
        <5>1. g[s \ {ch[s]}] \in V /\ ch[s] \in D  BY <4>2, <2>2
        <5> QED BY <4>2, <5>1, <1>c
      <4> QED BY <4>1, <4>2
    <3> HIDE DEF Small
    <3> QED BY <3>1
  <2>4. ASSUME NEW s \in Small(n + 1), s # {} PROVE k[s \ {ch[s]}] = g[s \ {ch[s]}]
    <3>1. s \ {ch[s]} \in Small(n) /\ s \ {ch[s]} \in Small(n + 1)  BY <2>2, <2>4
    <3> HIDE DEF Small
    <3> QED BY <3>1, <2>1
  <2>5. \A s \in Small(n + 1) : k[s] = IF s = {} THEN b ELSE h[<<ch[s], k[s \ {ch[s]}]>>]
    <3> SUFFICES ASSUME NEW s \in Small(n + 1)
                 PROVE  k[s] = IF s = {} THEN b ELSE h[<<ch[s], k[s \ {ch[s]}]>>]
      OBVIOUS
    <3>1. k[s] = IF s = {} THEN b ELSE h[<<ch[s], g[s \ {ch[s]}]>>]  OBVIOUS
    <3> HIDE DEF k, Small
    <3> QED BY <3>1, <2>4
  <2> QED BY <2>3, <2>5
<1>3. Bad = {}
  <2> SUFFICES ASSUME Bad # {} PROVE FALSE
    OBVIOUS
  <2>1. PICK n \in Bad : \A m \in Bad : n <= m
    <3>1. Bad \subseteq Nat  OBVIOUS
    <3> HIDE DEF Bad
    <3> QED BY <3>1, LeastNatural
  <2>2. n \in Nat /\ ~Good(n)  OBVIOUS
  <2> HIDE DEF Good
  <2>3. n # 0  BY <2>2, <1>1
  <2>4. n - 1 \in Nat /\ n - 1 \notin Bad  BY <2>1, <2>2, <2>3
  <2>5. Good(n - 1)  BY <2>4
  <2>6. Good((n - 1) + 1)  BY <2>4, <2>5, <1>2
  <2>7. (n - 1) + 1 = n  BY <2>2
  <2> QED BY <2>2, <2>6, <2>7
<1>4. Good(Cardinality(D))
  <2> HIDE DEF Good
  <2> QED BY <1>3, <1>f
<1>5. Small(Cardinality(D)) = SUBSET D
  BY FS_Subset
<1> QED BY <1>4, <1>5 DEF Recurses

(* There is only one.                                                      *)
LEMMA SetRecursionUnique ==
  ASSUME NEW D, IsFiniteSet(D), NEW b,
         NEW ch, Picks(D, ch), NEW h,
         NEW g, Recurses(D, b, ch, h, g), NEW k, Recurses(D, b, ch, h, k)
  PROVE  \A s \in SUBSET D : g[s] = k[s]
<1> DEFINE Bad == {Cardinality(s) : s \in {t \in SUBSET D : g[t] # k[t]}}
<1>f. \A s \in SUBSET D : IsFiniteSet(s) /\ Cardinality(s) \in Nat
  BY FS_Subset, FS_CardinalityType
<1> SUFFICES ASSUME NEW bad \in SUBSET D, g[bad] # k[bad] PROVE FALSE
  OBVIOUS
<1>1. PICK n \in Bad : \A m \in Bad : n <= m
  <2>1. Bad \subseteq Nat /\ Bad # {}  BY <1>f
  <2> HIDE DEF Bad
  <2> QED BY <2>1, LeastNatural
<1>2. PICK s \in SUBSET D : g[s] # k[s] /\ n = Cardinality(s)
  OBVIOUS
<1>3. s # {}  BY <1>2 DEF Recurses
<1> DEFINE t == s \ {ch[s]}
<1>4. t \in SUBSET D /\ ch[s] \in s  BY <1>3 DEF Picks
<1>5. Cardinality(t) = Cardinality(s) - 1
  BY <1>4, <1>f, FS_RemoveElement
<1>6. g[t] # k[t]
  BY <1>2, <1>3 DEF Recurses
<1>7. Cardinality(t) \in Bad  BY <1>4, <1>6
<1>8. n <= Cardinality(t)
  <2> HIDE DEF Bad
  <2> QED BY <1>1, <1>7
<1>9. Cardinality(s) \in Nat  BY <1>f
<1> HIDE DEF Bad, t
<1> QED BY <1>2, <1>5, <1>8, <1>9

-----------------------------------------------------------------------------
(* Sums.                                                                     *)

Summands(f, S) == \A x \in S : f[x] \in Int

\* g is the function that SumFunctionOnSet takes its value from.
IsSum(f, S, g) ==
  /\ g \in [SUBSET S -> Int]
  /\ \A s \in SUBSET S :
       g[s] = IF s = {} THEN 0
              ELSE f[CHOOSE x \in s : TRUE] + g[s \ {CHOOSE x \in s : TRUE}]

(* A sum of integers is the value of such a function.                      *)
LEMMA SumDefined ==
  ASSUME NEW S, IsFiniteSet(S), NEW f, Summands(f, S)
  PROVE  \E g : IsSum(f, S, g) /\ SumFunctionOnSet(f, S) = g[S]
<1> DEFINE ch == [s \in SUBSET S |-> CHOOSE x \in s : TRUE]
           h == [p \in S \X Int |-> f[p[1]] + p[2]]
<1>1. \A s \in SUBSET S : s # {} => ch[s] \in s
  OBVIOUS
<1>2. \A x \in S, v \in Int : h[<<x, v>>] = f[x] + v /\ h[<<x, v>>] \in Int
  BY DEF Summands
<1>c. \A s \in SUBSET S : ch[s] = CHOOSE x \in s : TRUE
  OBVIOUS
<1> HIDE DEF ch, h
<1>3. PICK g \in [SUBSET S -> Int] : \A s \in SUBSET S :
        g[s] = IF s = {} THEN 0 ELSE h[<<ch[s], g[s \ {ch[s]}]>>]
  <2>1. Picks(S, ch) /\ Combines(S, Int, h)  BY <1>1, <1>2 DEF Picks, Combines
  <2>2. 0 \in Int  OBVIOUS
  <2>3. \E g \in [SUBSET S -> Int] : Recurses(S, 0, ch, h, g)
    BY <2>1, <2>2, SetRecursion
  <2> QED BY <2>3 DEF Recurses
<1>4. ASSUME NEW s \in SUBSET S
      PROVE  g[s] = IF s = {} THEN 0 ELSE f[ch[s]] + g[s \ {ch[s]}]
  <2>1. CASE s = {}  BY <2>1, <1>3
  <2>2. CASE s # {}
    <3>1. ch[s] \in S /\ s \ {ch[s]} \in SUBSET S /\ g[s \ {ch[s]}] \in Int
      BY <2>2, <1>1, <1>3
    <3>2. g[s] = h[<<ch[s], g[s \ {ch[s]}]>>]  BY <2>2, <1>3
    <3> QED BY <2>2, <3>1, <3>2, <1>2
  <2> QED BY <2>1, <2>2
<1>5. \A s \in SUBSET S :
        g[s] = IF s = {} THEN 0
               ELSE f[CHOOSE x \in s : TRUE] + g[s \ {CHOOSE x \in s : TRUE}]
  BY <1>4, <1>c, Zenon
<1>6. g = [s \in SUBSET S |-> IF s = {} THEN 0
               ELSE f[CHOOSE x \in s : TRUE] + g[s \ {CHOOSE x \in s : TRUE}]]
  <2>1. g = [s \in SUBSET S |-> g[s]]  BY <1>3
  <2> QED BY <2>1, <1>5, Zenon
<1>7. PICK k : k = [s \in SUBSET S |-> IF s = {} THEN 0
               ELSE f[CHOOSE x \in s : TRUE] + k[s \ {CHOOSE x \in s : TRUE}]]
               /\ SumFunctionOnSet(f, S) = k[S]
  BY <1>6, Zenon DEF SumFunctionOnSet, FoldFunctionOnSet, MapThenFoldSet
<1>8. \A s \in SUBSET S : k[s] = IF s = {} THEN 0
               ELSE f[CHOOSE x \in s : TRUE] + k[s \ {CHOOSE x \in s : TRUE}]
  BY <1>7, Zenon
<1> DEFINE W == Int \cup {k[s] : s \in SUBSET S}
           l == [p \in S \X W |-> f[p[1]] + p[2]]
<1>9. \A x \in S, v \in W : l[<<x, v>>] = f[x] + v
  <2> HIDE DEF W
  <2> QED OBVIOUS
<1>w. \A s \in SUBSET S : g[s] \in W /\ k[s] \in W
  BY <1>3
<1> HIDE DEF l, W
<1>10. ASSUME NEW s \in SUBSET S
       PROVE  /\ g[s] = IF s = {} THEN 0 ELSE l[<<ch[s], g[s \ {ch[s]}]>>]
              /\ k[s] = IF s = {} THEN 0 ELSE l[<<ch[s], k[s \ {ch[s]}]>>]
  <2>1. CASE s = {}  BY <2>1, <1>4, <1>8
  <2>2. CASE s # {}
    <3>1. ch[s] \in S /\ s \ {ch[s]} \in SUBSET S
      BY <2>2, <1>1
    <3>2. g[s \ {ch[s]}] \in W /\ k[s \ {ch[s]}] \in W
      BY <3>1, <1>w
    <3>3. l[<<ch[s], g[s \ {ch[s]}]>>] = f[ch[s]] + g[s \ {ch[s]}]
      BY <3>1, <3>2, <1>9
    <3>4. l[<<ch[s], k[s \ {ch[s]}]>>] = f[ch[s]] + k[s \ {ch[s]}]
      BY <3>1, <3>2, <1>9
    <3>5. g[s] = f[ch[s]] + g[s \ {ch[s]}]
      BY <2>2, <1>4
    <3>6. k[s] = f[ch[s]] + k[s \ {ch[s]}]
      BY <2>2, <1>8, <1>c
    <3> QED BY <2>2, <3>3, <3>4, <3>5, <3>6
  <2> QED BY <2>1, <2>2
<1>11. \A s \in SUBSET S : g[s] = k[s]
  <2>1. Recurses(S, 0, ch, l, g) /\ Recurses(S, 0, ch, l, k) /\ Picks(S, ch)
    BY <1>10, <1>1 DEF Recurses, Picks
  <2> QED BY <2>1, SetRecursionUnique
<1>12. S \in SUBSET S  OBVIOUS
<1> QED BY <1>3, <1>5, <1>7, <1>11, <1>12 DEF IsSum

(* The empty sum is zero, and a sum of integers is one.                    *)
LEMMA SumType ==
  ASSUME NEW S, IsFiniteSet(S), NEW f, Summands(f, S)
  PROVE  SumFunctionOnSet(f, S) \in Int
<1>1. PICK g : IsSum(f, S, g) /\ SumFunctionOnSet(f, S) = g[S]
  BY SumDefined
<1>2. g \in [SUBSET S -> Int] /\ S \in SUBSET S  BY <1>1 DEF IsSum
<1> QED BY <1>1, <1>2

(* The empty sum.                                                          *)
LEMMA SumEmpty ==
  ASSUME NEW f
  PROVE  SumFunctionOnSet(f, {}) = 0
<1>1. Summands(f, {}) /\ IsFiniteSet({})
  BY FS_EmptySet DEF Summands
<1>2. PICK g : IsSum(f, {}, g) /\ SumFunctionOnSet(f, {}) = g[{}]
  BY <1>1, SumDefined
<1> QED BY <1>2 DEF IsSum

(* The function of a sum also gives the sums of the subsets.               *)
LEMMA SumOfSubset ==
  ASSUME NEW S, IsFiniteSet(S), NEW f, Summands(f, S),
         NEW g, IsSum(f, S, g), NEW T \in SUBSET S
  PROVE  SumFunctionOnSet(f, T) = g[T]
<1>1. IsFiniteSet(T) /\ Summands(f, T)
  BY FS_Subset DEF Summands
<1>2. PICK k : IsSum(f, T, k) /\ SumFunctionOnSet(f, T) = k[T]
  BY <1>1, SumDefined
<1> DEFINE ch == [s \in SUBSET T |-> CHOOSE x \in s : TRUE]
           h == [p \in T \X Int |-> f[p[1]] + p[2]]
<1>3. \A s \in SUBSET T : ch[s] = CHOOSE x \in s : TRUE
  OBVIOUS
<1>4. \A x \in T, v \in Int : h[<<x, v>>] = f[x] + v
  OBVIOUS
<1>5. \A s \in SUBSET T : s # {} => ch[s] \in s
  OBVIOUS
<1> HIDE DEF ch, h
<1>6. ASSUME NEW l, l \in [SUBSET T -> Int],
             \A s \in SUBSET T : l[s] = IF s = {} THEN 0
               ELSE f[CHOOSE x \in s : TRUE] + l[s \ {CHOOSE x \in s : TRUE}]
      PROVE  Recurses(T, 0, ch, h, l)
  <2> SUFFICES ASSUME NEW s \in SUBSET T
               PROVE  l[s] = IF s = {} THEN 0 ELSE h[<<ch[s], l[s \ {ch[s]}]>>]
    BY DEF Recurses
  <2>0. l[s] = IF s = {} THEN 0 ELSE f[ch[s]] + l[s \ {ch[s]}]
    BY <1>6, <1>3, Zenon
  <2>1. CASE s = {}  BY <2>1, <2>0
  <2>2. CASE s # {}
    <3>1. ch[s] \in T /\ s \ {ch[s]} \in SUBSET T  BY <2>2, <1>5
    <3>2. l[s \ {ch[s]}] \in Int  BY <3>1, <1>6
    <3>3. h[<<ch[s], l[s \ {ch[s]}]>>] = f[ch[s]] + l[s \ {ch[s]}]
      BY <3>1, <3>2, <1>4
    <3> QED BY <2>2, <2>0, <3>3
  <2> QED BY <2>1, <2>2
<1>7. Recurses(T, 0, ch, h, k)
  BY <1>2, <1>6 DEF IsSum
<1> DEFINE r == [s \in SUBSET T |-> g[s]]
<1>8. Recurses(T, 0, ch, h, r)
  <2>1. \A s \in SUBSET T : s \in SUBSET S  OBVIOUS
  <2>2. g \in [SUBSET S -> Int] /\ \A s \in SUBSET S :
          g[s] = IF s = {} THEN 0
                 ELSE f[CHOOSE x \in s : TRUE] + g[s \ {CHOOSE x \in s : TRUE}]
    BY DEF IsSum
  <2>3. r \in [SUBSET T -> Int] /\ \A s \in SUBSET T : r[s] = g[s]
    BY <2>1, <2>2
  <2> HIDE DEF r
  <2>4. \A s \in SUBSET T : r[s] = IF s = {} THEN 0
               ELSE f[CHOOSE x \in s : TRUE] + r[s \ {CHOOSE x \in s : TRUE}]
    <3> SUFFICES ASSUME NEW s \in SUBSET T
                 PROVE  r[s] = IF s = {} THEN 0
               ELSE f[CHOOSE x \in s : TRUE] + r[s \ {CHOOSE x \in s : TRUE}]
      OBVIOUS
    <3>1. s \ {CHOOSE x \in s : TRUE} \in SUBSET T /\ s \in SUBSET S
      OBVIOUS
    <3>2. r[s \ {CHOOSE x \in s : TRUE}] = g[s \ {CHOOSE x \in s : TRUE}] /\ r[s] = g[s]
      BY <2>3, <3>1, Zenon
    <3>3. g[s] = IF s = {} THEN 0
                 ELSE f[CHOOSE x \in s : TRUE] + g[s \ {CHOOSE x \in s : TRUE}]
      BY <2>2, <3>1, Zenon
    <3> QED BY <3>2, <3>3, Zenon
  <2> QED BY <2>3, <2>4, <1>6
<1>9. Picks(T, ch)  BY <1>5 DEF Picks
<1>10. \A s \in SUBSET T : r[s] = k[s]
  <2> HIDE DEF r
  <2> QED BY <1>1, <1>7, <1>8, <1>9, SetRecursionUnique
<1>11. r[T] = g[T]  OBVIOUS
<1> HIDE DEF r
<1> QED BY <1>2, <1>10, <1>11

(* A sum loses what a removed element adds.                                *)
LEMMA SumRemove ==
  ASSUME NEW S, IsFiniteSet(S), NEW f, Summands(f, S), NEW x \in S
  PROVE  SumFunctionOnSet(f, S) = f[x] + SumFunctionOnSet(f, S \ {x})
<1>1. PICK g : IsSum(f, S, g)
  BY SumDefined
<1>f. \A s \in SUBSET S : IsFiniteSet(s) /\ Cardinality(s) \in Nat
  BY FS_Subset, FS_CardinalityType
<1> DEFINE Holds(s) == \A y \in s : g[s] = f[y] + g[s \ {y}]
           Bad == {Cardinality(s) : s \in {t \in SUBSET S : ~Holds(t)}}
<1>2. Bad = {}
  <2> SUFFICES ASSUME Bad # {} PROVE FALSE
    OBVIOUS
  <2>1. PICK n \in Bad : \A m \in Bad : n <= m
    <3>1. Bad \subseteq Nat  BY <1>f
    <3> HIDE DEF Bad
    <3> QED BY <3>1, LeastNatural
  <2>2. PICK s \in SUBSET S : ~Holds(s) /\ n = Cardinality(s)
    OBVIOUS
  <2>3. ASSUME NEW t \in SUBSET S, Cardinality(t) < n PROVE Holds(t)
    <3>1. CASE Cardinality(t) \in Bad
      <4>1. n <= Cardinality(t)  BY <3>1, <2>1
      <4>2. Cardinality(t) \in Nat /\ n \in Nat  BY <1>f, <2>2
      <4> QED BY <4>1, <4>2, <2>3
    <3>2. CASE Cardinality(t) \notin Bad
      BY <3>2
    <3> QED BY <3>1, <3>2
  <2>4. PICK y \in s : g[s] # f[y] + g[s \ {y}]
    BY <2>2
  <2> HIDE DEF Bad
  <2> DEFINE c == CHOOSE z \in s : TRUE
  <2>5. c \in s /\ g[s] = f[c] + g[s \ {c}]
    <3>1. s # {}  BY <2>4
    <3> QED BY <3>1, <1>1 DEF IsSum
  <2> HIDE DEF c
  <2>6. c # y  BY <2>4, <2>5
  <2>7. s \ {c} \in SUBSET S /\ s \ {y} \in SUBSET S /\ y \in s \ {c} /\ c \in s \ {y}
    BY <2>4, <2>5, <2>6
  <2>8. Cardinality(s \ {c}) < n /\ Cardinality(s \ {y}) < n
    <3>1. Cardinality(s \ {c}) = Cardinality(s) - 1 /\ Cardinality(s \ {y}) = Cardinality(s) - 1
      BY <2>4, <2>5, <1>f, FS_RemoveElement
    <3>2. Cardinality(s) \in Nat  BY <1>f
    <3> QED BY <3>1, <3>2, <2>2
  <2>9. g[s \ {c}] = f[y] + g[(s \ {c}) \ {y}] /\ g[s \ {y}] = f[c] + g[(s \ {y}) \ {c}]
    BY <2>7, <2>8, <2>3
  <2>10. (s \ {c}) \ {y} = (s \ {y}) \ {c}  OBVIOUS
  <2>11. f[c] \in Int /\ f[y] \in Int /\ g[(s \ {y}) \ {c}] \in Int
    <3>1. c \in S /\ y \in S /\ (s \ {y}) \ {c} \in SUBSET S  BY <2>4, <2>5
    <3> QED BY <3>1, <1>1 DEF Summands, IsSum
  <2> DEFINE r == g[(s \ {y}) \ {c}]
  <2>12. g[s \ {c}] = f[y] + r /\ g[s \ {y}] = f[c] + r /\ r \in Int
    BY <2>9, <2>10, <2>11
  <2> HIDE DEF r
  <2>13. f[y] + (f[c] + r) = f[c] + (f[y] + r)
    BY <2>11, <2>12
  <2> QED BY <2>4, <2>5, <2>12, <2>13, Zenon
<1>3. Holds(S)
  BY <1>2
<1>4. g[S] = f[x] + g[S \ {x}]
  BY <1>3
<1>5. SumFunctionOnSet(f, S) = g[S] /\ SumFunctionOnSet(f, S \ {x}) = g[S \ {x}]
  <2>1. S \in SUBSET S /\ S \ {x} \in SUBSET S  OBVIOUS
  <2> QED BY <2>1, <1>1, SumOfSubset
<1> QED BY <1>4, <1>5

(* Sums of matched elements compare as the elements do.                    *)
LEMMA SumMatched ==
  ASSUME NEW S, IsFiniteSet(S), NEW f, Summands(f, S),
         NEW T, IsFiniteSet(T), NEW w, Summands(w, T),
         NEW m \in [S -> T], \A x \in S : f[x] <= w[m[x]],
         \A x, y \in S : m[x] = m[y] => x = y
  PROVE  SumFunctionOnSet(f, S) <= SumFunctionOnSet(w, {m[x] : x \in S})
<1> DEFINE Im(s) == {m[x] : x \in s}
           Holds(s) == SumFunctionOnSet(f, s) <= SumFunctionOnSet(w, Im(s))
           Bad == {Cardinality(s) : s \in {t \in SUBSET S : ~Holds(t)}}
<1>f. \A s \in SUBSET S : IsFiniteSet(s) /\ Cardinality(s) \in Nat /\ Summands(f, s)
  BY FS_Subset, FS_CardinalityType DEF Summands
<1>g. \A s \in SUBSET T : IsFiniteSet(s) /\ Summands(w, s)
  BY FS_Subset DEF Summands
<1>2. Bad = {}
  <2> SUFFICES ASSUME Bad # {} PROVE FALSE
    OBVIOUS
  <2>1. PICK n \in Bad : \A k \in Bad : n <= k
    <3>1. Bad \subseteq Nat  BY <1>f
    <3> HIDE DEF Bad
    <3> QED BY <3>1, LeastNatural
  <2>2. PICK s \in SUBSET S : ~Holds(s) /\ n = Cardinality(s)
    OBVIOUS
  <2>3. s # {}
    <3> SUFFICES ASSUME s = {} PROVE FALSE
      OBVIOUS
    <3>1. Im(s) = {}  OBVIOUS
    <3> QED BY <3>1, <2>2, SumEmpty
  <2>4. PICK y \in s : TRUE  BY <2>3
  <2> DEFINE t == s \ {y}
  <2>5. t \in SUBSET S /\ y \in S  OBVIOUS
  <2>6. Holds(t)
    <3>1. Cardinality(t) = Cardinality(s) - 1 /\ Cardinality(s) \in Nat
      BY <2>4, <1>f, FS_RemoveElement
    <3>2. CASE Cardinality(t) \in Bad
      <4>1. n <= Cardinality(t)  BY <3>2, <2>1
      <4> HIDE DEF t, Bad
      <4> QED BY <4>1, <3>1, <2>2
    <3>3. CASE Cardinality(t) \notin Bad
      <4> HIDE DEF t, Holds
      <4> QED BY <3>3, <2>5
    <3> QED BY <3>2, <3>3
  <2>7. Im(s) \in SUBSET T /\ Im(t) = Im(s) \ {m[y]} /\ m[y] \in Im(s)
    OBVIOUS
  <2>8. SumFunctionOnSet(f, s) = f[y] + SumFunctionOnSet(f, t)
    BY <1>f, SumRemove
  <2>9. SumFunctionOnSet(w, Im(s)) = w[m[y]] + SumFunctionOnSet(w, Im(t))
    <3> HIDE DEF Im
    <3>1. IsFiniteSet(Im(s)) /\ Summands(w, Im(s))  BY <2>7, <1>g
    <3>2. SumFunctionOnSet(w, Im(s)) = w[m[y]] + SumFunctionOnSet(w, Im(s) \ {m[y]})
      BY <3>1, <2>7, SumRemove
    <3> QED BY <3>2, <2>7
  <2>10. f[y] \in Int /\ w[m[y]] \in Int /\ f[y] <= w[m[y]]
    BY <2>5 DEF Summands
  <2>11. SumFunctionOnSet(f, t) \in Int
    <3> HIDE DEF t
    <3> QED BY <2>5, <1>f, SumType
  <2>12. SumFunctionOnSet(w, Im(t)) \in Int
    <3>1. Im(t) \in SUBSET T  OBVIOUS
    <3> HIDE DEF Im
    <3> QED BY <3>1, <1>g, SumType
  <2> HIDE DEF t, Im
  <2> QED BY <2>2, <2>6, <2>8, <2>9, <2>10, <2>11, <2>12
<1>3. Holds(S)
  BY <1>2
<1> QED BY <1>3

(* A sum grows with its summands.                                          *)
LEMMA SumGrows ==
  ASSUME NEW S, IsFiniteSet(S), NEW f, Summands(f, S), NEW w, Summands(w, S),
         \A x \in S : f[x] <= w[x]
  PROVE  SumFunctionOnSet(f, S) <= SumFunctionOnSet(w, S)
<1> DEFINE m == [x \in S |-> x]
<1>1. /\ m \in [S -> S] /\ \A x \in S : f[x] <= w[m[x]]
      /\ \A x, y \in S : m[x] = m[y] => x = y
      /\ {m[x] : x \in S} = S
  OBVIOUS
<1> HIDE DEF m
<1>2. SumFunctionOnSet(f, S) <= SumFunctionOnSet(w, {m[x] : x \in S})
  BY <1>1, SumMatched
<1> QED BY <1>1, <1>2

(* A sum depends on its summands only.                                     *)
LEMMA SumSame ==
  ASSUME NEW S, IsFiniteSet(S), NEW f, Summands(f, S), NEW w,
         \A x \in S : f[x] = w[x]
  PROVE  SumFunctionOnSet(f, S) = SumFunctionOnSet(w, S)
<1>1. Summands(w, S) /\ \A x \in S : f[x] <= w[x] /\ w[x] <= f[x]
  BY DEF Summands
<1>2. /\ SumFunctionOnSet(f, S) <= SumFunctionOnSet(w, S)
      /\ SumFunctionOnSet(w, S) <= SumFunctionOnSet(f, S)
  BY <1>1, SumGrows
<1>3. SumFunctionOnSet(f, S) \in Int /\ SumFunctionOnSet(w, S) \in Int
  BY <1>1, SumType
<1> QED BY <1>2, <1>3

(* As many elements, each at least as large as all the others.             *)
LEMMA SumExchanged ==
  ASSUME NEW A, IsFiniteSet(A), NEW B, IsFiniteSet(B), Cardinality(A) = Cardinality(B),
         NEW f, Summands(f, A), NEW w, Summands(w, B),
         \A a \in A, b \in B : f[a] <= w[b]
  PROVE  SumFunctionOnSet(f, A) <= SumFunctionOnSet(w, B)
<1>1. PICK m : m \in Bijection(A, B)
  BY FS_SameCardinalityBij DEF ExistsBijection
<1>2. /\ m \in [A -> B] /\ \A x, y \in A : m[x] = m[y] => x = y
      /\ \A b \in B : \E a \in A : m[a] = b
  BY <1>1 DEF Bijection, Injection, Surjection, IsInjective
<1>3. \A x \in A : f[x] <= w[m[x]]
  BY <1>2
<1>4. {m[x] : x \in A} = B
  BY <1>2
<1>5. SumFunctionOnSet(f, A) <= SumFunctionOnSet(w, {m[x] : x \in A})
  BY <1>2, <1>3, SumMatched
<1> QED BY <1>4, <1>5

(* The sum over two sets without a common element.                         *)
LEMMA SumOfUnion ==
  ASSUME NEW A, IsFiniteSet(A), NEW B, IsFiniteSet(B), A \cap B = {},
         NEW f, Summands(f, A \cup B)
  PROVE  SumFunctionOnSet(f, A \cup B) = SumFunctionOnSet(f, A) + SumFunctionOnSet(f, B)
<1> DEFINE Holds(s) == SumFunctionOnSet(f, A \cup s)
                         = SumFunctionOnSet(f, A) + SumFunctionOnSet(f, s)
           Bad == {Cardinality(s) : s \in {t \in SUBSET B : ~Holds(t)}}
<1>f. \A s \in SUBSET B : IsFiniteSet(s) /\ Cardinality(s) \in Nat
  BY FS_Subset, FS_CardinalityType
<1>g. \A s \in SUBSET (A \cup B) : IsFiniteSet(s) /\ Summands(f, s)
  BY FS_Union, FS_Subset DEF Summands
<1>t. \A s \in SUBSET (A \cup B) : SumFunctionOnSet(f, s) \in Int
  BY <1>g, SumType
<1>2. Bad = {}
  <2> SUFFICES ASSUME Bad # {} PROVE FALSE
    OBVIOUS
  <2>1. PICK n \in Bad : \A k \in Bad : n <= k
    <3>1. Bad \subseteq Nat  BY <1>f
    <3> HIDE DEF Bad
    <3> QED BY <3>1, LeastNatural
  <2>2. PICK s \in SUBSET B : ~Holds(s) /\ n = Cardinality(s)
    OBVIOUS
  <2>a. SumFunctionOnSet(f, A) \in Int
    <3>1. A \in SUBSET (A \cup B)  OBVIOUS
    <3> QED BY <3>1, <1>t
  <2>3. s # {}
    <3> SUFFICES ASSUME s = {} PROVE FALSE
      OBVIOUS
    <3>1. A \cup s = A  OBVIOUS
    <3>2. SumFunctionOnSet(f, s) = 0  BY SumEmpty
    <3> QED BY <3>1, <3>2, <2>2, <2>a
  <2>4. PICK y \in s : TRUE  BY <2>3
  <2> DEFINE t == s \ {y}
  <2>5. /\ t \in SUBSET B /\ y \in B /\ y \in A \cup s /\ (A \cup s) \ {y} = A \cup t
        /\ A \cup s \in SUBSET (A \cup B) /\ A \cup t \in SUBSET (A \cup B)
        /\ s \in SUBSET (A \cup B) /\ t \in SUBSET (A \cup B)
    OBVIOUS
  <2>6. Holds(t)
    <3>1. Cardinality(t) = Cardinality(s) - 1 /\ Cardinality(s) \in Nat
      BY <2>4, <1>f, FS_RemoveElement
    <3>2. CASE Cardinality(t) \in Bad
      <4>1. n <= Cardinality(t)  BY <3>2, <2>1
      <4> HIDE DEF t, Bad
      <4> QED BY <4>1, <3>1, <2>2
    <3>3. CASE Cardinality(t) \notin Bad
      <4> HIDE DEF t, Holds
      <4> QED BY <3>3, <2>5
    <3> QED BY <3>2, <3>3
  <2>7. SumFunctionOnSet(f, A \cup s) = f[y] + SumFunctionOnSet(f, A \cup t)
    <3>1. SumFunctionOnSet(f, A \cup s) = f[y] + SumFunctionOnSet(f, (A \cup s) \ {y})
      BY <2>5, <1>g, SumRemove
    <3> HIDE DEF t
    <3> QED BY <3>1, <2>5
  <2>8. SumFunctionOnSet(f, s) = f[y] + SumFunctionOnSet(f, t)
    BY <2>5, <1>g, SumRemove
  <2>9. f[y] \in Int
    BY <2>5 DEF Summands
  <2>10. SumFunctionOnSet(f, t) \in Int /\ SumFunctionOnSet(f, A \cup t) \in Int
    <3> HIDE DEF t
    <3> QED BY <2>5, <1>t
  <2> HIDE DEF t
  <2> QED BY <2>2, <2>6, <2>7, <2>8, <2>9, <2>10, <2>a
<1>3. Holds(B)
  BY <1>2
<1> QED BY <1>3

(* Of the subsets with as many elements, one whose elements are worth at   *)
(* least as much as all the others has the largest sum.                    *)
LEMMA SumOfLargest ==
  ASSUME NEW I, IsFiniteSet(I), NEW f, Summands(f, I),
         NEW C \in SUBSET I, \A c \in C, i \in I \ C : f[i] <= f[c],
         NEW F \in SUBSET I, Cardinality(F) = Cardinality(C)
  PROVE  SumFunctionOnSet(f, F) <= SumFunctionOnSet(f, C)
<1> DEFINE M == F \cap C
           A == F \ C
           B == C \ F
<1>1. /\ F = M \cup A /\ C = M \cup B /\ M \cap A = {} /\ M \cap B = {}
      /\ M \in SUBSET I /\ A \in SUBSET I /\ B \in SUBSET I
      /\ A \subseteq I \ C /\ B \subseteq C
  OBVIOUS
<1> HIDE DEF M, A, B
<1>2. \A s \in SUBSET I : IsFiniteSet(s) /\ Cardinality(s) \in Nat /\ Summands(f, s)
  BY FS_Subset, FS_CardinalityType DEF Summands
<1>3. /\ IsFiniteSet(M) /\ IsFiniteSet(A) /\ IsFiniteSet(B)
      /\ Summands(f, M) /\ Summands(f, A) /\ Summands(f, B)
      /\ Summands(f, M \cup A) /\ Summands(f, M \cup B)
  <2>1. F \in SUBSET I /\ C \in SUBSET I  OBVIOUS
  <2> QED BY <1>1, <1>2, <2>1
<1>4. Cardinality(A) = Cardinality(B)
  <2>1. Cardinality(F) = Cardinality(M) + Cardinality(A)
    <3>1. /\ Cardinality(M \cup A) = Cardinality(M) + Cardinality(A) - Cardinality(M \cap A)
      BY <1>3, FS_Union
    <3>2. Cardinality(M \cap A) = 0  BY <1>1, FS_EmptySet
    <3>3. Cardinality(M) \in Nat /\ Cardinality(A) \in Nat  BY <1>1, <1>2
    <3> QED BY <1>1, <3>1, <3>2, <3>3
  <2>2. Cardinality(C) = Cardinality(M) + Cardinality(B)
    <3>1. /\ Cardinality(M \cup B) = Cardinality(M) + Cardinality(B) - Cardinality(M \cap B)
      BY <1>3, FS_Union
    <3>2. Cardinality(M \cap B) = 0  BY <1>1, FS_EmptySet
    <3>3. Cardinality(M) \in Nat /\ Cardinality(B) \in Nat  BY <1>1, <1>2
    <3> QED BY <1>1, <3>1, <3>2, <3>3
  <2>3. Cardinality(M) \in Nat /\ Cardinality(A) \in Nat /\ Cardinality(B) \in Nat
    BY <1>1, <1>2
  <2>4. Cardinality(M) + Cardinality(A) = Cardinality(M) + Cardinality(B)
    <3>1. Cardinality(F) = Cardinality(C)  OBVIOUS
    <3> QED BY <3>1, <2>1, <2>2, Zenon
  <2> QED BY <2>3, <2>4
<1>5. \A a \in A, b \in B : f[a] <= f[b]
  BY <1>1
<1>6. SumFunctionOnSet(f, A) <= SumFunctionOnSet(f, B)
  BY <1>3, <1>4, <1>5, SumExchanged
<1>7. /\ SumFunctionOnSet(f, M \cup A) = SumFunctionOnSet(f, M) + SumFunctionOnSet(f, A)
      /\ SumFunctionOnSet(f, M \cup B) = SumFunctionOnSet(f, M) + SumFunctionOnSet(f, B)
  BY <1>1, <1>3, SumOfUnion
<1>8. /\ SumFunctionOnSet(f, M) \in Int /\ SumFunctionOnSet(f, A) \in Int
      /\ SumFunctionOnSet(f, B) \in Int
  BY <1>3, SumType
<1> QED BY <1>1, <1>6, <1>7, <1>8

(* Of the subsets with as many elements of a set that falling values are   *)
(* given to, the one with the first elements has the largest sum.          *)
LEMMA SumOfFirst ==
  ASSUME NEW I \in SUBSET Int, IsFiniteSet(I), NEW f, Summands(f, I),
         \A i, j \in I : i < j => f[j] <= f[i],
         NEW C \in SUBSET I, \A c \in C, i \in I : i < c => i \in C,
         NEW F \in SUBSET I, Cardinality(F) = Cardinality(C)
  PROVE  SumFunctionOnSet(f, F) <= SumFunctionOnSet(f, C)
<1>1. \A c \in C, i \in I \ C : f[i] <= f[c]
  <2> SUFFICES ASSUME NEW c \in C, NEW i \in I \ C PROVE f[i] <= f[c]
    OBVIOUS
  <2>1. i # c /\ ~(i < c) /\ i \in Int /\ c \in Int  OBVIOUS
  <2>2. c < i  BY <2>1
  <2> QED BY <2>2
<1> QED BY <1>1, SumOfLargest

-----------------------------------------------------------------------------
(* Orders.                                                                   *)

(* A finite set of integers that is not empty has a largest element.       *)
LEMMA MaxProperties ==
  ASSUME NEW S \in SUBSET Int, IsFiniteSet(S), S # {}
  PROVE  Max(S) \in S /\ \A y \in S : y <= Max(S)
<1> DEFINE Holds(s) == s # {} => \E x \in s : \A y \in s : x >= y
           Bad == {Cardinality(s) : s \in {t \in SUBSET S : ~Holds(t)}}
<1>f. \A s \in SUBSET S : IsFiniteSet(s) /\ Cardinality(s) \in Nat
  BY FS_Subset, FS_CardinalityType
<1>2. Bad = {}
  <2> SUFFICES ASSUME Bad # {} PROVE FALSE
    OBVIOUS
  <2>1. PICK n \in Bad : \A k \in Bad : n <= k
    <3>1. Bad \subseteq Nat  BY <1>f
    <3> HIDE DEF Bad
    <3> QED BY <3>1, LeastNatural
  <2>2. PICK s \in SUBSET S : ~Holds(s) /\ n = Cardinality(s)
    OBVIOUS
  <2>4. PICK y \in s : TRUE  BY <2>2
  <2> DEFINE t == s \ {y}
  <2>5. t \in SUBSET S  OBVIOUS
  <2>6. Holds(t)
    <3>1. Cardinality(t) = Cardinality(s) - 1 /\ Cardinality(s) \in Nat
      BY <2>4, <1>f, FS_RemoveElement
    <3>2. CASE Cardinality(t) \in Bad
      <4>1. n <= Cardinality(t)  BY <3>2, <2>1
      <4> HIDE DEF t, Bad
      <4> QED BY <4>1, <3>1, <2>2
    <3>3. CASE Cardinality(t) \notin Bad
      <4> HIDE DEF t, Holds
      <4> QED BY <3>3, <2>5
    <3> QED BY <3>2, <3>3
  <2> HIDE DEF Bad
  <2>7. Holds(s)
    <3>1. CASE t = {}
      <4>1. \A z \in s : z = y  BY <3>1
      <4> QED BY <4>1
    <3>2. CASE t # {}
      <4>1. PICK x \in t : \A z \in t : x >= z  BY <3>2, <2>6
      <4>2. x \in s /\ x \in Int /\ y \in Int /\ \A z \in s : z \in Int /\ (z = y \/ z \in t)
        OBVIOUS
      <4>3. CASE x >= y
        BY <4>1, <4>2, <4>3
      <4>4. CASE ~(x >= y)
        <5>1. \A z \in s : y >= z  BY <4>1, <4>2, <4>4
        <5> QED BY <5>1
      <4> QED BY <4>3, <4>4
    <3> QED BY <3>1, <3>2
  <2> QED BY <2>2, <2>7
<1>3. Holds(S)
  BY <1>2
<1>4. PICK x \in S : \A y \in S : x >= y
  BY <1>3
<1>5. Max(S) \in S /\ \A y \in S : Max(S) >= y
  BY <1>4 DEF Max
<1> QED BY <1>5

\* L is a strict total order of S.
Orders(L, S) ==
  /\ \A x \in S : <<x, x>> \notin L
  /\ \A x, y, z \in S : <<x, y>> \in L /\ <<y, z>> \in L => <<x, z>> \in L
  /\ \A x, y \in S : <<x, y>> \in L \/ <<y, x>> \in L \/ x = y

\* How many elements of S are before x.
RankIn(L, S, x) == Cardinality({y \in S : <<y, x>> \in L})

(* The ranks of a finite set's elements are 0, 1, 2 and so on, in order.   *)
LEMMA Ranks ==
  ASSUME NEW S, IsFiniteSet(S), NEW L, Orders(L, S)
  PROVE  /\ Cardinality(S) \in Nat
         /\ \A x \in S : RankIn(L, S, x) \in 0..Cardinality(S) - 1
         /\ \A x, y \in S : RankIn(L, S, x) < RankIn(L, S, y) <=> <<x, y>> \in L
         /\ \A x, y \in S : RankIn(L, S, x) = RankIn(L, S, y) => x = y
         /\ \A i \in 0..Cardinality(S) - 1 : \E x \in S : RankIn(L, S, x) = i
<1> DEFINE Below(x) == {y \in S : <<y, x>> \in L}
           n == Cardinality(S)
<1>n. n \in Nat
  BY FS_CardinalityType
<1>0. \A x \in S : /\ IsFiniteSet(Below(x)) /\ Below(x) \in SUBSET S
                   /\ RankIn(L, S, x) = Cardinality(Below(x))
                   /\ RankIn(L, S, x) \in Nat
  <2> SUFFICES ASSUME NEW x \in S
               PROVE  /\ IsFiniteSet(Below(x)) /\ Below(x) \in SUBSET S
                      /\ RankIn(L, S, x) = Cardinality(Below(x))
                      /\ RankIn(L, S, x) \in Nat
    OBVIOUS
  <2>1. Below(x) \in SUBSET S /\ RankIn(L, S, x) = Cardinality(Below(x))  BY DEF RankIn
  <2> HIDE DEF Below
  <2>2. IsFiniteSet(Below(x))  BY <2>1, FS_Subset
  <2> QED BY <2>1, <2>2, FS_CardinalityType
<1>1. ASSUME NEW x \in S, NEW y \in S, <<x, y>> \in L
      PROVE  RankIn(L, S, x) < RankIn(L, S, y)
  <2>1. Below(x) \in SUBSET Below(y) /\ x \in Below(y) /\ x \notin Below(x)
    BY <1>1 DEF Orders
  <2> HIDE DEF Below
  <2>2. /\ Cardinality(Below(x)) <= Cardinality(Below(y))
        /\ Cardinality(Below(y)) = Cardinality(Below(x)) => Below(y) = Below(x)
    BY <2>1, <1>0, FS_Subset
  <2>3. Cardinality(Below(x)) # Cardinality(Below(y))
    BY <2>1, <2>2
  <2> QED BY <2>2, <2>3, <1>0
<1>2. ASSUME NEW x \in S PROVE RankIn(L, S, x) \in 0..n - 1
  <2>1. x \notin Below(x)  BY DEF Orders
  <2> HIDE DEF Below
  <2>2. /\ Cardinality(Below(x)) <= n
        /\ n = Cardinality(Below(x)) => S = Below(x)
    BY <1>0, FS_Subset
  <2>3. Cardinality(Below(x)) # n  BY <2>1, <2>2
  <2>4. RankIn(L, S, x) \in Nat /\ RankIn(L, S, x) <= n /\ RankIn(L, S, x) # n
    BY <2>2, <2>3, <1>0
  <2> HIDE DEF n
  <2> QED BY <2>4, <1>n
<1>3. ASSUME NEW x \in S, NEW y \in S PROVE RankIn(L, S, x) = RankIn(L, S, y) => x = y
  <2>1. <<x, y>> \in L \/ <<y, x>> \in L \/ x = y  BY DEF Orders
  <2>2. RankIn(L, S, x) \in Nat /\ RankIn(L, S, y) \in Nat  BY <1>0
  <2>3. /\ <<x, y>> \in L => RankIn(L, S, x) < RankIn(L, S, y)
        /\ <<y, x>> \in L => RankIn(L, S, y) < RankIn(L, S, x)
    BY <1>1
  <2> QED BY <2>1, <2>2, <2>3
<1>4. ASSUME NEW x \in S, NEW y \in S, RankIn(L, S, x) < RankIn(L, S, y) PROVE <<x, y>> \in L
  <2>1. <<x, y>> \in L \/ <<y, x>> \in L \/ x = y  BY DEF Orders
  <2>2. RankIn(L, S, x) \in Nat /\ RankIn(L, S, y) \in Nat  BY <1>0
  <2>3. <<y, x>> \in L => RankIn(L, S, y) < RankIn(L, S, x)
    BY <1>1
  <2> QED BY <2>1, <2>2, <2>3, <1>4
<1> DEFINE r == [x \in S |-> RankIn(L, S, x)]
           R == {r[x] : x \in S}
<1>5. n <= Cardinality(R) /\ R \in SUBSET (0..n - 1)
  <2>1. r \in [S -> R] /\ \A x, y \in S : r[x] = r[y] => x = y
    BY <1>3
  <2>2. R \in SUBSET (0..n - 1)  BY <1>2
  <2> HIDE DEF r, R, n
  <2>3. r \in Injection(S, R)  BY <2>1, Fun_IsInj
  <2>4. IsFiniteSet(0..n - 1)  BY <1>n, FS_Interval
  <2>5. IsFiniteSet(R)  BY <2>2, <2>4, FS_Subset
  <2>6. Cardinality(S) <= Cardinality(R)  BY <2>3, <2>5, FS_Injection
  <2> QED BY <2>2, <2>6 DEF n
<1>6. R = 0..n - 1
  <2> HIDE DEF r, R, n
  <2>1. IsFiniteSet(0..n - 1) /\ Cardinality(0..n - 1) = IF 0 > n - 1 THEN 0 ELSE (n - 1) - 0 + 1
    BY <1>n, FS_Interval
  <2>2. Cardinality(0..n - 1) = n  BY <2>1, <1>n
  <2>3. /\ Cardinality(R) <= Cardinality(0..n - 1)
        /\ Cardinality(0..n - 1) = Cardinality(R) => 0..n - 1 = R
    BY <1>5, <2>1, FS_Subset
  <2>4. Cardinality(R) \in Nat
    <3>1. IsFiniteSet(R)  BY <1>5, <2>1, FS_Subset
    <3> QED BY <3>1, FS_CardinalityType
  <2>5. Cardinality(R) = n  BY <2>2, <2>3, <2>4, <1>5, <1>n
  <2> QED BY <2>2, <2>3, <2>5
<1>7. \A i \in 0..n - 1 : \E x \in S : RankIn(L, S, x) = i
  <2>1. \A i \in R : \E x \in S : RankIn(L, S, x) = i  OBVIOUS
  <2> HIDE DEF R, n
  <2> QED BY <2>1, <1>6
<1> QED BY <1>n, <1>1, <1>2, <1>3, <1>4, <1>7

\* o gives the element of every rank, counted from one.
GivesRanks(L, S, o) ==
  /\ o \in [1..Cardinality(S) -> S]
  /\ \A i \in 1..Cardinality(S) : RankIn(L, S, o[i]) = i - 1

\* s lists the elements of S in the order L.
Lists(L, S, s) ==
  /\ s \in Seq(S) /\ Len(s) = Cardinality(S) /\ Len(s) \in Nat
  /\ \A i, j \in 1..Len(s) : i < j <=> <<s[i], s[j]>> \in L
  /\ \A i, j \in 1..Len(s) : s[i] = s[j] => i = j
  /\ \A x \in S : \E i \in 1..Len(s) : s[i] = x

(* The sequence of the elements by their ranks.                            *)
LEMMA SortedByRank ==
  ASSUME NEW S, IsFiniteSet(S), NEW L, Orders(L, S),
         NEW o, GivesRanks(L, S, o)
  PROVE  Lists(L, S, SubSeq(o, 1, Cardinality(S)))
<1> DEFINE n == Cardinality(S)
<1>o. o \in [1..n -> S] /\ \A i \in 1..n : RankIn(L, S, o[i]) = i - 1
  BY DEF GivesRanks
<1>n. n \in Nat
  BY FS_CardinalityType
<1>r. /\ \A x \in S : RankIn(L, S, x) \in 0..n - 1
      /\ \A x, y \in S : RankIn(L, S, x) < RankIn(L, S, y) <=> <<x, y>> \in L
      /\ \A x, y \in S : RankIn(L, S, x) = RankIn(L, S, y) => x = y
  BY Ranks
<1>1. o \in Seq(S) /\ Len(o) = n /\ SubSeq(o, 1, n) = o
  <2>1. o \in Seq(S)  BY <1>n, <1>o, SeqDef
  <2>2. Len(o) = n
    <3>1. Len(o) \in Nat /\ DOMAIN o = 1..Len(o) /\ DOMAIN o = 1..n
      BY <1>o, <2>1, LenProperties
    <3> QED BY <3>1, <1>n
  <2> QED BY <2>1, <2>2, SubSeqFull
<1>3. \A i \in 1..n : o[i] \in S /\ RankIn(L, S, o[i]) = i - 1
  BY <1>o
<1>4. ASSUME NEW i \in 1..n, NEW j \in 1..n
      PROVE  /\ i < j <=> <<o[i], o[j]>> \in L
             /\ o[i] = o[j] => i = j
  <2> DEFINE a == RankIn(L, S, o[i])
             b == RankIn(L, S, o[j])
  <2>1. i \in Nat /\ j \in Nat /\ a = i - 1 /\ b = j - 1 /\ (o[i] = o[j] => a = b)
    BY <1>n, <1>3
  <2>2. a < b <=> <<o[i], o[j]>> \in L
    BY <1>3, <1>r
  <2> HIDE DEF a, b
  <2>3. (a < b <=> i < j) /\ (a = b => i = j)
    BY <2>1
  <2> QED BY <2>1, <2>2, <2>3
<1>5. ASSUME NEW x \in S PROVE \E i \in 1..n : o[i] = x
  <2> DEFINE i == RankIn(L, S, x) + 1
  <2>1. RankIn(L, S, x) \in 0..n - 1  BY <1>r
  <2>2. i \in 1..n /\ RankIn(L, S, x) = i - 1  BY <2>1, <1>n
  <2> HIDE DEF i
  <2>3. RankIn(L, S, o[i]) = RankIn(L, S, x) /\ o[i] \in S
    BY <2>2, <1>3
  <2> QED BY <2>2, <2>3, <1>r
<1>6. Lists(L, S, o)
  BY <1>n, <1>1, <1>4, <1>5 DEF Lists
<1> QED BY <1>1, <1>6, Zenon

(* The elements of the first n ranks are n, if there are so many.          *)
LEMMA FirstRanks ==
  ASSUME NEW S, IsFiniteSet(S), NEW L, Orders(L, S),
         NEW n \in Nat, n <= Cardinality(S)
  PROVE  Cardinality({x \in S : RankIn(L, S, x) < n}) = n
<1> DEFINE T == {x \in S : RankIn(L, S, x) < n}
           r == [x \in T |-> RankIn(L, S, x)]
<1>1. /\ Cardinality(S) \in Nat
      /\ \A x \in S : RankIn(L, S, x) \in 0..Cardinality(S) - 1
      /\ \A x, y \in S : RankIn(L, S, x) = RankIn(L, S, y) => x = y
      /\ \A i \in 0..Cardinality(S) - 1 : \E x \in S : RankIn(L, S, x) = i
  BY Ranks
<1>2. \A x \in T : r[x] \in 0..n - 1
  <2>1. \A x \in T : x \in S /\ r[x] = RankIn(L, S, x) /\ RankIn(L, S, x) < n
    OBVIOUS
  <2> HIDE DEF T, r
  <2> SUFFICES ASSUME NEW x \in T PROVE r[x] \in 0..n - 1
    OBVIOUS
  <2>2. r[x] \in 0..Cardinality(S) - 1 /\ r[x] < n
    BY <2>1, <1>1
  <2> QED BY <2>2, <1>1
<1>3. \A i \in 0..n - 1 : \E x \in T : r[x] = i
  <2> SUFFICES ASSUME NEW i \in 0..n - 1 PROVE \E x \in T : r[x] = i
    OBVIOUS
  <2>1. i \in 0..Cardinality(S) - 1 /\ i < n  BY <1>1
  <2>2. PICK x \in S : RankIn(L, S, x) = i  BY <2>1, <1>1
  <2>3. x \in T  BY <2>1, <2>2
  <2> QED BY <2>2, <2>3
<1>4. r \in [T -> 0..n - 1] /\ \A x, y \in T : r[x] = r[y] => x = y
  <2>1. \A x, y \in T : r[x] = r[y] => x = y  BY <1>1
  <2>2. r = [x \in T |-> r[x]]  OBVIOUS
  <2> HIDE DEF r, T
  <2> QED BY <2>1, <2>2, <1>2
<1>5. IsFiniteSet(T)
  <2>1. T \in SUBSET S  OBVIOUS
  <2> HIDE DEF T
  <2> QED BY <2>1, FS_Subset
<1> HIDE DEF T, r
<1>6. r \in Bijection(T, 0..n - 1)
  BY <1>3, <1>4, Fun_IsBij
<1>7. Cardinality(T) = Cardinality(0..n - 1)
  BY <1>5, <1>6, FS_Bijection DEF ExistsBijection
<1>8. Cardinality(0..n - 1) = n
  <2>1. Cardinality(0..n - 1) = IF 0 > n - 1 THEN 0 ELSE (n - 1) - 0 + 1
    BY FS_Interval
  <2> QED BY <2>1
<1> QED BY <1>7, <1>8 DEF T

-----------------------------------------------------------------------------
(* Lists of digits.                                                          *)

CodeIn(B, list) == FoldLeft(LAMBDA code, x : code * B + x, 0, list)

\* c gives the codes of the first digits.
IsCode(B, list, c) ==
  /\ c \in [0..Len(list) -> Nat]
  /\ c[0] = 0
  /\ \A i \in 1..Len(list) : c[i] = c[i - 1] * B + list[i]

(* The code of a list is made digit by digit.                              *)
LEMMA CodeDefined ==
  ASSUME NEW B \in Nat, NEW list \in Seq(Nat)
  PROVE  \E c : IsCode(B, list, c) /\ CodeIn(B, list) = c[Len(list)]
<1> DEFINE n == Len(list)
           D == 1..n
           ch == [s \in SUBSET D |-> Max(s)]
           h == [p \in D \X Nat |-> p[2] * B + list[p[1]]]
<1>0. n \in Nat /\ DOMAIN list = D /\ \A i \in D : list[i] \in Nat
  BY LenProperties, ElementOfSeq
<1>f. IsFiniteSet(D) /\ \A s \in SUBSET D : IsFiniteSet(s)
  <2>1. IsFiniteSet(D)  BY <1>0, FS_Interval
  <2> HIDE DEF D
  <2> QED BY <2>1, FS_Subset
<1>1. \A s \in SUBSET D : s # {} => ch[s] \in s
  <2> SUFFICES ASSUME NEW s \in SUBSET D, s # {} PROVE Max(s) \in s
    OBVIOUS
  <2>1. s \in SUBSET Int  BY <1>0
  <2> QED BY <2>1, <1>f, MaxProperties
<1>2. \A x \in D, v \in Nat : h[<<x, v>>] = v * B + list[x] /\ h[<<x, v>>] \in Nat
  <2> SUFFICES ASSUME NEW x \in D, NEW v \in Nat
               PROVE  h[<<x, v>>] = v * B + list[x] /\ h[<<x, v>>] \in Nat
    OBVIOUS
  <2>1. h[<<x, v>>] = v * B + list[x]
    <3> HIDE DEF D
    <3> QED OBVIOUS
  <2>2. v * B \in Nat /\ list[x] \in Nat  BY <1>0
  <2> HIDE DEF h
  <2> QED BY <2>1, <2>2
<1>c. \A s \in SUBSET D : ch[s] = Max(s)
  OBVIOUS
<1> HIDE DEF ch, h, D
<1>3. PICK g \in [SUBSET D -> Nat] : Recurses(D, 0, ch, h, g)
  <2>1. Picks(D, ch) /\ Combines(D, Nat, h)  BY <1>1, <1>2 DEF Picks, Combines
  <2>2. 0 \in Nat  OBVIOUS
  <2> QED BY <2>1, <2>2, <1>f, SetRecursion
<1>4. ASSUME NEW s \in SUBSET D
      PROVE  g[s] = IF s = {} THEN 0 ELSE g[s \ {ch[s]}] * B + list[ch[s]]
  <2>1. CASE s = {}  BY <2>1, <1>3 DEF Recurses
  <2>2. CASE s # {}
    <3>1. ch[s] \in D /\ s \ {ch[s]} \in SUBSET D /\ g[s \ {ch[s]}] \in Nat
      BY <2>2, <1>1, <1>3
    <3>2. g[s] = h[<<ch[s], g[s \ {ch[s]}]>>]  BY <2>2, <1>3 DEF Recurses
    <3> QED BY <2>2, <3>1, <3>2, <1>2
  <2> QED BY <2>1, <2>2
<1>5. \A s \in SUBSET D :
        g[s] = IF s = {} THEN 0 ELSE g[s \ {Max(s)}] * B + list[Max(s)]
  BY <1>4, <1>c, Zenon
<1>6. g = [s \in SUBSET D |->
             IF s = {} THEN 0 ELSE g[s \ {Max(s)}] * B + list[Max(s)]]
  <2>1. g = [s \in SUBSET D |-> g[s]]  BY <1>3
  <2> QED BY <2>1, <1>5, Zenon
<1>7. PICK k : k = [s \in SUBSET D |->
                      IF s = {} THEN 0 ELSE k[s \ {Max(s)}] * B + list[Max(s)]]
               /\ CodeIn(B, list) = k[D]
  BY <1>0, <1>6, Zenon DEF CodeIn, FoldLeft, MapThenFoldSet
<1>8. \A s \in SUBSET D :
        k[s] = IF s = {} THEN 0 ELSE k[s \ {Max(s)}] * B + list[Max(s)]
  BY <1>7, Zenon
<1> DEFINE W == Nat \cup {k[s] : s \in SUBSET D}
           l == [p \in D \X W |-> p[2] * B + list[p[1]]]
<1>9. \A x \in D, v \in W : l[<<x, v>>] = v * B + list[x]
  <2> HIDE DEF W
  <2> QED OBVIOUS
<1>w. \A s \in SUBSET D : g[s] \in W /\ k[s] \in W
  BY <1>3
<1> HIDE DEF l, W
<1>10. ASSUME NEW s \in SUBSET D
       PROVE  /\ g[s] = IF s = {} THEN 0 ELSE l[<<ch[s], g[s \ {ch[s]}]>>]
              /\ k[s] = IF s = {} THEN 0 ELSE l[<<ch[s], k[s \ {ch[s]}]>>]
  <2>1. CASE s = {}  BY <2>1, <1>4, <1>8
  <2>2. CASE s # {}
    <3>1. ch[s] \in D /\ s \ {ch[s]} \in SUBSET D
      BY <2>2, <1>1
    <3>2. g[s \ {ch[s]}] \in W /\ k[s \ {ch[s]}] \in W
      BY <3>1, <1>w
    <3>3. l[<<ch[s], g[s \ {ch[s]}]>>] = g[s \ {ch[s]}] * B + list[ch[s]]
      BY <3>1, <3>2, <1>9
    <3>4. l[<<ch[s], k[s \ {ch[s]}]>>] = k[s \ {ch[s]}] * B + list[ch[s]]
      BY <3>1, <3>2, <1>9
    <3>5. g[s] = g[s \ {ch[s]}] * B + list[ch[s]]
      BY <2>2, <1>4
    <3>6. k[s] = k[s \ {ch[s]}] * B + list[ch[s]]
      BY <2>2, <1>8, <1>c, Zenon
    <3> QED BY <2>2, <3>3, <3>4, <3>5, <3>6, Zenon
  <2> QED BY <2>1, <2>2
<1>11. \A s \in SUBSET D : g[s] = k[s]
  <2>1. Recurses(D, 0, ch, l, g) /\ Recurses(D, 0, ch, l, k) /\ Picks(D, ch)
    BY <1>10, <1>1 DEF Recurses, Picks
  <2> QED BY <2>1, <1>f, SetRecursionUnique
<1> DEFINE c == [i \in 0..n |-> g[1..i]]
<1>12. ASSUME NEW i \in 0..n PROVE 1..i \in SUBSET D /\ c[i] = g[1..i] /\ c[i] \in Nat
  <2>1. 1..i \in SUBSET D  BY <1>0 DEF D
  <2> HIDE DEF n
  <2> QED BY <2>1, <1>3
<1>13. c[0] = 0
  <2>1. 0 \in 0..n /\ 1..0 = {}  BY <1>0
  <2> HIDE DEF c
  <2>2. c[0] = g[{}]  BY <2>1, <1>12
  <2> QED BY <2>2, <1>5
<1>14. ASSUME NEW i \in 1..n PROVE c[i] = c[i - 1] * B + list[i]
  <2>1. /\ i \in 0..n /\ i - 1 \in 0..n /\ 1..i # {} /\ i \in 1..i
        /\ (1..i) \ {i} = 1..(i - 1) /\ 1..i \in SUBSET Int
    <3>1. n \in Nat  BY <1>0
    <3> HIDE DEF n
    <3>2. i \in Int /\ 1 <= i /\ i <= n  BY <3>1
    <3>3. i \in 0..n /\ i - 1 \in 0..n  BY <3>1, <3>2
    <3>4. i \in 1..i  BY <3>2
    <3>5. (1..i) \ {i} = 1..(i - 1)  BY <3>2
    <3>6. 1..i \in SUBSET Int  OBVIOUS
    <3> QED BY <3>3, <3>4, <3>5, <3>6
  <2>2. Max(1..i) = i
    <3>1. Max(1..i) \in 1..i /\ \A y \in 1..i : y <= Max(1..i)
      BY <2>1, <1>12, <1>f, MaxProperties
    <3> QED BY <2>1, <3>1
  <2>3. g[1..i] = g[(1..i) \ {Max(1..i)}] * B + list[Max(1..i)]
    BY <2>1, <1>12, <1>5
  <2>4. c[i] = g[1..i] /\ c[i - 1] = g[1..(i - 1)]
    BY <2>1, <1>12
  <2> HIDE DEF c
  <2> QED BY <2>1, <2>2, <2>3, <2>4, Zenon
<1>15. CodeIn(B, list) = c[n]
  <2>1. n \in 0..n /\ 1..n = D /\ D \in SUBSET D  BY <1>0 DEF D
  <2>2. c[n] = g[D]  BY <2>1, <1>12
  <2> HIDE DEF c
  <2> QED BY <2>1, <2>2, <1>7, <1>11
<1>16. c \in [0..n -> Nat]
  BY <1>12
<1> QED BY <1>13, <1>14, <1>15, <1>16 DEF IsCode

(* A larger digit makes a code no smaller.                                 *)
LEMMA CodeGrows ==
  ASSUME NEW B \in Nat, NEW a \in Seq(Nat), NEW b \in Seq(Nat), Len(a) = Len(b),
         \A i \in 1..Len(a) : a[i] <= b[i]
  PROVE  CodeIn(B, a) <= CodeIn(B, b)
<1> DEFINE n == Len(a)
<1>0. n \in Nat /\ Len(b) = n /\ \A i \in 1..n : a[i] \in Nat /\ b[i] \in Nat /\ a[i] <= b[i]
  BY LenProperties, ElementOfSeq
<1>1. PICK c : IsCode(B, a, c) /\ CodeIn(B, a) = c[n]
  BY CodeDefined
<1>2. PICK d : IsCode(B, b, d) /\ CodeIn(B, b) = d[n]
  BY <1>0, CodeDefined
<1> HIDE DEF n
<1>3. /\ c \in [0..n -> Nat] /\ c[0] = 0 /\ \A i \in 1..n : c[i] = c[i - 1] * B + a[i]
      /\ d \in [0..n -> Nat] /\ d[0] = 0 /\ \A i \in 1..n : d[i] = d[i - 1] * B + b[i]
  BY <1>0, <1>1, <1>2 DEF IsCode, n
<1> DEFINE Bad == {i \in 0..n : ~(c[i] <= d[i])}
<1>4. ASSUME Bad # {} PROVE FALSE
  <2>1. PICK i \in Bad : \A j \in Bad : i <= j
    <3>1. Bad \subseteq Nat  OBVIOUS
    <3> HIDE DEF Bad
    <3> QED BY <3>1, <1>4, LeastNatural
  <2>2. i \in 0..n /\ ~(c[i] <= d[i])  OBVIOUS
  <2>3. i # 0  BY <2>2, <1>3
  <2>4. i \in 1..n /\ i - 1 \in 0..n /\ i - 1 < i  BY <2>2, <2>3, <1>0
  <2>5. c[i - 1] <= d[i - 1]
    <3>1. i - 1 \notin Bad  BY <2>1, <2>4, <1>0
    <3> QED BY <3>1, <2>4
  <2> DEFINE x == c[i - 1]
             y == d[i - 1]
             p == a[i]
             q == b[i]
  <2>6. x \in Nat /\ y \in Nat /\ x <= y /\ p \in Nat /\ q \in Nat /\ p <= q
    BY <2>4, <2>5, <1>0, <1>3
  <2>7. c[i] = x * B + p /\ d[i] = y * B + q
    BY <2>4, <1>3
  <2> HIDE DEF x, y, p, q
  <2> DEFINE X == x * B
             Y == y * B
  <2>8. X <= Y /\ X \in Nat /\ Y \in Nat
    BY <2>6
  <2> HIDE DEF X, Y
  <2>a. X + p <= Y + q
    BY <2>6, <2>8
  <2>9. x * B + p <= y * B + q
    BY <2>a DEF X, Y
  <2> QED BY <2>2, <2>7, <2>9
<1>5. n \in 0..n  BY <1>0
<1>6. c[n] <= d[n]  BY <1>4, <1>5
<1> QED BY <1>1, <1>2, <1>6

(* A number has one last digit.                                            *)
LEMMA LastDigitLess ==
  ASSUME NEW B \in Nat, NEW p \in Nat, NEW q \in Nat, p < q,
         NEW x \in Nat, NEW y \in Nat, x < B
  PROVE  p * B + x < q * B + y
<1>1. PICK d \in Nat : q = (p + 1) + d
  <2>1. q - (p + 1) \in Nat /\ q = (p + 1) + (q - (p + 1))  OBVIOUS
  <2> QED BY <2>1
<1>2. q * B = (p * B + B) + d * B
  BY <1>1
<1> DEFINE X == p * B
           D == d * B
<1>3. X \in Nat /\ D \in Nat
  OBVIOUS
<1> HIDE DEF X, D
<1>4. X + x < ((X + B) + D) + y
  BY <1>3
<1> QED BY <1>2, <1>4 DEF X, D

(* Two numbers of equal value in a base have the same last digit and the   *)
(* same rest.                                                              *)
LEMMA LastDigit ==
  ASSUME NEW B \in Nat, NEW p \in Nat, NEW q \in Nat,
         NEW x \in Nat, NEW y \in Nat, x < B, y < B,
         p * B + x = q * B + y
  PROVE  p = q /\ x = y
<1> DEFINE X == p * B + x
           Y == q * B + y
<1>1. ~(p < q)
  <2> SUFFICES ASSUME p < q PROVE FALSE  OBVIOUS
  <2>1. X < Y  BY LastDigitLess
  <2>2. X = Y /\ X \in Int  OBVIOUS
  <2> HIDE DEF X, Y
  <2> QED BY <2>1, <2>2
<1>2. ~(q < p)
  <2> SUFFICES ASSUME q < p PROVE FALSE  OBVIOUS
  <2>1. Y < X  BY LastDigitLess
  <2>2. X = Y /\ X \in Int  OBVIOUS
  <2> HIDE DEF X, Y
  <2> QED BY <2>1, <2>2
<1>3. p = q
  BY <1>1, <1>2
<1> DEFINE Z == p * B
<1>4. Z + x = Z + y /\ Z \in Nat
  BY <1>3
<1> HIDE DEF Z
<1>5. x = y
  BY <1>4
<1> QED BY <1>3, <1>5

(* Lists of the same length with digits below the base have different      *)
(* codes unless they are equal.                                            *)
LEMMA CodeInjective ==
  ASSUME NEW B \in Nat, NEW a \in Seq(Nat), NEW b \in Seq(Nat), Len(a) = Len(b),
         \A i \in 1..Len(a) : a[i] < B /\ b[i] < B,
         CodeIn(B, a) = CodeIn(B, b)
  PROVE  a = b
<1> DEFINE n == Len(a)
<1>0. /\ n \in Nat /\ Len(b) = n
      /\ \A i \in 1..n : a[i] \in Nat /\ b[i] \in Nat /\ a[i] < B /\ b[i] < B
  BY LenProperties, ElementOfSeq
<1>1. PICK c : IsCode(B, a, c) /\ CodeIn(B, a) = c[n]
  BY CodeDefined
<1>2. PICK d : IsCode(B, b, d) /\ CodeIn(B, b) = d[n]
  BY <1>0, CodeDefined
<1> HIDE DEF n
<1>3. /\ c \in [0..n -> Nat] /\ c[0] = 0 /\ \A i \in 1..n : c[i] = c[i - 1] * B + a[i]
      /\ d \in [0..n -> Nat] /\ d[0] = 0 /\ \A i \in 1..n : d[i] = d[i - 1] * B + b[i]
  BY <1>0, <1>1, <1>2 DEF IsCode, n
<1>i. \A i \in 1..n : i \in 0..n /\ i - 1 \in 0..n
  BY <1>0
<1>d. \A i \in 1..n : c[i] = d[i] => c[i - 1] = d[i - 1] /\ a[i] = b[i]
  <2> SUFFICES ASSUME NEW i \in 1..n, c[i] = d[i]
               PROVE  c[i - 1] = d[i - 1] /\ a[i] = b[i]
    OBVIOUS
  <2> DEFINE p == c[i - 1]
             q == d[i - 1]
             x == a[i]
             y == b[i]
  <2>1. p \in Nat /\ q \in Nat /\ x \in Nat /\ y \in Nat /\ x < B /\ y < B
    BY <1>0, <1>3, <1>i
  <2>2. p * B + x = q * B + y
    BY <1>3
  <2> HIDE DEF p, q, x, y
  <2>3. p = q /\ x = y
    BY <2>1, <2>2, LastDigit
  <2> QED BY <2>3 DEF p, q, x, y
<1> DEFINE Bad == {j \in 0..n : c[n - j] # d[n - j]}
<1>4. ASSUME Bad # {} PROVE FALSE
  <2>1. PICK j \in Bad : \A k \in Bad : j <= k
    <3>1. Bad \subseteq Nat  OBVIOUS
    <3> HIDE DEF Bad
    <3> QED BY <3>1, <1>4, LeastNatural
  <2>2. j \in 0..n /\ c[n - j] # d[n - j]  OBVIOUS
  <2>3. j # 0
    <3>1. c[n] = d[n]  BY <1>1, <1>2
    <3>2. n - 0 = n  BY <1>0
    <3> QED BY <3>1, <3>2, <2>2
  <2>4. j - 1 \in 0..n /\ ~(j <= j - 1)  BY <2>2, <2>3, <1>0
  <2>5. c[n - (j - 1)] = d[n - (j - 1)]
    <3>1. j - 1 \notin Bad  BY <2>1, <2>4
    <3> QED BY <3>1, <2>4
  <2> DEFINE i == n - (j - 1)
  <2>6. i \in 1..n /\ i - 1 = n - j  BY <2>2, <2>3, <1>0
  <2>7. c[i] = d[i]  BY <2>5
  <2> HIDE DEF i
  <2> QED BY <2>2, <2>6, <2>7, <1>d
<1>5. \A i \in 1..n : c[i] = d[i]
  <2> SUFFICES ASSUME NEW i \in 1..n PROVE c[i] = d[i]  OBVIOUS
  <2>1. n - i \in 0..n /\ n - (n - i) = i  BY <1>0
  <2>2. n - i \notin Bad  BY <1>4
  <2> QED BY <2>1, <2>2
<1>6. \A i \in 1..n : a[i] = b[i]
  BY <1>5, <1>d
<1> QED BY <1>6, <1>0, SeqEqual DEF n

-----------------------------------------------------------------------------
(* Sorted sets of numbers.                                                   *)

\* The usual order of a set of integers.
LessOn(S) == {p \in S \X S : p[1] < p[2]}

(* It is a strict total order, whose ranks count smaller elements.         *)
LEMMA LessOnOrders ==
  ASSUME NEW S \in SUBSET Int
  PROVE  /\ Orders(LessOn(S), S)
         /\ \A x, y \in S : <<x, y>> \in LessOn(S) <=> x < y
         /\ \A x \in S : RankIn(LessOn(S), S, x) = Cardinality({y \in S : y < x})
<1>1. \A x, y \in S : <<x, y>> \in LessOn(S) <=> x < y
  BY DEF LessOn
<1>2. Orders(LessOn(S), S)
  BY <1>1 DEF Orders
<1>3. \A x \in S : {y \in S : <<y, x>> \in LessOn(S)} = {y \in S : y < x}
  BY <1>1
<1>4. \A x \in S : RankIn(LessOn(S), S, x) = Cardinality({y \in S : y < x})
  BY <1>3 DEF RankIn
<1> QED BY <1>1, <1>2, <1>4

\* C is the n smallest elements of S.
AreSmallest(S, n, C) == C = {x \in S : Cardinality({y \in S : y < x}) < n}

(* They are its first n.                                                   *)
LEMMA SmallestProperties ==
  ASSUME NEW S \in SUBSET Int, IsFiniteSet(S), NEW n \in Nat,
         NEW C, AreSmallest(S, n, C)
  PROVE  /\ C \in SUBSET S /\ IsFiniteSet(C)
         /\ \A c \in C, i \in S : i < c => i \in C
         /\ n <= Cardinality(S) => Cardinality(C) = n
         /\ Cardinality(S) <= n => C = S
<1> DEFINE R(x) == RankIn(LessOn(S), S, x)
<1>1. Orders(LessOn(S), S) /\ \A x, y \in S : <<x, y>> \in LessOn(S) <=> x < y
  BY LessOnOrders
<1>2. C = {x \in S : R(x) < n}
  BY LessOnOrders DEF AreSmallest
<1>3. /\ Cardinality(S) \in Nat
      /\ \A x \in S : R(x) \in 0..Cardinality(S) - 1
      /\ \A x, y \in S : R(x) < R(y) <=> x < y
  BY <1>1, Ranks
<1>4. n <= Cardinality(S) => Cardinality(C) = n
  <2> SUFFICES ASSUME n <= Cardinality(S) PROVE Cardinality(C) = n  OBVIOUS
  <2> QED BY <1>1, <1>2, FirstRanks
<1>5. C \in SUBSET S
  BY <1>2
<1>6. IsFiniteSet(C)
  BY <1>5, FS_Subset
<1> HIDE DEF R
<1>7. \A c \in C, i \in S : i < c => i \in C
  <2> SUFFICES ASSUME NEW c \in C, NEW i \in S, i < c PROVE i \in C  OBVIOUS
  <2>1. R(i) < R(c) /\ R(c) < n  BY <1>2, <1>3
  <2>2. R(i) \in Int /\ R(c) \in Int  BY <1>2, <1>3
  <2>3. R(i) < n  BY <2>1, <2>2
  <2> QED BY <2>3, <1>2
<1>8. Cardinality(S) <= n => C = S
  <2> SUFFICES ASSUME Cardinality(S) <= n, NEW x \in S PROVE R(x) < n
    BY <1>2
  <2> QED BY <1>3
<1> QED BY <1>4, <1>5, <1>6, <1>7, <1>8

(* Ascending lists the elements of a finite set of integers in order.      *)
LEMMA AscendingProperties ==
  ASSUME NEW S \in SUBSET Int, IsFiniteSet(S)
  PROVE  /\ Cardinality(S) \in Nat
         /\ Ascending(S) \in Seq(S) /\ Len(Ascending(S)) = Cardinality(S)
         /\ \A i, j \in 1..Cardinality(S) : i < j <=> Ascending(S)[i] < Ascending(S)[j]
         /\ \A x \in S : \E i \in 1..Cardinality(S) : Ascending(S)[i] = x
<1> DEFINE n == Cardinality(S)
           o == [i \in 1..n |-> CHOOSE x \in S : Cardinality({y \in S : y < x}) = i - 1]
<1>1. /\ Orders(LessOn(S), S) /\ \A x, y \in S : <<x, y>> \in LessOn(S) <=> x < y
      /\ \A x \in S : RankIn(LessOn(S), S, x) = Cardinality({y \in S : y < x})
  BY LessOnOrders
<1>2. n \in Nat /\ \A i \in 0..n - 1 : \E x \in S : RankIn(LessOn(S), S, x) = i
  BY <1>1, Ranks
<1>3. ASSUME NEW i \in 1..n
      PROVE  o[i] \in S /\ Cardinality({y \in S : y < o[i]}) = i - 1
  <2>1. i - 1 \in 0..n - 1  BY <1>2
  <2>2. \E x \in S : Cardinality({y \in S : y < x}) = i - 1
    BY <2>1, <1>1, <1>2
  <2>3. o[i] = CHOOSE x \in S : Cardinality({y \in S : y < x}) = i - 1
    OBVIOUS
  <2> HIDE DEF o
  <2> QED BY <2>2, <2>3
<1>4. o \in [1..n -> S]
  <2>1. \A i \in 1..n : (CHOOSE x \in S : Cardinality({y \in S : y < x}) = i - 1) \in S
    BY <1>3, Zenon
  <2> QED BY <2>1, Zenon
<1>5. Ascending(S) = SubSeq(o, 1, n)
  BY Zenon DEF Ascending, SortedBy
<1> HIDE DEF o
<1>6. GivesRanks(LessOn(S), S, o)
  BY <1>1, <1>3, <1>4 DEF GivesRanks
<1>7. Lists(LessOn(S), S, Ascending(S))
  BY <1>1, <1>5, <1>6, SortedByRank
<1> DEFINE a == Ascending(S)
<1>8. /\ a \in Seq(S) /\ Len(a) = n
      /\ \A i, j \in 1..n : i < j <=> <<a[i], a[j]>> \in LessOn(S)
      /\ \A x \in S : \E i \in 1..n : a[i] = x
  BY <1>7 DEF Lists
<1> HIDE DEF a, n
<1>9. \A i \in 1..n : a[i] \in S
  BY <1>8, ElementOfSeq
<1>10. \A i, j \in 1..n : i < j <=> a[i] < a[j]
  BY <1>1, <1>8, <1>9
<1> QED BY <1>2, <1>8, <1>10 DEF a, n

\* Up to every limit A has at least as many elements as B.
Dominates(A, B) ==
  \A t \in Nat : Cardinality({b \in B : b <= t}) <= Cardinality({a \in A : a <= t})

(* Of two sets of the same size, the one with more elements up to every    *)
(* limit is the smaller one, position by position.                         *)
LEMMA AscendingDominated ==
  ASSUME NEW A \in SUBSET Nat, IsFiniteSet(A), NEW B \in SUBSET Nat, IsFiniteSet(B),
         Cardinality(A) = Cardinality(B), Dominates(A, B)
  PROVE  \A i \in 1..Cardinality(A) : Ascending(A)[i] <= Ascending(B)[i]
<1> DEFINE n == Cardinality(A)
           a == Ascending(A)
           b == Ascending(B)
<1>1. /\ n \in Nat /\ a \in Seq(A) /\ Len(a) = n
      /\ \A i, j \in 1..n : i < j <=> a[i] < a[j]
      /\ \A x \in A : \E i \in 1..n : a[i] = x
      /\ b \in Seq(B) /\ Len(b) = n
      /\ \A i, j \in 1..n : i < j <=> b[i] < b[j]
  <2>1. A \in SUBSET Int /\ B \in SUBSET Int  OBVIOUS
  <2> QED BY <2>1, AscendingProperties
<1>2. \A i \in 1..n : a[i] \in A /\ b[i] \in B /\ a[i] \in Nat /\ b[i] \in Nat
  BY <1>1, ElementOfSeq
<1> HIDE DEF n, a, b
<1> SUFFICES ASSUME NEW i \in 1..n, ~(a[i] <= b[i]) PROVE FALSE
  BY DEF n, a, b
<1> DEFINE t == b[i]
           X == {x \in A : x <= t}
           Y == {y \in B : y <= t}
           f == [j \in 1..i |-> b[j]]
           g == [j \in 1..i - 1 |-> a[j]]
<1>3. i \in Nat /\ i - 1 \in Nat /\ t \in Nat
  BY <1>1, <1>2
<1>4. IsFiniteSet(X) /\ IsFiniteSet(Y)
  <2>1. X \in SUBSET A /\ Y \in SUBSET B  OBVIOUS
  <2> HIDE DEF X, Y
  <2> QED BY <2>1, FS_Subset
<1>5. i <= Cardinality(Y)
  <2>1. \A j \in 1..i : j \in 1..n /\ (j < i \/ j = i)  BY <1>1
  <2>2. \A j \in 1..i : b[j] \in B /\ b[j] <= t
    <3> SUFFICES ASSUME NEW j \in 1..i PROVE b[j] \in B /\ b[j] <= t  OBVIOUS
    <3>1. j \in 1..n /\ (j < i \/ j = i)  BY <2>1
    <3>2. b[j] \in B /\ b[j] \in Nat  BY <3>1, <1>2
    <3>3. b[j] < t \/ b[j] = t  BY <3>1, <1>1
    <3> QED BY <3>2, <3>3, <1>3
  <2>3. f \in [1..i -> Y]  BY <2>2
  <2>4. \A j, k \in 1..i : f[j] = f[k] => j = k
    <3> SUFFICES ASSUME NEW j \in 1..i, NEW k \in 1..i, b[j] = b[k] PROVE j = k
      OBVIOUS
    <3>1. j \in 1..n /\ k \in 1..n  BY <2>1
    <3>2. b[j] \in Nat /\ b[k] \in Nat /\ j \in Nat /\ k \in Nat  BY <3>1, <1>2
    <3>3. ~(b[j] < b[k]) /\ ~(b[k] < b[j])  BY <3>2
    <3>4. ~(j < k) /\ ~(k < j)  BY <3>1, <3>3, <1>1
    <3> QED BY <3>2, <3>4
  <2> HIDE DEF f, Y
  <2> QED BY <1>3, <1>4, <2>3, <2>4, DistinctCardinality
<1>6. Cardinality(X) <= i - 1
  <2>1. \A x \in X : \E j \in 1..i - 1 : g[j] = x
    <3> SUFFICES ASSUME NEW x \in X PROVE \E j \in 1..i - 1 : g[j] = x  OBVIOUS
    <3>1. x \in A /\ x <= t /\ x \in Nat  OBVIOUS
    <3>2. PICK j \in 1..n : a[j] = x  BY <1>1, <3>1
    <3>3. a[j] < a[i]  BY <3>1, <3>2, <1>2, <1>3
    <3>4. j < i  BY <3>3, <1>1
    <3>5. j \in 1..i - 1  BY <3>4, <1>1
    <3> QED BY <3>2, <3>5
  <2>2. g = [j \in 1..i - 1 |-> g[j]] /\ DOMAIN g = 1..i - 1  OBVIOUS
  <2> HIDE DEF g, X
  <2> QED BY <2>1, <2>2, <1>3, ImageCardinality
<1>7. Cardinality(Y) <= Cardinality(X)
  BY <1>3, Zenon DEF Dominates
<1>8. Cardinality(X) \in Nat /\ Cardinality(Y) \in Nat
  <2> HIDE DEF X, Y
  <2> QED BY <1>4, FS_CardinalityType
<1> HIDE DEF X, Y
<1> QED BY <1>3, <1>5, <1>6, <1>7, <1>8

(* Completing a set with the smallest of some new elements gives at least  *)
(* as many elements up to every limit as completing it otherwise.          *)
LEMMA CompletedWithSmallest ==
  ASSUME NEW P \in SUBSET Nat, IsFiniteSet(P),
         NEW I \in SUBSET Nat, IsFiniteSet(I), P \cap I = {},
         NEW R \in SUBSET I,
         NEW C, AreSmallest(I, Cardinality(R), C),
         NEW A, A = P \cup C, NEW B, B = P \cup R
  PROVE  /\ Cardinality(A) = Cardinality(B)
         /\ IsFiniteSet(A) /\ IsFiniteSet(B)
         /\ Dominates(A, B)
<1> DEFINE n == Cardinality(R)
<1>1. IsFiniteSet(R) /\ n \in Nat /\ n <= Cardinality(I)
  BY FS_Subset, FS_CardinalityType
<1>2. /\ C \in SUBSET I /\ IsFiniteSet(C) /\ Cardinality(C) = n
      /\ \A c \in C, i \in I : i < c => i \in C
  <2>1. I \in SUBSET Int  OBVIOUS
  <2>2. AreSmallest(I, n, C)  OBVIOUS
  <2> HIDE DEF n
  <2>3. /\ C \in SUBSET I /\ IsFiniteSet(C)
        /\ \A c \in C, i \in I : i < c => i \in C
        /\ n <= Cardinality(I) => Cardinality(C) = n
    BY <2>1, <2>2, <1>1, SmallestProperties
  <2> QED BY <2>3, <1>1
<1>3. ASSUME NEW U \in SUBSET I, IsFiniteSet(U), NEW V \in SUBSET P
      PROVE  /\ IsFiniteSet(V \cup U)
             /\ Cardinality(V \cup U) = Cardinality(V) + Cardinality(U)
             /\ Cardinality(V) \in Nat /\ Cardinality(U) \in Nat
  <2>1. IsFiniteSet(V) /\ V \cap U = {}  BY FS_Subset
  <2>2. /\ IsFiniteSet(V \cup U)
        /\ Cardinality(V \cup U) = Cardinality(V) + Cardinality(U) - Cardinality(V \cap U)
    BY <1>3, <2>1, FS_Union
  <2>3. Cardinality(V \cap U) = 0  BY <2>1, FS_EmptySet
  <2>4. Cardinality(V) \in Nat /\ Cardinality(U) \in Nat  BY <1>3, <2>1, FS_CardinalityType
  <2> QED BY <2>2, <2>3, <2>4
<1>4. /\ Cardinality(P \cup C) = Cardinality(P \cup R)
      /\ IsFiniteSet(P \cup C) /\ IsFiniteSet(P \cup R)
  BY <1>1, <1>2, <1>3
<1>5. ASSUME NEW t \in Nat
      PROVE  Cardinality({b \in P \cup R : b <= t}) <= Cardinality({a \in P \cup C : a <= t})
  <2> DEFINE Pt == {x \in P : x <= t}
             Rt == {x \in R : x <= t}
             Ct == {x \in C : x <= t}
  <2>1. {b \in P \cup R : b <= t} = Pt \cup Rt /\ {a \in P \cup C : a <= t} = Pt \cup Ct
    OBVIOUS
  <2>2. Rt \in SUBSET R /\ Rt \in SUBSET I /\ Ct \in SUBSET C /\ Ct \in SUBSET I /\ Pt \in SUBSET P
    BY <1>2
  <2>c. Rt \in SUBSET Ct \/ C \in SUBSET Ct
    <3> SUFFICES ASSUME NEW c \in C, ~(c <= t), NEW r \in Rt PROVE r \in Ct
      BY <1>2
    <3>1. r \in I /\ r <= t /\ r \in Nat /\ c \in Nat  BY <1>2
    <3>2. r < c  BY <3>1
    <3> QED BY <3>1, <3>2, <1>2
  <2> HIDE DEF Pt, Rt, Ct
  <2>3. IsFiniteSet(Rt) /\ IsFiniteSet(Ct) /\ Cardinality(Rt) <= n
    BY <2>2, <1>1, <1>2, FS_Subset
  <2>4. Cardinality(Rt) <= Cardinality(Ct)
    <3>1. CASE Rt \in SUBSET Ct  BY <3>1, <2>3, FS_Subset
    <3>2. CASE C \in SUBSET Ct
      <4>1. C = Ct  BY <3>2, <2>2
      <4> QED BY <4>1, <1>2, <2>3
    <3> QED BY <3>1, <3>2, <2>c
  <2>5. /\ Cardinality(Pt \cup Rt) = Cardinality(Pt) + Cardinality(Rt)
        /\ Cardinality(Pt \cup Ct) = Cardinality(Pt) + Cardinality(Ct)
        /\ Cardinality(Pt) \in Nat /\ Cardinality(Rt) \in Nat /\ Cardinality(Ct) \in Nat
    BY <1>3, <2>2, <2>3
  <2>6. Cardinality(Pt \cup Rt) <= Cardinality(Pt \cup Ct)
    BY <2>4, <2>5
  <2> QED BY <2>1, <2>6, Zenon
<1>6. Dominates(A, B)
  BY <1>5, Zenon DEF Dominates
<1> QED BY <1>4, <1>6

-----------------------------------------------------------------------------

(* A sum of naturals is one, and at most as many times their bound.        *)
LEMMA SumBounded ==
  ASSUME NEW S, IsFiniteSet(S), NEW f, NEW b \in Nat,
         \A x \in S : f[x] \in Nat /\ f[x] <= b
  PROVE  /\ SumFunctionOnSet(f, S) \in Nat
         /\ SumFunctionOnSet(f, S) <= b * Cardinality(S)
<1> DEFINE Holds(s) == /\ SumFunctionOnSet(f, s) \in Nat
                       /\ SumFunctionOnSet(f, s) <= b * Cardinality(s)
           Bad == {Cardinality(s) : s \in {t \in SUBSET S : ~Holds(t)}}
<1>f. \A s \in SUBSET S : IsFiniteSet(s) /\ Cardinality(s) \in Nat /\ Summands(f, s)
  BY FS_Subset, FS_CardinalityType DEF Summands
<1>2. Bad = {}
  <2> SUFFICES ASSUME Bad # {} PROVE FALSE
    OBVIOUS
  <2>1. PICK n \in Bad : \A k \in Bad : n <= k
    <3>1. Bad \subseteq Nat  BY <1>f
    <3> HIDE DEF Bad
    <3> QED BY <3>1, LeastNatural
  <2>2. PICK s \in SUBSET S : ~Holds(s) /\ n = Cardinality(s)
    OBVIOUS
  <2>3. CASE s = {}
    <3>1. SumFunctionOnSet(f, s) = 0 /\ Cardinality(s) = 0
      BY <2>3, SumEmpty, FS_EmptySet
    <3>2. b * 0 = 0  OBVIOUS
    <3>3. Holds(s)  BY <3>1, <3>2
    <3> QED BY <3>3, <2>2
  <2>4. CASE s # {}
    <3>1. PICK x \in s : TRUE  BY <2>4
    <3> DEFINE t == s \ {x}
               sum == SumFunctionOnSet(f, t)
               k == Cardinality(t)
               y == f[x]
    <3>2. t \in SUBSET S  OBVIOUS
    <3>3. k = Cardinality(s) - 1 /\ Cardinality(s) \in Nat /\ k \in Nat
      <4>1. Cardinality(t) = Cardinality(s) - 1
        BY <3>1, <1>f, FS_RemoveElement
      <4> HIDE DEF t
      <4> QED BY <4>1, <3>2, <1>f
    <3>4. Holds(t)
      <4>1. k \notin Bad
        <5> SUFFICES ASSUME k \in Bad PROVE FALSE  OBVIOUS
        <5>1. n <= k  BY <2>1
        <5> HIDE DEF k, Bad
        <5> QED BY <5>1, <3>3, <2>2
      <4> HIDE DEF t, Holds
      <4> QED BY <4>1, <3>2
    <3>5. SumFunctionOnSet(f, s) = y + sum
      BY <3>1, <1>f, SumRemove
    <3>6. y \in Nat /\ y <= b /\ sum \in Nat /\ sum <= b * k
      BY <3>1, <3>4
    <3>7. Cardinality(s) = k + 1  BY <3>3
    <3> HIDE DEF t, sum, k, y
    <3> DEFINE X == b * k
    <3>8. b * (k + 1) = X + b /\ X \in Nat  BY <3>3
    <3> HIDE DEF X
    <3>9. sum <= X  BY <3>6 DEF X
    <3>10. y + sum \in Nat /\ y + sum <= X + b  BY <3>6, <3>8, <3>9
    <3>11. Holds(s)  BY <3>5, <3>7, <3>8, <3>10
    <3> QED BY <3>11, <2>2
  <2> QED BY <2>3, <2>4
<1>3. Holds(S)
  BY <1>2
<1> QED BY <1>3

(* A sum of naturals is one.                                               *)
LEMMA SumNat ==
  ASSUME NEW S, IsFiniteSet(S), NEW f, \A x \in S : f[x] \in Nat
  PROVE  SumFunctionOnSet(f, S) \in Nat
<1> DEFINE Holds(s) == SumFunctionOnSet(f, s) \in Nat
           Bad == {Cardinality(s) : s \in {t \in SUBSET S : ~Holds(t)}}
<1>f. \A s \in SUBSET S : IsFiniteSet(s) /\ Cardinality(s) \in Nat /\ Summands(f, s)
  BY FS_Subset, FS_CardinalityType DEF Summands
<1>2. Bad = {}
  <2> SUFFICES ASSUME Bad # {} PROVE FALSE
    OBVIOUS
  <2>1. PICK n \in Bad : \A k \in Bad : n <= k
    <3>1. Bad \subseteq Nat  BY <1>f
    <3> HIDE DEF Bad
    <3> QED BY <3>1, LeastNatural
  <2>2. PICK s \in SUBSET S : ~Holds(s) /\ n = Cardinality(s)
    OBVIOUS
  <2>3. s # {}
    BY <2>2, SumEmpty
  <2>4. PICK x \in s : TRUE  BY <2>3
  <2> DEFINE t == s \ {x}
  <2>5. t \in SUBSET S  OBVIOUS
  <2>6. Cardinality(t) = Cardinality(s) - 1 /\ Cardinality(s) \in Nat
    BY <2>4, <1>f, FS_RemoveElement
  <2>7. SumFunctionOnSet(f, s) = f[x] + SumFunctionOnSet(f, t)
    BY <2>4, <1>f, SumRemove
  <2> HIDE DEF t
  <2>8. Holds(t)
    <3> SUFFICES ASSUME Cardinality(t) \in Bad PROVE FALSE
      BY <2>5
    <3>1. n <= Cardinality(t)  BY <2>1
    <3> HIDE DEF Bad
    <3> QED BY <3>1, <2>6, <2>2
  <2>9. f[x] \in Nat  BY <2>4
  <2> QED BY <2>2, <2>7, <2>8, <2>9
<1>3. Holds(S)
  BY <1>2
<1> QED BY <1>3

(* A function with as many values as arguments takes none twice.           *)
LEMMA DistinctValues ==
  ASSUME NEW S, IsFiniteSet(S), NEW f, Cardinality({f[x] : x \in S}) = Cardinality(S)
  PROVE  \A x, y \in S : f[x] = f[y] => x = y
<1> DEFINE T == {f[x] : x \in S}
           g == [x \in S |-> f[x]]
<1>1. g \in Surjection(S, T)
  BY DEF Surjection
<1>2. Cardinality(T) = Cardinality(S)
  OBVIOUS
<1>3. \A x \in S : g[x] = f[x]
  OBVIOUS
<1> HIDE DEF T, g
<1>4. g \in Injection(S, T)
  BY <1>1, <1>2, FS_Surjection
<1> QED BY <1>3, <1>4 DEF Injection, IsInjective

(* A function that takes no value twice has as many as arguments.          *)
LEMMA ValuesOfDistinct ==
  ASSUME NEW S, IsFiniteSet(S), NEW f, \A x, y \in S : f[x] = f[y] => x = y
  PROVE  IsFiniteSet({f[x] : x \in S}) /\ Cardinality({f[x] : x \in S}) = Cardinality(S)
<1> DEFINE T == {f[x] : x \in S}
           g == [x \in S |-> f[x]]
<1>1. g \in Surjection(S, T) /\ g \in [S -> T]
  BY DEF Surjection
<1>3. \A x \in S : g[x] = f[x]
  OBVIOUS
<1> HIDE DEF T, g
<1>4. g \in Injection(S, T)
  BY <1>1, <1>3 DEF Injection, IsInjective
<1>5. IsFiniteSet(T) /\ Cardinality(T) = Cardinality(S)
  BY <1>1, <1>4, FS_Surjection
<1> QED BY <1>5 DEF T

(* SetToSeq lists every element of a finite set once.                      *)
LEMMA SetToSeqProperties ==
  ASSUME NEW S, IsFiniteSet(S)
  PROVE  /\ Cardinality(S) \in Nat
         /\ SetToSeq(S) \in [1..Cardinality(S) -> S]
         /\ \A x \in S : \E i \in 1..Cardinality(S) : SetToSeq(S)[i] = x
<1> DEFINE n == Cardinality(S)
<1>1. n \in Nat /\ IsFiniteSet(1..n) /\ Cardinality(1..n) = n
  <2>1. n \in Nat  BY FS_CardinalityType
  <2> HIDE DEF n
  <2> QED BY <2>1, FS_Interval
<1>2. ExistsBijection(1..n, S)
  <2>1. n = Cardinality(S)  OBVIOUS
  <2> HIDE DEF n
  <2> QED BY <1>1, <2>1, FS_SameCardinalityBij
<1>3. PICK b : b \in Bijection(1..n, S)
  BY <1>2 DEF ExistsBijection
<1>4. b \in [1..n -> S] /\ IsInjective(b)
  BY <1>3 DEF Bijection, Injection
<1>5. SetToSeq(S) \in [1..n -> S] /\ IsInjective(SetToSeq(S))
  BY <1>4 DEF SetToSeq
<1>6. SetToSeq(S) \in Injection(1..n, S)
  BY <1>5 DEF Injection
<1>7. SetToSeq(S) \in Surjection(1..n, S)
  <2>1. n = Cardinality(S)  OBVIOUS
  <2> HIDE DEF n
  <2> QED BY <1>1, <1>6, <2>1, FS_Injection
<1>8. \A x \in S : \E i \in 1..n : SetToSeq(S)[i] = x
  BY <1>7 DEF Surjection
<1> QED BY <1>1, <1>5, <1>8

(* A list of elements of S is one of elements of a larger set.             *)
LEMMA SeqOfMore ==
  ASSUME NEW S, NEW T, S \in SUBSET T, NEW s \in Seq(S)
  PROVE  s \in Seq(T)
<1>1. Len(s) \in Nat /\ s \in [1..Len(s) -> S]
  BY LenProperties
<1>2. s \in [1..Len(s) -> T]
  <2> DEFINE n == Len(s)
  <2>1. n \in Nat /\ s \in [1..n -> S]  BY <1>1
  <2> HIDE DEF n
  <2>2. s \in [1..n -> T]  BY <2>1
  <2> QED BY <2>2 DEF n
<1> QED BY <1>1, <1>2, SeqDef

(* Summands that are matched with different, no smaller ones of a falling  *)
(* list add up to no more than as many of its first.                       *)
LEMMA SumOfMatched ==
  ASSUME NEW I \in SUBSET Int, IsFiniteSet(I), NEW f, Summands(f, I),
         \A i, j \in I : i < j => f[j] <= f[i],
         NEW R, IsFiniteSet(R), NEW w, Summands(w, R),
         NEW m \in [R -> I], \A x \in R : w[x] <= f[m[x]],
         \A x, y \in R : m[x] = m[y] => x = y,
         NEW C \in SUBSET I, \A c \in C, i \in I : i < c => i \in C,
         Cardinality(C) = Cardinality(R)
  PROVE  SumFunctionOnSet(w, R) <= SumFunctionOnSet(f, C)
<1> DEFINE F == {m[x] : x \in R}
<1>1. SumFunctionOnSet(w, R) <= SumFunctionOnSet(f, F)
  BY SumMatched
<1>2. F \in SUBSET I
  OBVIOUS
<1>3. Cardinality(F) = Cardinality(R) /\ IsFiniteSet(F)
  BY ValuesOfDistinct
<1> HIDE DEF F
<1>4. SumFunctionOnSet(f, F) <= SumFunctionOnSet(f, C)
  BY <1>2, <1>3, SumOfFirst
<1>5. IsFiniteSet(C)
  BY FS_Subset
<1>6. /\ SumFunctionOnSet(w, R) \in Int /\ SumFunctionOnSet(f, F) \in Int
      /\ SumFunctionOnSet(f, C) \in Int
  <2>1. Summands(f, F) /\ Summands(f, C)  BY <1>2 DEF Summands
  <2> QED BY <2>1, <1>3, <1>5, SumType
<1> QED BY <1>1, <1>4, <1>6

-----------------------------------------------------------------------------
(* The list of an order.                                                     *)

(* The ranks of the entries of a list are their positions, from zero.      *)
LEMMA ListRanks ==
  ASSUME NEW S, NEW L, NEW s, Lists(L, S, s), NEW i \in 1..Len(s)
  PROVE  RankIn(L, S, s[i]) = i - 1
<1> DEFINE T == {s[j] : j \in 1..i - 1}
           f == [j \in 1..i - 1 |-> s[j]]
<1>1. /\ \A j, k \in 1..Len(s) : j < k <=> <<s[j], s[k]>> \in L
      /\ \A j, k \in 1..Len(s) : s[j] = s[k] => j = k
      /\ \A x \in S : \E j \in 1..Len(s) : s[j] = x
      /\ \A j \in 1..Len(s) : s[j] \in S
      /\ Len(s) \in Nat /\ i \in Int /\ i - 1 \in Nat
  BY ElementOfSeq DEF Lists
<1>2. \A j \in 1..i - 1 : j \in 1..Len(s) /\ j < i
  BY <1>1
<1>3. \A j \in 1..Len(s) : j < i => j \in 1..i - 1
  BY <1>1
<1>4. {y \in S : <<y, s[i]>> \in L} = T
  <2>1. ASSUME NEW y \in S, <<y, s[i]>> \in L PROVE y \in T
    <3>1. PICK j \in 1..Len(s) : s[j] = y  BY <1>1
    <3>2. j \in 1..i - 1  BY <3>1, <2>1, <1>1, <1>3
    <3> QED BY <3>1, <3>2
  <2>2. ASSUME NEW j \in 1..i - 1 PROVE s[j] \in S /\ <<s[j], s[i]>> \in L
    BY <1>1, <1>2
  <2> QED BY <2>1, <2>2
<1>5. T = {f[j] : j \in 1..i - 1} /\ \A j, k \in 1..i - 1 : f[j] = f[k] => j = k
  BY <1>1, <1>2
<1> HIDE DEF T, f
<1>6. IsFiniteSet(1..i - 1) /\ Cardinality(1..i - 1) = i - 1
  <2> DEFINE n == i - 1
  <2>1. n \in Nat  BY <1>1
  <2> HIDE DEF n
  <2>2. /\ IsFiniteSet(1..n)
        /\ Cardinality(1..n) = IF 1 > n THEN 0 ELSE n - 1 + 1
    BY <2>1, FS_Interval
  <2>3. Cardinality(1..n) = n  BY <2>1, <2>2
  <2> QED BY <2>2, <2>3 DEF n
<1>7. Cardinality(T) = i - 1
  BY <1>5, <1>6, ValuesOfDistinct
<1> QED BY <1>4, <1>7 DEF RankIn

(* An order has one list of a set.                                         *)
LEMMA OneList ==
  ASSUME NEW S, IsFiniteSet(S), NEW L, Orders(L, S),
         NEW s, Lists(L, S, s), NEW t, Lists(L, S, t)
  PROVE  s = t
<1>1. s \in Seq(S) /\ t \in Seq(S) /\ Len(s) = Len(t)
  BY DEF Lists
<1>2. ASSUME NEW i \in 1..Len(s) PROVE s[i] = t[i]
  <2>1. i \in 1..Len(t) /\ s[i] \in S /\ t[i] \in S
    BY <1>1, ElementOfSeq
  <2>2. RankIn(L, S, s[i]) = RankIn(L, S, t[i])
    BY <2>1, ListRanks
  <2> QED BY <2>1, <2>2, Ranks
<1> QED BY <1>1, <1>2, SeqEqual

(* A sequence whose entries are all in a set is a sequence of that set.    *)
LEMMA SeqOfEntries ==
  ASSUME NEW R, NEW s \in Seq(R), NEW S, \A i \in 1..Len(s) : s[i] \in S
  PROVE  s \in Seq(S)
<1>1. s = [i \in 1..Len(s) |-> s[i]] /\ Len(s) \in Nat
  BY LenProperties
<1>2. s \in [1..Len(s) -> S]
  BY <1>1
<1> QED BY <1>1, <1>2, SeqDef

-----------------------------------------------------------------------------
(* Codes of sets.                                                            *)

(* A code of a set of numbers is a number.                                 *)
LEMMA SetCodeType ==
  ASSUME NEW B \in Nat, NEW S \in SUBSET Nat, IsFiniteSet(S)
  PROVE  CodeIn(B, Ascending(S)) \in Nat
<1> DEFINE a == Ascending(S)
<1>1. a \in Seq(S)
  <2>1. S \in SUBSET Int  OBVIOUS
  <2> QED BY <2>1, AscendingProperties
<1> HIDE DEF a
<1>2. a \in Seq(Nat) /\ Len(a) \in Nat
  BY <1>1, SeqOfMore, LenProperties
<1>3. PICK c : IsCode(B, a, c) /\ CodeIn(B, a) = c[Len(a)]
  BY <1>2, CodeDefined
<1>4. CodeIn(B, a) \in Nat
  BY <1>2, <1>3 DEF IsCode
<1> QED BY <1>4 DEF a

(* Sets of as many numbers below the base have different codes unless they *)
(* are equal.                                                              *)
LEMMA SetCodeInjective ==
  ASSUME NEW B \in Nat, NEW S \in SUBSET Nat, IsFiniteSet(S),
         NEW T \in SUBSET Nat, IsFiniteSet(T), Cardinality(S) = Cardinality(T),
         \A x \in S : x < B, \A x \in T : x < B,
         CodeIn(B, Ascending(S)) = CodeIn(B, Ascending(T))
  PROVE  S = T
<1> DEFINE a == Ascending(S)
           b == Ascending(T)
           n == Cardinality(S)
<1>1. /\ n \in Nat
      /\ a \in Seq(S) /\ Len(a) = n /\ \A x \in S : \E i \in 1..n : a[i] = x
      /\ b \in Seq(T) /\ Len(b) = n /\ \A x \in T : \E i \in 1..n : b[i] = x
  <2>1. S \in SUBSET Int /\ T \in SUBSET Int  OBVIOUS
  <2> QED BY <2>1, AscendingProperties
<1>e. CodeIn(B, a) = CodeIn(B, b)
  OBVIOUS
<1> HIDE DEF a, b, n
<1>2. a \in Seq(Nat) /\ b \in Seq(Nat)
  BY <1>1, SeqOfMore
<1>3. \A i \in 1..n : a[i] \in S /\ b[i] \in T
  BY <1>1, ElementOfSeq
<1>4. \A i \in 1..Len(a) : a[i] < B /\ b[i] < B
  BY <1>1, <1>3
<1>5. a = b
  BY <1>1, <1>2, <1>4, <1>e, CodeInjective
<1>6. \A x \in S : x \in T  BY <1>1, <1>3, <1>5
<1>7. \A x \in T : x \in S  BY <1>1, <1>3, <1>5
<1> QED BY <1>6, <1>7

-----------------------------------------------------------------------------
(* Results.                                                                  *)


\* The parts of a result's key are numbers.
Keyed(R) ==
  \A r \in R : /\ r.score \in Nat
               /\ r.power \in Nat
               /\ r.set \in Nat
               /\ r.layout \in Nat

\* What the ranking asks of the results: a layout lists the deck's concrete
\* cards, so it and the public set it sorts to determine the result.
ResultSet(R) ==
  /\ Keyed(R)
  /\ \A a, b \in R : a.set = b.set /\ a.layout = b.layout => a = b

-----------------------------------------------------------------------------
(* The ranking.                                                              *)

(* The parts a key is made of are integers.                                *)
LEMMA KeyParts ==
  ASSUME NEW R, Keyed(R), NEW cx, NEW a \in R
  PROVE  /\ Objective(cx, a) \in Int /\ ResolvedPower(cx, a) \in Int
         /\ a.set \in Nat /\ a.layout \in Nat
  BY DEF Keyed, Objective, ResolvedPower

(* The derived key order is a strict order, that tells results of different *)
(* sets or layouts apart.                                                  *)
LEMMA KeyLessIsOrder ==
  ASSUME NEW R, Keyed(R), NEW cx
  PROVE  /\ \A a \in R : ~KeyLess(cx, a, a)
         /\ \A a, b, d \in R :
              KeyLess(cx, a, b) /\ KeyLess(cx, b, d) => KeyLess(cx, a, d)
         /\ \A a, b, d \in R :
              KeyLess(cx, a, d) => KeyLess(cx, a, b) \/ KeyLess(cx, b, d)
         /\ \A a, b \in R :
              KeyLess(cx, a, b) \/ KeyLess(cx, b, a) \/ (a.set = b.set /\ a.layout = b.layout)
<1>1. ASSUME NEW a \in R PROVE ~KeyLess(cx, a, a)
  BY KeyParts DEF KeyLess
<1>2. ASSUME NEW a \in R, NEW b \in R, NEW d \in R,
             KeyLess(cx, a, b), KeyLess(cx, b, d)
      PROVE  KeyLess(cx, a, d)
  BY <1>2, KeyParts DEF KeyLess
<1>3. ASSUME NEW a \in R, NEW b \in R, NEW d \in R,
             KeyLess(cx, a, d), ~KeyLess(cx, a, b)
      PROVE  KeyLess(cx, b, d)
  BY <1>3, KeyParts DEF KeyLess
<1>4. ASSUME NEW a \in R, NEW b \in R,
             ~KeyLess(cx, a, b), ~KeyLess(cx, b, a)
      PROVE  a.set = b.set /\ a.layout = b.layout
  BY <1>4, KeyParts DEF KeyLess
<1> QED BY <1>1, <1>2, <1>3, <1>4

(* The derived key order is a strict total order on results: two results   *)
(* with the same key are the same deck.                                    *)
LEMMA KeyLessIsTotalOrder ==
  ASSUME NEW R, ResultSet(R), NEW cx
  PROVE  /\ \A a \in R : ~KeyLess(cx, a, a)
         /\ \A a, b, d \in R :
              KeyLess(cx, a, b) /\ KeyLess(cx, b, d) => KeyLess(cx, a, d)
         /\ \A a, b \in R : KeyLess(cx, a, b) \/ KeyLess(cx, b, a) \/ a = b
<1>1. Keyed(R) /\ \A a, b \in R : a.set = b.set /\ a.layout = b.layout => a = b
  BY DEF ResultSet
<1> QED BY <1>1, KeyLessIsOrder

-----------------------------------------------------------------------------
(* The list the tracker keeps.                                               *)

\* Best key first, one entry for each public set.
Ranked(cx, s) ==
  \A i, j \in 1..Len(s) :
    i < j => KeyLess(cx, s[i], s[j]) /\ s[i].set # s[j].set

\* Why a result need not be in the list: a representative of its set that is
\* at least as good is, or the list is full of better ones.
Covers(cx, k, s, o) ==
  \/ \E i \in 1..Len(s) : s[i].set = o.set /\ ~KeyLess(cx, o, s[i])
  \/ Len(s) = k /\ (k # 0 => KeyLess(cx, s[k], o))

(* The partition point of a ranked list separates the better entries.      *)
LEMMA PartitionPointProperties ==
  ASSUME NEW R, Keyed(R), NEW cx, NEW s \in Seq(R), Ranked(cx, s),
         NEW c \in R
  PROVE  /\ PartitionPoint(cx, s, c) \in 1..Len(s) + 1
         /\ \A i \in 1..Len(s) :
              KeyLess(cx, s[i], c) <=> i < PartitionPoint(cx, s, c)
<1>0. Len(s) \in Nat /\ \A i \in 1..Len(s) : s[i] \in R
  BY LenProperties, ElementOfSeq
<1> DEFINE T == {p \in 1..Len(s) + 1 : p = Len(s) + 1 \/ ~KeyLess(cx, s[p], c)}
<1>1. T \subseteq Nat /\ Len(s) + 1 \in T
  BY <1>0
<1>2. PICK p \in T : \A q \in T : p <= q
  <2> HIDE DEF T
  <2> QED BY <1>1, LeastNatural
<1>3. ASSUME NEW i \in 1..Len(s) PROVE KeyLess(cx, s[i], c) <=> i < p
  <2>1. CASE i < p
    <3>1. i \notin T  BY <1>2, <2>1, <1>0
    <3> QED BY <3>1, <2>1, <1>0
  <2>2. CASE i = p
    BY <2>2, <1>0
  <2>3. CASE i > p
    <3>1. ~KeyLess(cx, s[p], c)  BY <2>3, <1>0
    <3>2. KeyLess(cx, s[p], s[i])  BY <2>3, <1>0 DEF Ranked
    <3> QED BY <3>1, <3>2, <2>3, <1>0, KeyLessIsOrder
  <2> QED BY <2>1, <2>2, <2>3, <1>0
<1> QED BY <1>0, <1>3 DEF PartitionPoint

\* The entries of s of other sets than the candidate's, in order.
IsKept(R, cx, s, c, kept) ==
  /\ kept \in Seq(R)
  /\ Ranked(cx, kept)
  /\ \A i \in 1..Len(kept) : kept[i].set # c.set
  /\ \A i \in 1..Len(kept) : \E j \in i..i + 1 : j <= Len(s) /\ kept[i] = s[j]
  /\ \A j \in 1..Len(s) :
       s[j].set # c.set => \E i \in 1..Len(kept) : kept[i] = s[j]
  /\ \/ SameSet(s, c) = {} /\ kept = s
     \/ SameSet(s, c) # {} /\ Len(kept) = Len(s) - 1

(* Dropping the entry of the candidate's set leaves a ranked list of the   *)
(* other entries.                                                          *)
LEMMA KeptProperties ==
  ASSUME NEW R, Keyed(R), NEW cx, NEW s \in Seq(R), Ranked(cx, s),
         NEW c \in R
  PROVE  IsKept(R, cx, s, c, Without(s, SameSet(s, c)))
<1> DEFINE kept == Without(s, SameSet(s, c))
<1> SUFFICES IsKept(R, cx, s, c, kept)  OBVIOUS
<1>0. /\ Len(s) \in Nat /\ DOMAIN s = 1..Len(s)
      /\ \A i \in 1..Len(s) : s[i] \in R
  BY LenProperties, ElementOfSeq
<1>1. CASE SameSet(s, c) = {}
  <2>1. kept = s  BY <1>1 DEF Without
  <2>2. \A i \in 1..Len(s) : s[i].set # c.set  BY <1>1, <1>0 DEF SameSet
  <2> QED BY <1>1, <2>1, <2>2, <1>0 DEF IsKept
<1>2. CASE SameSet(s, c) # {}
  <2> DEFINE d == CHOOSE i \in SameSet(s, c) : TRUE
  <2>1. d \in 1..Len(s) /\ s[d].set = c.set
    BY <1>2, <1>0 DEF SameSet
  <2>2. kept = RemoveAt(s, d)  BY <1>2 DEF Without
  <2> HIDE DEF d, kept
  <2>3. /\ kept \in Seq(R)
        /\ Len(kept) = Len(s) - 1
        /\ \A i \in 1..Len(s) - 1 : kept[i] = IF i < d THEN s[i] ELSE s[i + 1]
    BY <2>1, <2>2, RemoveAtProperties
  <2>4. ASSUME NEW i \in 1..Len(kept)
        PROVE  \E j \in i..i + 1 : j \in 1..Len(s) /\ j # d /\ kept[i] = s[j]
    BY <2>3, <2>1, <1>0
  <2>5. ASSUME NEW i \in 1..Len(kept), NEW j \in 1..Len(kept), i < j
        PROVE  KeyLess(cx, kept[i], kept[j]) /\ kept[i].set # kept[j].set
    <3>1. PICK p \in 1..Len(s) : kept[i] = s[p] /\ p = IF i < d THEN i ELSE i + 1
      BY <2>3, <2>1, <1>0
    <3>2. PICK q \in 1..Len(s) : kept[j] = s[q] /\ q = IF j < d THEN j ELSE j + 1
      BY <2>3, <2>1, <1>0
    <3>3. p < q  BY <3>1, <3>2, <2>5, <2>3, <2>1, <1>0
    <3> QED BY <3>1, <3>2, <3>3 DEF Ranked
  <2>6. ASSUME NEW j \in 1..Len(s), j # d
        PROVE  s[j].set # c.set /\ \E i \in 1..Len(kept) : kept[i] = s[j]
    <3>1. s[j].set # c.set
      BY <2>6, <2>1, <1>0 DEF Ranked
    <3>2. CASE j < d
      BY <3>2, <2>3, <2>1, <1>0, <3>1
    <3>3. CASE j > d
      <4>1. j - 1 \in 1..Len(kept) /\ ~(j - 1 < d) /\ (j - 1) + 1 = j
        BY <3>3, <2>3, <2>1, <1>0
      <4> QED BY <4>1, <2>3, <3>1
    <3> QED BY <3>2, <3>3, <2>6, <2>1
  <2>7. \A i \in 1..Len(kept) : kept[i].set # c.set
    BY <2>4, <2>6
  <2>8. Ranked(cx, kept)  BY <2>5 DEF Ranked
  <2>9. \A i \in 1..Len(kept) : \E j \in i..i + 1 : j <= Len(s) /\ kept[i] = s[j]
    BY <2>4, <1>0
  <2>10. \A j \in 1..Len(s) : s[j].set # c.set => \E i \in 1..Len(kept) : kept[i] = s[j]
    BY <2>6, <2>1
  <2>11. kept \in Seq(R) /\ Len(kept) = Len(s) - 1
    BY <2>3
  <2> QED BY <1>2, <2>7, <2>8, <2>9, <2>10, <2>11, Zenon DEF IsKept
<1> QED BY <1>1, <1>2

\* p is the first position of kept whose entry is not better than c.
Separates(cx, kept, c, p) ==
  /\ p \in 1..Len(kept) + 1
  /\ \A i \in 1..Len(kept) : KeyLess(cx, kept[i], c) <=> i < p

\* grown is kept with c inserted at p.
IsGrown(R, kept, p, c, grown) ==
  /\ grown \in Seq(R)
  /\ Len(grown) = Len(kept) + 1
  /\ \A i \in 1..Len(kept) + 1 :
       grown[i] = IF i < p THEN kept[i] ELSE IF i = p THEN c ELSE kept[i - 1]

\* What growing does to a full list s.
Overflow(cx, k, s, grown) ==
  /\ Len(grown) \in k..k + 1
  /\ KeyLess(cx, grown[k], s[k]) \/ grown[k] = s[k]
  /\ Len(grown) = k + 1 => KeyLess(cx, grown[k], s[k])

\* grown is ranked, holds the candidate among its first k and every entry of
\* another set, and only a full list without an entry of the candidate's set
\* overflows, by its old last entry.
Placement(R, cx, k, s, c, grown) ==
  /\ grown \in Seq(R)
  /\ Len(grown) \in 1..Len(s) + 1
  /\ Ranked(cx, grown)
  /\ \A i \in 1..Len(grown) :
       grown[i] = c \/ \E j \in 1..Len(s) : grown[i] = s[j]
  /\ \E q \in 1..Len(grown) : grown[q] = c /\ q <= k
  /\ \A j \in 1..Len(s) :
       s[j].set # c.set => \E i \in 1..Len(grown) : grown[i] = s[j]
  /\ Len(s) = k => Overflow(cx, k, s, grown)

(* Placing a candidate that is not rejected.                               *)
LEMMA PlacedProperties ==
  ASSUME NEW R, Keyed(R), NEW cx, NEW k \in Nat, NEW s \in Seq(R),
         Len(s) <= k, Ranked(cx, s),
         NEW c \in R, ~Rejects(cx, k, s, c),
         NEW kept, IsKept(R, cx, s, c, kept),
         NEW p, Separates(cx, kept, c, p),
         NEW grown, IsGrown(R, kept, p, c, grown)
  PROVE  Placement(R, cx, k, s, c, grown)
<1>0. /\ Len(s) \in Nat /\ DOMAIN s = 1..Len(s)
      /\ \A i \in 1..Len(s) : s[i] \in R
  BY LenProperties, ElementOfSeq
<1>1. /\ k # 0
      /\ Len(s) = k => KeyLess(cx, c, s[k])
      /\ \A i \in SameSet(s, c) : KeyLess(cx, c, s[i])
  BY <1>0 DEF Rejects
<1>2. /\ kept \in Seq(R)
      /\ Ranked(cx, kept)
      /\ \A i \in 1..Len(kept) : kept[i].set # c.set
      /\ \A i \in 1..Len(kept) : \E j \in i..i + 1 :
           j <= Len(s) /\ kept[i] = s[j]
      /\ \A j \in 1..Len(s) : s[j].set # c.set =>
           \E i \in 1..Len(kept) : kept[i] = s[j]
      /\ \/ SameSet(s, c) = {} /\ kept = s
         \/ SameSet(s, c) # {} /\ Len(kept) = Len(s) - 1
  BY DEF IsKept
<1>4. Len(kept) \in Nat /\ \A i \in 1..Len(kept) : kept[i] \in R
  BY <1>2, LenProperties, ElementOfSeq
<1>5. /\ p \in 1..Len(kept) + 1
      /\ \A i \in 1..Len(kept) : KeyLess(cx, kept[i], c) <=> i < p
  BY DEF Separates
<1>6. /\ grown \in Seq(R)
      /\ Len(grown) = Len(kept) + 1
      /\ \A i \in 1..Len(kept) + 1 :
           grown[i] = IF i < p THEN kept[i] ELSE IF i = p THEN c ELSE kept[i - 1]
  BY DEF IsGrown
<1>7. Ranked(cx, grown)
  <2>1. SUFFICES ASSUME NEW i \in 1..Len(kept) + 1, NEW j \in 1..Len(kept) + 1,
                        i < j
                 PROVE  KeyLess(cx, grown[i], grown[j]) /\ grown[i].set # grown[j].set
    BY <1>6 DEF Ranked
  <2>2. CASE j < p
    <3>1. /\ grown[i] = kept[i] /\ i \in 1..Len(kept)
          /\ grown[j] = kept[j] /\ j \in 1..Len(kept)
      <4>1. i < p /\ i \in 1..Len(kept) /\ j \in 1..Len(kept)
        BY <2>1, <2>2, <1>4, <1>5
      <4> QED BY <4>1, <2>2, <1>6
    <3>2. Ranked(cx, kept)  BY <1>2
    <3>3. KeyLess(cx, kept[i], kept[j]) /\ kept[i].set # kept[j].set
      BY <3>1, <3>2, <2>1 DEF Ranked
    <3> QED BY <3>1, <3>3
  <2>3. CASE j = p
    <3>1. grown[i] = kept[i] /\ grown[j] = c /\ i \in 1..Len(kept)
      BY <2>1, <2>3, <1>4, <1>5, <1>6
    <3> QED BY <3>1, <2>1, <2>3, <1>2, <1>5
  <2>4. CASE j > p /\ i = p
    <3>0. grown[i] = c  BY <2>4, <1>6
    <3>1. grown[j] = kept[j - 1] /\ j - 1 \in 1..Len(kept) /\ ~(j - 1 < p)
      BY <2>1, <2>4, <1>4, <1>5, <1>6
    <3>2. ~KeyLess(cx, kept[j - 1], c) /\ kept[j - 1].set # c.set
      BY <3>1, <1>2, <1>5
    <3>3. kept[j - 1] \in R  BY <3>1, <1>4
    <3>4. KeyLess(cx, c, kept[j - 1])  BY <3>2, <3>3, KeyLessIsOrder
    <3> QED BY <3>0, <3>1, <3>2, <3>4
  <2>5. CASE j > p /\ i # p
    <3>1. PICK m \in 1..Len(kept) : ((m = i /\ i < p) \/ m = i - 1) /\ grown[i] = kept[m]
      <4>1. CASE i < p
        BY <4>1, <2>1, <1>4, <1>5, <1>6
      <4>2. CASE i > p
        <5>1. i - 1 \in 1..Len(kept) /\ grown[i] = kept[i - 1]
          BY <4>2, <1>4, <1>5, <1>6
        <5> QED BY <5>1
      <4> QED BY <4>1, <4>2, <2>5, <1>5
    <3>2. grown[j] = kept[j - 1] /\ j - 1 \in 1..Len(kept) /\ m < j - 1
      BY <2>1, <2>5, <3>1, <1>4, <1>5, <1>6
    <3> DEFINE q == j - 1
    <3>3. Ranked(cx, kept)  BY <1>2
    <3>4. q \in 1..Len(kept) /\ m < q /\ grown[j] = kept[q]  BY <3>2
    <3> HIDE DEF q
    <3>5. KeyLess(cx, kept[m], kept[q]) /\ kept[m].set # kept[q].set
      BY <3>3, <3>4 DEF Ranked
    <3> QED BY <3>1, <3>4, <3>5
  <2> QED BY <2>2, <2>3, <2>4, <2>5, <1>5
<1>8. ASSUME NEW i \in 1..Len(grown), grown[i] # c
      PROVE  \E j \in 1..Len(s) : grown[i] = s[j]
  <2>1. PICK m \in 1..Len(kept) : grown[i] = kept[m]
    BY <1>8, <1>4, <1>5, <1>6
  <2>2. PICK j \in m..m + 1 : j <= Len(s) /\ kept[m] = s[j]
    BY <1>2
  <2>3. j \in 1..Len(s)  BY <2>2, <1>0, <1>4
  <2> QED BY <2>1, <2>2, <2>3
<1>9. ASSUME NEW j \in 1..Len(s), s[j].set # c.set
      PROVE  \E i \in 1..Len(grown) : grown[i] = s[j]
  <2>1. PICK m \in 1..Len(kept) : kept[m] = s[j]
    BY <1>2, <1>9
  <2>2. CASE m < p
    BY <2>1, <2>2, <1>4, <1>5, <1>6
  <2>3. CASE ~(m < p)
    <3>1. m + 1 \in 1..Len(kept) + 1 /\ ~(m + 1 < p) /\ m + 1 # p /\ (m + 1) - 1 = m
      BY <2>3, <1>4, <1>5
    <3> QED BY <3>1, <2>1, <1>6
  <2> QED BY <2>2, <2>3
<1>10. Len(grown) \in 1..Len(s) + 1
  <2>1. Len(kept) = Len(s) \/ Len(kept) = Len(s) - 1  BY <1>2
  <2>2. Len(grown) = Len(kept) + 1  BY <1>6
  <2>3. Len(kept) \in Nat /\ Len(s) \in Nat  BY <1>4, <1>0
  <2> QED BY <2>1, <2>2, <2>3
<1>11. grown[p] = c /\ p \in 1..Len(grown)
  BY <1>4, <1>5, <1>6
<1>12. ASSUME Len(s) = k, SameSet(s, c) = {}
       PROVE  /\ Len(grown) = k + 1 /\ p <= k
              /\ grown[k + 1] = s[k] /\ KeyLess(cx, grown[k], s[k])
  <2>1. kept = s  BY <1>12, <1>2
  <2>2. ~KeyLess(cx, s[k], c)
    <3>1. s[k] \in R /\ KeyLess(cx, c, s[k])  BY <1>12, <1>1, <1>0
    <3> QED BY <3>1, KeyLessIsOrder
  <2>3. p <= k  BY <2>1, <2>2, <1>12, <1>1, <1>5, <1>0
  <2>4. grown[k + 1] = s[k]
    BY <2>1, <2>3, <1>12, <1>5, <1>6, <1>0
  <2>5. Len(grown) = k + 1  BY <2>1, <1>12, <1>6
  <2>6. KeyLess(cx, grown[k], grown[k + 1])
    BY <1>7, <2>5, <1>1, <1>12, <1>0 DEF Ranked
  <2> QED BY <2>3, <2>4, <2>5, <2>6
<1>13. ASSUME Len(s) = k, SameSet(s, c) # {}
       PROVE  /\ Len(grown) = k
              /\ KeyLess(cx, grown[k], s[k]) \/ grown[k] = s[k]
  <2>1. Len(kept) = k - 1 /\ Len(grown) = k
    BY <1>13, <1>2, <1>0, <1>6
  <2>2. CASE p = k
    BY <2>1, <2>2, <1>11, <1>1, <1>13
  <2>3. CASE p < k
    <3>1. grown[k] = kept[k - 1] /\ k - 1 \in 1..Len(kept)
      <4>1. k \in 1..Len(kept) + 1 /\ ~(k < p) /\ k # p /\ k - 1 \in 1..Len(kept)
        BY <2>1, <2>3, <1>0, <1>1, <1>5
      <4> QED BY <4>1, <1>6
    <3>2. PICK j \in (k - 1)..k : kept[k - 1] = s[j] /\ j \in 1..Len(s)
      BY <3>1, <1>2, <1>0, <1>1, <1>13
    <3>3. KeyLess(cx, s[j], s[k]) \/ j = k
      BY <3>2, <1>13, <1>0, <1>1 DEF Ranked
    <3> QED BY <2>1, <3>1, <3>2, <3>3
  <2> QED BY <2>1, <2>2, <2>3, <1>5
<1>14. p <= k
  <2>1. CASE Len(s) = k
    <3>1. CASE SameSet(s, c) = {}  BY <2>1, <3>1, <1>12
    <3>2. CASE SameSet(s, c) # {}  BY <2>1, <3>2, <1>13, <1>11
    <3> QED BY <3>1, <3>2
  <2>2. CASE Len(s) # k
    BY <2>2, <1>0, <1>10, <1>11
  <2> QED BY <2>1, <2>2
<1>15. Len(s) = k => Overflow(cx, k, s, grown)
  BY <1>12, <1>13 DEF Overflow
<1>16. \A i \in 1..Len(grown) : grown[i] = c \/ \E j \in 1..Len(s) : grown[i] = s[j]
  BY <1>8
<1>17. \A j \in 1..Len(s) : s[j].set # c.set =>
         \E i \in 1..Len(grown) : grown[i] = s[j]
  BY <1>9
<1>18. \E q \in 1..Len(grown) : grown[q] = c /\ q <= k
  BY <1>11, <1>14
<1>19. grown \in Seq(R)  BY <1>6
<1> QED BY <1>7, <1>10, <1>15, <1>16, <1>17, <1>18, <1>19, Zenon DEF Placement

\* What inserting c into s promises of the new list t.
Inserted(R, cx, k, s, c, t) ==
  /\ t \in Seq(R)
  /\ Len(t) <= k
  /\ Ranked(cx, t)
  /\ \A i \in 1..Len(t) : t[i] = c \/ \E j \in 1..Len(s) : t[i] = s[j]
  /\ Covers(cx, k, t, c)
  /\ \A o \in R : Covers(cx, k, s, o) => Covers(cx, k, t, o)

(* A rejected candidate was covered already.                               *)
LEMMA RejectedIsCovered ==
  ASSUME NEW R, Keyed(R), NEW cx, NEW k \in Nat, NEW s \in Seq(R),
         Len(s) <= k, Ranked(cx, s),
         NEW c \in R, Rejects(cx, k, s, c)
  PROVE  Covers(cx, k, s, c)
<1>0. /\ Len(s) \in Nat /\ DOMAIN s = 1..Len(s)
      /\ \A i \in 1..Len(s) : s[i] \in R
  BY LenProperties, ElementOfSeq
<1>1. CASE k = 0
  <2>1. Len(s) \in Nat  BY <1>0
  <2>2. Len(s) = k  BY <2>1, <1>1
  <2>3. k # 0 => KeyLess(cx, s[k], c)  BY <1>1
  <2> QED BY <2>2, <2>3, Zenon DEF Covers
<1>2. CASE k # 0 /\ Len(s) >= k /\ ~KeyLess(cx, c, s[Len(s)])
  <2>n. Len(s) \in Nat  BY <1>0
  <2>1. Len(s) = k /\ k \in 1..Len(s)  BY <1>2, <2>n
  <2>2. CASE KeyLess(cx, s[k], c)
    BY <2>1, <2>2 DEF Covers
  <2>3. CASE ~KeyLess(cx, s[k], c)
    <3>1. s[k].set = c.set  BY <2>1, <2>3, <1>2, <1>0, KeyLessIsOrder
    <3> QED BY <3>1, <2>1, <2>3, <1>2 DEF Covers
  <2> QED BY <2>2, <2>3
<1>3. CASE \E i \in SameSet(s, c) : ~KeyLess(cx, c, s[i])
  BY <1>3, <1>0 DEF Covers, SameSet
<1> QED BY <1>1, <1>2, <1>3 DEF Rejects

(* The first k entries of the grown list keep what the old list promised.  *)
LEMMA RetainedIsInserted ==
  ASSUME NEW R, Keyed(R), NEW cx, NEW k \in Nat, NEW s \in Seq(R),
         Len(s) <= k, Ranked(cx, s),
         NEW c \in R, ~Rejects(cx, k, s, c),
         NEW grown, Placement(R, cx, k, s, c, grown),
         NEW t \in Seq(R),
         Len(t) = IF Len(grown) > k THEN Len(grown) - 1 ELSE Len(grown),
         \A i \in 1..Len(t) : t[i] = grown[i]
  PROVE  Inserted(R, cx, k, s, c, t)
<1>n. Len(s) \in Nat /\ Len(t) \in Nat
  BY LenProperties
<1>0. /\ DOMAIN s = 1..Len(s)
      /\ \A i \in 1..Len(s) : s[i] \in R
      /\ \A i \in 1..Len(t) : t[i] \in R
  BY LenProperties, ElementOfSeq
<1>1. grown \in Seq(R) /\ Len(grown) \in 1..Len(s) + 1 /\ Ranked(cx, grown)
  BY DEF Placement
<1>g. Len(grown) \in Nat /\ Len(grown) <= Len(s) + 1
  BY <1>1, <1>n
<1>2. \A i \in 1..Len(grown) : grown[i] \in R
  BY <1>1, ElementOfSeq
<1>3. \/ Len(t) = Len(grown) /\ Len(grown) <= k
      \/ Len(t) = k /\ Len(grown) = k + 1 /\ Len(s) = k
  BY <1>n, <1>g
<1>4. 1..Len(t) \subseteq 1..Len(grown) /\ Len(t) <= k
  BY <1>n, <1>g, <1>3
<1>5. Ranked(cx, t)
  BY <1>1, <1>4 DEF Ranked
<1>6. \A i \in 1..Len(t) : t[i] = c \/ \E j \in 1..Len(s) : t[i] = s[j]
  BY <1>4 DEF Placement
<1>7. PICK q \in 1..Len(t) : t[q] = c
  <2>1. PICK q \in 1..Len(grown) : grown[q] = c /\ q <= k
    BY DEF Placement
  <2>2. q \in 1..Len(t)  BY <2>1, <1>n, <1>g, <1>3
  <2> QED BY <2>1, <2>2
<1>8. Covers(cx, k, t, c)
  BY <1>7, KeyLessIsOrder DEF Covers
<1>9. ASSUME NEW o \in R, NEW i \in 1..Len(s),
             s[i].set = o.set, ~KeyLess(cx, o, s[i])
      PROVE  Covers(cx, k, t, o)
  <2>1. CASE s[i].set = c.set
    <3>1. KeyLess(cx, c, s[i])
      BY <2>1, <1>0 DEF Rejects, SameSet
    <3>2. ~KeyLess(cx, o, c)
      BY <3>1, <1>9, <1>0, KeyLessIsOrder
    <3> QED BY <3>2, <2>1, <1>9, <1>7 DEF Covers
  <2>2. CASE s[i].set # c.set
    <3>1. PICK m \in 1..Len(grown) : grown[m] = s[i]
      BY <2>2 DEF Placement
    <3>2. CASE m \in 1..Len(t)
      BY <3>1, <3>2, <1>9 DEF Covers
    <3>3. CASE m \notin 1..Len(t)
      <4>1. Len(t) = k /\ Len(grown) = k + 1 /\ m = k + 1
        BY <3>3, <1>n, <1>g, <1>3
      <4>2. ASSUME k # 0 PROVE KeyLess(cx, t[k], o)
        <5>1. k \in 1..Len(t) /\ k \in 1..Len(grown) /\ k < m
          BY <4>1, <4>2
        <5>2. KeyLess(cx, t[k], s[i])
          BY <5>1, <4>1, <3>1, <1>1 DEF Ranked
        <5> QED BY <5>1, <5>2, <1>9, <1>0, KeyLessIsOrder
      <4> QED BY <4>1, <4>2 DEF Covers
    <3> QED BY <3>2, <3>3
  <2> QED BY <2>1, <2>2
<1>10. ASSUME NEW o \in R, Len(s) = k, k # 0 => KeyLess(cx, s[k], o)
       PROVE  Covers(cx, k, t, o)
  <2>1. Overflow(cx, k, s, grown)  BY <1>10 DEF Placement
  <2>2. Len(t) = k
    <3>1. Len(grown) \in k..k + 1  BY <2>1 DEF Overflow
    <3> QED BY <3>1, <1>3, <1>g
  <2>3. ASSUME k # 0 PROVE KeyLess(cx, t[k], o)
    <3>1. k \in 1..Len(t) /\ k \in 1..Len(s)  BY <2>2, <2>3, <1>10
    <3>2. KeyLess(cx, t[k], s[k]) \/ t[k] = s[k]  BY <2>1, <3>1 DEF Overflow
    <3> QED BY <3>1, <3>2, <2>3, <1>10, <1>0, KeyLessIsOrder
  <2> QED BY <2>2, <2>3 DEF Covers
<1>11. ASSUME NEW o \in R, Covers(cx, k, s, o) PROVE Covers(cx, k, t, o)
  BY <1>9, <1>10, <1>11 DEF Covers
<1> QED BY <1>4, <1>5, <1>6, <1>8, <1>11 DEF Inserted

(* insert keeps the promise in every case.                                 *)
LEMMA InsertCorrect ==
  ASSUME NEW R, Keyed(R), NEW cx, NEW k \in Nat, NEW s \in Seq(R),
         Len(s) <= k, Ranked(cx, s), NEW c \in R
  PROVE  Inserted(R, cx, k, s, c, Insert(cx, k, s, c))
<1>1. CASE Rejects(cx, k, s, c)
  <2>1. Insert(cx, k, s, c) = s  BY <1>1 DEF Insert
  <2>2. Covers(cx, k, s, c)  BY <1>1, RejectedIsCovered
  <2> QED BY <2>1, <2>2 DEF Inserted
<1>2. CASE ~Rejects(cx, k, s, c)
  <2> DEFINE kept == Without(s, SameSet(s, c))
             p == PartitionPoint(cx, kept, c)
             grown == InsertAt(kept, p, c)
             t == IF Len(grown) > k THEN Front(grown) ELSE grown
  <2>1. Insert(cx, k, s, c) = t  BY <1>2 DEF Insert, Placed
  <2>2. IsKept(R, cx, s, c, kept)  BY KeptProperties
  <2> HIDE DEF kept
  <2>3. kept \in Seq(R) /\ Ranked(cx, kept)  BY <2>2 DEF IsKept
  <2>4. Separates(cx, kept, c, p)
    BY <2>3, PartitionPointProperties DEF Separates
  <2> HIDE DEF p
  <2>5. IsGrown(R, kept, p, c, grown)
    BY <2>3, <2>4, InsertAtProperties DEF IsGrown, Separates
  <2> HIDE DEF grown
  <2>6. Placement(R, cx, k, s, c, grown)
    BY <1>2, <2>2, <2>4, <2>5, PlacedProperties
  <2>7. grown \in Seq(R) /\ Len(grown) \in 1..Len(s) + 1
    BY <2>6 DEF Placement
  <2>8. /\ t \in Seq(R)
        /\ Len(t) = IF Len(grown) > k THEN Len(grown) - 1 ELSE Len(grown)
        /\ \A i \in 1..Len(t) : t[i] = grown[i]
    BY <2>7, LenProperties, FrontProperties
  <2> HIDE DEF t
  <2>9. Inserted(R, cx, k, s, c, t)
    BY <1>2, <2>6, <2>8, RetainedIsInserted
  <2> QED BY <2>1, <2>9
<1> QED BY <1>1, <1>2

-----------------------------------------------------------------------------
(* A ranked list that covers everything offered is the canonical answer.     *)

(* Membership in the canonical answer is membership in such a list.        *)
LEMMA CoveringListIsCanonical ==
  ASSUME NEW R, ResultSet(R), NEW cx, NEW k \in Nat, NEW s \in Seq(R),
         Len(s) <= k, Ranked(cx, s),
         NEW S \in SUBSET R, IsFiniteSet(S), ToSet(s) \subseteq S,
         \A o \in S : Covers(cx, k, s, o)
  PROVE  ToSet(s) = CanonicalTopK(cx, k, S)
<1> DEFINE reps == Representatives(cx, S)
           Better(r) == {o \in reps : KeyLess(cx, o, r)}
<1>n. Len(s) \in Nat
  BY LenProperties
<1>0. /\ \A i \in 1..Len(s) : s[i] \in R /\ s[i] \in S
      /\ \A x \in ToSet(s) : \E i \in 1..Len(s) : x = s[i]
      /\ \A i \in 1..Len(s) : s[i] \in ToSet(s)
  BY LenProperties, ElementOfSeq DEF ToSet
<1>1. ASSUME NEW i \in 1..Len(s) PROVE s[i] \in reps
  <2>1. SUFFICES ASSUME NEW o \in S, o.set = s[i].set
                 PROVE  ~KeyLess(cx, o, s[i])
    BY <1>0 DEF Representatives
  <2>2. ASSUME NEW j \in 1..Len(s), s[j].set = o.set, ~KeyLess(cx, o, s[j])
        PROVE  ~KeyLess(cx, o, s[i])
    <3>1. i = j  BY <2>1, <2>2, <1>n DEF Ranked
    <3> QED BY <3>1, <2>2
  <2>3. ASSUME Len(s) = k, k # 0 => KeyLess(cx, s[k], o)
        PROVE  ~KeyLess(cx, o, s[i])
    <3>1. k \in 1..Len(s) /\ i <= k  BY <2>3, <1>n
    <3>2. KeyLess(cx, s[i], s[k]) \/ s[i] = s[k]
      BY <3>1, <1>n DEF Ranked
    <3> QED BY <3>1, <3>2, <2>3, <1>0, KeyLessIsTotalOrder
  <2> QED BY <2>2, <2>3 DEF Covers
<1>2. ASSUME NEW r \in reps
      PROVE  \/ \E j \in 1..Len(s) : r = s[j]
             \/ Len(s) = k /\ (k # 0 => KeyLess(cx, s[k], r))
  <2>1. r \in S /\ r \in R /\ \A o \in S : o.set = r.set => ~KeyLess(cx, o, r)
    BY DEF Representatives
  <2>2. ASSUME NEW j \in 1..Len(s), s[j].set = r.set, ~KeyLess(cx, r, s[j])
        PROVE  r = s[j]
    BY <2>1, <2>2, <1>0, KeyLessIsTotalOrder
  <2> QED BY <2>1, <2>2 DEF Covers
<1>3. reps \subseteq S  BY DEF Representatives
<1>a. \A o, r \in R : ~(KeyLess(cx, o, r) /\ KeyLess(cx, r, o))
  BY KeyLessIsTotalOrder
<1>c. CanonicalTopK(cx, k, S) = {r \in reps : Cardinality(Better(r)) < k}
  BY DEF CanonicalTopK
<1> HIDE DEF reps
<1>b. ASSUME NEW r PROVE IsFiniteSet(Better(r)) /\ Better(r) \subseteq S
  <2>1. Better(r) \in SUBSET S  BY <1>3
  <2> HIDE DEF Better
  <2> QED BY <2>1, FS_Subset
<1>4. ASSUME NEW i \in 1..Len(s) PROVE s[i] \in CanonicalTopK(cx, k, S)
  <2> DEFINE f == [j \in 1..i - 1 |-> s[j]]
  <2>1. i - 1 \in Nat /\ i - 1 < k  BY <1>n
  <2>2. ASSUME NEW o \in Better(s[i]) PROVE \E j \in 1..i - 1 : f[j] = o
    <3>1. o \in reps /\ KeyLess(cx, o, s[i]) /\ o \in R
      BY <2>2, <1>3
    <3>2. ASSUME NEW j \in 1..Len(s), o = s[j] PROVE j \in 1..i - 1
      <4>1. j # i  BY <3>1, <3>2, <1>0, KeyLessIsTotalOrder
      <4>2. ~(j > i)
        <5>1. ASSUME j > i PROVE FALSE
          <6>1. KeyLess(cx, s[i], o)  BY <5>1, <3>2 DEF Ranked
          <6>2. s[i] \in R /\ o \in R  BY <3>1, <1>0
          <6> QED BY <6>1, <6>2, <3>1, <1>a
        <5> QED BY <5>1
      <4> QED BY <4>1, <4>2, <1>n
    <3>3. ~(Len(s) = k /\ (k # 0 => KeyLess(cx, s[k], o)))
      <4>1. ASSUME Len(s) = k, k # 0 => KeyLess(cx, s[k], o) PROVE FALSE
        <5>1. k \in 1..Len(s) /\ i <= k  BY <4>1, <1>n
        <5>2. KeyLess(cx, s[i], s[k]) \/ s[i] = s[k]
          BY <5>1, <1>n DEF Ranked
        <5> QED BY <5>1, <5>2, <4>1, <3>1, <1>0, KeyLessIsTotalOrder
      <4> QED BY <4>1
    <3>4. PICK j \in 1..Len(s) : o = s[j]  BY <1>2, <3>1, <3>3
    <3> QED BY <3>2, <3>4
  <2>3. Cardinality(Better(s[i])) <= i - 1
    <3> HIDE DEF Better
    <3>1. f = [j \in 1..i - 1 |-> f[j]] /\ DOMAIN f = 1..i - 1  OBVIOUS
    <3> HIDE DEF f
    <3> QED BY <2>1, <2>2, <3>1, ImageCardinality
  <2>4. Cardinality(Better(s[i])) \in Nat
    <3> HIDE DEF Better
    <3> QED BY <1>b, FS_CardinalityType
  <2> QED BY <2>1, <2>3, <2>4, <1>1, <1>c
<1>5. ASSUME NEW r \in reps, Cardinality(Better(r)) < k
      PROVE  \E j \in 1..Len(s) : r = s[j]
  <2>1. SUFFICES ASSUME Len(s) = k, k # 0 => KeyLess(cx, s[k], r)
                 PROVE  FALSE
    BY <1>2, <1>5
  <2>2. r \in R  BY <1>3
  <2> DEFINE f == [j \in 1..k |-> s[j]]
  <2>3. ASSUME NEW j \in 1..k PROVE s[j] \in Better(r)
    <3>1. k \in 1..Len(s) /\ j \in 1..Len(s) /\ j <= k  BY <2>1
    <3>2. KeyLess(cx, s[j], s[k]) \/ s[j] = s[k]
      BY <3>1 DEF Ranked
    <3>3. KeyLess(cx, s[j], r)
      BY <3>1, <3>2, <2>1, <2>2, <1>0, KeyLessIsTotalOrder
    <3> QED BY <3>1, <3>3, <1>1
  <2>4. f \in [1..k -> Better(r)]  BY <2>3
  <2>5. \A i, j \in 1..k : f[i] = f[j] => i = j
    <3>1. ASSUME NEW i \in 1..k, NEW j \in 1..k, i < j PROVE s[i] # s[j]
      BY <3>1, <2>1 DEF Ranked
    <3> QED BY <3>1
  <2> HIDE DEF f, Better
  <2>6. k <= Cardinality(Better(r))
    BY <2>4, <2>5, <1>b, DistinctCardinality
  <2>7. Cardinality(Better(r)) \in Nat
    BY <1>b, FS_CardinalityType
  <2> QED BY <2>6, <2>7, <1>5
<1>6. ToSet(s) \subseteq CanonicalTopK(cx, k, S)
  BY <1>0, <1>4
<1>7. CanonicalTopK(cx, k, S) \subseteq ToSet(s)
  BY <1>0, <1>5, <1>c
<1> QED BY <1>6, <1>7

-----------------------------------------------------------------------------
(* Representatives and ranks.                                                *)

(* Every result of a finite set has a representative that is at least as   *)
(* good.                                                                   *)
LEMMA RepresentativeExists ==
  ASSUME NEW R, ResultSet(R), NEW cx, NEW S \in SUBSET R, IsFiniteSet(S), NEW o \in S
  PROVE  \E q \in Representatives(cx, S) :
           q.set = o.set /\ ~KeyLess(cx, o, q)
<1> DEFINE Mates == {x \in S : x.set = o.set /\ ~KeyLess(cx, o, x)}
           Ahead(x) == {y \in Mates : KeyLess(cx, y, x)}
           Heights == {Cardinality(Ahead(x)) : x \in Mates}
<1>1. o \in Mates
  BY KeyLessIsTotalOrder
<1>2. IsFiniteSet(Mates)
  <2>1. Mates \in SUBSET S  OBVIOUS
  <2> QED BY <2>1, FS_Subset
<1>3. ASSUME NEW x \in Mates PROVE IsFiniteSet(Ahead(x)) /\ Cardinality(Ahead(x)) \in Nat
  <2>1. Ahead(x) \in SUBSET Mates  OBVIOUS
  <2>2. IsFiniteSet(Ahead(x))
    <3> HIDE DEF Ahead, Mates
    <3> QED BY <2>1, <1>2, FS_Subset
  <2> HIDE DEF Ahead, Mates
  <2> QED BY <2>2, FS_CardinalityType
<1>4. Heights \subseteq Nat /\ Heights # {}
  <2> HIDE DEF Mates, Ahead
  <2> QED BY <1>1, <1>3
<1>5. PICK n \in Heights : \A m \in Heights : n <= m
  <2> HIDE DEF Heights
  <2> QED BY <1>4, LeastNatural
<1>6. PICK q \in Mates : n = Cardinality(Ahead(q))
  OBVIOUS
<1>7. ASSUME NEW y \in S, y.set = q.set, KeyLess(cx, y, q) PROVE FALSE
  <2>1. q \in R /\ y \in R /\ o \in R /\ q.set = o.set
    OBVIOUS
  <2>2. y \in Mates
    BY <2>1, <1>7, KeyLessIsTotalOrder
  <2>3. Ahead(y) \in SUBSET Ahead(q)
    BY <2>1, <2>2, <1>7, KeyLessIsTotalOrder
  <2>4. y \in Ahead(q) /\ y \notin Ahead(y)
    BY <2>1, <2>2, <1>7, KeyLessIsTotalOrder
  <2>5. Cardinality(Ahead(q)) <= Cardinality(Ahead(y))
    BY <2>2, <1>5, <1>6
  <2>6. IsFiniteSet(Ahead(q)) /\ Cardinality(Ahead(q)) \in Nat /\ Cardinality(Ahead(y)) \in Nat
    BY <1>3, <2>2
  <2> HIDE DEF Ahead, Mates
  <2>7. /\ Cardinality(Ahead(y)) <= Cardinality(Ahead(q))
        /\ Cardinality(Ahead(q)) = Cardinality(Ahead(y)) => Ahead(q) = Ahead(y)
    BY <2>3, <2>6, FS_Subset
  <2> QED BY <2>4, <2>5, <2>6, <2>7
<1> QED BY <1>7 DEF Representatives

(* A rank is a number that orders MySekai results as (value, power) does.  *)
LEMMA RankOrder ==
  ASSUME NEW B \in Nat, NEW a \in Nat, NEW b \in Nat, NEW p \in Nat, NEW q \in Nat,
         p < B, q < B
  PROVE  a * B + p < b * B + q <=> a < b \/ (a = b /\ p < q)
<1>1. B \in Nat /\ B > 0  OBVIOUS
<1>2. CASE a < b
  <2>1. a + 1 <= b  BY <1>2
  <2>2. (a + 1) * B <= b * B  BY <2>1, <1>1
  <2>3. (a + 1) * B = a * B + B  BY <1>1
  <2>4. a * B \in Nat /\ b * B \in Nat  BY <1>1
  <2> QED BY <1>1, <1>2, <2>2, <2>3, <2>4
<1>3. CASE b < a
  <2>1. b + 1 <= a  BY <1>3
  <2>2. (b + 1) * B <= a * B  BY <2>1, <1>1
  <2>3. (b + 1) * B = b * B + B  BY <1>1
  <2>4. a * B \in Nat /\ b * B \in Nat  BY <1>1
  <2> QED BY <1>1, <1>3, <2>2, <2>3, <2>4
<1>4. CASE a = b
  <2>1. a * B \in Nat  BY <1>1
  <2> QED BY <1>4, <2>1
<1> QED BY <1>2, <1>3, <1>4

-----------------------------------------------------------------------------
(* Lists sorted by key.                                                      *)

\* The ranking of the results in S.
KeyOrder(cx, S) == {p \in S \X S : KeyLess(cx, p[1], p[2])}

\* The results in S from the best to the worst.
KeySorted(cx, S) == SortedBy(S, LAMBDA a, b : KeyLess(cx, a, b))

(* It is a strict total order, whose ranks count better results.           *)
LEMMA KeyOrderOrders ==
  ASSUME NEW R, ResultSet(R), NEW cx, NEW S \in SUBSET R
  PROVE  /\ Orders(KeyOrder(cx, S), S)
         /\ \A x, y \in S : <<x, y>> \in KeyOrder(cx, S) <=> KeyLess(cx, x, y)
         /\ \A x \in S :
              RankIn(KeyOrder(cx, S), S, x) = Cardinality({y \in S : KeyLess(cx, y, x)})
<1> DEFINE L == KeyOrder(cx, S)
<1>1. \A x, y \in S : <<x, y>> \in L <=> KeyLess(cx, x, y)
  BY Zenon DEF KeyOrder
<1> HIDE DEF L
<1>2. Orders(L, S)
  BY <1>1, KeyLessIsTotalOrder DEF Orders
<1>3. ASSUME NEW x \in S
      PROVE  RankIn(L, S, x) = Cardinality({y \in S : KeyLess(cx, y, x)})
  <2>1. {y \in S : <<y, x>> \in L} = {y \in S : KeyLess(cx, y, x)}
    BY <1>1
  <2> QED BY <2>1 DEF RankIn
<1> QED BY <1>1, <1>2, <1>3 DEF L

(* Sorting a finite set of results by key lists it in that order.          *)
LEMMA SortedByKey ==
  ASSUME NEW R, ResultSet(R), NEW cx, NEW S \in SUBSET R, IsFiniteSet(S)
  PROVE  Lists(KeyOrder(cx, S), S, KeySorted(cx, S))
<1> DEFINE L == KeyOrder(cx, S)
           n == Cardinality(S)
           Weight(x) == Cardinality({y \in S : KeyLess(cx, y, x)})
           o == [i \in 1..n |-> CHOOSE x \in S : Weight(x) = i - 1]
           E == KeySorted(cx, S)
<1>1. Orders(L, S) /\ \A x \in S : RankIn(L, S, x) = Weight(x)
  BY KeyOrderOrders
<1>2. E = SubSeq(o, 1, n)
  BY Zenon DEF KeySorted, SortedBy
<1> HIDE DEF Weight, L
<1>3. n \in Nat /\ \A i \in 0..n - 1 : \E x \in S : RankIn(L, S, x) = i
  BY <1>1, Ranks
<1>4. \A i \in 1..n : \E x \in S : Weight(x) = i - 1
  <2> SUFFICES ASSUME NEW i \in 1..n PROVE \E x \in S : Weight(x) = i - 1
    OBVIOUS
  <2>1. i - 1 \in 0..n - 1  BY <1>3
  <2> QED BY <2>1, <1>1, <1>3
<1>5. \A i \in 1..n : /\ (CHOOSE x \in S : Weight(x) = i - 1) \in S
                      /\ Weight(CHOOSE x \in S : Weight(x) = i - 1) = i - 1
  BY <1>4, Zenon
<1>6. o \in [1..n -> S] /\ \A i \in 1..n : Weight(o[i]) = i - 1
  BY <1>5, Zenon
<1> HIDE DEF o
<1>7. GivesRanks(L, S, o)
  BY <1>1, <1>6 DEF GivesRanks
<1>8. Lists(L, S, E)
  BY <1>1, <1>2, <1>7, SortedByRank
<1> QED BY <1>8 DEF L

(* A ranked list is its entries sorted by key.                             *)
LEMMA RankedIsSorted ==
  ASSUME NEW R, ResultSet(R), NEW cx, NEW s \in Seq(R), Ranked(cx, s),
         NEW S, S = ToSet(s)
  PROVE  s = KeySorted(cx, S)
<1> DEFINE L == KeyOrder(cx, S)
           n == Len(s)
           f == [i \in 1..n |-> s[i]]
           E == KeySorted(cx, S)
<1>1. /\ n \in Nat /\ \A i \in 1..n : s[i] \in R /\ s[i] \in S
      /\ \A x \in S : \E i \in 1..n : s[i] = x
  BY LenProperties, ElementOfSeq DEF ToSet
<1>2. S \in SUBSET R
  BY <1>1
<1>3. \A i, j \in 1..n : i < j => KeyLess(cx, s[i], s[j])
  BY DEF Ranked
<1>4. Orders(L, S) /\ \A x, y \in S : <<x, y>> \in L <=> KeyLess(cx, x, y)
  BY <1>2, KeyOrderOrders
<1> HIDE DEF L
<1>o. \A i, j \in 1..n : i < j \/ j < i \/ i = j
  <2>1. n \in Int  BY <1>1
  <2> HIDE DEF n
  <2> QED BY <2>1
<1>5. ASSUME NEW i \in 1..n, NEW j \in 1..n, s[i] = s[j] PROVE i = j
  BY <1>1, <1>3, <1>5, <1>o, KeyLessIsTotalOrder
<1>6. ASSUME NEW i \in 1..n, NEW j \in 1..n PROVE i < j <=> <<s[i], s[j]>> \in L
  <2>1. i < j => KeyLess(cx, s[i], s[j])  BY <1>3
  <2>2. j < i => KeyLess(cx, s[j], s[i])  BY <1>3
  <2>3. s[i] \in R /\ s[j] \in R /\ s[i] \in S /\ s[j] \in S  BY <1>1
  <2>4. KeyLess(cx, s[i], s[j]) => ~KeyLess(cx, s[j], s[i]) /\ s[i] # s[j]
    BY <2>3, KeyLessIsTotalOrder
  <2>5. KeyLess(cx, s[i], s[j]) => i < j
    BY <2>2, <2>4, <1>o
  <2> QED BY <2>1, <2>3, <2>5, <1>4
<1>7. S = {f[i] : i \in 1..n} /\ \A i, j \in 1..n : f[i] = f[j] => i = j
  <2>1. \A i \in 1..n : f[i] = s[i]  OBVIOUS
  <2> HIDE DEF f, n
  <2> QED BY <2>1, <1>1, <1>5
<1>8. IsFiniteSet(1..n) /\ Cardinality(1..n) = n
  <2>1. /\ IsFiniteSet(1..n) /\ Cardinality(1..n) = IF 1 > n THEN 0 ELSE n - 1 + 1
    BY <1>1, FS_Interval
  <2> HIDE DEF n
  <2> QED BY <2>1, <1>1
<1>9. IsFiniteSet(S) /\ Cardinality(S) = n
  <2> HIDE DEF f, n
  <2>1. /\ IsFiniteSet({f[i] : i \in 1..n})
        /\ Cardinality({f[i] : i \in 1..n}) = Cardinality(1..n)
    <3> DEFINE D == 1..n
    <3>1. IsFiniteSet(D) /\ \A i, j \in D : f[i] = f[j] => i = j
      BY <1>7, <1>8
    <3> HIDE DEF D
    <3>2. IsFiniteSet({f[i] : i \in D}) /\ Cardinality({f[i] : i \in D}) = Cardinality(D)
      BY <3>1, ValuesOfDistinct
    <3> QED BY <3>2 DEF D
  <2> QED BY <2>1, <1>7, <1>8, Zenon
<1>10. s \in Seq(S)
  BY <1>1, SeqOfEntries
<1>11. Lists(L, S, s)
  BY <1>1, <1>5, <1>6, <1>9, <1>10 DEF Lists
<1>12. Lists(L, S, E)
  BY <1>2, <1>9, SortedByKey DEF L
<1> HIDE DEF E
<1>13. s = E
  BY <1>4, <1>9, <1>11, <1>12, OneList
<1> QED BY <1>13 DEF E

\* t is a list of at most k of the results in S that speaks for all of them.
Speaks(cx, k, S, t) ==
  /\ t \in Seq(S) /\ Len(t) \in Nat /\ Len(t) <= k
  /\ Ranked(cx, t)
  /\ \A o \in S : Covers(cx, k, t, o)

(* The canonical answer, sorted, speaks for the results it is taken from.  *)
LEMMA CanonicalListed ==
  ASSUME NEW R, ResultSet(R), NEW cx, NEW k \in Nat,
         NEW S \in SUBSET R, IsFiniteSet(S),
         NEW t, t = KeySorted(cx, CanonicalTopK(cx, k, S))
  PROVE  Speaks(cx, k, S, t) /\ ToSet(t) = CanonicalTopK(cx, k, S)
<1> DEFINE reps == Representatives(cx, S)
           L == KeyOrder(cx, reps)
           C == CanonicalTopK(cx, k, S)
           M == KeyOrder(cx, C)
           n == Cardinality(reps)
<1>1. /\ reps \in SUBSET S /\ reps \in SUBSET R
      /\ \A x, y \in reps : x.set = y.set => x = y
  <2>1. reps \in SUBSET S  BY DEF Representatives
  <2>2. ASSUME NEW x \in reps, NEW y \in reps, x.set = y.set PROVE x = y
    <3>1. x \in R /\ y \in R /\ ~KeyLess(cx, y, x) /\ ~KeyLess(cx, x, y)
      BY <2>2 DEF Representatives
    <3> QED BY <3>1, KeyLessIsTotalOrder
  <2> QED BY <2>1, <2>2
<1>2. IsFiniteSet(reps)
  BY <1>1, FS_Subset
<1>3. C = {r \in reps : Cardinality({o \in reps : KeyLess(cx, o, r)}) < k}
  BY Zenon DEF CanonicalTopK
<1> HIDE DEF reps, L, C
<1>4. /\ Orders(L, reps)
      /\ \A x, y \in reps : <<x, y>> \in L <=> KeyLess(cx, x, y)
      /\ \A x \in reps : RankIn(L, reps, x) = Cardinality({o \in reps : KeyLess(cx, o, x)})
  BY <1>1, KeyOrderOrders DEF L
<1>5. C = {x \in reps : RankIn(L, reps, x) < k}
  BY <1>3, <1>4
<1>6. C \in SUBSET reps /\ C \in SUBSET R /\ C \in SUBSET S
  BY <1>1, <1>5
<1>7. IsFiniteSet(C) /\ Cardinality(C) \in Nat /\ n \in Nat
  BY <1>2, <1>6, FS_Subset, FS_CardinalityType
<1>8. k <= n => Cardinality(C) = k
  BY <1>2, <1>4, <1>5, FirstRanks
<1>9. \A x \in reps : RankIn(L, reps, x) \in Nat /\ RankIn(L, reps, x) < n
  <2>1. \A x \in reps : RankIn(L, reps, x) \in 0..n - 1
    BY <1>2, <1>4, Ranks
  <2> QED BY <2>1, <1>7
<1>10. ~(k <= n) => C = reps
  BY <1>5, <1>7, <1>9
<1>11. Cardinality(C) <= k
  BY <1>7, <1>8, <1>10
<1>12. Lists(M, C, t) /\ \A x, y \in C : <<x, y>> \in M <=> KeyLess(cx, x, y)
  <2>1. Lists(KeyOrder(cx, C), C, KeySorted(cx, C))
    BY <1>6, <1>7, SortedByKey
  <2>2. \A x, y \in C : <<x, y>> \in KeyOrder(cx, C) <=> KeyLess(cx, x, y)
    BY <1>6, KeyOrderOrders
  <2> QED BY <2>1, <2>2 DEF C
<1> HIDE DEF M
<1>13. /\ t \in Seq(C) /\ Len(t) = Cardinality(C) /\ Len(t) \in Nat
       /\ \A i, j \in 1..Len(t) : i < j <=> <<t[i], t[j]>> \in M
       /\ \A i, j \in 1..Len(t) : t[i] = t[j] => i = j
       /\ \A x \in C : \E i \in 1..Len(t) : t[i] = x
       /\ \A i \in 1..Len(t) : t[i] \in C
  BY <1>12, ElementOfSeq DEF Lists
<1>14. Ranked(cx, t)
  <2> SUFFICES ASSUME NEW i \in 1..Len(t), NEW j \in 1..Len(t), i < j
               PROVE  KeyLess(cx, t[i], t[j]) /\ t[i].set # t[j].set
    BY DEF Ranked
  <2>1. i # j  BY <1>13
  <2>2. t[i] \in C /\ t[j] \in C /\ t[i] # t[j]  BY <1>13, <2>1
  <2> QED BY <2>2, <1>1, <1>6, <1>12, <1>13
<1>15. ASSUME NEW o \in S PROVE Covers(cx, k, t, o)
  <2>1. PICK q \in reps : q.set = o.set /\ ~KeyLess(cx, o, q)
    BY RepresentativeExists DEF reps
  <2>2. CASE q \in C
    <3>1. PICK i \in 1..Len(t) : t[i] = q  BY <2>2, <1>13
    <3> QED BY <3>1, <2>1 DEF Covers
  <2>3. CASE q \notin C
    <3>1. ~(RankIn(L, reps, q) < k)  BY <2>3, <1>5
    <3>2. k <= n  BY <3>1, <1>7, <1>9
    <3>3. Len(t) = k  BY <3>2, <1>8, <1>13
    <3>4. ASSUME k # 0 PROVE KeyLess(cx, t[k], o)
      <4>1. t[k] \in C  BY <3>3, <3>4, <1>13
      <4>2. RankIn(L, reps, t[k]) < k /\ t[k] \in reps  BY <4>1, <1>5
      <4>3. RankIn(L, reps, t[k]) < RankIn(L, reps, q)
        BY <4>2, <3>1, <1>9
      <4>4. KeyLess(cx, t[k], q)  BY <4>2, <4>3, <1>2, <1>4, Ranks
      <4>5. t[k] \in R /\ q \in R /\ o \in R  BY <4>2, <1>1
      <4> QED BY <4>4, <4>5, <2>1, KeyLessIsTotalOrder
    <3> QED BY <3>3, <3>4 DEF Covers
  <2> QED BY <2>2, <2>3
<1>16. t \in Seq(S)
  BY <1>6, <1>13, SeqOfMore
<1>17. ToSet(t) = C
  <2>1. DOMAIN t = 1..Len(t)  BY <1>13, LenProperties
  <2>2. \A x \in ToSet(t) : x \in C  BY <2>1, <1>13 DEF ToSet
  <2>3. \A x \in C : x \in ToSet(t)  BY <2>1, <1>13 DEF ToSet
  <2> QED BY <2>2, <2>3
<1>18. Speaks(cx, k, S, t)
  BY <1>11, <1>13, <1>14, <1>15, <1>16 DEF Speaks
<1> QED BY <1>17, <1>18 DEF C

(* A list that covers every entry of another covers what the other covers. *)
LEMMA CoversTransfer ==
  ASSUME NEW R, ResultSet(R), NEW cx, NEW k \in Nat,
         NEW s \in Seq(R), Ranked(cx, s),
         NEW t \in Seq(R), Len(t) <= k, Ranked(cx, t),
         \A i \in 1..Len(s) : Covers(cx, k, t, s[i]),
         NEW o \in R, Covers(cx, k, s, o)
  PROVE  Covers(cx, k, t, o)
<1>1. /\ Len(s) \in Nat /\ \A i \in 1..Len(s) : s[i] \in R
      /\ Len(t) \in Nat /\ \A i \in 1..Len(t) : t[i] \in R
  BY LenProperties, ElementOfSeq
<1> DEFINE m == Len(s)
           n == Len(t)
\* An entry that is no worse than o speaks for it when it is outranked.
<1>2. ASSUME NEW i \in 1..Len(s), KeyLess(cx, s[i], o) \/ s[i] = o,
             Len(t) = k, k # 0 => KeyLess(cx, t[k], s[i])
      PROVE  Covers(cx, k, t, o)
  <2>1. k # 0 => KeyLess(cx, t[k], o)
    <3> SUFFICES ASSUME k # 0 PROVE KeyLess(cx, t[k], o)
      OBVIOUS
    <3>1. t[k] \in R /\ s[i] \in R  BY <1>1, <1>2
    <3> QED BY <3>1, <1>2, KeyLessIsTotalOrder
  <2> QED BY <2>1, <1>2 DEF Covers
<1>3. CASE \E i \in 1..Len(s) : s[i].set = o.set /\ ~KeyLess(cx, o, s[i])
  <2>1. PICK i \in 1..Len(s) : s[i].set = o.set /\ ~KeyLess(cx, o, s[i])
    BY <1>3
  <2>2. s[i] \in R /\ (KeyLess(cx, s[i], o) \/ s[i] = o)
    BY <2>1, <1>1, KeyLessIsTotalOrder
  <2>3. CASE \E j \in 1..Len(t) : t[j].set = s[i].set /\ ~KeyLess(cx, s[i], t[j])
    <3>1. PICK j \in 1..Len(t) : t[j].set = s[i].set /\ ~KeyLess(cx, s[i], t[j])
      BY <2>3
    <3>2. ~KeyLess(cx, o, t[j])
      BY <3>1, <2>1, <2>2, <1>1, KeyLessIsTotalOrder
    <3> QED BY <3>1, <3>2, <2>1 DEF Covers
  <2>4. CASE Len(t) = k /\ (k # 0 => KeyLess(cx, t[k], s[i]))
    BY <2>2, <2>4, <1>2
  <2> QED BY <2>3, <2>4 DEF Covers
<1>4. CASE Len(s) = k /\ (k # 0 => KeyLess(cx, s[k], o))
  <2>1. ASSUME NEW i \in 1..Len(s) PROVE KeyLess(cx, s[i], o)
    <3>1. k # 0 /\ k \in 1..Len(s) /\ (i < k \/ i = k)
      BY <1>1, <1>4
    <3>2. KeyLess(cx, s[i], s[k]) \/ s[i] = s[k]
      BY <3>1 DEF Ranked
    <3> QED BY <3>1, <3>2, <1>1, <1>4, KeyLessIsTotalOrder
  <2>2. CASE \E i \in 1..Len(s) : Len(t) = k /\ (k # 0 => KeyLess(cx, t[k], s[i]))
    BY <2>1, <2>2, <1>2
  <2>3. CASE \A i \in 1..Len(s) :
               \E j \in 1..Len(t) : t[j].set = s[i].set /\ ~KeyLess(cx, s[i], t[j])
    <3> DEFINE P(i, j) == t[j].set = s[i].set /\ ~KeyLess(cx, s[i], t[j])
               f == [i \in 1..m |-> CHOOSE j \in 1..n : P(i, j)]
    <3>1. \A i \in 1..m : f[i] \in 1..n /\ P(i, f[i])
      <4>1. \A i \in 1..m : \E j \in 1..n : P(i, j)  BY <2>3
      <4> HIDE DEF P
      <4> QED BY <4>1
    <3>2. \A i, j \in 1..m : f[i] = f[j] => i = j
      <4> SUFFICES ASSUME NEW i \in 1..m, NEW j \in 1..m, f[i] = f[j] PROVE i = j
        OBVIOUS
      <4> HIDE DEF f
      <4>1. s[i].set = s[j].set  BY <3>1
      <4>2. \A a, b \in 1..m : a < b => s[a].set # s[b].set  BY DEF Ranked
      <4>3. i \in Int /\ j \in Int  OBVIOUS
      <4> QED BY <4>1, <4>2, <4>3
    <3>3. m = k /\ m \in Nat /\ n \in Nat /\ n <= k
      BY <1>1, <1>4
    <3>e. f = [i \in 1..m |-> f[i]]  OBVIOUS
    <3> HIDE DEF P, f
    <3>4. /\ IsFiniteSet(1..n) /\ Cardinality(1..n) = n
          /\ IsFiniteSet(1..m) /\ Cardinality(1..m) = m
      <4> HIDE DEF m, n
      <4>1. \A x \in Nat : IsFiniteSet(1..x) /\ Cardinality(1..x) = IF 1 > x THEN 0 ELSE x - 1 + 1
        BY FS_Interval
      <4>2. \A x \in Nat : Cardinality(1..x) = x
        BY <4>1
      <4> QED BY <4>1, <4>2, <3>3
    <3>5. {f[i] : i \in 1..m} = 1..n
      <4> DEFINE D == 1..m
                 E == 1..n
                 I == {f[i] : i \in D}
      <4>1. IsFiniteSet(D) /\ Cardinality(D) = m /\ IsFiniteSet(E) /\ Cardinality(E) = n
        BY <3>4
      <4>2. \A i, j \in D : f[i] = f[j] => i = j  BY <3>2
      <4>3. I \in SUBSET E  BY <3>1
      <4> HIDE DEF D, E, m, n
      <4>4. Cardinality(I) = m  BY <4>1, <4>2, ValuesOfDistinct
      <4> HIDE DEF I
      <4>5. Cardinality(I) <= n /\ (Cardinality(I) = n => I = E)
        BY <4>1, <4>3, FS_Subset
      <4>6. I = E  BY <4>4, <4>5, <3>3
      <4> QED BY <4>6 DEF D, E, I
    <3>6. n = k
      <4>1. n = Cardinality({f[i] : i \in 1..m})  BY <3>4, <3>5
      <4> DEFINE D == 1..m
      <4>2. IsFiniteSet(D) /\ Cardinality(D) = m /\ \A i, j \in D : f[i] = f[j] => i = j
        BY <3>2, <3>4
      <4> HIDE DEF D, m, n
      <4>3. Cardinality({f[i] : i \in D}) = m  BY <4>2, ValuesOfDistinct
      <4> QED BY <4>1, <4>3, <3>3 DEF D
    <3>7. ASSUME k # 0 PROVE KeyLess(cx, t[k], o)
      <4>1. k \in 1..n  BY <3>3, <3>6, <3>7
      <4>2. PICK i \in 1..m : f[i] = k
        <5> HIDE DEF m, n
        <5> QED BY <4>1, <3>5
      <4>3. ~KeyLess(cx, s[i], t[k])  BY <4>2, <3>1 DEF P
      <4>4. KeyLess(cx, s[i], o) /\ s[i] \in R /\ t[k] \in R  BY <4>1, <4>2, <2>1, <1>1
      <4> QED BY <4>3, <4>4, KeyLessIsTotalOrder
    <3> QED BY <3>6, <3>7 DEF Covers
  <2> QED BY <2>2, <2>3 DEF Covers
<1> QED BY <1>3, <1>4 DEF Covers

-----------------------------------------------------------------------------
(* Inserting a list.                                                         *)

\* What the tracker's list is: at most k ranked results of R.
Trackers(R, cx, k) == {t \in Seq(R) : Len(t) <= k /\ Ranked(cx, t)}

InsertedList(cx, k, s, new) == FoldLeft(LAMBDA l, r : Insert(cx, k, l, r), s, new)

\* c gives the lists after the first insertions.
IsRun(R, cx, k, s, new, c) ==
  /\ c \in [0..Len(new) -> Trackers(R, cx, k)]
  /\ c[0] = s
  /\ \A i \in 1..Len(new) : c[i] = Insert(cx, k, c[i - 1], new[i])

(* A list is inserted entry by entry.                                      *)
LEMMA InsertionRun ==
  ASSUME NEW R, Keyed(R), NEW cx, NEW k \in Nat,
         NEW s \in Trackers(R, cx, k), NEW new \in Seq(R)
  PROVE  \E c : IsRun(R, cx, k, s, new, c) /\ InsertedList(cx, k, s, new) = c[Len(new)]
<1> DEFINE n == Len(new)
           D == 1..n
           V == Trackers(R, cx, k)
           ch == [x \in SUBSET D |-> Max(x)]
           h == [p \in D \X V |-> Insert(cx, k, p[2], new[p[1]])]
<1>0. n \in Nat /\ DOMAIN new = D /\ \A i \in D : new[i] \in R
  BY LenProperties, ElementOfSeq
<1>v. \A v \in V, r \in R : Insert(cx, k, v, r) \in V
  BY InsertCorrect DEF Trackers, Inserted
<1>f. IsFiniteSet(D) /\ \A x \in SUBSET D : IsFiniteSet(x)
  <2>1. IsFiniteSet(D)  BY <1>0, FS_Interval
  <2> HIDE DEF D
  <2> QED BY <2>1, FS_Subset
<1>1. \A x \in SUBSET D : x # {} => ch[x] \in x
  <2> SUFFICES ASSUME NEW x \in SUBSET D, x # {} PROVE Max(x) \in x
    OBVIOUS
  <2>1. x \in SUBSET Int  BY <1>0
  <2> QED BY <2>1, <1>f, MaxProperties
<1>2. \A x \in D, v \in V : h[<<x, v>>] = Insert(cx, k, v, new[x]) /\ h[<<x, v>>] \in V
  <2> SUFFICES ASSUME NEW x \in D, NEW v \in V
               PROVE  h[<<x, v>>] = Insert(cx, k, v, new[x]) /\ h[<<x, v>>] \in V
    OBVIOUS
  <2>1. h[<<x, v>>] = Insert(cx, k, v, new[x])
    <3> HIDE DEF D, V
    <3> QED OBVIOUS
  <2> HIDE DEF h, V
  <2> QED BY <2>1, <1>0, <1>v
<1>c. \A x \in SUBSET D : ch[x] = Max(x)
  OBVIOUS
<1>s. s \in V
  OBVIOUS
<1> HIDE DEF ch, h, D, V
<1>3. PICK g \in [SUBSET D -> V] : Recurses(D, s, ch, h, g)
  <2>1. Picks(D, ch) /\ Combines(D, V, h)  BY <1>1, <1>2 DEF Picks, Combines
  <2> QED BY <2>1, <1>f, <1>s, SetRecursion
<1>4. ASSUME NEW x \in SUBSET D
      PROVE  g[x] = IF x = {} THEN s ELSE Insert(cx, k, g[x \ {ch[x]}], new[ch[x]])
  <2>1. CASE x = {}  BY <2>1, <1>3 DEF Recurses
  <2>2. CASE x # {}
    <3>1. ch[x] \in D /\ x \ {ch[x]} \in SUBSET D /\ g[x \ {ch[x]}] \in V
      BY <2>2, <1>1, <1>3
    <3>2. g[x] = h[<<ch[x], g[x \ {ch[x]}]>>]  BY <2>2, <1>3 DEF Recurses
    <3> QED BY <2>2, <3>1, <3>2, <1>2
  <2> QED BY <2>1, <2>2
<1>5. \A x \in SUBSET D :
        g[x] = IF x = {} THEN s ELSE Insert(cx, k, g[x \ {Max(x)}], new[Max(x)])
  BY <1>4, <1>c, Zenon
<1>6. g = [x \in SUBSET D |->
             IF x = {} THEN s ELSE Insert(cx, k, g[x \ {Max(x)}], new[Max(x)])]
  <2>1. g = [x \in SUBSET D |-> g[x]]  BY <1>3
  <2> QED BY <2>1, <1>5, Zenon
<1>7. PICK e : e = [x \in SUBSET D |->
                      IF x = {} THEN s ELSE Insert(cx, k, e[x \ {Max(x)}], new[Max(x)])]
               /\ InsertedList(cx, k, s, new) = e[D]
  BY <1>0, <1>6, Zenon DEF InsertedList, FoldLeft, MapThenFoldSet
<1>8. \A x \in SUBSET D :
        e[x] = IF x = {} THEN s ELSE Insert(cx, k, e[x \ {Max(x)}], new[Max(x)])
  BY <1>7, Zenon
<1> DEFINE W == V \cup {e[x] : x \in SUBSET D}
           l == [p \in D \X W |-> Insert(cx, k, p[2], new[p[1]])]
<1>9. \A x \in D, v \in W : l[<<x, v>>] = Insert(cx, k, v, new[x])
  <2> HIDE DEF W
  <2> QED OBVIOUS
<1>w. \A x \in SUBSET D : g[x] \in W /\ e[x] \in W
  BY <1>3
<1> HIDE DEF l, W
<1>10. ASSUME NEW x \in SUBSET D
       PROVE  /\ g[x] = IF x = {} THEN s ELSE l[<<ch[x], g[x \ {ch[x]}]>>]
              /\ e[x] = IF x = {} THEN s ELSE l[<<ch[x], e[x \ {ch[x]}]>>]
  <2>1. CASE x = {}  BY <2>1, <1>4, <1>8
  <2>2. CASE x # {}
    <3>1. ch[x] \in D /\ x \ {ch[x]} \in SUBSET D
      BY <2>2, <1>1
    <3>2. g[x \ {ch[x]}] \in W /\ e[x \ {ch[x]}] \in W
      BY <3>1, <1>w
    <3>3. l[<<ch[x], g[x \ {ch[x]}]>>] = Insert(cx, k, g[x \ {ch[x]}], new[ch[x]])
      BY <3>1, <3>2, <1>9
    <3>4. l[<<ch[x], e[x \ {ch[x]}]>>] = Insert(cx, k, e[x \ {ch[x]}], new[ch[x]])
      BY <3>1, <3>2, <1>9
    <3>5. g[x] = Insert(cx, k, g[x \ {ch[x]}], new[ch[x]])
      BY <2>2, <1>4
    <3>6. e[x] = Insert(cx, k, e[x \ {ch[x]}], new[ch[x]])
      BY <2>2, <1>8, <1>c, Zenon
    <3> QED BY <2>2, <3>3, <3>4, <3>5, <3>6, Zenon
  <2> QED BY <2>1, <2>2
<1>11. \A x \in SUBSET D : g[x] = e[x]
  <2>1. Recurses(D, s, ch, l, g) /\ Recurses(D, s, ch, l, e) /\ Picks(D, ch)
    BY <1>10, <1>1 DEF Recurses, Picks
  <2> QED BY <2>1, <1>f, SetRecursionUnique
<1> DEFINE c == [i \in 0..n |-> g[1..i]]
<1>12. ASSUME NEW i \in 0..n PROVE 1..i \in SUBSET D /\ c[i] = g[1..i] /\ c[i] \in V
  <2>1. 1..i \in SUBSET D  BY <1>0 DEF D
  <2> HIDE DEF n
  <2> QED BY <2>1, <1>3
<1>13. c[0] = s
  <2>1. 0 \in 0..n /\ 1..0 = {}  BY <1>0
  <2> HIDE DEF c
  <2>2. c[0] = g[{}]  BY <2>1, <1>12
  <2> QED BY <2>1, <2>2, <1>5
<1>14. ASSUME NEW i \in 1..n PROVE c[i] = Insert(cx, k, c[i - 1], new[i])
  <2>1. /\ i \in 0..n /\ i - 1 \in 0..n /\ 1..i # {} /\ i \in 1..i
        /\ (1..i) \ {i} = 1..(i - 1) /\ 1..i \in SUBSET Int
    <3>1. n \in Nat  BY <1>0
    <3> HIDE DEF n
    <3>2. i \in Int /\ 1 <= i /\ i <= n  BY <3>1
    <3>3. i \in 0..n /\ i - 1 \in 0..n  BY <3>1, <3>2
    <3>4. i \in 1..i  BY <3>2
    <3>5. (1..i) \ {i} = 1..(i - 1)  BY <3>2
    <3>6. 1..i \in SUBSET Int  OBVIOUS
    <3> QED BY <3>3, <3>4, <3>5, <3>6
  <2>2. Max(1..i) = i
    <3>1. Max(1..i) \in 1..i /\ \A y \in 1..i : y <= Max(1..i)
      BY <2>1, <1>12, <1>f, MaxProperties
    <3> QED BY <2>1, <3>1
  <2>3. g[1..i] = Insert(cx, k, g[(1..i) \ {Max(1..i)}], new[Max(1..i)])
    BY <2>1, <1>12, <1>5
  <2>4. c[i] = g[1..i] /\ c[i - 1] = g[1..(i - 1)]
    BY <2>1, <1>12
  <2> HIDE DEF c
  <2> QED BY <2>1, <2>2, <2>3, <2>4, Zenon
<1>15. InsertedList(cx, k, s, new) = c[n]
  <2>1. n \in 0..n /\ 1..n = D /\ D \in SUBSET D  BY <1>0 DEF D
  <2>2. c[n] = g[D]  BY <2>1, <1>12
  <2> HIDE DEF c
  <2> QED BY <2>1, <2>2, <1>7, <1>11
<1>16. c \in [0..n -> V]
  BY <1>12
<1> QED BY <1>13, <1>14, <1>15, <1>16 DEF IsRun, V

(* The result of inserting a list is a tracker's list that covers what was *)
(* covered before and every entry inserted.                                *)
LEMMA InsertedListCorrect ==
  ASSUME NEW R, Keyed(R), NEW cx, NEW k \in Nat,
         NEW s \in Trackers(R, cx, k), NEW new \in Seq(R),
         NEW t, t = InsertedList(cx, k, s, new)
  PROVE  /\ t \in Trackers(R, cx, k)
         /\ \A j \in 1..Len(new) : Covers(cx, k, t, new[j])
         /\ \A o \in R : Covers(cx, k, s, o) => Covers(cx, k, t, o)
<1> DEFINE n == Len(new)
<1>1. PICK c : IsRun(R, cx, k, s, new, c) /\ t = c[n]
  BY InsertionRun
<1>2. n \in Nat /\ \A j \in 1..n : new[j] \in R
  BY LenProperties, ElementOfSeq
<1>3. /\ \A i \in 0..n : c[i] \in Trackers(R, cx, k)
      /\ c[0] = s
      /\ \A i \in 1..n : c[i] = Insert(cx, k, c[i - 1], new[i])
  BY <1>1 DEF IsRun
<1> HIDE DEF n
<1> DEFINE Good(i) == /\ \A j \in 1..i : Covers(cx, k, c[i], new[j])
                      /\ \A o \in R : Covers(cx, k, s, o) => Covers(cx, k, c[i], o)
           Bad == {i \in 0..n : ~Good(i)}
<1>4. Good(0)
  <2>1. \A j \in 1..0 : FALSE  OBVIOUS
  <2> QED BY <2>1, <1>3
<1>5. ASSUME NEW i \in 1..n, Good(i - 1) PROVE Good(i)
  <2>1. i \in 1..n /\ i - 1 \in 0..n /\ i \in 0..n  BY <1>2
  <2>2. /\ c[i - 1] \in Seq(R) /\ Len(c[i - 1]) <= k /\ Ranked(cx, c[i - 1])
        /\ new[i] \in R /\ c[i] = Insert(cx, k, c[i - 1], new[i])
    BY <2>1, <1>2, <1>3 DEF Trackers
  <2>3. Inserted(R, cx, k, c[i - 1], new[i], c[i])
    BY <2>2, InsertCorrect
  <2>4. /\ Covers(cx, k, c[i], new[i])
        /\ \A o \in R : Covers(cx, k, c[i - 1], o) => Covers(cx, k, c[i], o)
    BY <2>3 DEF Inserted
  <2>5. ASSUME NEW j \in 1..i PROVE Covers(cx, k, c[i], new[j])
    <3>1. CASE j = i  BY <3>1, <2>4
    <3>2. CASE j # i
      <4>1. j \in 1..i - 1 /\ j \in 1..n  BY <3>2, <1>2
      <4>2. Covers(cx, k, c[i - 1], new[j])  BY <4>1, <1>5
      <4> QED BY <4>1, <4>2, <2>4, <1>2
    <3> QED BY <3>1, <3>2
  <2> QED BY <2>4, <2>5, <1>5
<1>6. Bad = {}
  <2> SUFFICES ASSUME Bad # {} PROVE FALSE
    OBVIOUS
  <2>1. PICK i \in Bad : \A j \in Bad : i <= j
    <3>1. Bad \subseteq Nat  OBVIOUS
    <3> HIDE DEF Bad
    <3> QED BY <3>1, LeastNatural
  <2>2. i \in 0..n /\ ~Good(i)  OBVIOUS
  <2> HIDE DEF Good
  <2>3. i # 0  BY <2>2, <1>4
  <2>4. i \in 1..n /\ i - 1 \in 0..n /\ i - 1 \notin Bad  BY <2>1, <2>2, <2>3, <1>2
  <2>5. Good(i - 1)  BY <2>4
  <2> QED BY <2>2, <2>4, <2>5, <1>5
<1>7. Good(n) /\ n \in 0..n
  <2>1. n \in 0..n  BY <1>2
  <2> HIDE DEF Good
  <2> QED BY <2>1, <1>6
<1> QED BY <1>1, <1>3, <1>7 DEF n
=============================================================================
