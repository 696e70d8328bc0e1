------------------------- MODULE RegimeSearch_proofs -------------------------
(***************************************************************************)
(* The regime loop is exact for every pool, table and number of results:   *)
(* each legal deck is owned by a planned regime, whose per-card bounds     *)
(* dominate the powers of the deck's members and whose ceiling bounds its  *)
(* rank, so a search that may drop what its own cutoff excludes, and a     *)
(* regime skipped because its ceiling is below the cutoff, lose nothing.   *)
(***************************************************************************)
EXTENDS RegimeSearch, DeckPower_proofs

-----------------------------------------------------------------------------
(* Arithmetic.                                                               *)

(* Whole division of naturals gives one, and grows with the dividend.      *)
LEMMA DivType ==
  ASSUME NEW a \in Nat, NEW n \in Nat, n > 0 PROVE a \div n \in Nat
  OBVIOUS

LEMMA DivGrows ==
  ASSUME NEW a \in Nat, NEW b \in Nat, NEW n \in Nat, n > 0, a <= b
  PROVE  a \div n <= b \div n
  OBVIOUS

(* A product grows with its factors.                                       *)
LEMMA TimesGrows ==
  ASSUME NEW a \in Nat, NEW b \in Nat, NEW c \in Nat, NEW d \in Nat, a <= b, c <= d
  PROVE  a * c \in Nat /\ b * d \in Nat /\ a * c <= b * d
  OBVIOUS

(* The MySekai value is a natural number that grows with power and bonus.  *)
LEMMA MysekaiValueGrows ==
  ASSUME NEW p \in Nat, NEW r \in Nat, p <= r, NEW b \in Nat, NEW e \in Nat, b <= e
  PROVE  /\ MysekaiValue(p, b) \in Nat /\ MysekaiValue(r, e) \in Nat
         /\ MysekaiValue(p, b) <= MysekaiValue(r, e)
<1> DEFINE P == 10 + p \div PowerStep  R == 10 + r \div PowerStep
           B == 100 + b  E == 100 + e
<1>1. P \in Nat /\ R \in Nat /\ P <= R
  <2>1. PowerStep \in Nat /\ PowerStep > 0  BY RegimeAssumption
  <2> QED BY <2>1, DivType, DivGrows
<1>2. B \in Nat /\ E \in Nat /\ B <= E  OBVIOUS
<1>3. MysekaiValue(p, b) = (P * B) \div 2 /\ MysekaiValue(r, e) = (R * E) \div 2
  BY DEF MysekaiValue
<1> HIDE DEF P, R, B, E
<1>4. P * B \in Nat /\ R * E \in Nat /\ P * B <= R * E
  BY <1>1, <1>2, TimesGrows
<1> DEFINE x == P * B  y == R * E
<1>5. x \in Nat /\ y \in Nat /\ x <= y  BY <1>4
<1> HIDE DEF x, y
<1>6. x \div 2 \in Nat /\ y \div 2 \in Nat /\ x \div 2 <= y \div 2
  BY <1>5, DivType, DivGrows
<1> QED BY <1>3, <1>6 DEF x, y

-----------------------------------------------------------------------------
(* Requests.                                                                 *)

(* What the assumptions say of one card.                                   *)
LEMMA RegimeCard ==
  ASSUME NEW c \in DOMAIN Card
  PROVE  /\ c \in Nat /\ c < IdBase /\ Card[c].id \in Nat /\ Card[c].id < IdBase
         /\ Card[c].bonus \in Nat
         /\ Card[c].attr \in 0..AttrCount - 1
         /\ Card[c].units \in SUBSET (0..UnitCount - 1)
         /\ Card[c].char \in Nat
  BY CardTypes, RegimeAssumption

(* And of one request.                                                     *)
LEMMA RequestFacts ==
  ASSUME NEW q \in Requests
  PROVE  /\ q.pool \in SUBSET DOMAIN Card /\ IsFiniteSet(q.pool) /\ q.pool \in SUBSET Nat
         /\ q.topK \in Nat /\ q.topK >= 1
         /\ q.target \in {"score", "mysekai", "power"}
         /\ q.minimize \in BOOLEAN
         /\ Unique(q) \in BOOLEAN
<1>1. q.pool \in SUBSET DOMAIN Card /\ IsFiniteSet(q.pool)  BY RequestAssumption
<1>2. q.pool \in SUBSET Nat  BY <1>1, RegimeCard
<1>3. q.topK \in Nat /\ q.topK >= 1  BY RequestAssumption
<1>4. q.target \in {"score", "mysekai", "power"}  BY RequestAssumption
<1>5. q.minimize \in BOOLEAN  BY RequestAssumption
<1>6. Unique(q) \in BOOLEAN  BY DEF Unique
<1> QED BY <1>1, <1>2, <1>3, <1>4, <1>5, <1>6

(* The ranking's context has the target and the direction of the request.  *)
LEMMA CtxFacts ==
  ASSUME NEW q
  PROVE  Ctx(q).target = q.target /\ Ctx(q).minimize = q.minimize
  BY DEF Ctx

\* No two cards of d have the same value of the field.
DistinctIds(d) == \A a, b \in d : Card[a].id = Card[b].id => a = b
DistinctChars(d) == \A a, b \in d : Card[a].char = Card[b].char => a = b

(* What a legal deck is.                                                   *)
LEMMA LegalDeckFacts ==
  ASSUME NEW q \in Requests, NEW cards \in SUBSET q.pool, NEW d \in LegalDecks(q, cards)
  PROVE  /\ d \in SUBSET cards /\ d \in SUBSET q.pool
         /\ d \in SUBSET DOMAIN Card /\ d \in SUBSET Nat
         /\ IsFiniteSet(d) /\ Cardinality(d) = DeckSize
         /\ DistinctIds(d)
         /\ Unique(q) => DistinctChars(d)
         /\ ~Unique(q) => \A a, b \in d : Card[a].char = Card[b].char
<1> DEFINE C == {Card[c].char : c \in d}
<1>1. /\ d \in SUBSET cards /\ Cardinality(d) = DeckSize
      /\ Cardinality({Card[c].id : c \in d}) = DeckSize
      /\ Cardinality(C) = IF Unique(q) THEN DeckSize ELSE 1
  BY DEF LegalDecks, kSubset
<1>2. /\ d \in SUBSET q.pool /\ d \in SUBSET DOMAIN Card /\ d \in SUBSET Nat
      /\ IsFiniteSet(d)
  BY <1>1, RequestFacts, FS_Subset
<1> DEFINE f == [c \in d |-> Card[c].char]
           g == [c \in d |-> Card[c].id]
<1>3. /\ C = {f[c] : c \in d}
      /\ {Card[c].id : c \in d} = {g[c] : c \in d}
      /\ \A c \in d : f[c] = Card[c].char /\ g[c] = Card[c].id
      /\ \A c \in d : Card[c].char \in C
  OBVIOUS
<1>4. f \in Surjection(d, C)  BY Zenon DEF Surjection
<1> HIDE DEF f, g, C
<1>5. DistinctIds(d)
  BY <1>1, <1>2, <1>3, DistinctValues DEF DistinctIds
<1>6. Unique(q) => DistinctChars(d)
  BY <1>1, <1>2, <1>3, DistinctValues DEF DistinctChars
<1>7. ASSUME ~Unique(q) PROVE \A a, b \in d : Card[a].char = Card[b].char
  <2>1. IsFiniteSet(C)  BY <1>2, <1>4, FS_Surjection
  <2>2. PICK x : C = {x}  BY <2>1, <1>1, <1>7, FS_Singleton
  <2> QED BY <1>3, <2>2
<1> QED BY <1>1, <1>2, <1>5, <1>6, <1>7

(* A legal deck is one of every set of cards it is taken from.             *)
LEMMA LegalDeckOf ==
  ASSUME NEW q, NEW A, NEW B, NEW d \in LegalDecks(q, A), d \subseteq B
  PROVE  d \in LegalDecks(q, B)
  BY DEF LegalDecks, kSubset

(* The legal decks of a pool are finitely many.                            *)
LEMMA LegalDecksFinite ==
  ASSUME NEW q \in Requests, NEW cards \in SUBSET q.pool
  PROVE  IsFiniteSet(LegalDecks(q, cards))
<1>1. IsFiniteSet(cards)  BY RequestFacts, FS_Subset
<1>2. IsFiniteSet(SUBSET cards)  BY <1>1, FS_SUBSET
<1>3. LegalDecks(q, cards) \in SUBSET SUBSET cards
  BY DEF LegalDecks, kSubset
<1> QED BY <1>2, <1>3, FS_Subset

-----------------------------------------------------------------------------
(* Results.                                                                  *)

\* The public ids of a deck.
Ids(d) == {Card[c].id : c \in d}

(* A code of ids is one of digits, below the base.                         *)
LEMMA IdCodeIs ==
  ASSUME NEW ids PROVE IdCode(ids) = CodeIn(IdBase, Ascending(ids))
  BY Zenon DEF IdCode, CodeIn

(* The ids of a deck are as many as its members.                           *)
LEMMA IdsFacts ==
  ASSUME NEW d \in SUBSET DOMAIN Card, IsFiniteSet(d), DistinctIds(d)
  PROVE  /\ Ids(d) \in SUBSET Nat /\ IsFiniteSet(Ids(d))
         /\ Cardinality(Ids(d)) = Cardinality(d)
         /\ \A x \in Ids(d) : x < IdBase
<1> DEFINE g == [c \in d |-> Card[c].id]
<1>1. Ids(d) = {g[c] : c \in d} /\ \A c \in d : g[c] = Card[c].id
  BY DEF Ids
<1>2. \A c \in d : Card[c].id \in Nat /\ Card[c].id < IdBase
  BY RegimeCard
<1> HIDE DEF g
<1>3. \A a, b \in d : g[a] = g[b] => a = b
  BY <1>1 DEF DistinctIds
<1>4. IsFiniteSet({g[c] : c \in d}) /\ Cardinality({g[c] : c \in d}) = Cardinality(d)
  BY <1>3, ValuesOfDistinct
<1>5. Ids(d) \in SUBSET Nat /\ \A x \in Ids(d) : x < IdBase
  BY <1>2 DEF Ids
<1> QED BY <1>1, <1>4, <1>5

(* The bonus of a deck is the sum of its members'.                         *)
LEMMA BonusIs ==
  ASSUME NEW d \in SUBSET DOMAIN Card, IsFiniteSet(d)
  PROVE  /\ Bonus(d) = SumFunctionOnSet([c \in d |-> Card[c].bonus], d)
         /\ Bonus(d) \in Nat
<1> DEFINE f == [c \in d |-> Card[c].bonus]
<1>1. Bonus(d) = SumFunctionOnSet(f, d)
  BY Zenon DEF Bonus, SumFunction
<1>2. \A c \in d : f[c] \in Nat
  BY RegimeCard
<1> HIDE DEF f
<1>3. Bonus(d) \in Nat
  BY <1>1, <1>2, SumNat
<1> QED BY <1>1, <1>3 DEF f

(* Every primary value grows with power and bonus.                         *)
LEMMA PrimaryGrows ==
  ASSUME NEW q \in Requests,
         NEW p \in Nat, NEW r \in Nat, p <= r, NEW b \in Nat, NEW e \in Nat, b <= e
  PROVE  /\ Primary(q, p, b) \in Nat /\ Primary(q, r, e) \in Nat
         /\ Primary(q, p, b) <= Primary(q, r, e)
<1>1. CASE q.target = "power"
  BY <1>1 DEF Primary
<1>2. CASE q.target = "mysekai"
  <2>1. Primary(q, p, b) = MysekaiValue(p, b) /\ Primary(q, r, e) = MysekaiValue(r, e)
    BY <1>2 DEF Primary
  <2> QED BY <2>1, MysekaiValueGrows
<1>3. CASE q.target = "score"
  <2> DEFINE B == 100 + b  E == 100 + e
  <2>1. Primary(q, p, b) = p * B /\ Primary(q, r, e) = r * E
    BY <1>3 DEF Primary, EventValue
  <2>2. B \in Nat /\ E \in Nat /\ B <= E  OBVIOUS
  <2> HIDE DEF B, E
  <2> QED BY <2>1, <2>2, TimesGrows
<1> QED BY <1>1, <1>2, <1>3, RequestFacts

(* What the exact evaluation of a legal deck reports.                      *)
LEMMA EvaluatedFacts ==
  ASSUME NEW q \in Requests, NEW cards \in SUBSET q.pool, NEW d \in LegalDecks(q, cards)
  PROVE  /\ Evaluated(q, d) = [score |-> Primary(q, TotalPower(d) + HonorBonus, Bonus(d)),
                               power |-> TotalPower(d) + HonorBonus,
                               set |-> IdCode(Ids(d)), layout |-> IdCode(d)]
         /\ TotalPower(d) \in Nat /\ Bonus(d) \in Nat /\ HonorBonus \in Nat
         /\ Evaluated(q, d).score \in Nat /\ Evaluated(q, d).power \in Nat
         /\ Evaluated(q, d).set \in Nat /\ Evaluated(q, d).layout \in Nat
         /\ Evaluated(q, d).power < RankBase
<1>1. /\ d \in SUBSET DOMAIN Card /\ d \in SUBSET q.pool /\ d \in SUBSET Nat
      /\ IsFiniteSet(d) /\ Cardinality(d) = DeckSize /\ DistinctIds(d)
  BY LegalDeckFacts
<1>2. Evaluated(q, d) = [score |-> Primary(q, TotalPower(d) + HonorBonus, Bonus(d)),
                         power |-> TotalPower(d) + HonorBonus,
                         set |-> IdCode(Ids(d)), layout |-> IdCode(d)]
  BY Zenon DEF Evaluated, Ids
<1>3. TotalPower(d) \in Nat /\ Bonus(d) \in Nat
  BY <1>1, TotalPowerIs, BonusIs
<1>4. HonorBonus \in Nat /\ IdBase \in Nat  BY RegimeAssumption
<1> DEFINE power == TotalPower(d) + HonorBonus
<1>5. power \in Nat  BY <1>3, <1>4
<1>6. power < RankBase
  <2>1. d \in kSubset(DeckSize, q.pool)  BY <1>1 DEF kSubset
  <2> QED BY <2>1, RequestAssumption
<1> HIDE DEF power
<1>7. Primary(q, power, Bonus(d)) \in Nat
  BY <1>3, <1>5, PrimaryGrows
<1>8. IdCode(d) \in Nat
  BY <1>1, <1>4, IdCodeIs, SetCodeType
<1>9. IdCode(Ids(d)) \in Nat
  <2> DEFINE I == Ids(d)
  <2>1. I \in SUBSET Nat /\ IsFiniteSet(I)  BY <1>1, IdsFacts
  <2> HIDE DEF I
  <2>2. IdCode(I) \in Nat  BY <1>4, <2>1, IdCodeIs, SetCodeType
  <2> QED BY <2>2 DEF I
<1>10. /\ Evaluated(q, d).score \in Nat /\ Evaluated(q, d).power \in Nat
       /\ Evaluated(q, d).set \in Nat /\ Evaluated(q, d).layout \in Nat
       /\ Evaluated(q, d).power < RankBase
  BY <1>2, <1>5, <1>6, <1>7, <1>8, <1>9 DEF power
<1> QED BY <1>2, <1>3, <1>4, <1>10

\* The results of all legal decks of a request.
Results(q) == Evaluations(q, LegalDecks(q, q.pool))

(* Every legal deck of a part of the pool is one of the pool.              *)
LEMMA ResultOf ==
  ASSUME NEW q \in Requests, NEW cards \in SUBSET q.pool
  PROVE  /\ \A d \in LegalDecks(q, cards) : Evaluated(q, d) \in Results(q)
         /\ Evaluations(q, LegalDecks(q, cards)) \in SUBSET Results(q)
         /\ LegalDecks(q, cards) \in SUBSET LegalDecks(q, q.pool)
<1>1. ASSUME NEW d \in LegalDecks(q, cards) PROVE d \in LegalDecks(q, q.pool)
  <2>1. d \subseteq q.pool  BY LegalDeckFacts
  <2> QED BY <2>1, LegalDeckOf
<1>2. LegalDecks(q, cards) \in SUBSET LegalDecks(q, q.pool)  BY <1>1
<1> QED BY <1>1, <1>2 DEF Results, Evaluations

(* The results of finitely many decks are finitely many.                   *)
LEMMA EvaluationsFinite ==
  ASSUME NEW q, NEW D, IsFiniteSet(D)
  PROVE  IsFiniteSet(Evaluations(q, D))
<1> DEFINE f == [d \in D |-> Evaluated(q, d)]
<1>1. f \in Surjection(D, Evaluations(q, D))
  BY Zenon DEF Surjection, Evaluations
<1> HIDE DEF f
<1> QED BY <1>1, FS_Surjection

(* A deck is known by its layout.                                          *)
LEMMA LayoutInjective ==
  ASSUME NEW q \in Requests, NEW d \in LegalDecks(q, q.pool), NEW e \in LegalDecks(q, q.pool),
         Evaluated(q, d).layout = Evaluated(q, e).layout
  PROVE  d = e
<1>1. q.pool \in SUBSET q.pool  OBVIOUS
<1>2. Evaluated(q, d).layout = IdCode(d) /\ Evaluated(q, e).layout = IdCode(e)
  BY <1>1, EvaluatedFacts
<1>3. /\ d \in SUBSET DOMAIN Card /\ d \in SUBSET Nat /\ IsFiniteSet(d)
      /\ e \in SUBSET DOMAIN Card /\ e \in SUBSET Nat /\ IsFiniteSet(e)
      /\ Cardinality(d) = Cardinality(e)
  BY <1>1, LegalDeckFacts
<1>4. (\A x \in d : x < IdBase) /\ (\A x \in e : x < IdBase)
  BY <1>3, RegimeCard
<1>5. IdBase \in Nat  BY RegimeAssumption
<1>6. CodeIn(IdBase, Ascending(d)) = CodeIn(IdBase, Ascending(e))
  BY <1>2, IdCodeIs
<1> QED BY <1>3, <1>4, <1>5, <1>6, SetCodeInjective

(* The ranking can order the results.                                      *)
LEMMA ResultsRank ==
  ASSUME NEW q \in Requests
  PROVE  ResultSet(Results(q)) /\ IsFiniteSet(Results(q))
<1>1. q.pool \in SUBSET q.pool  OBVIOUS
<1>2. ASSUME NEW r \in Results(q)
      PROVE  r.score \in Nat /\ r.power \in Nat /\ r.set \in Nat /\ r.layout \in Nat
  <2>1. PICK d \in LegalDecks(q, q.pool) : r = Evaluated(q, d)
    BY DEF Results, Evaluations
  <2> QED BY <1>1, <2>1, EvaluatedFacts
<1>3. ASSUME NEW a \in Results(q), NEW b \in Results(q), a.layout = b.layout
      PROVE  a = b
  <2>1. PICK d \in LegalDecks(q, q.pool) : a = Evaluated(q, d)
    BY DEF Results, Evaluations
  <2>2. PICK e \in LegalDecks(q, q.pool) : b = Evaluated(q, e)
    BY DEF Results, Evaluations
  <2> QED BY <1>3, <2>1, <2>2, LayoutInjective
<1>4. IsFiniteSet(Results(q))
  BY <1>1, LegalDecksFinite, EvaluationsFinite DEF Results
<1> QED BY <1>2, <1>3, <1>4 DEF ResultSet, Keyed

-----------------------------------------------------------------------------
(* Sums of the best.                                                         *)

\* What TopSum puts before an index.
BeforeIn(v, I) == {p \in I \X I : v[p[1]] > v[p[2]] \/ (v[p[1]] = v[p[2]] /\ p[1] < p[2])}

\* The first n indices in that order.
FirstOf(v, I, n) == {i \in I : RankIn(BeforeIn(v, I), I, i) < n}

\* v gives the numbers in I natural values.
Values(v, I) == DOMAIN v = I /\ \A i \in I : v[i] \in Nat

(* It is a strict total order of the indices.                              *)
LEMMA BeforeInOrders ==
  ASSUME NEW I \in SUBSET Nat, NEW v, Values(v, I)
  PROVE  /\ Orders(BeforeIn(v, I), I)
         /\ \A i, j \in I : <<i, j>> \in BeforeIn(v, I) <=>
                               v[i] > v[j] \/ (v[i] = v[j] /\ i < j)
<1> DEFINE L == BeforeIn(v, I)
<1>1. \A i, j \in I : <<i, j>> \in L <=> v[i] > v[j] \/ (v[i] = v[j] /\ i < j)
  BY DEF BeforeIn
<1>2. \A i \in I : v[i] \in Nat /\ i \in Nat  BY DEF Values
<1> HIDE DEF L
<1>3. \A i \in I : <<i, i>> \notin L
  <2> SUFFICES ASSUME NEW i \in I PROVE <<i, i>> \notin L  OBVIOUS
  <2> DEFINE x == v[i]
  <2>1. x \in Nat /\ i \in Nat  BY <1>2
  <2>2. <<i, i>> \in L <=> x > x \/ (x = x /\ i < i)  BY <1>1
  <2> HIDE DEF x
  <2> QED BY <2>1, <2>2
<1>4. \A i, j \in I : <<i, j>> \in L \/ <<j, i>> \in L \/ i = j
  <2> SUFFICES ASSUME NEW i \in I, NEW j \in I
               PROVE  <<i, j>> \in L \/ <<j, i>> \in L \/ i = j
    OBVIOUS
  <2> DEFINE x == v[i]  y == v[j]
  <2>1. x \in Nat /\ y \in Nat /\ i \in Nat /\ j \in Nat  BY <1>2
  <2>2. /\ <<i, j>> \in L <=> x > y \/ (x = y /\ i < j)
        /\ <<j, i>> \in L <=> y > x \/ (y = x /\ j < i)
    BY <1>1
  <2> HIDE DEF x, y
  <2> QED BY <2>1, <2>2
<1>5. \A i, j, k \in I : <<i, j>> \in L /\ <<j, k>> \in L => <<i, k>> \in L
  <2> SUFFICES ASSUME NEW i \in I, NEW j \in I, NEW k \in I, <<i, j>> \in L, <<j, k>> \in L
               PROVE  <<i, k>> \in L
    OBVIOUS
  <2> DEFINE x == v[i]  y == v[j]  z == v[k]
  <2>1. x \in Nat /\ y \in Nat /\ z \in Nat /\ i \in Nat /\ j \in Nat /\ k \in Nat  BY <1>2
  <2>2. /\ x > y \/ (x = y /\ i < j)
        /\ y > z \/ (y = z /\ j < k)
        /\ <<i, k>> \in L <=> x > z \/ (x = z /\ i < k)
    BY <1>1
  <2> HIDE DEF x, y, z
  <2> QED BY <2>1, <2>2
<1>6. Orders(L, I)  BY <1>3, <1>4, <1>5 DEF Orders
<1> QED BY <1>1, <1>6 DEF L

(* TopSum adds up the values of the first indices.                         *)
LEMMA TopSumIs ==
  ASSUME NEW I \in SUBSET Nat, IsFiniteSet(I), NEW v, Values(v, I), NEW n
  PROVE  /\ TopSum(v, n) = SumFunctionOnSet(v, FirstOf(v, I, n))
         /\ TopSum(v, n) \in Nat
<1> DEFINE C == FirstOf(v, I, n)
           A(i) == {j \in I : v[j] > v[i] \/ (v[j] = v[i] /\ j < i)}
           D == {i \in I : Cardinality(A(i)) < n}
           f == [i \in D |-> v[i]]
<1>1. TopSum(v, n) = SumFunction(f)
  BY Zenon DEF TopSum, Values
<1>2. SumFunction(f) = SumFunctionOnSet(f, D)
  BY Zenon DEF SumFunction
<1>3. D = C
  <2>1. \A i \in I : A(i) = {j \in I : <<j, i>> \in BeforeIn(v, I)}
    BY BeforeInOrders
  <2>2. \A i \in I : Cardinality(A(i)) = RankIn(BeforeIn(v, I), I, i)
    BY <2>1, Zenon DEF RankIn
  <2> HIDE DEF A
  <2> QED BY <2>2 DEF FirstOf
<1>4. C \in SUBSET I /\ IsFiniteSet(C)
  <2>1. C \in SUBSET I  BY DEF FirstOf
  <2> HIDE DEF C
  <2> QED BY <2>1, FS_Subset
<1>5. \A i \in C : f[i] = v[i] /\ f[i] \in Nat
  BY <1>3, <1>4 DEF Values
<1> HIDE DEF D, f, C
<1>6. SumFunctionOnSet(f, C) = SumFunctionOnSet(v, C)
  <2>1. Summands(f, C)  BY <1>5 DEF Summands
  <2>2. \A i \in C : f[i] = v[i]  BY <1>5
  <2> QED BY <1>4, <2>1, <2>2, SumSame
<1>7. SumFunctionOnSet(f, C) \in Nat
  BY <1>4, <1>5, SumNat
<1> QED BY <1>1, <1>2, <1>3, <1>6, <1>7 DEF C

(* It bounds the sum of as many summands that are matched with different,  *)
(* no smaller values.                                                      *)
LEMMA TopSumBounds ==
  ASSUME NEW I \in SUBSET Nat, IsFiniteSet(I), NEW v, Values(v, I),
         NEW R, IsFiniteSet(R), NEW w, Summands(w, R),
         NEW m \in [R -> I], \A x \in R : w[x] <= v[m[x]],
         \A x, y \in R : m[x] = m[y] => x = y
  PROVE  SumFunctionOnSet(w, R) <= TopSum(v, Cardinality(R))
<1> DEFINE n == Cardinality(R)
           F == {m[x] : x \in R}
           C == FirstOf(v, I, n)
<1>1. Summands(v, I)  BY DEF Summands, Values
<1>2. SumFunctionOnSet(w, R) <= SumFunctionOnSet(v, F)
  BY <1>1, SumMatched
<1>3. IsFiniteSet(F) /\ Cardinality(F) = n
  BY ValuesOfDistinct
<1>4. F \in SUBSET I  OBVIOUS
<1>5. n \in Nat  BY FS_CardinalityType
<1> HIDE DEF F
<1>6. n <= Cardinality(I)
  <2>1. Cardinality(F) <= Cardinality(I)  BY <1>4, FS_Subset
  <2> QED BY <2>1, <1>3
<1> HIDE DEF n
<1>7. Cardinality(C) = n
  BY <1>5, <1>6, BeforeInOrders, FirstRanks DEF FirstOf
<1>8. C \in SUBSET I  BY DEF FirstOf
<1>9. \A c \in C, i \in I \ C : v[i] <= v[c]
  <2> SUFFICES ASSUME NEW c \in C, NEW i \in I, i \notin C PROVE v[i] <= v[c]
    OBVIOUS
  <2> DEFINE L == BeforeIn(v, I)
             rc == RankIn(L, I, c)
             ri == RankIn(L, I, i)
  <2>1. Orders(L, I) /\ c \in I  BY <1>8, BeforeInOrders
  <2>2. /\ rc \in 0..Cardinality(I) - 1 /\ ri \in 0..Cardinality(I) - 1
        /\ rc < ri => <<c, i>> \in L
        /\ Cardinality(I) \in Nat
    BY <2>1, Ranks
  <2>3. rc < n /\ ~(ri < n)  BY <2>1 DEF FirstOf
  <2> DEFINE card == Cardinality(I)
  <2>4. rc \in Nat /\ ri \in Nat
    <3>1. card \in Nat /\ rc \in 0..card - 1 /\ ri \in 0..card - 1  BY <2>2
    <3> HIDE DEF card, rc, ri
    <3> QED BY <3>1
  <2>5. rc < ri
    <3> HIDE DEF rc, ri
    <3> QED BY <1>5, <2>3, <2>4
  <2>6. v[c] > v[i] \/ v[c] = v[i]  BY <2>1, <2>2, <2>5, BeforeInOrders
  <2>7. v[c] \in Nat /\ v[i] \in Nat  BY <2>1 DEF Values
  <2> QED BY <2>6, <2>7
<1> HIDE DEF C
<1>10. SumFunctionOnSet(v, F) <= SumFunctionOnSet(v, C)
  BY <1>1, <1>3, <1>4, <1>7, <1>8, <1>9, SumOfLargest
<1>11. TopSum(v, n) = SumFunctionOnSet(v, C)
  BY TopSumIs DEF C
<1>12. /\ SumFunctionOnSet(w, R) \in Int /\ SumFunctionOnSet(v, F) \in Int
       /\ SumFunctionOnSet(v, C) \in Int
  <2>1. IsFiniteSet(C)  BY <1>8, FS_Subset
  <2>2. Summands(v, C) /\ Summands(v, F)  BY <1>1, <1>4, <1>8 DEF Summands
  <2> QED BY <2>1, <2>2, <1>3, SumType
<1> DEFINE a == SumFunctionOnSet(w, R)  b == SumFunctionOnSet(v, F)  c == SumFunctionOnSet(v, C)
<1>13. a \in Int /\ b \in Int /\ c \in Int /\ a <= b /\ b <= c  BY <1>2, <1>10, <1>12
<1> HIDE DEF a, b, c
<1>14. a <= c  BY <1>13
<1> QED BY <1>11, <1>14 DEF a, c, n

\* The best value of each character.
CharBest(cards, value) ==
  [x \in {Card[c].char : c \in cards} |-> Max({value[c] : c \in {c \in cards : Card[c].char = x}})]

(* It is a natural number, and no card of the character has more.          *)
LEMMA CharBestFacts ==
  ASSUME NEW cards \in SUBSET DOMAIN Card, IsFiniteSet(cards), NEW value, Values(value, cards),
         NEW I, I = {Card[c].char : c \in cards}
  PROVE  /\ I \in SUBSET Nat /\ IsFiniteSet(I)
         /\ Values(CharBest(cards, value), I)
         /\ \A c \in cards : /\ Card[c].char \in I
                             /\ value[c] <= CharBest(cards, value)[Card[c].char]
<1>1. I \in SUBSET Nat  BY RegimeCard
<1> DEFINE f == [c \in cards |-> Card[c].char]
<1>2. f \in Surjection(cards, I)  BY Zenon DEF Surjection
<1> HIDE DEF f
<1>3. IsFiniteSet(I)  BY <1>2, FS_Surjection
<1> DEFINE Of(x) == {c \in cards : Card[c].char = x}
           Vs(x) == {value[c] : c \in Of(x)}
           V == CharBest(cards, value)
<1>4. DOMAIN V = I /\ \A x \in I : V[x] = Max(Vs(x))
  BY Zenon DEF CharBest
<1>5. \A c \in cards : Card[c].char \in I /\ value[c] \in Vs(Card[c].char)
  OBVIOUS
<1>6. ASSUME NEW x \in I
      PROVE  /\ V[x] \in Nat
             /\ \A c \in cards : Card[c].char = x => value[c] <= V[x]
  <2> DEFINE O == Of(x)  S == Vs(x)
             g == [c \in O |-> value[c]]
  <2>1. O \in SUBSET cards  OBVIOUS
  <2>2. g \in Surjection(O, S)  BY Zenon DEF Surjection
  <2>3. S \in SUBSET Nat  BY <2>1 DEF Values
  <2>4. S # {}
    <3>1. PICK c \in cards : x = Card[c].char  OBVIOUS
    <3> QED BY <3>1, <1>5
  <2>5. V[x] = Max(S)  BY <1>4
  <2>6. \A c \in cards : Card[c].char = x => value[c] \in S  OBVIOUS
  <2> HIDE DEF O, S, g, V
  <2>7. IsFiniteSet(O)  BY <2>1, FS_Subset
  <2>8. IsFiniteSet(S)  BY <2>2, <2>7, FS_Surjection
  <2>9. S \in SUBSET Int  BY <2>3
  <2>10. Max(S) \in S /\ \A y \in S : y <= Max(S)  BY <2>4, <2>8, <2>9, MaxProperties
  <2> QED BY <2>3, <2>5, <2>6, <2>10
<1>7. Values(V, I)  BY <1>4, <1>6 DEF Values
<1>8. \A c \in cards : value[c] <= V[Card[c].char]  BY <1>5, <1>6
<1> HIDE DEF V
<1> QED BY <1>1, <1>3, <1>5, <1>7, <1>8 DEF V

(* The best sum of a set of cards is a natural number.                     *)
LEMMA BestSumType ==
  ASSUME NEW q \in Requests, NEW cards \in SUBSET q.pool, NEW value, Values(value, cards)
  PROVE  BestSum(q, cards, value) \in Nat
<1>1. cards \in SUBSET DOMAIN Card /\ cards \in SUBSET Nat /\ IsFiniteSet(cards)
  BY RequestFacts, FS_Subset
<1>2. CASE Unique(q)
  <2> DEFINE I == {Card[c].char : c \in cards}
             V == CharBest(cards, value)
  <2>1. BestSum(q, cards, value) = TopSum(V, DeckSize)
    BY <1>2, Zenon DEF BestSum, CharBest
  <2>2. I \in SUBSET Nat /\ IsFiniteSet(I) /\ Values(V, I)  BY <1>1, CharBestFacts
  <2> HIDE DEF I, V
  <2> QED BY <2>1, <2>2, TopSumIs
<1>3. CASE ~Unique(q)
  <2>1. BestSum(q, cards, value) = TopSum(value, DeckSize)
    BY <1>3 DEF BestSum
  <2> QED BY <2>1, <1>1, TopSumIs
<1> QED BY <1>2, <1>3

(* It bounds the sum over every legal deck of the cards, of as much or     *)
(* less for each member.                                                   *)
LEMMA BestSumBounds ==
  ASSUME NEW q \in Requests, NEW cards \in SUBSET q.pool, NEW value, Values(value, cards),
         NEW d \in LegalDecks(q, cards), NEW w, \A c \in d : w[c] \in Nat /\ w[c] <= value[c]
  PROVE  SumFunctionOnSet(w, d) <= BestSum(q, cards, value)
<1>1. cards \in SUBSET DOMAIN Card /\ cards \in SUBSET Nat /\ IsFiniteSet(cards)
  BY RequestFacts, FS_Subset
<1>2. /\ d \in SUBSET cards /\ IsFiniteSet(d) /\ Cardinality(d) = DeckSize
      /\ Unique(q) => DistinctChars(d)
  BY LegalDeckFacts
<1>3. Summands(w, d)  BY DEF Summands
<1>4. CASE Unique(q)
  <2> DEFINE I == {Card[c].char : c \in cards}
             V == CharBest(cards, value)
             m == [c \in d |-> Card[c].char]
  <2>1. BestSum(q, cards, value) = TopSum(V, DeckSize)
    BY <1>4, Zenon DEF BestSum, CharBest
  <2>2. /\ I \in SUBSET Nat /\ IsFiniteSet(I) /\ Values(V, I)
        /\ \A c \in cards : Card[c].char \in I /\ value[c] <= V[Card[c].char]
    BY <1>1, CharBestFacts
  <2> HIDE DEF I, V
  <2>3. m \in [d -> I] /\ \A c \in d : m[c] = Card[c].char  BY <1>2, <2>2
  <2>4. \A x, y \in d : m[x] = m[y] => x = y
    BY <1>2, <1>4, <2>3 DEF DistinctChars
  <2> HIDE DEF m
  <2>5. \A c \in d : w[c] <= V[m[c]]
    <3> SUFFICES ASSUME NEW c \in d PROVE w[c] <= V[m[c]]  OBVIOUS
    <3> DEFINE x == V[m[c]]  y == value[c]  z == w[c]
    <3>1. x \in Nat /\ y \in Nat /\ z \in Nat /\ z <= y /\ y <= x
      BY <1>2, <2>2, <2>3 DEF Values
    <3> HIDE DEF x, y, z
    <3>2. z <= x  BY <3>1
    <3> QED BY <3>2 DEF x, z
  <2> QED BY <1>2, <1>3, <2>1, <2>2, <2>3, <2>4, <2>5, TopSumBounds
<1>5. CASE ~Unique(q)
  <2> DEFINE m == [c \in d |-> c]
  <2>1. BestSum(q, cards, value) = TopSum(value, DeckSize)
    BY <1>5 DEF BestSum
  <2>2. m \in [d -> cards] /\ \A c \in d : m[c] = c  BY <1>2
  <2> HIDE DEF m
  <2>3. \A x, y \in d : m[x] = m[y] => x = y  BY <2>2
  <2>4. \A c \in d : w[c] <= value[m[c]]  BY <2>2
  <2> QED BY <1>1, <1>2, <1>3, <2>1, <2>2, <2>3, <2>4, TopSumBounds
<1> QED BY <1>4, <1>5

(* A legal deck fills the set of cards it is taken from.                   *)
LEMMA LegalDeckFills ==
  ASSUME NEW q \in Requests, NEW cards \in SUBSET q.pool, NEW d \in LegalDecks(q, cards)
  PROVE  Fillable(q, cards)
<1>1. /\ d \in SUBSET cards
      /\ Cardinality({Card[c].id : c \in d}) = DeckSize
      /\ Unique(q) => Cardinality({Card[c].char : c \in d}) = DeckSize
  BY DEF LegalDecks, kSubset
<1>2. IsFiniteSet(cards)  BY RequestFacts, FS_Subset
<1> DEFINE A == {Card[c].id : c \in d}   B == {Card[c].id : c \in cards}
           X == {Card[c].char : c \in d} Y == {Card[c].char : c \in cards}
           f == [c \in cards |-> Card[c].id]
           g == [c \in cards |-> Card[c].char]
<1>3. A \in SUBSET B /\ X \in SUBSET Y  BY <1>1
<1>4. f \in Surjection(cards, B) /\ g \in Surjection(cards, Y)  BY Zenon DEF Surjection
<1>5. Fillable(q, cards) <=> Cardinality(IF Unique(q) THEN Y ELSE B) >= DeckSize
  BY Zenon DEF Fillable
<1>6. Cardinality(A) = DeckSize /\ (Unique(q) => Cardinality(X) = DeckSize)  BY <1>1
<1> HIDE DEF A, B, X, Y, f, g
<1>7. IsFiniteSet(B) /\ IsFiniteSet(Y)  BY <1>2, <1>4, FS_Surjection
<1>8. Cardinality(A) <= Cardinality(B) /\ Cardinality(X) <= Cardinality(Y)
  BY <1>3, <1>7, FS_Subset
<1>9. Cardinality(B) \in Nat /\ Cardinality(Y) \in Nat /\ DeckSize \in Nat
  BY <1>7, FS_CardinalityType, DeckSizeFacts
<1>10. CASE Unique(q)
  BY <1>5, <1>6, <1>8, <1>9, <1>10
<1>11. CASE ~Unique(q)
  BY <1>5, <1>6, <1>8, <1>9, <1>11
<1> QED BY <1>10, <1>11

-----------------------------------------------------------------------------
(* The bound of a card in a regime.                                          *)

(* The entries a member of a regime's decks may be read at.                *)
LEMMA MemberKeysFacts ==
  ASSUME NEW rg \in Regimes, NEW keys, keys = MemberKeys(rg)
  PROVE  /\ IsFiniteSet(keys)
         /\ \A k \in keys : k.unit \in BOOLEAN /\ k.attr \in BOOLEAN
         /\ \A u \in BOOLEAN : (u => rg.unit # None) =>
              \E k \in keys : k.unit = u /\ k.attr = (rg.attr # None)
<1> DEFINE b == rg.attr # None
           U == {FALSE} \cup IF rg.unit # None THEN {TRUE} ELSE {}
           f == [u \in U |-> [unit |-> u, attr |-> b]]
<1>1. keys = {[unit |-> u, attr |-> b] : u \in U}
  BY Zenon DEF MemberKeys
<1>2. U \in SUBSET BOOLEAN /\ \A u \in BOOLEAN : (u => rg.unit # None) => u \in U
  OBVIOUS
<1>3. IsFiniteSet(U)
  <2>1. IsFiniteSet({FALSE, TRUE})
    <3>1. IsFiniteSet({FALSE})  BY FS_Singleton
    <3>2. IsFiniteSet({FALSE} \cup {TRUE})  BY <3>1, FS_AddElement
    <3>3. {FALSE} \cup {TRUE} = {FALSE, TRUE}  OBVIOUS
    <3> QED BY <3>2, <3>3
  <2>2. U \in SUBSET {FALSE, TRUE}  BY <1>2
  <2> HIDE DEF U
  <2> QED BY <2>1, <2>2, FS_Subset
<1>4. f \in Surjection(U, keys)
  BY <1>1, Zenon DEF Surjection
<1>5. b \in BOOLEAN  OBVIOUS
<1> HIDE DEF U, f, b
<1>6. IsFiniteSet(keys)  BY <1>3, <1>4, FS_Surjection
<1>7. \A k \in keys : k.unit \in BOOLEAN /\ k.attr \in BOOLEAN
  BY <1>1, <1>2, <1>5
<1>8. ASSUME NEW u \in BOOLEAN, u => rg.unit # None
      PROVE  \E k \in keys : k.unit = u /\ k.attr = b
  <2>1. [unit |-> u, attr |-> b] \in keys  BY <1>1, <1>2, <1>8
  <2> QED BY <2>1
<1> QED BY <1>6, <1>7, <1>8 DEF b

(* A legacy bound is a number no entry it covers exceeds.                  *)
LEMMA LegacyBound ==
  ASSUME NEW c \in DOMAIN Card, NEW rg \in Regimes, NEW keys, keys = MemberKeys(rg)
  PROVE  /\ LegacyOverKeys(c, keys) \in Nat
         /\ \A u \in Card[c].units, k \in keys :
              Card[c].legacy[u][k.unit][k.attr] <= LegacyOverKeys(c, keys)
<1> DEFINE U == Card[c].units
           l == Card[c].legacy
           D == U \X keys
           E(u, k) == l[u][k.unit][k.attr]
           S == {E(u, k) : u \in U, k \in keys}
           f == [p \in D |-> E(p[1], p[2])]
<1>1. /\ IsFiniteSet(keys) /\ keys # {}
      /\ \A k \in keys : k.unit \in BOOLEAN /\ k.attr \in BOOLEAN
  BY MemberKeysFacts
<1>2. U # {} /\ l \in [U -> [BOOLEAN -> [BOOLEAN -> Nat]]]
  BY CardTypes
<1>3. IsFiniteSet(U)  BY UnitsFinite
<1>4. LegacyOverKeys(c, keys) = Max(S)
  BY DEF LegacyOverKeys
<1> HIDE DEF U, l
<1>5. \A u \in U, k \in keys : E(u, k) \in Nat
  BY <1>1, <1>2
<1>6. S # {}
  <2>1. PICK u \in U : TRUE  BY <1>2
  <2>2. PICK k \in keys : TRUE  BY <1>1
  <2> HIDE DEF E
  <2>3. E(u, k) \in S  OBVIOUS
  <2> HIDE DEF S
  <2> QED BY <2>3
<1>7. f \in Surjection(D, S)
  <2> HIDE DEF E
  <2>1. \A u \in U, k \in keys : <<u, k>> \in D /\ f[<<u, k>>] = E(u, k)
    OBVIOUS
  <2>2. \A p \in D : p[1] \in U /\ p[2] \in keys  OBVIOUS
  <2>3. \A p \in D : f[p] \in S  BY <2>2
  <2>4. f \in [D -> S]  BY <2>3
  <2>5. \A x \in S : \E u \in U, k \in keys : x = E(u, k)  OBVIOUS
  <2> HIDE DEF f, S, D, U
  <2>6. ASSUME NEW x \in S PROVE \E p \in D : f[p] = x
    <3>1. PICK u \in U, k \in keys : x = E(u, k)  BY <2>5
    <3>2. <<u, k>> \in D /\ f[<<u, k>>] = x  BY <2>1, <3>1
    <3> QED BY <3>2
  <2> QED BY <2>4, <2>6 DEF Surjection
<1>12. S \in SUBSET Nat
  <2> HIDE DEF E
  <2> QED BY <1>5
<1>8. IsFiniteSet(D)  BY <1>1, <1>3, FS_Product
<1>9. \A u \in U, k \in keys : l[u][k.unit][k.attr] \in S  BY DEF E
<1> HIDE DEF S, f, D
<1>10. IsFiniteSet(S)  BY <1>7, <1>8, FS_Surjection
<1>11. Max(S) \in S /\ \A y \in S : y <= Max(S)
  <2>1. S \in SUBSET Int  BY <1>12
  <2> QED BY <2>1, <1>6, <1>10, MaxProperties
<1> QED BY <1>4, <1>9, <1>11, <1>12 DEF U, l

(* And so is a multi-unit bound.                                           *)
LEMMA MultiBound ==
  ASSUME NEW c \in DOMAIN Card, Card[c].multi # <<>>,
         NEW rg \in Regimes, NEW keys, keys = MemberKeys(rg)
  PROVE  /\ MultiOverKeys(c, keys) \in Nat
         /\ \A o, s \in BOOLEAN, k \in keys :
              (o \/ s) = k.unit => Card[c].multi[o][s][k.attr] <= MultiOverKeys(c, keys)
<1> DEFINE l == Card[c].multi
           Reached(k) == {os \in BOOLEAN \X BOOLEAN : (os[1] \/ os[2]) = k.unit}
           S == UNION {{l[os[1]][os[2]][k.attr] : os \in Reached(k)} : k \in keys}
           B == {FALSE, TRUE}
           D == B \X B \X B
           f == [p \in D |-> l[p[1]][p[2]][p[3]]]
           W == {f[p] : p \in D}
<1>1. /\ keys # {} /\ \A k \in keys : k.unit \in BOOLEAN /\ k.attr \in BOOLEAN
      /\ \E k \in keys : k.unit = FALSE
  BY MemberKeysFacts
<1>2. l \in [BOOLEAN -> [BOOLEAN -> [BOOLEAN -> Nat]]]
  BY CardTypes
<1>3. MultiOverKeys(c, keys) = Max(S)
  BY Zenon DEF MultiOverKeys
<1> HIDE DEF l
<1>4. ASSUME NEW o \in BOOLEAN, NEW s \in BOOLEAN, NEW k \in keys, (o \/ s) = k.unit
      PROVE  l[o][s][k.attr] \in S
  <2>1. <<o, s>> \in Reached(k)  BY <1>4
  <2>2. l[o][s][k.attr] \in {l[os[1]][os[2]][k.attr] : os \in Reached(k)}
    <3> HIDE DEF Reached
    <3> QED BY <2>1
  <2> HIDE DEF Reached
  <2> QED BY <2>2
<1>5. \A x \in S : \E k \in keys : \E os \in Reached(k) : x = l[os[1]][os[2]][k.attr]
  <2> HIDE DEF Reached
  <2> QED OBVIOUS
<1>6. \A x \in S : \E o, s, a \in BOOLEAN : x = l[o][s][a]
  <2> SUFFICES ASSUME NEW x \in S PROVE \E o, s, a \in BOOLEAN : x = l[o][s][a]
    OBVIOUS
  <2>1. PICK k \in keys : \E os \in Reached(k) : x = l[os[1]][os[2]][k.attr]
    BY <1>5
  <2>2. PICK os \in Reached(k) : x = l[os[1]][os[2]][k.attr]  BY <2>1
  <2>3. os[1] \in BOOLEAN /\ os[2] \in BOOLEAN  OBVIOUS
  <2> HIDE DEF Reached, S
  <2> QED BY <2>2, <2>3, <1>1
<1>7. \A o, s, a \in BOOLEAN : l[o][s][a] \in Nat  BY <1>2
<1>8. S # {}
  <2>1. PICK k \in keys : k.unit = FALSE  BY <1>1
  <2>2. l[FALSE][FALSE][k.attr] \in S  BY <1>4, <2>1
  <2> HIDE DEF S
  <2> QED BY <2>2
<1> HIDE DEF S, Reached
<1>9. S \in SUBSET Nat  BY <1>6, <1>7
<1>10. S \in SUBSET W
  <2> SUFFICES ASSUME NEW x \in S PROVE x \in W  OBVIOUS
  <2>1. PICK o \in BOOLEAN, s \in BOOLEAN, a \in BOOLEAN : x = l[o][s][a]  BY <1>6
  <2>2. <<o, s, a>> \in D /\ f[<<o, s, a>>] = l[o][s][a]  OBVIOUS
  <2> HIDE DEF f, D
  <2> QED BY <2>1, <2>2
<1>11. IsFiniteSet(B)
  <2>1. IsFiniteSet({FALSE})  BY FS_Singleton
  <2>2. IsFiniteSet({FALSE} \cup {TRUE})  BY <2>1, FS_AddElement
  <2>3. {FALSE} \cup {TRUE} = B  OBVIOUS
  <2> QED BY <2>2, <2>3
<1>12. IsFiniteSet(D)
  <2> DEFINE P == B \X B
             E == P \X B
             g == [p \in E |-> <<p[1][1], p[1][2], p[2]>>]
  <2>1. g \in Surjection(E, D)
    <3>1. \A p \in E : g[p] \in D  OBVIOUS
    <3>2. g \in [E -> D]  BY <3>1
    <3>3. ASSUME NEW x \in D PROVE \E p \in E : g[p] = x
      <4>1. << <<x[1], x[2]>>, x[3]>> \in E /\ g[<< <<x[1], x[2]>>, x[3]>>] = <<x[1], x[2], x[3]>>
        OBVIOUS
      <4>2. <<x[1], x[2], x[3]>> = x  OBVIOUS
      <4> HIDE DEF g, E, D
      <4> QED BY <4>1, <4>2
    <3> HIDE DEF g, E, D
    <3> QED BY <3>2, <3>3 DEF Surjection
  <2> HIDE DEF g, D, B
  <2>2. IsFiniteSet(P)  BY <1>11, FS_Product
  <2> HIDE DEF P
  <2>3. IsFiniteSet(E)  BY <1>11, <2>2, FS_Product
  <2> HIDE DEF E
  <2> QED BY <2>1, <2>3, FS_Surjection
<1>13. f \in Surjection(D, W)  BY Zenon DEF Surjection
<1> HIDE DEF f, D, W, B
<1>14. IsFiniteSet(S)
  <2>1. IsFiniteSet(W)  BY <1>12, <1>13, FS_Surjection
  <2> QED BY <2>1, <1>10, FS_Subset
<1>15. Max(S) \in S /\ \A y \in S : y <= Max(S)
  <2>1. S \in SUBSET Int  BY <1>9
  <2> QED BY <2>1, <1>8, <1>14, MaxProperties
<1> QED BY <1>3, <1>4, <1>9, <1>15 DEF l

-----------------------------------------------------------------------------
(* Ceilings and ranks.                                                       *)

(* A ceiling is a natural number that grows with power and bonus.          *)
LEMMA CeilingGrows ==
  ASSUME NEW q \in Requests,
         NEW s \in Nat, NEW t \in Nat, s <= t, NEW b \in Nat, NEW e \in Nat, b <= e
  PROVE  /\ Ceiling(q, s, b) \in Nat /\ Ceiling(q, t, e) \in Nat
         /\ Ceiling(q, s, b) <= Ceiling(q, t, e)
<1> DEFINE p == s + HonorBonus  r == t + HonorBonus
           x == Primary(q, p, b)  y == Primary(q, r, e)
<1>1. p \in Nat /\ r \in Nat /\ p <= r
  <2>1. HonorBonus \in Nat  BY RegimeAssumption
  <2> QED BY <2>1
<1>2. /\ Ceiling(q, s, b) = IF q.target = "mysekai" THEN x * RankBase + p ELSE x
      /\ Ceiling(q, t, e) = IF q.target = "mysekai" THEN y * RankBase + r ELSE y
  BY DEF Ceiling
<1> HIDE DEF p, r
<1>3. x \in Nat /\ y \in Nat /\ x <= y  BY <1>1, PrimaryGrows
<1>4. RankBase \in Nat  BY RegimeAssumption
<1> HIDE DEF x, y
<1>5. x * RankBase \in Nat /\ y * RankBase \in Nat /\ x * RankBase <= y * RankBase
  BY <1>3, <1>4, TimesGrows
<1> DEFINE u == x * RankBase  v == y * RankBase
<1>6. u \in Nat /\ v \in Nat /\ u <= v  BY <1>5
<1> HIDE DEF u, v
<1>7. u + p \in Nat /\ v + r \in Nat /\ u + p <= v + r  BY <1>1, <1>6
<1> QED BY <1>2, <1>3, <1>7 DEF u, v

(* A deck's rank is the ceiling of its own power and bonus.                *)
LEMMA RankIs ==
  ASSUME NEW q \in Requests, NEW cards \in SUBSET q.pool, NEW d \in LegalDecks(q, cards)
  PROVE  /\ Rank(Ctx(q), Evaluated(q, d), RankBase) = Ceiling(q, TotalPower(d), Bonus(d))
         /\ Rank(Ctx(q), Evaluated(q, d), RankBase) \in Nat
<1>1. /\ Evaluated(q, d).score = Primary(q, TotalPower(d) + HonorBonus, Bonus(d))
      /\ Evaluated(q, d).power = TotalPower(d) + HonorBonus
      /\ TotalPower(d) \in Nat /\ Bonus(d) \in Nat
  BY EvaluatedFacts
<1> DEFINE r == Evaluated(q, d)
<1> HIDE DEF r
<1>2. Rank(Ctx(q), r, RankBase) =
        IF q.target = "mysekai" THEN r.score * RankBase + r.power ELSE r.score
  BY CtxFacts DEF Rank
<1>3. Ceiling(q, TotalPower(d), Bonus(d)) =
        LET x == Primary(q, TotalPower(d) + HonorBonus, Bonus(d))
        IN  IF q.target = "mysekai" THEN x * RankBase + (TotalPower(d) + HonorBonus) ELSE x
  BY Zenon DEF Ceiling
<1>4. Rank(Ctx(q), r, RankBase) = Ceiling(q, TotalPower(d), Bonus(d))
  BY <1>1, <1>2, <1>3 DEF r
<1>5. Ceiling(q, TotalPower(d), Bonus(d)) \in Nat
  BY <1>1, CeilingGrows
<1> QED BY <1>4, <1>5 DEF r

(* Of two results of a strongest-deck search, the one of higher rank has   *)
(* the better key.                                                         *)
LEMMA HigherRankIsBetter ==
  ASSUME NEW q \in Requests, ~q.minimize,
         NEW a \in Results(q), NEW b \in Results(q),
         Rank(Ctx(q), a, RankBase) < Rank(Ctx(q), b, RankBase)
  PROVE  KeyLess(Ctx(q), b, a)
<1> DEFINE x == a.score  y == b.score  u == a.power  v == b.power
<1>1. x \in Nat /\ y \in Nat /\ u \in Nat /\ v \in Nat /\ u < RankBase /\ v < RankBase
  <2>1. q.pool \in SUBSET q.pool  OBVIOUS
  <2>2. PICK d \in LegalDecks(q, q.pool) : a = Evaluated(q, d)  BY DEF Results, Evaluations
  <2>3. PICK e \in LegalDecks(q, q.pool) : b = Evaluated(q, e)  BY DEF Results, Evaluations
  <2> QED BY <2>1, <2>2, <2>3, EvaluatedFacts
<1>2. RankBase \in Nat  BY RegimeAssumption
<1>3. Objective(Ctx(q), a) = -x /\ Objective(Ctx(q), b) = -y
  BY CtxFacts DEF Objective, Minimizing
<1>4. /\ ResolvedPower(Ctx(q), a) = IF q.target = "mysekai" THEN -u ELSE 0
      /\ ResolvedPower(Ctx(q), b) = IF q.target = "mysekai" THEN -v ELSE 0
  BY CtxFacts DEF ResolvedPower
<1>5. /\ Rank(Ctx(q), a, RankBase) = IF q.target = "mysekai" THEN x * RankBase + u ELSE x
      /\ Rank(Ctx(q), b, RankBase) = IF q.target = "mysekai" THEN y * RankBase + v ELSE y
  BY CtxFacts DEF Rank
<1> HIDE DEF x, y, u, v
<1>6. CASE q.target = "mysekai"
  <2>1. x * RankBase + u < y * RankBase + v  BY <1>5, <1>6
  <2>2. x < y \/ (x = y /\ u < v)  BY <1>1, <1>2, <2>1, RankOrder
  <2>3. -y < -x \/ (-y = -x /\ -v < -u)  BY <1>1, <2>2
  <2> QED BY <1>3, <1>4, <1>6, <2>3 DEF KeyLess
<1>7. CASE q.target # "mysekai"
  <2>1. x < y  BY <1>5, <1>7
  <2>2. -y < -x  BY <1>1, <2>1
  <2> QED BY <1>3, <2>2 DEF KeyLess
<1> QED BY <1>6, <1>7

-----------------------------------------------------------------------------
(* Plans.                                                                    *)

\* The cards of a pool are of one kind: with tables for multi-unit decks or not.
Uniform(q) == \A a, b \in q.pool : Card[a].multi = <<>> <=> Card[b].multi = <<>>

(* The assumption on a pool says so.                                       *)
LEMMA PoolIsUniform ==
  ASSUME NEW q \in Requests PROVE Uniform(q)
  BY RequestAssumption DEF Uniform

(* Effects activate only where a card has them.                            *)
LEMMA ActivationFacts ==
  ASSUME NEW q \in Requests, NEW cards \in SUBSET q.pool, NEW m \in Activations(cards)
  PROVE  m \in BOOLEAN /\ (m => \A c \in cards : Card[c].multi # <<>>)
<1>1. CASE \E c \in cards : Card[c].multi # <<>>
  <2>1. \A c \in cards : Card[c].multi # <<>>
    BY <1>1, PoolIsUniform DEF Uniform
  <2>2. m \in BOOLEAN  BY <1>1 DEF Activations
  <2> QED BY <2>1, <2>2
<1>2. CASE ~\E c \in cards : Card[c].multi # <<>>
  BY <1>2 DEF Activations
<1> QED BY <1>1, <1>2

\* The bonuses of the cards a plan admits.
KeptBonus(p) == [c \in p.keep |-> Card[c].bonus]

\* p is the plan of a regime for some cards.
PlanOf(q, cards, rg, m, p) ==
  /\ p.order = Order(rg) * 2 + (IF m THEN 1 ELSE 0)
  /\ p.regime = rg /\ p.multi = m
  /\ p.keep = {c \in cards : Admits(rg, c)}
  /\ p.power = [c \in p.keep |-> CardBound(c, MemberKeys(rg), m)]
  /\ p.ceiling = IF Fillable(q, p.keep)
                 THEN Ceiling(q, BestSum(q, p.keep, p.power), BestSum(q, p.keep, KeptBonus(p)))
                 ELSE None

(* The fields of a plan.                                                   *)
LEMMA PlanIs ==
  ASSUME NEW q, NEW cards, NEW rg, NEW m
  PROVE  PlanOf(q, cards, rg, m, Plan(q, cards, rg, m))
<1> DEFINE keep == {c \in cards : Admits(rg, c)}
           power == [c \in keep |-> CardBound(c, MemberKeys(rg), m)]
           bonus == [c \in keep |-> Card[c].bonus]
           ceiling == IF Fillable(q, keep)
                      THEN Ceiling(q, BestSum(q, keep, power), BestSum(q, keep, bonus))
                      ELSE None
           order == Order(rg) * 2 + (IF m THEN 1 ELSE 0)
           p == Plan(q, cards, rg, m)
<1>1. p = [order |-> order, regime |-> rg, multi |-> m, keep |-> keep,
           power |-> power, ceiling |-> ceiling]
  BY Zenon DEF Plan
<1> HIDE DEF p
<1>2. p.keep = keep /\ p.power = power /\ p.ceiling = ceiling
  <2> HIDE DEF keep, power, bonus, ceiling, order
  <2> QED BY <1>1
<1>3. p.order = order /\ p.regime = rg /\ p.multi = m
  <2> HIDE DEF keep, power, bonus, ceiling, order
  <2> QED BY <1>1
<1>4. PlanOf(q, cards, rg, m, p)
  BY <1>2, <1>3, Zenon DEF PlanOf, KeptBonus
<1> QED BY <1>4 DEF p

\* p is a plan for a part of a request's pool, with its bounds.
IsPlan(q, cards, p) ==
  \E rg \in Regimes, m \in Activations(cards) : PlanOf(q, cards, rg, m, p)

(* What a planned regime carries: a bound for each card it admits and a    *)
(* ceiling, all natural numbers.                                           *)
LEMMA PlanTypes ==
  ASSUME NEW q \in Requests, NEW cards \in SUBSET q.pool, NEW p, IsPlan(q, cards, p)
  PROVE  /\ p.keep \in SUBSET cards /\ p.keep \in SUBSET q.pool
         /\ Values(p.power, p.keep) /\ Values(KeptBonus(p), p.keep)
         /\ BestSum(q, p.keep, p.power) \in Nat
         /\ BestSum(q, p.keep, KeptBonus(p)) \in Nat
         /\ p.ceiling # None =>
              p.ceiling = Ceiling(q, BestSum(q, p.keep, p.power),
                                     BestSum(q, p.keep, KeptBonus(p)))
         /\ p.ceiling = None <=> ~Fillable(q, p.keep)
         /\ p.ceiling # None => p.ceiling \in Nat
<1>1. PICK rg \in Regimes, m \in Activations(cards) : PlanOf(q, cards, rg, m, p)
  BY DEF IsPlan
<1> DEFINE keep == p.keep  power == p.power  bonus == KeptBonus(p)
<1>2. keep \in SUBSET cards /\ keep \in SUBSET q.pool /\ keep \in SUBSET DOMAIN Card
  <2>1. keep \in SUBSET cards  BY <1>1 DEF PlanOf
  <2> HIDE DEF keep
  <2> QED BY <2>1, RequestFacts
<1>3. power = [c \in keep |-> CardBound(c, MemberKeys(rg), m)]
  BY <1>1 DEF PlanOf
<1>4. p.ceiling = IF Fillable(q, keep)
                  THEN Ceiling(q, BestSum(q, keep, power), BestSum(q, keep, bonus))
                  ELSE None
  BY <1>1, Zenon DEF PlanOf
<1>5. bonus = [c \in keep |-> Card[c].bonus]  BY DEF KeptBonus
<1> HIDE DEF keep, power, bonus
<1>6. Values(power, keep)
  <2> SUFFICES ASSUME NEW c \in keep PROVE CardBound(c, MemberKeys(rg), m) \in Nat
    BY <1>3 DEF Values
  <2>1. m \in BOOLEAN /\ (m => Card[c].multi # <<>>) /\ c \in DOMAIN Card
    BY <1>2, ActivationFacts
  <2>2. CASE m
    <3>1. CardBound(c, MemberKeys(rg), m) = MultiOverKeys(c, MemberKeys(rg))
      BY <2>2 DEF CardBound
    <3> QED BY <2>1, <2>2, <3>1, MultiBound
  <2>3. CASE ~m
    <3>1. CardBound(c, MemberKeys(rg), m) = LegacyOverKeys(c, MemberKeys(rg))
      BY <2>3 DEF CardBound
    <3> QED BY <2>1, <3>1, LegacyBound
  <2> QED BY <2>2, <2>3
<1>7. Values(bonus, keep)
  <2>1. \A c \in keep : Card[c].bonus \in Nat  BY <1>2, RegimeCard
  <2> QED BY <1>5, <2>1 DEF Values
<1>8. BestSum(q, keep, power) \in Nat /\ BestSum(q, keep, bonus) \in Nat
  BY <1>2, <1>6, <1>7, BestSumType
<1>9. Ceiling(q, BestSum(q, keep, power), BestSum(q, keep, bonus)) \in Nat
  BY <1>8, CeilingGrows
<1> DEFINE x == Ceiling(q, BestSum(q, keep, power), BestSum(q, keep, bonus))
           y == p.ceiling
<1>10. /\ y # None => y = x
       /\ y = None <=> ~Fillable(q, keep)
       /\ y # None => y \in Nat
  <2>1. x \in Nat /\ y = IF Fillable(q, keep) THEN x ELSE None  BY <1>4, <1>9
  <2> HIDE DEF x, y
  <2> QED BY <2>1 DEF None
<1> QED BY <1>2, <1>6, <1>7, <1>8, <1>10 DEF keep, power, bonus, x, y

(* Every bound of a plan dominates the power its card resolves to in the   *)
(* decks the plan has to find.                                             *)
LEMMA OwnBounds ==
  ASSUME NEW q \in Requests, NEW cards \in SUBSET q.pool, NEW p, IsPlan(q, cards, p),
         NEW d \in LegalDecks(q, cards), Owns(p, d), NEW c \in d
  PROVE  /\ EffectivePower(c, Composition(d)) \in Nat /\ p.power[c] \in Nat
         /\ EffectivePower(c, Composition(d)) <= p.power[c]
<1>1. PICK rg \in Regimes, m \in Activations(cards) : PlanOf(q, cards, rg, m, p)
  BY DEF IsPlan
<1> DEFINE comp == Composition(d)
           keys == MemberKeys(rg)
<1>2. /\ d \in SUBSET cards /\ d \in SUBSET DOMAIN Card /\ d \in SUBSET q.pool
      /\ IsFiniteSet(d) /\ Cardinality(d) = DeckSize
  BY LegalDeckFacts
<1>3. comp.attr \in BOOLEAN  BY <1>2, CompositionFacts
<1>4. /\ c \in p.keep
      /\ comp.attr = (rg.attr # None)
      /\ rg.unit = None => comp.units = {}
      /\ m = (MultiActive(comp.multi) /\ \A e \in d : Card[e].multi # <<>>)
  BY <1>1 DEF Owns, PlanOf
<1>5. p.power[c] = CardBound(c, keys, m)
  BY <1>1, <1>4 DEF PlanOf
<1>6. m = (MultiActive(comp.multi) /\ Card[c].multi # <<>>)
  <2>1. (\A e \in d : Card[e].multi # <<>>) <=> Card[c].multi # <<>>
    BY <1>2, PoolIsUniform DEF Uniform
  <2> QED BY <1>4, <2>1
<1>7. m \in BOOLEAN /\ p.power[c] \in Nat
  <2>1. Values(p.power, p.keep)  BY PlanTypes
  <2> QED BY <1>4, <2>1, ActivationFacts DEF Values
<1>8. c \in DOMAIN Card  BY <1>2
<1>9. EffectivePower(c, comp) \in Nat  BY <1>3, <1>8, EffectivePowerType
<1> HIDE DEF comp
<1>10. CASE m
  <2> DEFINE o == Original(Card[c].units) \in comp.units
             s == comp.units \cap Support(Card[c].units) # {}
             u == o \/ s
  <2>1. EffectivePower(c, comp) = Card[c].multi[o][s][comp.attr]
    BY <1>6, <1>10, Zenon DEF EffectivePower, MultiPower
  <2>2. o \in BOOLEAN /\ s \in BOOLEAN /\ u \in BOOLEAN  OBVIOUS
  <2>3. u => rg.unit # None  BY <1>4
  <2>4. u = (o \/ s)  OBVIOUS
  <2> HIDE DEF o, s, u
  <2>5. PICK k \in keys : k.unit = u /\ k.attr = comp.attr
    BY <1>4, <2>2, <2>3, MemberKeysFacts
  <2>6. (o \/ s) = k.unit  BY <2>4, <2>5
  <2>7. Card[c].multi[o][s][k.attr] <= MultiOverKeys(c, keys)
    BY <1>6, <1>8, <1>10, <2>2, <2>6, MultiBound
  <2>8. CardBound(c, keys, m) = MultiOverKeys(c, keys)
    BY <1>10 DEF CardBound
  <2> HIDE DEF keys
  <2> QED BY <1>5, <1>7, <1>9, <2>1, <2>5, <2>7, <2>8 DEF comp
<1>11. CASE ~m
  <2>1. EffectivePower(c, comp) = LegacyPower(c, comp.units, comp.attr)
    BY <1>6, <1>11 DEF EffectivePower
  <2>2. PICK w \in Card[c].units :
          LegacyPower(c, comp.units, comp.attr) = Card[c].legacy[w][(w \in comp.units)][comp.attr]
    BY <1>3, <1>8, LegacyPowerIs DEF comp
  <2> DEFINE u == w \in comp.units
  <2>3. u \in BOOLEAN /\ (u => rg.unit # None)  BY <1>4
  <2>4. EffectivePower(c, comp) = Card[c].legacy[w][u][comp.attr]  BY <2>1, <2>2
  <2> HIDE DEF u
  <2>5. PICK k \in keys : k.unit = u /\ k.attr = comp.attr
    BY <1>4, <2>3, MemberKeysFacts
  <2>6. Card[c].legacy[w][k.unit][k.attr] <= LegacyOverKeys(c, keys)
    BY <1>8, LegacyBound
  <2>7. CardBound(c, keys, m) = LegacyOverKeys(c, keys)
    BY <1>11 DEF CardBound
  <2> HIDE DEF keys
  <2> QED BY <1>5, <1>7, <1>9, <2>4, <2>5, <2>6, <2>7 DEF comp
<1> QED BY <1>7, <1>9, <1>10, <1>11 DEF comp

(* The powers a plan gives the members of a deck it has to find add up to  *)
(* no less than the deck's power and no more than the plan's best sum.     *)
LEMMA OwnSum ==
  ASSUME NEW q \in Requests, NEW cards \in SUBSET q.pool, NEW p, IsPlan(q, cards, p),
         NEW d \in LegalDecks(q, cards), Owns(p, d),
         NEW s, s = SumFunction([c \in d |-> p.power[c]])
  PROVE  /\ s \in Nat /\ TotalPower(d) <= s /\ s <= BestSum(q, p.keep, p.power)
         /\ d \in LegalDecks(q, p.keep)
<1> DEFINE f == [c \in d |-> p.power[c]]
           g == [c \in d |-> EffectivePower(c, Composition(d))]
<1>1. d \in SUBSET DOMAIN Card /\ IsFiniteSet(d) /\ Cardinality(d) = DeckSize
  BY LegalDeckFacts
<1>2. s = SumFunctionOnSet(f, d)
  BY Zenon DEF SumFunction
<1>3. TotalPower(d) = SumFunctionOnSet(g, d) /\ TotalPower(d) \in Nat
  BY <1>1, TotalPowerIs
<1>4. \A c \in d : f[c] \in Nat /\ g[c] \in Nat /\ g[c] <= f[c]
  BY OwnBounds
<1>5. \A c \in d : f[c] = p.power[c]  OBVIOUS
<1>6. d \subseteq p.keep  BY DEF Owns
<1>7. d \in LegalDecks(q, p.keep)  BY <1>6, LegalDeckOf
<1> HIDE DEF f, g
<1>8. Summands(f, d) /\ Summands(g, d)  BY <1>4 DEF Summands
<1>9. SumFunctionOnSet(g, d) <= SumFunctionOnSet(f, d)
  BY <1>1, <1>4, <1>8, SumGrows
<1>10. SumFunctionOnSet(f, d) \in Nat  BY <1>1, <1>4, SumNat
<1>11. SumFunctionOnSet(f, d) <= BestSum(q, p.keep, p.power)
  <2> DEFINE keep == p.keep  power == p.power
  <2>1. keep \in SUBSET q.pool /\ Values(power, keep)  BY PlanTypes
  <2>2. \A c \in d : f[c] \in Nat /\ f[c] <= power[c]
    <3> SUFFICES ASSUME NEW c \in d PROVE f[c] <= power[c]  BY <1>4
    <3>1. f[c] = power[c] /\ f[c] \in Nat  BY <1>4, <1>5
    <3> HIDE DEF power
    <3> QED BY <3>1
  <2>3. d \in LegalDecks(q, keep)  BY <1>7
  <2> HIDE DEF keep, power
  <2>4. SumFunctionOnSet(f, d) <= BestSum(q, keep, power)
    BY <2>1, <2>2, <2>3, BestSumBounds
  <2> QED BY <2>4 DEF keep, power
<1> QED BY <1>2, <1>3, <1>7, <1>9, <1>10, <1>11

(* Its rank is bounded by its ceiling under the plan's bounds, and that by *)
(* the plan's ceiling.                                                     *)
LEMMA OwnCeiling ==
  ASSUME NEW q \in Requests, NEW cards \in SUBSET q.pool, NEW p, IsPlan(q, cards, p),
         p.ceiling # None,
         NEW d \in LegalDecks(q, cards), Owns(p, d)
  PROVE  /\ DeckCeiling(q, p, d) \in Nat /\ p.ceiling \in Nat
         /\ Rank(Ctx(q), Evaluated(q, d), RankBase) <= DeckCeiling(q, p, d)
         /\ DeckCeiling(q, p, d) <= p.ceiling
<1> DEFINE s == SumFunction([c \in d |-> p.power[c]])
           t == TotalPower(d)
           b == Bonus(d)
           bonus == KeptBonus(p)
           S == BestSum(q, p.keep, p.power)
           B == BestSum(q, p.keep, bonus)
<1>1. /\ s \in Nat /\ t <= s /\ s <= S /\ d \in LegalDecks(q, p.keep)
  BY OwnSum
<1>2. t \in Nat /\ b \in Nat
  BY EvaluatedFacts
<1>3. /\ p.keep \in SUBSET q.pool /\ Values(bonus, p.keep)
      /\ S \in Nat /\ B \in Nat
      /\ p.ceiling = Ceiling(q, S, B) /\ p.ceiling \in Nat
  BY PlanTypes
<1>4. b <= B
  <2> DEFINE w == [c \in d |-> Card[c].bonus]
             keep == p.keep
  <2>1. d \in SUBSET DOMAIN Card /\ IsFiniteSet(d) /\ d \subseteq keep
    BY LegalDeckFacts DEF Owns
  <2>2. b = SumFunctionOnSet(w, d)  BY <2>1, BonusIs
  <2>3. \A c \in d : w[c] = bonus[c] /\ w[c] \in Nat
    BY <2>1, RegimeCard DEF KeptBonus
  <2> HIDE DEF w, bonus, b
  <2>4. \A c \in d : w[c] \in Nat /\ w[c] <= bonus[c]
    BY <2>3
  <2>5. keep \in SUBSET q.pool /\ Values(bonus, keep) /\ d \in LegalDecks(q, keep)
    BY <1>1, <1>3
  <2> HIDE DEF keep
  <2>6. SumFunctionOnSet(w, d) <= BestSum(q, keep, bonus)
    BY <2>4, <2>5, BestSumBounds
  <2> QED BY <2>2, <2>6 DEF keep
<1>5. DeckCeiling(q, p, d) = Ceiling(q, s, b)
  BY Zenon DEF DeckCeiling
<1>6. Rank(Ctx(q), Evaluated(q, d), RankBase) = Ceiling(q, t, b)
  BY RankIs
<1> HIDE DEF s, t, b, S, B, bonus
<1>7. b <= b  BY <1>2
<1>8. /\ Ceiling(q, t, b) <= Ceiling(q, s, b) /\ Ceiling(q, s, b) \in Nat
  BY <1>1, <1>2, <1>7, CeilingGrows
<1>9. Ceiling(q, s, b) <= Ceiling(q, S, B)
  BY <1>1, <1>2, <1>3, <1>4, CeilingGrows
<1> QED BY <1>3, <1>5, <1>6, <1>8, <1>9

(* Every legal deck is owned by a planned regime.                          *)
LEMMA OwnerExists ==
  ASSUME NEW q \in Requests, NEW cards \in SUBSET q.pool, NEW d \in LegalDecks(q, cards)
  PROVE  \E p \in Planned(q, cards) : Owns(p, d)
<1> DEFINE comp == Composition(d)
<1>1. /\ d \in SUBSET cards /\ d \in SUBSET DOMAIN Card /\ d \in SUBSET q.pool
      /\ IsFiniteSet(d) /\ Cardinality(d) = DeckSize
  BY LegalDeckFacts
<1>2. /\ d # {}
      /\ comp.units = {u \in 0..VS : \A c \in d : u \in Card[c].units}
      /\ comp.attr \in BOOLEAN /\ comp.multi \in BOOLEAN
      /\ comp.attr => \A a, b \in d : Card[a].attr = Card[b].attr
  BY <1>1, CompositionFacts
<1> HIDE DEF comp
<1>3. PICK e \in d : TRUE  BY <1>2
<1>4. \A c \in d : /\ Card[c].attr \in 0..AttrCount - 1
                   /\ Card[c].units \in SUBSET (0..UnitCount - 1)
  BY <1>1, RegimeCard
<1> DEFINE u == IF comp.units = {} THEN None ELSE CHOOSE x \in comp.units : TRUE
           a == IF comp.attr THEN Card[e].attr ELSE None
           rg == [unit |-> u, attr |-> a]
           m == MultiActive(comp.multi) /\ \A c \in d : Card[c].multi # <<>>
           p == Plan(q, cards, rg, m)
<1>5. /\ u = None => comp.units = {}
      /\ u # None => /\ u \in comp.units /\ u \in 0..UnitCount - 1
                     /\ \A c \in d : u \in Card[c].units
  <2>1. CASE comp.units = {}  BY <2>1
  <2>2. CASE comp.units # {}
    <3>1. u = CHOOSE x \in comp.units : TRUE  BY <2>2
    <3>2. u \in comp.units  BY <2>2, <3>1
    <3> HIDE DEF u
    <3>3. \A c \in d : u \in Card[c].units  BY <1>2, <3>2
    <3>4. u \in 0..UnitCount - 1  BY <1>3, <1>4, <3>3
    <3>5. u # None
      <4>1. UnitCount \in Nat  BY RegimeAssumption
      <4> QED BY <4>1, <3>4 DEF None
    <3> QED BY <3>2, <3>3, <3>4, <3>5
  <2> QED BY <2>1, <2>2
<1>6. /\ comp.attr = (a # None)
      /\ a # None => /\ a \in 0..AttrCount - 1
                     /\ \A c \in d : Card[c].attr = a
  <2>1. AttrCount \in Nat  BY RegimeAssumption
  <2>2. CASE comp.attr
    <3>1. a = Card[e].attr /\ a \in 0..AttrCount - 1  BY <2>2, <1>3, <1>4
    <3>2. \A c \in d : Card[c].attr = a  BY <1>2, <1>3, <2>2, <3>1
    <3> HIDE DEF a
    <3>3. a # None  BY <2>1, <3>1 DEF None
    <3> QED BY <2>2, <3>1, <3>2, <3>3
  <2>3. CASE ~comp.attr
    <3>1. a = None  BY <2>3
    <3> HIDE DEF a
    <3> QED BY <1>2, <2>3, <3>1
  <2> QED BY <2>2, <2>3, <1>2
<1> HIDE DEF u, a
<1>7. rg \in Regimes /\ rg.unit = u /\ rg.attr = a
  BY <1>5, <1>6 DEF Regimes
<1>8. m \in Activations(cards)
  <2>1. m \in BOOLEAN  OBVIOUS
  <2>2. MultiUnitMode \in {"by_deck", "force_on", "force_off"}  BY DeckAssumption
  <2>3. /\ MultiUnitMode = "force_off" => ~MultiActive(comp.multi)
        /\ MultiUnitMode = "force_on" => MultiActive(comp.multi)
    BY DEF MultiActive
  <2>4. ASSUME NEW b \in cards, Card[b].multi # <<>>
        PROVE  \A c \in d : Card[c].multi # <<>>
    BY <1>1, <2>4, PoolIsUniform DEF Uniform
  <2>5. CASE \E c \in cards : Card[c].multi # <<>>
    <3>1. Activations(cards) =
            {x \in BOOLEAN : /\ MultiUnitMode = "force_off" => ~x
                             /\ MultiUnitMode = "force_on" => x}
      BY <2>5 DEF Activations
    <3>2. m = MultiActive(comp.multi)
      <4>1. \A c \in d : Card[c].multi # <<>>  BY <2>4, <2>5
      <4>2. MultiActive(comp.multi) \in BOOLEAN  BY <1>2, <2>2 DEF MultiActive
      <4> QED BY <4>1, <4>2
    <3> HIDE DEF m
    <3> QED BY <3>1, <3>2, <2>1, <2>3
  <2>6. CASE ~\E c \in cards : Card[c].multi # <<>>
    <3>1. Activations(cards) = {FALSE}  BY <2>6 DEF Activations
    <3>2. m = FALSE  BY <1>1, <1>3, <2>6
    <3> HIDE DEF m
    <3> QED BY <3>1, <3>2
  <2> QED BY <2>5, <2>6
<1>9. \A c \in d : Admits(rg, c)
  BY <1>5, <1>6, <1>7 DEF Admits
<1>10. PlanOf(q, cards, rg, m, p)
  BY PlanIs
<1> DEFINE keep == p.keep
<1>11. d \subseteq keep
  <2>1. keep = {c \in cards : Admits(rg, c)}  BY <1>10 DEF PlanOf
  <2> HIDE DEF keep, rg
  <2> QED BY <1>1, <1>9, <2>1
<1>12. Owns(p, d)
  <2>1. p.regime = rg /\ p.multi = m  BY <1>10 DEF PlanOf
  <2>2. /\ comp.attr = (p.regime.attr # None)
        /\ IF p.regime.unit = None THEN comp.units = {} ELSE p.regime.unit \in comp.units
    <3> HIDE DEF rg, m, p
    <3> QED BY <1>5, <1>6, <1>7, <2>1
  <2>3. p.multi = (MultiActive(comp.multi) /\ \A c \in d : Card[c].multi # <<>>)
    <3> HIDE DEF p
    <3> QED BY <2>1
  <2> HIDE DEF p
  <2> QED BY <1>11, <2>2, <2>3 DEF Owns, comp
<1>13. p.ceiling # None
  <2>1. IsPlan(q, cards, p)
    <3> HIDE DEF p, rg, m
    <3> QED BY <1>7, <1>8, <1>10 DEF IsPlan
  <2>2. keep \in SUBSET q.pool
    <3> HIDE DEF p
    <3> QED BY <2>1, PlanTypes
  <2>3. d \in LegalDecks(q, keep)  BY <1>11, LegalDeckOf
  <2>4. Fillable(q, keep)
    <3> HIDE DEF keep
    <3> QED BY <2>2, <2>3, LegalDeckFills
  <2> HIDE DEF p
  <2> QED BY <2>1, <2>4, PlanTypes
<1>14. p \in Planned(q, cards)
  <2> DEFINE all == {Plan(q, cards, x, y) : x \in Regimes, y \in Activations(cards)}
  <2>1. p \in all
    <3> HIDE DEF rg, m
    <3> QED BY <1>7, <1>8
  <2>2. Planned(q, cards) = {x \in all : x.ceiling # None}
    <3> HIDE DEF rg, m
    <3> QED BY DEF Planned
  <2> HIDE DEF p, all
  <2> QED BY <1>13, <2>1, <2>2
<1> HIDE DEF p
<1> QED BY <1>12, <1>14

(* What a planned regime is.                                               *)
LEMMA PlannedIs ==
  ASSUME NEW q, NEW cards, NEW p \in Planned(q, cards)
  PROVE  IsPlan(q, cards, p) /\ p.ceiling # None
<1> DEFINE all == {Plan(q, cards, x, y) : x \in Regimes, y \in Activations(cards)}
<1>1. Planned(q, cards) = {x \in all : x.ceiling # None}  BY DEF Planned
<1>2. \A z \in all : \E x \in Regimes, y \in Activations(cards) : z = Plan(q, cards, x, y)
  OBVIOUS
<1> HIDE DEF all
<1>3. PICK x \in Regimes, y \in Activations(cards) : p = Plan(q, cards, x, y)
  BY <1>1, <1>2
<1>4. PlanOf(q, cards, x, y, p)  BY <1>3, PlanIs
<1> QED BY <1>1, <1>4 DEF IsPlan

-----------------------------------------------------------------------------
(* The list of plans.                                                        *)

(* Two regimes have different positions.                                   *)
LEMMA OrderFacts ==
  ASSUME NEW rg \in Regimes, NEW sg \in Regimes
  PROVE  /\ Order(rg) \in Nat /\ Order(sg) \in Nat
         /\ Order(rg) = Order(sg) => rg = sg
<1> DEFINE u == rg.unit  a == rg.attr  v == sg.unit  b == sg.attr
           U == UnitCount  A == AttrCount
<1>1. /\ u \in {None} \cup 0..U - 1 /\ a \in {None} \cup 0..A - 1
      /\ v \in {None} \cup 0..U - 1 /\ b \in {None} \cup 0..A - 1
      /\ rg = [unit |-> u, attr |-> a] /\ sg = [unit |-> v, attr |-> b]
  BY DEF Regimes
<1>2. U \in Nat /\ A \in Nat  BY RegimeAssumption
<1>3. /\ u = None /\ a = None => Order(rg) = 0
      /\ u = None /\ a # None => Order(rg) = 1 + a
      /\ u # None /\ a = None => Order(rg) = 1 + A + u
      /\ u # None /\ a # None => Order(rg) = 1 + A + U + u * A + a
  BY DEF Order
<1>4. /\ v = None /\ b = None => Order(sg) = 0
      /\ v = None /\ b # None => Order(sg) = 1 + b
      /\ v # None /\ b = None => Order(sg) = 1 + A + v
      /\ v # None /\ b # None => Order(sg) = 1 + A + U + v * A + b
  BY DEF Order
<1> DEFINE x == Order(rg)  y == Order(sg)  m == u * A  n == v * A
<1> HIDE DEF u, a, v, b, U, A, x, y
<1>5. /\ u # None => u \in Nat /\ u < U /\ m \in Nat
      /\ v # None => v \in Nat /\ v < U /\ n \in Nat
      /\ a # None => a \in Nat /\ a < A
      /\ b # None => b \in Nat /\ b < A
  BY <1>1, <1>2
<1>6. u # None /\ a # None /\ v # None /\ b # None /\ m + a = n + b => u = v /\ a = b
  BY <1>2, <1>5, LastDigit
<1> HIDE DEF m, n
<1>7. x \in Nat /\ y \in Nat
  BY <1>2, <1>3, <1>4, <1>5 DEF x, y, m, n
<1>8. ASSUME x = y PROVE u = v /\ a = b
  <2>1. /\ u = None /\ a = None => x = 0
        /\ u = None /\ a # None => x = 1 + a
        /\ u # None /\ a = None => x = 1 + A + u
        /\ u # None /\ a # None => x = 1 + A + U + m + a
    BY <1>3 DEF x, m
  <2>2. /\ v = None /\ b = None => y = 0
        /\ v = None /\ b # None => y = 1 + b
        /\ v # None /\ b = None => y = 1 + A + v
        /\ v # None /\ b # None => y = 1 + A + U + n + b
    BY <1>4 DEF y, n
  <2>3. CASE u = None /\ a = None
    BY <1>2, <1>5, <1>8, <2>1, <2>2, <2>3
  <2>4. CASE u = None /\ a # None
    BY <1>2, <1>5, <1>8, <2>1, <2>2, <2>4
  <2>5. CASE u # None /\ a = None
    BY <1>2, <1>5, <1>8, <2>1, <2>2, <2>5
  <2>6. CASE u # None /\ a # None
    BY <1>2, <1>5, <1>6, <1>8, <2>1, <2>2, <2>6
  <2> QED BY <2>3, <2>4, <2>5, <2>6
<1> QED BY <1>1, <1>7, <1>8 DEF x, y

(* There are finitely many plans.                                          *)
LEMMA PlannedFinite ==
  ASSUME NEW q, NEW cards PROVE IsFiniteSet(Planned(q, cards))
<1> DEFINE U == {None} \cup 0..UnitCount - 1
           A == {None} \cup 0..AttrCount - 1
           M == Activations(cards)
           D == U \X A
           E == Regimes \X M
           all == {Plan(q, cards, x, y) : x \in Regimes, y \in M}
           f == [p \in D |-> [unit |-> p[1], attr |-> p[2]]]
           g == [p \in E |-> Plan(q, cards, p[1], p[2])]
<1>1. Planned(q, cards) \in SUBSET all  BY DEF Planned
<1>2. IsFiniteSet(U) /\ IsFiniteSet(A)
  <2> DEFINE u == UnitCount - 1  a == AttrCount - 1
  <2>1. u \in Int /\ a \in Int  BY RegimeAssumption
  <2> HIDE DEF u, a
  <2>2. IsFiniteSet(0..u) /\ IsFiniteSet(0..a)  BY <2>1, FS_Interval
  <2>3. IsFiniteSet({None})  BY FS_Singleton
  <2>4. IsFiniteSet({None} \cup 0..u) /\ IsFiniteSet({None} \cup 0..a)
    BY <2>2, <2>3, FS_Union
  <2> QED BY <2>4 DEF u, a
<1>3. IsFiniteSet(M)
  <2>1. IsFiniteSet({FALSE, TRUE})
    <3>1. IsFiniteSet({FALSE})  BY FS_Singleton
    <3>2. IsFiniteSet({FALSE} \cup {TRUE})  BY <3>1, FS_AddElement
    <3>3. {FALSE} \cup {TRUE} = {FALSE, TRUE}  OBVIOUS
    <3> QED BY <3>2, <3>3
  <2>2. M \in SUBSET {FALSE, TRUE}  BY DEF Activations
  <2> HIDE DEF M
  <2> QED BY <2>1, <2>2, FS_Subset
<1>4. f \in Surjection(D, Regimes)
  <2>1. Regimes = [unit : U, attr : A]  BY DEF Regimes
  <2> HIDE DEF U, A
  <2>2. \A p \in D : f[p] \in Regimes  BY <2>1
  <2>3. f \in [D -> Regimes]  BY <2>2
  <2>4. ASSUME NEW rg \in Regimes PROVE \E p \in D : f[p] = rg
    <3>1. /\ <<rg.unit, rg.attr>> \in D
          /\ f[<<rg.unit, rg.attr>>] = [unit |-> rg.unit, attr |-> rg.attr]
          /\ rg = [unit |-> rg.unit, attr |-> rg.attr]
      BY <2>1
    <3> HIDE DEF f, D
    <3> QED BY <3>1
  <2> HIDE DEF f, D
  <2> QED BY <2>3, <2>4 DEF Surjection
<1>5. g \in Surjection(E, all)
  <2> HIDE DEF M
  <2>1. \A p \in E : g[p] \in all  OBVIOUS
  <2>2. g \in [E -> all]  BY <2>1
  <2>3. ASSUME NEW z \in all PROVE \E p \in E : g[p] = z
    <3>1. PICK x \in Regimes, y \in M : z = Plan(q, cards, x, y)  OBVIOUS
    <3>2. <<x, y>> \in E /\ g[<<x, y>>] = Plan(q, cards, x, y)  OBVIOUS
    <3> HIDE DEF g, E
    <3> QED BY <3>1, <3>2
  <2> HIDE DEF g, E, all
  <2> QED BY <2>2, <2>3 DEF Surjection
<1> HIDE DEF U, A, f, g, all, M
<1>6. IsFiniteSet(D)  BY <1>2, FS_Product
<1> HIDE DEF D
<1>7. IsFiniteSet(Regimes)  BY <1>4, <1>6, FS_Surjection
<1>8. IsFiniteSet(E)  BY <1>3, <1>7, FS_Product
<1> HIDE DEF E
<1>9. IsFiniteSet(all)  BY <1>5, <1>8, FS_Surjection
<1> QED BY <1>1, <1>9, FS_Subset

\* Whether plan a is looked at before plan b.
Sooner(a, b) == a.ceiling > b.ceiling \/ (a.ceiling = b.ceiling /\ a.order < b.order)

SoonerOn(S) == {p \in S \X S : Sooner(p[1], p[2])}

(* Which plan comes first is never open.                                   *)
LEMMA SoonerOrders ==
  ASSUME NEW q \in Requests, NEW cards \in SUBSET q.pool, NEW S, S = Planned(q, cards)
  PROVE  /\ Orders(SoonerOn(S), S)
         /\ \A a, b \in S : <<a, b>> \in SoonerOn(S) <=> Sooner(a, b)
<1> DEFINE L == SoonerOn(S)
<1>1. \A a, b \in S : <<a, b>> \in L <=> Sooner(a, b)
  BY DEF SoonerOn
<1>2. \A a \in S : a.ceiling \in Nat /\ a.order \in Nat
  <2> SUFFICES ASSUME NEW a \in S PROVE a.ceiling \in Nat /\ a.order \in Nat  OBVIOUS
  <2>1. IsPlan(q, cards, a) /\ a.ceiling # None  BY PlannedIs
  <2>2. a.ceiling \in Nat  BY <2>1, PlanTypes
  <2>3. PICK rg \in Regimes, m \in Activations(cards) : PlanOf(q, cards, rg, m, a)
    BY <2>1 DEF IsPlan
  <2>4. a.order = Order(rg) * 2 + (IF m THEN 1 ELSE 0)  BY <2>3 DEF PlanOf
  <2>5. Order(rg) \in Nat  BY OrderFacts
  <2> QED BY <2>2, <2>4, <2>5
<1>3. ASSUME NEW a \in S, NEW b \in S, a.order = b.order PROVE a = b
  <2> DEFINE all == {Plan(q, cards, x, y) : x \in Regimes, y \in Activations(cards)}
  <2>1. S \in SUBSET all  BY DEF Planned
  <2>2. \A z \in all : \E x \in Regimes, y \in Activations(cards) : z = Plan(q, cards, x, y)
    OBVIOUS
  <2> HIDE DEF all
  <2>3. PICK x \in Regimes, m \in Activations(cards) : a = Plan(q, cards, x, m)
    BY <2>1, <2>2
  <2>4. PICK y \in Regimes, n \in Activations(cards) : b = Plan(q, cards, y, n)
    BY <2>1, <2>2
  <2> DEFINE i == IF m THEN 1 ELSE 0  j == IF n THEN 1 ELSE 0
  <2>5. a.order = Order(x) * 2 + i /\ b.order = Order(y) * 2 + j
    <3>1. PlanOf(q, cards, x, m, a) /\ PlanOf(q, cards, y, n, b)
      BY <2>3, <2>4, PlanIs
    <3> QED BY <3>1 DEF PlanOf
  <2>6. m \in BOOLEAN /\ n \in BOOLEAN  BY ActivationFacts
  <2>7. i \in Nat /\ j \in Nat /\ i < 2 /\ j < 2 /\ (i = j => m = n)  BY <2>6
  <2> DEFINE u == Order(x)  v == Order(y)
  <2>8. u \in Nat /\ v \in Nat /\ u * 2 + i = v * 2 + j
    BY <1>3, <2>5, OrderFacts
  <2> HIDE DEF i, j, u, v
  <2>9. u = v /\ i = j
    BY <2>7, <2>8, LastDigit
  <2>10. x = y /\ m = n  BY <2>7, <2>9, OrderFacts DEF u, v
  <2> QED BY <2>3, <2>4, <2>10
<1> HIDE DEF L
<1>4. \A a \in S : <<a, a>> \notin L
  <2> SUFFICES ASSUME NEW a \in S PROVE ~Sooner(a, a)  BY <1>1
  <2>1. a.ceiling \in Nat /\ a.order \in Nat  BY <1>2
  <2> QED BY <2>1 DEF Sooner
<1>5. \A a, b \in S : <<a, b>> \in L \/ <<b, a>> \in L \/ a = b
  <2> SUFFICES ASSUME NEW a \in S, NEW b \in S, ~Sooner(a, b), ~Sooner(b, a) PROVE a = b
    BY <1>1
  <2> DEFINE x == a.ceiling  y == b.ceiling  i == a.order  j == b.order
  <2>1. x \in Nat /\ y \in Nat /\ i \in Nat /\ j \in Nat  BY <1>2
  <2>2. /\ ~(x > y \/ (x = y /\ i < j))
        /\ ~(y > x \/ (y = x /\ j < i))
    BY DEF Sooner
  <2> HIDE DEF x, y, i, j
  <2>3. i = j  BY <2>1, <2>2
  <2> QED BY <1>3, <2>3 DEF i, j
<1>6. \A a, b, c \in S : <<a, b>> \in L /\ <<b, c>> \in L => <<a, c>> \in L
  <2> SUFFICES ASSUME NEW a \in S, NEW b \in S, NEW c \in S, Sooner(a, b), Sooner(b, c)
               PROVE  Sooner(a, c)
    BY <1>1
  <2> DEFINE x == a.ceiling  y == b.ceiling  z == c.ceiling
             i == a.order  j == b.order  k == c.order
  <2>1. x \in Nat /\ y \in Nat /\ z \in Nat /\ i \in Nat /\ j \in Nat /\ k \in Nat  BY <1>2
  <2>2. /\ x > y \/ (x = y /\ i < j)
        /\ y > z \/ (y = z /\ j < k)
        /\ Sooner(a, c) <=> x > z \/ (x = z /\ i < k)
    BY DEF Sooner
  <2> HIDE DEF x, y, z, i, j, k
  <2> QED BY <2>1, <2>2
<1>7. Orders(L, S)  BY <1>4, <1>5, <1>6 DEF Orders
<1> QED BY <1>1, <1>7 DEF L

(* The plans are listed, each once.                                        *)
LEMMA PlansList ==
  ASSUME NEW q \in Requests, NEW cards \in SUBSET q.pool, NEW S, S = Planned(q, cards)
  PROVE  Lists(SoonerOn(S), S, Plans(q, cards))
<1> DEFINE L == SoonerOn(S)
           n == Cardinality(S)
           Weight(x) == Cardinality({y \in S : \/ y.ceiling > x.ceiling
                                               \/ y.ceiling = x.ceiling /\ y.order < x.order})
           o == [i \in 1..n |-> CHOOSE x \in S : Weight(x) = i - 1]
<1>1. IsFiniteSet(S)  BY PlannedFinite
<1>2. Orders(L, S) /\ \A a, b \in S : <<a, b>> \in L <=> Sooner(a, b)
  BY SoonerOrders
<1>3. Plans(q, cards) = SubSeq(o, 1, n)
  <2>1. Plans(q, cards) =
          SortedBy(S, LAMBDA a, b : \/ a.ceiling > b.ceiling
                                    \/ a.ceiling = b.ceiling /\ a.order < b.order)
    BY Zenon DEF Plans
  <2> QED BY <2>1, Zenon DEF SortedBy
<1> HIDE DEF L
<1>4. \A x \in S : RankIn(L, S, x) = Weight(x)
  <2> SUFFICES ASSUME NEW x \in S PROVE RankIn(L, S, x) = Weight(x)
    OBVIOUS
  <2>1. {y \in S : <<y, x>> \in L} =
          {y \in S : \/ y.ceiling > x.ceiling
                     \/ y.ceiling = x.ceiling /\ y.order < x.order}
    BY <1>2, Zenon DEF Sooner
  <2> QED BY <2>1, Zenon DEF RankIn
<1> HIDE DEF Weight
<1>5. n \in Nat /\ \A i \in 0..n - 1 : \E x \in S : RankIn(L, S, x) = i
  BY <1>1, <1>2, Ranks
<1>6. \A i \in 1..n : \E x \in S : Weight(x) = i - 1
  <2> SUFFICES ASSUME NEW i \in 1..n PROVE \E x \in S : Weight(x) = i - 1
    OBVIOUS
  <2>1. i - 1 \in 0..n - 1  BY <1>5
  <2> QED BY <2>1, <1>4, <1>5
<1>7. \A i \in 1..n : /\ (CHOOSE x \in S : Weight(x) = i - 1) \in S
                      /\ Weight(CHOOSE x \in S : Weight(x) = i - 1) = i - 1
  BY <1>6, Zenon
<1>8. o \in [1..n -> S] /\ \A i \in 1..n : Weight(o[i]) = i - 1
  BY <1>7, Zenon
<1> HIDE DEF o
<1>9. GivesRanks(L, S, o)
  BY <1>4, <1>8 DEF GivesRanks
<1>10. Lists(L, S, Plans(q, cards))
  BY <1>1, <1>2, <1>3, <1>9, SortedByRank
<1> QED BY <1>10 DEF L

-----------------------------------------------------------------------------
(* The tracker of a part of the pool.                                        *)

\* The results of the legal decks of some cards.
Part(q, cards) == Evaluations(q, LegalDecks(q, cards))

\* What a tracker of them may hold.
PartLists(q, cards) == Trackers(Part(q, cards), Ctx(q), q.topK)

(* They are finitely many results of the request.                          *)
LEMMA PartFacts ==
  ASSUME NEW q \in Requests, NEW cards \in SUBSET q.pool
  PROVE  /\ Part(q, cards) \in SUBSET Results(q)
         /\ IsFiniteSet(Part(q, cards)) /\ ResultSet(Part(q, cards))
         /\ \A d \in LegalDecks(q, cards) : Evaluated(q, d) \in Part(q, cards)
         /\ \A r \in Part(q, cards) : \E d \in LegalDecks(q, cards) : r = Evaluated(q, d)
         /\ \A r \in Part(q, cards) : Rank(Ctx(q), r, RankBase) \in Nat
<1>1. Part(q, cards) \in SUBSET Results(q)  BY ResultOf DEF Part
<1>2. IsFiniteSet(Results(q)) /\ ResultSet(Results(q))  BY ResultsRank
<1>3. IsFiniteSet(Part(q, cards))  BY <1>1, <1>2, FS_Subset
<1>4. ResultSet(Part(q, cards))  BY <1>1, <1>2 DEF ResultSet, Keyed
<1>5. /\ \A d \in LegalDecks(q, cards) : Evaluated(q, d) \in Part(q, cards)
      /\ \A r \in Part(q, cards) : \E d \in LegalDecks(q, cards) : r = Evaluated(q, d)
  BY DEF Part, Evaluations
<1>6. \A r \in Part(q, cards) : Rank(Ctx(q), r, RankBase) \in Nat
  BY <1>5, RankIs
<1> QED BY <1>1, <1>3, <1>4, <1>5, <1>6

(* The last entry of a full list.                                          *)
LEMMA LastEntry ==
  ASSUME NEW q \in Requests, NEW cards \in SUBSET q.pool, NEW t \in PartLists(q, cards),
         Full(q.topK, t)
  PROVE  /\ Len(t) = q.topK /\ t[Len(t)] = t[q.topK] /\ t[q.topK] \in Part(q, cards)
         /\ t[q.topK].score \in Nat /\ t[q.topK].power \in Nat
<1> DEFINE k == q.topK  n == Len(t)  R == Part(q, cards)
<1>1. t \in Seq(R) /\ n <= k  BY DEF PartLists, Trackers
<1>2. k \in Nat /\ k >= 1 /\ n \in Nat  BY <1>1, RequestFacts, LenProperties
<1>3. n >= k  BY DEF Full
<1> HIDE DEF k, n
<1>4. n = k /\ k \in 1..n  BY <1>1, <1>2, <1>3
<1> HIDE DEF R
<1>5. t[k] \in R  BY <1>1, <1>4, ElementOfSeq DEF n
<1>6. t[k].score \in Nat /\ t[k].power \in Nat  BY <1>5, PartFacts DEF ResultSet, Keyed, R
<1> QED BY <1>4, <1>5, <1>6 DEF k, n, R

(* A result of a lower rank than the last entry of a full list is covered. *)
LEMMA OutrankedIsCovered ==
  ASSUME NEW q \in Requests, ~q.minimize, NEW cards \in SUBSET q.pool,
         NEW t \in PartLists(q, cards), Full(q.topK, t),
         NEW r \in Part(q, cards),
         Rank(Ctx(q), r, RankBase) < Rank(Ctx(q), t[q.topK], RankBase)
  PROVE  Covers(Ctx(q), q.topK, t, r)
<1>1. Len(t) = q.topK /\ t[q.topK] \in Part(q, cards)  BY LastEntry
<1>2. t[q.topK] \in Results(q) /\ r \in Results(q)  BY <1>1, PartFacts
<1>3. KeyLess(Ctx(q), t[q.topK], r)  BY <1>2, HigherRankIsBetter
<1> QED BY <1>1, <1>3 DEF Covers

\* A floor as a rank.
FloorRank(q, floor) == IF q.target = "mysekai" THEN floor * RankBase ELSE floor

(* A result below the rank threshold is covered or below the floor.        *)
LEMMA BelowThreshold ==
  ASSUME NEW q \in Requests, ~q.minimize, NEW cards \in SUBSET q.pool,
         NEW t \in PartLists(q, cards), NEW floor \in Nat,
         NEW r \in Part(q, cards),
         Rank(Ctx(q), r, RankBase) < RankThreshold(Ctx(q), q.topK, t, floor, RankBase)
  PROVE  \/ Covers(Ctx(q), q.topK, t, r)
         \/ Rank(Ctx(q), r, RankBase) < FloorRank(q, floor)
<1> DEFINE x == Rank(Ctx(q), r, RankBase)
           T == RankThreshold(Ctx(q), q.topK, t, floor, RankBase)
           F == FloorRank(q, floor)
           last == t[q.topK]
           y == Rank(Ctx(q), last, RankBase)
<1>1. x \in Nat /\ x < T  BY PartFacts
<1>2. F \in Nat
  <2>1. RankBase \in Nat  BY RegimeAssumption
  <2>2. floor * RankBase \in Nat  BY <2>1
  <2> QED BY <2>2 DEF FloorRank
<1>3. CASE ~Full(q.topK, t)
  <2>1. T = F  BY <1>3, CtxFacts DEF RankThreshold, Threshold, FloorRank
  <2> QED BY <1>1, <2>1
<1>4. CASE Full(q.topK, t)
  <2>1. last \in Part(q, cards) /\ t[Len(t)] = last  BY <1>4, LastEntry
  <2>2. y \in Nat  BY <2>1, PartFacts
  <2>3. T = Larger(y, F)
    <3>1. CASE q.target = "mysekai"
      <4>1. T = Larger(t[Len(t)].score * RankBase + t[Len(t)].power, floor * RankBase)
        BY <1>4, <3>1, CtxFacts DEF RankThreshold
      <4>2. y = last.score * RankBase + last.power /\ F = floor * RankBase
        BY <3>1, CtxFacts DEF Rank, FloorRank
      <4> QED BY <2>1, <4>1, <4>2
    <3>2. CASE q.target # "mysekai"
      <4>1. T = Larger(t[Len(t)].score, floor)
        BY <1>4, <3>2, CtxFacts DEF RankThreshold, Threshold
      <4>2. y = last.score /\ F = floor
        BY <3>2, CtxFacts DEF Rank, FloorRank
      <4> QED BY <2>1, <4>1, <4>2
    <3> QED BY <3>1, <3>2
  <2>4. x < y \/ x < F
    <3> HIDE DEF x, y, F, T
    <3> QED BY <1>1, <1>2, <2>2, <2>3 DEF Larger
  <2>5. x < y => Covers(Ctx(q), q.topK, t, r)  BY <1>4, OutrankedIsCovered
  <2> QED BY <2>4, <2>5
<1> QED BY <1>3, <1>4

(* A result below the tracker's own threshold is covered.                  *)
LEMMA BelowOwnThreshold ==
  ASSUME NEW q \in Requests, ~q.minimize, NEW cards \in SUBSET q.pool,
         NEW t \in PartLists(q, cards), NEW floor, floor = Threshold(q.topK, t, 0),
         NEW r \in Part(q, cards)
  PROVE  /\ floor \in Nat
         /\ Rank(Ctx(q), r, RankBase) < FloorRank(q, floor) => Covers(Ctx(q), q.topK, t, r)
<1> DEFINE x == Rank(Ctx(q), r, RankBase)
           last == t[q.topK]
           s == last.score
           y == Rank(Ctx(q), last, RankBase)
<1>1. x \in Nat /\ RankBase \in Nat  BY PartFacts, RegimeAssumption
<1>2. CASE ~Full(q.topK, t)
  <2>1. floor = 0  BY <1>2 DEF Threshold
  <2>2. FloorRank(q, floor) = 0
    <3>1. 0 * RankBase = 0  BY <1>1
    <3> QED BY <2>1, <3>1 DEF FloorRank
  <2> QED BY <1>1, <2>1, <2>2
<1>3. CASE Full(q.topK, t)
  <2>1. /\ last \in Part(q, cards) /\ t[Len(t)] = last
        /\ s \in Nat /\ last.power \in Nat
    BY <1>3, LastEntry
  <2>2. floor = s
    <3>1. floor = Larger(s, 0)  BY <1>3, <2>1 DEF Threshold
    <3> HIDE DEF s
    <3> QED BY <2>1, <3>1 DEF Larger
  <2>3. FloorRank(q, floor) <= y /\ FloorRank(q, floor) \in Nat /\ y \in Nat
    <3> DEFINE p == last.power  z == s * RankBase
    <3>1. p \in Nat /\ z \in Nat  BY <1>1, <2>1
    <3>2. y = IF q.target = "mysekai" THEN z + p ELSE s
      BY CtxFacts DEF Rank
    <3>3. FloorRank(q, floor) = IF q.target = "mysekai" THEN z ELSE s
      BY <2>2 DEF FloorRank
    <3> HIDE DEF p, z, y, s
    <3> QED BY <2>1, <3>1, <3>2, <3>3 DEF s
  <2>4. x < y => Covers(Ctx(q), q.topK, t, r)  BY <1>3, OutrankedIsCovered
  <2>5. x < FloorRank(q, floor) => x < y
    <3> HIDE DEF x, y
    <3> QED BY <1>1, <2>3
  <2> QED BY <2>1, <2>2, <2>4, <2>5
<1> QED BY <1>2, <1>3

(* The canonical answer over some legal decks, as a list.                  *)
LEMMA TopOfFacts ==
  ASSUME NEW q \in Requests, NEW cards \in SUBSET q.pool,
         NEW D \in SUBSET LegalDecks(q, cards), NEW t, t = TopOf(q, D)
  PROVE  /\ t \in PartLists(q, cards)
         /\ \A i \in 1..Len(t) : t[i] \in Evaluations(q, D)
         /\ \A d \in D : Covers(Ctx(q), q.topK, t, Evaluated(q, d))
<1> DEFINE R == Part(q, cards)  S == Evaluations(q, D)
<1>1. S \in SUBSET R  BY DEF Part, Evaluations
<1>2. IsFiniteSet(R) /\ ResultSet(R) /\ q.topK \in Nat  BY PartFacts, RequestFacts
<1>3. IsFiniteSet(S)
  <2> HIDE DEF S, R
  <2> QED BY <1>1, <1>2, FS_Subset
<1>4. t = KeySorted(Ctx(q), CanonicalTopK(Ctx(q), q.topK, S))
  BY Zenon DEF TopOf, ByKey, KeySorted
<1>5. \A d \in D : Evaluated(q, d) \in S  BY DEF Evaluations
<1> HIDE DEF S, R
<1>6. Speaks(Ctx(q), q.topK, S, t)  BY <1>1, <1>2, <1>3, <1>4, CanonicalListed
<1>7. t \in Seq(S) /\ t \in Seq(R)  BY <1>1, <1>6, SeqOfMore DEF Speaks
<1>8. t \in PartLists(q, cards)  BY <1>6, <1>7 DEF Speaks, PartLists, Trackers, R
<1>9. \A i \in 1..Len(t) : t[i] \in S  BY <1>7, ElementOfSeq
<1> QED BY <1>5, <1>6, <1>8, <1>9 DEF Speaks, S

(* What a search that kept its contract leaves out, it or the tracker      *)
(* covers.                                                                 *)
LEMMA SolutionCovers ==
  ASSUME NEW q \in Requests, ~q.minimize, NEW cards \in SUBSET q.pool,
         NEW p, p.keep \in SUBSET cards,
         NEW t \in PartLists(q, cards), NEW floor, floor = Threshold(q.topK, t, 0),
         NEW found \in Solutions(q, p, floor),
         NEW d \in LegalDecks(q, p.keep), DeckCeiling(q, p, d) \in Nat,
         Rank(Ctx(q), Evaluated(q, d), RankBase) <= DeckCeiling(q, p, d)
  PROVE  \/ Covers(Ctx(q), q.topK, found, Evaluated(q, d))
         \/ Covers(Ctx(q), q.topK, t, Evaluated(q, d))
<1> DEFINE decks == LegalDecks(q, p.keep)
           above(c) == {x \in decks : DeckCeiling(q, p, x) >= c}
           T(c) == RankThreshold(Ctx(q), q.topK, TopOf(q, above(c)), floor, RankBase)
           cuts == {0} \cup {Rank(Ctx(q), Evaluated(q, x), RankBase) : x \in decks}
                     \cup {RankThreshold(Ctx(q), q.topK, <<>>, floor, RankBase)}
<1>1. p.keep \in SUBSET q.pool  OBVIOUS
<1>2. ~Minimizing(Ctx(q))  BY CtxFacts DEF Minimizing
<1>3. Solutions(q, p, floor) = {TopOf(q, above(c)) : c \in {c \in cuts : c <= T(c)}}
  BY <1>2, Zenon DEF Solutions
<1>4. PICK cut \in cuts : cut <= T(cut) /\ found = TopOf(q, above(cut))
  <2> HIDE DEF cuts, T, above
  <2> QED BY <1>3
<1>5. /\ d \in LegalDecks(q, cards) /\ Evaluated(q, d) \in Part(q, cards)
      /\ Evaluated(q, d) \in Part(q, p.keep)
  <2>1. d \subseteq cards  BY <1>1, LegalDeckFacts
  <2>2. d \in LegalDecks(q, cards)  BY <2>1, LegalDeckOf
  <2> QED BY <1>1, <2>2, PartFacts
<1> DEFINE r == Evaluated(q, d)  x == Rank(Ctx(q), r, RankBase)  y == DeckCeiling(q, p, d)
<1>6. floor \in Nat  BY <1>5, BelowOwnThreshold
<1>7. cut \in Nat
  <2>1. \A e \in decks : Rank(Ctx(q), Evaluated(q, e), RankBase) \in Nat
    BY <1>1, RankIs
  <2>2. RankThreshold(Ctx(q), q.topK, <<>>, floor, RankBase) \in Nat
    <3>1. ~Full(q.topK, <<>>)
      <4>1. Len(<<>>) = 0 /\ q.topK \in Nat /\ q.topK >= 1  BY RequestFacts
      <4> QED BY <4>1 DEF Full
    <3>2. floor * RankBase \in Nat  BY <1>6, RegimeAssumption
    <3> QED BY <1>6, <3>1, <3>2, CtxFacts DEF RankThreshold, Threshold
  <2> HIDE DEF decks
  <2> QED BY <2>1, <2>2
<1>8. above(cut) \in SUBSET LegalDecks(q, p.keep)  OBVIOUS
<1>9. CASE y >= cut
  <2>1. d \in above(cut)  BY <1>9
  <2> HIDE DEF above, decks
  <2> QED BY <1>1, <1>4, <1>8, <2>1, TopOfFacts
<1>10. CASE ~(y >= cut)
  <2>1. found \in PartLists(q, p.keep)
    <3> HIDE DEF above, decks
    <3> QED BY <1>1, <1>4, <1>8, TopOfFacts
  <2>2. cut <= RankThreshold(Ctx(q), q.topK, found, floor, RankBase)
    BY <1>4
  <2> DEFINE z == RankThreshold(Ctx(q), q.topK, found, floor, RankBase)
  <2>3. z \in Int
    <3>1. CASE ~Full(q.topK, found)
      <4>1. floor * RankBase \in Nat  BY <1>6, RegimeAssumption
      <4> QED BY <1>6, <3>1, <4>1, CtxFacts DEF RankThreshold, Threshold
    <3>2. CASE Full(q.topK, found)
      <4> DEFINE a == found[Len(found)].score  b == found[Len(found)].power
                 f == floor * RankBase  g == a * RankBase + b
      <4>1. a \in Nat /\ b \in Nat  BY <1>1, <2>1, <3>2, LastEntry
      <4>2. f \in Nat /\ g \in Nat
        <5>1. RankBase \in Nat  BY RegimeAssumption
        <5> HIDE DEF a, b
        <5> QED BY <1>6, <4>1, <5>1
      <4>3. z = IF q.target # "mysekai" THEN Larger(a, floor) ELSE Larger(g, f)
        BY <3>2, CtxFacts DEF RankThreshold, Threshold
      <4> HIDE DEF a, b, f, g, z
      <4>4. Larger(a, floor) \in Nat /\ Larger(g, f) \in Nat
        BY <1>6, <4>1, <4>2 DEF Larger
      <4> QED BY <4>3, <4>4
    <3> QED BY <3>1, <3>2
  <2>4. x \in Nat /\ y \in Nat /\ x <= y
    BY <1>5, PartFacts
  <2>5. x < z
    <3> HIDE DEF x, y, z
    <3> QED BY <1>7, <1>10, <2>2, <2>3, <2>4 DEF z
  <2>6. Covers(Ctx(q), q.topK, found, r) \/ x < FloorRank(q, floor)
    BY <1>1, <1>5, <1>6, <2>1, <2>5, BelowThreshold
  <2>7. x < FloorRank(q, floor) => Covers(Ctx(q), q.topK, t, r)
    BY <1>5, BelowOwnThreshold
  <2> QED BY <2>6, <2>7
<1> QED BY <1>9, <1>10

(* Whatever a search reports are results of the decks it may form.         *)
LEMMA SolutionType ==
  ASSUME NEW q \in Requests, NEW cards \in SUBSET q.pool, NEW p, p.keep \in SUBSET cards,
         NEW floor, NEW found \in Solutions(q, p, floor)
  PROVE  found \in PartLists(q, cards)
<1> DEFINE decks == LegalDecks(q, p.keep)
           above(c) == {x \in decks : DeckCeiling(q, p, x) >= c}
           T(c) == RankThreshold(Ctx(q), q.topK, TopOf(q, above(c)), floor, RankBase)
           cuts == {0} \cup {Rank(Ctx(q), Evaluated(q, x), RankBase) : x \in decks}
                     \cup {RankThreshold(Ctx(q), q.topK, <<>>, floor, RankBase)}
<1>1. p.keep \in SUBSET q.pool  OBVIOUS
<1>2. decks \in SUBSET LegalDecks(q, cards)
  <2> SUFFICES ASSUME NEW d \in decks PROVE d \in LegalDecks(q, cards)  OBVIOUS
  <2>1. d \subseteq cards  BY <1>1, LegalDeckFacts
  <2> QED BY <2>1, LegalDeckOf
<1>3. \E D \in SUBSET decks : found = TopOf(q, D)
  <2>1. CASE Minimizing(Ctx(q))
    <3>1. found = TopOf(q, decks)  BY <2>1 DEF Solutions
    <3> QED BY <3>1
  <2>2. CASE ~Minimizing(Ctx(q))
    <3>1. Solutions(q, p, floor) = {TopOf(q, above(c)) : c \in {c \in cuts : c <= T(c)}}
      BY <2>2, Zenon DEF Solutions
    <3>2. PICK cut \in cuts : found = TopOf(q, above(cut))
      <4> HIDE DEF cuts, T, above
      <4> QED BY <3>1
    <3>3. above(cut) \in SUBSET decks  OBVIOUS
    <3> HIDE DEF above, decks
    <3> QED BY <3>2, <3>3
  <2> QED BY <2>1, <2>2
<1>4. PICK D \in SUBSET decks : found = TopOf(q, D)  BY <1>3
<1>5. D \in SUBSET LegalDecks(q, cards)  BY <1>2, <1>4
<1> QED BY <1>4, <1>5, TopOfFacts

(* Inserting a list of results into a tracker's list keeps it one and what *)
(* both lists cover.                                                       *)
LEMMA InsertAllCovers ==
  ASSUME NEW q \in Requests, NEW cards \in SUBSET q.pool,
         NEW t \in PartLists(q, cards), NEW new \in Seq(Part(q, cards)),
         NEW u, u = InsertAll(q, t, new)
  PROVE  /\ u \in PartLists(q, cards)
         /\ \A r \in Part(q, cards) :
              Covers(Ctx(q), q.topK, t, r) => Covers(Ctx(q), q.topK, u, r)
         /\ new \in PartLists(q, cards) =>
              \A r \in Part(q, cards) :
                Covers(Ctx(q), q.topK, new, r) => Covers(Ctx(q), q.topK, u, r)
<1> DEFINE R == Part(q, cards)  cx == Ctx(q)  k == q.topK
<1>1. u = InsertedList(cx, k, t, new)
  BY Zenon DEF InsertAll, InsertedList
<1>2. ResultSet(R) /\ k \in Nat  BY PartFacts, RequestFacts
<1>3. t \in Trackers(R, cx, k)  BY DEF PartLists
<1> HIDE DEF R, cx, k
<1>4. /\ u \in Trackers(R, cx, k)
      /\ \A j \in 1..Len(new) : Covers(cx, k, u, new[j])
      /\ \A r \in R : Covers(cx, k, t, r) => Covers(cx, k, u, r)
  <2> HIDE DEF InsertAll
  <2>1. new \in Seq(R)  BY DEF R
  <2>2. Keyed(R)  BY <1>2 DEF ResultSet
  <2> QED BY <1>1, <1>2, <1>3, <2>1, <2>2, InsertedListCorrect
<1>5. ASSUME new \in Trackers(R, cx, k), NEW r \in R, Covers(cx, k, new, r)
      PROVE  Covers(cx, k, u, r)
  <2>1. /\ new \in Seq(R) /\ Ranked(cx, new)
        /\ u \in Seq(R) /\ Len(u) <= k /\ Ranked(cx, u)
    BY <1>4, <1>5 DEF Trackers
  <2> QED BY <1>2, <1>4, <1>5, <2>1, CoversTransfer
<1> QED BY <1>4, <1>5 DEF R, cx, k, PartLists

\* What the loop knows of the plans and the list of an open search.
Opened(q, cards, ps, t) ==
  /\ ps \in Seq(Planned(q, cards))
  /\ t \in PartLists(q, cards)

\* Every legal deck is covered or a plan has yet to find it.
Complete(q, cards, ps, t) ==
  \A d \in LegalDecks(q, cards) :
    \/ Covers(Ctx(q), q.topK, t, Evaluated(q, d))
    \/ \E i \in 1..Len(ps) : Owns(ps[i], d)

(* Opening a search: nothing but the seeds is listed, and every deck is    *)
(* planned.                                                                *)
LEMMA OpenHolds ==
  ASSUME NEW q \in Requests, NEW cards \in SUBSET q.pool,
         NEW seeds \in SUBSET LegalDecks(q, cards),
         NEW t, t = InsertAll(q, <<>>, ByKey(q, Evaluations(q, seeds))),
         NEW ps, ps = Plans(q, cards)
  PROVE  Opened(q, cards, ps, t) /\ Complete(q, cards, ps, t)
<1> DEFINE R == Part(q, cards)  S == Evaluations(q, seeds)  new == ByKey(q, S)
           P == Planned(q, cards)
<1>1. S \in SUBSET R  BY DEF Part, Evaluations
<1>2. new = KeySorted(Ctx(q), S)  BY Zenon DEF ByKey, KeySorted
<1>3. ResultSet(R) /\ IsFiniteSet(R)  BY PartFacts
<1> HIDE DEF S
<1>4. IsFiniteSet(S)
  <2> HIDE DEF R
  <2> QED BY <1>1, <1>3, FS_Subset
<1>5. new \in Seq(R)
  <2> HIDE DEF R, new
  <2>1. Lists(KeyOrder(Ctx(q), S), S, new)  BY <1>1, <1>2, <1>3, <1>4, SortedByKey
  <2>2. new \in Seq(S)  BY <2>1 DEF Lists
  <2> QED BY <1>1, <2>2, SeqOfMore
<1>6. <<>> \in PartLists(q, cards)
  <2>1. <<>> \in Seq(R) /\ Len(<<>>) = 0  BY EmptySeq
  <2>2. \A k \in 1..Len(<<>>) : FALSE  OBVIOUS
  <2>3. q.topK \in Nat  BY RequestFacts
  <2> HIDE DEF R
  <2>4. <<>> \in Trackers(R, Ctx(q), q.topK)  BY <2>1, <2>2, <2>3 DEF Trackers, Ranked
  <2> QED BY <2>4 DEF PartLists, R
<1>7. t \in PartLists(q, cards)
  <2>1. t = InsertAll(q, <<>>, new)  BY DEF S
  <2>2. new \in Seq(Part(q, cards))  BY <1>5
  <2> HIDE DEF new, R
  <2> QED BY <1>6, <2>1, <2>2, InsertAllCovers
<1>8. Lists(SoonerOn(P), P, ps)  BY PlansList
<1>9. ps \in Seq(P) /\ \A x \in P : \E i \in 1..Len(ps) : ps[i] = x
  <2> HIDE DEF P
  <2> QED BY <1>8 DEF Lists
<1>10. ASSUME NEW d \in LegalDecks(q, cards)
       PROVE  \E i \in 1..Len(ps) : Owns(ps[i], d)
  <2>1. PICK p \in P : Owns(p, d)  BY OwnerExists
  <2> HIDE DEF P
  <2> QED BY <1>9, <2>1
<1> QED BY <1>7, <1>9, <1>10 DEF Opened, Complete

(* The plan at the head of the list.                                       *)
LEMMA HeadPlan ==
  ASSUME NEW q \in Requests, NEW cards \in SUBSET q.pool, NEW ps, NEW t,
         Opened(q, cards, ps, t), ps # <<>>,
         NEW p, p = Head(ps)
  PROVE  /\ IsPlan(q, cards, p) /\ p.ceiling # None /\ p.keep \in SUBSET cards
         /\ Opened(q, cards, Tail(ps), t)
         /\ \A d \in LegalDecks(q, cards) :
              (\E i \in 1..Len(ps) : Owns(ps[i], d)) =>
                 \/ Owns(p, d)
                 \/ \E i \in 1..Len(Tail(ps)) : Owns(Tail(ps)[i], d)
<1> DEFINE P == Planned(q, cards)
<1>1. ps \in Seq(P) /\ t \in PartLists(q, cards)  BY DEF Opened
<1> HIDE DEF P
<1>2. p \in P /\ Tail(ps) \in Seq(P)  BY <1>1, HeadTailProperties
<1>3. IsPlan(q, cards, p) /\ p.ceiling # None  BY <1>2, PlannedIs DEF P
<1>4. p.keep \in SUBSET cards  BY <1>3, PlanTypes
<1>5. ASSUME NEW d, NEW i \in 1..Len(ps), Owns(ps[i], d), ~Owns(p, d)
      PROVE  \E k \in 1..Len(Tail(ps)) : Owns(Tail(ps)[k], d)
  <2> DEFINE n == Len(ps)  m == Len(Tail(ps))
  <2>1. /\ n \in Nat /\ m = n - 1
        /\ \A k \in 1..m : Tail(ps)[k] = ps[k + 1]
    BY <1>1, HeadTailProperties, LenProperties
  <2>2. p = ps[1]  BY <1>1
  <2>3. i # 1  BY <1>5, <2>2
  <2>4. i \in 1..n  OBVIOUS
  <2> HIDE DEF n, m
  <2>5. i - 1 \in 1..m /\ (i - 1) + 1 = i  BY <2>1, <2>3, <2>4
  <2>6. Tail(ps)[i - 1] = ps[i]  BY <2>1, <2>5
  <2> QED BY <1>5, <2>5, <2>6 DEF m
<1> QED BY <1>1, <1>2, <1>3, <1>4, <1>5 DEF Opened, P

(* Dropping a plan none of whose decks the tracker still needs.            *)
LEMMA DroppedHolds ==
  ASSUME NEW q \in Requests, NEW cards \in SUBSET q.pool, NEW ps, NEW t,
         Opened(q, cards, ps, t), Complete(q, cards, ps, t), ps # <<>>,
         NEW u, \A r \in Part(q, cards) :
                  Covers(Ctx(q), q.topK, t, r) => Covers(Ctx(q), q.topK, u, r),
         \A d \in LegalDecks(q, cards) :
           Owns(Head(ps), d) => Covers(Ctx(q), q.topK, u, Evaluated(q, d))
  PROVE  Complete(q, cards, Tail(ps), u)
<1> SUFFICES ASSUME NEW d \in LegalDecks(q, cards),
                    ~Covers(Ctx(q), q.topK, u, Evaluated(q, d))
             PROVE  \E i \in 1..Len(Tail(ps)) : Owns(Tail(ps)[i], d)
  BY DEF Complete
<1>1. Evaluated(q, d) \in Part(q, cards)  BY PartFacts
<1>2. ~Covers(Ctx(q), q.topK, t, Evaluated(q, d))  BY <1>1
<1>3. \E i \in 1..Len(ps) : Owns(ps[i], d)  BY <1>2 DEF Complete
<1> DEFINE p == Head(ps)
<1>4. ~Owns(p, d)  OBVIOUS
<1> HIDE DEF p
<1> QED BY <1>3, <1>4, HeadPlan DEF p

\* A plan is passed over for its ceiling or because all its decks score less.
Excluded(q, p, cut) ==
  \/ p.ceiling < cut
  \/ /\ q.target = "score"
     /\ \A d \in LegalDecks(q, p.keep) : Owns(p, d) => Evaluated(q, d).score < cut

(* Passing over such a plan loses no deck.                                 *)
LEMMA PruneHolds ==
  ASSUME NEW q \in Requests, ~q.minimize, NEW cards \in SUBSET q.pool, NEW ps, NEW t,
         Opened(q, cards, ps, t), Complete(q, cards, ps, t), ps # <<>>,
         NEW cut, cut = RankThreshold(Ctx(q), q.topK, t, 0, RankBase),
         Excluded(q, Head(ps), cut)
  PROVE  Complete(q, cards, Tail(ps), t)
<1> DEFINE p == Head(ps)
<1>1. ASSUME NEW d \in LegalDecks(q, cards), Owns(p, d)
      PROVE  Covers(Ctx(q), q.topK, t, Evaluated(q, d))
  <2> DEFINE r == Evaluated(q, d)  x == Rank(Ctx(q), r, RankBase)  c == p.ceiling
  <2>1. IsPlan(q, cards, p) /\ p.ceiling # None /\ p.keep \in SUBSET cards
    <3> HIDE DEF p
    <3> QED BY HeadPlan DEF p
  <2>2. d \in LegalDecks(q, p.keep)
    <3> HIDE DEF p
    <3> QED BY <1>1, <2>1, OwnSum
  <2>3. x <= c /\ c \in Nat /\ x \in Nat /\ r \in Part(q, cards)
    <3>1. /\ DeckCeiling(q, p, d) \in Nat /\ c \in Nat
          /\ x <= DeckCeiling(q, p, d) /\ DeckCeiling(q, p, d) <= c
      <4> HIDE DEF p
      <4> QED BY <1>1, <2>1, OwnCeiling
    <3>2. x \in Nat /\ r \in Part(q, cards)  BY PartFacts
    <3> DEFINE y == DeckCeiling(q, p, d)
    <3> HIDE DEF x, c, y
    <3>3. y \in Nat /\ c \in Nat /\ x <= y /\ y <= c /\ x \in Nat  BY <3>1, <3>2 DEF y
    <3>4. x <= c  BY <3>3
    <3> QED BY <3>2, <3>3, <3>4
  <2>4. cut \in Int
    <3>1. t \in PartLists(q, cards)  BY DEF Opened
    <3>2. CASE ~Full(q.topK, t)
      <4>1. 0 * RankBase \in Nat  BY RegimeAssumption
      <4> QED BY <3>2, <4>1, CtxFacts DEF RankThreshold, Threshold
    <3>3. CASE Full(q.topK, t)
      <4> DEFINE a == t[Len(t)].score  b == t[Len(t)].power
                 f == 0 * RankBase  g == a * RankBase + b
      <4>1. a \in Nat /\ b \in Nat  BY <3>1, <3>3, LastEntry
      <4>2. f \in Nat /\ g \in Nat
        <5>1. RankBase \in Nat  BY RegimeAssumption
        <5> HIDE DEF a, b
        <5> QED BY <4>1, <5>1
      <4>3. cut = IF q.target # "mysekai" THEN Larger(a, 0) ELSE Larger(g, f)
        BY <3>3, CtxFacts DEF RankThreshold, Threshold
      <4> HIDE DEF a, b, f, g
      <4>4. Larger(a, 0) \in Nat /\ Larger(g, f) \in Nat
        BY <4>1, <4>2 DEF Larger
      <4> QED BY <4>3, <4>4
    <3> QED BY <3>2, <3>3
  <2>5. x < cut
    <3>1. CASE c < cut
      <4> HIDE DEF x, c
      <4> QED BY <2>3, <2>4, <3>1
    <3>2. CASE ~(c < cut)
      <4>1. q.target = "score" /\ r.score < cut
        <5> HIDE DEF p, r
        <5> QED BY <1>1, <2>2, <3>2 DEF Excluded, p, r
      <4>2. x = r.score  BY <4>1, CtxFacts DEF Rank
      <4> QED BY <4>1, <4>2
    <3> QED BY <3>1, <3>2
  <2>6. t \in PartLists(q, cards)  BY DEF Opened
  <2>7. ~(x < FloorRank(q, 0))
    <3>1. FloorRank(q, 0) = 0
      <4>1. 0 * RankBase = 0  BY RegimeAssumption
      <4> QED BY <4>1 DEF FloorRank
    <3> HIDE DEF x
    <3> QED BY <2>3, <3>1
  <2>8. 0 \in Nat  OBVIOUS
  <2> QED BY <2>3, <2>5, <2>6, <2>7, <2>8, BelowThreshold
<1> QED BY <1>1, DroppedHolds

(* Searching a regime keeps the list one, and a search that keeps its      *)
(* contract loses no deck of the regime.                                   *)
LEMMA SearchHolds ==
  ASSUME NEW q \in Requests, NEW cards \in SUBSET q.pool, NEW ps, NEW t,
         Opened(q, cards, ps, t), ps # <<>>,
         NEW found \in Solutions(q, Head(ps), Threshold(q.topK, t, 0)),
         NEW u, u = InsertAll(q, t, found)
  PROVE  /\ Opened(q, cards, Tail(ps), u)
         /\ ~q.minimize /\ Complete(q, cards, ps, t) => Complete(q, cards, Tail(ps), u)
<1> DEFINE p == Head(ps)  floor == Threshold(q.topK, t, 0)
<1>1. /\ IsPlan(q, cards, p) /\ p.ceiling # None /\ p.keep \in SUBSET cards
      /\ Opened(q, cards, Tail(ps), t)
  <2> HIDE DEF p
  <2> QED BY HeadPlan DEF p
<1>2. found \in PartLists(q, cards)
  <2> HIDE DEF p, floor
  <2>1. found \in Solutions(q, p, floor)  BY DEF p, floor
  <2> QED BY <1>1, <2>1, SolutionType
<1>3. found \in Seq(Part(q, cards)) /\ t \in PartLists(q, cards)
  BY <1>2 DEF PartLists, Trackers, Opened
<1>4. /\ u \in PartLists(q, cards)
      /\ \A r \in Part(q, cards) :
           Covers(Ctx(q), q.topK, t, r) => Covers(Ctx(q), q.topK, u, r)
      /\ \A r \in Part(q, cards) :
           Covers(Ctx(q), q.topK, found, r) => Covers(Ctx(q), q.topK, u, r)
  BY <1>2, <1>3, InsertAllCovers
<1>5. ASSUME ~q.minimize, NEW d \in LegalDecks(q, cards), Owns(p, d)
      PROVE  Covers(Ctx(q), q.topK, u, Evaluated(q, d))
  <2>1. d \in LegalDecks(q, p.keep)
    <3> HIDE DEF p
    <3> QED BY <1>1, <1>5, OwnSum
  <2>2. /\ DeckCeiling(q, p, d) \in Nat
        /\ Rank(Ctx(q), Evaluated(q, d), RankBase) <= DeckCeiling(q, p, d)
    <3> HIDE DEF p
    <3> QED BY <1>1, <1>5, OwnCeiling
  <2>3. \/ Covers(Ctx(q), q.topK, found, Evaluated(q, d))
        \/ Covers(Ctx(q), q.topK, t, Evaluated(q, d))
    <3>1. found \in Solutions(q, p, floor) /\ floor = Threshold(q.topK, t, 0)  OBVIOUS
    <3> HIDE DEF p, floor
    <3> QED BY <1>1, <1>3, <1>5, <2>1, <2>2, <3>1, SolutionCovers
  <2>4. Evaluated(q, d) \in Part(q, cards)  BY PartFacts
  <2> QED BY <1>4, <2>3, <2>4
<1>6. ~q.minimize /\ Complete(q, cards, ps, t) => Complete(q, cards, Tail(ps), u)
  BY <1>4, <1>5, DroppedHolds
<1>7. Opened(q, cards, Tail(ps), u)
  BY <1>1, <1>4 DEF Opened
<1> QED BY <1>6, <1>7

(* A search cut short reports a legal deck or none.                        *)
LEMMA PartialHolds ==
  ASSUME NEW q \in Requests, NEW cards \in SUBSET q.pool, NEW ps, NEW t,
         Opened(q, cards, ps, t), ps # <<>>,
         NEW found \in Partials(q, Head(ps)),
         NEW u, u = InsertAll(q, t, found)
  PROVE  Opened(q, cards, Tail(ps), u)
<1> DEFINE p == Head(ps)
<1>1. p.keep \in SUBSET cards /\ Opened(q, cards, Tail(ps), t)
  <2> HIDE DEF p
  <2> QED BY HeadPlan DEF p
<1>2. found \in Seq(Part(q, cards))
  <2>1. CASE found = <<>>  BY <2>1, EmptySeq
  <2>2. CASE found # <<>>
    <3>1. PICK d \in LegalDecks(q, p.keep) : found = <<Evaluated(q, d)>>
      BY <2>2 DEF Partials
    <3>2. d \in LegalDecks(q, cards)
      <4>1. p.keep \in SUBSET q.pool  BY <1>1
      <4> HIDE DEF p
      <4>2. d \subseteq cards  BY <1>1, <4>1, LegalDeckFacts
      <4> QED BY <4>2, LegalDeckOf
    <3>3. Evaluated(q, d) \in Part(q, cards)  BY <3>2, PartFacts
    <3> QED BY <3>1, <3>3
  <2> QED BY <2>1, <2>2
<1>3. u \in PartLists(q, cards)
  BY <1>2, InsertAllCovers DEF Opened
<1> QED BY <1>1, <1>3 DEF Opened

-----------------------------------------------------------------------------
(* The searches of a request.                                                *)

\* Every legal deck is one of a job, and jobs share no public id.
Divides(q, jobs) ==
  /\ Len(jobs) \in Nat
  /\ \A j \in 1..Len(jobs) : jobs[j] \in SUBSET q.pool
  /\ \A d \in LegalDecks(q, q.pool) : \E j \in 1..Len(jobs) : d \in LegalDecks(q, jobs[j])
  /\ \A i, j \in 1..Len(jobs) :
       i # j => \A c \in jobs[i], d \in jobs[j] : Card[c].id # Card[d].id

(* The one search of a unique-character request takes the whole pool.      *)
LEMMA UniqueJob ==
  ASSUME NEW q \in Requests, Unique(q), NEW jobs, jobs = Jobs(q)
  PROVE  Divides(q, jobs)
<1>1. jobs = <<q.pool>>  BY DEF Jobs
<1>2. Len(jobs) = 1 /\ jobs[1] = q.pool  BY <1>1
<1>3. \A j \in 1..1 : j = 1  OBVIOUS
<1>4. 1 \in 1..1 /\ 1 \in Nat  OBVIOUS
<1> QED BY <1>2, <1>3, <1>4 DEF Divides

(* The characters of a challenge request are searched one by one.          *)
LEMMA CharacterJobs ==
  ASSUME NEW q \in Requests, ~Unique(q), NEW jobs, jobs = Jobs(q)
  PROVE  Divides(q, jobs)
<1> DEFINE C == {Card[c].char : c \in q.pool}
           chars == Ascending(C)
           n == Len(chars)
           part(x) == {c \in q.pool : Card[c].char = x}
<1>1. jobs = [i \in DOMAIN chars |-> part(chars[i])]  BY DEF Jobs
<1>2. C \in SUBSET Nat /\ C \in SUBSET Int
  BY RequestFacts, RegimeCard
<1>3. IsFiniteSet(C)
  <2> DEFINE P == q.pool  f == [c \in P |-> Card[c].char]
  <2>1. IsFiniteSet(P)  BY RequestFacts
  <2>2. C = {f[c] : c \in P}  OBVIOUS
  <2>3. f \in Surjection(P, C)  BY Zenon, <2>2 DEF Surjection
  <2> HIDE DEF P, C, f
  <2> QED BY <2>1, <2>3, FS_Surjection
<1>4. /\ chars \in Seq(C) /\ n \in Nat
      /\ \A i, j \in 1..n : i < j <=> chars[i] < chars[j]
      /\ \A x \in C : \E i \in 1..n : chars[i] = x
  <2> HIDE DEF C
  <2> QED BY <1>2, <1>3, AscendingProperties
<1>5. DOMAIN chars = 1..n /\ \A i \in 1..n : chars[i] \in C
  <2> HIDE DEF C
  <2> QED BY <1>4, LenProperties
<1>6. ASSUME NEW i \in 1..n, NEW j \in 1..n, i # j PROVE chars[i] # chars[j]
  <2>1. i < j \/ j < i
    <3>1. n \in Int  BY <1>4
    <3> HIDE DEF n
    <3> QED BY <1>6, <3>1
  <2>2. chars[i] \in Int /\ chars[j] \in Int  BY <1>2, <1>5
  <2>3. chars[i] < chars[j] \/ chars[j] < chars[i]  BY <1>4, <2>1
  <2> HIDE DEF chars
  <2> QED BY <2>2, <2>3
<1>7. jobs = [i \in 1..n |-> part(chars[i])]
  <2> HIDE DEF part, n
  <2> QED BY <1>1, <1>5
<1>8. /\ jobs \in [1..n -> SUBSET q.pool]
      /\ \A i \in 1..n : jobs[i] = part(chars[i])
  <2>1. \A i \in 1..n : part(chars[i]) \in SUBSET q.pool  OBVIOUS
  <2> HIDE DEF n, part, chars
  <2> QED BY <1>7, <2>1
<1>9. Len(jobs) = n
  <2>1. jobs \in Seq(SUBSET q.pool)
    <3> HIDE DEF n
    <3> QED BY <1>4, <1>8, SeqDef
  <2>2. Len(jobs) \in Nat /\ DOMAIN jobs = 1..Len(jobs)  BY <2>1, LenProperties
  <2>3. DOMAIN jobs = 1..n  BY <1>8
  <2> DEFINE m == Len(jobs)
  <2> HIDE DEF m, n
  <2>4. m \in Nat /\ n \in Nat /\ 1..m = 1..n  BY <1>4, <2>2, <2>3 DEF m
  <2>5. m = n  BY <2>4
  <2> QED BY <2>5 DEF m
<1>10. ASSUME NEW d \in LegalDecks(q, q.pool)
       PROVE  \E j \in 1..n : d \in LegalDecks(q, jobs[j])
  <2>1. /\ d \in SUBSET q.pool /\ IsFiniteSet(d) /\ Cardinality(d) = DeckSize
        /\ \A a, b \in d : Card[a].char = Card[b].char
    <3>1. q.pool \in SUBSET q.pool  OBVIOUS
    <3> QED BY <3>1, LegalDeckFacts
  <2>2. DeckSize # 0  BY DeckAssumption
  <2>3. PICK c : c \in d  BY <2>1, <2>2, FS_EmptySet
  <2>4. Card[c].char \in C  BY <2>1, <2>3
  <2>5. PICK j \in 1..n : chars[j] = Card[c].char  BY <1>4, <2>4
  <2>6. d \subseteq part(chars[j])  BY <2>1, <2>3, <2>5
  <2>7. jobs[j] = part(chars[j])  BY <1>8
  <2> HIDE DEF part, n, chars
  <2>8. d \subseteq jobs[j]  BY <2>6, <2>7
  <2> QED BY <2>8, LegalDeckOf
<1>11. ASSUME NEW i \in 1..n, NEW j \in 1..n, i # j, NEW c \in jobs[i], NEW d \in jobs[j]
       PROVE  Card[c].id # Card[d].id
  <2>1. c \in part(chars[i]) /\ d \in part(chars[j])  BY <1>8
  <2>2. /\ c \in q.pool /\ d \in q.pool
        /\ Card[c].char = chars[i] /\ Card[d].char = chars[j]
    BY <2>1
  <2>3. Card[c].char # Card[d].char  BY <1>6, <1>11, <2>2
  <2> QED BY <2>2, <2>3, RequestAssumption
<1> HIDE DEF n
<1> QED BY <1>4, <1>8, <1>9, <1>10, <1>11 DEF Divides

(* The searches of a request share its legal decks out.                    *)
LEMMA JobsDivide ==
  ASSUME NEW q \in Requests, NEW jobs, jobs = Jobs(q)
  PROVE  Divides(q, jobs)
BY UniqueJob, CharacterJobs

(* Results of decks without a common public id have different sets.        *)
LEMMA ForeignSets ==
  ASSUME NEW q \in Requests, NEW A \in SUBSET q.pool, NEW B \in SUBSET q.pool,
         \A c \in A, d \in B : Card[c].id # Card[d].id,
         NEW a \in Part(q, A), NEW b \in Part(q, B)
  PROVE  a.set # b.set
<1>1. PICK d \in LegalDecks(q, A) : a = Evaluated(q, d)  BY PartFacts
<1>2. PICK e \in LegalDecks(q, B) : b = Evaluated(q, e)  BY PartFacts
<1>3. /\ d \in SUBSET A /\ d \in SUBSET DOMAIN Card /\ IsFiniteSet(d)
      /\ Cardinality(d) = DeckSize /\ DistinctIds(d)
      /\ e \in SUBSET B /\ e \in SUBSET DOMAIN Card /\ IsFiniteSet(e)
      /\ Cardinality(e) = DeckSize /\ DistinctIds(e)
  BY LegalDeckFacts
<1>4. a.set = IdCode(Ids(d)) /\ b.set = IdCode(Ids(e))
  <2>1. /\ Evaluated(q, d).set = IdCode(Ids(d)) /\ Evaluated(q, e).set = IdCode(Ids(e))
    BY EvaluatedFacts
  <2> QED BY <1>1, <1>2, <2>1
<1>5. /\ Ids(d) \in SUBSET Nat /\ IsFiniteSet(Ids(d)) /\ Cardinality(Ids(d)) = DeckSize
      /\ (\A x \in Ids(d) : x < IdBase)
      /\ Ids(e) \in SUBSET Nat /\ IsFiniteSet(Ids(e)) /\ Cardinality(Ids(e)) = DeckSize
      /\ (\A x \in Ids(e) : x < IdBase)
  BY <1>3, IdsFacts
<1>6. Ids(d) # Ids(e)
  <2>1. DeckSize # 0  BY DeckAssumption
  <2>2. PICK c : c \in d  BY <1>3, <2>1, FS_EmptySet
  <2>3. Card[c].id \in Ids(d)  BY <2>2 DEF Ids
  <2>4. \A x \in e : Card[x].id # Card[c].id  BY <1>3, <2>2
  <2>5. Card[c].id \notin Ids(e)  BY <2>4 DEF Ids
  <2> QED BY <2>3, <2>5
<1>7. SUFFICES ASSUME a.set = b.set PROVE FALSE  OBVIOUS
<1>8. CodeIn(IdBase, Ascending(Ids(d))) = CodeIn(IdBase, Ascending(Ids(e)))
  BY <1>4, <1>7, IdCodeIs
<1>9. IdBase \in Nat  BY RegimeAssumption
<1> QED BY <1>5, <1>6, <1>8, <1>9, SetCodeInjective

-----------------------------------------------------------------------------
(* The merged lists.                                                         *)

\* M holds results of the searches before the k-th, at most one of a set.
Merging(q, jobs, k, M) ==
  /\ M \in Seq(Results(q))
  /\ \A i \in 1..Len(M) : \E j \in 1..Len(jobs) : j < k /\ M[i] \in Part(q, jobs[j])
  /\ \A i, j \in 1..Len(M) : M[i].set = M[j].set => M[i] = M[j]

\* One of the lists put together in M covers r.
Kept(q, M, r) ==
  \E t \in Trackers(Results(q), Ctx(q), q.topK) :
    /\ \A i \in 1..Len(t) : \E n \in 1..Len(M) : M[n] = t[i]
    /\ Covers(Ctx(q), q.topK, t, r)

\* Every legal deck of the searches before the k-th is covered.
Merged(q, jobs, k, M) ==
  \A j \in 1..Len(jobs) :
    j < k => \A d \in LegalDecks(q, jobs[j]) : Kept(q, M, Evaluated(q, d))

(* A longer list keeps what a shorter one keeps.                           *)
LEMMA KeptStays ==
  ASSUME NEW q, NEW S, NEW M \in Seq(S), NEW t \in Seq(S), NEW u, u = M \o t, NEW r
  PROVE  /\ u \in Seq(S)
         /\ \A i \in 1..Len(M) : \E k \in 1..Len(u) : u[k] = M[i]
         /\ \A i \in 1..Len(t) : \E k \in 1..Len(u) : u[k] = t[i]
         /\ \A k \in 1..Len(u) : \/ \E i \in 1..Len(M) : u[k] = M[i]
                                 \/ \E i \in 1..Len(t) : u[k] = t[i]
         /\ Kept(q, M, r) => Kept(q, u, r)
<1> DEFINE m == Len(M)  n == Len(t)
<1>1. /\ m \in Nat /\ n \in Nat /\ u \in Seq(S) /\ Len(u) = m + n
      /\ \A i \in 1..m + n : u[i] = IF i <= m THEN M[i] ELSE t[i - m]
  BY ConcatProperties, LenProperties
<1> HIDE DEF m, n
<1>2. ASSUME NEW i \in 1..m PROVE \E k \in 1..m + n : u[k] = M[i]
  <2>1. i \in 1..m + n /\ i <= m  BY <1>1
  <2> QED BY <1>1, <2>1
<1>3. ASSUME NEW i \in 1..n PROVE \E k \in 1..m + n : u[k] = t[i]
  <2>1. m + i \in 1..m + n /\ ~(m + i <= m) /\ (m + i) - m = i  BY <1>1
  <2>2. u[m + i] = t[i]  BY <1>1, <2>1
  <2> QED BY <2>1, <2>2
<1>4. ASSUME NEW k \in 1..m + n
      PROVE  (\E i \in 1..m : u[k] = M[i]) \/ (\E i \in 1..n : u[k] = t[i])
  <2>1. CASE k <= m
    <3>1. k \in 1..m  BY <1>1, <2>1
    <3> QED BY <1>1, <2>1, <3>1
  <2>2. CASE ~(k <= m)
    <3>1. k - m \in 1..n  BY <1>1, <2>2
    <3>2. u[k] = t[k - m]  BY <1>1, <2>2
    <3> QED BY <3>1, <3>2
  <2> QED BY <2>1, <2>2
<1>5. ASSUME Kept(q, M, r) PROVE Kept(q, u, r)
  <2>1. PICK s \in Trackers(Results(q), Ctx(q), q.topK) :
               /\ \A i \in 1..Len(s) : \E k \in 1..Len(M) : M[k] = s[i]
               /\ Covers(Ctx(q), q.topK, s, r)
    BY <1>5 DEF Kept
  <2>2. ASSUME NEW i \in 1..Len(s) PROVE \E k \in 1..Len(u) : u[k] = s[i]
    <3>1. PICK k \in 1..m : M[k] = s[i]  BY <2>1 DEF m
    <3>2. PICK l \in 1..m + n : u[l] = M[k]  BY <1>2
    <3> QED BY <1>1, <3>1, <3>2
  <2> QED BY <2>1, <2>2 DEF Kept
<1> QED BY <1>1, <1>2, <1>3, <1>4, <1>5 DEF m, n

(* Closing a search: its list joins those of the searches before it.       *)
LEMMA CloseHolds ==
  ASSUME NEW q \in Requests, NEW jobs, Divides(q, jobs),
         NEW k \in 1..Len(jobs), NEW M, Merging(q, jobs, k, M),
         NEW t \in PartLists(q, jobs[k]), NEW u, u = M \o t
  PROVE  /\ Merging(q, jobs, k + 1, u)
         /\ Merged(q, jobs, k, M)
              /\ (\A d \in LegalDecks(q, jobs[k]) : Covers(Ctx(q), q.topK, t, Evaluated(q, d)))
            => Merged(q, jobs, k + 1, u)
<1> DEFINE R == Results(q)
<1>1. M \in Seq(R)  BY DEF Merging
<1>2. jobs[k] \in SUBSET q.pool  BY DEF Divides
<1>3. /\ t \in Seq(Part(q, jobs[k])) /\ Len(t) <= q.topK /\ Ranked(Ctx(q), t)
  BY DEF PartLists, Trackers
<1>4. Part(q, jobs[k]) \in SUBSET R  BY <1>2, PartFacts
<1>5. t \in Seq(R)
  <2> HIDE DEF R
  <2> QED BY <1>3, <1>4, SeqOfMore
<1>6. \A i \in 1..Len(t) : t[i] \in Part(q, jobs[k])  BY <1>3, ElementOfSeq
<1>7. Len(jobs) \in Nat /\ k \in Nat /\ k \in Int  BY DEF Divides
<1> DEFINE L == Len(jobs)
<1>8. \A j \in 1..L : (j < k => j < k + 1) /\ (j < k + 1 => j < k \/ j = k)
  <2>1. k \in 1..L /\ L \in Nat  BY <1>7
  <2> HIDE DEF L
  <2> QED BY <1>7, <2>1
<1>9. k < k + 1 /\ ~(k < k)  BY <1>7
<1> HIDE DEF R
<1>10. /\ u \in Seq(R)
       /\ \A n \in 1..Len(u) : \/ \E i \in 1..Len(M) : u[n] = M[i]
                               \/ \E i \in 1..Len(t) : u[n] = t[i]
  BY <1>1, <1>5, KeptStays
<1>11. ASSUME NEW n \in 1..Len(u)
       PROVE  \E j \in 1..L : j < k + 1 /\ u[n] \in Part(q, jobs[j])
  <2>1. CASE \E i \in 1..Len(M) : u[n] = M[i]
    BY <1>8, <2>1 DEF Merging
  <2>2. CASE \E i \in 1..Len(t) : u[n] = t[i]
    BY <1>6, <1>9, <2>2
  <2> QED BY <1>10, <2>1, <2>2
<1>12. ASSUME NEW x \in 1..Len(M), NEW y \in 1..Len(t) PROVE M[x].set # t[y].set
  <2>1. PICK j \in 1..L : j < k /\ M[x] \in Part(q, jobs[j])  BY DEF Merging
  <2>2. j # k  BY <1>9, <2>1
  <2>3. \A c \in jobs[j], d \in jobs[k] : Card[c].id # Card[d].id  BY <2>2 DEF Divides
  <2>4. jobs[j] \in SUBSET q.pool  BY DEF Divides
  <2> QED BY <1>2, <1>6, <2>1, <2>3, <2>4, ForeignSets
<1>13. ASSUME NEW x \in 1..Len(t), NEW y \in 1..Len(t), t[x].set = t[y].set PROVE t[x] = t[y]
  <2>1. x < y \/ y < x \/ x = y
    <3> DEFINE n == Len(t)
    <3>1. n \in Nat  BY <1>3, LenProperties
    <3> HIDE DEF n
    <3> QED BY <3>1
  <2> QED BY <1>3, <1>13, <2>1 DEF Ranked
<1>14. ASSUME NEW x \in 1..Len(u), NEW y \in 1..Len(u), u[x].set = u[y].set PROVE u[x] = u[y]
  <2>1. CASE (\E i \in 1..Len(M) : u[x] = M[i]) /\ (\E i \in 1..Len(M) : u[y] = M[i])
    BY <1>14, <2>1 DEF Merging
  <2>2. CASE (\E i \in 1..Len(t) : u[x] = t[i]) /\ (\E i \in 1..Len(t) : u[y] = t[i])
    BY <1>13, <1>14, <2>2
  <2>3. CASE (\E i \in 1..Len(M) : u[x] = M[i]) /\ (\E i \in 1..Len(t) : u[y] = t[i])
    BY <1>12, <1>14, <2>3
  <2>4. CASE (\E i \in 1..Len(t) : u[x] = t[i]) /\ (\E i \in 1..Len(M) : u[y] = M[i])
    BY <1>12, <1>14, <2>4
  <2> QED BY <1>10, <2>1, <2>2, <2>3, <2>4
<1>15. Merging(q, jobs, k + 1, u)
  BY <1>10, <1>11, <1>14 DEF Merging, R
<1>16. ASSUME Merged(q, jobs, k, M),
              \A d \in LegalDecks(q, jobs[k]) : Covers(Ctx(q), q.topK, t, Evaluated(q, d)),
              NEW j \in 1..L, j < k + 1, NEW d \in LegalDecks(q, jobs[j])
       PROVE  Kept(q, u, Evaluated(q, d))
  <2>1. CASE j < k
    <3>1. Kept(q, M, Evaluated(q, d))  BY <1>16, <2>1 DEF Merged
    <3> QED BY <1>1, <1>5, <3>1, KeptStays
  <2>2. CASE j = k
    <3>1. Covers(Ctx(q), q.topK, t, Evaluated(q, d))  BY <1>16, <2>2
    <3>2. t \in Trackers(Results(q), Ctx(q), q.topK)
      BY <1>3, <1>5 DEF Trackers, R
    <3>3. \A i \in 1..Len(t) : \E n \in 1..Len(u) : u[n] = t[i]
      BY <1>1, <1>5, KeptStays
    <3> QED BY <3>1, <3>2, <3>3 DEF Kept
  <2> QED BY <1>8, <1>16, <2>1, <2>2
<1>17. ASSUME Merged(q, jobs, k, M),
              \A d \in LegalDecks(q, jobs[k]) : Covers(Ctx(q), q.topK, t, Evaluated(q, d))
       PROVE  Merged(q, jobs, k + 1, u)
  BY <1>16, <1>17 DEF Merged
<1> QED BY <1>15, <1>17

-----------------------------------------------------------------------------
(* The loop.                                                                 *)

\* What is known while a search is under way.
Searching ==
  /\ job <= Len(Jobs(request))
  /\ Opened(request, Jobs(request)[job], plans, results)

\* Nothing a strongest-deck answer needs has been lost.
NothingMissed ==
  /\ Merged(request, Jobs(request), job, merged)
  /\ open => Complete(request, Jobs(request)[job], plans, results)

\* The inductive invariant.
IInv ==
  /\ request \in Requests
  /\ open \in BOOLEAN /\ hit \in BOOLEAN
  /\ job \in 1..Len(Jobs(request)) + 1
  /\ open => Searching
  /\ Merging(request, Jobs(request), job, merged)
  /\ ~hit /\ ~request.minimize => NothingMissed

(* What it says of the search under way.                                   *)
LEMMA SearchFacts ==
  ASSUME IInv, open, NEW jobs, jobs = Jobs(request)
  PROVE  /\ request \in Requests /\ Divides(request, jobs)
         /\ job \in 1..Len(jobs)
         /\ jobs[job] \in SUBSET request.pool
         /\ Opened(request, jobs[job], plans, results)
         /\ ~hit /\ ~request.minimize => Complete(request, jobs[job], plans, results)
<1>1. request \in Requests /\ job \in 1..Len(jobs) + 1 /\ job <= Len(jobs)
      /\ Opened(request, jobs[job], plans, results)
  BY DEF IInv, Searching
<1>2. Divides(request, jobs)  BY <1>1, JobsDivide
<1>3. job \in 1..Len(jobs)
  <2> DEFINE n == Len(jobs)
  <2>1. n \in Nat /\ job \in 1..n + 1 /\ job <= n  BY <1>1, <1>2 DEF Divides
  <2> HIDE DEF n
  <2>2. job \in 1..n  BY <2>1
  <2> QED BY <2>2 DEF n
<1>4. jobs[job] \in SUBSET request.pool  BY <1>2, <1>3 DEF Divides
<1>5. ~hit /\ ~request.minimize => Complete(request, jobs[job], plans, results)
  BY DEF IInv, NothingMissed
<1> QED BY <1>1, <1>2, <1>3, <1>4, <1>5

(* A request that starts satisfies the invariant.                          *)
LEMMA InitHolds == ASSUME Init PROVE IInv
<1> DEFINE jobs == Jobs(request)  n == Len(jobs)
<1>1. request \in Requests /\ job = 1 /\ open = FALSE /\ merged = <<>> /\ hit = FALSE
  BY DEF Init
<1>2. Divides(request, jobs)  BY <1>1, JobsDivide
<1>3. n \in Nat  BY <1>2 DEF Divides
<1>4. job \in 1..n + 1 /\ \A j \in 1..n : ~(j < job)
  <2> HIDE DEF n
  <2> QED BY <1>1, <1>3
<1>5. Merging(request, jobs, job, merged)
  <2>1. merged \in Seq(Results(request))  BY <1>1, EmptySeq
  <2>2. \A i \in 1..Len(merged) : FALSE
    <3>1. \A i \in 1..Len(<<>>) : FALSE  OBVIOUS
    <3> QED BY <1>1, <3>1
  <2> QED BY <2>1, <2>2 DEF Merging
<1>6. Merged(request, jobs, job, merged)  BY <1>4 DEF Merged
<1> QED BY <1>1, <1>4, <1>5, <1>6 DEF IInv, NothingMissed

(* A step inside a search that leaves the searches before it alone, and    *)
(* keeps what is known of the one under way, preserves the invariant.      *)
LEMMA SearchStep ==
  ASSUME IInv, open, open' = open, request' = request, job' = job, merged' = merged,
         hit' \in BOOLEAN, hit => hit',
         Opened(request, Jobs(request)[job], plans', results'),
         ~hit' /\ ~request.minimize =>
           Complete(request, Jobs(request)[job], plans', results')
  PROVE  IInv'
<1> DEFINE jobs == Jobs(request)
<1>1. Jobs(request)' = jobs  OBVIOUS
<1>2. Searching'  BY <1>1 DEF IInv, Searching
<1>3. ~hit' /\ ~request.minimize => NothingMissed'
  BY <1>1 DEF IInv, NothingMissed
<1> QED BY <1>1, <1>2, <1>3 DEF IInv

(* Opening a search preserves the invariant.                               *)
LEMMA OpenStep == ASSUME IInv, Open PROVE IInv'
<1> DEFINE jobs == Jobs(request)  n == Len(jobs)  cards == jobs[job]
<1>1. /\ ~open /\ ~hit /\ ~(job > n) /\ open' = TRUE
      /\ request' = request /\ job' = job /\ merged' = merged /\ hit' = hit
      /\ plans' = Plans(request, cards)
  BY DEF Open, Finished
<1>2. request \in Requests /\ job \in 1..n + 1  BY DEF IInv
<1>3. Divides(request, jobs) /\ n \in Nat  BY <1>2, JobsDivide DEF Divides
<1>4. job \in 1..n /\ job <= n
  <2> HIDE DEF n
  <2> QED BY <1>1, <1>2, <1>3
<1>5. cards \in SUBSET request.pool  BY <1>3, <1>4 DEF Divides
<1>6. PICK seeds \in SUBSET LegalDecks(request, cards) :
             results' = InsertAll(request, <<>>, ByKey(request, Evaluations(request, seeds)))
  BY DEF Open
<1>7. /\ Opened(request, cards, plans', results')
      /\ Complete(request, cards, plans', results')
  <2> HIDE DEF cards
  <2> QED BY <1>1, <1>2, <1>5, <1>6, OpenHolds
<1>8. Jobs(request)' = jobs  BY <1>1
<1>9. Searching'  BY <1>1, <1>4, <1>7, <1>8 DEF Searching
<1>10. Merging(request, jobs, job, merged)' BY <1>1, <1>8 DEF IInv
<1>11. ~request.minimize => NothingMissed'
  BY <1>1, <1>7, <1>8 DEF IInv, NothingMissed
<1> QED BY <1>1, <1>2, <1>8, <1>9, <1>10, <1>11 DEF IInv

(* The deadline preserves the invariant.                                   *)
LEMMA ExpireStep == ASSUME IInv, Expire PROVE IInv'
<1>1. /\ hit' = TRUE /\ request' = request /\ job' = job /\ open' = open
      /\ plans' = plans /\ results' = results /\ merged' = merged
  BY DEF Expire
<1>2. Jobs(request)' = Jobs(request)  BY <1>1
<1>3. Searching => Searching'  BY <1>1, <1>2 DEF Searching
<1> QED BY <1>1, <1>2, <1>3 DEF IInv

(* Passing over a regime preserves the invariant.                          *)
LEMMA PruneRegimeStep == ASSUME IInv, PruneRegime PROVE IInv'
<1> DEFINE jobs == Jobs(request)  cards == jobs[job]  p == Head(plans)
<1>1. /\ open /\ ~hit /\ plans # <<>>
      /\ plans' = Tail(plans) /\ request' = request /\ job' = job /\ open' = open
      /\ results' = results /\ merged' = merged /\ hit' = hit
      /\ p.ceiling < Cutoff \/ LogLinearExcludes(p)
  BY DEF PruneRegime, Pending
<1>2. /\ request \in Requests /\ cards \in SUBSET request.pool
      /\ Opened(request, cards, plans, results)
      /\ ~request.minimize => Complete(request, cards, plans, results)
  BY <1>1, SearchFacts
<1>3. Excluded(request, p, Cutoff)
  BY <1>1, Zenon DEF Excluded, LogLinearExcludes
<1>4. Opened(request, cards, plans', results')
  <2> HIDE DEF cards
  <2> QED BY <1>1, <1>2, HeadPlan
<1>5. ~request.minimize => Complete(request, cards, plans', results')
  <2> HIDE DEF cards
  <2> QED BY <1>1, <1>2, <1>3, PruneHolds DEF Cutoff, p
<1>6. hit' \in BOOLEAN  BY <1>1 DEF IInv
<1> QED BY <1>1, <1>4, <1>5, <1>6, SearchStep

(* Searching a regime preserves the invariant.                             *)
LEMMA SearchRegimeStep == ASSUME IInv, SearchRegime PROVE IInv'
<1> DEFINE jobs == Jobs(request)  cards == jobs[job]
<1>1. /\ open /\ ~hit /\ plans # <<>>
      /\ plans' = Tail(plans) /\ request' = request /\ job' = job /\ open' = open
      /\ merged' = merged /\ hit' = hit
  BY DEF SearchRegime, Pending
<1>2. /\ request \in Requests /\ cards \in SUBSET request.pool
      /\ Opened(request, cards, plans, results)
      /\ ~request.minimize => Complete(request, cards, plans, results)
  BY <1>1, SearchFacts
<1>3. PICK found \in Solutions(request, Head(plans), Threshold(request.topK, results, 0)) :
             results' = InsertAll(request, results, found)
  BY DEF SearchRegime
<1>4. /\ Opened(request, cards, plans', results')
      /\ ~request.minimize => Complete(request, cards, plans', results')
  <2> HIDE DEF cards
  <2> QED BY <1>1, <1>2, <1>3, SearchHolds
<1>5. hit' \in BOOLEAN  BY <1>1 DEF IInv
<1> QED BY <1>1, <1>4, <1>5, SearchStep

(* So does a search the deadline cuts short.                               *)
LEMMA SearchCutShortStep == ASSUME IInv, SearchCutShort PROVE IInv'
<1> DEFINE jobs == Jobs(request)  cards == jobs[job]
<1>1. /\ open /\ ~hit /\ plans # <<>>
      /\ plans' = Tail(plans) /\ request' = request /\ job' = job /\ open' = open
      /\ merged' = merged /\ hit' = TRUE
  BY DEF SearchCutShort, Pending
<1>2. /\ request \in Requests /\ cards \in SUBSET request.pool
      /\ Opened(request, cards, plans, results)
  BY <1>1, SearchFacts
<1>3. PICK found \in Partials(request, Head(plans)) :
             results' = InsertAll(request, results, found)
  BY DEF SearchCutShort
<1>4. Opened(request, cards, plans', results')
  <2> HIDE DEF cards
  <2> QED BY <1>1, <1>2, <1>3, PartialHolds
<1> QED BY <1>1, <1>4, SearchStep

(* Closing a search preserves the invariant.                               *)
LEMMA CloseStep == ASSUME IInv, Close PROVE IInv'
<1> DEFINE jobs == Jobs(request)  cards == jobs[job]  n == Len(jobs)
<1>1. /\ open /\ (plans = <<>> \/ hit)
      /\ open' = FALSE /\ merged' = merged \o results /\ job' = job + 1
      /\ request' = request /\ hit' = hit
  BY DEF Close
<1>2. /\ request \in Requests /\ Divides(request, jobs)
      /\ job \in 1..Len(jobs)
      /\ Opened(request, cards, plans, results)
      /\ ~hit /\ ~request.minimize => Complete(request, cards, plans, results)
  BY <1>1, SearchFacts
<1>3. results \in PartLists(request, cards)  BY <1>2 DEF Opened
<1>4. Merging(request, jobs, job, merged)  BY DEF IInv
<1>5. Jobs(request)' = jobs  BY <1>1
<1>6. job' \in 1..n + 1
  <2>1. n \in Nat  BY <1>2 DEF Divides
  <2>2. job \in 1..n  BY <1>2
  <2> HIDE DEF n
  <2>3. job + 1 \in 1..n + 1  BY <2>1, <2>2
  <2> QED BY <1>1, <2>3
<1>7. /\ Merging(request, jobs, job + 1, merged')
      /\ Merged(request, jobs, job, merged)
           /\ (\A d \in LegalDecks(request, cards) :
                 Covers(Ctx(request), request.topK, results, Evaluated(request, d)))
         => Merged(request, jobs, job + 1, merged')
  BY <1>1, <1>2, <1>3, <1>4, CloseHolds
<1>8. ASSUME ~hit, ~request.minimize PROVE Merged(request, jobs, job + 1, merged')
  <2>1. plans = <<>>  BY <1>1, <1>8
  <2>2. \A i \in 1..Len(plans) : FALSE
    <3>1. \A i \in 1..Len(<<>>) : FALSE  OBVIOUS
    <3> QED BY <2>1, <3>1
  <2>3. Complete(request, cards, plans, results)  BY <1>2, <1>8
  <2>4. \A d \in LegalDecks(request, cards) :
          Covers(Ctx(request), request.topK, results, Evaluated(request, d))
    BY <2>2, <2>3 DEF Complete
  <2>5. Merged(request, jobs, job, merged)  BY <1>8 DEF IInv, NothingMissed
  <2> QED BY <1>7, <2>4, <2>5
<1>9. hit' \in BOOLEAN  BY <1>1 DEF IInv
<1>10. Merging(request, Jobs(request), job, merged)'  BY <1>1, <1>5, <1>7
<1>11. ~hit' /\ ~request'.minimize => NothingMissed'
  BY <1>1, <1>5, <1>8 DEF NothingMissed
<1> QED BY <1>1, <1>2, <1>5, <1>6, <1>9, <1>10, <1>11 DEF IInv

(* A step that changes nothing preserves the invariant.                    *)
LEMMA StutterStep == ASSUME IInv, UNCHANGED vars PROVE IInv'
<1>1. /\ request' = request /\ job' = job /\ open' = open /\ plans' = plans
      /\ results' = results /\ merged' = merged /\ hit' = hit
  BY DEF vars
<1>2. Jobs(request)' = Jobs(request)  BY <1>1
<1>3. (Searching => Searching') /\ (NothingMissed => NothingMissed')
  BY <1>1, <1>2 DEF Searching, NothingMissed
<1> QED BY <1>1, <1>2, <1>3 DEF IInv

(***************************************************************************)
(* The invariant holds.                                                    *)
(***************************************************************************)
THEOREM Invariance == Spec => []IInv
<1>1. Init => IInv  BY InitHolds
<1>2. IInv /\ [Next]_vars => IInv'
  <2> SUFFICES ASSUME IInv, [Next]_vars PROVE IInv'  OBVIOUS
  <2>1. CASE Open  BY <2>1, OpenStep
  <2>2. CASE Expire  BY <2>2, ExpireStep
  <2>3. CASE PruneRegime  BY <2>3, PruneRegimeStep
  <2>4. CASE SearchRegime  BY <2>4, SearchRegimeStep
  <2>5. CASE SearchCutShort  BY <2>5, SearchCutShortStep
  <2>6. CASE Close  BY <2>6, CloseStep
  <2>7. CASE UNCHANGED vars  BY <2>7, StutterStep
  <2> QED BY <2>1, <2>2, <2>3, <2>4, <2>5, <2>6, <2>7 DEF Next
<1> QED BY <1>1, <1>2, PTL DEF Spec

-----------------------------------------------------------------------------
(* The answer.                                                               *)

\* The merged lists, sorted together and cut.
Cut(q, all) == SubSeq(all, 1, Min({q.topK, Len(all)}))

(* The smaller of two naturals.                                            *)
LEMMA MinOfTwo ==
  ASSUME NEW a \in Nat, NEW b \in Nat
  PROVE  Min({a, b}) = IF a <= b THEN a ELSE b
<1> DEFINE m == IF a <= b THEN a ELSE b
<1>1. m \in {a, b} /\ \A y \in {a, b} : m <= y  OBVIOUS
<1>2. \A x \in {a, b} : (\A y \in {a, b} : x <= y) => x = m  OBVIOUS
<1> HIDE DEF m
<1>3. Min({a, b}) = m  BY <1>1, <1>2, Zenon DEF Min
<1> QED BY <1>3 DEF m

\* A is the first k of a list of S sorted by key.
IsCut(q, S, A) ==
  /\ A \in Trackers(Results(q), Ctx(q), q.topK)
  /\ \A i \in 1..Len(A) : A[i] \in S
  /\ \A x \in S : Covers(Ctx(q), q.topK, A, x)

(* Of results with one entry for each set, the first k in order cover all. *)
LEMMA CutCovers ==
  ASSUME NEW q \in Requests, NEW S \in SUBSET Results(q),
         \A a, b \in S : a.set = b.set => a = b,
         NEW all, all = ByKey(q, S), NEW A, A = Cut(q, all)
  PROVE  IsCut(q, S, A)
<1> DEFINE R == Results(q)  cx == Ctx(q)  k == q.topK  n == Len(all)
           m == IF k <= n THEN k ELSE n
<1>1. ResultSet(R) /\ IsFiniteSet(R) /\ k \in Nat /\ k >= 1
  BY ResultsRank, RequestFacts
<1>2. IsFiniteSet(S) /\ S \in SUBSET R
  <2> HIDE DEF R
  <2>1. S \in SUBSET R  BY DEF R
  <2> QED BY <1>1, <2>1, FS_Subset
<1>3. all = KeySorted(cx, S)  BY Zenon DEF ByKey, KeySorted
<1> HIDE DEF R, cx, k
<1>4. Lists(KeyOrder(cx, S), S, all)  BY <1>1, <1>2, <1>3, SortedByKey
<1>5. /\ all \in Seq(S) /\ n \in Nat
      /\ \A i, j \in 1..n : i < j => <<all[i], all[j]>> \in KeyOrder(cx, S)
      /\ \A i, j \in 1..n : all[i] = all[j] => i = j
      /\ \A x \in S : \E i \in 1..n : all[i] = x
  BY <1>4 DEF Lists
<1>6. \A i \in 1..n : all[i] \in S  BY <1>5, ElementOfSeq
<1>7. A = SubSeq(all, 1, m)
  <2>1. Min({k, n}) = m
    <3> HIDE DEF n
    <3> QED BY <1>1, <1>5, MinOfTwo
  <2>2. A = SubSeq(all, 1, Min({k, n}))  BY DEF Cut, k
  <2> HIDE DEF m, n
  <2> QED BY <2>1, <2>2
<1> HIDE DEF n
<1>8. m \in Nat /\ m <= n /\ m <= k /\ (m < n => m = k)  BY <1>1, <1>5
<1> HIDE DEF m
<1>9. \A i \in 1..m : i \in 1..n  BY <1>5, <1>8
<1>10. /\ A \in Seq(S) /\ Len(A) = m
       /\ \A i \in 1..m : A[i] = all[i]
  <2>1. 1 \in Int /\ m \in Int /\ \A i \in 1..m : all[i] \in S
    BY <1>6, <1>8, <1>9
  <2>2. /\ SubSeq(all, 1, m) \in Seq(S)
        /\ Len(SubSeq(all, 1, m)) = IF 1 <= m THEN m - 1 + 1 ELSE 0
        /\ \A i \in 1..m - 1 + 1 : SubSeq(all, 1, m)[i] = all[1 + i - 1]
    BY <2>1, SubSeqProperties
  <2>3. /\ (IF 1 <= m THEN m - 1 + 1 ELSE 0) = m /\ m - 1 + 1 = m
        /\ \A i \in 1..m : 1 + i - 1 = i
    BY <1>8
  <2> QED BY <1>7, <2>2, <2>3
<1>11. A \in Seq(R)  BY <1>2, <1>10, SeqOfMore
<1>12. \A i, j \in 1..n : i < j => KeyLess(cx, all[i], all[j])
  <2>1. \A x, y \in S : <<x, y>> \in KeyOrder(cx, S) <=> KeyLess(cx, x, y)
    BY <1>1, <1>2, KeyOrderOrders
  <2> QED BY <1>5, <1>6, <2>1
<1>13. ASSUME NEW i \in 1..n, NEW j \in 1..n, i < j PROVE all[i].set # all[j].set
  <2>1. i # j  BY <1>5, <1>13
  <2> QED BY <1>5, <1>6, <2>1
<1>14. Ranked(cx, A)
  BY <1>9, <1>10, <1>12, <1>13 DEF Ranked
<1>15. ASSUME NEW x \in S PROVE Covers(cx, k, A, x)
  <2>1. PICK i \in 1..n : all[i] = x  BY <1>5
  <2>2. CASE i <= m
    <3>1. i \in 1..m  BY <1>5, <1>8, <2>2
    <3>2. A[i] = x  BY <1>10, <2>1, <3>1
    <3>3. ~KeyLess(cx, x, x)  BY <1>1, <1>2, KeyLessIsTotalOrder
    <3> QED BY <1>10, <3>1, <3>2, <3>3 DEF Covers
  <2>3. CASE ~(i <= m)
    <3>1. m = k /\ k \in 1..n /\ k \in 1..m /\ k < i
      BY <1>1, <1>5, <1>8, <2>3
    <3>2. KeyLess(cx, all[k], all[i])  BY <1>12, <3>1
    <3>3. A[k] = all[k]  BY <1>10, <3>1
    <3> QED BY <1>10, <2>1, <3>1, <3>2, <3>3 DEF Covers
  <2> QED BY <2>2, <2>3
<1>16. \A i \in 1..Len(A) : A[i] \in S  BY <1>10, ElementOfSeq
<1> QED BY <1>8, <1>10, <1>11, <1>14, <1>15, <1>16 DEF IsCut, Trackers, R, cx, k

(* A tracker's list that covers all results is the canonical answer.       *)
LEMMA CoveringListIsTop ==
  ASSUME NEW q \in Requests, NEW A \in Trackers(Results(q), Ctx(q), q.topK),
         \A r \in Results(q) : Covers(Ctx(q), q.topK, A, r),
         NEW D, Evaluations(q, D) = Results(q)
  PROVE  A = TopOf(q, D)
<1> DEFINE R == Results(q)  cx == Ctx(q)  k == q.topK
           T == CanonicalTopK(cx, k, Evaluations(q, D))
<1>1. ResultSet(R) /\ IsFiniteSet(R) /\ k \in Nat  BY ResultsRank, RequestFacts
<1>2. A \in Seq(R) /\ Len(A) <= k /\ Ranked(cx, A)  BY DEF Trackers
<1>3. ToSet(A) \subseteq R
  <2> HIDE DEF R
  <2>1. DOMAIN A = 1..Len(A) /\ \A i \in 1..Len(A) : A[i] \in R
    BY <1>2, LenProperties
  <2> QED BY <2>1 DEF ToSet
<1>4. R \in SUBSET R  OBVIOUS
<1>5. \A r \in R : Covers(cx, k, A, r)  OBVIOUS
<1>6. ToSet(A) = T
  <2>1. Evaluations(q, D) = R  OBVIOUS
  <2> HIDE DEF R, cx, k
  <2>2. ToSet(A) = CanonicalTopK(cx, k, R)
    BY <1>1, <1>2, <1>3, <1>4, <1>5, CoveringListIsCanonical
  <2> QED BY <2>1, <2>2
<1>7. A = KeySorted(cx, T)
  <2> HIDE DEF R, cx, k, T
  <2> QED BY <1>1, <1>2, <1>6, RankedIsSorted
<1>8. TopOf(q, D) = KeySorted(cx, T)
  BY Zenon DEF TopOf, ByKey, KeySorted
<1> QED BY <1>7, <1>8

(* The legal decks of all searches are those of the pool.                  *)
LEMMA AllDecksAre ==
  ASSUME NEW q \in Requests, NEW jobs, Divides(q, jobs),
         NEW D, D = UNION {LegalDecks(q, jobs[j]) : j \in 1..Len(jobs)}
  PROVE  D = LegalDecks(q, q.pool)
<1>1. \A j \in 1..Len(jobs) : LegalDecks(q, jobs[j]) \in SUBSET LegalDecks(q, q.pool)
  BY ResultOf DEF Divides
<1>2. \A d \in LegalDecks(q, q.pool) : \E j \in 1..Len(jobs) : d \in LegalDecks(q, jobs[j])
  BY DEF Divides
<1> QED BY <1>1, <1>2

(***************************************************************************)
(* Unless the deadline struck, a strongest-deck search answers with the    *)
(* canonical Top-K of all legal decks of the request: the list TopOf gives *)
(* for them, entry by entry.                                               *)
(***************************************************************************)
THEOREM Exactness == Spec => []CompleteIsCanonical
<1>1. IInv => CompleteIsCanonical
  <2> SUFFICES ASSUME IInv, ~request.minimize, Finished, ~hit
               PROVE  Answer = TopOf(request, AllDecks)
    BY DEF CompleteIsCanonical, IsCanonical
  <2> DEFINE q == request  jobs == Jobs(q)  n == Len(jobs)  R == Results(q)
             S == ToSet(merged)  all == ByKey(q, S)  A == Cut(q, all)
  <2>1. /\ q \in Requests /\ job > n /\ Merging(q, jobs, job, merged)
        /\ Merged(q, jobs, job, merged) /\ job \in 1..n + 1
    BY DEF IInv, Finished, NothingMissed
  <2>2. Divides(q, jobs) /\ n \in Nat  BY <2>1, JobsDivide DEF Divides
  <2>3. merged \in Seq(R)  BY <2>1 DEF Merging
  <2>4. /\ \A i \in 1..Len(merged) : merged[i] \in S
        /\ \A x \in S : \E i \in 1..Len(merged) : merged[i] = x
        /\ S \in SUBSET R
    <3> HIDE DEF R
    <3>1. DOMAIN merged = 1..Len(merged) /\ \A i \in 1..Len(merged) : merged[i] \in R
      BY <2>3, LenProperties
    <3> QED BY <3>1 DEF ToSet
  <2>5. \A a, b \in S : a.set = b.set => a = b
    BY <2>1, <2>4 DEF Merging
  <2>6. IsCut(q, S, A)
    <3> HIDE DEF S, q
    <3> QED BY <2>1, <2>4, <2>5, CutCovers DEF R
  <2>7. Answer = A  BY Zenon DEF Answer, Cut
  <2>8. ASSUME NEW d \in LegalDecks(q, q.pool)
        PROVE  Covers(Ctx(q), q.topK, A, Evaluated(q, d))
    <3>1. PICK j \in 1..n : d \in LegalDecks(q, jobs[j])  BY <2>2 DEF Divides
    <3>2. j < job
      <4> HIDE DEF n
      <4> QED BY <2>1, <2>2
    <3> DEFINE r == Evaluated(q, d)
    <3>3. Kept(q, merged, r)  BY <2>1, <3>1, <3>2 DEF Merged
    <3>4. PICK t \in Trackers(R, Ctx(q), q.topK) :
                 /\ \A i \in 1..Len(t) : \E k \in 1..Len(merged) : merged[k] = t[i]
                 /\ Covers(Ctx(q), q.topK, t, r)
      BY <3>3 DEF Kept
    <3>5. r \in R  BY DEF Results, Evaluations
    <3>6. ResultSet(R) /\ q.topK \in Nat  BY <2>1, ResultsRank, RequestFacts
    <3>7. t \in Seq(R) /\ Ranked(Ctx(q), t)  BY DEF Trackers
    <3>8. A \in Seq(R) /\ Len(A) <= q.topK /\ Ranked(Ctx(q), A)
      BY <2>6 DEF IsCut, Trackers
    <3>9. \A i \in 1..Len(t) : Covers(Ctx(q), q.topK, A, t[i])
      BY <2>4, <2>6, <3>4 DEF IsCut
    <3> HIDE DEF R, A, q, r
    <3>10. Covers(Ctx(q), q.topK, A, r)
      BY <3>4, <3>5, <3>6, <3>7, <3>8, <3>9, CoversTransfer
    <3> QED BY <3>10 DEF r
  <2>9. \A r \in R : Covers(Ctx(q), q.topK, A, r)
    BY <2>8 DEF Results, Evaluations
  <2>10. A \in Trackers(R, Ctx(q), q.topK)  BY <2>6 DEF IsCut
  <2>11. AllDecks = LegalDecks(q, q.pool)
    BY <2>1, <2>2, AllDecksAre DEF AllDecks
  <2>12. Evaluations(q, AllDecks) = R  BY <2>11 DEF Results
  <2> HIDE DEF A, R
  <2>13. A = TopOf(q, AllDecks)
    BY <2>1, <2>9, <2>10, <2>12, CoveringListIsTop DEF R
  <2> QED BY <2>7, <2>13
<1> QED BY <1>1, Invariance, PTL

-----------------------------------------------------------------------------
(* What is still to come.                                                    *)

(* A result a tracker's list covers does not belong in it, or is there.    *)
LEMMA CoveredIsListed ==
  ASSUME NEW q \in Requests, NEW t \in Trackers(Results(q), Ctx(q), q.topK),
         NEW r \in Results(q), Covers(Ctx(q), q.topK, t, r),
         r \in CanonicalTopK(Ctx(q), q.topK, ToSet(t) \cup {r})
  PROVE  r \in ToSet(t)
<1> DEFINE R == Results(q)  cx == Ctx(q)  k == q.topK  S == ToSet(t) \cup {r}
<1>1. ResultSet(R) /\ IsFiniteSet(R) /\ k \in Nat  BY ResultsRank, RequestFacts
<1>2. t \in Seq(R) /\ Len(t) <= k /\ Ranked(cx, t)  BY DEF Trackers
<1>3. /\ \A i \in 1..Len(t) : t[i] \in R
      /\ \A x \in ToSet(t) : \E i \in 1..Len(t) : t[i] = x
  <2> HIDE DEF R
  <2> QED BY <1>2, LenProperties DEF ToSet
<1>4. ToSet(t) \in SUBSET R  BY <1>3
<1>5. S \in SUBSET R /\ ToSet(t) \subseteq S /\ r \in S  BY <1>4
<1>6. ASSUME NEW x \in S PROVE Covers(cx, k, t, x)
  <2>1. CASE x = r  BY <2>1
  <2>2. CASE x \in ToSet(t)
    <3>1. PICK i \in 1..Len(t) : t[i] = x  BY <1>3, <2>2
    <3>2. ~KeyLess(cx, x, x)  BY <1>1, <1>5, KeyLessIsTotalOrder
    <3> QED BY <3>1, <3>2 DEF Covers
  <2> QED BY <1>6, <2>1, <2>2
<1>7. IsFiniteSet(S)
  <2> HIDE DEF R, S
  <2> QED BY <1>1, <1>5, FS_Subset
<1>8. r \in CanonicalTopK(cx, k, S)  OBVIOUS
<1> HIDE DEF R, S, cx, k
<1>9. ToSet(t) = CanonicalTopK(cx, k, S)
  BY <1>1, <1>2, <1>5, <1>6, <1>7, CoveringListIsCanonical
<1> QED BY <1>8, <1>9

(***************************************************************************)
(* While a pool is searched, every deck that belongs in the list and is    *)
(* not there is owned by a plan not looked at yet, whose power bounds      *)
(* dominate the powers of the deck's members and whose ceiling bounds its  *)
(* rank.                                                                   *)
(***************************************************************************)
THEOREM NothingMissing == Spec => []StillPlanned
<1>1. IInv => StillPlanned
  <2> DEFINE q == request  cards == Jobs(q)[job]  cx == Ctx(q)
  <2> SUFFICES ASSUME IInv, open, ~hit, ~q.minimize, NEW d \in LegalDecks(q, cards),
                      Evaluated(q, d) \in
                        CanonicalTopK(cx, q.topK, ToSet(results) \cup {Evaluated(q, d)}),
                      ~(Evaluated(q, d) \in ToSet(results))
               PROVE  \E p \in ToSet(plans) :
                        /\ Owns(p, d)
                        /\ \A c \in d : EffectivePower(c, Composition(d)) <= p.power[c]
                        /\ Rank(cx, Evaluated(q, d), RankBase) <= p.ceiling
    BY DEF StillPlanned
  <2> DEFINE r == Evaluated(q, d)
  <2>1. /\ q \in Requests /\ cards \in SUBSET q.pool
        /\ Opened(q, cards, plans, results) /\ Complete(q, cards, plans, results)
    BY SearchFacts
  <2>2. /\ plans \in Seq(Planned(q, cards)) /\ results \in PartLists(q, cards)
    BY <2>1 DEF Opened
  <2>3. r \in Results(q) /\ Part(q, cards) \in SUBSET Results(q)
    BY <2>1, ResultOf, PartFacts
  <2>4. results \in Trackers(Results(q), cx, q.topK)
    <3>1. results \in Seq(Part(q, cards)) /\ Len(results) <= q.topK /\ Ranked(cx, results)
      BY <2>2 DEF PartLists, Trackers
    <3>2. results \in Seq(Results(q))  BY <2>3, <3>1, SeqOfMore
    <3> QED BY <3>1, <3>2 DEF Trackers
  <2>5. ~Covers(cx, q.topK, results, r)
    <3>1. r \in CanonicalTopK(cx, q.topK, ToSet(results) \cup {r}) /\ r \notin ToSet(results)
      OBVIOUS
    <3> HIDE DEF r, q
    <3> QED BY <2>1, <2>3, <2>4, <3>1, CoveredIsListed DEF cx
  <2>6. PICK i \in 1..Len(plans) : Owns(plans[i], d)
    <3> HIDE DEF q
    <3> QED BY <2>1, <2>5 DEF Complete, cx, r
  <2> DEFINE p == plans[i]
  <2>7. p \in Planned(q, cards) /\ p \in ToSet(plans)
    <3> DEFINE P == Planned(q, cards)
    <3>1. plans \in Seq(P)  BY <2>2
    <3> HIDE DEF P
    <3>2. DOMAIN plans = 1..Len(plans) /\ p \in P  BY <3>1, LenProperties
    <3> QED BY <3>2 DEF ToSet, P
  <2>8. IsPlan(q, cards, p) /\ p.ceiling # None  BY <2>7, PlannedIs
  <2>9. \A c \in d : EffectivePower(c, Composition(d)) <= p.power[c]
    <3>1. Owns(p, d)  BY <2>6
    <3> HIDE DEF p, cards, q
    <3> QED BY <2>1, <2>8, <3>1, OwnBounds
  <2>10. Rank(cx, r, RankBase) <= p.ceiling
    <3> DEFINE x == Rank(cx, r, RankBase)  y == DeckCeiling(q, p, d)  z == p.ceiling
    <3>1. y \in Nat /\ z \in Nat /\ x <= y /\ y <= z /\ x \in Nat
      <4>1. Owns(p, d)  BY <2>6
      <4>2. x \in Nat  BY <2>1, RankIs
      <4> HIDE DEF p, cards, q
      <4> QED BY <2>1, <2>8, <4>1, <4>2, OwnCeiling DEF x, y, z, r, cx
    <3> HIDE DEF x, y, z
    <3>2. x <= z  BY <3>1
    <3> QED BY <3>2 DEF x, z
  <2> QED BY <2>6, <2>7, <2>9, <2>10
<1> QED BY <1>1, Invariance, PTL
=============================================================================
