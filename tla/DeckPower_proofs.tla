--------------------------- MODULE DeckPower_proofs ---------------------------
(***************************************************************************)
(* What the card tables say of a card, of the composition of a deck and of *)
(* the power its members resolve to in it, for every table and deck size.  *)
(***************************************************************************)
EXTENDS DeckPower, CommonLemmas

(* What the assumptions say of one card.                                   *)
LEMMA CardTypes ==
  ASSUME NEW c \in DOMAIN Card
  PROVE  /\ Card[c].id \in Nat /\ Card[c].char \in Nat /\ Card[c].attr \in Nat
         /\ Card[c].units \in SUBSET (0..VS) /\ Card[c].units # {}
         /\ Card[c].legacy \in [Card[c].units -> [BOOLEAN -> [BOOLEAN -> Nat]]]
         /\ Card[c].multi # <<>> =>
              Card[c].multi \in [BOOLEAN -> [BOOLEAN -> [BOOLEAN -> Nat]]]
  BY CardAssumption

(* The deck size is positive.                                              *)
LEMMA DeckSizeFacts == DeckSize \in Nat /\ DeckSize >= 1
  BY DeckAssumption

(* A card has finitely many units.                                         *)
LEMMA UnitsFinite ==
  ASSUME NEW c \in DOMAIN Card PROVE IsFiniteSet(Card[c].units)
<1> DEFINE U == Card[c].units
<1>1. U \in SUBSET (0..VS) /\ VS \in Nat  BY CardTypes DEF VS
<1>2. IsFiniteSet(0..VS)  BY <1>1, FS_Interval
<1> HIDE DEF U
<1>3. IsFiniteSet(U)  BY <1>1, <1>2, FS_Subset
<1> QED BY <1>3 DEF U

(* A card's legacy power in a deck is one of its unit tables' entries for  *)
(* what the deck shares, the best of them.                                 *)
LEMMA LegacyPowerIs ==
  ASSUME NEW c \in DOMAIN Card, NEW units, NEW attr \in BOOLEAN
  PROVE  /\ LegacyPower(c, units, attr) \in Nat
         /\ \E u \in Card[c].units :
              LegacyPower(c, units, attr) = Card[c].legacy[u][(u \in units)][attr]
<1> DEFINE U == Card[c].units
           P == {Card[c].legacy[u][(u \in units)][attr] : u \in U}
<1>1. P \subseteq Nat
  <2> SUFFICES ASSUME NEW u \in U
               PROVE  Card[c].legacy[u][(u \in units)][attr] \in Nat
    OBVIOUS
  <2> DEFINE b == u \in units
             l == Card[c].legacy
  <2>1. b \in BOOLEAN  OBVIOUS
  <2>2. l \in [U -> [BOOLEAN -> [BOOLEAN -> Nat]]]
    BY CardTypes
  <2> HIDE DEF b, l, U
  <2>3. l[u][b][attr] \in Nat  BY <2>1, <2>2
  <2> QED BY <2>3 DEF b, l
<1>2. P # {}
  <2>1. PICK u \in U : TRUE  BY CardTypes
  <2>2. Card[c].legacy[u][(u \in units)][attr] \in P  BY <2>1, Zenon
  <2> QED BY <2>2
<1>3. IsFiniteSet(U)  BY UnitsFinite
<1>4. IsFiniteSet(P)
  <2> DEFINE f == [u \in U |-> Card[c].legacy[u][(u \in units)][attr]]
  <2>1. f \in Surjection(U, P)  BY Zenon DEF Surjection
  <2> HIDE DEF f, P, U
  <2> QED BY <2>1, <1>3, FS_Surjection
<1>5. LegacyPower(c, units, attr) = Max(P)
  BY DEF LegacyPower
<1>6. \A x \in P : \E u \in U : x = Card[c].legacy[u][(u \in units)][attr]
  BY Zenon
<1> HIDE DEF P
<1>7. P \in SUBSET Int  BY <1>1
<1>8. Max(P) \in P  BY <1>7, <1>2, <1>4, MaxProperties
<1>9. \E u \in U : LegacyPower(c, units, attr) = Card[c].legacy[u][(u \in units)][attr]
  BY <1>5, <1>6, <1>8, Zenon
<1> QED BY <1>1, <1>5, <1>8, <1>9

(* A card's power in a deck is a natural number.                           *)
LEMMA PowerType ==
  ASSUME NEW c \in DOMAIN Card, NEW units, NEW attr \in BOOLEAN
  PROVE  /\ LegacyPower(c, units, attr) \in Nat
         /\ Card[c].multi # <<>> => MultiPower(c, units, attr) \in Nat
<1>1. LegacyPower(c, units, attr) \in Nat
  BY LegacyPowerIs
<1>2. ASSUME Card[c].multi # <<>> PROVE MultiPower(c, units, attr) \in Nat
  <2> DEFINE a == Original(Card[c].units) \in units
             b == units \cap Support(Card[c].units) # {}
  <2>1. MultiPower(c, units, attr) = Card[c].multi[a][b][attr]
    BY Zenon DEF MultiPower
  <2>2. a \in BOOLEAN /\ b \in BOOLEAN  OBVIOUS
  <2>3. Card[c].multi \in [BOOLEAN -> [BOOLEAN -> [BOOLEAN -> Nat]]]
    BY <1>2, CardTypes
  <2> HIDE DEF a, b
  <2> QED BY <2>1, <2>2, <2>3
<1> QED BY <1>1, <1>2

(* A card's effective power is a natural number.                           *)
LEMMA EffectivePowerType ==
  ASSUME NEW c \in DOMAIN Card, NEW comp, comp.attr \in BOOLEAN
  PROVE  EffectivePower(c, comp) \in Nat
  BY PowerType DEF EffectivePower

-----------------------------------------------------------------------------
(* Full decks.                                                               *)

(* What the members of a full deck share.                                  *)
LEMMA CompositionFacts ==
  ASSUME NEW d \in SUBSET DOMAIN Card, IsFiniteSet(d), Cardinality(d) = DeckSize,
         NEW comp, comp = Composition(d)
  PROVE  /\ d # {}
         /\ comp.units = {u \in 0..VS : \A c \in d : u \in Card[c].units}
         /\ comp.attr \in BOOLEAN /\ comp.multi \in BOOLEAN
         /\ comp.attr => \A a, b \in d : Card[a].attr = Card[b].attr
<1> DEFINE A == {Card[c].attr : c \in d}
<1>1. d # {}
  BY DeckSizeFacts, FS_EmptySet
<1>2. /\ comp.units = {u \in 0..VS : \A c \in d : u \in Card[c].units}
      /\ comp.attr = (Cardinality(A) = 1)
      /\ comp.multi = (Cardinality(CountedUnits(d)) > 1)
  BY DEF Composition
<1>3. ASSUME Cardinality(A) = 1, NEW a \in d, NEW b \in d
      PROVE  Card[a].attr = Card[b].attr
  <2> DEFINE f == [c \in d |-> Card[c].attr]
  <2>1. f \in Surjection(d, A)  BY Zenon DEF Surjection
  <2>2. Card[a].attr \in A /\ Card[b].attr \in A  OBVIOUS
  <2> HIDE DEF f, A
  <2>3. IsFiniteSet(A)  BY <2>1, FS_Surjection
  <2>4. PICK x : A = {x}  BY <2>3, <1>3, FS_Singleton
  <2> QED BY <2>2, <2>4
<1>4. comp.attr \in BOOLEAN /\ comp.multi \in BOOLEAN
  <2> DEFINE x == Cardinality(A) = 1  y == Cardinality(CountedUnits(d)) > 1
  <2>1. x \in BOOLEAN /\ y \in BOOLEAN  OBVIOUS
  <2>2. comp.attr = x /\ comp.multi = y  BY <1>2
  <2> HIDE DEF x, y
  <2> QED BY <2>1, <2>2
<1>5. comp.attr => \A a, b \in d : Card[a].attr = Card[b].attr
  BY <1>2, <1>3
<1> QED BY <1>1, <1>2, <1>4, <1>5

(* A deck's power is the sum of its members' powers in it, a natural       *)
(* number.                                                                 *)
LEMMA TotalPowerIs ==
  ASSUME NEW d \in SUBSET DOMAIN Card, IsFiniteSet(d), Cardinality(d) = DeckSize
  PROVE  /\ TotalPower(d) =
              SumFunctionOnSet([c \in d |-> EffectivePower(c, Composition(d))], d)
         /\ TotalPower(d) \in Nat
<1> DEFINE f == [c \in d |-> EffectivePower(c, Composition(d))]
<1>1. TotalPower(d) = SumFunctionOnSet(f, d)
  BY Zenon DEF TotalPower, SumFunction
<1>2. \A c \in d : f[c] \in Nat
  <2>1. Composition(d).attr \in BOOLEAN  BY CompositionFacts
  <2> QED BY <2>1, EffectivePowerType
<1> HIDE DEF f
<1>3. TotalPower(d) \in Nat
  BY <1>1, <1>2, SumNat
<1> QED BY <1>1, <1>3 DEF f
=============================================================================
