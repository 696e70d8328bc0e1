------------------------- MODULE PowerSearch_proofs -------------------------
(***************************************************************************)
(* What the exact power search promises, for every deck size, pool, result *)
(* count and card table: whatever scenario, bound, tie test or break cuts  *)
(* off, a search that is not expired answers with the canonical Top-K of   *)
(* all legal decks.                                                        *)
(*                                                                         *)
(* The argument has three layers.  A scenario's entries are a list of its  *)
(* cards by falling ceiling, so the first entries of the next characters   *)
(* are the best completion of a prefix, and a deck's power is at most the  *)
(* sum of its members' ceilings in its own scenario.  Hence a deck that is *)
(* cut off cannot displace the K-th result: it is covered.  And the search *)
(* never drops a deck otherwise: each one is covered, or an active call or *)
(* a scenario to come still has it before it.                              *)
(***************************************************************************)
EXTENDS PowerSearch, DeckPower_proofs

(* What the assumptions say of one card.                                   *)
LEMMA CardFacts ==
  ASSUME NEW c \in DOMAIN Card
  PROVE  /\ c \in Nat /\ c < IdBase
         /\ Card[c].id \in Nat /\ Card[c].id < IdBase
         /\ Card[c].char \in Nat /\ Card[c].attr \in Nat /\ Card[c].attr # NoAttr
         /\ Card[c].units \in SUBSET (0..VS) /\ Card[c].units # {}
         /\ Card[c].legacy \in [Card[c].units -> [BOOLEAN -> [BOOLEAN -> Nat]]]
         /\ Card[c].multi # <<>> =>
              Card[c].multi \in [BOOLEAN -> [BOOLEAN -> [BOOLEAN -> Nat]]]
<1>1. c \in Nat /\ c < IdBase /\ Card[c].id < IdBase
  BY PowerSearchAssumption
<1>2. Card[c].attr \in Nat  BY CardTypes
<1>3. Card[c].attr # NoAttr
  BY <1>2 DEF NoAttr
<1> QED BY <1>1, <1>3, CardTypes

(* A card's ceiling in a scenario is a natural number, reached by neither  *)
(* state of the multi-unit effects.                                        *)
LEMMA ScenarioPowerBounds ==
  ASSUME NEW c \in DOMAIN Card, NEW units, NEW attr \in BOOLEAN
  PROVE  /\ ScenarioPower(c, units, attr) \in Nat
         /\ \A multi \in BOOLEAN :
              EffectivePower(c, [units |-> units, attr |-> attr, multi |-> multi])
                <= ScenarioPower(c, units, attr)
<1> DEFINE with(multi) ==
             EffectivePower(c, [units |-> units, attr |-> attr, multi |-> multi])
<1>1. \A multi \in BOOLEAN : with(multi) \in Nat
  BY EffectivePowerType
<1>2. ScenarioPower(c, units, attr) = Larger(with(FALSE), with(TRUE))
  BY Zenon DEF ScenarioPower
<1> HIDE DEF with
<1> DEFINE off == with(FALSE)
           on == with(TRUE)
<1>3. off \in Nat /\ on \in Nat
  BY <1>1
<1> HIDE DEF off, on
<1>4. Larger(off, on) \in Nat /\ off <= Larger(off, on) /\ on <= Larger(off, on)
  BY <1>3 DEF Larger
<1>5. ASSUME NEW multi \in BOOLEAN PROVE with(multi) <= ScenarioPower(c, units, attr)
  <2>1. with(FALSE) <= ScenarioPower(c, units, attr) /\ with(TRUE) <= ScenarioPower(c, units, attr)
    BY <1>2, <1>4 DEF off, on
  <2>2. multi = TRUE \/ multi = FALSE  OBVIOUS
  <2> QED BY <2>1, <2>2, Zenon
<1>6. ScenarioPower(c, units, attr) \in Nat
  BY <1>2, <1>4 DEF off, on
<1> QED BY <1>5, <1>6 DEF with

-----------------------------------------------------------------------------
(* Legal decks and their results.                                            *)

\* The members of d differ in character and in public id.
Distinct(d) ==
  \A a, b \in d : a # b => Card[a].char # Card[b].char /\ Card[a].id # Card[b].id

(* A legal deck is a full set of the pool's cards, all of them distinct.   *)
LEMMA LegalDeckFacts ==
  ASSUME NEW p \in Pools, NEW d \in LegalDecks(p)
  PROVE  /\ d \in SUBSET p /\ d \in SUBSET DOMAIN Card /\ d \in SUBSET Nat
         /\ IsFiniteSet(d) /\ Cardinality(d) = DeckSize
         /\ Distinct(d)
<1>1. /\ d \in SUBSET p /\ Cardinality(d) = DeckSize
      /\ Cardinality({Card[c].char : c \in d}) = DeckSize
      /\ Cardinality({Card[c].id : c \in d}) = DeckSize
  BY DEF LegalDecks, kSubset
<1>2. p \in SUBSET DOMAIN Card /\ IsFiniteSet(p) /\ DOMAIN Card \in SUBSET Nat
  BY PowerSearchAssumption
<1>3. IsFiniteSet(d)
  BY <1>1, <1>2, FS_Subset
<1> DEFINE f == [c \in d |-> Card[c].char]
           g == [c \in d |-> Card[c].id]
<1>4. /\ {Card[c].char : c \in d} = {f[c] : c \in d}
      /\ {Card[c].id : c \in d} = {g[c] : c \in d}
      /\ \A c \in d : f[c] = Card[c].char /\ g[c] = Card[c].id
  OBVIOUS
<1> HIDE DEF f, g
<1>5. \A a, b \in d : f[a] = f[b] => a = b
  BY <1>1, <1>3, <1>4, DistinctValues
<1>6. \A a, b \in d : g[a] = g[b] => a = b
  BY <1>1, <1>3, <1>4, DistinctValues
<1>7. Distinct(d)
  BY <1>4, <1>5, <1>6 DEF Distinct
<1> QED BY <1>1, <1>2, <1>3, <1>7

(* And every such set is a legal deck.                                     *)
LEMMA LegalDeckFrom ==
  ASSUME NEW p \in Pools, NEW d \in SUBSET p, Cardinality(d) = DeckSize, Distinct(d)
  PROVE  d \in LegalDecks(p)
<1>1. IsFiniteSet(d)
  BY PowerSearchAssumption, FS_Subset
<1> DEFINE f == [c \in d |-> Card[c].char]
           g == [c \in d |-> Card[c].id]
<1>4. /\ {Card[c].char : c \in d} = {f[c] : c \in d}
      /\ {Card[c].id : c \in d} = {g[c] : c \in d}
      /\ \A c \in d : f[c] = Card[c].char /\ g[c] = Card[c].id
  OBVIOUS
<1> HIDE DEF f, g
<1>5. \A a, b \in d : f[a] = f[b] => a = b
  BY <1>4 DEF Distinct
<1>6. \A a, b \in d : g[a] = g[b] => a = b
  BY <1>4 DEF Distinct
<1>7. Cardinality({f[c] : c \in d}) = DeckSize
  BY <1>1, <1>5, ValuesOfDistinct
<1>8. Cardinality({g[c] : c \in d}) = DeckSize
  BY <1>1, <1>6, ValuesOfDistinct
<1>9. d \in kSubset(DeckSize, p)
  BY DEF kSubset
<1> QED BY <1>4, <1>7, <1>8, <1>9 DEF LegalDecks

(* A list of ids or of cards is a number in base IdBase.                   *)
LEMMA ListCodeIsCode ==
  ASSUME NEW list PROVE ListCode(list) = CodeIn(IdBase, list)
  BY Zenon DEF ListCode, CodeIn

(* The code of a list of identifiers is a natural number.                  *)
LEMMA CodeType ==
  ASSUME NEW list \in Seq(Nat) PROVE ListCode(list) \in Nat
<1>1. IdBase \in Nat  BY PowerSearchAssumption
<1>2. PICK c : IsCode(IdBase, list, c) /\ CodeIn(IdBase, list) = c[Len(list)]
  BY <1>1, CodeDefined
<1>3. c \in [0..Len(list) -> Nat] /\ Len(list) \in 0..Len(list)
  BY <1>2, LenProperties DEF IsCode
<1> QED BY <1>2, <1>3, ListCodeIsCode

\* The slots of a deck's report: its members by public id.
Slots(d) == SortedBy(d, LAMBDA a, b : Card[a].id < Card[b].id)

IdOrder(d) == {q \in d \X d : Card[q[1]].id < Card[q[2]].id}

(* The slots of a deck of distinct identifiers list its cards in           *)
(* ascending order of their identifiers.                                   *)
LEMMA SlotsList ==
  ASSUME NEW d \in SUBSET DOMAIN Card, IsFiniteSet(d), Distinct(d)
  PROVE  Lists(IdOrder(d), d, Slots(d))
<1> DEFINE L == IdOrder(d)
           n == Cardinality(d)
           o == [i \in 1..n |->
                   CHOOSE x \in d : Cardinality({y \in d : Card[y].id < Card[x].id}) = i - 1]
<1>1. \A x, y \in d : <<x, y>> \in L <=> Card[x].id < Card[y].id
  BY DEF IdOrder
<1>2. Orders(L, d)
  <2>1. \A x \in d : Card[x].id \in Nat  BY CardFacts
  <2> HIDE DEF L
  <2>2. \A x, y \in d : <<x, y>> \in L \/ <<y, x>> \in L \/ x = y
    <3> SUFFICES ASSUME NEW x \in d, NEW y \in d, x # y
                 PROVE  <<x, y>> \in L \/ <<y, x>> \in L
      OBVIOUS
    <3> DEFINE i == Card[x].id
               j == Card[y].id
    <3>1. i # j /\ i \in Nat /\ j \in Nat  BY <2>1 DEF Distinct
    <3>2. <<x, y>> \in L <=> i < j  BY <1>1
    <3>3. <<y, x>> \in L <=> j < i  BY <1>1
    <3> HIDE DEF i, j
    <3> QED BY <3>1, <3>2, <3>3
  <2>3. \A x \in d : <<x, x>> \notin L  BY <1>1, <2>1
  <2>4. \A x, y, z \in d : <<x, y>> \in L /\ <<y, z>> \in L => <<x, z>> \in L
    BY <1>1, <2>1
  <2> QED BY <2>2, <2>3, <2>4 DEF Orders
<1>3. \A x \in d : RankIn(L, d, x) = Cardinality({y \in d : Card[y].id < Card[x].id})
  <2> SUFFICES ASSUME NEW x \in d
               PROVE  RankIn(L, d, x) = Cardinality({y \in d : Card[y].id < Card[x].id})
    OBVIOUS
  <2>1. {y \in d : <<y, x>> \in L} = {y \in d : Card[y].id < Card[x].id}
    BY <1>1
  <2> QED BY <2>1 DEF RankIn
<1> HIDE DEF L
<1>4. n \in Nat /\ \A i \in 0..n - 1 : \E x \in d : RankIn(L, d, x) = i
  BY <1>2, Ranks
<1>5. \A i \in 1..n :
        \E x \in d : Cardinality({y \in d : Card[y].id < Card[x].id}) = i - 1
  <2> SUFFICES ASSUME NEW i \in 1..n
               PROVE  \E x \in d : Cardinality({y \in d : Card[y].id < Card[x].id}) = i - 1
    OBVIOUS
  <2>1. i - 1 \in 0..n - 1  BY <1>4
  <2> QED BY <2>1, <1>3, <1>4
<1>6. \A i \in 1..n :
        /\ (CHOOSE x \in d : Cardinality({y \in d : Card[y].id < Card[x].id}) = i - 1) \in d
        /\ Cardinality({y \in d : Card[y].id <
             Card[CHOOSE x \in d : Cardinality({z \in d : Card[z].id < Card[x].id}) = i - 1].id})
             = i - 1
  BY <1>5, Zenon
<1>7. o \in [1..n -> d] /\ \A i \in 1..n : Cardinality({y \in d : Card[y].id < Card[o[i]].id}) = i - 1
  BY <1>6, Zenon
<1>8. Slots(d) = SubSeq(o, 1, n)
  BY Zenon DEF Slots, SortedBy
<1> HIDE DEF o
<1>9. GivesRanks(L, d, o)
  BY <1>3, <1>7 DEF GivesRanks
<1>10. Lists(L, d, Slots(d))
  BY <1>2, <1>8, <1>9, SortedByRank
<1> QED BY <1>10 DEF L

\* The public ids of a deck.
Ids(d) == {Card[c].id : c \in d}

(* The ids of distinct members are as many as they.                        *)
LEMMA IdsFacts ==
  ASSUME NEW d \in SUBSET DOMAIN Card, IsFiniteSet(d), Distinct(d)
  PROVE  /\ Ids(d) \in SUBSET Nat /\ IsFiniteSet(Ids(d))
         /\ Cardinality(Ids(d)) = Cardinality(d)
<1> DEFINE g == [c \in d |-> Card[c].id]
<1>1. Ids(d) = {g[c] : c \in d} /\ \A c \in d : g[c] = Card[c].id
  BY DEF Ids
<1>2. \A c \in d : Card[c].id \in Nat
  BY CardFacts
<1> HIDE DEF g
<1>3. \A a, b \in d : g[a] = g[b] => a = b
  BY <1>1 DEF Distinct
<1>4. IsFiniteSet({g[c] : c \in d}) /\ Cardinality({g[c] : c \in d}) = Cardinality(d)
  BY <1>3, ValuesOfDistinct
<1>5. Ids(d) \in SUBSET Nat
  BY <1>2 DEF Ids
<1> QED BY <1>1, <1>4, <1>5

(* What the exact evaluation of a legal deck reports.                      *)
LEMMA EvaluatedFacts ==
  ASSUME NEW p \in Pools, NEW d \in LegalDecks(p)
  PROVE  /\ Evaluated(d) = [score |-> TotalPower(d) + HonorBonus, power |-> 0,
                            set |-> SetCode(Ids(d)), layout |-> ListCode(Slots(d))]
         /\ TotalPower(d) \in Nat /\ SetCode(Ids(d)) \in Nat /\ ListCode(Slots(d)) \in Nat
<1>1. /\ d \in SUBSET DOMAIN Card /\ d \in SUBSET Nat
      /\ IsFiniteSet(d) /\ Cardinality(d) = DeckSize /\ Distinct(d)
  BY LegalDeckFacts
<1>2. Evaluated(d) = [score |-> TotalPower(d) + HonorBonus, power |-> 0,
                      set |-> SetCode(Ids(d)), layout |-> ListCode(Slots(d))]
  BY Zenon DEF Evaluated, Slots, Ids
<1>3. ListCode(Slots(d)) \in Nat
  <2>1. Slots(d) \in Seq(d)  BY <1>1, SlotsList DEF Lists
  <2>2. Slots(d) \in Seq(Nat)  BY <2>1, <1>1, SeqOfMore
  <2> QED BY <2>2, CodeType
<1>4. SetCode(Ids(d)) \in Nat
  <2> DEFINE I == Ids(d)
  <2>1. I \in SUBSET Int /\ I \in SUBSET Nat /\ IsFiniteSet(I)
    <3>1. I \in SUBSET Nat /\ IsFiniteSet(I)  BY <1>1, IdsFacts
    <3> HIDE DEF I
    <3> QED BY <3>1
  <2> HIDE DEF I
  <2>2. Ascending(I) \in Seq(I)  BY <2>1, AscendingProperties
  <2>3. Ascending(I) \in Seq(Nat)  BY <2>1, <2>2, SeqOfMore
  <2>4. SetCode(I) \in Nat  BY <2>3, CodeType DEF SetCode
  <2> QED BY <2>4 DEF I
<1>5. TotalPower(d) \in Nat
  <2> DEFINE comp == Composition(d)
             f == [c \in d |-> EffectivePower(c, comp)]
  <2>1. TotalPower(d) = SumFunctionOnSet(f, d)
    BY Zenon DEF TotalPower, SumFunction
  <2>2. comp.attr \in BOOLEAN
    BY DEF Composition
  <2> HIDE DEF comp
  <2>3. \A c \in d : f[c] \in Nat
    BY <1>1, <2>2, EffectivePowerType
  <2> HIDE DEF f
  <2>4. SumFunctionOnSet(f, d) \in Nat
    BY <1>1, <2>3, SumNat
  <2> QED BY <2>1, <2>4
<1> QED BY <1>2, <1>3, <1>4, <1>5

\* The results of a pool's legal decks.
DeckResults(p) == {Evaluated(d) : d \in LegalDecks(p)}

(* The ranking can order them: a deck is known by its slots.               *)
LEMMA DeckResultSet ==
  ASSUME NEW p \in Pools
  PROVE  ResultSet(DeckResults(p)) /\ IsFiniteSet(DeckResults(p))
<1>1. ASSUME NEW r \in DeckResults(p)
      PROVE  r.score \in Nat /\ r.power \in Nat /\ r.set \in Nat /\ r.layout \in Nat
  <2>1. PICK d \in LegalDecks(p) : r = Evaluated(d)  BY DEF DeckResults
  <2>2. HonorBonus \in Nat  BY PowerSearchAssumption
  <2> QED BY <2>1, <2>2, EvaluatedFacts
<1>2. ASSUME NEW a \in DeckResults(p), NEW b \in DeckResults(p), a.layout = b.layout
      PROVE  a = b
  <2>1. PICK d \in LegalDecks(p) : a = Evaluated(d)  BY DEF DeckResults
  <2>2. PICK e \in LegalDecks(p) : b = Evaluated(e)  BY DEF DeckResults
  <2> DEFINE s == Slots(d)
             t == Slots(e)
  <2>3. CodeIn(IdBase, s) = CodeIn(IdBase, t)
    BY <1>2, <2>1, <2>2, EvaluatedFacts, ListCodeIsCode
  <2>4. /\ d \in SUBSET DOMAIN Card /\ IsFiniteSet(d) /\ Cardinality(d) = DeckSize /\ Distinct(d)
        /\ e \in SUBSET DOMAIN Card /\ IsFiniteSet(e) /\ Cardinality(e) = DeckSize /\ Distinct(e)
    BY LegalDeckFacts
  <2>5. Lists(IdOrder(d), d, s) /\ Lists(IdOrder(e), e, t)
    BY <2>4, SlotsList
  <2> HIDE DEF s, t
  <2>6. /\ s \in Seq(d) /\ Len(s) = DeckSize /\ \A x \in d : \E i \in 1..Len(s) : s[i] = x
        /\ t \in Seq(e) /\ Len(t) = DeckSize /\ \A x \in e : \E i \in 1..Len(t) : t[i] = x
    BY <2>4, <2>5 DEF Lists
  <2>7. \A i \in 1..Len(s) : s[i] \in d /\ t[i] \in e /\ s[i] \in Nat /\ t[i] \in Nat
                              /\ s[i] < IdBase /\ t[i] < IdBase
    <3> SUFFICES ASSUME NEW i \in 1..Len(s)
                 PROVE  s[i] \in d /\ t[i] \in e /\ s[i] \in Nat /\ t[i] \in Nat
                              /\ s[i] < IdBase /\ t[i] < IdBase
      OBVIOUS
    <3>1. s[i] \in d /\ t[i] \in e  BY <2>6, ElementOfSeq
    <3>2. s[i] \in DOMAIN Card /\ t[i] \in DOMAIN Card  BY <3>1, <2>4
    <3> QED BY <3>1, <3>2, CardFacts
  <2>8. s \in Seq(Nat) /\ t \in Seq(Nat)
    <3>1. d \in SUBSET Nat /\ e \in SUBSET Nat  BY LegalDeckFacts
    <3> QED BY <3>1, <2>6, SeqOfMore
  <2>9. s = t
    <3>1. IdBase \in Nat  BY PowerSearchAssumption
    <3>2. \A i \in 1..Len(s) : s[i] < IdBase /\ t[i] < IdBase  BY <2>7
    <3> QED BY <3>1, <3>2, <2>3, <2>6, <2>8, CodeInjective
  <2>10. d = e
    <3>1. \A x \in d : x \in e
      <4> SUFFICES ASSUME NEW x \in d PROVE x \in e  OBVIOUS
      <4>1. PICK i \in 1..Len(s) : s[i] = x  BY <2>6
      <4> QED BY <4>1, <2>7, <2>9
    <3>2. \A x \in e : x \in d
      <4> SUFFICES ASSUME NEW x \in e PROVE x \in d  OBVIOUS
      <4>1. PICK i \in 1..Len(t) : t[i] = x  BY <2>6
      <4> QED BY <4>1, <2>6, <2>7, <2>9
    <3> QED BY <3>1, <3>2
  <2> QED BY <2>1, <2>2, <2>10
<1>3. IsFiniteSet(DeckResults(p))
  <2>1. IsFiniteSet(SUBSET p)
    BY PowerSearchAssumption, FS_SUBSET
  <2>2. LegalDecks(p) \in SUBSET SUBSET p
    BY DEF LegalDecks, kSubset
  <2>3. IsFiniteSet(LegalDecks(p))
    BY <2>1, <2>2, FS_Subset
  <2> DEFINE f == [d \in LegalDecks(p) |-> Evaluated(d)]
  <2>4. f \in Surjection(LegalDecks(p), DeckResults(p))
    BY Zenon DEF Surjection, DeckResults
  <2> HIDE DEF f
  <2> QED BY <2>3, <2>4, FS_Surjection
<1> QED BY <1>1, <1>2, <1>3 DEF ResultSet, Keyed

-----------------------------------------------------------------------------
(* The entries of a scenario.                                                *)

EntryOf(c, units, attr) ==
  [power |-> ScenarioPower(c, units, attr # NoAttr),
   card |-> c, char |-> Card[c].char, id |-> Card[c].id]

\* E lists the cards of A, each once, the strongest in the scenario first.
IsEntries(E, A, units, attr) ==
  /\ Len(E) \in Nat
  /\ \A i \in 1..Len(E) : E[i].card \in A /\ E[i] = EntryOf(E[i].card, units, attr)
  /\ \A c \in A : \E i \in 1..Len(E) : E[i].card = c
  /\ \A i, j \in 1..Len(E) : E[i].card = E[j].card => i = j
  /\ \A i, j \in 1..Len(E) : i < j => E[j].power <= E[i].power

Stronger(a, b) ==
  \/ a.power > b.power
  \/ a.power = b.power /\ a.id < b.id
  \/ a.power = b.power /\ a.id = b.id /\ a.card < b.card

StrongerOn(S) == {q \in S \X S : Stronger(q[1], q[2])}

(* The fields of a scenario's entry, and their types.                      *)
LEMMA EntryFacts ==
  ASSUME NEW c \in DOMAIN Card, NEW units, NEW attr
  PROVE  LET e == EntryOf(c, units, attr)
         IN  /\ e.power = ScenarioPower(c, units, attr # NoAttr)
             /\ e.card = c /\ e.char = Card[c].char /\ e.id = Card[c].id
             /\ e.power \in Nat /\ e.card \in Nat /\ e.id \in Nat
<1> DEFINE b == attr # NoAttr
<1>1. b \in BOOLEAN
  OBVIOUS
<1> HIDE DEF b
<1>2. ScenarioPower(c, units, b) \in Nat
  BY <1>1, ScenarioPowerBounds
<1>3. c \in Nat /\ Card[c].id \in Nat
  BY CardFacts
<1> QED BY <1>2, <1>3 DEF EntryOf, b

(* Entries lists the admitted cards so.                                    *)
LEMMA EntriesProperties ==
  ASSUME NEW p \in Pools, NEW units, NEW attr
  PROVE  IsEntries(Entries(p, units, attr), Admitted(p, units, attr), units, attr)
<1> DEFINE A == Admitted(p, units, attr)
           S == {EntryOf(c, units, attr) : c \in A}
           L == StrongerOn(S)
           n == Cardinality(S)
           E == Entries(p, units, attr)
<1>1. A \in SUBSET DOMAIN Card /\ IsFiniteSet(A)
  <2>1. A \in SUBSET p  BY DEF Admitted
  <2> HIDE DEF A
  <2> QED BY <2>1, PowerSearchAssumption, FS_Subset
<1>2. \A x \in S : \E c \in A : x = EntryOf(c, units, attr)
  OBVIOUS
<1>3. \A c \in A : EntryOf(c, units, attr) \in S
  OBVIOUS
<1>4. IsFiniteSet(S)
  <2> DEFINE f == [c \in A |-> EntryOf(c, units, attr)]
  <2>1. f \in Surjection(A, S)
    BY Zenon DEF Surjection
  <2> HIDE DEF f, A, S
  <2> QED BY <2>1, <1>1, FS_Surjection
<1>5. E = SortedBy(S, LAMBDA a, b :
                        \/ a.power > b.power
                        \/ a.power = b.power /\ a.id < b.id
                        \/ a.power = b.power /\ a.id = b.id /\ a.card < b.card)
  BY Zenon DEF Entries, EntryOf
<1> HIDE DEF A
<1>6. \A x \in S : /\ x.power \in Nat /\ x.id \in Nat /\ x.card \in Nat
                   /\ x.card \in A /\ x = EntryOf(x.card, units, attr)
  BY <1>1, EntryFacts
<1>7. \A x, y \in S : <<x, y>> \in L <=> Stronger(x, y)
  BY DEF StrongerOn
<1> HIDE DEF S, L
<1>8. Orders(L, S)
  <2>1. \A x \in S : <<x, x>> \notin L
    BY <1>6, <1>7 DEF Stronger
  <2>2. \A x, y, z \in S : <<x, y>> \in L /\ <<y, z>> \in L => <<x, z>> \in L
    <3> SUFFICES ASSUME NEW x \in S, NEW y \in S, NEW z \in S, Stronger(x, y), Stronger(y, z)
                 PROVE  Stronger(x, z)
      BY <1>7
    <3> DEFINE xp == x.power
               yp == y.power
               zp == z.power
               xi == x.id
               yi == y.id
               zi == z.id
               xc == x.card
               yc == y.card
               zc == z.card
    <3>1. /\ xp \in Nat /\ yp \in Nat /\ zp \in Nat /\ xi \in Nat /\ yi \in Nat
          /\ zi \in Nat /\ xc \in Nat /\ yc \in Nat /\ zc \in Nat
      BY <1>6
    <3>2. (xp > yp) \/ (xp = yp /\ xi < yi) \/ (xp = yp /\ xi = yi /\ xc < yc)
      BY DEF Stronger
    <3>3. (yp > zp) \/ (yp = zp /\ yi < zi) \/ (yp = zp /\ yi = zi /\ yc < zc)
      BY DEF Stronger
    <3>4. Stronger(x, z) <=>
            (xp > zp) \/ (xp = zp /\ xi < zi) \/ (xp = zp /\ xi = zi /\ xc < zc)
      BY DEF Stronger
    <3> HIDE DEF xp, yp, zp, xi, yi, zi, xc, yc, zc
    <3> QED BY <3>1, <3>2, <3>3, <3>4
  <2>3. \A x, y \in S : <<x, y>> \in L \/ <<y, x>> \in L \/ x = y
    <3> SUFFICES ASSUME NEW x \in S, NEW y \in S, ~Stronger(x, y), ~Stronger(y, x)
                 PROVE  x = y
      BY <1>7
    <3> DEFINE xp == x.power
               yp == y.power
               xi == x.id
               yi == y.id
               xc == x.card
               yc == y.card
    <3>1. /\ xp \in Nat /\ yp \in Nat /\ xi \in Nat /\ yi \in Nat /\ xc \in Nat /\ yc \in Nat
      BY <1>6
    <3>2. ~(xp > yp) /\ ~(xp = yp /\ xi < yi) /\ ~(xp = yp /\ xi = yi /\ xc < yc)
      BY DEF Stronger
    <3>3. ~(yp > xp) /\ ~(yp = xp /\ yi < xi) /\ ~(yp = xp /\ yi = xi /\ yc < xc)
      BY DEF Stronger
    <3>4. x = EntryOf(xc, units, attr) /\ y = EntryOf(yc, units, attr)
      BY <1>6
    <3> HIDE DEF xp, yp, xi, yi, xc, yc
    <3>5. xc = yc
      BY <3>1, <3>2, <3>3
    <3> QED BY <3>4, <3>5
  <2> QED BY <2>1, <2>2, <2>3 DEF Orders
<1> DEFINE Weight(x) == Cardinality({y \in S :
                           \/ y.power > x.power
                           \/ y.power = x.power /\ y.id < x.id
                           \/ y.power = x.power /\ y.id = x.id /\ y.card < x.card})
           o == [i \in 1..n |-> CHOOSE x \in S : Weight(x) = i - 1]
<1>9. \A x \in S : RankIn(L, S, x) = Weight(x)
  <2> SUFFICES ASSUME NEW x \in S PROVE RankIn(L, S, x) = Weight(x)
    OBVIOUS
  <2>1. {y \in S : <<y, x>> \in L} =
          {y \in S : \/ y.power > x.power
                     \/ y.power = x.power /\ y.id < x.id
                     \/ y.power = x.power /\ y.id = x.id /\ y.card < x.card}
    BY <1>7, Zenon DEF Stronger
  <2> QED BY <2>1, Zenon DEF RankIn
<1>10. E = SubSeq(o, 1, n)
  BY <1>5, Zenon DEF SortedBy
<1> HIDE DEF Weight
<1>11. n \in Nat /\ \A i \in 0..n - 1 : \E x \in S : RankIn(L, S, x) = i
  BY <1>4, <1>8, Ranks
<1>12. \A i \in 1..n : \E x \in S : Weight(x) = i - 1
  <2> SUFFICES ASSUME NEW i \in 1..n PROVE \E x \in S : Weight(x) = i - 1
    OBVIOUS
  <2>1. i - 1 \in 0..n - 1  BY <1>11
  <2> QED BY <2>1, <1>9, <1>11
<1>13. \A i \in 1..n : /\ (CHOOSE x \in S : Weight(x) = i - 1) \in S
                       /\ Weight(CHOOSE x \in S : Weight(x) = i - 1) = i - 1
  BY <1>12, Zenon
<1>14. o \in [1..n -> S] /\ \A i \in 1..n : Weight(o[i]) = i - 1
  BY <1>13, Zenon
<1> HIDE DEF o
<1>15. GivesRanks(L, S, o)
  BY <1>9, <1>14 DEF GivesRanks
<1>16. Lists(L, S, E)
  BY <1>4, <1>8, <1>10, <1>15, SortedByRank
<1> HIDE DEF E, n
<1>17. /\ E \in Seq(S) /\ Len(E) \in Nat
       /\ \A i, j \in 1..Len(E) : i < j <=> <<E[i], E[j]>> \in L
       /\ \A i, j \in 1..Len(E) : E[i] = E[j] => i = j
       /\ \A x \in S : \E i \in 1..Len(E) : E[i] = x
  BY <1>16 DEF Lists
<1>18. \A i \in 1..Len(E) : E[i] \in S
  BY <1>17, ElementOfSeq
<1>19. \A i \in 1..Len(E) : E[i].card \in A /\ E[i] = EntryOf(E[i].card, units, attr)
  BY <1>6, <1>18
<1>20. \A c \in A : \E i \in 1..Len(E) : E[i].card = c
  <2> SUFFICES ASSUME NEW c \in A PROVE \E i \in 1..Len(E) : E[i].card = c
    OBVIOUS
  <2>1. EntryOf(c, units, attr) \in S /\ EntryOf(c, units, attr).card = c
    BY <1>1, <1>3, EntryFacts
  <2> QED BY <2>1, <1>17
<1>21. \A i, j \in 1..Len(E) : E[i].card = E[j].card => i = j
  BY <1>17, <1>19
<1>22. \A i, j \in 1..Len(E) : i < j => E[j].power <= E[i].power
  <2> SUFFICES ASSUME NEW i \in 1..Len(E), NEW j \in 1..Len(E), i < j
               PROVE  E[j].power <= E[i].power
    OBVIOUS
  <2>1. Stronger(E[i], E[j])  BY <1>7, <1>17, <1>18
  <2>2. E[i].power \in Nat /\ E[j].power \in Nat  BY <1>6, <1>18
  <2>3. E[i].power > E[j].power \/ E[i].power = E[j].power  BY <2>1 DEF Stronger
  <2> QED BY <2>2, <2>3
<1>23. IsEntries(E, A, units, attr)
  BY <1>17, <1>19, <1>20, <1>21, <1>22 DEF IsEntries
<1> QED BY <1>23 DEF E, A

-----------------------------------------------------------------------------
(* The best completion bounds every completion.                              *)

\* The ceilings of a set of cards in a scenario, added up.
ScenarioSum(S, units, attr) ==
  SumFunction([c \in S |-> ScenarioPower(c, units, attr # NoAttr)])

(* A scenario's sum of a set of cards, as a sum over that set.             *)
LEMMA ScenarioSumIs ==
  ASSUME NEW S, NEW units, NEW attr
  PROVE  ScenarioSum(S, units, attr) =
           SumFunctionOnSet([c \in S |-> ScenarioPower(c, units, attr # NoAttr)], S)
  BY Zenon DEF ScenarioSum, SumFunction

(* A scenario's sum of a finite set of cards is a natural number.          *)
LEMMA ScenarioSumType ==
  ASSUME NEW S \in SUBSET DOMAIN Card, IsFiniteSet(S), NEW units, NEW attr
  PROVE  ScenarioSum(S, units, attr) \in Nat
<1> DEFINE b == attr # NoAttr
           f == [c \in S |-> ScenarioPower(c, units, b)]
<1>1. ScenarioSum(S, units, attr) = SumFunctionOnSet(f, S)
  BY ScenarioSumIs, Zenon
<1>2. b \in BOOLEAN  OBVIOUS
<1> HIDE DEF b
<1>3. \A c \in S : f[c] \in Nat
  BY <1>2, ScenarioPowerBounds
<1> HIDE DEF f
<1> QED BY <1>1, <1>3, SumNat

(* The ceilings of two separate sets add up.                               *)
LEMMA ScenarioSumSplit ==
  ASSUME NEW S \in SUBSET DOMAIN Card, IsFiniteSet(S), NEW units, NEW attr,
         NEW P \in SUBSET S
  PROVE  ScenarioSum(S, units, attr) =
           ScenarioSum(P, units, attr) + ScenarioSum(S \ P, units, attr)
<1> DEFINE b == attr # NoAttr
           f == [c \in S |-> ScenarioPower(c, units, b)]
           Q == S \ P
           g == [c \in P |-> ScenarioPower(c, units, b)]
           h == [c \in Q |-> ScenarioPower(c, units, b)]
<1>1. /\ ScenarioSum(S, units, attr) = SumFunctionOnSet(f, S)
      /\ ScenarioSum(P, units, attr) = SumFunctionOnSet(g, P)
      /\ ScenarioSum(Q, units, attr) = SumFunctionOnSet(h, Q)
  BY ScenarioSumIs, Zenon
<1>2. b \in BOOLEAN  OBVIOUS
<1> HIDE DEF b
<1>3. Summands(f, S)
  <2>1. \A c \in S : ScenarioPower(c, units, b) \in Int
    BY <1>2, ScenarioPowerBounds
  <2> QED BY <2>1 DEF Summands
<1>4. (\A c \in P : g[c] = f[c]) /\ (\A c \in Q : h[c] = f[c])
  OBVIOUS
<1>5. P \cup Q = S /\ P \cap Q = {} /\ Q \in SUBSET S
  OBVIOUS
<1> HIDE DEF f, g, h, Q
<1>6. IsFiniteSet(P) /\ IsFiniteSet(Q)
  BY <1>5, FS_Subset
<1>7. Summands(f, P) /\ Summands(f, Q)
  BY <1>3, <1>5 DEF Summands
<1>8. SumFunctionOnSet(f, P) = SumFunctionOnSet(g, P)
  BY <1>4, <1>6, <1>7, SumSame
<1>9. SumFunctionOnSet(f, Q) = SumFunctionOnSet(h, Q)
  BY <1>4, <1>6, <1>7, SumSame
<1>10. SumFunctionOnSet(f, S) = SumFunctionOnSet(f, P) + SumFunctionOnSet(f, Q)
  <2>1. Summands(f, P \cup Q)  BY <1>3, <1>5
  <2>2. SumFunctionOnSet(f, P \cup Q) = SumFunctionOnSet(f, P) + SumFunctionOnSet(f, Q)
    BY <1>5, <1>6, <2>1, SumOfUnion
  <2> QED BY <2>2, <1>5
<1> QED BY <1>1, <1>8, <1>9, <1>10 DEF Q

\* The first entries from pos on of the characters not used.
FirstEntries(E, pos, used) ==
  {i \in pos..Len(E) : /\ E[i].char \notin used
                       /\ \A j \in pos..i - 1 : E[j].char # E[i].char}

\* The cards of R are listed from pos on, and no character of theirs is used.
Remaining(E, pos, used, R) ==
  \A r \in R : /\ Card[r].char \notin used
               /\ \E i \in pos..Len(E) : E[i].card = r

\* m gives every card of R the first entry of its character.
Matches(E, pos, used, R, m) ==
  /\ m \in [R -> FirstEntries(E, pos, used)]
  /\ \A r \in R : E[m[r]].char = Card[r].char /\ \A i \in pos..Len(E) :
       E[i].card = r => m[r] <= i

(* Cards that remain to a call can be matched with the first entries of    *)
(* their characters, none of which comes after the card's own entry.       *)
LEMMA MatchExists ==
  ASSUME NEW A \in SUBSET DOMAIN Card, NEW units, NEW attr,
         NEW E, IsEntries(E, A, units, attr),
         NEW pos \in Nat, pos >= 1, NEW used,
         NEW R \in SUBSET A, Remaining(E, pos, used, R)
  PROVE  \E m : Matches(E, pos, used, R, m)
<1> DEFINE I == FirstEntries(E, pos, used)
           Is(r, k) == k \in I /\ E[k].char = Card[r].char /\ \A i \in pos..Len(E) :
                          E[i].card = r => k <= i
<1>1. ASSUME NEW r \in R PROVE \E k \in I : Is(r, k)
  <2> DEFINE T == {i \in pos..Len(E) : E[i].char = Card[r].char}
  <2>1. Len(E) \in Nat /\ \A i \in pos..Len(E) : E[i].card \in A /\ E[i].char = Card[E[i].card].char
    <3>1. Len(E) \in Nat  BY DEF IsEntries
    <3> SUFFICES ASSUME NEW i \in pos..Len(E)
                 PROVE  E[i].card \in A /\ E[i].char = Card[E[i].card].char
      BY <3>1
    <3>2. i \in 1..Len(E)  BY <3>1
    <3>3. E[i].card \in A /\ E[i] = EntryOf(E[i].card, units, attr)
      BY <3>2 DEF IsEntries
    <3> QED BY <3>3, EntryFacts
  <2>2. T # {} /\ T \subseteq Nat
    <3>1. PICK i \in pos..Len(E) : E[i].card = r  BY DEF Remaining
    <3>2. i \in T  BY <3>1, <2>1
    <3> QED BY <3>2, <2>1
  <2>3. PICK k \in T : \A i \in T : k <= i
    <3> HIDE DEF T
    <3> QED BY <2>2, LeastNatural
  <2>4. k \in pos..Len(E) /\ E[k].char = Card[r].char /\ k \in Nat
    BY <2>2
  <2>5. \A j \in pos..k - 1 : E[j].char # E[k].char
    <3> SUFFICES ASSUME NEW j \in pos..k - 1, E[j].char = E[k].char PROVE FALSE
      OBVIOUS
    <3>1. j \in pos..Len(E) /\ j < k  BY <2>1, <2>4
    <3>2. j \in T  BY <3>1, <2>4
    <3> QED BY <3>1, <3>2, <2>3, <2>4
  <2>6. E[k].char \notin used
    BY <2>4 DEF Remaining
  <2>7. \A i \in pos..Len(E) : E[i].card = r => k <= i
    <3> SUFFICES ASSUME NEW i \in pos..Len(E), E[i].card = r PROVE k <= i
      OBVIOUS
    <3>1. i \in T  BY <2>1
    <3> QED BY <3>1, <2>3
  <2> QED BY <2>4, <2>5, <2>6, <2>7 DEF FirstEntries
<1> HIDE DEF I, Is
<1> DEFINE m == [r \in R |-> CHOOSE k \in I : Is(r, k)]
<1>2. \A r \in R : m[r] \in I /\ Is(r, m[r])
  BY <1>1, Zenon
<1>3. m \in [R -> I]
  BY <1>2, Zenon
<1> HIDE DEF m
<1>4. Matches(E, pos, used, R, m)
  BY <1>2, <1>3 DEF Matches, I, Is
<1> QED BY <1>4

\* What an entry list says of the indices of first entries.
LEMMA FirstEntriesFacts ==
  ASSUME NEW A \in SUBSET DOMAIN Card, NEW units, NEW attr,
         NEW E, IsEntries(E, A, units, attr),
         NEW pos \in Nat, pos >= 1, NEW used
  PROVE  /\ FirstEntries(E, pos, used) \in SUBSET (1..Len(E))
         /\ FirstEntries(E, pos, used) \in SUBSET Int
         /\ IsFiniteSet(FirstEntries(E, pos, used))
         /\ \A i, j \in FirstEntries(E, pos, used) :
              i < j => E[j].power <= E[i].power
         /\ \A i \in 1..Len(E) : E[i].power \in Nat
<1>1. Len(E) \in Nat
  BY DEF IsEntries
<1>2. FirstEntries(E, pos, used) \in SUBSET (1..Len(E))
  BY <1>1 DEF FirstEntries
<1> DEFINE I == FirstEntries(E, pos, used)
<1>3. I \in SUBSET (1..Len(E))  BY <1>2
<1> HIDE DEF I
<1>4. IsFiniteSet(I)
  <2> DEFINE n == Len(E)
  <2>1. n \in Nat  BY <1>1
  <2>2. I \in SUBSET (1..n)  BY <1>3
  <2> HIDE DEF n
  <2>3. IsFiniteSet(1..n)  BY <2>1, FS_Interval
  <2> QED BY <2>2, <2>3, FS_Subset
<1>5. \A i, j \in I : i < j => E[j].power <= E[i].power
  BY <1>3 DEF IsEntries
<1>6. \A i \in 1..Len(E) : E[i].power \in Nat
  <2> SUFFICES ASSUME NEW i \in 1..Len(E) PROVE E[i].power \in Nat
    OBVIOUS
  <2>1. E[i].card \in A /\ E[i] = EntryOf(E[i].card, units, attr)
    BY DEF IsEntries
  <2> QED BY <2>1, EntryFacts
<1>7. I \in SUBSET Int
  BY <1>3
<1> QED BY <1>3, <1>4, <1>5, <1>6, <1>7 DEF I

(* The completion of as many slots as there are cards left is feasible, its *)
(* sum is at least theirs, and if they reach it none of them is below the  *)
(* least power in it.                                                      *)
LEMMA BestCompletion ==
  ASSUME NEW A \in SUBSET DOMAIN Card, NEW units, NEW attr,
         NEW E, IsEntries(E, A, units, attr),
         NEW pos \in Nat, pos >= 1, NEW used,
         NEW R \in SUBSET A, IsFiniteSet(R), Distinct(R), Remaining(E, pos, used, R),
         NEW n, n = Cardinality(R)
  PROVE  /\ Feasible(E, pos, used, n)
         /\ CompletionSum(E, pos, used, n) \in Int
         /\ ScenarioSum(R, units, attr) <= CompletionSum(E, pos, used, n)
         /\ ScenarioSum(R, units, attr) = CompletionSum(E, pos, used, n) =>
              \A r \in R : ScenarioPower(r, units, attr # NoAttr) >= Least(E, pos, used, n)
<1> DEFINE I == FirstEntries(E, pos, used)
           C == Completion(E, pos, used, n)
           b == attr # NoAttr
           f == [i \in I |-> E[i].power]
           g == [i \in C |-> E[i].power]
           w == [c \in R |-> ScenarioPower(c, units, b)]
<1>n. n \in Nat /\ R \in SUBSET DOMAIN Card
  BY FS_CardinalityType
<1>i. /\ I \in SUBSET (1..Len(E)) /\ I \in SUBSET Int /\ IsFiniteSet(I)
      /\ \A i, j \in I : i < j => E[j].power <= E[i].power
      /\ \A i \in 1..Len(E) : E[i].power \in Nat
  BY FirstEntriesFacts
<1>1. PICK m : Matches(E, pos, used, R, m)
  BY MatchExists
<1>2. m \in [R -> I] /\ \A r \in R : E[m[r]].char = Card[r].char
  BY <1>1 DEF Matches
<1>3. \A r, s \in R : m[r] = m[s] => r = s
  BY <1>2 DEF Distinct
<1>c. AreSmallest(I, n, C)
  BY Zenon DEF AreSmallest, Completion, SmallestOf, FirstEntries
<1>b. b \in BOOLEAN  OBVIOUS
<1>w. \A r \in R : w[r] \in Nat /\ w[r] = ScenarioPower(r, units, b)
  <2> HIDE DEF b
  <2> QED BY <1>b, <1>n, ScenarioPowerBounds
<1>p. \A r \in R : w[r] <= E[m[r]].power
  <2> SUFFICES ASSUME NEW r \in R PROVE w[r] <= E[m[r]].power
    OBVIOUS
  <2>1. PICK i \in pos..Len(E) : E[i].card = r  BY DEF Remaining
  <2>2. Len(E) \in Nat  BY DEF IsEntries
  <2>3. i \in 1..Len(E) /\ i \in Int  BY <2>1, <2>2
  <2>4. E[i].power = w[r]
    <3>1. E[i] = EntryOf(r, units, attr)  BY <2>1, <2>3 DEF IsEntries
    <3> QED BY <3>1, <1>n, EntryFacts
  <2>5. m[r] <= i /\ m[r] \in 1..Len(E) /\ m[r] \in Int
    BY <2>1, <1>1, <1>2, <1>i DEF Matches
  <2>6. CASE m[r] = i
    <3>1. E[m[r]].power = w[r] /\ w[r] \in Nat  BY <2>4, <2>6, <1>w
    <3> HIDE DEF w
    <3> QED BY <3>1
  <2>7. CASE m[r] < i
    <3>1. E[i].power <= E[m[r]].power  BY <2>3, <2>5, <2>7 DEF IsEntries
    <3> QED BY <3>1, <2>4
  <2> QED BY <2>3, <2>5, <2>6, <2>7
<1>f. \A i \in I : f[i] = E[i].power /\ f[i] \in Nat
  BY <1>i
<1>g. \A i \in C : g[i] = E[i].power
  OBVIOUS
<1>s. ScenarioSum(R, units, attr) = SumFunctionOnSet(w, R)
  BY ScenarioSumIs, Zenon
<1>t. CompletionSum(E, pos, used, n) = SumFunctionOnSet(g, C)
  BY Zenon DEF CompletionSum, SumFunction
<1>u. Least(E, pos, used, n) = E[Max(C)].power
  BY DEF Least
<1>v. Feasible(E, pos, used, n) <=> Cardinality(C) = n
  BY DEF Feasible
<1> HIDE DEF I, C, f, g, w
<1>4. n <= Cardinality(I)
  <2> DEFINE F == {m[r] : r \in R}
  <2>1. F \in SUBSET I  BY <1>2
  <2>2. Cardinality(F) = n  BY <1>3, ValuesOfDistinct
  <2> HIDE DEF F
  <2> QED BY <2>1, <2>2, <1>i, FS_Subset
<1>5. /\ C \in SUBSET I /\ IsFiniteSet(C) /\ Cardinality(C) = n
      /\ \A c \in C, i \in I : i < c => i \in C
  <2>1. /\ C \in SUBSET I /\ IsFiniteSet(C)
        /\ \A c \in C, i \in I : i < c => i \in C
        /\ n <= Cardinality(I) => Cardinality(C) = n
    BY <1>c, <1>i, <1>n, SmallestProperties
  <2> QED BY <2>1, <1>4
<1>6. Summands(f, I) /\ Summands(w, R) /\ Summands(f, C) /\ Summands(g, C)
  BY <1>f, <1>g, <1>w, <1>5 DEF Summands
<1>7. \A i, j \in I : i < j => f[j] <= f[i]
  BY <1>i, <1>f
<1>8. \A r \in R : w[r] <= f[m[r]]
  BY <1>p, <1>f, <1>2
<1>9. SumFunctionOnSet(f, C) = SumFunctionOnSet(g, C) /\ SumFunctionOnSet(f, C) \in Int
  <2>1. \A i \in C : f[i] = g[i]  BY <1>f, <1>g, <1>5
  <2> QED BY <2>1, <1>5, <1>6, SumSame, SumType
<1>10. SumFunctionOnSet(w, R) <= SumFunctionOnSet(f, C)
  BY <1>2, <1>3, <1>5, <1>6, <1>7, <1>8, <1>i, SumOfMatched
<1>11. ASSUME NEW r \in R, ~(w[r] >= E[Max(C)].power)
       PROVE  SumFunctionOnSet(w, R) # SumFunctionOnSet(f, C)
  <2> DEFINE R1 == R \ {r}
             x == Max(C)
             C1 == C \ {x}
             m1 == [s \in R1 |-> m[s]]
  <2>1. x \in C /\ \A i \in C : i <= x
    <3>1. C \in SUBSET Int  BY <1>5, <1>i
    <3>2. C # {}
      <4> SUFFICES ASSUME C = {} PROVE FALSE  OBVIOUS
      <4>1. Cardinality(R) = 0  BY <1>5, FS_EmptySet
      <4>2. R = {}  BY <4>1, FS_EmptySet
      <4> QED BY <4>2
    <3> QED BY <3>1, <3>2, <1>5, MaxProperties
  <2>2. SumFunctionOnSet(w, R) = w[r] + SumFunctionOnSet(w, R1)
    BY <1>6, SumRemove
  <2>3. SumFunctionOnSet(f, C) = f[x] + SumFunctionOnSet(f, C1)
    BY <2>1, <1>5, <1>6, SumRemove
  <2>4. f[x] = E[x].power /\ f[x] \in Nat /\ w[r] \in Nat
    BY <2>1, <1>5, <1>f, <1>w
  <2>5. /\ IsFiniteSet(R1) /\ IsFiniteSet(C1) /\ C1 \in SUBSET I /\ C1 \in SUBSET C
        /\ Cardinality(R1) = n - 1 /\ Cardinality(C1) = n - 1
    BY <2>1, <1>5, FS_RemoveElement, FS_Subset
  <2>6. \A c \in C1, i \in I : i < c => i \in C1
    <3> SUFFICES ASSUME NEW c \in C1, NEW i \in I, i < c PROVE i \in C1
      OBVIOUS
    <3>1. c \in C /\ c <= x /\ c \in Int /\ i \in Int /\ x \in Int
      BY <2>1, <1>5, <1>i
    <3>2. i \in C  BY <3>1, <1>5
    <3>3. i # x  BY <3>1
    <3> QED BY <3>2, <3>3
  <2>7. /\ m1 \in [R1 -> I] /\ \A s \in R1 : w[s] <= f[m1[s]]
        /\ \A s, t \in R1 : m1[s] = m1[t] => s = t
    BY <1>2, <1>3, <1>8
  <2>8. Summands(w, R1) /\ Summands(f, C1)
    BY <1>6 DEF Summands
  <2> HIDE DEF R1, C1, m1, x
  <2>9. SumFunctionOnSet(w, R1) <= SumFunctionOnSet(f, C1)
    BY <1>i, <1>6, <1>7, <2>5, <2>6, <2>7, <2>8, SumOfMatched
  <2>10. SumFunctionOnSet(w, R1) \in Int /\ SumFunctionOnSet(f, C1) \in Int
    BY <2>5, <2>8, SumType
  <2>11. ~(w[r] >= f[x])
    BY <1>11, <2>4 DEF x
  <2> QED BY <2>2, <2>3, <2>4, <2>9, <2>10, <2>11
<1>12. \A r \in R : SumFunctionOnSet(w, R) = SumFunctionOnSet(f, C) =>
                      ScenarioPower(r, units, b) >= E[Max(C)].power
  BY <1>11, <1>w
<1> QED BY <1>5, <1>9, <1>10, <1>12, <1>s, <1>t, <1>u, <1>v

-----------------------------------------------------------------------------
(* The scenarios.                                                            *)

(* A deck's own scenario admits its members and its power is no more than  *)
(* the ceilings of its members there.                                      *)
LEMMA OwnScenarioBounds ==
  ASSUME NEW p \in Pools, NEW d \in LegalDecks(p), NEW s, OwnScenario(s, d)
  PROVE  /\ d \in SUBSET Admitted(p, s.units, s.attr)
         /\ TotalPower(d) <= ScenarioSum(d, s.units, s.attr)
<1> DEFINE comp == Composition(d)
           b == s.attr # NoAttr
           f == [c \in d |-> EffectivePower(c, comp)]
           w == [c \in d |-> ScenarioPower(c, s.units, b)]
<1>1. /\ d \in SUBSET p /\ d \in SUBSET DOMAIN Card
      /\ IsFiniteSet(d) /\ Cardinality(d) = DeckSize
  BY LegalDeckFacts
<1>2. /\ comp.units = {u \in 0..VS : \A c \in d : u \in Card[c].units}
      /\ comp.attr \in BOOLEAN /\ comp.multi \in BOOLEAN
      /\ comp = [units |-> comp.units, attr |-> comp.attr, multi |-> comp.multi]
  BY <1>1 DEF Composition
<1>3. /\ s.units = comp.units /\ (b <=> comp.attr)
      /\ \A c \in d : s.attr \in {NoAttr, Card[c].attr}
  BY DEF OwnScenario
<1>4. \A c \in d : s.units \subseteq Card[c].units
  BY <1>2, <1>3
<1>5. d \in SUBSET Admitted(p, s.units, s.attr)
  BY <1>1, <1>3, <1>4 DEF Admitted
<1>6. b \in BOOLEAN /\ b = comp.attr
  BY <1>2, <1>3
<1>7. TotalPower(d) = SumFunctionOnSet(f, d)
  BY Zenon DEF TotalPower, SumFunction
<1>8. ScenarioSum(d, s.units, s.attr) = SumFunctionOnSet(w, d)
  BY ScenarioSumIs, Zenon
<1> HIDE DEF comp, b
<1>9. ASSUME NEW c \in d PROVE f[c] \in Int /\ w[c] \in Int /\ f[c] <= w[c]
  <2>1. comp = [units |-> s.units, attr |-> b, multi |-> comp.multi]
    BY <1>2, <1>3, <1>6
  <2>2. EffectivePower(c, [units |-> s.units, attr |-> b, multi |-> comp.multi])
          <= ScenarioPower(c, s.units, b)
    BY <1>1, <1>2, <1>6, ScenarioPowerBounds
  <2>3. EffectivePower(c, comp) <= ScenarioPower(c, s.units, b)
    BY <2>1, <2>2, Zenon
  <2>4. EffectivePower(c, comp) \in Nat /\ ScenarioPower(c, s.units, b) \in Nat
    BY <1>1, <1>2, <1>6, EffectivePowerType, ScenarioPowerBounds
  <2>5. f[c] = EffectivePower(c, comp) /\ w[c] = ScenarioPower(c, s.units, b)
    OBVIOUS
  <2> HIDE DEF f, w
  <2> QED BY <2>3, <2>4, <2>5
<1> HIDE DEF f, w
<1>10. Summands(f, d) /\ Summands(w, d)
  BY <1>9 DEF Summands
<1>11. SumFunctionOnSet(f, d) <= SumFunctionOnSet(w, d)
  BY <1>1, <1>9, <1>10, SumGrows
<1> QED BY <1>5, <1>7, <1>8, <1>11

(* The sum of a completion is an integer.                                  *)
LEMMA CompletionSumType ==
  ASSUME NEW A \in SUBSET DOMAIN Card, NEW units, NEW attr,
         NEW E, IsEntries(E, A, units, attr),
         NEW pos \in Nat, pos >= 1, NEW used, NEW n \in Nat
  PROVE  CompletionSum(E, pos, used, n) \in Int
<1> DEFINE I == FirstEntries(E, pos, used)
           C == Completion(E, pos, used, n)
           g == [i \in C |-> E[i].power]
<1>1. I \in SUBSET (1..Len(E)) /\ I \in SUBSET Int /\ IsFiniteSet(I)
      /\ \A i \in 1..Len(E) : E[i].power \in Nat
  BY FirstEntriesFacts
<1>2. AreSmallest(I, n, C)
  BY Zenon DEF AreSmallest, Completion, SmallestOf, FirstEntries
<1>3. CompletionSum(E, pos, used, n) = SumFunctionOnSet(g, C)
  BY Zenon DEF CompletionSum, SumFunction
<1>4. \A i \in C : g[i] = E[i].power
  OBVIOUS
<1> HIDE DEF I, C, g
<1>5. C \in SUBSET I /\ IsFiniteSet(C)
  BY <1>1, <1>2, SmallestProperties
<1>6. Summands(g, C)
  BY <1>1, <1>4, <1>5 DEF Summands
<1> QED BY <1>3, <1>5, <1>6, SumType

\* s is a scenario of the pool with its entries and its ceiling.
IsScenario(p, s) ==
  /\ s.entries = Entries(p, s.units, s.attr)
  /\ s.ceiling = CompletionSum(s.entries, 1, {}, DeckSize)

\* A sequence of scenarios that holds the own scenario of every legal deck.
AreScenarios(p, Q) ==
  /\ Len(Q) \in Nat
  /\ \A i \in 1..Len(Q) : IsScenario(p, Q[i])
  /\ \A d \in LegalDecks(p) : \E i \in 1..Len(Q) : OwnScenario(Q[i], d)

Attrs(p) == {NoAttr} \cup {Card[c].attr : c \in p}

ScenarioOf(p, u, a) ==
  [units |-> u, attr |-> a, entries |-> Entries(p, u, a),
   ceiling |-> CompletionSum(Entries(p, u, a), 1, {}, DeckSize)]

\* The scenarios that some deck may have.
Listed(p) ==
  {ScenarioOf(p, q[1], q[2]) :
     q \in {q \in UnitSets(p) \X Attrs(p) : Feasible(Entries(p, q[1], q[2]), 1, {}, DeckSize)}}

(* The feasible scenarios are finitely many, and each is a scenario of     *)
(* the pool with an integer ceiling.                                       *)
LEMMA ListedFacts ==
  ASSUME NEW p \in Pools
  PROVE  /\ IsFiniteSet(Listed(p))
         /\ \A s \in Listed(p) : IsScenario(p, s) /\ s.ceiling \in Int
<1> DEFINE K == UnitSets(p) \X Attrs(p)
           T == {ScenarioOf(p, q[1], q[2]) : q \in K}
           f == [q \in K |-> ScenarioOf(p, q[1], q[2])]
<1>1. IsFiniteSet(UnitSets(p))
  <2>1. UnitSets(p) \in SUBSET SUBSET (0..VS)
    BY DEF UnitSets
  <2>2. IsFiniteSet(0..VS)
    <3>1. VS \in Nat  BY DEF VS
    <3> QED BY <3>1, FS_Interval
  <2>3. IsFiniteSet(SUBSET (0..VS))
    BY <2>2, FS_SUBSET
  <2> QED BY <2>1, <2>3, FS_Subset
<1>2. IsFiniteSet(Attrs(p))
  <2> DEFINE g == [c \in p |-> Card[c].attr]
             B == {Card[c].attr : c \in p}
  <2>1. g \in Surjection(p, B)
    BY Zenon DEF Surjection
  <2>2. Attrs(p) = B \cup {NoAttr}
    BY DEF Attrs
  <2> HIDE DEF g, B
  <2>3. IsFiniteSet(B)
    BY <2>1, PowerSearchAssumption, FS_Surjection
  <2> QED BY <2>2, <2>3, FS_AddElement
<1>3. IsFiniteSet(T)
  <2>1. f \in Surjection(K, T)
    BY Zenon DEF Surjection
  <2>2. IsFiniteSet(K)
    BY <1>1, <1>2, FS_Product
  <2> HIDE DEF f, K, T
  <2> QED BY <2>1, <2>2, FS_Surjection
<1>4. Listed(p) \in SUBSET T
  BY DEF Listed
<1>5. IsFiniteSet(Listed(p))
  <2> HIDE DEF T
  <2> QED BY <1>3, <1>4, FS_Subset
<1>6. ASSUME NEW s \in Listed(p) PROVE IsScenario(p, s) /\ s.ceiling \in Int
  <2>1. PICK q \in K : s = ScenarioOf(p, q[1], q[2])
    BY <1>4
  <2>2. /\ s.units = q[1] /\ s.attr = q[2] /\ s.entries = Entries(p, q[1], q[2])
        /\ s.ceiling = CompletionSum(Entries(p, q[1], q[2]), 1, {}, DeckSize)
    BY <2>1 DEF ScenarioOf
  <2>3. IsEntries(s.entries, Admitted(p, s.units, s.attr), s.units, s.attr)
    BY <2>2, EntriesProperties
  <2>4. Admitted(p, s.units, s.attr) \in SUBSET DOMAIN Card
    BY PowerSearchAssumption DEF Admitted
  <2>5. s.ceiling \in Int
    BY <2>2, <2>3, <2>4, DeckSizeFacts, CompletionSumType
  <2> QED BY <2>2, <2>5 DEF IsScenario
<1> QED BY <1>5, <1>6

(* What a legal deck's members share is a scenario of the pool, in which    *)
(* they are a completion.                                                  *)
LEMMA OwnScenarioListed ==
  ASSUME NEW p \in Pools, NEW d \in LegalDecks(p)
  PROVE  \E s \in Listed(p) : OwnScenario(s, d)
<1> DEFINE comp == Composition(d)
           u == comp.units
<1>1. /\ d \in SUBSET p /\ d \in SUBSET DOMAIN Card
      /\ IsFiniteSet(d) /\ Cardinality(d) = DeckSize /\ Distinct(d)
  BY LegalDeckFacts
<1>2. /\ u = {v \in 0..VS : \A c \in d : v \in Card[c].units}
      /\ comp.attr <=> Cardinality({Card[c].attr : c \in d}) = 1
  BY <1>1 DEF Composition
<1>3. PICK c0 \in d : TRUE
  <2>1. d # {}
    <3> SUFFICES ASSUME d = {} PROVE FALSE  OBVIOUS
    <3>1. Cardinality(d) = 0  BY FS_EmptySet
    <3> QED BY <3>1, <1>1, DeckSizeFacts
  <2> QED BY <2>1
<1>4. u \in UnitSets(p)
  <2> DEFINE M == {Card[c].units : c \in d}
             masks == {Card[c].units : c \in p}
  <2>1. M \in (SUBSET masks) \ {{}}
    BY <1>1, <1>3
  <2>2. u = {v \in 0..VS : \A m \in M : v \in m}
    BY <1>2
  <2>3. u \in {{v \in 0..VS : \A m \in N : v \in m} : N \in (SUBSET masks) \ {{}}}
    BY <2>1, <2>2, Zenon
  <2> QED BY <2>3 DEF UnitSets
<1>5. PICK a \in Attrs(p) : (a # NoAttr <=> comp.attr) /\ \A c \in d : a \in {NoAttr, Card[c].attr}
  <2>1. CASE comp.attr
    <3> DEFINE B == {Card[c].attr : c \in d}
               a == Card[c0].attr
    <3>1. PICK x : B = {x}
      <4>1. Cardinality(B) = 1  BY <2>1, <1>2
      <4>2. IsFiniteSet(B)
        <5> DEFINE g == [c \in d |-> Card[c].attr]
        <5>1. g \in Surjection(d, B)
          BY Zenon DEF Surjection
        <5> HIDE DEF g, B
        <5> QED BY <5>1, <1>1, FS_Surjection
      <4> HIDE DEF B
      <4> QED BY <4>1, <4>2, FS_Singleton
    <3>2. \A c \in d : Card[c].attr = a
      BY <3>1, <1>3
    <3>3. a \in Attrs(p) /\ a # NoAttr
      BY <1>1, <1>3, CardFacts DEF Attrs
    <3> QED BY <3>2, <3>3, <2>1
  <2>2. CASE ~comp.attr
    BY <2>2 DEF Attrs
  <2> QED BY <2>1, <2>2
<1> DEFINE s == ScenarioOf(p, u, a)
<1>6. s.units = u /\ s.attr = a /\ s.entries = Entries(p, u, a)
  BY DEF ScenarioOf
<1>7. OwnScenario(s, d)
  <2> HIDE DEF s
  <2> QED BY <1>5, <1>6, Zenon DEF OwnScenario
<1>8. Feasible(Entries(p, u, a), 1, {}, DeckSize)
  <2> DEFINE A == Admitted(p, u, a)
             E == Entries(p, u, a)
  <2>1. IsEntries(E, A, u, a)  BY EntriesProperties
  <2>2. d \in SUBSET A  BY <1>6, <1>7, OwnScenarioBounds
  <2>3. A \in SUBSET DOMAIN Card
    BY PowerSearchAssumption DEF Admitted
  <2> HIDE DEF A, E, u, comp
  <2>4. Remaining(E, 1, {}, d)
    BY <2>1, <2>2 DEF Remaining, IsEntries
  <2>6. 1 \in Nat /\ 1 >= 1  OBVIOUS
  <2>5. Feasible(E, 1, {}, DeckSize)
    BY <1>1, <2>1, <2>2, <2>3, <2>4, <2>6, BestCompletion
  <2> QED BY <2>5 DEF E
<1>9. s \in Listed(p)
  <2>1. <<u, a>> \in UnitSets(p) \X Attrs(p)  BY <1>4, <1>5
  <2> DEFINE q == <<u, a>>
  <2>2. q[1] = u /\ q[2] = a  OBVIOUS
  <2> HIDE DEF u, q
  <2>3. q \in UnitSets(p) \X Attrs(p)  BY <2>1 DEF q
  <2>4. s = ScenarioOf(p, q[1], q[2]) /\ Feasible(Entries(p, q[1], q[2]), 1, {}, DeckSize)
    BY <2>2, <1>8
  <2> QED BY <2>3, <2>4, Zenon DEF Listed
<1> QED BY <1>7, <1>9

(* The scenarios the builder keeps are the feasible ones.                  *)
LEMMA SameListed ==
  ASSUME NEW p PROVE FeasibleScenarios(p) = Listed(p)
<1> DEFINE Short(u, a) == [units |-> u, attr |-> a, entries |-> Entries(p, u, a)]
           Long(s) == [units |-> s.units, attr |-> s.attr, entries |-> s.entries,
                       ceiling |-> CompletionSum(s.entries, 1, {}, DeckSize)]
           Some(s) == Feasible(s.entries, 1, {}, DeckSize)
           K == UnitSets(p) \X Attrs(p)
<1>1. \A u, a : /\ Long(Short(u, a)) = ScenarioOf(p, u, a)
                /\ Some(Short(u, a)) <=> Feasible(Entries(p, u, a), 1, {}, DeckSize)
  <2> SUFFICES ASSUME NEW u, NEW a
               PROVE  /\ Long(Short(u, a)) = ScenarioOf(p, u, a)
                      /\ Some(Short(u, a)) <=> Feasible(Entries(p, u, a), 1, {}, DeckSize)
    OBVIOUS
  <2> DEFINE s == Short(u, a)
  <2>1. s.units = u /\ s.attr = a /\ s.entries = Entries(p, u, a)  OBVIOUS
  <2> HIDE DEF s
  <2>2. Long(s) = ScenarioOf(p, u, a)
    BY <2>1 DEF ScenarioOf
  <2>3. Some(s) <=> Feasible(Entries(p, u, a), 1, {}, DeckSize)
    BY <2>1
  <2> QED BY <2>2, <2>3 DEF s
<1>2. /\ \A x \in FeasibleScenarios(p) :
           \E u \in UnitSets(p), a \in Attrs(p) : Some(Short(u, a)) /\ x = Long(Short(u, a))
      /\ \A u \in UnitSets(p), a \in Attrs(p) :
           Some(Short(u, a)) => Long(Short(u, a)) \in FeasibleScenarios(p)
  <2>1. /\ \A s \in AllScenarios(p) : \E u \in UnitSets(p), a \in Attrs(p) : s = Short(u, a)
        /\ \A u \in UnitSets(p), a \in Attrs(p) : Short(u, a) \in AllScenarios(p)
    BY SMT DEF AllScenarios, Attrs
  <2> HIDE DEF Short
  <2>2. /\ \A x \in FeasibleScenarios(p) : \E s \in AllScenarios(p) : Some(s) /\ x = Long(s)
        /\ \A s \in AllScenarios(p) : Some(s) => Long(s) \in FeasibleScenarios(p)
    BY Zenon DEF FeasibleScenarios
  <2> HIDE DEF Some, Long
  <2> QED BY <2>1, <2>2
<1>3. /\ \A x \in Listed(p) :
           \E u \in UnitSets(p), a \in Attrs(p) :
             Feasible(Entries(p, u, a), 1, {}, DeckSize) /\ x = ScenarioOf(p, u, a)
      /\ \A u \in UnitSets(p), a \in Attrs(p) :
           Feasible(Entries(p, u, a), 1, {}, DeckSize) => ScenarioOf(p, u, a) \in Listed(p)
  <2>1. ASSUME NEW x \in Listed(p)
        PROVE  \E u \in UnitSets(p), a \in Attrs(p) :
                 Feasible(Entries(p, u, a), 1, {}, DeckSize) /\ x = ScenarioOf(p, u, a)
    <3>1. PICK q \in K : /\ Feasible(Entries(p, q[1], q[2]), 1, {}, DeckSize)
                         /\ x = ScenarioOf(p, q[1], q[2])
      BY Zenon DEF Listed
    <3>2. q[1] \in UnitSets(p) /\ q[2] \in Attrs(p)  OBVIOUS
    <3> QED BY <3>1, <3>2
  <2>2. ASSUME NEW u \in UnitSets(p), NEW a \in Attrs(p),
               Feasible(Entries(p, u, a), 1, {}, DeckSize)
        PROVE  ScenarioOf(p, u, a) \in Listed(p)
    <3> DEFINE q == <<u, a>>
    <3>1. q \in K /\ q[1] = u /\ q[2] = a  OBVIOUS
    <3> HIDE DEF q
    <3>2. ScenarioOf(p, u, a) = ScenarioOf(p, q[1], q[2])
          /\ Feasible(Entries(p, q[1], q[2]), 1, {}, DeckSize)
      BY <3>1, <2>2
    <3> QED BY <3>1, <3>2, Zenon DEF Listed
  <2> QED BY <2>1, <2>2
<1> HIDE DEF Short, Long, Some
<1>4. FeasibleScenarios(p) \subseteq Listed(p)
  BY <1>1, <1>2, <1>3
<1>5. Listed(p) \subseteq FeasibleScenarios(p)
  BY <1>1, <1>2, <1>3
<1> QED BY <1>4, <1>5

(* BuildScenarios gives every legal deck its own scenario.                 *)
LEMMA ScenariosProperties ==
  ASSUME NEW p \in Pools
  PROVE  AreScenarios(p, BuildScenarios(p))
<1> DEFINE T == Listed(p)
           n == Cardinality(T)
           listed == SetToSeq(T)
           S == 1..n
           order == SortedBy(DOMAIN listed,
                      LAMBDA i, j : \/ listed[i].ceiling > listed[j].ceiling
                                    \/ listed[i].ceiling = listed[j].ceiling /\ i < j)
           Q == [k \in DOMAIN listed |-> listed[order[k]]]
<1>1. BuildScenarios(p) = Q
  <2>1. FeasibleScenarios(p) = T  BY SameListed
  <2>2. SetToSeq(FeasibleScenarios(p)) = listed
    BY <2>1, Zenon
  <2> DEFINE R(l) == [k \in DOMAIN l |->
                        l[SortedBy(DOMAIN l,
                             LAMBDA i, j : \/ l[i].ceiling > l[j].ceiling
                                           \/ l[i].ceiling = l[j].ceiling /\ i < j)[k]]]
  <2>3. BuildScenarios(p) = R(SetToSeq(FeasibleScenarios(p)))
    BY Zenon DEF BuildScenarios
  <2> HIDE DEF T, listed
  <2>4. Q = R(listed)
    BY Zenon
  <2> HIDE DEF R, Q
  <2> QED BY <2>2, <2>3, <2>4
<1>2. /\ n \in Nat /\ listed \in [S -> T] /\ \A x \in T : \E i \in S : listed[i] = x
      /\ \A s \in T : IsScenario(p, s) /\ s.ceiling \in Int
      /\ IsFiniteSet(S) /\ Cardinality(S) = n
  <2>1. IsFiniteSet(T) /\ \A s \in T : IsScenario(p, s) /\ s.ceiling \in Int
    BY ListedFacts
  <2> HIDE DEF T
  <2>2. n \in Nat /\ listed \in [S -> T] /\ \A x \in T : \E i \in S : listed[i] = x
    BY <2>1, SetToSeqProperties
  <2> HIDE DEF n
  <2> QED BY <2>1, <2>2, FS_Interval
<1>3. order = SortedBy(S, LAMBDA i, j : \/ listed[i].ceiling > listed[j].ceiling
                                        \/ listed[i].ceiling = listed[j].ceiling /\ i < j)
  <2>1. DOMAIN listed = S  BY <1>2
  <2> QED BY <2>1, Zenon
<1>4. Q = [k \in S |-> listed[order[k]]]
  <2>1. DOMAIN listed = S  BY <1>2
  <2> QED BY <2>1, Zenon
<1> HIDE DEF listed, T, n
<1> DEFINE Before(i, j) == \/ listed[i].ceiling > listed[j].ceiling
                           \/ listed[i].ceiling = listed[j].ceiling /\ i < j
           Weight(x) == Cardinality({y \in S :
                           \/ listed[y].ceiling > listed[x].ceiling
                           \/ listed[y].ceiling = listed[x].ceiling /\ y < x})
           L == {q \in S \X S : Before(q[1], q[2])}
           o == [i \in 1..n |-> CHOOSE x \in S : Weight(x) = i - 1]
<1>5. \A x, y \in S : <<x, y>> \in L <=> Before(x, y)
  OBVIOUS
<1>6. \A x \in S : x \in Nat /\ listed[x].ceiling \in Int
  BY <1>2
<1>7. order = SubSeq(o, 1, Cardinality(S))
  <2>1. order = SubSeq([i \in 1..Cardinality(S) |-> CHOOSE x \in S : Weight(x) = i - 1],
                       1, Cardinality(S))
    BY <1>3, Zenon DEF SortedBy
  <2> HIDE DEF Weight
  <2> QED BY <2>1, <1>2, Zenon
<1> HIDE DEF order, S, L
<1>8. Orders(L, S)
  <2>1. \A x \in S : <<x, x>> \notin L
    BY <1>5, <1>6
  <2>2. \A x, y, z \in S : <<x, y>> \in L /\ <<y, z>> \in L => <<x, z>> \in L
    BY <1>5, <1>6
  <2>3. \A x, y \in S : <<x, y>> \in L \/ <<y, x>> \in L \/ x = y
    <3> SUFFICES ASSUME NEW x \in S, NEW y \in S PROVE Before(x, y) \/ Before(y, x) \/ x = y
      BY <1>5
    <3> DEFINE a == listed[x].ceiling  b == listed[y].ceiling
    <3>1. a \in Int /\ b \in Int /\ x \in Nat /\ y \in Nat  BY <1>6
    <3>2. /\ Before(x, y) <=> (a > b \/ (a = b /\ x < y))
          /\ Before(y, x) <=> (b > a \/ (b = a /\ y < x))
      BY Zenon
    <3> HIDE DEF a, b, Before
    <3> QED BY <3>1, <3>2
  <2> QED BY <2>1, <2>2, <2>3 DEF Orders
<1>9. \A x \in S : RankIn(L, S, x) = Weight(x)
  <2> SUFFICES ASSUME NEW x \in S PROVE RankIn(L, S, x) = Weight(x)
    OBVIOUS
  <2>1. {y \in S : <<y, x>> \in L} =
          {y \in S : \/ listed[y].ceiling > listed[x].ceiling
                     \/ listed[y].ceiling = listed[x].ceiling /\ y < x}
    BY <1>5, Zenon
  <2> QED BY <2>1, Zenon DEF RankIn
<1> HIDE DEF Weight, Before
<1>10. \A i \in 0..n - 1 : \E x \in S : RankIn(L, S, x) = i
  BY <1>2, <1>8, Ranks
<1>11. \A i \in 1..n : \E x \in S : Weight(x) = i - 1
  <2> SUFFICES ASSUME NEW i \in 1..n PROVE \E x \in S : Weight(x) = i - 1
    OBVIOUS
  <2>1. i - 1 \in 0..n - 1  BY <1>2
  <2> QED BY <2>1, <1>9, <1>10
<1>12. \A i \in 1..n : /\ (CHOOSE x \in S : Weight(x) = i - 1) \in S
                       /\ Weight(CHOOSE x \in S : Weight(x) = i - 1) = i - 1
  BY <1>11, Zenon
<1>13. o \in [1..n -> S] /\ \A i \in 1..n : Weight(o[i]) = i - 1
  BY <1>12, Zenon
<1> HIDE DEF o
<1>14. GivesRanks(L, S, o)
  BY <1>2, <1>9, <1>13 DEF GivesRanks
<1>15. Lists(L, S, order)
  BY <1>2, <1>7, <1>8, <1>14, SortedByRank
<1>16. /\ order \in Seq(S) /\ Len(order) = n
       /\ \A x \in S : \E i \in 1..n : order[i] = x
  BY <1>2, <1>15 DEF Lists
<1>17. \A k \in S : order[k] \in S /\ listed[order[k]] \in T
  <2> SUFFICES ASSUME NEW k \in S PROVE order[k] \in S /\ listed[order[k]] \in T
    OBVIOUS
  <2>1. k \in 1..Len(order)  BY <1>16 DEF S
  <2>2. order[k] \in S  BY <2>1, <1>16, ElementOfSeq
  <2> QED BY <2>2, <1>2
<1> DEFINE F == [k \in S |-> listed[order[k]]]
<1>18. F \in Seq(T) /\ Len(F) = n
  <2>1. F \in [1..n -> T]  BY <1>17 DEF S
  <2> HIDE DEF F
  <2>2. F \in Seq(T)  BY <2>1, <1>2, SeqDef
  <2>3. Len(F) \in Nat /\ DOMAIN F = 1..Len(F) /\ DOMAIN F = 1..n
    BY <2>1, <2>2, LenProperties
  <2> DEFINE m == Len(F)
  <2>4. m \in Nat /\ 1..m = 1..n  BY <2>3
  <2> HIDE DEF m
  <2>5. m = n
    <3>1. m = 0 \/ m \in 1..m  BY <2>4
    <3>2. n = 0 \/ n \in 1..n  BY <1>2
    <3>3. (m = 0 \/ m \in 1..n) /\ (n = 0 \/ n \in 1..m)  BY <3>1, <3>2, <2>4, Zenon
    <3> QED BY <3>3, <2>4, <1>2
  <2> QED BY <2>2, <2>5 DEF m
<1>19. \A i \in 1..n : i \in S /\ F[i] = listed[order[i]]
  BY DEF S
<1> HIDE DEF F
<1>20. \A i \in 1..n : IsScenario(p, F[i])
  BY <1>2, <1>17, <1>19
<1>21. \A d \in LegalDecks(p) : \E i \in 1..n : OwnScenario(F[i], d)
  <2> SUFFICES ASSUME NEW d \in LegalDecks(p) PROVE \E i \in 1..n : OwnScenario(F[i], d)
    OBVIOUS
  <2>1. PICK s \in T : OwnScenario(s, d)  BY OwnScenarioListed DEF T
  <2>2. PICK k \in S : listed[k] = s  BY <1>2
  <2>3. PICK i \in 1..n : order[i] = k  BY <1>16
  <2>4. F[i] = s  BY <1>19, <2>2, <2>3
  <2> QED BY <2>1, <2>4
<1>22. AreScenarios(p, F)
  BY <1>2, <1>18, <1>20, <1>21 DEF AreScenarios
<1>23. BuildScenarios(p) = F
  BY <1>1, <1>4, Zenon DEF F
<1> QED BY <1>22, <1>23

-----------------------------------------------------------------------------
(* Pruning.                                                                  *)

Chars(P) == {Card[c].char : c \in P}

\* Deck d contains P and its other members are listed from position pos on.
Open(s, d, P, pos) ==
  /\ P \in SUBSET d
  /\ \A r \in d \ P : \E i \in pos..Len(s.entries) : s.entries[i].card = r

\* What is left of an open deck.
LEMMA OpenFacts ==
  ASSUME NEW p \in Pools, NEW d \in LegalDecks(p),
         NEW s, IsScenario(p, s), OwnScenario(s, d),
         NEW P, NEW pos \in Nat, pos >= 1, Open(s, d, P, pos),
         NEW R, R = d \ P
  PROVE  LET A == Admitted(p, s.units, s.attr) IN
         /\ A \in SUBSET DOMAIN Card
         /\ IsEntries(s.entries, A, s.units, s.attr)
         /\ R \in SUBSET A /\ IsFiniteSet(R) /\ Distinct(R)
         /\ Remaining(s.entries, pos, Chars(P), R)
         /\ P \in SUBSET A /\ IsFiniteSet(P) /\ Distinct(P)
         /\ Cardinality(R) = DeckSize - Cardinality(P)
         /\ Cardinality(P) \in Nat /\ Cardinality(R) \in Nat
<1> DEFINE A == Admitted(p, s.units, s.attr)
<1>1. /\ d \in SUBSET p /\ d \in SUBSET DOMAIN Card /\ IsFiniteSet(d)
      /\ Cardinality(d) = DeckSize /\ Distinct(d)
  BY LegalDeckFacts
<1>2. d \in SUBSET A  BY OwnScenarioBounds
<1>3. A \in SUBSET DOMAIN Card  BY PowerSearchAssumption DEF Admitted
<1>4. IsEntries(s.entries, A, s.units, s.attr)
  <2>1. s.entries = Entries(p, s.units, s.attr)  BY DEF IsScenario
  <2> QED BY <2>1, EntriesProperties
<1>5. P \in SUBSET d  BY DEF Open
<1>6. IsFiniteSet(P) /\ IsFiniteSet(R)  BY <1>1, <1>5, FS_Subset
<1>7. Distinct(P) /\ Distinct(R)  BY <1>1, <1>5 DEF Distinct
<1>8. Remaining(s.entries, pos, Chars(P), R)
  <2> SUFFICES ASSUME NEW r \in R
               PROVE  /\ Card[r].char \notin Chars(P)
                      /\ \E i \in pos..Len(s.entries) : s.entries[i].card = r
    BY DEF Remaining
  <2>1. \E i \in pos..Len(s.entries) : s.entries[i].card = r  BY DEF Open
  <2>2. \A c \in P : Card[r].char # Card[c].char
    BY <1>1, <1>5 DEF Distinct
  <2> QED BY <2>1, <2>2 DEF Chars
<1>9. /\ Cardinality(R) = DeckSize - Cardinality(P)
      /\ Cardinality(P) \in Nat /\ Cardinality(R) \in Nat
  <2>1. P \cap R = {} /\ P \cup R = d  BY <1>5
  <2>2. IsFiniteSet(R)  BY <1>6
  <2>3. Cardinality(P \cup R) = Cardinality(P) + Cardinality(R) - Cardinality(P \cap R)
    BY <1>6, <2>2, FS_Union
  <2>4. Cardinality({}) = 0  BY FS_EmptySet
  <2>5. Cardinality(P) \in Nat /\ Cardinality(R) \in Nat  BY <1>6, <2>2, FS_CardinalityType
  <2>6. DeckSize = Cardinality(P) + Cardinality(R) - 0  BY <1>1, <2>1, <2>3, <2>4
  <2>7. Cardinality(R) = DeckSize - Cardinality(P)  BY <2>5, <2>6, DeckSizeFacts
  <2> QED BY <2>5, <2>7
<1> QED BY <1>2, <1>3, <1>4, <1>5, <1>6, <1>7, <1>8, <1>9

(* The bound of a call holds for every deck still open in it, and a deck    *)
(* that reaches it is completed with no entry below the least power.       *)
LEMMA BoundHolds ==
  ASSUME NEW p \in Pools, NEW d \in LegalDecks(p),
         NEW s, IsScenario(p, s), OwnScenario(s, d),
         NEW P, NEW pos \in Nat, pos >= 1, Open(s, d, P, pos),
         NEW n, n = DeckSize - Cardinality(P),
         NEW bound,
         bound = ScenarioSum(P, s.units, s.attr)
                   + CompletionSum(s.entries, pos, Chars(P), n)
  PROVE  /\ Feasible(s.entries, pos, Chars(P), n)
         /\ bound \in Int /\ TotalPower(d) <= bound
         /\ TotalPower(d) = bound =>
              \A r \in d \ P : ScenarioPower(r, s.units, s.attr # NoAttr)
                                 >= Least(s.entries, pos, Chars(P), n)
<1> DEFINE A == Admitted(p, s.units, s.attr)
           R == d \ P
           cs == CompletionSum(s.entries, pos, Chars(P), n)
           a == ScenarioSum(P, s.units, s.attr)
           b == ScenarioSum(R, s.units, s.attr)
           t == TotalPower(d)
           best == \A r \in R : ScenarioPower(r, s.units, s.attr # NoAttr)
                                 >= Least(s.entries, pos, Chars(P), n)
<1>1. /\ A \in SUBSET DOMAIN Card
      /\ IsEntries(s.entries, A, s.units, s.attr)
      /\ R \in SUBSET A /\ IsFiniteSet(R) /\ Distinct(R)
      /\ Remaining(s.entries, pos, Chars(P), R)
      /\ P \in SUBSET A /\ IsFiniteSet(P)
      /\ n = Cardinality(R)
  <2>1. R = d \ P  OBVIOUS
  <2> HIDE DEF R
  <2> QED BY <2>1, OpenFacts
<1>2. t \in Nat /\ t <= ScenarioSum(d, s.units, s.attr)
  BY EvaluatedFacts, OwnScenarioBounds
<1>3. ScenarioSum(d, s.units, s.attr) = a + b
  BY LegalDeckFacts, ScenarioSumSplit DEF Open
<1>4. a \in Nat /\ b \in Nat
  <2>1. P \in SUBSET DOMAIN Card /\ R \in SUBSET DOMAIN Card  BY <1>1
  <2> QED BY <1>1, <2>1, ScenarioSumType
<1>5. /\ Feasible(s.entries, pos, Chars(P), n) /\ cs \in Int /\ b <= cs
      /\ b = cs => best
  <2> HIDE DEF A, R
  <2> QED BY <1>1, BestCompletion
<1>6. bound = a + cs  OBVIOUS
<1> HIDE DEF A, R, cs, a, b, t, best
<1>7. bound \in Int /\ t <= bound /\ (t = bound => b = cs)
  BY <1>2, <1>3, <1>4, <1>5, <1>6
<1> QED BY <1>5, <1>7 DEF t, R, best

-----------------------------------------------------------------------------

\* The tracker holds k results of p's decks at most, in order.
IsTracker(p, k, s) ==
  /\ k \in Nat /\ k >= 1
  /\ s \in Seq(DeckResults(p)) /\ Len(s) <= k
  /\ Ranked(Ctx, s)

(* A full tracker's cutoff is its last score.                              *)
LEMMA CutoffIs ==
  ASSUME NEW p \in Pools, NEW d \in LegalDecks(p),
         IsTracker(p, topK, results), Full(topK, results)
  PROVE  /\ Len(results) = topK /\ topK \in 1..Len(results)
         /\ results[topK] \in DeckResults(p)
         /\ Cutoff = results[topK].score
         /\ Cutoff \in Nat /\ results[topK].set \in Nat
         /\ KeyLess(Ctx, results[topK], Evaluated(d)) <=>
              \/ TotalPower(d) + HonorBonus < Cutoff
              \/ TotalPower(d) + HonorBonus = Cutoff
                 /\ \/ results[topK].set < SetCode(Ids(d))
                    \/ results[topK].set = SetCode(Ids(d))
                       /\ results[topK].layout < ListCode(Slots(d))
<1> DEFINE k == Len(results)  r == results[topK]  R == DeckResults(p)
<1>1. k \in Nat /\ k <= topK /\ topK \in Nat /\ topK >= 1 /\ results \in Seq(R)
  BY DEF IsTracker
<1>2. k >= topK  BY DEF Full
<1>3. k = topK
  <2> HIDE DEF k
  <2> QED BY <1>1, <1>2
<1>4. topK \in 1..Len(results)
  <2>1. topK \in 1..topK  BY <1>1
  <2> QED BY <1>3, <2>1
<1>5. r \in R  BY <1>1, <1>4, ElementOfSeq
<1>6. r.score \in Nat /\ r.power \in Nat /\ r.set \in Nat /\ r.layout \in Nat
  BY <1>5, DeckResultSet DEF ResultSet, Keyed
<1>7. Cutoff = r.score
  <2>1. results[Len(results)] = r  BY <1>3
  <2>2. Cutoff = Larger(r.score, 0)
    BY <2>1, Zenon DEF Cutoff, Threshold
  <2> DEFINE v == r.score
  <2>3. v \in Nat  BY <1>6
  <2> HIDE DEF v
  <2>4. Larger(v, 0) = v  BY <2>3 DEF Larger
  <2> QED BY <2>2, <2>4 DEF v
<1> DEFINE e == Evaluated(d)
<1>8. /\ e.score = TotalPower(d) + HonorBonus /\ e.set = SetCode(Ids(d))
      /\ e.layout = ListCode(Slots(d)) /\ e.score \in Nat
  BY EvaluatedFacts, PowerSearchAssumption
<1>9. /\ Objective(Ctx, r) = -r.score /\ Objective(Ctx, e) = -e.score
      /\ ResolvedPower(Ctx, r) = 0 /\ ResolvedPower(Ctx, e) = 0
  BY DEF Objective, Minimizing, ResolvedPower, Ctx
<1> HIDE DEF r, e
<1>10. KeyLess(Ctx, r, e) <=>
         \/ e.score < r.score
         \/ e.score = r.score
            /\ \/ r.set < e.set
               \/ r.set = e.set /\ r.layout < e.layout
  <2> DEFINE x == r.score  y == e.score
  <2>1. KeyLess(Ctx, r, e) <=>
          \/ -x < -y
          \/ -x = -y /\ (r.set < e.set \/ (r.set = e.set /\ r.layout < e.layout))
    BY <1>9 DEF KeyLess
  <2>2. x \in Nat /\ y \in Nat  BY <1>6, <1>8 DEF r
  <2> HIDE DEF x, y
  <2>3. (-x < -y <=> y < x) /\ (-x = -y <=> y = x)  BY <2>2
  <2> QED BY <2>1, <2>3 DEF x, y
<1> QED BY <1>3, <1>4, <1>5, <1>6, <1>7, <1>8, <1>10 DEF r, e

(* A deck that cannot reach the cutoff is covered.                         *)
LEMMA BelowIsCovered ==
  ASSUME NEW p \in Pools, NEW d \in LegalDecks(p), IsTracker(p, topK, results),
         NEW bound \in Int, TotalPower(d) <= bound, BelowCutoff(bound)
  PROVE  Covers(Ctx, topK, results, Evaluated(d))
<1>1. Full(topK, results) /\ bound + HonorBonus < Cutoff  BY DEF BelowCutoff
<1>2. Cutoff \in Nat  BY <1>1, CutoffIs
<1>3. TotalPower(d) \in Nat /\ HonorBonus \in Nat
  BY EvaluatedFacts, PowerSearchAssumption
<1>4. TotalPower(d) + HonorBonus < Cutoff
  <2> DEFINE t == TotalPower(d)  c == Cutoff
  <2>1. t \in Nat /\ c \in Nat /\ t <= bound /\ bound + HonorBonus < c /\ HonorBonus \in Nat
    BY <1>1, <1>2, <1>3
  <2> HIDE DEF t, c
  <2>2. t + HonorBonus < c  BY <2>1
  <2> QED BY <2>2 DEF t, c
<1>5. KeyLess(Ctx, results[topK], Evaluated(d)) /\ Len(results) = topK
  BY <1>1, <1>4, CutoffIs
<1> QED BY <1>5 DEF Covers

(* A set of as many ids, of which as many or more are up to every number,  *)
(* comes no later among the lists.                                         *)
LEMMA SmallerCode ==
  ASSUME NEW A \in SUBSET Nat, IsFiniteSet(A), NEW B \in SUBSET Nat, IsFiniteSet(B),
         Cardinality(A) = Cardinality(B), Dominates(A, B)
  PROVE  /\ SetCode(A) \in Nat /\ SetCode(B) \in Nat
         /\ SetCode(A) <= SetCode(B)
<1> DEFINE x == Ascending(A)  y == Ascending(B)  n == Cardinality(A)
<1>1. A \in SUBSET Int /\ B \in SUBSET Int  OBVIOUS
<1>2. n \in Nat /\ x \in Seq(A) /\ y \in Seq(B) /\ Len(x) = n /\ Len(y) = n
  BY <1>1, AscendingProperties
<1>3. \A i \in 1..n : x[i] <= y[i]
  BY AscendingDominated
<1> HIDE DEF x, y, n
<1>4. x \in Seq(Nat) /\ y \in Seq(Nat)  BY <1>2, SeqOfMore
<1>5. CodeIn(IdBase, x) <= CodeIn(IdBase, y)
  <2>1. \A i \in 1..Len(x) : x[i] <= y[i]  BY <1>2, <1>3
  <2> QED BY <1>2, <1>4, <2>1, CodeGrows, PowerSearchAssumption
<1>6. SetCode(A) = ListCode(x) /\ SetCode(B) = ListCode(y)
  BY Zenon DEF SetCode, x, y
<1>7. ListCode(x) \in Nat /\ ListCode(y) \in Nat  BY <1>4, CodeType
<1> QED BY <1>5, <1>6, <1>7, ListCodeIsCode

\* The ids a completion that ties may take.
TieIds(E, selected, pos, used, least) ==
  {E[i].id : i \in {i \in pos..Len(E) : E[i].power >= least /\ E[i].char \notin used}}
    \ selected

(* The identifiers a tied completion chooses from are finitely many, and   *)
(* hold those of every completion at the least power.                      *)
LEMMA TieIdsFacts ==
  ASSUME NEW A \in SUBSET DOMAIN Card, NEW units, NEW attr,
         NEW E, IsEntries(E, A, units, attr),
         NEW pos \in Nat, pos >= 1, NEW selected, NEW used, NEW least,
         NEW R \in SUBSET A, Remaining(E, pos, used, R), Ids(R) \cap selected = {},
         \A r \in R : ScenarioPower(r, units, attr # NoAttr) >= least
  PROVE  /\ TieIds(E, selected, pos, used, least) \in SUBSET Nat
         /\ IsFiniteSet(TieIds(E, selected, pos, used, least))
         /\ Ids(R) \in SUBSET TieIds(E, selected, pos, used, least)
<1> DEFINE J == {i \in pos..Len(E) : E[i].power >= least /\ E[i].char \notin used}
           K == {E[i].id : i \in J}
<1>1. TieIds(E, selected, pos, used, least) = K \ selected  BY Zenon DEF TieIds
<1>2. Len(E) \in Nat /\ \A i \in pos..Len(E) : i \in 1..Len(E)
  BY DEF IsEntries
<1>3. \A i \in 1..Len(E) : /\ E[i].card \in A /\ E[i].id = Card[E[i].card].id
                           /\ E[i].id \in Nat
                           /\ E[i].char = Card[E[i].card].char
                           /\ E[i].power = ScenarioPower(E[i].card, units, attr # NoAttr)
  <2> SUFFICES ASSUME NEW i \in 1..Len(E)
               PROVE  /\ E[i].card \in A /\ E[i].id = Card[E[i].card].id
                      /\ E[i].id \in Nat
                      /\ E[i].char = Card[E[i].card].char
                      /\ E[i].power = ScenarioPower(E[i].card, units, attr # NoAttr)
    OBVIOUS
  <2> DEFINE c == E[i].card
  <2>1. c \in A /\ E[i] = EntryOf(c, units, attr)  BY DEF IsEntries
  <2> HIDE DEF c
  <2>2. c \in DOMAIN Card  BY <2>1
  <2>3. /\ E[i].id = Card[c].id /\ E[i].id \in Nat /\ E[i].char = Card[c].char
        /\ E[i].power = ScenarioPower(c, units, attr # NoAttr)
    BY <2>1, <2>2, EntryFacts
  <2> QED BY <2>1, <2>3 DEF c
<1>4. IsFiniteSet(K)
  <2>1. IsFiniteSet(pos..Len(E))  BY <1>2, FS_Interval
  <2>2. J \in SUBSET (pos..Len(E))  OBVIOUS
  <2> HIDE DEF J
  <2>3. IsFiniteSet(J)  BY <2>1, <2>2, FS_Subset
  <2> DEFINE g == [i \in J |-> E[i].id]
  <2>4. g \in Surjection(J, K)  BY Zenon DEF Surjection
  <2> HIDE DEF g, K
  <2> QED BY <2>3, <2>4, FS_Surjection
<1>5. K \in SUBSET Nat
  BY <1>2, <1>3
<1>6. Ids(R) \in SUBSET K
  <2> SUFFICES ASSUME NEW r \in R PROVE Card[r].id \in K
    BY DEF Ids
  <2>1. Card[r].char \notin used /\ \E i \in pos..Len(E) : E[i].card = r
    BY DEF Remaining
  <2>2. PICK i \in pos..Len(E) : E[i].card = r  BY <2>1
  <2>3. /\ E[i].id = Card[r].id /\ E[i].char = Card[r].char
        /\ E[i].power = ScenarioPower(r, units, attr # NoAttr)
    BY <1>2, <1>3, <2>2
  <2>4. i \in J  BY <2>1, <2>3
  <2> QED BY <2>3, <2>4
<1> HIDE DEF K
<1>7. IsFiniteSet(K \ selected)  BY <1>4, FS_Subset
<1> QED BY <1>1, <1>5, <1>6, <1>7

(* A deck that ties the cutoff but is ruled out by the public-id test is   *)
(* covered.                                                                *)
LEMMA TieIsCovered ==
  ASSUME NEW p \in Pools, NEW d \in LegalDecks(p), IsTracker(p, topK, results),
         NEW s, IsScenario(p, s), OwnScenario(s, d),
         NEW P, NEW pos \in Nat, pos >= 1, Open(s, d, P, pos),
         NEW n, n = DeckSize - Cardinality(P),
         NEW bound,
         bound = ScenarioSum(P, s.units, s.attr)
                   + CompletionSum(s.entries, pos, Chars(P), n),
         TieCannotEnter(s.entries, Ids(P), pos, Chars(P), bound, n)
  PROVE  Covers(Ctx, topK, results, Evaluated(d))
<1> DEFINE A == Admitted(p, s.units, s.attr)
           R == d \ P
           E == s.entries
           t == TotalPower(d)
           least == Least(E, pos, Chars(P), n)
           ids == TieIds(E, Ids(P), pos, Chars(P), least)
           C == SmallestOf(ids, n)
           L == results[topK]
<1>1. bound \in Int /\ t <= bound
      /\ (t = bound => \A r \in R : ScenarioPower(r, s.units, s.attr # NoAttr) >= least)
  BY BoundHolds
<1>2. /\ Full(topK, results) /\ bound + HonorBonus = Cutoff
      /\ Cardinality(ids) < n \/ SetCode(Ids(P) \cup C) > results[Len(results)].set
  BY Zenon DEF TieCannotEnter, TieIds
<1>3. Cutoff \in Nat /\ Len(results) = topK /\ L.set \in Nat
  BY <1>2, CutoffIs
<1>4. t \in Nat /\ HonorBonus \in Nat /\ SetCode(Ids(d)) \in Nat
  BY EvaluatedFacts, PowerSearchAssumption
<1>5. CASE t # bound
  <2>1. t + HonorBonus < Cutoff
    <3> DEFINE c == Cutoff
    <3>1. c \in Nat /\ bound + HonorBonus = c  BY <1>2, <1>3
    <3> HIDE DEF c, t
    <3>2. t + HonorBonus < c  BY <1>1, <1>4, <1>5, <3>1
    <3> QED BY <3>2 DEF c
  <2>2. KeyLess(Ctx, L, Evaluated(d))  BY <1>2, <2>1, CutoffIs
  <2> QED BY <1>3, <2>2 DEF Covers
<1>6. CASE t = bound
  <2>1. R = d \ P  OBVIOUS
  <2>2. /\ A \in SUBSET DOMAIN Card /\ IsEntries(E, A, s.units, s.attr)
        /\ R \in SUBSET A /\ IsFiniteSet(R) /\ Distinct(R)
        /\ Remaining(E, pos, Chars(P), R)
        /\ P \in SUBSET A /\ IsFiniteSet(P) /\ Distinct(P)
        /\ n = Cardinality(R) /\ n \in Nat
    <3> HIDE DEF R
    <3> QED BY <2>1, OpenFacts
  <2>3. /\ d \in SUBSET DOMAIN Card /\ IsFiniteSet(d) /\ Distinct(d)
    BY LegalDeckFacts
  <2>4. P \in SUBSET d  BY DEF Open
  <2>5. Ids(R) \cap Ids(P) = {}
    BY <2>3, <2>4 DEF Distinct, Ids
  <2>6. Ids(P) \cup Ids(R) = Ids(d)
    BY <2>4 DEF Ids
  <2>7. /\ Ids(P) \in SUBSET Nat /\ IsFiniteSet(Ids(P))
        /\ Ids(R) \in SUBSET Nat /\ IsFiniteSet(Ids(R)) /\ Cardinality(Ids(R)) = n
        /\ Ids(d) \in SUBSET Nat /\ IsFiniteSet(Ids(d))
    <3>1. P \in SUBSET DOMAIN Card /\ R \in SUBSET DOMAIN Card  BY <2>2
    <3> HIDE DEF R
    <3> QED BY <2>2, <2>3, <3>1, IdsFacts
  <2>8. \A r \in R : ScenarioPower(r, s.units, s.attr # NoAttr) >= least
    BY <1>1, <1>6
  <2> HIDE DEF R, A, E, least
  <2>9. ids \in SUBSET Nat /\ IsFiniteSet(ids) /\ Ids(R) \in SUBSET ids
    BY <2>2, <2>5, <2>8, TieIdsFacts
  <2>10. Ids(P) \cap ids = {}
    BY DEF TieIds
  <2> HIDE DEF ids
  <2>11. ~(Cardinality(ids) < n)
    <3>1. Cardinality(Ids(R)) <= Cardinality(ids)  BY <2>9, FS_Subset
    <3>2. Cardinality(ids) \in Nat  BY <2>9, FS_CardinalityType
    <3> QED BY <2>2, <2>7, <3>1, <3>2
  <2>12. SetCode(Ids(P) \cup C) > L.set
    BY <1>2, <1>3, <2>11
  <2>13. AreSmallest(ids, Cardinality(Ids(R)), C)
    BY <2>7, Zenon DEF AreSmallest, SmallestOf
  <2> HIDE DEF C
  <2> DEFINE B == Ids(P) \cup C  D == Ids(d)
  <2>14. C \in SUBSET ids
    BY <2>13 DEF AreSmallest
  <2>15. B \in SUBSET Nat /\ D \in SUBSET Nat
    BY <2>7, <2>9, <2>14
  <2>16. /\ IsFiniteSet(B) /\ IsFiniteSet(D) /\ Cardinality(B) = Cardinality(D)
         /\ Dominates(B, D)
    <3> DEFINE G == Ids(P)  H == Ids(R)
    <3>1. /\ G \in SUBSET Nat /\ IsFiniteSet(G) /\ ids \in SUBSET Nat /\ IsFiniteSet(ids)
          /\ G \cap ids = {} /\ H \in SUBSET ids /\ AreSmallest(ids, Cardinality(H), C)
          /\ B = G \cup C /\ D = G \cup H
      BY <2>6, <2>7, <2>9, <2>10, <2>13
    <3> HIDE DEF G, H, B, D
    <3> QED BY <3>1, CompletedWithSmallest
  <2> HIDE DEF B, D
  <2>17. SetCode(B) \in Nat /\ SetCode(D) \in Nat /\ SetCode(B) <= SetCode(D)
    BY <2>15, <2>16, SmallerCode
  <2>18. L.set < SetCode(Ids(d))
    <3> DEFINE x == L.set  y == SetCode(B)  z == SetCode(D)
    <3>1. x \in Nat /\ y \in Nat /\ z \in Nat /\ y > x /\ y <= z
      BY <1>3, <2>12, <2>17 DEF B
    <3> HIDE DEF x, y, z
    <3>2. x < z  BY <3>1
    <3> QED BY <3>2 DEF x, z, D
  <2>19. t + HonorBonus = Cutoff  BY <1>2, <1>6
  <2>20. KeyLess(Ctx, L, Evaluated(d))
    BY <1>2, <2>18, <2>19, CutoffIs
  <2> QED BY <1>3, <2>20 DEF Covers
<1> QED BY <1>5, <1>6

(* The loop's break: entries from pos on are worth no more than the one at *)
(* pos.                                                                    *)
LEMMA BreakIsCovered ==
  ASSUME NEW p \in Pools, NEW d \in LegalDecks(p), IsTracker(p, topK, results),
         NEW s, IsScenario(p, s), OwnScenario(s, d),
         NEW P, NEW pos \in Nat, pos >= 1, Open(s, d, P, pos),
         NEW n, n = DeckSize - Cardinality(P), pos <= Len(s.entries),
         NEW sum, sum = ScenarioSum(P, s.units, s.attr),
         BelowCutoff(sum + s.entries[pos].power * n)
  PROVE  Covers(Ctx, topK, results, Evaluated(d))
<1> DEFINE A == Admitted(p, s.units, s.attr)
           R == d \ P
           E == s.entries
           f == [c \in R |-> ScenarioPower(c, s.units, s.attr # NoAttr)]
           x == E[pos].power
           b == ScenarioSum(R, s.units, s.attr)
<1>1. /\ A \in SUBSET DOMAIN Card /\ IsEntries(E, A, s.units, s.attr)
      /\ R \in SUBSET A /\ IsFiniteSet(R)
      /\ Remaining(E, pos, Chars(P), R)
      /\ P \in SUBSET A /\ IsFiniteSet(P)
      /\ n = Cardinality(R) /\ n \in Nat
  <2>1. R = d \ P  OBVIOUS
  <2> HIDE DEF R, f, x, b
  <2>2. n = Cardinality(R)  BY <2>1, OpenFacts
  <2> QED BY <2>1, <2>2, OpenFacts
<1>2. Len(E) \in Nat /\ pos \in 1..Len(E)  BY <1>1 DEF IsEntries
<1>3. \A i \in 1..Len(E) : /\ E[i].card \in DOMAIN Card
                           /\ E[i].power = ScenarioPower(E[i].card, s.units, s.attr # NoAttr)
                           /\ E[i].power \in Nat
  <2> SUFFICES ASSUME NEW i \in 1..Len(E)
               PROVE  /\ E[i].card \in DOMAIN Card
                      /\ E[i].power = ScenarioPower(E[i].card, s.units, s.attr # NoAttr)
                      /\ E[i].power \in Nat
    OBVIOUS
  <2> DEFINE c == E[i].card
  <2>1. c \in A /\ E[i] = EntryOf(c, s.units, s.attr)  BY <1>1 DEF IsEntries
  <2> HIDE DEF c
  <2>2. c \in DOMAIN Card  BY <1>1, <2>1
  <2>3. /\ E[i].power = ScenarioPower(c, s.units, s.attr # NoAttr) /\ E[i].power \in Nat
    BY <2>1, <2>2, EntryFacts
  <2> QED BY <2>2, <2>3 DEF c
<1>4. x \in Nat  BY <1>2, <1>3
<1>5. \A r \in R : f[r] \in Nat /\ f[r] <= x
  <2> SUFFICES ASSUME NEW r \in R PROVE f[r] \in Nat /\ f[r] <= x
    OBVIOUS
  <2>1. PICK i \in pos..Len(E) : E[i].card = r  BY <1>1 DEF Remaining
  <2>2. i \in 1..Len(E) /\ (pos < i \/ pos = i)  BY <1>2, <2>1
  <2>3. E[i].power <= E[pos].power
    <3>1. CASE pos < i
      BY <1>1, <1>2, <2>2, <3>1 DEF IsEntries
    <3>2. CASE pos = i
      BY <1>4, <3>2
    <3> QED BY <2>2, <3>1, <3>2
  <2>4. f[r] = E[i].power  BY <1>3, <2>1, <2>2
  <2> QED BY <1>3, <2>2, <2>3, <2>4
<1>6. b = SumFunctionOnSet(f, R)
  BY ScenarioSumIs
<1> HIDE DEF f, R, x
<1>7. b \in Nat /\ b <= x * n
  BY <1>1, <1>4, <1>5, <1>6, SumBounded
<1>8. TotalPower(d) \in Nat /\ TotalPower(d) <= ScenarioSum(d, s.units, s.attr)
  BY EvaluatedFacts, OwnScenarioBounds
<1>9. ScenarioSum(d, s.units, s.attr) = sum + b
  <2>1. d \in SUBSET DOMAIN Card /\ IsFiniteSet(d) /\ P \in SUBSET d
    BY LegalDeckFacts DEF Open
  <2> QED BY <2>1, ScenarioSumSplit DEF R
<1>10. sum \in Nat
  <2>1. P \in SUBSET DOMAIN Card  BY <1>1
  <2> QED BY <1>1, <2>1, ScenarioSumType
<1> DEFINE y == x * n
<1>11. y \in Nat  BY <1>1, <1>4
<1>12. sum + y \in Int /\ TotalPower(d) <= sum + y
  <2> HIDE DEF y, b
  <2>1. b \in Nat /\ b <= y  BY <1>7 DEF y
  <2> QED BY <1>8, <1>9, <1>10, <1>11, <2>1
<1>13. BelowCutoff(sum + y)  BY DEF x, y
<1> HIDE DEF y
<1> QED BY <1>12, <1>13, BelowIsCovered

(* Past the last entry a call has nothing left to complete a deck with.    *)
LEMMA NothingPastTheEnd ==
  ASSUME NEW p \in Pools, NEW d \in LegalDecks(p),
         NEW s, NEW P, NEW pos \in Nat, Open(s, d, P, pos),
         Len(s.entries) \in Nat, pos > Len(s.entries), Cardinality(P) < DeckSize
  PROVE  FALSE
<1>1. d \ P = {}  BY DEF Open
<1>2. P = d  BY <1>1 DEF Open
<1> QED BY <1>2, LegalDeckFacts, DeckSizeFacts

-----------------------------------------------------------------------------
(* The calls of descend.                                                     *)

\* The first n selected cards.
Chosen(cards, n) == {cards[i] : i \in 1..n}

Calls == [pos : Nat, used : SUBSET Nat, sum : Nat]

\* What a call was told of the depth cards P chosen before it is true.
CallHolds(p, s, P, depth, call) ==
  /\ call.pos \in 1..Len(s.entries) + 1
  /\ P \in SUBSET Admitted(p, s.units, s.attr) /\ IsFiniteSet(P)
  /\ Distinct(P) /\ Cardinality(P) = depth
  /\ call.used = Chars(P)
  /\ call.sum = ScenarioSum(P, s.units, s.attr)

\* When visiting a node is no use.
Prunes(E, selected, pos, used, sum, n) ==
  LET bound == sum + CompletionSum(E, pos, used, n)
  IN  \/ ~Feasible(E, pos, used, n)
      \/ BelowCutoff(bound)
      \/ TieCannotEnter(E, selected, pos, used, bound, n)

(* The types of a scenario's entries.                                      *)
LEMMA EntryTypes ==
  ASSUME NEW p \in Pools, NEW s, IsScenario(p, s)
  PROVE  /\ Len(s.entries) \in Nat
         /\ \A i \in 1..Len(s.entries) :
              LET e == s.entries[i]
              IN  /\ e.card \in Admitted(p, s.units, s.attr)
                  /\ e.card \in DOMAIN Card /\ e.card \in Nat
                  /\ e.power = ScenarioPower(e.card, s.units, s.attr # NoAttr)
                  /\ e.power \in Nat
                  /\ e.char = Card[e.card].char /\ e.id = Card[e.card].id
<1> DEFINE A == Admitted(p, s.units, s.attr)  E == s.entries
<1>1. IsEntries(E, A, s.units, s.attr)
  <2>1. E = Entries(p, s.units, s.attr)  BY DEF IsScenario
  <2> QED BY <2>1, EntriesProperties
<1>2. A \in SUBSET DOMAIN Card  BY PowerSearchAssumption DEF Admitted
<1> HIDE DEF A, E
<1>3. Len(E) \in Nat  BY <1>1 DEF IsEntries
<1>4. ASSUME NEW i \in 1..Len(E)
      PROVE  /\ E[i].card \in A /\ E[i].card \in DOMAIN Card /\ E[i].card \in Nat
             /\ E[i].power = ScenarioPower(E[i].card, s.units, s.attr # NoAttr)
             /\ E[i].power \in Nat
             /\ E[i].char = Card[E[i].card].char /\ E[i].id = Card[E[i].card].id
  <2> DEFINE c == E[i].card
  <2>1. c \in A /\ E[i] = EntryOf(c, s.units, s.attr)  BY <1>1 DEF IsEntries
  <2> HIDE DEF c
  <2>2. c \in DOMAIN Card /\ c \in Nat  BY <1>2, <2>1, CardFacts
  <2>3. /\ E[i].id = Card[c].id /\ E[i].char = Card[c].char
        /\ E[i].power = ScenarioPower(c, s.units, s.attr # NoAttr) /\ E[i].power \in Nat
    BY <2>1, <2>2, EntryFacts
  <2> QED BY <2>1, <2>2, <2>3 DEF c
<1> QED BY <1>3, <1>4, Zenon DEF A, E

(* The root of a scenario.                                                 *)
LEMMA RootHolds ==
  ASSUME NEW p \in Pools, NEW s, IsScenario(p, s),
         NEW call, call = [pos |-> 1, used |-> {}, sum |-> 0]
  PROVE  /\ CallHolds(p, s, {}, 0, call) /\ call \in Calls
         /\ \A d \in LegalDecks(p) : OwnScenario(s, d) => Open(s, d, {}, 1)
<1>1. Len(s.entries) \in Nat  BY EntryTypes
<1>2. 1 \in 1..Len(s.entries) + 1  BY <1>1
<1>3. IsFiniteSet({}) /\ Cardinality({}) = 0  BY FS_EmptySet
<1>4. ScenarioSum({}, s.units, s.attr) = 0
  BY ScenarioSumIs, SumEmpty
<1>5. Chars({}) = {} /\ Distinct({})  BY DEF Chars, Distinct
<1>6. CallHolds(p, s, {}, 0, call)
  BY <1>2, <1>3, <1>4, <1>5 DEF CallHolds
<1>7. call \in Calls  BY DEF Calls
<1>8. ASSUME NEW d \in LegalDecks(p), OwnScenario(s, d) PROVE Open(s, d, {}, 1)
  <2> DEFINE A == Admitted(p, s.units, s.attr)  E == s.entries
  <2>1. d \in SUBSET A  BY <1>8, OwnScenarioBounds
  <2>2. IsEntries(E, A, s.units, s.attr)
    <3>1. E = Entries(p, s.units, s.attr)  BY DEF IsScenario
    <3> QED BY <3>1, EntriesProperties
  <2>3. \A r \in d : \E i \in 1..Len(E) : E[i].card = r
    BY <2>1, <2>2, Zenon DEF IsEntries
  <2> QED BY <2>3 DEF Open
<1> QED BY <1>6, <1>7, <1>8

(* Choosing the candidate.                                                 *)
LEMMA ChosenHolds ==
  ASSUME NEW p \in Pools, NEW s, IsScenario(p, s),
         NEW P, NEW depth \in Nat, NEW call \in Calls, CallHolds(p, s, P, depth, call),
         call.pos <= Len(s.entries),
         NEW e, e = s.entries[call.pos],
         e.char \notin Chars(P), e.id \notin Ids(P),
         NEW next, next = [pos |-> call.pos + 1, used |-> call.used \cup {e.char},
                           sum |-> call.sum + e.power]
  PROVE  /\ CallHolds(p, s, P \cup {e.card}, depth + 1, next) /\ next \in Calls
         /\ e.card \in p /\ e.card \in Nat
<1> DEFINE A == Admitted(p, s.units, s.attr)  x == e.card  D == P \cup {x}
<1>1. Len(s.entries) \in Nat /\ call.pos \in Nat /\ call.pos \in 1..Len(s.entries)
  BY EntryTypes DEF CallHolds
<1>2. /\ x \in A /\ x \in DOMAIN Card /\ x \in Nat
      /\ e.power = ScenarioPower(x, s.units, s.attr # NoAttr) /\ e.power \in Nat
      /\ e.char = Card[x].char /\ e.id = Card[x].id
  BY <1>1, EntryTypes
<1>3. /\ P \in SUBSET A /\ IsFiniteSet(P) /\ Distinct(P) /\ Cardinality(P) = depth
      /\ call.used = Chars(P) /\ call.sum = ScenarioSum(P, s.units, s.attr)
  BY DEF CallHolds
<1>4. A \in SUBSET DOMAIN Card /\ A \in SUBSET p
  BY PowerSearchAssumption DEF Admitted
<1>5. x \notin P  BY <1>2 DEF Chars
<1> HIDE DEF A, x
<1>6. Distinct(D)
  BY <1>2, <1>3 DEF Distinct, Chars, Ids
<1>7. IsFiniteSet(D) /\ Cardinality(D) = depth + 1
  BY <1>3, <1>5, FS_AddElement
<1>8. Chars(D) = call.used \cup {e.char}
  BY <1>2, <1>3 DEF Chars
<1>9. ScenarioSum(D, s.units, s.attr) = call.sum + e.power
  <2> DEFINE f == [c \in D |-> ScenarioPower(c, s.units, s.attr # NoAttr)]
             g == [c \in P |-> ScenarioPower(c, s.units, s.attr # NoAttr)]
  <2>1. ScenarioSum(D, s.units, s.attr) = SumFunctionOnSet(f, D)
        /\ ScenarioSum(P, s.units, s.attr) = SumFunctionOnSet(g, P)
    BY ScenarioSumIs
  <2>2. \A c \in P : ScenarioPower(c, s.units, s.attr # NoAttr) \in Nat
    BY <1>3, <1>4, ScenarioPowerBounds
  <2>3. f[x] = e.power /\ x \in D /\ \A c \in P : f[c] = g[c] /\ g[c] \in Int
    BY <1>2, <2>2
  <2>4. Summands(f, D)
    BY <1>2, <2>2 DEF Summands
  <2>5. D \ {x} = P  BY <1>5
  <2>6. Summands(g, P) /\ \A c \in P : g[c] = f[c]  BY <2>3 DEF Summands
  <2> HIDE DEF f, g, D
  <2>7. SumFunctionOnSet(f, D) = f[x] + SumFunctionOnSet(f, P)
    BY <1>7, <2>3, <2>4, <2>5, SumRemove
  <2>8. SumFunctionOnSet(g, P) = SumFunctionOnSet(f, P)
    BY <1>3, <2>6, SumSame
  <2>9. SumFunctionOnSet(g, P) \in Int  BY <1>3, <2>6, SumType
  <2> QED BY <1>2, <1>3, <2>1, <2>3, <2>7, <2>8, <2>9
<1>10. call.pos + 1 \in 1..Len(s.entries) + 1 /\ call.pos + 1 \in Nat
  BY <1>1
<1>11. next.pos = call.pos + 1 /\ next.used = call.used \cup {e.char}
       /\ next.sum = call.sum + e.power
  OBVIOUS
<1>12. next \in Calls
  <2>1. call.used \in SUBSET Nat /\ call.sum \in Nat  BY DEF Calls
  <2>2. e.char \in Nat  BY <1>2, CardFacts
  <2>3. call.sum + e.power \in Nat  BY <1>2, <2>1
  <2> QED BY <1>10, <2>1, <2>2, <2>3 DEF Calls
<1>13. D \in SUBSET A  BY <1>2, <1>3
<1>14. CallHolds(p, s, D, depth + 1, next)
  BY <1>6, <1>7, <1>8, <1>9, <1>10, <1>11, <1>13 DEF CallHolds, A
<1> QED BY <1>2, <1>4, <1>12, <1>14 DEF x

\* A call past its candidate.
PassedBy(call) == [call EXCEPT !.pos = @ + 1]

(* Passing the candidate by.                                               *)
LEMMA AdvancedHolds ==
  ASSUME NEW p \in Pools, NEW s, IsScenario(p, s),
         NEW P, NEW depth \in Nat, NEW call \in Calls, CallHolds(p, s, P, depth, call),
         call.pos <= Len(s.entries)
  PROVE  /\ CallHolds(p, s, P, depth, PassedBy(call)) /\ PassedBy(call) \in Calls
         /\ PassedBy(call).pos = call.pos + 1
<1> DEFINE next == PassedBy(call)
<1>1. Len(s.entries) \in Nat /\ call.pos \in Nat /\ call.pos >= 1
  BY EntryTypes DEF CallHolds
<1>2. next.pos = call.pos + 1 /\ next.used = call.used /\ next.sum = call.sum
      /\ next \in Calls
  BY DEF Calls, PassedBy
<1>3. call.pos + 1 \in 1..Len(s.entries) + 1  BY <1>1
<1> QED BY <1>2, <1>3 DEF CallHolds

-----------------------------------------------------------------------------

(* No deck still open in a pruned node is lost.                            *)
LEMMA PrunedIsCovered ==
  ASSUME NEW p \in Pools, NEW d \in LegalDecks(p), IsTracker(p, topK, results),
         NEW s, IsScenario(p, s), OwnScenario(s, d),
         NEW P, NEW pos \in Nat, pos >= 1, Open(s, d, P, pos),
         NEW n, n = DeckSize - Cardinality(P),
         Prunes(s.entries, Ids(P), pos, Chars(P), ScenarioSum(P, s.units, s.attr), n)
  PROVE  Covers(Ctx, topK, results, Evaluated(d))
<1> DEFINE bound == ScenarioSum(P, s.units, s.attr)
                      + CompletionSum(s.entries, pos, Chars(P), n)
<1>1. Feasible(s.entries, pos, Chars(P), n) /\ bound \in Int /\ TotalPower(d) <= bound
  BY BoundHolds
<1>2. BelowCutoff(bound) \/ TieCannotEnter(s.entries, Ids(P), pos, Chars(P), bound, n)
  BY <1>1, Zenon DEF Prunes
<1>3. CASE BelowCutoff(bound)
  <2> HIDE DEF bound
  <2> QED BY <1>1, <1>3, BelowIsCovered
<1>4. CASE TieCannotEnter(s.entries, Ids(P), pos, Chars(P), bound, n)
  BY <1>4, TieIsCovered
<1> QED BY <1>2, <1>3, <1>4

(* Nor one open in a call whose loop ends.                                 *)
LEMMA LeftIsCovered ==
  ASSUME NEW p \in Pools, NEW d \in LegalDecks(p), IsTracker(p, topK, results),
         NEW s, IsScenario(p, s), OwnScenario(s, d),
         NEW P, NEW pos \in Nat, pos >= 1, Open(s, d, P, pos),
         NEW n, n = DeckSize - Cardinality(P), Cardinality(P) < DeckSize,
         pos <= Len(s.entries) =>
           BelowCutoff(ScenarioSum(P, s.units, s.attr) + s.entries[pos].power * n)
  PROVE  Covers(Ctx, topK, results, Evaluated(d))
<1>1. Len(s.entries) \in Nat  BY EntryTypes
<1>2. CASE pos <= Len(s.entries)
  BY <1>2, BreakIsCovered
<1>3. CASE ~(pos <= Len(s.entries))
  <2>1. pos > Len(s.entries)  BY <1>1, <1>3
  <2> QED BY <1>1, <2>1, NothingPastTheEnd
<1> QED BY <1>2, <1>3

(* A deck without the candidate stays open behind it.                      *)
LEMMA OpenBehind ==
  ASSUME NEW s, NEW d, NEW P, NEW pos \in Nat, Open(s, d, P, pos), Len(s.entries) \in Nat,
         s.entries[pos].card \notin d \/ s.entries[pos].card \in P
  PROVE  Open(s, d, P, pos + 1)
<1> SUFFICES ASSUME NEW r \in d \ P
             PROVE  \E i \in pos + 1..Len(s.entries) : s.entries[i].card = r
  BY DEF Open
<1>1. PICK i \in pos..Len(s.entries) : s.entries[i].card = r  BY DEF Open
<1>2. i # pos  BY <1>1
<1>3. i \in pos + 1..Len(s.entries)  BY <1>1, <1>2
<1> QED BY <1>1, <1>3

(* A deck with the candidate is open behind it once it is chosen.          *)
LEMMA OpenWith ==
  ASSUME NEW s, NEW d, NEW P, NEW pos \in Nat, Open(s, d, P, pos), Len(s.entries) \in Nat,
         NEW x, x = s.entries[pos].card, x \in d
  PROVE  Open(s, d, P \cup {x}, pos + 1)
<1>1. P \cup {x} \in SUBSET d  BY DEF Open
<1> SUFFICES ASSUME NEW r \in d \ (P \cup {x})
             PROVE  \E i \in pos + 1..Len(s.entries) : s.entries[i].card = r
  BY <1>1 DEF Open
<1>2. PICK i \in pos..Len(s.entries) : s.entries[i].card = r  BY DEF Open
<1>3. i # pos  BY <1>2
<1>4. i \in pos + 1..Len(s.entries)  BY <1>2, <1>3
<1> QED BY <1>2, <1>4

(* A candidate whose character or public id is taken is in no open deck.   *)
LEMMA TakenIsNotOpen ==
  ASSUME NEW p \in Pools, NEW d \in LegalDecks(p), NEW s, NEW P, NEW pos, Open(s, d, P, pos),
         NEW x, Card[x].char \in Chars(P) \/ Card[x].id \in Ids(P)
  PROVE  x \notin d \/ x \in P
<1>1. Distinct(d) /\ P \in SUBSET d  BY LegalDeckFacts DEF Open
<1> QED BY <1>1 DEF Distinct, Chars, Ids

-----------------------------------------------------------------------------
(* The inductive invariant.                                                  *)

CallsHold(p, s, calls, cards) ==
  \A k \in 1..Len(calls) : CallHolds(p, s, Chosen(cards, k - 1), k - 1, calls[k])

\* Some call, or the root of a scenario to come, still has deck d before it.
Ahead(Q, cur, calls, cards, d) ==
  \E i \in cur..Len(Q) :
    /\ OwnScenario(Q[i], d)
    /\ i = cur /\ calls # <<>> =>
         \E k \in 1..Len(calls) : Open(Q[cur], d, Chosen(cards, k - 1), calls[k].pos)

TypeOK ==
  /\ pool \in Pools /\ topK \in TopKs /\ timed \in BOOLEAN /\ hit \in BOOLEAN
  /\ scenarios = BuildScenarios(pool)
  /\ current \in 1..Len(scenarios) + 1
  /\ deck \in [1..DeckSize -> Nat]
  /\ stack \in Seq(Calls) /\ Len(stack) <= DeckSize
  /\ IsTracker(pool, topK, results)

OnCourse ==
  /\ stack # <<>> => current <= Len(scenarios)
  /\ CallsHold(pool, scenarios[current], stack, deck)

StillComplete ==
  ~hit => \A d \in LegalDecks(pool) :
            \/ Covers(Ctx, topK, results, Evaluated(d))
            \/ Ahead(scenarios, current, stack, deck, d)

IInv == TypeOK /\ OnCourse /\ StillComplete

-----------------------------------------------------------------------------

\* caller is calls without the innermost one.
IsCaller(calls, caller) ==
  /\ caller \in Seq(Calls) /\ Len(caller) = Len(calls) - 1
  /\ \A i \in 1..Len(calls) - 1 : caller[i] = calls[i]
  /\ caller = <<>> <=> Len(calls) = 1

\* adv is calls with c for the innermost one.
Replaces(calls, c, adv) ==
  /\ adv \in Seq(Calls) /\ Len(adv) = Len(calls) /\ adv # <<>>
  /\ \A i \in 1..Len(calls) - 1 : adv[i] = calls[i]
  /\ adv[Len(calls)] = c

\* ext is that with e inside c.
Pushes(calls, c, e, ext) ==
  /\ ext \in Seq(Calls) /\ Len(ext) = Len(calls) + 1 /\ ext # <<>>
  /\ \A i \in 1..Len(calls) - 1 : ext[i] = calls[i]
  /\ ext[Len(calls)] = c /\ ext[Len(calls) + 1] = e

(* A stack of calls that is not empty has a top and the callers below it.  *)
LEMMA CallerFacts ==
  ASSUME NEW calls \in Seq(Calls), calls # <<>>
  PROVE  /\ Len(calls) \in Nat /\ Len(calls) >= 1 /\ calls[Len(calls)] \in Calls
         /\ IsCaller(calls, Front(calls))
<1> DEFINE k == Len(calls)
           caller == Front(calls)
<1>1. k \in Nat /\ k >= 1
  <2>1. k \in Nat /\ k # 0  BY EmptySeq, LenProperties
  <2> QED BY <2>1
<1>2. calls[k] \in Calls
  <2>1. k \in 1..k  BY <1>1
  <2> QED BY <2>1, ElementOfSeq
<1>3. caller \in Seq(Calls) /\ Len(caller) = k - 1 /\ \A i \in 1..k - 1 : caller[i] = calls[i]
  <2>1. Len(calls) > 0  BY <1>1
  <2> QED BY <2>1, FrontProperties
<1> HIDE DEF caller
<1>4. caller = <<>> <=> k = 1
  <2>1. caller = <<>> <=> Len(caller) = 0  BY <1>3, EmptySeq
  <2> QED BY <1>1, <1>3, <2>1
<1>5. IsCaller(calls, caller)
  BY <1>3, <1>4 DEF IsCaller
<1> QED BY <1>1, <1>2, <1>5 DEF caller

(* Advancing the top call replaces it and leaves its callers alone.        *)
LEMMA ReplacedFacts ==
  ASSUME NEW calls \in Seq(Calls), calls # <<>>, NEW c \in Calls
  PROVE  Replaces(calls, c, Append(Front(calls), c))
<1> DEFINE caller == Front(calls)
           adv == Append(caller, c)
           k == Len(calls)
<1>1. k \in Nat /\ k >= 1 /\ IsCaller(calls, caller)
  BY CallerFacts
<1> HIDE DEF caller, k
<1>2. caller \in Seq(Calls) /\ Len(caller) = k - 1
      /\ \A i \in 1..k - 1 : caller[i] = calls[i]
  BY <1>1 DEF IsCaller, k
<1>3. /\ adv \in Seq(Calls) /\ Len(adv) = Len(caller) + 1
      /\ \A i \in 1..Len(caller) : adv[i] = caller[i]
      /\ adv[Len(caller) + 1] = c
  BY <1>2, AppendProperties
<1> HIDE DEF adv
<1>4. Len(caller) + 1 = k  BY <1>1, <1>2
<1>5. Len(adv) = k /\ adv[k] = c /\ \A i \in 1..k - 1 : adv[i] = calls[i]
  <2>1. 1..Len(caller) = 1..k - 1  BY <1>2
  <2>2. \A i \in 1..k - 1 : adv[i] = caller[i]  BY <1>3, <2>1
  <2> DEFINE l == Len(caller) + 1
  <2>3. Len(adv) = l /\ adv[l] = c /\ l = k  BY <1>3, <1>4
  <2> HIDE DEF l
  <2>4. Len(adv) = k /\ adv[k] = c  BY <2>3
  <2> QED BY <1>2, <2>2, <2>4
<1>6. adv # <<>>
  <2>1. Len(adv) # 0  BY <1>1, <1>5
  <2> QED BY <2>1, EmptySeq
<1>7. Replaces(calls, c, adv)
  BY <1>3, <1>5, <1>6 DEF Replaces, k
<1> QED BY <1>7 DEF adv, caller

(* A descent replaces the top call and places a new one above it.          *)
LEMMA PushedFacts ==
  ASSUME NEW calls \in Seq(Calls), calls # <<>>, NEW c \in Calls, NEW e \in Calls
  PROVE  Pushes(calls, c, e, Append(Append(Front(calls), c), e))
<1> DEFINE adv == Append(Front(calls), c)
           ext == Append(adv, e)
           k == Len(calls)
<1>1. k \in Nat /\ k >= 1  BY CallerFacts
<1>2. Replaces(calls, c, adv)  BY ReplacedFacts
<1> HIDE DEF adv, k
<1>3. /\ adv \in Seq(Calls) /\ Len(adv) = k
      /\ \A i \in 1..k - 1 : adv[i] = calls[i]
      /\ adv[k] = c
  BY <1>2 DEF Replaces, k
<1>4. /\ ext \in Seq(Calls) /\ Len(ext) = k + 1
      /\ \A i \in 1..k : ext[i] = adv[i]
      /\ ext[k + 1] = e
  BY <1>3, AppendProperties
<1> HIDE DEF ext
<1>5. ext # <<>>
  <2>1. Len(ext) # 0  BY <1>1, <1>4
  <2> QED BY <2>1, EmptySeq
<1>6. k \in 1..k /\ \A i \in 1..k - 1 : i \in 1..k  BY <1>1
<1>7. (\A i \in 1..k - 1 : ext[i] = calls[i]) /\ ext[k] = c
  BY <1>3, <1>4, <1>6
<1>8. Pushes(calls, c, e, ext)
  BY <1>4, <1>5, <1>7 DEF Pushes, k
<1> QED BY <1>8 DEF ext, adv

\* The array with card x selected at place k.
Selected(cards, k, x) == [cards EXCEPT ![k] = x]

\* What that means for the chosen cards.
Selects(cards, k, x, cards2) ==
  /\ \A j \in 0..k - 1 : Chosen(cards2, j) = Chosen(cards, j)
  /\ Chosen(cards2, k) = Chosen(cards, k - 1) \cup {x}
  /\ cards2 \in [1..DeckSize -> Nat]

(* Selecting a card at a depth adds it to the cards chosen above that      *)
(* depth.                                                                  *)
LEMMA ChosenFacts ==
  ASSUME NEW cards \in [1..DeckSize -> Nat], NEW k \in 1..DeckSize, NEW x \in Nat
  PROVE  Selects(cards, k, x, Selected(cards, k, x))
<1> DEFINE cards2 == Selected(cards, k, x)
<1>1. DeckSize \in Nat /\ k \in Nat  BY DeckSizeFacts
<1>2. \A i \in 1..k - 1 : i \in 1..DeckSize /\ i # k  BY <1>1
<1>3. cards2[k] = x /\ \A i \in 1..k - 1 : cards2[i] = cards[i]
  BY <1>2 DEF Selected
<1>4. ASSUME NEW j \in 0..k - 1 PROVE Chosen(cards2, j) = Chosen(cards, j)
  <2>1. \A i \in 1..j : i \in 1..k - 1  BY <1>1
  <2>2. \A i \in 1..j : cards2[i] = cards[i]  BY <2>1, <1>3
  <2> QED BY <2>2 DEF Chosen
<1>5. Chosen(cards2, k) = Chosen(cards, k - 1) \cup {x}
  <2>1. \A i : i \in 1..k <=> i \in 1..k - 1 \/ i = k  BY <1>1
  <2> QED BY <2>1, <1>3 DEF Chosen
<1>6. cards2 \in [1..DeckSize -> Nat]
  BY DEF Selected
<1> HIDE DEF cards2
<1>7. Selects(cards, k, x, cards2)
  BY <1>4, <1>5, <1>6 DEF Selects
<1> QED BY <1>7 DEF cards2

(* The identifiers and characters of the chosen slots are those of the     *)
(* chosen cards.                                                           *)
LEMMA ChosenImages ==
  ASSUME NEW cards, NEW n
  PROVE  /\ {Card[cards[i]].id : i \in 1..n} = Ids(Chosen(cards, n))
         /\ {Card[cards[i]].char : i \in 1..n} = Chars(Chosen(cards, n))
  BY DEF Ids, Chars, Chosen

(* What a call of dfs does at its entry, with its depth, identifiers and   *)
(* record named: it records a complete deck, returns, or starts its loop.  *)
LEMMA VisitIs ==
  ASSUME NEW below, NEW cards, NEW pos, NEW used, NEW sum,
         Visit(below, cards, pos, used, sum),
         NEW depth, depth = Len(below),
         NEW selected, selected = Ids(Chosen(cards, depth)),
         NEW call, call = [pos |-> pos, used |-> used, sum |-> sum]
  PROVE  \/ /\ depth = DeckSize /\ stack' = below
            /\ results' = Insert(Ctx, topK, results, Evaluated(Chosen(cards, DeckSize)))
         \/ /\ depth # DeckSize /\ stack' = below /\ results' = results
            /\ Prunes(Entry, selected, pos, used, sum, DeckSize - depth)
         \/ /\ depth # DeckSize /\ stack' = Append(below, call) /\ results' = results
<1>1. selected = {Card[cards[i]].id : i \in 1..depth}  BY ChosenImages
<1>2. CASE depth = DeckSize
  BY <1>2, Zenon DEF Visit, Chosen
<1>3. CASE depth # DeckSize
  <2> DEFINE prune == Prunes(Entry, selected, pos, used, sum, DeckSize - depth)
  <2>1. stack' = IF prune THEN below ELSE Append(below, call)
    BY <1>1, <1>3, Zenon DEF Visit, Prunes
  <2>2. results' = results  BY <1>3, Zenon DEF Visit
  <2> HIDE DEF prune
  <2> QED BY <1>3, <2>1, <2>2 DEF prune
<1> QED BY <1>2, <1>3

(* What the invariant says of the scenarios.                               *)
LEMMA ScenarioFacts ==
  ASSUME TypeOK
  PROVE  /\ AreScenarios(pool, scenarios)
         /\ Len(scenarios) \in Nat /\ current \in Nat /\ current >= 1
         /\ topK \in Nat /\ topK >= 1 /\ pool \in Pools
         /\ current <= Len(scenarios) => IsScenario(pool, scenarios[current])
<1>1. AreScenarios(pool, scenarios)  BY ScenariosProperties DEF TypeOK
<1>2. Len(scenarios) \in Nat /\ \A i \in 1..Len(scenarios) : IsScenario(pool, scenarios[i])
  BY <1>1 DEF AreScenarios
<1>3. current \in Nat /\ current >= 1  BY <1>2 DEF TypeOK
<1>4. topK \in Nat /\ topK >= 1  BY DEF TypeOK, IsTracker
<1>5. pool \in Pools  BY DEF TypeOK
<1>6. current <= Len(scenarios) => current \in 1..Len(scenarios)  BY <1>2, <1>3
<1> QED BY <1>1, <1>2, <1>3, <1>4, <1>5, <1>6

(* And of the innermost call.                                              *)
LEMMA TopFacts ==
  ASSUME TypeOK, OnCourse, stack # <<>>, NEW k, k = Len(stack)
  PROVE  /\ k \in 1..DeckSize /\ k \in Nat /\ k >= 1 /\ Depth = k - 1
         /\ current <= Len(scenarios) /\ IsScenario(pool, scenarios[current])
         /\ Top = stack[k] /\ Top \in Calls /\ Top.pos \in Nat /\ Top.pos >= 1
         /\ CallHolds(pool, scenarios[current], Chosen(deck, k - 1), k - 1, Top)
         /\ Len(Entry) \in Nat
<1>1. k \in Nat /\ k >= 1 /\ stack[k] \in Calls
  BY CallerFacts DEF TypeOK
<1>2. k <= DeckSize /\ DeckSize \in Nat  BY DeckSizeFacts DEF TypeOK
<1>3. k \in 1..DeckSize /\ k \in 1..k  BY <1>1, <1>2
<1>4. current <= Len(scenarios) /\ IsScenario(pool, scenarios[current])
  BY ScenarioFacts DEF OnCourse
<1>5. Top = stack[k] /\ Depth = k - 1  BY DEF Top, Depth
<1>6. CallHolds(pool, scenarios[current], Chosen(deck, k - 1), k - 1, Top)
  BY <1>3, <1>5 DEF OnCourse, CallsHold
<1>7. Len(Entry) \in Nat
  <2>1. pool \in Pools  BY DEF TypeOK
  <2> QED BY <1>4, <2>1, EntryTypes DEF Entry
<1>8. Top.pos \in Nat /\ Top.pos >= 1
  <2>1. Top.pos \in 1..Len(Entry) + 1  BY <1>6 DEF CallHolds, Entry
  <2> QED BY <1>7, <2>1
<1> QED BY <1>1, <1>3, <1>4, <1>5, <1>6, <1>7, <1>8

(* A search that starts satisfies the invariant.                           *)
LEMMA InitHolds == ASSUME Init PROVE IInv
<1>1. /\ pool \in Pools /\ topK \in TopKs /\ timed \in BOOLEAN /\ hit = FALSE
      /\ scenarios = BuildScenarios(pool) /\ current = 1 /\ stack = <<>>
      /\ results = <<>> /\ deck = [i \in 1..DeckSize |-> 0]
  BY DEF Init
<1>2. AreScenarios(pool, scenarios)  BY <1>1, ScenariosProperties
<1>3. Len(scenarios) \in Nat
      /\ \A d \in LegalDecks(pool) : \E i \in 1..Len(scenarios) : OwnScenario(scenarios[i], d)
  BY <1>2 DEF AreScenarios
<1>4. /\ Len(<<>>) = 0 /\ results \in Seq(DeckResults(pool)) /\ stack \in Seq(Calls)
      /\ \A i \in 1..Len(<<>>) : FALSE
  BY <1>1
<1>5. IsTracker(pool, topK, results)
  <2>1. topK \in Nat /\ topK >= 1  BY <1>1, PowerSearchAssumption
  <2>2. Len(results) <= topK  BY <1>1, <1>4, <2>1
  <2>3. Ranked(Ctx, results)  BY <1>1, <1>4 DEF Ranked
  <2> QED BY <1>4, <2>1, <2>2, <2>3 DEF IsTracker
<1>6. TypeOK
  <2>1. current \in 1..Len(scenarios) + 1  BY <1>1, <1>3
  <2>2. deck \in [1..DeckSize -> Nat]  BY <1>1
  <2>3. Len(stack) <= DeckSize  BY <1>1, <1>4, DeckSizeFacts
  <2> QED BY <1>1, <1>4, <1>5, <2>1, <2>2, <2>3 DEF TypeOK
<1>7. OnCourse
  BY <1>1, <1>4 DEF OnCourse, CallsHold
<1>8. StillComplete
  BY <1>1, <1>3 DEF StillComplete, Ahead
<1> QED BY <1>6, <1>7, <1>8 DEF IInv

(* Inserting a deck's result keeps the tracker one, covers the deck and    *)
(* uncovers none.                                                          *)
LEMMA TrackerGrows ==
  ASSUME NEW p \in Pools, NEW K, NEW res, IsTracker(p, K, res),
         NEW d \in LegalDecks(p), NEW res2, res2 = Insert(Ctx, K, res, Evaluated(d))
  PROVE  /\ IsTracker(p, K, res2)
         /\ Covers(Ctx, K, res2, Evaluated(d))
         /\ \A o \in LegalDecks(p) :
              Covers(Ctx, K, res, Evaluated(o)) => Covers(Ctx, K, res2, Evaluated(o))
<1> DEFINE R == DeckResults(p)  c == Evaluated(d)
<1>1. Keyed(R)  BY DeckResultSet DEF ResultSet
<1>2. c \in R  BY DEF DeckResults
<1>3. K \in Nat /\ K >= 1 /\ res \in Seq(R) /\ Len(res) <= K /\ Ranked(Ctx, res)
  BY DEF IsTracker
<1>4. res2 = Insert(Ctx, K, res, c)  OBVIOUS
<1>5. \A o \in LegalDecks(p) : Evaluated(o) \in R  BY DEF DeckResults
<1> HIDE DEF R, c
<1>6. Inserted(R, Ctx, K, res, c, res2)
  BY <1>1, <1>2, <1>3, <1>4, InsertCorrect
<1>7. /\ res2 \in Seq(R) /\ Len(res2) <= K /\ Ranked(Ctx, res2)
      /\ Covers(Ctx, K, res2, c)
      /\ \A o \in R : Covers(Ctx, K, res, o) => Covers(Ctx, K, res2, o)
  BY <1>6, Zenon DEF Inserted
<1>8. IsTracker(p, K, res2)
  BY <1>3, <1>7 DEF IsTracker, R
<1> QED BY <1>5, <1>7, <1>8 DEF c

(* What an empty stack and no expiry leave to do.                          *)
LEMMA BetweenScenarios ==
  ASSUME TypeOK, stack = <<>>, ~Finished
  PROVE  ~hit /\ current <= Len(scenarios)
<1>1. Len(scenarios) \in Nat /\ current \in Nat  BY ScenarioFacts
<1> QED BY <1>1 DEF Finished

(* An empty stack of calls is in order whatever the deck.                  *)
LEMMA NoCallsHold ==
  ASSUME NEW p, NEW s, NEW cards, NEW calls, calls = <<>>
  PROVE  CallsHold(p, s, calls, cards) /\ calls \in Seq(Calls) /\ Len(calls) = 0
<1>1. Len(<<>>) = 0 /\ \A i \in 1..Len(<<>>) : FALSE  OBVIOUS
<1> QED BY <1>1 DEF CallsHold

(* A timeout before a scenario preserves the invariant.                    *)
LEMMA ExpireBetweenScenariosStep == ASSUME IInv, ExpireBetweenScenarios PROVE IInv'
<1>1. /\ pool' = pool /\ topK' = topK /\ timed' = timed /\ scenarios' = scenarios
      /\ current' = current /\ stack' = stack /\ deck' = deck /\ results' = results
      /\ hit' = TRUE
  BY DEF ExpireBetweenScenarios, Expire, request
<1>2. TypeOK'  BY <1>1 DEF IInv, TypeOK
<1>3. OnCourse'  BY <1>1 DEF IInv, OnCourse
<1>4. StillComplete'  BY <1>1 DEF StillComplete
<1> QED BY <1>2, <1>3, <1>4 DEF IInv

(* A timeout at a candidate preserves the invariant.                       *)
LEMMA ExpireAtCandidateStep == ASSUME IInv, ExpireAtCandidate PROVE IInv'
<1>1. /\ pool' = pool /\ topK' = topK /\ timed' = timed /\ scenarios' = scenarios
      /\ current' = current /\ stack' = <<>> /\ deck' = deck /\ results' = results
      /\ hit' = TRUE
  BY DEF ExpireAtCandidate, Expire, request
<1>2. stack' \in Seq(Calls) /\ Len(stack') = 0
      /\ CallsHold(pool', scenarios'[current'], stack', deck')
  BY <1>1, NoCallsHold
<1>3. TypeOK'  BY <1>1, <1>2, DeckSizeFacts DEF IInv, TypeOK
<1>4. OnCourse'  BY <1>1, <1>2 DEF OnCourse
<1>5. StillComplete'  BY <1>1 DEF StillComplete
<1> QED BY <1>3, <1>4, <1>5 DEF IInv

(* A scenario whose ceiling is below the cutoff holds no deck that counts.  *)
LEMMA CeilingIsCovered ==
  ASSUME TypeOK, current <= Len(scenarios), BelowCutoff(scenarios[current].ceiling),
         NEW d \in LegalDecks(pool), OwnScenario(scenarios[current], d)
  PROVE  Covers(Ctx, topK, results, Evaluated(d))
<1> DEFINE s == scenarios[current]
           cs == CompletionSum(s.entries, 1, {}, DeckSize)
<1>1. pool \in Pools /\ IsScenario(pool, s) /\ IsTracker(pool, topK, results)
  BY ScenarioFacts DEF TypeOK
<1>2. Open(s, d, {}, 1)  BY <1>1, RootHolds
<1>3. s.ceiling = cs /\ OwnScenario(s, d) /\ BelowCutoff(s.ceiling)
  BY <1>1 DEF IsScenario
<1> HIDE DEF s
<1>4. Chars({}) = {} /\ Cardinality({}) = 0 /\ ScenarioSum({}, s.units, s.attr) = 0
  BY FS_EmptySet, ScenarioSumIs, SumEmpty DEF Chars
<1>5. cs \in Int
  <2> DEFINE A == Admitted(pool, s.units, s.attr)
  <2>1. A \in SUBSET DOMAIN Card  BY <1>1, PowerSearchAssumption DEF Admitted
  <2>2. IsEntries(s.entries, A, s.units, s.attr)
    <3>1. s.entries = Entries(pool, s.units, s.attr)  BY <1>1 DEF IsScenario
    <3> QED BY <1>1, <3>1, EntriesProperties
  <2> HIDE DEF A
  <2> QED BY <2>1, <2>2, CompletionSumType, DeckSizeFacts
<1>6. TotalPower(d) <= cs
  <2> DEFINE n == DeckSize - Cardinality({})
             b == ScenarioSum({}, s.units, s.attr) + CompletionSum(s.entries, 1, Chars({}), n)
  <2>1. n = DeckSize  BY <1>4, DeckSizeFacts
  <2>2. b = cs
    <3> HIDE DEF n
    <3>1. b = 0 + cs  BY <1>4, <2>1
    <3> QED BY <3>1, <1>5
  <2>3. TotalPower(d) <= b
    <3> HIDE DEF cs
    <3> QED BY <1>1, <1>2, <1>3, BoundHolds
  <2> QED BY <2>2, <2>3
<1> HIDE DEF cs
<1> QED BY <1>1, <1>3, <1>5, <1>6, BelowIsCovered

(* Dropping a scenario below the cut-off preserves the invariant: none of  *)
(* its decks can be an answer.                                             *)
LEMMA PruneScenarioStep == ASSUME IInv, PruneScenario PROVE IInv'
<1>1. /\ pool' = pool /\ topK' = topK /\ timed' = timed /\ scenarios' = scenarios
      /\ current' = current + 1 /\ stack' = stack /\ deck' = deck /\ results' = results
      /\ hit' = hit /\ stack = <<>> /\ ~Finished
      /\ BelowCutoff(scenarios[current].ceiling)
  BY DEF PruneScenario, request
<1>2. current <= Len(scenarios) /\ TypeOK /\ ~hit
  BY <1>1, BetweenScenarios DEF IInv
<1>3. Len(scenarios) \in Nat /\ current \in Nat /\ current >= 1
  BY <1>2, ScenarioFacts
<1>4. stack' \in Seq(Calls) /\ Len(stack') = 0
      /\ CallsHold(pool', scenarios'[current'], stack', deck')
  BY <1>1, NoCallsHold
<1>5. TypeOK'
  <2>1. current' \in 1..Len(scenarios) + 1  BY <1>1, <1>2, <1>3
  <2> QED BY <1>1, <1>2, <2>1 DEF TypeOK
<1>6. OnCourse'  BY <1>1, <1>4 DEF OnCourse
<1>7. StillComplete'
  <2> SUFFICES ASSUME NEW d \in LegalDecks(pool)
               PROVE  \/ Covers(Ctx, topK, results, Evaluated(d))
                      \/ Ahead(scenarios, current', stack', deck, d)
    BY <1>1 DEF StillComplete
  <2>1. CASE Covers(Ctx, topK, results, Evaluated(d))
    BY <2>1
  <2>2. CASE Ahead(scenarios, current, stack, deck, d)
    <3>1. PICK i \in current..Len(scenarios) : OwnScenario(scenarios[i], d)
      BY <2>2 DEF Ahead
    <3>2. CASE i = current
      BY <1>1, <1>2, <3>1, <3>2, CeilingIsCovered
    <3>3. CASE i # current
      <4>1. i \in current'..Len(scenarios)  BY <1>1, <1>3, <3>3
      <4> QED BY <1>1, <3>1, <4>1 DEF Ahead
    <3> QED BY <3>2, <3>3
  <2> QED BY <1>2, <2>1, <2>2 DEF IInv, StillComplete
<1> QED BY <1>5, <1>6, <1>7 DEF IInv

(* Entering a scenario preserves the invariant: its root call has all of   *)
(* the scenario's decks still open.                                        *)
LEMMA SearchScenarioStep == ASSUME IInv, SearchScenario PROVE IInv'
<1> DEFINE s == scenarios[current]
           root == [pos |-> 1, used |-> {}, sum |-> 0]
<1>1. /\ pool' = pool /\ topK' = topK /\ timed' = timed /\ scenarios' = scenarios
      /\ deck' = deck /\ hit' = hit /\ stack = <<>> /\ ~Finished
      /\ current' = IF stack' = <<>> THEN current + 1 ELSE current
      /\ Visit(<<>>, deck, 1, {}, 0)
  BY DEF SearchScenario, request
<1>2. current <= Len(scenarios) /\ TypeOK /\ ~hit
  BY <1>1, BetweenScenarios DEF IInv
<1>3. /\ Len(scenarios) \in Nat /\ current \in Nat /\ current >= 1
      /\ pool \in Pools /\ IsScenario(pool, s) /\ IsTracker(pool, topK, results)
  BY <1>2, ScenarioFacts DEF TypeOK
<1>4. /\ CallHolds(pool, s, {}, 0, root) /\ root \in Calls
      /\ \A d \in LegalDecks(pool) : OwnScenario(s, d) => Open(s, d, {}, 1)
  BY <1>3, RootHolds
<1>5. /\ Chosen(deck, 0) = {} /\ Ids({}) = {} /\ Chars({}) = {} /\ Cardinality({}) = 0
      /\ ScenarioSum({}, s.units, s.attr) = 0
  <2>1. \A i \in 1..0 : FALSE  OBVIOUS
  <2> QED BY <2>1, FS_EmptySet, ScenarioSumIs, SumEmpty DEF Chosen, Ids, Chars
<1>6. /\ results' = results
      /\ \/ /\ stack' = <<>> /\ Prunes(s.entries, {}, 1, {}, 0, DeckSize)
         \/ stack' = Append(<<>>, root)
  <2> DEFINE depth == Len(<<>>)  n == DeckSize - depth
             pr == Prunes(Entry, Ids(Chosen(deck, depth)), 1, {}, 0, n)
  <2>1. depth = 0 /\ DeckSize # 0 /\ n = DeckSize  BY DeckSizeFacts
  <2>2. \/ depth = DeckSize
        \/ stack' = <<>> /\ results' = results /\ pr
        \/ stack' = Append(<<>>, root) /\ results' = results
    BY <1>1, VisitIs, Zenon
  <2> HIDE DEF depth
  <2>3. pr => Prunes(s.entries, {}, 1, {}, 0, DeckSize)
    BY <1>5, <2>1 DEF Entry
  <2> HIDE DEF pr, root
  <2> QED BY <2>1, <2>2, <2>3
<1>7. CASE stack' = <<>> /\ Prunes(s.entries, {}, 1, {}, 0, DeckSize)
  <2>1. current' = current + 1  BY <1>1, <1>7
  <2>2. stack' \in Seq(Calls) /\ Len(stack') = 0
        /\ CallsHold(pool', scenarios'[current'], stack', deck')
    BY <1>7, NoCallsHold
  <2>3. TypeOK'
    <3>1. current' \in 1..Len(scenarios) + 1  BY <1>2, <1>3, <2>1
    <3> QED BY <1>1, <1>2, <1>6, <2>2, <3>1, DeckSizeFacts DEF TypeOK
  <2>4. OnCourse'  BY <1>7, <2>2 DEF OnCourse
  <2>5. StillComplete'
    <3> SUFFICES ASSUME NEW d \in LegalDecks(pool)
                 PROVE  \/ Covers(Ctx, topK, results, Evaluated(d))
                        \/ Ahead(scenarios, current', stack', deck, d)
      BY <1>1, <1>6 DEF StillComplete
    <3>1. CASE Covers(Ctx, topK, results, Evaluated(d))
      BY <3>1
    <3>2. CASE Ahead(scenarios, current, stack, deck, d)
      <4>1. PICK i \in current..Len(scenarios) : OwnScenario(scenarios[i], d)
        BY <3>2 DEF Ahead
      <4>2. CASE i = current
        <5> DEFINE n == DeckSize - Cardinality({})
        <5>1. OwnScenario(s, d) /\ Open(s, d, {}, 1)  BY <4>1, <4>2, <1>4
        <5>2. n = DeckSize  BY <1>5, DeckSizeFacts
        <5> HIDE DEF n, s
        <5>3. Prunes(s.entries, Ids({}), 1, Chars({}), ScenarioSum({}, s.units, s.attr), n)
          BY <1>5, <1>7, <5>2
        <5> QED BY <1>3, <5>1, <5>3, PrunedIsCovered DEF n
      <4>3. CASE i # current
        <5>1. i \in current'..Len(scenarios)  BY <1>3, <2>1, <4>3
        <5> QED BY <1>7, <4>1, <5>1 DEF Ahead
      <4> QED BY <4>2, <4>3
    <3> QED BY <1>2, <3>1, <3>2 DEF IInv, StillComplete
  <2> QED BY <2>3, <2>4, <2>5 DEF IInv
<1>8. CASE stack' = Append(<<>>, root)
  <2>1. /\ stack' \in Seq(Calls) /\ Len(stack') = 1 /\ stack'[1] = root /\ stack' # <<>>
    <3> HIDE DEF root
    <3>1. <<>> \in Seq(Calls) /\ Len(<<>>) = 0  OBVIOUS
    <3>2. /\ stack' \in Seq(Calls) /\ Len(stack') = 1 /\ stack'[1] = root
      BY <1>4, <1>8, <3>1
    <3> QED BY <3>2, EmptySeq
  <2>2. current' = current  BY <1>1, <2>1
  <2>3. TypeOK'
    BY <1>1, <1>2, <1>6, <2>1, <2>2, DeckSizeFacts DEF TypeOK
  <2>4. \A k \in 1..1 : k = 1 /\ k - 1 = 0  OBVIOUS
  <2>5. OnCourse'
    <3>1. CallsHold(pool, s, stack', deck)
      BY <1>4, <1>5, <2>1, <2>4 DEF CallsHold
    <3> QED BY <1>1, <1>2, <2>2, <3>1 DEF OnCourse
  <2>6. StillComplete'
    <3> SUFFICES ASSUME NEW d \in LegalDecks(pool)
                 PROVE  \/ Covers(Ctx, topK, results, Evaluated(d))
                        \/ Ahead(scenarios, current, stack', deck, d)
      BY <1>1, <1>6, <2>2 DEF StillComplete
    <3>1. CASE Covers(Ctx, topK, results, Evaluated(d))
      BY <3>1
    <3>2. CASE Ahead(scenarios, current, stack, deck, d)
      <4>1. PICK i \in current..Len(scenarios) : OwnScenario(scenarios[i], d)
        BY <3>2 DEF Ahead
      <4>2. i = current => Open(s, d, Chosen(deck, 1 - 1), stack'[1].pos)
        <5>1. Chosen(deck, 1 - 1) = {}  BY <1>5
        <5>2. stack'[1].pos = 1  BY <2>1
        <5> QED BY <1>4, <2>1, <4>1, <5>1, <5>2
      <4>3. 1 \in 1..Len(stack')  BY <2>1
      <4> QED BY <4>1, <4>2, <4>3 DEF Ahead
    <3> QED BY <1>2, <3>1, <3>2 DEF IInv, StillComplete
  <2> QED BY <2>3, <2>5, <2>6 DEF IInv
<1> QED BY <1>6, <1>7, <1>8

(* A call that returns preserves the invariant: the decks it left open     *)
(* are covered by the results.                                             *)
LEMMA LeaveStep == ASSUME IInv, Leave PROVE IInv'
<1> DEFINE s == scenarios[current]
           k == Len(stack)
           P == Chosen(deck, k - 1)
<1>1. /\ pool' = pool /\ topK' = topK /\ timed' = timed /\ scenarios' = scenarios
      /\ deck' = deck /\ results' = results /\ hit' = hit
      /\ stack # <<>> /\ stack' = Caller
      /\ current' = IF Caller = <<>> THEN current + 1 ELSE current
      /\ Top.pos <= Len(Entry) =>
           BelowCutoff(Top.sum + Candidate.power * (DeckSize - Depth))
  BY DEF Leave, request
<1>2. TypeOK /\ OnCourse  BY DEF IInv
<1>3. /\ k \in 1..DeckSize /\ k \in Nat /\ k >= 1 /\ Depth = k - 1
      /\ current <= Len(scenarios) /\ IsScenario(pool, s)
      /\ Top = stack[k] /\ Top \in Calls /\ Top.pos \in Nat /\ Top.pos >= 1
      /\ CallHolds(pool, s, P, k - 1, Top)
      /\ Len(Entry) \in Nat
  <2> HIDE DEF k
  <2>1. k = Len(stack)  BY DEF k
  <2> QED BY <1>1, <1>2, <2>1, TopFacts
<1>4. /\ Caller \in Seq(Calls) /\ Len(Caller) = k - 1
      /\ \A i \in 1..k - 1 : Caller[i] = stack[i]
      /\ Caller = <<>> <=> k = 1
  <2> DEFINE caller == Caller
  <2>1. stack \in Seq(Calls) /\ caller = Front(stack)  BY <1>2 DEF TypeOK, Caller
  <2> HIDE DEF caller
  <2>2. IsCaller(stack, caller)  BY <1>1, <2>1, CallerFacts
  <2> QED BY <2>2 DEF IsCaller, caller
<1>5. /\ Len(scenarios) \in Nat /\ current \in Nat /\ current >= 1
      /\ pool \in Pools /\ IsTracker(pool, topK, results)
  BY <1>2, ScenarioFacts DEF TypeOK
<1>6. TypeOK'
  <2>1. current' \in 1..Len(scenarios) + 1  BY <1>1, <1>3, <1>5
  <2>2. Len(stack') <= DeckSize
    <3>1. k <= DeckSize /\ DeckSize \in Nat  BY <1>3, DeckSizeFacts
    <3> QED BY <1>1, <1>3, <1>4, <3>1
  <2> QED BY <1>1, <1>2, <1>4, <2>1, <2>2 DEF TypeOK
<1>7. OnCourse'
  <2>1. CASE Caller = <<>>
    BY <1>1, <2>1, NoCallsHold DEF OnCourse
  <2>2. CASE Caller # <<>>
    <3>1. current' = current  BY <1>1, <2>2
    <3>2. \A i \in 1..k - 1 : i \in 1..k  BY <1>3
    <3>3. CallsHold(pool, s, Caller, deck)
      BY <1>2, <1>4, <3>2 DEF OnCourse, CallsHold
    <3> QED BY <1>1, <1>3, <3>1, <3>3 DEF OnCourse
  <2> QED BY <2>1, <2>2
<1>8. ASSUME NEW d \in LegalDecks(pool), OwnScenario(s, d), Open(s, d, P, Top.pos)
      PROVE  Covers(Ctx, topK, results, Evaluated(d))
  <2> DEFINE n == DeckSize - Cardinality(P)
  <2>1. /\ Cardinality(P) = k - 1 /\ Top.sum = ScenarioSum(P, s.units, s.attr)
    BY <1>3 DEF CallHolds
  <2>2. n = DeckSize - Depth /\ Cardinality(P) < DeckSize
    <3>1. k <= DeckSize /\ DeckSize \in Nat  BY <1>3, DeckSizeFacts
    <3> QED BY <1>3, <2>1, <3>1
  <2>3. Entry = s.entries /\ Candidate = s.entries[Top.pos]
    BY DEF Entry, Candidate
  <2> HIDE DEF n, s, P
  <2>4. Top.pos <= Len(s.entries) =>
          BelowCutoff(ScenarioSum(P, s.units, s.attr) + s.entries[Top.pos].power * n)
    BY <1>1, <2>1, <2>2, <2>3
  <2> DEFINE pos == Top.pos
  <2> HIDE DEF pos
  <2>5. /\ pos \in Nat /\ pos >= 1 /\ Open(s, d, P, pos)
        /\ pos <= Len(s.entries) =>
             BelowCutoff(ScenarioSum(P, s.units, s.attr) + s.entries[pos].power * n)
    BY <1>3, <1>8, <2>4 DEF pos
  <2> QED BY <1>3, <1>5, <1>8, <2>2, <2>5, LeftIsCovered DEF n
<1>9. StillComplete'
  <2> SUFFICES ASSUME ~hit, NEW d \in LegalDecks(pool)
               PROVE  \/ Covers(Ctx, topK, results, Evaluated(d))
                      \/ Ahead(scenarios, current', Caller, deck, d)
    BY <1>1 DEF StillComplete
  <2>1. CASE Covers(Ctx, topK, results, Evaluated(d))
    BY <2>1
  <2>2. CASE Ahead(scenarios, current, stack, deck, d)
    <3>1. PICK i \in current..Len(scenarios) :
            /\ OwnScenario(scenarios[i], d)
            /\ i = current /\ stack # <<>> =>
                 \E j \in 1..k : Open(s, d, Chosen(deck, j - 1), stack[j].pos)
      BY <2>2 DEF Ahead
    <3>2. CASE i # current
      <4>1. i \in current'..Len(scenarios) /\ (Caller # <<>> => current' = current)
        BY <1>1, <1>5, <3>2
      <4> QED BY <3>1, <3>2, <4>1 DEF Ahead
    <3>3. CASE i = current
      <4>1. PICK j \in 1..k : Open(s, d, Chosen(deck, j - 1), stack[j].pos)
        BY <1>1, <3>1, <3>3
      <4>2. CASE j = k
        BY <1>3, <1>8, <3>1, <3>3, <4>1, <4>2
      <4>3. CASE j # k
        <5>1. j \in 1..k - 1 /\ k # 1  BY <1>3, <4>3
        <5>2. current' = current /\ Caller[j] = stack[j] /\ j \in 1..Len(Caller)
          BY <1>1, <1>4, <5>1
        <5> QED BY <3>1, <3>3, <4>1, <5>2 DEF Ahead
      <4> QED BY <4>2, <4>3
    <3> QED BY <3>2, <3>3
  <2> QED BY <2>1, <2>2 DEF IInv, StillComplete
<1> QED BY <1>6, <1>7, <1>9 DEF IInv

(* The innermost call, its candidate and the call behind the candidate.    *)
LEMMA CandidateFacts ==
  ASSUME TypeOK, OnCourse, stack # <<>>, Top.pos <= Len(Entry),
         NEW k, k = Len(stack), NEW P, P = Chosen(deck, k - 1),
         NEW c, c = [Top EXCEPT !.pos = @ + 1]
  PROVE  /\ Advanced = Append(Front(stack), c) /\ c \in Calls /\ c.pos = Top.pos + 1
         /\ CallHolds(pool, scenarios[current], P, k - 1, c)
         /\ Candidate = scenarios[current].entries[Top.pos]
         /\ Candidate.char = Card[Candidate.card].char
         /\ Candidate.id = Card[Candidate.card].id
         /\ Taken <=> \/ Candidate.char \in Chars(P)
                      \/ Candidate.id \in Ids(P)
<1> DEFINE s == scenarios[current]
<1>1. /\ k \in Nat /\ k >= 1 /\ Depth = k - 1
      /\ IsScenario(pool, s)
      /\ Top \in Calls /\ Top.pos \in Nat /\ Top.pos >= 1
      /\ CallHolds(pool, s, P, k - 1, Top)
      /\ Len(Entry) \in Nat
  BY TopFacts
<1>2. pool \in Pools  BY DEF TypeOK
<1>3. Entry = s.entries /\ Candidate = s.entries[Top.pos]  BY DEF Entry, Candidate
<1>4. Advanced = Append(Front(stack), c)  BY DEF Advanced, Caller
<1> HIDE DEF s
<1>5. k - 1 \in Nat  BY <1>1
<1>6. CallHolds(pool, s, P, k - 1, c) /\ c \in Calls /\ c.pos = Top.pos + 1
  <2> DEFINE call == Top  m == k - 1
  <2>1. call \in Calls /\ CallHolds(pool, s, P, m, call) /\ call.pos <= Len(s.entries)
        /\ c = PassedBy(call) /\ m \in Nat
    BY <1>1, <1>3, <1>5 DEF PassedBy
  <2> HIDE DEF call, m
  <2>2. CallHolds(pool, s, P, m, PassedBy(call))
        /\ PassedBy(call) \in Calls /\ PassedBy(call).pos = call.pos + 1
    BY <1>1, <1>2, <2>1, AdvancedHolds
  <2> QED BY <2>1, <2>2 DEF call, m
<1>7. /\ Candidate.char = Card[Candidate.card].char
      /\ Candidate.id = Card[Candidate.card].id
  <2>1. Top.pos \in 1..Len(s.entries)  BY <1>1, <1>3
  <2> QED BY <1>1, <1>2, <1>3, <2>1, EntryTypes
<1>8. Top.used = Chars(P)  BY <1>1 DEF CallHolds
<1>9. (\E i \in 1..Depth : Card[deck[i]].id = Candidate.id) <=> Candidate.id \in Ids(P)
  <2>1. Ids(P) = {Card[deck[i]].id : i \in 1..k - 1}  BY ChosenImages
  <2> QED BY <1>1, <2>1
<1>10. Taken <=> Candidate.char \in Chars(P) \/ Candidate.id \in Ids(P)
  BY <1>8, <1>9, Zenon DEF Taken
<1> QED BY <1>3, <1>4, <1>6, <1>7, <1>10 DEF s

(* Passing over a candidate whose character or identifier is taken         *)
(* preserves the invariant: no open deck holds it.                         *)
LEMMA SkipStep == ASSUME IInv, Skip PROVE IInv'
<1> DEFINE s == scenarios[current]
           k == Len(stack)
           P == Chosen(deck, k - 1)
           c == [Top EXCEPT !.pos = @ + 1]
<1>1. /\ pool' = pool /\ topK' = topK /\ timed' = timed /\ scenarios' = scenarios
      /\ deck' = deck /\ results' = results /\ hit' = hit /\ current' = current
      /\ stack # <<>> /\ stack' = Advanced
      /\ Top.pos <= Len(Entry) /\ Taken
  BY DEF Skip, Considered, request
<1>2. TypeOK /\ OnCourse  BY DEF IInv
<1>3. /\ k \in 1..DeckSize /\ k \in Nat /\ k >= 1
      /\ Top = stack[k] /\ Top.pos \in Nat /\ Top.pos >= 1
      /\ Len(Entry) \in Nat
  <2> HIDE DEF k
  <2>1. k = Len(stack)  BY DEF k
  <2> QED BY <1>1, <1>2, <2>1, TopFacts
<1>4. /\ Advanced = Append(Front(stack), c) /\ c \in Calls /\ c.pos = Top.pos + 1
      /\ CallHolds(pool, s, P, k - 1, c)
      /\ Candidate = s.entries[Top.pos]
      /\ Candidate.char = Card[Candidate.card].char
      /\ Candidate.id = Card[Candidate.card].id
      /\ Candidate.char \in Chars(P) \/ Candidate.id \in Ids(P)
  <2>1. k = Len(stack) /\ P = Chosen(deck, k - 1) /\ c = [Top EXCEPT !.pos = @ + 1]
    OBVIOUS
  <2> HIDE DEF k, P, c
  <2> QED BY <1>1, <1>2, <2>1, CandidateFacts
<1> HIDE DEF c
<1>5. /\ stack' \in Seq(Calls) /\ Len(stack') = k /\ stack' # <<>>
      /\ \A i \in 1..k - 1 : stack'[i] = stack[i]
      /\ stack'[k] = c
  <2>1. stack \in Seq(Calls)  BY <1>2 DEF TypeOK
  <2>2. Replaces(stack, c, stack')  BY <1>1, <1>4, <2>1, ReplacedFacts
  <2> QED BY <2>2 DEF Replaces
<1>6. TypeOK'
  <2>1. Len(stack') <= DeckSize  BY <1>3, <1>5, DeckSizeFacts
  <2> QED BY <1>1, <1>2, <1>5, <2>1 DEF TypeOK
<1>7. \A i \in 1..k : i = k \/ i \in 1..k - 1  BY <1>3
<1>8. OnCourse'
  <2>1. \A i \in 1..k : CallHolds(pool, s, Chosen(deck, i - 1), i - 1, stack'[i])
    BY <1>2, <1>4, <1>5, <1>7 DEF OnCourse, CallsHold
  <2>2. CallsHold(pool, s, stack', deck)  BY <1>5, <2>1 DEF CallsHold
  <2> QED BY <1>1, <1>2, <2>2 DEF OnCourse
<1>9. ASSUME NEW d \in LegalDecks(pool), Open(s, d, P, Top.pos)
      PROVE  Open(s, d, P, stack'[k].pos)
  <2> DEFINE x == Candidate.card  pos == Top.pos
  <2>1. pool \in Pools  BY <1>2 DEF TypeOK
  <2>2. x \notin d \/ x \in P
    <3> HIDE DEF P, s, pos, x
    <3>1. Open(s, d, P, pos)  BY <1>9 DEF pos
    <3>2. Card[x].char \in Chars(P) \/ Card[x].id \in Ids(P)  BY <1>4 DEF x
    <3> QED BY <2>1, <3>1, <3>2, TakenIsNotOpen
  <2>3. x = s.entries[pos].card /\ pos \in Nat /\ Len(s.entries) \in Nat
    BY <1>3, <1>4 DEF Entry
  <2>4. Open(s, d, P, pos + 1)
    <3> HIDE DEF P, s, pos, x
    <3>1. Open(s, d, P, pos)  BY <1>9 DEF pos
    <3> QED BY <2>2, <2>3, <3>1, OpenBehind
  <2> QED BY <1>4, <1>5, <2>4
<1>10. StillComplete'
  <2> SUFFICES ASSUME ~hit, NEW d \in LegalDecks(pool)
               PROVE  \/ Covers(Ctx, topK, results, Evaluated(d))
                      \/ Ahead(scenarios, current, stack', deck, d)
    BY <1>1 DEF StillComplete
  <2>1. CASE Covers(Ctx, topK, results, Evaluated(d))
    BY <2>1
  <2>2. CASE Ahead(scenarios, current, stack, deck, d)
    <3>1. PICK i \in current..Len(scenarios) :
            /\ OwnScenario(scenarios[i], d)
            /\ i = current /\ stack # <<>> =>
                 \E j \in 1..k : Open(s, d, Chosen(deck, j - 1), stack[j].pos)
      BY <2>2 DEF Ahead
    <3>2. CASE i # current
      BY <3>1, <3>2 DEF Ahead
    <3>3. CASE i = current
      <4>1. PICK j \in 1..k : Open(s, d, Chosen(deck, j - 1), stack[j].pos)
        BY <1>1, <3>1, <3>3
      <4>2. Open(s, d, Chosen(deck, j - 1), stack'[j].pos)
        BY <1>3, <1>5, <1>7, <1>9, <4>1
      <4> QED BY <1>5, <3>1, <4>2 DEF Ahead
    <3> QED BY <3>2, <3>3
  <2> QED BY <2>1, <2>2 DEF IInv, StillComplete
<1> QED BY <1>6, <1>8, <1>10 DEF IInv

(* Descend: the candidate is taken, and the node behind it visited.        *)
LEMMA DescendStep == ASSUME IInv, Descend PROVE IInv'
<1> DEFINE s == scenarios[current]
           k == Len(stack)
           P == Chosen(deck, k - 1)
           c == [Top EXCEPT !.pos = @ + 1]
           x == Candidate.card
           D == P \cup {x}
           pos == Top.pos
           used == Top.used \cup {Candidate.char}
           sum == Top.sum + Candidate.power
           e == [pos |-> pos + 1, used |-> used, sum |-> sum]
<1>1. /\ pool' = pool /\ topK' = topK /\ timed' = timed /\ scenarios' = scenarios
      /\ hit' = hit /\ current' = current
      /\ stack # <<>> /\ pos <= Len(Entry) /\ ~Taken
      /\ deck' = [deck EXCEPT ![Depth + 1] = x]
      /\ Visit(Advanced, deck', pos + 1, used, sum)
  BY DEF Descend, Considered, request
<1>2. TypeOK /\ OnCourse  BY DEF IInv
<1>3. /\ k \in 1..DeckSize /\ k \in Nat /\ k >= 1 /\ Depth = k - 1
      /\ current <= Len(scenarios) /\ IsScenario(pool, s)
      /\ Top = stack[k] /\ Top \in Calls /\ pos \in Nat /\ pos >= 1
      /\ CallHolds(pool, s, P, k - 1, Top)
      /\ Len(Entry) \in Nat
  <2> HIDE DEF k
  <2>1. k = Len(stack)  BY DEF k
  <2> QED BY <1>1, <1>2, <2>1, TopFacts
<1>4. /\ Advanced = Append(Front(stack), c) /\ c \in Calls /\ c.pos = pos + 1
      /\ CallHolds(pool, s, P, k - 1, c)
      /\ Candidate = s.entries[pos]
      /\ Candidate.char \notin Chars(P) /\ Candidate.id \notin Ids(P)
  <2>1. k = Len(stack) /\ P = Chosen(deck, k - 1) /\ c = [Top EXCEPT !.pos = @ + 1]
    OBVIOUS
  <2> HIDE DEF k, P, c
  <2> QED BY <1>1, <1>2, <2>1, CandidateFacts
<1>5. /\ Len(scenarios) \in Nat /\ current \in Nat /\ pool \in Pools
      /\ IsTracker(pool, topK, results) /\ deck \in [1..DeckSize -> Nat]
      /\ stack \in Seq(Calls) /\ DeckSize \in Nat
  BY <1>2, ScenarioFacts, DeckSizeFacts DEF TypeOK
<1>6. /\ CallHolds(pool, s, D, k, e) /\ e \in Calls
      /\ x \in pool /\ x \in Nat
  <2> DEFINE m == k - 1  call == Top  cand == Candidate
  <2>a. e = [pos |-> call.pos + 1, used |-> call.used \cup {cand.char},
             sum |-> call.sum + cand.power]
    OBVIOUS
  <2>b. m \in Nat /\ m + 1 = k
    <3> HIDE DEF k
    <3> QED BY <1>3
  <2>c. /\ call \in Calls /\ CallHolds(pool, s, P, m, call)
        /\ call.pos <= Len(s.entries)
    BY <1>1, <1>3 DEF Entry
  <2>d. /\ cand = s.entries[call.pos]
        /\ cand.char \notin Chars(P) /\ cand.id \notin Ids(P)
    BY <1>4
  <2>1. /\ m \in Nat /\ m + 1 = k /\ call \in Calls /\ CallHolds(pool, s, P, m, call)
        /\ call.pos <= Len(s.entries) /\ cand = s.entries[call.pos]
        /\ cand.char \notin Chars(P) /\ cand.id \notin Ids(P)
        /\ e = [pos |-> call.pos + 1, used |-> call.used \cup {cand.char},
                sum |-> call.sum + cand.power]
    <3> HIDE DEF m, call, cand, e, s, P
    <3> QED BY <2>a, <2>b, <2>c, <2>d
  <2> HIDE DEF m, call, cand, e, s, P
  <2>2. /\ CallHolds(pool, s, P \cup {cand.card}, m + 1, e) /\ e \in Calls
        /\ cand.card \in pool /\ cand.card \in Nat
    BY <1>3, <1>5, <2>1, ChosenHolds
  <2> QED BY <2>1, <2>2 DEF cand
<1>7. /\ deck' \in [1..DeckSize -> Nat]
      /\ \A j \in 0..k - 1 : Chosen(deck', j) = Chosen(deck, j)
      /\ Chosen(deck', k) = D
  <2>1. deck' = [deck EXCEPT ![k] = x]
    <3>1. Depth + 1 = k  BY <1>3
    <3> QED BY <1>1, <3>1
  <2> HIDE DEF x, k
  <2>2. Selects(deck, k, x, Selected(deck, k, x))
    BY <1>3, <1>5, <1>6, ChosenFacts
  <2>3. deck' = Selected(deck, k, x)  BY <2>1 DEF Selected
  <2>4. Selects(deck, k, x, deck')  BY <2>2, <2>3
  <2> QED BY <2>4 DEF Selects
<1>8. Replaces(stack, c, Advanced) /\ Pushes(stack, c, e, Append(Advanced, e))
  <2> HIDE DEF c, e
  <2> QED BY <1>1, <1>4, <1>5, <1>6, ReplacedFacts, PushedFacts
<1>9. /\ Cardinality(D) = k /\ Distinct(D) /\ IsFiniteSet(D)
      /\ used = Chars(D) /\ sum = ScenarioSum(D, s.units, s.attr)
  <2>1. e.used = used /\ e.sum = sum  OBVIOUS
  <2> HIDE DEF e, used, sum, D
  <2> QED BY <1>6, <2>1 DEF CallHolds
<1>10. \/ /\ k = DeckSize /\ stack' = Advanced
          /\ results' = Insert(Ctx, topK, results, Evaluated(D))
       \/ /\ k # DeckSize /\ stack' = Advanced /\ results' = results
          /\ Prunes(s.entries, Ids(D), pos + 1, used, sum, DeckSize - k)
       \/ k # DeckSize /\ stack' = Append(Advanced, e) /\ results' = results
  <2>1. Len(Advanced) = k /\ k = Len(Advanced)
    BY <1>8 DEF Replaces
  <2>2. Ids(D) = Ids(Chosen(deck', k)) /\ Evaluated(D) = Evaluated(Chosen(deck', k))
    BY <1>7
  <2>3. s.entries = Entry  BY DEF Entry
  <2> DEFINE pr == Prunes(Entry, Ids(D), pos + 1, used, sum, DeckSize - k)
  <2>4. \/ /\ k = DeckSize /\ stack' = Advanced
           /\ results' = Insert(Ctx, topK, results, Evaluated(Chosen(deck', DeckSize)))
        \/ k # DeckSize /\ stack' = Advanced /\ results' = results /\ pr
        \/ k # DeckSize /\ stack' = Append(Advanced, e) /\ results' = results
    <3> HIDE DEF k, D, pos, used, sum
    <3> QED BY <1>1, <2>1, <2>2, VisitIs, Zenon
  <2>5. pr => Prunes(s.entries, Ids(D), pos + 1, used, sum, DeckSize - k)
    BY <2>3
  <2> HIDE DEF pr, e, D, used, sum, pos, k
  <2> QED BY <2>2, <2>4, <2>5
<1> HIDE DEF c, e, used, sum, D, x
<1>11. /\ Len(Advanced) = k /\ Advanced \in Seq(Calls) /\ Advanced # <<>>
       /\ \A i \in 1..k - 1 : Advanced[i] = stack[i]
       /\ Advanced[k] = c
  BY <1>8 DEF Replaces
<1>12. /\ Len(Append(Advanced, e)) = k + 1 /\ Append(Advanced, e) \in Seq(Calls)
       /\ Append(Advanced, e) # <<>>
       /\ \A i \in 1..k - 1 : Append(Advanced, e)[i] = stack[i]
       /\ Append(Advanced, e)[k] = c /\ Append(Advanced, e)[k + 1] = e
  BY <1>8 DEF Pushes
<1>13. /\ stack' \in Seq(Calls) /\ stack' # <<>>
       /\ Len(stack') \in {k, k + 1}
       /\ \A i \in 1..k - 1 : stack'[i] = stack[i]
       /\ stack'[k] = c
       /\ Len(stack') = k + 1 => k # DeckSize /\ stack'[k + 1] = e
  <2> HIDE DEF k
  <2>1. CASE stack' = Advanced
    <3>1. Len(stack') = k /\ k # k + 1  BY <1>3, <1>11, <2>1
    <3> QED BY <1>11, <2>1, <3>1
  <2>2. CASE k # DeckSize /\ stack' = Append(Advanced, e)
    BY <1>12, <2>2
  <2> QED BY <1>10, <2>1, <2>2
<1>14. D \in SUBSET pool
  <2>1. P \in SUBSET pool  BY <1>3 DEF CallHolds, Admitted
  <2> QED BY <1>6, <2>1 DEF D
<1>15. /\ IsTracker(pool, topK, results')
       /\ \A d \in LegalDecks(pool) :
            Covers(Ctx, topK, results, Evaluated(d)) => Covers(Ctx, topK, results', Evaluated(d))
       /\ k = DeckSize => Covers(Ctx, topK, results', Evaluated(D))
  <2>1. CASE k = DeckSize /\ results' = Insert(Ctx, topK, results, Evaluated(D))
    <3>1. D \in LegalDecks(pool)  BY <1>5, <1>9, <1>14, <2>1, LegalDeckFrom
    <3> HIDE DEF k
    <3> QED BY <1>5, <2>1, <3>1, TrackerGrows
  <2>2. CASE k # DeckSize /\ results' = results
    BY <1>5, <2>2
  <2> QED BY <1>10, <2>1, <2>2
<1>16. TypeOK'
  <2>1. Len(stack') <= DeckSize
    <3> DEFINE m == Len(stack')
    <3>1. m = k \/ (m = k + 1 /\ k # DeckSize)  BY <1>13
    <3>2. k <= DeckSize  BY <1>3
    <3> HIDE DEF m, k
    <3>3. m <= DeckSize  BY <1>3, <1>5, <3>1, <3>2
    <3> QED BY <3>3 DEF m
  <2>2. current' \in 1..Len(scenarios') + 1  BY <1>1, <1>2 DEF TypeOK
  <2> QED BY <1>1, <1>2, <1>7, <1>13, <1>15, <2>1, <2>2 DEF TypeOK
<1>17. OnCourse'
  <2>1. ASSUME NEW i \in 1..Len(stack')
        PROVE  CallHolds(pool, s, Chosen(deck', i - 1), i - 1, stack'[i])
    <3>1. i \in 1..k - 1 \/ i = k \/ (i = k + 1 /\ Len(stack') = k + 1)
      <4>1. i \in 1..k \/ (i \in 1..k + 1 /\ Len(stack') = k + 1)  BY <1>13
      <4> HIDE DEF k
      <4> QED BY <1>3, <4>1
    <3>2. CASE i \in 1..k - 1
      <4>1. i - 1 \in 0..k - 1 /\ i \in 1..k  BY <1>3, <3>2
      <4>2. CallHolds(pool, s, Chosen(deck, i - 1), i - 1, stack[i])
        BY <1>2, <4>1 DEF OnCourse, CallsHold
      <4> QED BY <1>7, <1>13, <3>2, <4>1, <4>2
    <3>3. CASE i = k
      <4>1. k - 1 \in 0..k - 1  BY <1>3
      <4> QED BY <1>4, <1>7, <1>13, <3>3, <4>1
    <3>4. CASE i = k + 1 /\ Len(stack') = k + 1
      <4>1. i - 1 = k  BY <1>3, <3>4
      <4> QED BY <1>6, <1>7, <1>13, <3>4, <4>1
    <3> QED BY <3>1, <3>2, <3>3, <3>4
  <2>2. CallsHold(pool, s, stack', deck')  BY <2>1, Zenon DEF CallsHold
  <2> QED BY <1>1, <1>3, <2>2 DEF OnCourse
<1>18. ASSUME NEW d \in LegalDecks(pool), OwnScenario(s, d),
              NEW j \in 1..k, Open(s, d, Chosen(deck, j - 1), stack[j].pos)
       PROVE  \/ Covers(Ctx, topK, results', Evaluated(d))
              \/ \E i \in 1..Len(stack') : Open(s, d, Chosen(deck', i - 1), stack'[i].pos)
  <2>0. k \in 1..Len(stack') /\ k - 1 \in 0..k - 1 /\ (Len(stack') = k + 1 => k + 1 \in 1..Len(stack'))
    BY <1>3, <1>13
  <2>1. CASE j # k
    <3>1. j \in 1..k - 1 /\ j - 1 \in 0..k - 1 /\ j \in 1..Len(stack')  BY <1>3, <1>13, <2>1
    <3>2. Open(s, d, Chosen(deck', j - 1), stack'[j].pos)  BY <1>7, <1>13, <1>18, <3>1
    <3> QED BY <3>1, <3>2
  <2>2. CASE j = k
    <3>1. Open(s, d, P, pos)  BY <1>3, <1>18, <2>2
    <3>2. x = s.entries[pos].card /\ Len(s.entries) \in Nat
      BY <1>3, <1>4 DEF x, Entry
    <3>3. CASE x \notin d
      <4>1. Open(s, d, P, pos + 1)
        <5> HIDE DEF pos, P, s
        <5> QED BY <1>3, <3>1, <3>2, <3>3, OpenBehind
      <4>2. Open(s, d, Chosen(deck', k - 1), stack'[k].pos)
        BY <1>4, <1>7, <1>13, <2>0, <4>1
      <4> QED BY <2>0, <4>2
    <3>4. CASE x \in d
      <4>1. Open(s, d, D, pos + 1)
        <5> HIDE DEF pos, P, s
        <5> QED BY <1>3, <3>1, <3>2, <3>4, OpenWith DEF D
      <4>2. CASE k = DeckSize
        <5>1. D = d
          <6>1. D \in SUBSET d  BY <4>1 DEF Open
          <6>2. IsFiniteSet(d) /\ Cardinality(d) = DeckSize  BY <1>5, LegalDeckFacts
          <6> QED BY <1>9, <4>2, <6>1, <6>2, FS_Subset
        <5> QED BY <1>15, <4>2, <5>1
      <4>3. CASE /\ k # DeckSize /\ results' = results
                 /\ Prunes(s.entries, Ids(D), pos + 1, used, sum, DeckSize - k)
        <5> DEFINE n == DeckSize - Cardinality(D)  q == pos + 1
        <5>1. n = DeckSize - k /\ q \in Nat /\ q >= 1  BY <1>3, <1>9
        <5>2. Prunes(s.entries, Ids(D), q, Chars(D), ScenarioSum(D, s.units, s.attr), n)
          <6> HIDE DEF k, pos, s, n
          <6> QED BY <1>9, <4>3, <5>1
        <5>3. Open(s, d, D, q)  BY <4>1
        <5> HIDE DEF q, n, s
        <5>4. Covers(Ctx, topK, results, Evaluated(d))
          BY <1>3, <1>5, <1>18, <5>1, <5>2, <5>3, PrunedIsCovered DEF n
        <5> QED BY <4>3, <5>4
      <4>4. CASE k # DeckSize /\ stack' = Append(Advanced, e) /\ results' = results
        <5>1. Len(stack') = k + 1 /\ stack'[k + 1] = e  BY <1>12, <4>4
        <5>2. k + 1 \in 1..Len(stack') /\ (k + 1) - 1 = k  BY <1>3, <2>0, <5>1
        <5>3. e.pos = pos + 1  BY DEF e
        <5>4. Open(s, d, Chosen(deck', (k + 1) - 1), stack'[k + 1].pos)
          BY <1>7, <4>1, <5>1, <5>2, <5>3
        <5> QED BY <5>2, <5>4
      <4> QED BY <1>10, <4>2, <4>3, <4>4
    <3> QED BY <3>3, <3>4
  <2> QED BY <2>1, <2>2
<1>19. StillComplete'
  <2> SUFFICES ASSUME ~hit, NEW d \in LegalDecks(pool)
               PROVE  \/ Covers(Ctx, topK, results', Evaluated(d))
                      \/ Ahead(scenarios, current, stack', deck', d)
    BY <1>1 DEF StillComplete
  <2>1. CASE Covers(Ctx, topK, results, Evaluated(d))
    BY <1>15, <2>1
  <2>2. CASE Ahead(scenarios, current, stack, deck, d)
    <3>1. PICK i \in current..Len(scenarios) :
            /\ OwnScenario(scenarios[i], d)
            /\ i = current /\ stack # <<>> =>
                 \E j \in 1..k : Open(s, d, Chosen(deck, j - 1), stack[j].pos)
      BY <2>2 DEF Ahead
    <3>2. CASE i # current
      BY <3>1, <3>2 DEF Ahead
    <3>3. CASE i = current
      <4>1. PICK j \in 1..k : Open(s, d, Chosen(deck, j - 1), stack[j].pos)
        BY <1>1, <3>1, <3>3
      <4>2. \/ Covers(Ctx, topK, results', Evaluated(d))
            \/ \E l \in 1..Len(stack') : Open(s, d, Chosen(deck', l - 1), stack'[l].pos)
        BY <1>18, <3>1, <3>3, <4>1
      <4> QED BY <3>1, <4>2 DEF Ahead
    <3> QED BY <3>2, <3>3
  <2> QED BY <2>1, <2>2 DEF IInv, StillComplete
<1> QED BY <1>16, <1>17, <1>19 DEF IInv

(* A step that changes nothing preserves the invariant.                    *)
LEMMA StutterStep == ASSUME IInv, UNCHANGED vars PROVE IInv'
<1>1. /\ pool' = pool /\ topK' = topK /\ timed' = timed /\ scenarios' = scenarios
      /\ current' = current /\ stack' = stack /\ deck' = deck /\ results' = results
      /\ hit' = hit
  BY DEF vars, request
<1>2. TypeOK'  BY <1>1 DEF IInv, TypeOK
<1>3. OnCourse'  BY <1>1 DEF IInv, OnCourse
<1>4. StillComplete'  BY <1>1 DEF IInv, StillComplete
<1> QED BY <1>2, <1>3, <1>4 DEF IInv

(***************************************************************************)
(* The invariant holds.                                                    *)
(***************************************************************************)
THEOREM Invariance == Spec => []IInv
<1>1. Init => IInv  BY InitHolds
<1>2. IInv /\ [Next]_vars => IInv'
  <2> SUFFICES ASSUME IInv, [Next]_vars PROVE IInv'
    OBVIOUS
  <2>1. CASE ExpireBetweenScenarios  BY <2>1, ExpireBetweenScenariosStep
  <2>2. CASE PruneScenario  BY <2>2, PruneScenarioStep
  <2>3. CASE SearchScenario  BY <2>3, SearchScenarioStep
  <2>4. CASE Leave  BY <2>4, LeaveStep
  <2>5. CASE ExpireAtCandidate  BY <2>5, ExpireAtCandidateStep
  <2>6. CASE Skip  BY <2>6, SkipStep
  <2>7. CASE Descend  BY <2>7, DescendStep
  <2>8. CASE UNCHANGED vars  BY <2>8, StutterStep
  <2> QED BY <2>1, <2>2, <2>3, <2>4, <2>5, <2>6, <2>7, <2>8 DEF Next
<1> QED BY <1>1, <1>2, PTL DEF Spec

-----------------------------------------------------------------------------

(* The results are evaluated decks of the pool, one at each place.         *)
LEMMA ListedResults ==
  ASSUME TypeOK
  PROVE  /\ ToSet(results) \in SUBSET DeckResults(pool)
         /\ \A i \in 1..Len(results) : results[i] \in ToSet(results)
         /\ \A r \in ToSet(results) : \E i \in 1..Len(results) : r = results[i]
<1>1. results \in Seq(DeckResults(pool))  BY DEF TypeOK, IsTracker
<1>2. DOMAIN results = 1..Len(results)  BY <1>1, LenProperties
<1>3. \A i \in 1..Len(results) : results[i] \in DeckResults(pool)
  BY <1>1, ElementOfSeq
<1> QED BY <1>2, <1>3 DEF ToSet

(***************************************************************************)
(* Cut short or not, only legal decks are reported, each with its own      *)
(* exact evaluation and never with a scenario's ceiling.                   *)
(***************************************************************************)
THEOREM Legality == Spec => []OnlyLegalDecks
<1>1. IInv => OnlyLegalDecks
  BY ListedResults DEF IInv, OnlyLegalDecks, DeckResults
<1> QED BY <1>1, Invariance, PTL

(***************************************************************************)
(* What each active call was told of its prefix stays true of the shared   *)
(* array below it, whatever deeper calls have written there.               *)
(***************************************************************************)
THEOREM Agreement == Spec => []PrefixAgrees
<1>1. IInv => PrefixAgrees
  <2> SUFFICES ASSUME IInv, NEW d \in 1..Len(stack)
               PROVE  /\ stack[d].used = {Card[deck[i]].char : i \in 1..d - 1}
                      /\ Cardinality({Card[deck[i]].id : i \in 1..d - 1}) = d - 1
                      /\ stack[d].sum =
                           SumFunction([c \in {deck[i] : i \in 1..d - 1} |->
                             ScenarioPower(c, scenarios[current].units,
                                           scenarios[current].attr # NoAttr)])
    BY DEF PrefixAgrees
  <2> DEFINE s == scenarios[current]
             P == Chosen(deck, d - 1)
  <2>1. CallHolds(pool, s, P, d - 1, stack[d])
    BY DEF IInv, OnCourse, CallsHold
  <2>2. /\ P \in SUBSET Admitted(pool, s.units, s.attr) /\ IsFiniteSet(P)
        /\ Distinct(P) /\ Cardinality(P) = d - 1
        /\ stack[d].used = Chars(P) /\ stack[d].sum = ScenarioSum(P, s.units, s.attr)
    BY <2>1 DEF CallHolds
  <2>3. P \in SUBSET DOMAIN Card
    BY <2>2, PowerSearchAssumption DEF IInv, TypeOK, Admitted
  <2>4. Cardinality(Ids(P)) = d - 1
    <3> HIDE DEF P, s
    <3> QED BY <2>2, <2>3, IdsFacts
  <2>5. stack[d].sum = SumFunction([c \in P |-> ScenarioPower(c, s.units, s.attr # NoAttr)])
    BY <2>2, Zenon DEF ScenarioSum
  <2>6. P = {deck[i] : i \in 1..d - 1}  BY Zenon DEF Chosen
  <2>7. /\ {Card[deck[i]].id : i \in 1..d - 1} = Ids(P)
        /\ {Card[deck[i]].char : i \in 1..d - 1} = Chars(P)
    BY ChosenImages
  <2>8. stack[d].sum = SumFunction([c \in {deck[i] : i \in 1..d - 1} |->
                                      ScenarioPower(c, s.units, s.attr # NoAttr)])
    BY <2>5, Zenon DEF Chosen
  <2> QED BY <2>2, <2>4, <2>7, <2>8
<1> QED BY <1>1, Invariance, PTL

(* A tracker whose results cover a set of results they are taken from      *)
(* lists the canonical answer over that set.                               *)
LEMMA CoveredIsListed ==
  ASSUME TypeOK,
         NEW S \in SUBSET DeckResults(pool), ToSet(results) \in SUBSET S,
         \A o \in S : Covers(Ctx, topK, results, o)
  PROVE  ToSet(results) = CanonicalTopK(Ctx, topK, S)
<1> DEFINE R == DeckResults(pool)
<1>1. ResultSet(R) /\ IsFiniteSet(R)  BY DeckResultSet DEF TypeOK
<1>2. IsFiniteSet(S)  BY <1>1, FS_Subset
<1>3. topK \in Nat /\ results \in Seq(R) /\ Len(results) <= topK /\ Ranked(Ctx, results)
  BY DEF TypeOK, IsTracker
<1> HIDE DEF R
<1> QED BY <1>1, <1>2, <1>3, CoveringListIsCanonical DEF R

(* What is listed is covered by itself.                                    *)
LEMMA ListedIsCovered ==
  ASSUME TypeOK, NEW o \in ToSet(results)
  PROVE  Covers(Ctx, topK, results, o)
<1>1. PICK i \in 1..Len(results) : o = results[i]  BY ListedResults
<1>2. o \in DeckResults(pool)  BY ListedResults
<1>3. ~KeyLess(Ctx, o, o)
  <2>1. ResultSet(DeckResults(pool))  BY DeckResultSet DEF TypeOK
  <2> QED BY <1>2, <2>1, KeyLessIsTotalOrder
<1> QED BY <1>1, <1>3 DEF Covers

(***************************************************************************)
(* While the search runs, a deck that belongs to the final answer is       *)
(* listed or still ahead of an active call or of a scenario to come.       *)
(***************************************************************************)
THEOREM Completeness == Spec => []NothingLost
<1>1. IInv => NothingLost
  <2> SUFFICES ASSUME IInv, ~hit, NEW d \in LegalDecks(pool),
                      Evaluated(d) \in CanonicalTopK(Ctx, topK,
                                         ToSet(results) \cup {Evaluated(d)}),
                      ~(Evaluated(d) \in ToSet(results))
               PROVE  \E i \in current..Len(scenarios) :
                        /\ OwnScenario(scenarios[i], d)
                        /\ i = current /\ stack # <<>> =>
                             \E depth \in 1..Len(stack) :
                               StillAhead(d, stack[depth], depth - 1)
    BY DEF NothingLost
  <2>1. ~Covers(Ctx, topK, results, Evaluated(d))
    <3> SUFFICES ASSUME Covers(Ctx, topK, results, Evaluated(d)) PROVE FALSE
      OBVIOUS
    <3> DEFINE S == ToSet(results) \cup {Evaluated(d)}
    <3>1. TypeOK /\ S \in SUBSET DeckResults(pool) /\ ToSet(results) \in SUBSET S
      BY ListedResults DEF IInv, DeckResults
    <3>2. \A o \in S : Covers(Ctx, topK, results, o)
      BY <3>1, ListedIsCovered
    <3> HIDE DEF S
    <3>3. ToSet(results) = CanonicalTopK(Ctx, topK, S)
      BY <3>1, <3>2, CoveredIsListed
    <3> QED BY <3>3 DEF S
  <2>2. Ahead(scenarios, current, stack, deck, d)
    BY <2>1 DEF IInv, StillComplete
  <2>3. ASSUME NEW k \in 1..Len(stack),
               Open(scenarios[current], d, Chosen(deck, k - 1), stack[k].pos)
        PROVE  StillAhead(d, stack[k], k - 1)
    BY <2>3 DEF Open, StillAhead, Chosen, Entry
  <2> QED BY <2>2, <2>3 DEF Ahead
<1> QED BY <1>1, Invariance, PTL

(***************************************************************************)
(* A search that was not cut short answers with the canonical Top-K of all *)
(* legal decks of the pool.                                                *)
(***************************************************************************)
THEOREM Exactness == Spec => []CompleteIsCanonical
<1>1. IInv => CompleteIsCanonical
  <2> SUFFICES ASSUME IInv, Finished, ~hit
               PROVE  ToSet(results) =
                        CanonicalTopK(Ctx, topK, {Evaluated(d) : d \in LegalDecks(pool)})
    BY DEF CompleteIsCanonical
  <2> DEFINE S == DeckResults(pool)
  <2>1. current > Len(scenarios) /\ Len(scenarios) \in Nat /\ current \in Nat
    BY ScenarioFacts DEF IInv, Finished
  <2>2. \A d \in LegalDecks(pool) : ~Ahead(scenarios, current, stack, deck, d)
    BY <2>1 DEF Ahead
  <2>3. \A o \in S : Covers(Ctx, topK, results, o)
    BY <2>2 DEF IInv, StillComplete, DeckResults
  <2>4. TypeOK /\ S \in SUBSET DeckResults(pool) /\ ToSet(results) \in SUBSET S
    BY ListedResults DEF IInv
  <2> HIDE DEF S
  <2>5. ToSet(results) = CanonicalTopK(Ctx, topK, S)
    BY <2>3, <2>4, CoveredIsListed
  <2> QED BY <2>5 DEF S, DeckResults
<1> QED BY <1>1, Invariance, PTL
=============================================================================
