----------------------------- MODULE Evaluation -----------------------------
(***************************************************************************)
(* The exact evaluation of a complete deck (src/src/search/evaluate.rs,     *)
(* placement.rs and context.rs), as operators over the request that a       *)
(* search answers.                                                          *)
(*                                                                         *)
(* A deck is a sequence of card indices in slot order; its first slot is    *)
(* the leader's in a final chapter.  Requests have exchangeable free slots, *)
(* slot constraints that fix no character twice, no multi-unit tables and   *)
(* no shuffle bonus.  Bonuses are whole numbers, so that the rounding       *)
(* margins of the code are zero; the live score is a product of power and   *)
(* skills.                                                                 *)
(***************************************************************************)
EXTENDS TopK, Sorting

CONSTANTS
  Card,       \* [card index -> record], a pool's cards in dense order
  DeckSize,   \* 5 in the code
  NoChar,     \* not a character
  DiffAttr,   \* bonus of a world bloom deck with n attributes, at n
  LiveStep,   \* live score per step of the event value
  PowerStep,  \* power per step of the MySekai value
  RankBase,   \* more than any live score, 2^32 in the code
  IdBase      \* more than any public id and any card index

SkillKinds == {"plain", "units", "reference"}

ASSUME CardAssumption ==
  \A c \in DOMAIN Card :
    LET k == Card[c]
    IN  /\ {k.id, k.char, k.attr, k.unit} \subseteq Nat
        \* shared unit -> shared attribute -> power
        /\ k.power \in [BOOLEAN -> [BOOLEAN -> Nat]]
        /\ k.kind \in SkillKinds /\ {k.skill, k.gain, k.reference} \subseteq Nat
        /\ {k.base, k.limited, k.honor, k.leaderLimit} \subseteq Nat
        /\ c \in Nat /\ c < IdBase /\ k.id < IdBase

ASSUME ConstantAssumption ==
  /\ DeckSize \in Nat /\ DeckSize >= 2
  /\ {LiveStep, PowerStep} \subseteq Nat \ {0} /\ {RankBase, IdBase} \subseteq Nat
  /\ \A n \in 0..DeckSize : DiffAttr[n] \in Nat

\* A support deck is a list of public ids by falling value, and how many count.
RequestOK(q) ==
  /\ q.pool \subseteq DOMAIN Card /\ IsFiniteSet(q.pool)
  /\ q.topK \in Nat \ {0} /\ q.cap \in 0..DeckSize
  /\ {q.fixedIds, q.fixedChars} \subseteq Seq(Nat)
  /\ {q.unique, q.worldBloom, q.final, q.members} \subseteq BOOLEAN
  /\ NoChar \in DOMAIN q.support
  /\ \A p \in DOMAIN q.support :
       LET cards == q.support[p].cards
       IN  /\ q.support[p].count \in Nat
           /\ cards \in Seq([id : Nat, value : Nat])
           /\ \A i, j \in DOMAIN cards :
                i < j => /\ cards[i].value >= cards[j].value
                         /\ cards[i].id # cards[j].id
  /\ \A c, d \in q.pool : Card[c].id = Card[d].id => Card[c].char = Card[d].char

VARIABLE request

Ctx == [target |-> request.target, minimize |-> FALSE]

Slots == 1..DeckSize

Ids(d) == {Card[c].id : c \in ToSet(d)}

Code(list) ==
  LET code[i \in 0..Len(list)] == IF i = 0 THEN 0 ELSE code[i - 1] * IdBase + list[i]
  IN  code[Len(list)]

-----------------------------------------------------------------------------
(* Slot constraints.                                                        *)

\* Fixed cards and characters fix members, and no slot, in members mode.
FixedPrefix ==
  IF request.members
  THEN 0
  ELSE Min({DeckSize, Len(request.fixedIds) + Len(request.fixedChars)})

CardMatchesSlot(slot, c) ==
  LET n == Len(request.fixedIds)
  IN  /\ slot <= FixedPrefix =>
           /\ slot \in DOMAIN request.fixedIds => Card[c].id = request.fixedIds[slot]
           /\ slot - n \in DOMAIN request.fixedChars =>
                Card[c].char = request.fixedChars[slot - n]
      /\ (request.final /\ slot = 1 /\ request.leader # NoChar) =>
           Card[c].char = request.leader

DeckMatchesMembers(d) ==
  /\ ToSet(request.fixedIds) \subseteq Ids(d)
  /\ ToSet(request.fixedChars) \subseteq {Card[c].char : c \in ToSet(d)}

DeckMatchesSlots(d) ==
  /\ request.members => DeckMatchesMembers(d)
  /\ \A slot \in 1..Max({FixedPrefix,
                         IF request.final /\ request.leader # NoChar THEN 1 ELSE 0}) :
       CardMatchesSlot(slot, d[slot])

\* A complete deck may be evaluated.
Valid(d) ==
  /\ DeckMatchesSlots(d)
  /\ request.leader # NoChar => \E c \in ToSet(d) : Card[c].char = request.leader

\* Slots up to this one hold roles, the others are exchangeable.
RolePrefix == Max({FixedPrefix, IF request.final THEN 1 ELSE 0})

\* The decks of distinct characters, or of distinct cards of one character,
\* whatever their slots.
Tuples ==
  {d \in [Slots -> request.pool] :
     LET chars == {Card[d[slot]].char : slot \in Slots}
     IN  IF request.unique
         THEN Cardinality(chars) = DeckSize
         ELSE Cardinality(chars) = 1 /\ Cardinality(Ids(d)) = DeckSize}

-----------------------------------------------------------------------------
(* The exact evaluation of a deck.                                          *)

SumOf(list) ==
  LET sum[i \in 0..Len(list)] == IF i = 0 THEN 0 ELSE sum[i - 1] + list[i]
  IN  sum[Len(list)]

Power(d) ==
  LET members == ToSet(d)
      unit == Cardinality({Card[c].unit : c \in members}) = 1
      attr == Cardinality({Card[c].attr : c \in members}) = 1
  IN  SumOf([i \in Slots |-> Card[d[i]].power[unit][attr]])

\* A unit skill gains from each other member of its unit; a reference skill
\* gains what the best other member's static skill is worth, up to its gain.
SkillOf(d, c) ==
  LET others == ToSet(d) \ {c}
      k == Card[c]
  IN  k.skill +
      CASE k.kind = "plain" -> 0
        [] k.kind = "units" ->
             k.gain * Cardinality({o \in others : Card[o].unit = k.unit})
        [] k.kind = "reference" ->
             Min({k.gain, Max({Card[o].reference : o \in others})})

\* The profile of the leader's character, when it has one of its own.
SupportFor(char) ==
  IF request.final /\ char \in DOMAIN request.support /\ request.support[char].count > 0
  THEN request.support[char]
  ELSE request.support[NoChar]

\* The first count values but those of nothing.
FirstSum(values, count) ==
  LET got[n \in 0..Len(values)] ==
        IF n = 0
        THEN [left |-> count, sum |-> 0]
        ELSE LET prev == got[n - 1]
             IN  IF prev.left = 0 \/ values[n] = 0 THEN prev
                 ELSE [left |-> prev.left - 1, sum |-> prev.sum + values[n]]
  IN  got[Len(values)].sum

\* The first count entries that are not main cards; those of no value are last.
SupportSum(profile, main) ==
  FirstSum([i \in 1..Len(profile.cards) |->
              IF profile.cards[i].id \in main THEN 0 ELSE profile.cards[i].value],
           profile.count)

SupportBonus(d) == SupportSum(SupportFor(Card[d[1]].char), Ids(d))

\* The first cards with a limited amount use up the cap.
Capped == request.final \/ ~request.worldBloom

LimitedBonus(d) ==
  FirstSum([i \in Slots |-> Card[d[i]].limited], IF Capped THEN request.cap ELSE DeckSize)

TotalBonus(d) ==
  SumOf([i \in Slots |-> Card[d[i]].base]) + LimitedBonus(d)
    + (IF request.final THEN Card[d[1]].honor + Card[d[1]].leaderLimit ELSE 0)
    + (IF request.worldBloom
       THEN DiffAttr[Cardinality({Card[c].attr : c \in ToSet(d)})] + SupportBonus(d)
       ELSE 0)

LiveValue(power, skill) == (power * (10 + skill)) \div 10

LiveScore(d) == LiveValue(Power(d), SumOf([i \in Slots |-> SkillOf(d, d[i])]))

EventPoint(live, bonus) == ((10 + live \div LiveStep) * (100 + bonus)) \div 100

MysekaiValue(power, bonus) == ((10 + power \div PowerStep) * (100 + bonus)) \div 2

\* "live" is the score target without an event.
Score(d) ==
  LET bonus == TotalBonus(d)
      live == LiveScore(d)
  IN  CASE request.target = "score" -> EventPoint(live, bonus) * RankBase + live
        [] request.target = "live" -> live * RankBase + live
        [] request.target = "bonus" -> bonus * RankBase + live
        [] request.target = "mysekai" -> MysekaiValue(Power(d), bonus)

\* The result of a deck reported in some order.
Reported(d, order) ==
  [score |-> Score(d), power |-> Power(d), cards |-> order,
   set |-> Code(Ascending(Ids(d))),
   layout |-> Code([i \in Slots |-> Card[order[i]].id] \o order)]

\* The free slots in order of public id and dense index.
SortExchangeable(d) ==
  LET free == {d[i] : i \in RolePrefix + 1..DeckSize}
      before(a, b) == \/ Card[a].id < Card[b].id
                      \/ Card[a].id = Card[b].id /\ a < b
  IN  SubSeq(d, 1, RolePrefix) \o SortedBy(free, before)

BonusOrderObservable(d) ==
  LET limited == {c \in ToSet(d) : Card[c].limited > 0}
  IN  /\ request.cap \in 1..DeckSize - 1 /\ Capped
      /\ Cardinality({Card[c].limited : c \in limited}) > 1
      /\ Cardinality(limited) > request.cap

Arrangements(d) ==
  {e \in [Slots -> ToSet(d)] :
     /\ ToSet(e) = ToSet(d)
     /\ \A slot \in 1..RolePrefix : e[slot] = d[slot]}

BestOf(S) == CHOOSE r \in S : \A o \in S : ~KeyLess(Ctx, o, r)

\* Mutant: the order the limited amounts are counted in is not searched.
EvaluateSorted(d) ==
  IF Valid(d) THEN {Reported(d, SortExchangeable(d))} ELSE {}

\* The result of a complete deck, or nothing.
EvaluateCandidate(d) ==
  IF ~Valid(d)
  THEN {}
  ELSE LET tried == IF BonusOrderObservable(d)
                    THEN {<<e, e>> : e \in Arrangements(d)}
                    ELSE {<<d, SortExchangeable(d)>>}
       IN  {BestOf({Reported(t[1], t[2]) : t \in tried})}
=============================================================================
