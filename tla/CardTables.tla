----------------------------- MODULE CardTables -----------------------------
(***************************************************************************)
(* What one owned card is worth, computed from the master tables: its unit  *)
(* mask (src/src/handler/index.rs), power (power.rs), event bonus           *)
(* (event_bonus.rs), skill (skill.rs) and World Bloom support bonus         *)
(* (world_bloom.rs), and the events that are simulated when the tables have *)
(* no rows for them.                                                        *)
(*                                                                         *)
(* The three dimensions of power are one number, to which a level's         *)
(* episodes and canvas belong.  Rates are whole percents, bonuses whole     *)
(* tenths of a percent; the float formulas round as \div does.  MySekai     *)
(* gates are given by gate and level, never by a bare rate.                 *)
(***************************************************************************)
EXTENDS Integers, Sequences, FiniteSets, FiniteSetsExt, SequencesExt,
        Sorting

CONSTANTS
  None,        \* an absent value
  Wild,        \* a rule's or an area item's missing axis
  Multi,       \* the unit of area items about decks of several units
  Unit,        \* [character -> its unit], gameCharacterUnits
  Master,      \* [public id -> card], the cards table
  Rarity,      \* [rarity -> its level limits]
  Lesson,      \* [rarity -> powers of the master ranks 1, 2, ...]
  RankRate,    \* [character rank -> power bonus rate]
  Skill,       \* [skill -> [level -> sequence of effects]]
  AreaItem,    \* [area item -> [level -> sequence of effects]]
  Event,       \* [event id -> its rows in the event tables]
  SupportRate, \* [turn -> [rarity -> support deck rates]]
  SupportRows, \* sequence of [event, char, id, rate]: limited support bonuses
  Part,        \* [WL3 part -> its characters]
  DeckSize,    \* 5 in the code
  MaxScore     \* the largest compact skill score, 255 in the code

VS == 5        \* the virtual singers' unit, piapro

Sum(list) == FoldLeft(LAMBDA a, b : a + b, 0, list)

Best(S) == Max({0} \cup S)

Characters == DOMAIN Unit

-----------------------------------------------------------------------------
(* The card's units and its cultivation.                                    *)

\* Units of a card: its character's and, for a virtual singer, its support
\* unit; none when the character is not in the table.
UnitMask(id) ==
  LET m == Master[id]
  IN  IF m.char \notin Characters THEN {}
      ELSE {Unit[m.char]} \cup IF Unit[m.char] = VS THEN {m.support} \ {None} ELSE {}

CardCanSpecialTrain(m) ==
  m.trainedSkill # None \/ m.trained > 0 \/ m.rarity \in {3, 4}

TrainedAs(card, trained) == [card EXCEPT !.trained = trained, !.image = trained]

\* The preset or the card's own configuration; None disables the card.
ApplyCardConfig(card, config) ==
  LET m == Master[card.id]
      limits == Rarity[m.rarity]
      maxed == IF ~config.levelMax THEN card
               ELSE LET c == [card EXCEPT !.level = Max({@, limits.max})]
                    IN  IF CardCanSpecialTrain(m) THEN TrainedAs(c, TRUE) ELSE c
      set == IF config.level = None THEN maxed
             ELSE LET level == Min({config.level, limits.max})
                  IN  TrainedAs([maxed EXCEPT !.level = level],
                                CardCanSpecialTrain(m) /\ level > limits.normal)
      skilled == IF config.skillMax
                 THEN [set EXCEPT !.skill = Max({@, limits.skill})] ELSE set
      ranked == IF config.rankMax
                THEN [skilled EXCEPT !.rank = Max({@, Len(Lesson[m.rarity])})] ELSE skilled
  IN  IF config.disable THEN None ELSE ranked

-----------------------------------------------------------------------------
(* Power.                                                                   *)

\* A level past the table has its last row.
BasePower(card) ==
  LET m == Master[card.id]
      lessons == Lesson[m.rarity]
  IN  m.levels[Min({card.level, Len(m.levels)})]
        + (IF card.trained THEN m.trained ELSE 0)
        + Sum(SubSeq(lessons, 1, Min({card.rank, Len(lessons)})))

CharacterBonusRate(rank) ==
  LET reached == {r \in DOMAIN RankRate : r <= rank}
  IN  IF reached = {} THEN 0 ELSE RankRate[Max(reached)]

\* The highest gate level's rate, of the first gate that has it.
GateRateAll(gates) ==
  LET top == {i \in DOMAIN gates : \A j \in DOMAIN gates : gates[j].level <= gates[i].level}
  IN  IF top = {} THEN 0 ELSE gates[Min(top)].rate

\* A virtual singer with a support unit uses that unit's gate.
GateRate(gates, units) ==
  IF units = {VS} THEN GateRateAll(gates)
  ELSE LET unit == Min(units \ {VS})
           own == SelectSeq(gates, LAMBDA g : g.unit = unit)
       IN  IF own = <<>> THEN 0 ELSE own[1].rate

\* The user's area items; a level past the table has its last rows.
AreaItems(user) ==
  FlattenSeq([i \in DOMAIN user.areaItems |->
                LET levels == AreaItem[user.areaItems[i].item]
                IN  levels[Min({user.areaItems[i].level, Len(levels)})]])

\* An item's rate, whose axes the deck shares or not.
ItemRate(item, all) == IF all THEN item.all ELSE item.rate

AreaBonus(card, items, unit, sameUnit, sameAttr) ==
  LET m == Master[card.id]
      mine == SelectSeq(items, LAMBDA i : /\ i.unit \in {Wild, unit}
                                          /\ i.attr \in {Wild, m.attr}
                                          /\ i.char \in {Wild, m.char})
      rate(i) == ItemRate(i, (i.unit # Wild /\ sameUnit) \/ (i.attr # Wild /\ sameAttr))
  IN  (BasePower(card) * Sum([n \in DOMAIN mine |-> rate(mine[n])])) \div 100

Original(units) == IF VS \in units THEN VS ELSE Min(units)

\* In a multi-unit deck the buckets of an item's axes exclude each other.
Bucket(item, m, units) ==
  CASE item.char # Wild -> IF item.char = m.char THEN "character" ELSE None
    [] item.char = Wild /\ item.unit = Multi -> "multi"
    [] item.char = Wild /\ item.unit \notin {Wild, Multi} ->
         IF item.unit = Original(units) THEN "original"
         ELSE IF item.unit \in units THEN "support" ELSE None
    [] item.char = Wild /\ item.unit = Wild /\ item.attr # Wild ->
         IF item.attr = m.attr THEN "attribute" ELSE None
    [] OTHER -> "any"

MultiAreaBonus(card, items, sharedOriginal, sharedSupport, sameAttr) ==
  LET m == Master[card.id]
      bucket(i) == Bucket(i, m, UnitMask(card.id))
      all == [original |-> sharedOriginal, support |-> sharedSupport, attribute |-> sameAttr]
      matched(b) == b \in DOMAIN all /\ all[b]
      of(b) == SelectSeq(items, LAMBDA i : bucket(i) = b)
      rates(b, as) == Sum([n \in DOMAIN of(b) |-> ItemRate(of(b)[n], as)])
      buff(b) == rates(b, matched(b))
      worse == IF buff("original") < buff("support") THEN "original" ELSE "support"
      present == {bucket(items[n]) : n \in DOMAIN items} \ {None}
      single == IF {"original", "support"} \subseteq present THEN present \ {worse} ELSE present
      unit == single \cap {"original", "support"}
      \* A unit's extra for a shared unit against what multi-unit decks get.
      multiLoses == \E b \in unit : buff(b) - rates(b, FALSE) >= buff("multi")
      kept == IF "multi" \in single /\ multiLoses THEN single \ {"multi"} ELSE single
      plain(b) == b \in unit /\ "multi" \in kept
  IN  (BasePower(card) * MapThenSumSet(LAMBDA b : IF plain(b) THEN rates(b, FALSE) ELSE buff(b),
                                       kept)) \div 100

\* What is the same for every deck.
CommonPower(user, fixtureLimit, card) ==
  LET m == Master[card.id]
      base == BasePower(card)
      fixture == user.fixture[m.char]
  IN  base
        + (base * CharacterBonusRate(user.ranks[m.char])) \div 100
        + (base * (IF fixtureLimit = None THEN fixture ELSE Min({fixture, fixtureLimit}))) \div 1000
        + (base * GateRate(user.gates, UnitMask(card.id))) \div 100

\* The power tables of a card: by unit, and for multi-unit decks if an area
\* item is about them.
PowerOf(user, fixtureLimit, card) ==
  LET items == AreaItems(user)
      common == CommonPower(user, fixtureLimit, card)
  IN  [units |-> [u \in UnitMask(card.id) |-> [su \in BOOLEAN |-> [sa \in BOOLEAN |->
                    common + AreaBonus(card, items, u, su, sa)]]],
       multi |-> IF \E n \in DOMAIN items : items[n].unit = Multi
                 THEN [so \in BOOLEAN |-> [ss \in BOOLEAN |-> [sa \in BOOLEAN |->
                         common + MultiAreaBonus(card, items, so, ss, sa)]]]
                 ELSE None]

\* Every power the tables of a card hold.
PowersOf(power) ==
  {power.units[u][su][sa] : u \in DOMAIN power.units, su, sa \in BOOLEAN}
    \cup IF power.multi = None THEN {}
         ELSE {power.multi[so][ss][sa] : so, ss, sa \in BOOLEAN}

-----------------------------------------------------------------------------
(* Skills.                                                                  *)

Clamp(value, limit) == IF limit = None THEN value ELSE Min({value, limit})

LastOf(list) == list[Len(list)]

MaxCountedUnits == 2

BuildSkill(effects, rank, limit) ==
  LET of(kind) == SelectSeq(effects, LAMBDA e : e.kind = kind)
      values(kind) == {e.value : e \in ToSet(of(kind))}
      up == Best(values("score_up"))
      base == Clamp(up + Best({e.value : e \in {x \in ToSet(of("rank")) : x.rank <= rank}}), limit)
      counted(n) == SelectSeq(of("units"), LAMBDA e : e.count = n)
      count(n) == IF counted(n) = <<>> \/ LastOf(counted(n)).value = 0 THEN base
                  ELSE Clamp(LastOf(counted(n)).value, limit)
      ranks == {i \in DOMAIN of("rank") : \A e \in ToSet(of("rank")) : e.rank <= of("rank")[i].rank}
      diff == LastOf(of("diff"))
      ref == LastOf(of("reference"))
      step == IF of("diff") = <<>> THEN 0 ELSE diff.add
      gain == IF limit = None THEN ref.add ELSE Min({ref.add, limit - base})
      \* What another member's reference skill reads: no condition, no limit.
      reference == up + (IF ranks = {} THEN 0 ELSE of("rank")[Min(ranks)].value)
                     + Best({v - up : v \in values("units")})
                     + step * MaxCountedUnits
                     + (IF of("reference") = <<>> THEN 0 ELSE ref.add)
      plain == [kind |-> "plain", base |-> base, table |-> <<>>, min |-> base, max |-> base,
                reference |-> reference]
  IN  IF of("units") # <<>>
      THEN LET counts == [n \in 1..DeckSize |-> count(n)]
           IN  [plain EXCEPT !.kind = "units",
                             !.table = <<LastOf(of("units")).unit, counts>>,
                             !.min = Min(ToSet(counts)), !.max = Max(ToSet(counts))]
      ELSE IF of("diff") # <<>>
      THEN [plain EXCEPT !.kind = "diff",
                         !.table = <<Clamp(diff.value, limit), Clamp(diff.add, limit)>>,
                         !.min = Clamp(diff.value, limit),
                         !.max = Clamp(Clamp(diff.value, limit)
                                         + MaxCountedUnits * Clamp(diff.add, limit), limit)]
      ELSE IF of("reference") # <<>>
      THEN [plain EXCEPT !.kind = "reference",
                         !.table = <<ref.value, gain>>,
                         !.max = base + gain]
      ELSE plain

\* The compact width holds the skill's values.
SkillFits(skill) == skill.base <= MaxScore /\ skill.max <= MaxScore

SkillIn(card, id, rank, limit) == BuildSkill(Skill[id][card.skill], rank, limit)

\* States of one card that a deck may need both of.
IsBfesPair(first, second) == {first.kind, second.kind} # {"plain"}

-----------------------------------------------------------------------------
(* Event bonus.                                                             *)

RarityBonus(event, card) ==
  LET rows == {r \in event.rarity : r.rarity = Master[card.id].rarity /\ r.rank <= card.rank}
  IN  IF rows = {} THEN 0 ELSE (CHOOSE r \in rows : \A o \in rows : o.rank <= r.rank).rate

\* A virtual singer follows its support unit, if it has one.
CardMatchesRule(id, rule) ==
  LET m == Master[id]
  IN  /\ rule.char \in {Wild, m.char}
      /\ rule.attr \in {Wild, m.attr}
      /\ rule.unit = Wild \/ IF Unit[m.char] = VS THEN m.support \in {None, rule.unit}
                            ELSE Unit[m.char] = rule.unit

CustomBonus(event, id) ==
  LET char == Master[id].char \in event.customChars
      attr == Master[id].attr = event.customAttr
  IN  CASE char /\ attr -> 500 [] char # attr -> 250 [] ~char /\ ~attr -> 0

\* The first row of the card.
EventCard(event, id) ==
  LET rows == SelectSeq(event.cards, LAMBDA r : r.id = id)
  IN  IF rows = <<>> THEN None ELSE rows[1]

LimitedBonus(event, id) ==
  LET row == EventCard(event, id) IN IF row = None THEN 0 ELSE row.rate

CardEventBonus(event, card) ==
  [base |-> RarityBonus(event, card) + CustomBonus(event, card.id)
              + Best({r.rate : r \in {x \in event.rules : CardMatchesRule(card.id, x)}}),
   limited |-> LimitedBonus(event, card.id)]

\* A finale's leader wears the best honor of the character that is owned.
LeaderHonor(event, user, char) ==
  IF ~event.finale THEN 0
  ELSE Best({h.rate : h \in {x \in event.honors : x.char = char /\ x.honor \in user.honors}})

LeaderLimit(event, id) ==
  LET row == EventCard(event, id)
  IN  IF row = None THEN 0
      ELSE IF row.leader = 0 /\ event.legacy THEN 200 ELSE row.leader

-----------------------------------------------------------------------------
(* Support deck.                                                            *)

\* A seed is the card with the rank and the skill level the request assumes.
SupportSeed(card, rankMax, skillMax) ==
  LET m == Master[card.id]
  IN  [id |-> card.id,
       rank |-> IF rankMax THEN Len(Lesson[m.rarity]) ELSE card.rank,
       skill |-> IF skillMax THEN Rarity[m.rarity].skill ELSE card.skill]

\* The limited rows of the card for the character, those of a simulation too.
SupportLimited(event, special, id) ==
  LET rows == event.support \o SelectSeq(SupportRows, LAMBDA r : r.event = event.id)
      mine == SelectSeq(rows, LAMBDA r : r.char = special /\ r.id = id)
  IN  Sum([n \in DOMAIN mine |-> mine[n].rate])

SupportBonus(event, special, matchUnit, seed) ==
  IF \/ special \notin Characters
     \/ matchUnit /\ Unit[special] \notin UnitMask(seed.id)
     \/ event.turn \notin DOMAIN SupportRate
     \/ Master[seed.id].rarity \notin DOMAIN SupportRate[event.turn]
  THEN 0
  ELSE LET row == SupportRate[event.turn][Master[seed.id].rarity]
       IN  (IF Master[seed.id].char = special THEN row.specific ELSE row.others)
             + row.rank[seed.rank] + row.skill[seed.skill]
             + SupportLimited(event, special, seed.id)

\* By falling bonus, in seed order.
SupportDeck(event, seeds, char) ==
  LET value(i) == SupportBonus(event, char, TRUE, seeds[i])
      before(i, j) == value(i) > value(j) \/ (value(i) = value(j) /\ i < j)
      order == SortedBy(DOMAIN seeds, before)
  IN  IF event.supportCount = 0 THEN <<>>
      ELSE [n \in DOMAIN seeds |-> [id |-> seeds[order[n]].id, value |-> value(order[n])]]
=============================================================================
