----------------------------- MODULE PoolBuild ------------------------------
(***************************************************************************)
(* Building the card pool and the search context of a request               *)
(* (src/src/handler/build.rs, filter.rs, gather.rs, capacity.rs and         *)
(* src/src/pool).  The owned cards and the assumed ones are cultivated,     *)
(* valued and given their skill states; cards no deck of a bonus tier can   *)
(* have are cut, support seeds are taken, the user's filters applied; and   *)
(* the rest is sorted, packed into compact columns and interned side        *)
(* tables, and refused when a width would not hold it.                      *)
(*                                                                         *)
(* Left out: the configuration of single ranks, skill levels, episodes and  *)
(* canvas, the honors' total and the cap on power, shuffle bonuses, and the *)
(* parameters of the music and the live.                                    *)
(***************************************************************************)
EXTENDS EventContext

CONSTANTS
  Requests,
  MaxTable,   \* skills a side table holds, 255 in the code
  MaxLimited, \* distinct limited bonuses, 15 in the code
  MaxPower, MaxBonus  \* of a deck, 2^24 and 2^20 in the code

VARIABLES
  request,
  phase,    \* the next step of the build, "done" or "failed"
  failure,  \* why it failed
  event,
  box,      \* the user's cards as they count, in the user's order
  seeds,    \* those of them that are left after the tier cut
  support,  \* the support seeds
  cards,    \* the candidate states
  pool,     \* the packed columns, a record per dense index
  tables,   \* the interned side tables
  context   \* what the search reads besides the pool

vars == <<request, phase, failure, event, box, seeds, support, cards, pool, tables, context>>

Bloom == event # NoEvent /\ event.type = "world_bloom"

Finale == event # NoEvent /\ event.finale

Tiered == request.target = "bonus" /\ request.tiers # <<>>

NoTables == [units |-> <<>>, diff |-> <<>>, reference |-> <<>>, limited |-> <<>>]

Init ==
  /\ request \in Requests
  /\ phase = "validate" /\ failure = None
  /\ event = NoEvent
  /\ box = <<>> /\ seeds = <<>> /\ support = <<>> /\ cards = <<>> /\ pool = <<>>
  /\ tables = NoTables /\ context = None

Fail(why) ==
  /\ phase' = "failed" /\ failure' = why
  /\ UNCHANGED <<request, event, box, seeds, support, cards, pool, tables, context>>

-----------------------------------------------------------------------------
(* Validation.                                                              *)

ValidParams ==
  /\ request.leader \in Characters \cup {None}
  /\ request.customChars \subseteq Characters
  /\ IsInjective(request.tiers)
  /\ request.tiers # <<>> => request.target = "bonus"

RequiresMemberRoles ==
  request.fixedIds # <<>> \/ ~ToSet(request.fixedChars) \subseteq {request.leader}

\* What no search of the code supports.
Supported(e) ==
  /\ request.target = "bonus" => e # NoEvent
  /\ request.members =>
       /\ ~request.challenge
       /\ e # NoEvent /\ e.finale
       /\ RequiresMemberRoles => request.tiers = <<>>

Validate ==
  /\ phase = "validate"
  /\ LET built == BuildEventContext(request)
     IN  IF ValidParams /\ built # Invalid /\ Supported(built)
         THEN /\ phase' = "prepare" /\ event' = built
              /\ UNCHANGED <<request, failure, box, seeds, support, cards, pool, tables, context>>
         ELSE Fail("unsupported")

-----------------------------------------------------------------------------
(* Preparation of the cards.                                                *)

\* A fixed card that is not owned is assumed at its lowest level.
VirtualCard(id) ==
  TrainedAs([id |-> id, level |-> 1, rank |-> 0, skill |-> 1, trained |-> FALSE, image |-> FALSE],
            CardCanSpecialTrain(Master[id]))

NormalizeUserCards(q) ==
  LET owned == {c.id : c \in ToSet(q.user.cards)}
      assumed == SelectSeq(q.fixedIds, LAMBDA id : id \notin owned /\ id \in DOMAIN Master)
      ids == FirstOfEach(assumed, LAMBDA id : id)
  IN  q.user.cards \o [i \in DOMAIN ids |-> VirtualCard(ids[i])]

Config(q, id) ==
  IF id \in DOMAIN q.single THEN q.single[id] ELSE q.byRarity[Master[id].rarity]

\* The user's cards as they count: known, not disabled, of a known unit.
Cultivated(q) ==
  LET listed == SelectSeq(NormalizeUserCards(q), LAMBDA c : c.id \in DOMAIN Master)
      configured == [i \in DOMAIN listed |-> ApplyCardConfig(listed[i], Config(q, listed[i].id))]
  IN  SelectSeq(configured, LAMBDA c : c # None /\ UnitMask(c.id) # {})

\* The states of a card's skill that a deck may show; the trained one first.
SkillStates(q, card) ==
  CASE q.keepState -> IF card.image THEN <<"after">> ELSE <<"before">>
    [] ~q.keepState /\ Master[card.id].trainedSkill # None -> <<"after", "before">>
    [] OTHER -> IF card.image \/ card.trained THEN <<"after">> ELSE <<"before">>

SkillId(card, state) ==
  LET m == Master[card.id]
  IN  IF state = "after" /\ m.trainedSkill # None THEN m.trainedSkill ELSE m.skill

SkillOption(q, e, card, state) ==
  [state |-> state, id |-> SkillId(card, state),
   skill |-> SkillIn(card, SkillId(card, state), q.user.ranks[Master[card.id].char],
                     IF e = NoEvent THEN None ELSE e.skillLimit)]

SkillOptions(q, e, card) ==
  LET states == SkillStates(q, card)
  IN  [i \in DOMAIN states |-> SkillOption(q, e, card, states[i])]

\* A card with all it is worth; its skills and its power are valued after the
\* cut in the code, for the cards that are left.
PreparedSeed(q, e, card) ==
  [card |-> card,
   bonus |-> IF e = NoEvent THEN [base |-> 0, limited |-> 0] ELSE CardEventBonus(e, card),
   honor |-> IF e = NoEvent THEN 0 ELSE LeaderHonor(e, q.user, Master[card.id].char),
   leaderLimit |-> IF e = NoEvent THEN 0 ELSE LeaderLimit(e, card.id),
   options |-> SkillOptions(q, e, card),
   power |-> PowerOf(q.user, IF e = NoEvent THEN None ELSE e.fixtureLimit, card)]

Prepare ==
  /\ phase = "prepare"
  /\ LET counted == Cultivated(request)
     IN  box' = [i \in DOMAIN counted |-> PreparedSeed(request, event, counted[i])]
  /\ seeds' = box'
  /\ phase' = IF Tiered THEN "cut" ELSE "skills"
  /\ UNCHANGED <<request, failure, event, support, cards, pool, tables, context>>

\* The user's filters, from which a fixed card is exempt.
KeepCard(q, id) ==
  LET m == Master[id]
      units == UnitMask(id)
  IN  /\ id \notin q.excluded
      /\ id \notin ToSet(q.fixedIds) =>
           /\ q.unitFilter # None => q.unitFilter \in units
           /\ q.attrFilter # None => m.attr = q.attrFilter
           /\ (q.filterOther /\ q.unit # None) => q.unit \in units
      /\ q.challengeChar # None => m.char = q.challengeChar

\* The event's own unit and plain virtual singers, fixed or not.
KeepUnit(q, e, id) ==
  (q.filterOther /\ e # NoEvent /\ e.filterUnit # None) =>
    \/ e.filterUnit \in UnitMask(id)
    \/ UnitMask(id) = {VS}

\* Mutant: a limited bonus counts as if no cap could leave it out.
TierFloorOfAll(seed) == seed.bonus.base + seed.bonus.limited

\* What a member adds to every deck it is in.
TierFloor(seed) ==
  seed.bonus.base + IF event.cap >= DeckSize THEN seed.bonus.limited ELSE 0

\* Cards over the highest tier are in no deck that hits one.
CutTiers ==
  /\ phase = "cut"
  /\ LET scoped == event.supportCount = 0 /\ ~event.finale
     IN  seeds' = SelectSeq(seeds, LAMBDA s :
           /\ scoped => KeepCard(request, s.card.id) /\ KeepUnit(request, event, s.card.id)
           /\ TierFloor(s) <= Max(ToSet(request.tiers)) * 10)
  /\ phase' = "skills"
  /\ UNCHANGED <<request, failure, event, box, support, cards, pool, tables, context>>

-----------------------------------------------------------------------------
(* Candidates and support seeds.                                            *)

Both(options) ==
  Len(options) = 2 /\ options[1].id # options[2].id
    /\ IsBfesPair(options[1].skill, options[2].skill)

\* Of two plain states the one with the larger value is kept.
CollapseNonBfes(options) ==
  IF Len(options) < 2 \/ Both(options) THEN options
  ELSE IF options[1].skill.max > options[2].skill.max THEN <<options[1]>> ELSE <<options[2]>>

Candidate(seed, option, pair) ==
  LET card == seed.card
  IN  [id |-> card.id, char |-> Master[card.id].char, attr |-> Master[card.id].attr,
       units |-> UnitMask(card.id), state |-> option.state, skill |-> option.skill,
       image |-> IF pair THEN option.state = "after" ELSE card.image \/ card.trained,
       power |-> seed.power,
       powerMin |-> Min(PowersOf(seed.power)), powerMax |-> Max(PowersOf(seed.power)),
       bonus |-> seed.bonus, honor |-> seed.honor, leaderLimit |-> seed.leaderLimit]

CandidatesOf(seed, options) ==
  [i \in DOMAIN options |-> Candidate(seed, options[i], Both(options))]

NeedsSupport == event # NoEvent /\ (event.supportCount > 0 \/ event.finale)

SeedOf(seed) == SupportSeed(seed.card, request.rankMax, request.skillMax)

\* Mutant: a card the user excludes from the deck supports no deck either.
SupportSeedsKept ==
  LET kept == SelectSeq(seeds, LAMBDA s : KeepCard(request, s.card.id))
  IN  IF NeedsSupport THEN FirstOfEach([i \in DOMAIN kept |-> SeedOf(kept[i])], LAMBDA s : s.id)
      ELSE <<>>

\* Every prepared card once, whatever the filters say.
SupportSeeds ==
  IF NeedsSupport THEN FirstOfEach([i \in DOMAIN seeds |-> SeedOf(seeds[i])], LAMBDA s : s.id)
  ELSE <<>>

BuildCandidates ==
  /\ phase = "skills"
  /\ LET all == FlattenSeq([i \in DOMAIN seeds |->
                              CandidatesOf(seeds[i], CollapseNonBfes(seeds[i].options))])
     IN  IF \E i \in DOMAIN all : ~SkillFits(all[i].skill)
         THEN Fail("capacity")
         ELSE /\ cards' = SelectSeq(all, LAMBDA c : KeepCard(request, c.id))
              /\ support' = SupportSeeds
              /\ phase' = "narrow"
              /\ UNCHANGED <<request, failure, event, box, seeds, pool, tables, context>>

FilterOtherUnit ==
  /\ phase = "narrow"
  /\ cards' = SelectSeq(cards, LAMBDA c : KeepUnit(request, event, c.id))
  /\ phase' = "constrain"
  /\ UNCHANGED <<request, failure, event, box, seeds, support, pool, tables, context>>

-----------------------------------------------------------------------------
(* Fixed constraints.                                                       *)

\* A leader that no other constraint brings takes a slot of its own.
LeaderSlot ==
  LET chars == {Master[id].char : id \in ToSet(request.fixedIds)} \cup ToSet(request.fixedChars)
  IN  IF request.challenge \/ request.leader \in chars \cup {None} THEN <<>>
      ELSE <<request.leader>>

FixedChars == request.fixedChars \o LeaderSlot

FixedSatisfiable ==
  LET charsOf == [i \in DOMAIN request.fixedIds |-> Master[request.fixedIds[i]].char]
  IN  /\ IsInjective(request.fixedIds)
      /\ \A id \in ToSet(request.fixedIds) : \E c \in ToSet(cards) : c.id = id
      /\ Len(request.fixedIds \o FixedChars) <= DeckSize
      /\ ~request.challenge => IsInjective(charsOf \o FixedChars)
      /\ \A char \in ToSet(FixedChars) : \E c \in ToSet(cards) : c.char = char

ValidateFixed ==
  /\ phase = "constrain"
  /\ IF cards # <<>> /\ request.challenge /\ request.fixedChars # <<>> THEN Fail("unsupported")
     ELSE IF cards = <<>> \/ ~FixedSatisfiable THEN Fail("unsatisfiable")
     ELSE /\ phase' = "gather"
          /\ UNCHANGED <<request, failure, event, box, seeds, support, cards, pool, tables, context>>

-----------------------------------------------------------------------------
(* Sorting and packing.                                                     *)

PositionIn(list, x) == Min({i \in DOMAIN list : list[i] = x})

\* Slots of fixed constraints by falling priority; members have none.
SlotRank(c) ==
  CASE ~request.members /\ c.id \in ToSet(request.fixedIds) -> PositionIn(request.fixedIds, c.id)
    [] ~request.members /\ c.id \notin ToSet(request.fixedIds) /\ c.char \in ToSet(FixedChars) ->
         Len(request.fixedIds) + PositionIn(FixedChars, c.char)
    [] OTHER -> DeckSize + 1

\* By falling keys of the target.
SortKey(c) ==
  LET value == c.powerMax * (256 + c.skill.max)
      total == c.bonus.base + c.bonus.limited
  IN  CASE request.target = "skill" -> <<c.skill.max, c.skill.min, c.id, 0, 0, 0>>
        [] request.target \notin {"skill", "power"} /\ event # NoEvent ->
             <<total, value, c.powerMax, c.skill.max, c.id, 0>>
        [] request.target = "score" /\ event = NoEvent ->
             <<value, c.powerMax, c.skill.max, c.powerMin, c.skill.min, c.id>>
        [] OTHER -> <<c.powerMax, c.powerMin, c.id, 0, 0, 0>>

Larger(a, b) == \E n \in DOMAIN a : a[n] > b[n] /\ \A k \in 1..n - 1 : a[k] = b[k]

\* Mutant: fixed constraints do not come first.
SortedByValue ==
  LET key(i) == SortKey(cards[i]) \o <<Len(cards) - i>>
      order == SortedBy(DOMAIN cards, LAMBDA i, j : Larger(key(i), key(j)))
  IN  [n \in DOMAIN cards |-> cards[order[n]]]

Sorted ==
  LET fixed(c) == SlotRank(c) <= Len(request.fixedIds)
      key(i) == <<-SlotRank(cards[i]), IF fixed(cards[i]) /\ cards[i].image THEN 1 ELSE 0>>
                  \o SortKey(cards[i]) \o <<Len(cards) - i>>
      order == SortedBy(DOMAIN cards, LAMBDA i, j : Larger(key(i), key(j)))
  IN  [n \in DOMAIN cards |-> cards[order[n]]]

Distinct(list) == FirstOfEach(list, LAMBDA x : x)

TablesOf(kind, list) ==
  LET those == SelectSeq(list, LAMBDA c : c.skill.kind = kind)
  IN  Distinct([i \in DOMAIN those |-> those[i].skill.table])

\* Equal contents share an entry.
Interned(list) ==
  [units |-> TablesOf("units", list),
   diff |-> TablesOf("diff", list),
   reference |-> TablesOf("reference", list),
   limited |-> Distinct(SelectSeq([i \in DOMAIN list |-> list[i].bonus.limited], LAMBDA x : x > 0))]

TablesFit(t) ==
  /\ \A kind \in {"units", "diff", "reference"} : Len(t[kind]) <= MaxTable
  /\ Len(t.limited) <= MaxLimited

\* Mutant: entries are told apart by their base alone.
EntryByBase(list, table) == Min({i \in DOMAIN list : list[i][1] = table[1]})

Entry(list, table) == PositionIn(list, table)

\* The packed columns of a card: its power for its two units, the skill's
\* entry or value, the bonus with the code of its limited part.
Pack(c, t) ==
  LET first == Min(c.units)
      second == IF c.units = {first} THEN first ELSE Min(c.units \ {first})
  IN  [id |-> c.id, char |-> c.char, attr |-> c.attr, units |-> c.units, state |-> c.state,
       first |-> c.power.units[first], second |-> c.power.units[second],
       multi |-> c.power.multi, powerMax |-> c.powerMax,
       kind |-> c.skill.kind,
       slot |-> IF c.skill.kind = "plain" THEN c.skill.base
                ELSE Entry(t[c.skill.kind], c.skill.table),
       base |-> c.skill.base, skillMin |-> c.skill.min, skillMax |-> c.skill.max,
       reference |-> c.skill.reference,
       total |-> c.bonus.base + c.bonus.limited,
       code |-> IF c.bonus.limited = 0 THEN 0 ELSE PositionIn(t.limited, c.bonus.limited),
       honor |-> c.honor, leaderLimit |-> c.leaderLimit]

SortAndGather ==
  /\ phase = "gather"
  /\ LET list == Sorted
         t == Interned(list)
     IN  IF ~TablesFit(t) THEN Fail("capacity")
         ELSE /\ pool' = [i \in DOMAIN list |-> Pack(list[i], t)]
              /\ tables' = t
              /\ phase' = "context"
              /\ UNCHANGED <<request, failure, event, box, seeds, support, cards, context>>

-----------------------------------------------------------------------------
(* The search context.                                                      *)

TopSum(list, count) ==
  LET order == SortedBy(DOMAIN list, LAMBDA i, j : list[i] > list[j] \/ (list[i] = list[j] /\ i < j))
  IN  Sum([n \in 1..Min({count, Len(list)}) |-> list[order[n]]])

Count == IF event = NoEvent THEN 0 ELSE event.supportCount

CeilTenths(x) == (x + 9) \div 10

\* What the first entries of a profile that count are worth.
TopSupport(list) == Sum([n \in 1..Min({Count, Len(list)}) |-> list[n].value])

\* A packed card's bonus, split by its limited code.
Limited(packed) == IF packed.code = 0 THEN 0 ELSE tables.limited[packed.code]

Base(packed) == packed.total - Limited(packed)

\* No chapter character gives a leader's deck its own profile outside a finale.
ProfileOf(char) == IF event = NoEvent THEN <<>> ELSE SupportDeck(event, support, char)

BuildSearchContext ==
  LET default == ProfileOf(IF event = NoEvent THEN None ELSE event.char)
      byChar == [char \in Characters |-> ProfileOf(char)]
      diffAttr == IF event = NoEvent THEN [n \in 1..DeckSize |-> 0] ELSE event.diffAttr
  IN  [fixedIds |-> request.fixedIds, fixedChars |-> FixedChars,
       leader |-> IF request.challenge THEN None ELSE request.leader,
       members |-> request.members /\ RequiresMemberRoles,
       cap |-> IF event = NoEvent THEN DeckSize ELSE event.cap,
       support |-> default, supportBy |-> byChar,
       diffAttr |-> diffAttr,
       extraUb |-> Max(ToSet(diffAttr)) + CeilTenths(TopSupport(default))
                     + CeilTenths(Best({TopSupport(byChar[char]) : char \in Characters})),
       skillUb |-> TopSum([i \in DOMAIN pool |-> pool[i].skillMax], DeckSize)]

\* The deck ceilings that the search's arithmetic is exact below.
NumericDomain(ctx) ==
  LET bonuses == [i \in DOMAIN pool |->
                    CeilTenths(Base(pool[i])) + CeilTenths(Limited(pool[i]))]
      supports == Sum([n \in 1..Cardinality(Characters) |->
                        TopSupport(ctx.supportBy[Ascending(Characters)[n]])])
                    + TopSupport(ctx.support)
  IN  /\ TopSum([i \in DOMAIN pool |-> pool[i].powerMax], DeckSize) <= MaxPower
      /\ request.target \notin {"power", "skill"} =>
           TopSum(bonuses, DeckSize)
             + Best({CeilTenths(pool[i].honor + pool[i].leaderLimit) : i \in DOMAIN pool})
             + Max(ToSet(ctx.diffAttr)) + CeilTenths(supports) + ctx.extraUb <= MaxBonus

BuildContext ==
  /\ phase = "context"
  /\ LET ctx == BuildSearchContext
     IN  IF NumericDomain(ctx)
         THEN /\ context' = ctx /\ phase' = "done"
              /\ UNCHANGED <<request, failure, event, box, seeds, support, cards, pool, tables>>
         ELSE Fail("capacity")

Next ==
  \/ Validate \/ Prepare \/ CutTiers \/ BuildCandidates \/ FilterOtherUnit
  \/ ValidateFixed \/ SortAndGather \/ BuildContext

Spec == Init /\ [][Next]_vars

-----------------------------------------------------------------------------
(* Properties.                                                              *)

Phases == {"validate", "prepare", "cut", "skills", "narrow", "constrain", "gather", "context",
           "done", "failed"}

\* The entries of the compact columns exist in the side tables and fit them,
\* and the cards that fixed slots want come first, in the order of the slots.
TypeOK ==
  /\ phase \in Phases
  /\ failure \in IF phase = "failed" THEN {"unsupported", "unsatisfiable", "capacity"} ELSE {None}
  /\ TablesFit(tables)
  /\ \A i \in DOMAIN pool :
       /\ pool[i].kind # "plain" => pool[i].slot \in DOMAIN tables[pool[i].kind]
       /\ pool[i].code \in {0} \cup DOMAIN tables.limited
       /\ i > 1 => SlotRank(pool[i - 1]) <= SlotRank(pool[i])

\* The candidates of the user's whole box: nothing cut, no state collapsed.
Box ==
  {c \in UNION {ToSet(CandidatesOf(seed, seed.options)) : seed \in ToSet(box)} :
     KeepCard(request, c.id) /\ KeepUnit(request, event, c.id)}

BoxSupport ==
  LET all == [i \in DOMAIN box |-> SeedOf(box[i])]
  IN  [char \in Characters |->
         IF event = NoEvent THEN <<>>
         ELSE SupportDeck(event, FirstOfEach(all, LAMBDA s : s.id),
                          IF Finale THEN char ELSE event.char)]

\* The support cards of a deck: the first that count and are not in it.
SupportSum(list, ids) ==
  LET rest == SelectSeq(list, LAMBDA s : s.id \notin ids) IN TopSupport(rest)

\* The bonus of a deck of cards with the parts of their bonus, the leader
\* first; outside a finale a World Bloom counts every limited bonus.
TotalBonus(deck, support_) ==
  LET limited == SelectSeq([i \in DOMAIN deck |-> deck[i].bonus.limited], LAMBDA x : x > 0)
      counted == IF Bloom /\ ~Finale THEN Len(limited) ELSE Min({event.cap, Len(limited)})
  IN  Sum([i \in DOMAIN deck |-> deck[i].bonus.base]) + Sum(SubSeq(limited, 1, counted))
        + (IF Finale THEN deck[1].honor + deck[1].leaderLimit ELSE 0)
        + 10 * event.diffAttr[Cardinality({c.attr : c \in ToSet(deck)})]
        + SupportSum(support_[deck[1].char], {c.id : c \in ToSet(deck)})

\* The deck has a slot for every fixed card and character, and the leader.
FillsSlots(deck) ==
  LET wanted == request.fixedIds \o request.fixedChars
      fits(n, c) == IF n <= Len(request.fixedIds) THEN c.id = wanted[n] ELSE c.char = wanted[n]
  IN  /\ Len(wanted) <= DeckSize
      /\ \E slot \in [DOMAIN wanted -> DOMAIN deck] :
           IsInjective(slot) /\ \A n \in DOMAIN wanted : fits(n, deck[slot[n]])
      /\ request.leader # None /\ ~request.challenge => deck[1].char = request.leader

Legal(deck) ==
  /\ Cardinality({c.id : c \in ToSet(deck)}) = DeckSize
  /\ ~request.challenge => Cardinality({c.char : c \in ToSet(deck)}) = DeckSize
  /\ FillsSlots(deck)

LegalDecks(S) == {deck \in [1..DeckSize -> S] : Legal(deck)}

HitsTier(deck, support_) ==
  Tiered => \E tier \in ToSet(request.tiers) : TotalBonus(deck, support_) = 10 * tier

\* A pool card does for the box's: it is worth the same with the same skill,
\* or both skills are plain and its own is no smaller, also as a reference.
\* (The build compares the values under the event's limit only; the tables
\* order the two readings of two plain skills of a card alike.)
StandsFor(packed, c) ==
  /\ packed.id = c.id
  /\ packed.total = c.bonus.base + c.bonus.limited /\ Limited(packed) = c.bonus.limited
  /\ packed.powerMax = c.powerMax
  /\ packed.honor = c.honor /\ packed.leaderLimit = c.leaderLimit
  /\ \/ packed.state = c.state
     \/ /\ packed.kind = "plain" /\ c.skill.kind = "plain"
        /\ packed.base >= c.skill.base /\ packed.reference >= c.skill.reference

\* Whatever is cut, collapsed, filtered or refused as unsatisfiable, every
\* deck the user may field, that hits a wanted tier if there are any, is in
\* the pool (the candidate policy of build.rs: "exact by default").
NothingLost ==
  /\ phase = "done" =>
       LET whole == BoxSupport
           decks == {deck \in LegalDecks(Box) : HitsTier(deck, whole)}
       IN  \A c \in UNION {ToSet(deck) : deck \in decks} :
             \E i \in DOMAIN pool : StandsFor(pool[i], c)
  /\ phase = "failed" /\ failure = "unsatisfiable" =>
       LET whole == BoxSupport IN ~\E deck \in LegalDecks(Box) : HitsTier(deck, whole)

\* The cards of the pool with their bonuses split, as the evaluation reads them.
Unpacked ==
  {[id |-> pool[i].id, char |-> pool[i].char, attr |-> pool[i].attr, honor |-> pool[i].honor,
    leaderLimit |-> pool[i].leaderLimit,
    bonus |-> [base |-> Base(pool[i]), limited |-> Limited(pool[i])],
    skillMax |-> pool[i].skillMax] : i \in DOMAIN pool}

\* A leader's own profile in a finale.
SearchSupport ==
  [char \in Characters |-> IF Finale THEN context.supportBy[char] ELSE context.support]

\* world_bloom_support_cards, the listing a user sees for the character.
Listing(char) ==
  LET owned == request.user.cards
      cards_ == [i \in DOMAIN owned |-> SeedOf([card |-> owned[i]])]
  IN  [i \in DOMAIN owned |->
         [id |-> owned[i].id, value |-> SupportBonus(event, char, TRUE, cards_[i])]]

\* The best support a deck can have of the listing.
ListingSum(char, ids) ==
  LET rest == SelectSeq(Listing(char), LAMBDA s : s.id \notin ids)
  IN  TopSum([i \in DOMAIN rest |-> rest[i].value], Count)

\* The user's cards count as they are: no configuration, none assumed.
AsOwned == Cultivated(request) = request.user.cards

\* For every leader and deck of the pool, the support that the search counts
\* is the best the listing of the user's box offers: excluded and filtered
\* cards support, and only the deck's own cards do not.
SupportIsTheBox ==
  phase = "done" /\ Bloom /\ ~Tiered /\ AsOwned /\ event.char # None =>
    \A deck \in LegalDecks(Unpacked) :
      LET ids == {c.id : c \in ToSet(deck)}
          char == deck[1].char
      IN  SupportSum(SearchSupport[char], ids) =
            ListingSum(IF Finale THEN char ELSE event.char, ids)

\* The skill table a packed card reads.
SkillTable(packed) ==
  IF packed.kind = "plain" THEN <<>> ELSE tables[packed.kind][packed.slot]

\* What a packed card decodes to is what the tables give the box's card, and
\* the context's ceilings hold for every deck of the pool.
PackedCardsDecode ==
  phase = "done" =>
    /\ \A i \in DOMAIN pool : \E c \in Box :
         /\ c.id = pool[i].id /\ c.state = pool[i].state
         /\ SkillTable(pool[i]) = c.skill.table
         /\ c.bonus = [base |-> Base(pool[i]), limited |-> Limited(pool[i])]
         /\ {pool[i].first, pool[i].second} = {c.power.units[u] : u \in c.units}
         /\ PowersOf(c.power) \subseteq 0..pool[i].powerMax
    /\ \A deck \in LegalDecks(Unpacked) :
         /\ Sum([n \in 1..DeckSize |-> deck[n].skillMax]) <= context.skillUb
         /\ event # NoEvent =>
              10 * event.diffAttr[Cardinality({c.attr : c \in ToSet(deck)})]
                + SupportSum(SearchSupport[deck[1].char], {c.id : c \in ToSet(deck)})
                  <= 10 * context.extraUb

\* "An empty result for a tier means the tier is unreachable with the given
\* box" (docs/parameters.md): a tier that a legal deck of the box hits, with
\* the support of the box, is hit by a deck of the pool.
EmptyTierIsUnreachable ==
  phase = "done" /\ Tiered =>
    LET whole == BoxSupport
        own == SearchSupport
        reached(decks, support_) == {TotalBonus(deck, support_) : deck \in decks}
        tiers == {10 * tier : tier \in ToSet(request.tiers)}
    IN  reached(LegalDecks(Box), whole) \cap tiers
          \subseteq reached(LegalDecks(Unpacked), own)
=============================================================================
