----------------------------- MODULE BonusTiers -----------------------------
(***************************************************************************)
(* The exact search of bonus tiers (src/src/search/solver/bonus_tiers.rs).  *)
(* A request lists tiers, whole percentages of event bonus; for each the    *)
(* search returns the K decks of the highest live score among those whose   *)
(* total bonus is exactly the tier.                                        *)
(*                                                                         *)
(* The decks are split into scopes, and each scope into composition         *)
(* regimes, which are searched in the order of their ceilings.  A regime    *)
(* has a table of the key sums that its groups of cards can reach, with     *)
(* the largest power and skill at each; for every tier and every diversity  *)
(* class a branch and bound over the groups follows the sums that hit the   *)
(* tier.  All of them feed one tracker per tier, and one deadline ends      *)
(* them.                                                                   *)
(*                                                                         *)
(* Bonuses are counted in grains, some of them to a tenth of a percent;     *)
(* only a support deck has values that are not whole tenths.  The code      *)
(* counts in ticks, as few to the tenth as make the support values whole,   *)
(* or one and with slack.  Requests with a final chapter in a world bloom   *)
(* have distinct characters; then every scope has one support profile.      *)
(***************************************************************************)
EXTENDS SkillCeilings

CONSTANTS
  Requests,
  UnitCount, AttrCount,  \* 6 and 6 in the code
  Tenths,        \* of a percent, 10 in the code
  Grain,         \* grains to a tenth of a percent
  Scales,        \* candidate ticks to a tenth, <<1, 2, 4, 5, 10, 20>> in the code
  JoinAfter,     \* nodes between tests for the joint column, 65536 in the code
  RestrictAfter, \* nodes with one set of attributes before its table, 2048
  CertifyAfter,  \* nodes before the tier certificate, 4096
  HeldCards      \* cards a certificate enumerates as subsets, 16

ASSUME TierAssumption ==
  /\ {UnitCount, AttrCount, JoinAfter, CertifyAfter, HeldCards} \subseteq Nat
  /\ {Tenths, Grain, RestrictAfter} \subseteq Nat \ {0}
  /\ \A i \in DOMAIN Scales : Scales[i] \in Nat \ {0}
  /\ \A c \in DOMAIN Card :
       /\ Card[c].unit < UnitCount /\ Card[c].attr < AttrCount
       /\ \A x \in {Card[c].base, Card[c].limited, Card[c].honor, Card[c].leaderLimit} :
            x % Grain = 0
  /\ \A n \in 1..DeckSize : DiffAttr[n] % (Tenths * Grain) = 0

ASSUME RequestAssumption ==
  \A q \in Requests :
    /\ RequestOK(q) /\ q.target = "bonus"
    /\ q.tiers \subseteq Int /\ {q.timed, q.bounds} \subseteq BOOLEAN
    /\ q.final /\ q.worldBloom => q.unique

VARIABLES
  phase,        \* "plan", "regimes", "pairs", "search" or "done"
  problems,     \* the scopes that can have a deck
  certificates, \* per problem, the pairs its certificate excludes, once built
  plans,        \* the regimes not finished, the one at hand first
  joined,       \* the problems whose regimes have the joint column
  view, table,  \* of the regime at hand
  narrow,       \* [attributes -> nodes met, and then their view and table]
  pairs,        \* its tiers and diversity classes left, the one at hand first
  stack,        \* the calls of expand under way, the last one first
  visited,      \* nodes
  joinAt,       \* nodes at which the joint column is tested for, or Never
  certifyAt,    \* nodes at which the certificate is built, or Never
  stopped, settled,  \* the regime starts over; the pair has no deck
  trackers,     \* one list per tier
  hit           \* the budget's sticky expiry

plan == <<problems, plans, joined>>

regime == <<view, table, narrow>>

marks == <<visited, joinAt, certifyAt, stopped, settled>>

vars == <<request, phase, plan, certificates, regime, pairs, stack,
          marks, trackers, hit>>

Never == -1

\* The tiers in the order of the answer.
Tiers == Reverse(Ascending({t \in request.tiers : t >= 0}))

-----------------------------------------------------------------------------
(* What a complete deck is worth.                                           *)

\* Every order of a deck that can differ in its bonus.
Candidates(d) ==
  IF ~Valid(d)
  THEN {}
  ELSE IF BonusOrderObservable(d)
       THEN {Reported(e, e) : e \in Arrangements(d)}
       ELSE {Reported(d, SortExchangeable(d))}

\* Mutant: the total bonus is truncated to whole percents.
HitsTruncated(d) ==
  UNION {{[tier |-> t, result |-> r] :
            t \in {i \in DOMAIN Tiers : TotalBonus(r.cards) \div (Tenths * Grain) = Tiers[i]}} :
         r \in Candidates(d)}

\* The tiers that a deck hits, in grains, and its results there.
Hits(d) ==
  UNION {{[tier |-> t, result |-> r] :
            t \in {i \in DOMAIN Tiers : TotalBonus(r.cards) = Tiers[i] * Tenths * Grain}} :
         r \in Candidates(d)}

Live(power, skill) == (power * (10 + skill)) \div 10

-----------------------------------------------------------------------------
(* Scopes and their groups of cards.                                        *)

CharsOf(cards) == {Card[c].char : c \in cards}

IdsOf(cards) == {Card[c].id : c \in cards}

Scopes ==
  LET each(kind, cards) ==
        LET chars == Ascending(CharsOf(cards))
        IN  [i \in DOMAIN chars |-> [kind |-> kind, char |-> chars[i]]]
  IN  CASE ~request.unique -> each("character", request.pool)
        [] request.unique /\ request.final /\ request.worldBloom ->
             each("leader", {c \in request.pool : CardMatchesSlot(1, c)})
        [] OTHER -> <<[kind |-> "unique", char |-> NoChar]>>

InScope(scope) ==
  {c \in request.pool : scope.kind = "character" => Card[c].char = scope.char}

\* The cards of each slot with a role.
Roles(scope) ==
  [slot \in 1..RolePrefix |->
     {c \in InScope(scope) :
        /\ CardMatchesSlot(slot, c)
        /\ scope.kind = "leader" /\ slot = 1 => Card[c].char = scope.char}]

\* A member, not the leader, must have the character the request asks for.
ForcedMember == ~request.final /\ request.leader # NoChar

\* What a role leaves no choice of is excluded from the free groups: one for
\* each character, or for each public card of a challenge.
Groups(scope) ==
  LET roles == Roles(scope)
      chars == IF request.unique
               THEN UNION {s \in {CharsOf(roles[i]) : i \in DOMAIN roles} : Cardinality(s) = 1}
               ELSE {}
      ids == UNION {s \in {IdsOf(roles[i]) : i \in DOMAIN roles} : Cardinality(s) = 1}
      key(c) == IF request.unique THEN Card[c].char ELSE Card[c].id
      free == {c \in InScope(scope) : Card[c].char \notin chars /\ Card[c].id \notin ids}
      keys == Ascending({key(c) : c \in free})
  IN  [slot \in DOMAIN roles |->
         [fixed |-> TRUE, leader |-> request.final /\ slot = 1, mandatory |-> TRUE,
          cards |-> roles[slot]]]
      \o [i \in DOMAIN keys |->
            [fixed |-> FALSE, leader |-> FALSE,
             mandatory |-> request.unique /\ ForcedMember /\ keys[i] = request.leader,
             cards |-> {c \in free : key(c) = keys[i]}]]

\* A scope that cannot have a deck has no problem.
CanHaveDeck(scope) ==
  /\ scope.kind = "character" => request.leader \in {NoChar, scope.char}
  /\ \A slot \in DOMAIN Roles(scope) : Roles(scope)[slot] # {}
  /\ ForcedMember => request.leader \in CharsOf(InScope(scope))
  /\ Len(Groups(scope)) >= DeckSize

-----------------------------------------------------------------------------
(* Support decks.  A deck that withdraws a entries among the counted ones   *)
(* and holds a set S of those behind loses what its cards' own entries are  *)
(* worth over the first entry behind, and the excess of the refill: the     *)
(* first a entries behind that are not in S.                                *)

Entry(s, i) == IF i \in DOMAIN s.cards THEN s.cards[i].value ELSE 0

Removable(s) == Min({DeckSize, Len(s.cards)})

\* What the k-th entry behind the counted ones is short of the first.
Step(s, k) == Entry(s, s.count + 1) - Entry(s, s.count + k)

\* The most that a deck that displaces q entries can lose beyond its cards'.
Excess(s, q) == SumOf([k \in 1..q |-> Step(s, k)])

\* Mutant: the entries behind that the deck holds refill it all the same.
RefillOfHeld(s, removed, held) == SumOf([k \in 1..removed |-> Step(s, k)])

Refill(s, removed, held) ==
  LET left == SelectSeq([k \in 1..2 * Removable(s) |-> k], LAMBDA k : k \notin held)
  IN  SumOf([i \in 1..Min({removed, Len(left)}) |-> Step(s, left[i])])

\* A card's entries: what it loses, how many it withdraws and displaces, and
\* the positions behind the counted ones.
SupportOf(s, c) ==
  LET places == {i \in 1..Min({Len(s.cards), s.count + Removable(s)}) :
                   s.cards[i].id = Card[c].id}
      counted == {i \in places : i <= s.count}
  IN  [loss |-> SumSet({Entry(s, i) - Entry(s, s.count + 1) : i \in counted}),
       removed |-> Cardinality(counted),
       held |-> {i - s.count : i \in places \ counted},
       displaced |-> Cardinality(places)]

\* Outward range of a value in ticks.
Ticks(v, scale) ==
  [low |-> (v * scale) \div Grain, high |-> -((-(v * scale)) \div Grain)]

FittingScales(s) ==
  {i \in DOMAIN Scales : \A e \in ToSet(s.cards) : (e.value * Scales[i]) % Grain = 0}

-----------------------------------------------------------------------------
(* A problem: the cards of a scope in ticks.  A card's key is what it adds  *)
(* for certain, rounded down to the unit that all keys are multiples of,    *)
(* and its slack is what it may add to that.                                *)

Ceil(a, b) == -((-a) \div b)

CommonDivisor(S) ==
  IF S \subseteq {0} THEN 1 ELSE Max({d \in 1..Max(S) : \A x \in S : x % d = 0})

TopSum(list, n) ==
  LET falling == SortSeq(list, LAMBDA a, b : a > b)
  IN  SumOf(SubSeq(falling, 1, Min({n, Len(falling)})))

\* The parts of a card: pt ticks are certain, limited ones count within the cap.
Part(pt, limited, scale, unit, s, c) ==
  LET support == SupportOf(s, c)
      change == Ticks(-support.loss, scale)
      adjust == (change.low \div unit) * unit
  IN  [key |-> pt + adjust, limited |-> limited, slack |-> change.high - adjust,
       support |-> support.displaced, removed |-> support.removed, held |-> support.held]

\* Limited amounts are told apart only if the cap can bite.
Counting(scope) ==
  /\ Capped /\ request.cap < DeckSize
  /\ \E c \in InScope(scope) : Card[c].limited > 0

ScaleOf(s) == IF FittingScales(s) = {} THEN 1 ELSE Scales[Min(FittingScales(s))]

InTicks(v, scale) == (v \div Grain) * scale

LimitedTicks(c, scale, counting) == IF counting THEN InTicks(Card[c].limited, scale) ELSE 0

CertainTicks(g, c, scale, counting) ==
  InTicks(Card[c].base, scale)
    + (IF counting THEN 0 ELSE InTicks(Card[c].limited, scale))
    + (IF g.leader THEN InTicks(Card[c].honor + Card[c].leaderLimit, scale) ELSE 0)

\* What all keys are multiples of, as far as the cards' own bonuses go.
UnitOf(groups, scale, counting) ==
  CommonDivisor(
    UNION {UNION {{CertainTicks(groups[i], c, scale, counting), LimitedTicks(c, scale, counting)} :
                   c \in groups[i].cards} : i \in DOMAIN groups})

\* The offset makes all keys non-negative; max is the largest key sum, in
\* units, of a deck worth looking at.
Sized(p) ==
  LET parts == UNION {{p.parts[i][c] : c \in p.groups[i].cards} : i \in DOMAIN p.groups}
      offset == Ceil(-Min({0} \cup {part.key : part \in parts}), p.unit) * p.unit
      widest == [i \in DOMAIN p.groups |->
                   offset + Max({p.parts[i][c].key + p.parts[i][c].limited :
                                 c \in p.groups[i].cards})]
      highest == Max(request.tiers) * Tenths * p.scale + p.scale
                   + p.excess[Removable(p.support)] + DeckSize * offset
  IN  [offset |-> offset, max |-> Max({0, Min({TopSum(widest, DeckSize), highest})}) \div p.unit]
        @@ p

ProblemOf(scope, groups, s, scale, counting, unit) ==
  Sized([scope |-> scope, groups |-> groups, support |-> s,
         parts |-> [i \in DOMAIN groups |->
                      [c \in groups[i].cards |->
                         Part(CertainTicks(groups[i], c, scale, counting),
                              LimitedTicks(c, scale, counting), scale, unit, s, c)]],
         capacity |-> IF counting THEN request.cap ELSE 0,
         scale |-> scale, exact |-> FittingScales(s) # {}, unit |-> unit,
         base |-> Ticks(SumOf([i \in 1..s.count |-> Entry(s, i)]), scale),
         excess |-> [q \in 0..Removable(s) |-> Max({Ticks(Excess(s, q), scale).high, 0})],
         \* the refill of a deck is known exactly
         terms |-> request.worldBloom /\ FittingScales(s) # {},
         unreachable |-> {}])

Problem(scope) ==
  LET groups == Groups(scope)
      s == IF request.worldBloom THEN SupportFor(scope.char) ELSE [cards |-> <<>>, count |-> 0]
      scale == ScaleOf(s)
      counting == Counting(scope)
  IN  ProblemOf(scope, groups, s, scale, counting, UnitOf(groups, scale, counting))

\* The diversity bonuses of decks that share their attribute, or of the
\* others, each with the numbers of attributes that have it.
DiversityClasses(p, shares) ==
  LET counts == IF shares THEN {1} ELSE 2..DeckSize
      extra(n) == (DiffAttr[n] \div Grain) * p.scale
      classes == {[extra |-> extra(n), counts |-> {m \in counts : extra(m) = extra(n)}] :
                  n \in counts}
  IN  IF request.worldBloom
      THEN SortedBy(classes, LAMBDA a, b : Min(a.counts) < Min(b.counts))
      ELSE <<[extra |-> 0, counts |-> {}]>>

-----------------------------------------------------------------------------
(* Composition regimes.                                                     *)

None == -1

Regimes == [unit : {None} \cup 0..UnitCount - 1, attr : {None} \cup 0..AttrCount - 1]

Mixed == [unit |-> None, attr |-> None]

\* The position in Regime::all.
Order(rg) ==
  CASE rg.unit = None /\ rg.attr = None -> 0
    [] rg.unit = None /\ rg.attr # None -> 1 + rg.attr
    [] rg.unit # None /\ rg.attr = None -> 1 + AttrCount + rg.unit
    [] OTHER -> 1 + AttrCount + UnitCount + rg.unit * AttrCount + rg.attr

Admits(rg, c) ==
  /\ rg.unit # None => Card[c].unit = rg.unit
  /\ rg.attr # None => Card[c].attr = rg.attr

\* The largest power a card has in a deck of the regime.
PowerIn(rg, c) ==
  Max({Card[c].power[u][rg.attr # None] :
         u \in {FALSE} \cup IF rg.unit # None THEN {TRUE} ELSE {}})

Admitted(g, rg) == {c \in g.cards : Admits(rg, c)}

\* The largest power and skill of a regime, if it can have a deck.
Bounds(p, rg) ==
  LET taken(fixed) == SelectSeq(p.groups, LAMBDA g : g.fixed = fixed /\ Admitted(g, rg) # {})
      top(Value(_)) ==
        LET best(groups) == [i \in DOMAIN groups |->
                               Max({Value(c) : c \in Admitted(groups[i], rg)})]
        IN  SumOf(best(taken(TRUE)))
              + TopSum(best(taken(FALSE)), DeckSize - Len(taken(TRUE)))
  IN  IF \/ \E i \in DOMAIN p.groups : p.groups[i].mandatory /\ Admitted(p.groups[i], rg) = {}
         \/ Len(taken(TRUE)) + Len(taken(FALSE)) < DeckSize
      THEN {}
      ELSE {[regime |-> rg, power |-> power, skill |-> skill, ceiling |-> Live(power, skill)] :
            <<power, skill>> \in {<<top(LAMBDA c : PowerIn(rg, c)), top(SkillMax)>>}}

-----------------------------------------------------------------------------
(* The view of a regime: its admitted cards, the roles first, then the free *)
(* groups with the strongest first.                                         *)

PowerWeight == 4

\* A card's joint value, normal to the level curve of the live score at the
\* regime's largest power and skill.
SkillWeight(b) ==
  Max({1, Min({(PowerWeight * b.power + (10 + b.skill) \div 2) \div (10 + b.skill), 4096})})

Joint(v, c) ==
  IF v.joined THEN PowerWeight * PowerIn(v.regime, c) + v.weight * SkillMax(c) ELSE 0

CardsOf(groups) == UNION {groups[i].cards : i \in DOMAIN groups}

\* The groups with the free ones by falling value, in their order if equal.
StrongestFirst(groups, value) ==
  LET best(i) == Max({value[c] : c \in groups[i].cards})
      before(i, j) ==
        \/ groups[i].fixed /\ ~groups[j].fixed
        \/ groups[i].fixed /\ groups[j].fixed /\ i < j
        \/ ~groups[i].fixed /\ ~groups[j].fixed
             /\ (best(i) > best(j) \/ (best(i) = best(j) /\ i < j))
      order == SortedBy(DOMAIN groups, before)
  IN  [i \in DOMAIN groups |-> groups[order[i]]]

\* At each position, the most of an amount that n groups from there on can add.
SuffixLargest(groups, amount) ==
  LET largest == [i \in DOMAIN groups |->
                    Max({0} \cup {groups[i].parts[c][amount] : c \in groups[i].cards})]
  IN  [pos \in 1..Len(groups) + 1 |->
         [n \in 0..DeckSize |-> TopSum(SubSeq(largest, pos, Len(groups)), n)]]

\* The terms of a view that depend on the order of its groups.
Ordered(v, groups) ==
  [groups |-> groups,
   slack |-> SuffixLargest(groups, "slack"),
   support |-> SuffixLargest(groups, "support"),
   \* some skill from there on depends on the composition
   dynamic |-> [pos \in 1..Len(groups) + 1 |->
                  \E i \in pos..Len(groups) : \E c \in groups[i].cards : ~IsFixed(c)]]
  @@ v

View(p, b) ==
  LET rg == b.regime
      all == [i \in DOMAIN p.groups |->
                [fixed |-> p.groups[i].fixed, leader |-> p.groups[i].leader,
                 mandatory |-> p.groups[i].mandatory, cards |-> Admitted(p.groups[i], rg),
                 parts |-> p.parts[i], ceilings |-> CeilingSet(Admitted(p.groups[i], rg))]]
      groups == SelectSeq(all, LAMBDA g : g.cards # {})
  IN  Ordered([regime |-> rg, diversity |-> DiversityClasses(p, rg.attr # None),
               weight |-> SkillWeight(b), joined |-> FALSE],
              StrongestFirst(groups, [c \in CardsOf(groups) |-> PowerIn(rg, c)]))

Join(v) ==
  LET with == [v EXCEPT !.joined = TRUE]
  IN  IF v.joined
      THEN v
      ELSE Ordered(with, StrongestFirst(v.groups, [c \in CardsOf(v.groups) |-> Joint(with, c)]))

\* The view limited to the cards with one of the attributes.
Narrowed(v, attrs) ==
  LET all == [i \in DOMAIN v.groups |->
                [v.groups[i] EXCEPT !.cards = {c \in @ : Card[c].attr \in attrs}]]
  IN  Ordered(v, all)

-----------------------------------------------------------------------------
(* The suffix table: for each position and each <<cards, counted limited    *)
(* amounts, whether one is left uncounted, key sum in units>> that the      *)
(* groups from there on can reach, the largest power, skill and joint value *)
(* with it.                                                                *)

Sums(n, counted, uncounted, sum) ==
  [n |-> n, counted |-> counted, uncounted |-> uncounted, sum |-> sum]

\* What a card makes of the sums behind it.
Takes(p, part, f) ==
  LET key == f.sum + (part.key + p.offset) \div p.unit
      whole == key + part.limited \div p.unit
      taken == IF part.limited = 0
               THEN {Sums(f.n + 1, f.counted, f.uncounted, key)}
               ELSE {Sums(f.n + 1, f.counted, TRUE, key)}
                      \cup IF f.counted < p.capacity
                           THEN {Sums(f.n + 1, f.counted + 1, f.uncounted, whole)}
                           ELSE {}
  IN  {t \in taken : t.sum <= p.max}

Largest(S) ==
  [power |-> Max({m.power : m \in S}), skill |-> Max({m.skill : m \in S}),
   joint |-> Max({m.joint : m \in S})]

Layer(p, v, g, behind) ==
  LET starts == {f \in DOMAIN behind : f.n < DeckSize}
      moves == UNION {UNION {{[to |-> t, from |-> f, card |-> c] : t \in Takes(p, g.parts[c], f)} :
                             f \in starts} : c \in g.cards}
      value(m) == [power |-> behind[m.from].power + PowerIn(v.regime, m.card),
                   skill |-> behind[m.from].skill + SkillMax(m.card),
                   joint |-> behind[m.from].joint + Joint(v, m.card)]
      skipped == IF g.mandatory THEN {} ELSE DOMAIN behind
  IN  [t \in skipped \cup {m.to : m \in moves} |->
         Largest({value(m) : m \in {x \in moves : x.to = t}}
                   \cup IF t \in skipped THEN {behind[t]} ELSE {})]

Table(p, v) ==
  LET last == Sums(0, 0, FALSE, 0) :> [power |-> 0, skill |-> 0, joint |-> 0]
  IN  FoldRight(LAMBDA g, layers : <<Layer(p, v, g, layers[1])>> \o layers, v.groups, <<last>>)

-----------------------------------------------------------------------------
(* Bounds of a branch.  A state has decided the groups before a position.   *)

Root == [pos |-> 1, deck |-> <<>>, counted |-> 0, uncounted |-> FALSE, key |-> 0,
         slack |-> 0, support |-> 0, removed |-> 0, held |-> {}]

Remaining(s) == DeckSize - Len(s.deck)

\* The key sums, in units, with which the groups left can hit the aim, a
\* number of ticks and the diversity bonus in it.
Needed(p, v, aim, s) ==
  LET n == Remaining(s)
      refill == IF p.terms THEN Ticks(Refill(p.support, s.removed, s.held), p.scale)
                ELSE [low |-> 0, high |-> 0]
      most == p.excess[Min({s.support + v.support[s.pos][n], Removable(p.support)})]
      excess == IF n = 0 /\ p.terms THEN Min({most, refill.high}) ELSE most
      known == IF p.exact THEN s.slack ELSE 0
      rest == aim.ticks - s.key - known + n * p.offset - aim.extra
      slack == s.slack - known + v.slack[s.pos][n]
  IN  [low |-> Max({0, Ceil(rest - p.base.high + Max({refill.low, 0}) - slack, p.unit)}),
       high |-> Min({(rest - p.base.low + excess) \div p.unit, p.max})]

\* A limited amount is left uncounted only once the capacity is used.
Suffix(p, v, t, aim, s) ==
  LET range == Needed(p, v, aim, s)
      left == p.capacity - s.counted
      hits == {x \in DOMAIN t[s.pos] :
                 /\ x.n = Remaining(s) /\ x.sum \in range.low..range.high
                 /\ \/ x.counted = left
                    \/ x.counted < left /\ ~s.uncounted /\ ~x.uncounted}
  IN  IF hits = {} THEN {} ELSE {Largest({t[s.pos][x] : x \in hits})}

\* The live score over a box of power and skill cut by the joint value.
JointLive(v, power, skill, rest) ==
  LET u == power + rest.power
      w == 10 + skill + rest.skill
      c == rest.joint + PowerWeight * power + v.weight * (10 + skill)
  IN  CASE PowerWeight * u + v.weight * w <= c -> (u * w) \div 10
        [] PowerWeight * u + v.weight * w > c /\ c >= 2 * PowerWeight * u ->
             (u * (c - PowerWeight * u)) \div (v.weight * 10)
        [] PowerWeight * u + v.weight * w > c /\ c < 2 * PowerWeight * u /\ c >= 2 * v.weight * w ->
             (w * (c - v.weight * w)) \div (PowerWeight * 10)
        [] OTHER -> (c * c) \div (4 * PowerWeight * v.weight * 10)

\* Siblings are taken in order; a branch is searched for the sake of upper.
Ceiling(v, power, skill, rest) ==
  LET order == Live(power + rest.power, skill + rest.skill)
  IN  [order |-> order,
       upper |-> IF v.joined THEN Min({order, JointLive(v, power, skill, rest)}) ELSE order]

\* The skill that n further cards from a position on have at most, among the
\* free members around the deck.
Frontier(v, pos, deck, free, n, skill) ==
  IF n > 0 /\ ~v.dynamic[pos]
  THEN skill
  ELSE LET groups == SubSeq(v.groups, pos, Len(v.groups))
           best == [i \in DOMAIN groups |-> SetCeiling(groups[i].ceilings, ToSet(deck), free)]
       IN  IF n = 0 THEN 0 ELSE Min({skill, TopSum(best, n)})

PowerOf(v, deck) == SumOf([i \in DOMAIN deck |-> PowerIn(v.regime, deck[i])])

SelectedSkill(deck, free) ==
  SumOf([i \in DOMAIN deck |-> SelectedCeiling(deck[i], ToSet(deck), free)])

\* The ceiling of the decks that complete a state and hit the aim, if any can.
BoundOf(p, v, t, aim, s) ==
  LET n == Remaining(s)
  IN  {Ceiling(v, PowerOf(v, s.deck), SelectedSkill(s.deck, n),
               [rest EXCEPT !.skill = Frontier(v, s.pos, s.deck, n, n, @)]) :
       rest \in Suffix(p, v, t, aim, s)}

-----------------------------------------------------------------------------
(* The certificate of a problem whose totals are exact: the pairs that no   *)
(* deck hits.  The refill depends on the entries a deck withdraws and holds *)
(* behind the counted ones; the cards that hold none are put together in a  *)
(* table of reachable sums, and every set of those that do completes it.    *)

Exactly(part) == part.key + part.slack

Reached(n, removed, counted, uncounted, sum) ==
  [n |-> n, removed |-> removed, counted |-> counted, uncounted |-> uncounted, sum |-> sum]

\* One card more, its limited amount counted or not.
Added(p, x, part) ==
  LET base == [x EXCEPT !.n = @ + 1, !.removed = @ + part.removed, !.sum = @ + Exactly(part)]
  IN  IF part.limited = 0
      THEN {base}
      ELSE {[base EXCEPT !.uncounted = TRUE]}
             \cup IF x.counted < p.capacity
                  THEN {[base EXCEPT !.counted = @ + 1, !.sum = @ + part.limited]}
                  ELSE {}

\* The sums that at most one card of each set of parts reaches.
AllSums(p, start, choices) ==
  FoldLeft(LAMBDA S, parts :
             S \cup UNION {UNION {Added(p, x, part) : part \in parts} :
                           x \in {y \in S : y.n < DeckSize}},
           start, choices)

Certificate(p) ==
  LET partsOf(i) == {p.parts[i][c] : c \in p.groups[i].cards}
      indices == [i \in DOMAIN p.groups |-> i]
      holding == UNION {{<<i, part>> : part \in {x \in partsOf(i) : x.held # {}}} :
                        i \in DOMAIN p.groups}
      plain == AllSums(p, {Reached(0, 0, 0, FALSE, 0)},
                       [i \in DOMAIN p.groups |-> {x \in partsOf(i) : x.held = {}}])
      subsets == {S \in SUBSET holding :
                    /\ Cardinality(S) <= DeckSize
                    /\ \A x, y \in S : x # y => x[1] # y[1]}
      \* the sums of decks with exactly these cards behind the counted ones
      completed(S) ==
        {x \in FoldLeft(LAMBDA T, h : UNION {Added(p, x, h[2]) : x \in T}, plain, SetToSeq(S)) :
           x.n = DeckSize /\ (x.uncounted => x.counted = p.capacity)}
      heldBy(S) == UNION {h[2].held : h \in S}
      totals == UNION {{x.sum + p.base.low
                          - Ticks(Refill(p.support, x.removed, heldBy(S)), p.scale).low :
                        x \in completed(S)} : S \in subsets}
      extras == {class.extra : class \in ToSet(DiversityClasses(p, TRUE) \o DiversityClasses(p, FALSE))}
  IN  IF Cardinality(holding) > HeldCards
      THEN {}
      ELSE {pair \in [tier : DOMAIN Tiers, extra : extras] :
              Tiers[pair.tier] * Tenths * p.scale - pair.extra \notin totals}

-----------------------------------------------------------------------------
(* The order of the search.                                                 *)

Empty == [t \in DOMAIN Tiers |-> <<>>]

Init ==
  /\ request \in Requests
  /\ phase = "plan"
  /\ problems = <<>> /\ certificates = <<>> /\ plans = <<>> /\ joined = {}
  /\ view = <<>> /\ table = <<>> /\ narrow = <<>>
  /\ pairs = <<>> /\ stack = <<>>
  /\ visited = 0 /\ joinAt = Never /\ certifyAt = Never
  /\ stopped = FALSE /\ settled = FALSE
  /\ trackers = Empty
  /\ hit = FALSE

\* A tier's K-th live score, the low half of the score; its tracker has no
\* cutoff before it is full, or when the request has no bounds.
LiveCutoff(t) ==
  IF request.bounds THEN Threshold(request.topK, trackers[t], 0) % RankBase ELSE 0

Open(t) == plans[1].bounds.ceiling >= LiveCutoff(t)

Current == problems[plans[1].scope]

Excluded(t, extra) ==
  [tier |-> t, extra |-> extra] \in Current.unreachable \cup certificates[plans[1].scope].excluded

\* A class of decks that may hit a tier: see Needed.
Aim(p, t, class) ==
  [tier |-> t, ticks |-> Tiers[t] * Tenths * p.scale, extra |-> class.extra,
   counts |-> class.counts]

Reaches(p, v, t, aim) == Suffix(p, v, t, aim, Root) # {}

\* What the regime that admits every card does not reach, no regime reaches.
Unreachable(p) ==
  UNION {LET v == View(p, b)
             t == Table(p, v)
             classes == ToSet(DiversityClasses(p, FALSE) \o DiversityClasses(p, TRUE))
         IN  {[tier |-> i, extra |-> class.extra] :
                <<i, class>> \in {x \in (DOMAIN Tiers) \X classes :
                                    ~Reaches(p, v, t, Aim(p, x[1], x[2]))}} :
         b \in Bounds(p, Mixed)}

\* The regimes of every scope, strongest first.
Strongest(ps) ==
  LET all == UNION {{[scope |-> i, bounds |-> b] : b \in UNION {Bounds(ps[i], rg) : rg \in Regimes}} :
                    i \in DOMAIN ps}
      before(x, y) ==
        \/ x.bounds.ceiling > y.bounds.ceiling
        \/ /\ x.bounds.ceiling = y.bounds.ceiling
           /\ \/ x.scope < y.scope
              \/ x.scope = y.scope /\ Order(x.bounds.regime) < Order(y.bounds.regime)
  IN  SortedBy(all, before)

Plan ==
  /\ phase = "plan"
  /\ IF Tiers = <<>> \/ Cardinality(request.pool) < DeckSize
     THEN /\ phase' = "done"
          /\ UNCHANGED <<plan, certificates>>
     ELSE /\ phase' = "regimes"
          /\ \E raw \in {[i \in DOMAIN SelectSeq(Scopes, CanHaveDeck) |->
                            Problem(SelectSeq(Scopes, CanHaveDeck)[i])]} :
               problems' = [i \in DOMAIN raw |->
                              [raw[i] EXCEPT !.unreachable = Unreachable(raw[i])]]
          /\ certificates' = [i \in DOMAIN problems' |-> [built |-> FALSE, excluded |-> {}]]
          /\ plans' = Strongest(problems')
          /\ joined' = {}
  /\ UNCHANGED <<request, regime, pairs, stack, marks, trackers, hit>>

\* The deadline may have passed wherever the clock is read; nothing is
\* searched from then on.
Expire ==
  /\ request.timed
  /\ \/ phase = "regimes" /\ plans # <<>>
     \/ phase = "pairs" /\ pairs # <<>>
     \/ phase = "search" /\ stack # <<>> /\ stack[1].op = "expand"
  /\ hit' = TRUE /\ phase' = "done"
  /\ UNCHANGED <<request, plan, certificates, regime, pairs, stack, marks, trackers>>

\* A tier whose cutoff the regime can reach, with a class not excluded.
Wanted(t) ==
  /\ Open(t)
  /\ \E class \in ToSet(DiversityClasses(Current, plans[1].bounds.regime.attr # None)) :
       ~Excluded(t, class.extra)

AllAims(v) ==
  FlattenSeq([t \in DOMAIN Tiers |->
                [i \in DOMAIN v.diversity |-> Aim(Current, t, v.diversity[i])]])

\* Starts a regime, or starts it over with the joint column.
Start(v, isJoined) ==
  /\ view' = v
  /\ table' = Table(Current, v)
  /\ narrow' = <<>>
  /\ pairs' = AllAims(v)
  /\ joinAt' = IF isJoined THEN Never ELSE visited + JoinAfter
  /\ phase' = "pairs"

PruneRegime ==
  /\ phase = "regimes" /\ plans # <<>>
  /\ \A t \in DOMAIN Tiers : ~Wanted(t)
  /\ plans' = Tail(plans)
  /\ UNCHANGED <<request, phase, problems, joined, certificates, regime, pairs, stack,
                 marks, trackers, hit>>

SolveRegime ==
  /\ phase = "regimes" /\ plans # <<>>
  /\ \E t \in DOMAIN Tiers : Wanted(t)
  /\ LET v == View(Current, plans[1].bounds)
         join == plans[1].scope \in joined
     IN  Start(IF join THEN Join(v) ELSE v, join)
  /\ UNCHANGED <<request, plan, certificates, stack, visited, certifyAt, stopped,
                 settled, trackers, hit>>

EndRegime ==
  /\ phase = "pairs" /\ pairs = <<>>
  /\ phase' = "regimes"
  /\ plans' = Tail(plans)
  /\ view' = <<>> /\ table' = <<>> /\ narrow' = <<>> /\ joinAt' = Never
  /\ UNCHANGED <<request, problems, joined, certificates, pairs, stack, visited,
                 certifyAt, stopped, settled, trackers, hit>>

Finish ==
  /\ phase = "regimes" /\ plans = <<>>
  /\ phase' = "done"
  /\ UNCHANGED <<request, plan, certificates, regime, pairs, stack, marks, trackers,
                 hit>>

-----------------------------------------------------------------------------
(* One tier and one diversity class of a regime.                            *)

Call(op, s, within, children) == [op |-> op, state |-> s, within |-> within, children |-> children]

Skippable(aim) ==
  ~Open(aim.tier) \/ Excluded(aim.tier, aim.extra) \/ ~Reaches(Current, view, table, aim)

SkipPair ==
  /\ phase = "pairs" /\ pairs # <<>> /\ Skippable(pairs[1])
  /\ pairs' = Tail(pairs)
  /\ UNCHANGED <<request, phase, plan, certificates, regime, stack, marks, trackers,
                 hit>>

\* The table has a completion of the root, since the pair reaches the tier.
SearchPair ==
  /\ phase = "pairs" /\ pairs # <<>> /\ ~Skippable(pairs[1])
  /\ phase' = "search"
  /\ \E b \in BoundOf(Current, view, table, pairs[1], Root) :
       stack' = IF b.upper < LiveCutoff(pairs[1].tier) THEN <<>>
                ELSE <<Call("expand", Root, {}, {})>>
  /\ certifyAt' = IF Current.terms /\ ~certificates[plans[1].scope].built
                  THEN visited + CertifyAfter ELSE Never
  /\ UNCHANGED <<request, plan, certificates, regime, pairs, visited, joinAt, stopped,
                 settled, trackers, hit>>

EndPair ==
  /\ phase = "search" /\ stack = <<>>
  /\ IF stopped
     THEN /\ joined' = joined \cup {plans[1].scope}
          /\ Start(Join(view), TRUE)
     ELSE /\ pairs' = Tail(pairs)
          /\ phase' = "pairs"
          /\ UNCHANGED <<joined, regime, joinAt>>
  /\ stopped' = FALSE /\ settled' = FALSE /\ certifyAt' = Never
  /\ UNCHANGED <<request, problems, plans, certificates, stack, visited, trackers, hit>>

-----------------------------------------------------------------------------
(* The branch and bound (TierSearch::expand), call by call.                 *)

Expanding == phase = "search" /\ stack # <<>> /\ stack[1].op = "expand"

\* A call that finds the search over returns.
Return ==
  /\ Expanding /\ (stopped \/ settled)
  /\ stack' = Tail(stack)
  /\ UNCHANGED <<request, phase, plan, certificates, regime, pairs, marks, trackers,
                 hit>>

Due(at) == at # Never /\ visited >= at

Certify ==
  /\ Expanding /\ ~stopped /\ ~settled /\ Due(certifyAt)
  /\ certifyAt' = Never
  /\ certificates' = [certificates EXCEPT ![plans[1].scope] =
                        [built |-> TRUE,
                         excluded |-> IF @.built THEN @.excluded ELSE Certificate(Current)]]
  /\ settled' = ([tier |-> pairs[1].tier, extra |-> pairs[1].extra]
                   \in certificates'[plans[1].scope].excluded)
  /\ stack' = IF settled' THEN Tail(stack) ELSE stack
  /\ UNCHANGED <<request, phase, plan, regime, pairs, visited, joinAt, stopped,
                 trackers, hit>>

\* The prunes so far decide whether the regime starts over.
TestJoin ==
  /\ Expanding /\ ~stopped /\ ~settled /\ ~Due(certifyAt) /\ Due(joinAt)
  /\ \/ stopped' = TRUE /\ stack' = Tail(stack) /\ UNCHANGED joinAt
     \/ joinAt' = joinAt + JoinAfter /\ UNCHANGED <<stopped, stack>>
  /\ UNCHANGED <<request, phase, plan, certificates, regime, pairs, visited,
                 certifyAt, settled, trackers, hit>>

AttrsOf(deck) == {Card[c].attr : c \in ToSet(deck)}

\* The view has a class that limits attributes, and the deck is at its limit.
AtLimit(aim, s) ==
  /\ \E i \in DOMAIN view.diversity :
       view.diversity[i].counts # {} /\ Max(view.diversity[i].counts) < DeckSize
  /\ aim.counts # {} /\ Cardinality(AttrsOf(s.deck)) = Max(aim.counts)

Nodes(attrs) == IF attrs \in DOMAIN narrow THEN narrow[attrs].nodes ELSE 0

\* The completions go on within the attributes held.
RestrictAttributes ==
  /\ Expanding /\ ~stopped /\ ~settled /\ ~Due(certifyAt) /\ ~Due(joinAt)
  /\ stack[1].within = {} /\ AtLimit(pairs[1], stack[1].state)
  /\ LET attrs == AttrsOf(stack[1].state.deck)
         nodes == Nodes(attrs) + 1
         narrowed == Narrowed(view, attrs)
     IN  /\ nodes >= RestrictAfter
         /\ narrow' = IF Nodes(attrs) >= RestrictAfter THEN narrow
                      ELSE (attrs :> [nodes |-> nodes, view |-> narrowed,
                                      table |-> Table(Current, narrowed)]) @@ narrow
         /\ stack' = <<Call("expand", stack[1].state, attrs, {})>> \o Tail(stack)
  /\ UNCHANGED <<request, phase, plan, certificates, view, table, pairs, marks,
                 trackers, hit>>

\* Some number of attributes of the class stays reachable.
AttrsFeasible(aim, deck) ==
  LET known == Cardinality(AttrsOf(deck))
  IN  aim.counts = {} \/ aim.counts \cap known..(known + DeckSize - Len(deck)) # {}

\* How a card may count: a role counts its limited amount while it can.
Countings(p, s, g, part) ==
  LET spare == s.counted < p.capacity
      counts == [key |-> part.key + part.limited, counted |-> s.counted + 1,
                 uncounted |-> s.uncounted]
      leaves == [key |-> part.key, counted |-> s.counted, uncounted |-> TRUE]
  IN  CASE part.limited = 0 ->
             {[key |-> part.key, counted |-> s.counted, uncounted |-> s.uncounted]}
        [] part.limited > 0 /\ g.fixed -> {IF spare THEN counts ELSE leaves}
        [] part.limited > 0 /\ ~g.fixed -> {leaves} \cup IF spare THEN {counts} ELSE {}

Picked(s, part, o, c) ==
  [pos |-> s.pos + 1, deck |-> Append(s.deck, c), counted |-> o.counted,
   uncounted |-> o.uncounted, key |-> s.key + o.key, slack |-> s.slack + part.slack,
   support |-> s.support + part.support, removed |-> s.removed + part.removed,
   held |-> s.held \cup part.held]

\* The cards and countings that a state can be extended with.
Picks(p, aim, s, g) ==
  {x \in UNION {{[card |-> c, state |-> Picked(s, g.parts[c], o, c)] :
                  o \in Countings(p, s, g, g.parts[c])} : c \in g.cards} :
     /\ request.unique => Card[x.card].char \notin CharsOf(ToSet(s.deck))
     /\ Card[x.card].id \notin IdsOf(ToSet(s.deck))
     /\ AttrsFeasible(aim, x.state.deck)}

\* A class, the cards of a group with the same parts, is looked at as a whole
\* first; the leader's are not.
ClassUpper(p, v, t, aim, s, g, x) ==
  LET n == Remaining(s)
      class == {c \in g.cards : g.parts[c] = g.parts[x.card]}
      value(rest) ==
        [power |-> rest.power + Max({PowerIn(v.regime, c) : c \in class}),
         skill |-> Frontier(v, s.pos + 1, s.deck, n, n - 1, rest.skill)
                     + Max({SkillMax(c) : c \in class}),
         joint |-> rest.joint + Max({Joint(v, c) : c \in class})]
  IN  Max({0} \cup
          {Ceiling(v, PowerOf(v, s.deck), SelectedSkill(s.deck, n), value(rest)).upper :
             rest \in Suffix(p, v, t, aim, x.state)})

\* The children that reach the threshold, read when the node is entered.
Children(p, v, t, aim, s, threshold) ==
  LET g == v.groups[s.pos]
      picks == {x \in Picks(p, aim, s, g) :
                  \/ g.leader /\ request.worldBloom
                  \/ ClassUpper(p, v, t, aim, s, g, x) >= threshold}
      skips == IF g.mandatory THEN {} ELSE {[s EXCEPT !.pos = @ + 1]}
      bounded == UNION {{[order |-> b.order, upper |-> b.upper, state |-> next] :
                           b \in BoundOf(p, v, t, aim, next)} :
                        next \in skips \cup {x.state : x \in picks}}
  IN  {child \in bounded : child.upper >= threshold}

ViewOf(call) == IF call.within = {} THEN view ELSE narrow[call.within].view

TableOf(call) == IF call.within = {} THEN table ELSE narrow[call.within].table

Branch ==
  /\ Expanding /\ ~stopped /\ ~settled /\ ~Due(certifyAt) /\ ~Due(joinAt)
  /\ LET call == stack[1]
         attrs == AttrsOf(call.state.deck)
         limited == call.within = {} /\ AtLimit(pairs[1], call.state)
     IN  /\ limited => Nodes(attrs) + 1 < RestrictAfter
         /\ narrow' = IF limited THEN (attrs :> [nodes |-> Nodes(attrs) + 1]) @@ narrow ELSE narrow
         /\ stack' = <<Call("children", call.state, call.within,
                            Children(Current, ViewOf(call), TableOf(call), pairs[1], call.state,
                                     LiveCutoff(pairs[1].tier)))>> \o Tail(stack)
  /\ visited' = visited + 1
  /\ UNCHANGED <<request, phase, plan, certificates, view, table, pairs, joinAt,
                 certifyAt, stopped, settled, trackers, hit>>

AtChild(child) ==
  /\ phase = "search" /\ stack # <<>> /\ stack[1].op = "children"
  /\ child \in stack[1].children
  /\ \A other \in stack[1].children : child.order >= other.order

Rest(child) == <<[stack[1] EXCEPT !.children = @ \ {child}]>> \o Tail(stack)

\* The threshold is read again before each child: below it in order, the node
\* is done, and below it in its own ceiling, the child.
EndNode ==
  /\ phase = "search" /\ stack # <<>> /\ stack[1].op = "children"
  /\ \A child \in stack[1].children : child.order < LiveCutoff(pairs[1].tier)
  /\ stack' = Tail(stack)
  /\ UNCHANGED <<request, phase, plan, certificates, regime, pairs, marks, trackers,
                 hit>>

SkipChild ==
  /\ \E child \in IF stack # <<>> THEN stack[1].children ELSE {} :
       /\ AtChild(child)
       /\ child.order >= LiveCutoff(pairs[1].tier)
       /\ child.upper < LiveCutoff(pairs[1].tier)
       /\ stack' = Rest(child)
  /\ UNCHANGED <<request, phase, plan, certificates, regime, pairs, marks, trackers,
                 hit>>

Descend ==
  /\ \E child \in IF stack # <<>> THEN stack[1].children ELSE {} :
       /\ AtChild(child)
       /\ child.upper >= LiveCutoff(pairs[1].tier)
       /\ Len(child.state.deck) < DeckSize
       /\ stack' = <<Call("expand", child.state, stack[1].within, {})>> \o Rest(child)
  /\ UNCHANGED <<request, phase, plan, certificates, regime, pairs, marks, trackers,
                 hit>>

\* Every result goes to the tier that it hits, whatever tier is searched.
Leaf ==
  /\ \E child \in IF stack # <<>> THEN stack[1].children ELSE {} :
       /\ AtChild(child)
       /\ child.upper >= LiveCutoff(pairs[1].tier)
       /\ Len(child.state.deck) = DeckSize
       /\ stack' = Rest(child)
       /\ trackers' = [t \in DOMAIN Tiers |->
            FoldLeft(LAMBDA list, h : IF h.tier = t THEN Insert(Ctx, request.topK, list, h.result)
                                      ELSE list,
                     trackers[t], SetToSeq(Hits(child.state.deck)))]
  /\ UNCHANGED <<request, phase, plan, certificates, regime, pairs, marks, hit>>

Search ==
  \/ Return \/ Certify \/ TestJoin \/ RestrictAttributes \/ Branch
  \/ EndNode \/ SkipChild \/ Descend \/ Leaf

Next ==
  \/ Plan \/ Expire \/ PruneRegime \/ SolveRegime \/ EndRegime \/ Finish
  \/ SkipPair \/ SearchPair \/ EndPair \/ Search

Spec == Init /\ [][Next]_vars

-----------------------------------------------------------------------------
(* Properties.                                                              *)

\* The search is at a call of one of the regimes' tiers and classes, within
\* the tables built for it, and keeps at most K results for each tier.
TypeOK ==
  /\ request \in Requests
  /\ phase \in {"plan", "regimes", "pairs", "search", "done"}
  /\ \A i \in DOMAIN plans : plans[i].scope \in DOMAIN problems
  /\ joined \subseteq DOMAIN problems /\ DOMAIN certificates = DOMAIN problems
  /\ phase \in {"pairs", "search"} => plans # <<>> /\ Len(table) = Len(view.groups) + 1
  /\ phase = "search" => pairs # <<>>
  /\ \A i \in DOMAIN stack :
       /\ stack[i].op \in {"expand", "children"}
       /\ Len(stack[i].state.deck) < DeckSize
  /\ {visited, joinAt, certifyAt} \subseteq Nat \cup {Never}
  /\ {stopped, settled, hit} \subseteq BOOLEAN
  /\ DOMAIN trackers = DOMAIN Tiers
  /\ \A t \in DOMAIN trackers : Len(trackers[t]) <= request.topK

\* The regime whose decks share what the deck's cards share.
RegimeOf(d) ==
  LET shared(values) == IF Cardinality(values) = 1 THEN Min(values) ELSE None
  IN  [unit |-> shared({Card[c].unit : c \in ToSet(d)}),
       attr |-> shared({Card[c].attr : c \in ToSet(d)})]

DeckInScope(scope, d) ==
  CASE scope.kind = "unique" -> TRUE
    [] scope.kind = "leader" -> Card[d[1]].char = scope.char
    [] scope.kind = "character" -> \A slot \in Slots : Card[d[slot]].char = scope.char

HitsTier(d, t) == Valid(d) /\ TotalBonus(d) = Tiers[t] * Tenths * Grain

\* Some regime still to be finished has the deck.
StillPlanned(d) ==
  \E i \in DOMAIN plans :
    /\ plans[i].bounds.regime = RegimeOf(d)
    /\ DeckInScope(problems[plans[i].scope].scope, d)

\* What was passed over is passed over for good: between regimes, and when
\* the deadline or the last regime has ended the search, no deck in any order
\* of its cards, of a regime that was pruned or finished, would enter the list
\* of the tier that it hits.  Only the regimes left undone can be missing from
\* an answer, and none from one that no deadline cut short.
SearchedIsFinal ==
  phase \in {"regimes", "done"} =>
    \A d \in Tuples : StillPlanned(d) \/
      \A t \in DOMAIN Tiers :
        HitsTier(d, t) => Rejects(Ctx, request.topK, trackers[t], Reported(d, d))

\* Whenever the deadline comes, every deck held for a tier is a legal one of
\* exactly that bonus, with its own live score, listed once and best first.
OnlyExactHits ==
  \A t \in DOMAIN trackers :
    LET list == trackers[t]
    IN  /\ \A i \in DOMAIN list :
             LET d == list[i].cards
             IN  /\ d \in [Slots -> request.pool]
                 /\ HitsTier(d, t) /\ list[i].score = Score(d)
                 /\ list[i].set = Code(Ascending(Ids(d)))
        /\ \A i, j \in DOMAIN list :
             i < j => list[i].set # list[j].set /\ KeyLess(Ctx, list[i], list[j])

\* What a scope's first table does not reach, or its certificate excludes, is
\* a tier and a diversity bonus with which no deck of the scope hits it, in
\* any order of its cards and whatever its support deck loses to it.
ExcludedHasNoDeck ==
  phase \in {"regimes", "done"} =>
    \A i \in DOMAIN problems :
      \A pair \in problems[i].unreachable \cup certificates[i].excluded :
        \A d \in Tuples :
          (/\ DeckInScope(problems[i].scope, d)
           /\ pair.extra = IF request.worldBloom
                           THEN (DiffAttr[Cardinality(AttrsOf(d))] \div Grain) * problems[i].scale
                           ELSE 0)
            => ~HitsTier(d, pair.tier)
=============================================================================
