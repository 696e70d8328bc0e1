---------------------------- MODULE SuffixBounds ----------------------------
(***************************************************************************)
(* Ceilings of the decks that a prefix of selected cards can be completed   *)
(* to (src/src/search/suffix.rs), the objective they bound and the cache    *)
(* that decides them against a threshold (src/src/search/objective.rs), as  *)
(* operators over the request.                                             *)
(*                                                                         *)
(* A pool is an interval of card indices, scanned upwards.  A prefix is     *)
(* summarised by a record of its power, skill and bonus sums; rounding      *)
(* margins, the shuffle bonus, power caps and the leader's extra share of   *)
(* the live score are zero.                                                *)
(***************************************************************************)
EXTENDS SkillCeilings

CONSTANTS
  CutoffBonuses,  \* bonus totals whose cutoff is cached, 2048 in the code
  LiveLimit       \* the largest live score, 2^31 - 1 in the code

ASSUME SuffixAssumption == {CutoffBonuses, LiveLimit} \subseteq Nat

VARIABLE suffix  \* what is prepared once for the pool

-----------------------------------------------------------------------------
(* The objective.                                                           *)

Numerator(power, skill) == power * (10 + skill)

NumeratorScale == 10

\* The live score in a threshold of a score without an event.
ThresholdNumerator(t) == (t \div RankBase) * NumeratorScale

\* The key of a live score at some bonus total.
PackScore(live, bonus) == EventPoint(live, bonus) * RankBase + live

Ceiling(in) ==
  LET live == Numerator(in.power, in.skill) \div NumeratorScale
  IN  CASE request.target = "score" -> PackScore(live, in.bonus)
        [] request.target = "live" -> live * RankBase + live
        [] request.target = "bonus" -> in.bonus * RankBase + live
        [] request.target = "mysekai" ->
             MysekaiValue(in.power, in.bonus) * RankBase + in.power

\* Mutant: the search steps past the live score it starts from.
NeededLiveAbove(bonus, t, start) ==
  IF start >= LiveLimit
  THEN start
  ELSE Min({l \in start + 1..LiveLimit : PackScore(l, bonus) >= t} \cup {LiveLimit + 1})

\* The least live score from start on that reaches the threshold.
NeededLive(bonus, t, start) ==
  IF start > LiveLimit
  THEN start
  ELSE Min({l \in start..LiveLimit : PackScore(l, bonus) >= t} \cup {LiveLimit + 1})

\* A multi live of an event is compared by its ceiling.
FastPath ==
  request.target = "score" /\ request.multi /\ ~request.worldBloom /\ ~request.final

Inverted(bonus) == request.target = "score" /\ ~FastPath /\ bonus < CutoffBonuses

\* The cutoffs after one more question.
Asked(cache, bonus, t) ==
  IF ~Inverted(bonus) \/ (bonus \in DOMAIN cache /\ cache[bonus].threshold = t)
  THEN cache
  ELSE LET resume == bonus \in DOMAIN cache /\ cache[bonus].threshold < t
           start == IF resume THEN cache[bonus].live ELSE 0
       IN  [b \in DOMAIN cache \cup {bonus} |->
              IF b = bonus
              THEN [threshold |-> t, live |-> NeededLive(bonus, t, start)]
              ELSE cache[b]]

\* Whether the ceiling of these inputs reaches the threshold, once asked.
Reaches(cache, in, t) ==
  IF Inverted(in.bonus)
  THEN Numerator(in.power, in.skill) \div NumeratorScale >= cache[in.bonus].live
  ELSE Ceiling(in) >= t

\* Tests in order up to the first that fails.
Tested(cache, tests, t) ==
  LET got[n \in 0..Len(tests)] ==
        IF n = 0
        THEN [cache |-> cache, ok |-> TRUE, passed |-> 0]
        ELSE LET prev == got[n - 1]
                 asked == Asked(prev.cache, tests[n].bonus, t)
                 ok == Reaches(asked, tests[n], t)
             IN  IF ~prev.ok THEN prev
                 ELSE [cache |-> asked, ok |-> ok,
                       passed |-> prev.passed + IF ok THEN 1 ELSE 0]
  IN  got[Len(tests)]

-----------------------------------------------------------------------------
(* Sums over the best cards of distinct characters.                         *)

CardPower(c) == Max({Card[c].power[u][a] : u, a \in BOOLEAN})

Terms(c) ==
  [power |-> CardPower(c), skill |-> SkillMax(c),
   bonus |-> Card[c].base + Card[c].limited,
   base |-> Card[c].base, limited |-> Card[c].limited]

\* The largest sum of a function at so many points.
Largest(best, slots) ==
  Max({MapThenSumSet(LAMBDA x : best[x], S) :
         S \in {S \in SUBSET DOMAIN best : Cardinality(S) <= slots}})

PerCharacter(cards, field) ==
  [ch \in {Card[c].char : c \in cards} |->
     Max({Terms(c)[field] : c \in {x \in cards : Card[x].char = ch}})]

Best(cards, field, slots) ==
  Max({Largest(best, slots) : best \in {PerCharacter(cs, field) : cs \in {cards}}})

\* The cards at and after a position.
From(dense) == {c \in request.pool : c >= dense}

\* The cards of characters that are not selected.
Unused(used) == {c \in request.pool : Card[c].char \notin used}

-----------------------------------------------------------------------------
(* Bonus terms beyond the cards' own.                                       *)

\* The character that leads a final chapter, when that is fixed.
FixedLeaders ==
  IF request.leader # NoChar
  THEN {request.leader}
  ELSE {Card[c].char : c \in {c \in request.pool :
          FixedPrefix > 0 /\ CardMatchesSlot(1, c)}}

\* Each id with the largest value that a possible leader's profile gives it.
SupportEnvelope ==
  LET leaders == IF FixedLeaders # {} THEN FixedLeaders
                 ELSE {Card[c].char : c \in request.pool}
      profiles == {SupportFor(ch) : ch \in IF request.final THEN leaders ELSE {NoChar}}
      entries == UNION {ToSet(p.cards) : p \in profiles}
      best == {e \in entries : \A o \in entries : o.id = e.id => o.value <= e.value}
  IN  [cards |-> SortedBy(best, LAMBDA a, b : \/ a.value > b.value
                                              \/ a.value = b.value /\ a.id < b.id),
       count |-> Max({p.count : p \in profiles})]

ExtraBonusUb ==
  IF request.worldBloom
  THEN Max({DiffAttr[n] : n \in 0..DeckSize}) + SupportSum(SupportEnvelope, {})
  ELSE 0

\* The attributes beside attrs that distinct characters can still bring.
ReachableNovelAttrs(attrs, dense, used, rest) ==
  LET cards == From(dense) \cap Unused(used)
      with(a) == {Card[c].char : c \in {x \in cards : Card[x].attr = a}}
      novel == {Card[c].attr : c \in cards} \ attrs
      matched == {A \in SUBSET novel :
                    \E f \in Injection(A, {Card[c].char : c \in cards}) :
                      \A a \in A : f[a] \in with(a)}
  IN  Min({rest, Max({Cardinality(A) : A \in matched})})

\* Mutant: only the attributes at hand are counted.
ExtraWithoutNovel(attrs, ids, dense, used, rest) ==
  IF ~request.worldBloom THEN suffix.extra
  ELSE Min({suffix.extra, DiffAttr[Cardinality(attrs)] + SupportSum(suffix.support, ids)})

\* For the cards selected so far and any completion from a position on.
WorldBloomExtra(attrs, ids, dense, used, rest) ==
  IF ~request.worldBloom
  THEN suffix.extra
  ELSE LET count == Cardinality(attrs)
           most == Min({DeckSize, count + ReachableNovelAttrs(attrs, dense, used, rest)})
       IN  Min({suffix.extra,
                Max({DiffAttr[n] : n \in count..most}) + SupportSum(suffix.support, ids)})

-----------------------------------------------------------------------------
(* What is prepared once for a pool.                                        *)

Build ==
  [support |-> SupportEnvelope,
   extra |-> ExtraBonusUb,
   tails |-> [dense \in request.pool \cup {Max(request.pool) + 1} |->
                [field \in {"power", "skill", "bonus", "base", "limited"} |->
                   [slots \in 0..DeckSize |-> Best(From(dense), field, slots)]]]]

DenseTail(dense, field, slots) == suffix.tails[dense][field][slots]

-----------------------------------------------------------------------------
(* Ceiling inputs.                                                          *)

CountsLimited == request.final /\ request.cap > 0

\* In a final chapter the cap limits how many limited amounts a tail counts.
BonusTail(dense, slots, counted) ==
  DenseTail(dense, IF request.final THEN "base" ELSE "bonus", slots)
    + IF request.final
      THEN DenseTail(dense, "limited", Min({slots, Max({0, request.cap - counted})}))
      ELSE 0

DenseInputs(dense, partial, slots, extra) ==
  [power |-> partial.power + DenseTail(dense, "power", slots),
   bonus |-> partial.bonus + BonusTail(dense, slots, 0) + extra,
   skill |-> partial.skill + DenseTail(dense, "skill", slots)]

\* Any deck with these characters selected.
GlobalInputs(partial, used, slots, extra) ==
  [power |-> partial.power + Best(Unused(used), "power", slots),
   bonus |-> partial.bonus + Best(Unused(used), "bonus", slots) + extra,
   skill |-> partial.skill + Best(Unused(used), "skill", slots)]

\* A card takes the next slot.
CandidateInputs(c, power, skill, partial, slots, extra) ==
  LET k == Card[c]
      own == IF request.final
             THEN k.base + (IF CountsLimited THEN k.limited ELSE 0)
             ELSE k.base + k.limited
      counted == IF CountsLimited /\ k.limited > 0 THEN 1 ELSE 0
  IN  [power |-> partial.power + power + DenseTail(c + 1, "power", slots - 1),
       bonus |-> partial.bonus + own + BonusTail(c + 1, slots - 1, counted) + extra,
       skill |-> partial.skill + skill + DenseTail(c + 1, "skill", slots - 1)]

\* A card takes the next slot, and its character is no one else's.
TightInputs(c, partial, used, slots, extra) ==
  LET terms == Terms(c)
  IN  GlobalInputs([power |-> partial.power + terms.power,
                    skill |-> partial.skill + terms.skill,
                    bonus |-> partial.bonus + terms.bonus],
                   used \cup {Card[c].char}, slots - 1, extra)

\* What a candidate's ceiling reads of its bonus.
BonusKey(c) ==
  LET limited == IF CountsLimited THEN Card[c].limited ELSE 0
  IN  IF request.final
      THEN <<Card[c].base + limited, limited > 0>>
      ELSE <<Card[c].base + Card[c].limited, FALSE>>

\* A card and those behind it with the same key.
CandidateRun(c) ==
  {d \in From(c) : \A x \in c..d : BonusKey(x) = BonusKey(c)}

-----------------------------------------------------------------------------
(* Scores without an event: what the members share is fixed per scenario.   *)

DenseNumerator(dense, partial, slots) ==
  Numerator(partial.power + DenseTail(dense, "power", slots),
            partial.skill + DenseTail(dense, "skill", slots))

NoAttr == -1

CardScenarioPower(c, allowed, attrFull) ==
  Max({Card[c].power[FALSE][attrFull]}
        \cup IF Card[c].unit \in allowed THEN {Card[c].power[TRUE][attrFull]} ELSE {})

ScenarioTail(allowed, attr, used, slots) ==
  LET cards == {c \in Unused(used) : attr \in {NoAttr, Card[c].attr}}
  IN  Largest([ch \in {Card[c].char : c \in cards} |->
                 Max({CardScenarioPower(c, allowed, attr # NoAttr) :
                        c \in {x \in cards : Card[x].char = ch}})], slots)

ScenarioNumerator(deck, allowed, attr, partial, slots) ==
  LET used == {Card[c].char : c \in ToSet(deck)}
      power == SumOf([i \in DOMAIN deck |->
                        CardScenarioPower(deck[i], allowed, attr # NoAttr)])
  IN  Numerator(power + ScenarioTail(allowed, attr, used, slots),
                partial.skill + Best(Unused(used), "skill", slots))

\* Mutant: a scenario in which all share an attribute is not looked at.
MixedScenarioBound(deck, partial, slots) ==
  LET shared == {u \in {Card[c].unit : c \in request.pool} :
                   \A c \in ToSet(deck) : Card[c].unit = u}
  IN  ScenarioNumerator(deck, shared, NoAttr, partial, slots)

\* The units all members may share, and each attribute they may share.
ScenarioBound(deck, partial, slots) ==
  LET shared(field) == {x \in {Card[c][field] : c \in request.pool} :
                          \A c \in ToSet(deck) : Card[c][field] = x}
  IN  Max({ScenarioNumerator(deck, shared("unit"), a, partial, slots) :
             a \in {NoAttr} \cup shared("attr")})
=============================================================================
