---------------------------- MODULE RegimeSearch ----------------------------
(***************************************************************************)
(* The outer loop of an exact search (src/src/search/composition.rs, and    *)
(* src/src/search/solver/challenge.rs around it).  The decks of a pool are  *)
(* covered by composition regimes; each regime that can still reach the     *)
(* K-th result is searched on its admitted cards, with per-card power       *)
(* bounds that hold for its own decks only, and all of them feed one        *)
(* tracker.  A challenge request has same-character decks: it runs the loop *)
(* once per character and merges.                                          *)
(*                                                                         *)
(* The branch and bound inside a regime is abstracted to its contract: it   *)
(* may lose a deck only if the deck's ceiling under the regime's power      *)
(* bounds is below the cutoff it has reached.  Events have no world bloom,  *)
(* no final chapter and whole percentages of bonus; skills and the live     *)
(* score are folded into an event value monotone in power and bonus.       *)
(***************************************************************************)
EXTENDS TopK, DeckPower, Sorting

CONSTANTS
  Requests,   \* records: pool, family, target, minimize, topK, timed
  UnitCount, AttrCount,  \* 6 and 6 in the code
  HonorBonus, \* added to every deck's power
  PowerStep,  \* power per step of the MySekai value, 45000 in the code
  RankBase,   \* more than any power, 2^32 in the code
  IdBase,     \* more than any public id and any card index
  MaxSeeds    \* bound on the incumbents a warm start finds

ASSUME RegimeAssumption ==
  /\ {UnitCount, AttrCount, MaxSeeds, HonorBonus} \subseteq Nat
  /\ {PowerStep, RankBase, IdBase} \subseteq Nat \ {0}
  /\ \A c \in DOMAIN Card :
       /\ Card[c].units \subseteq 0..UnitCount - 1 /\ Card[c].attr < AttrCount
       /\ Card[c].bonus \in Nat
       /\ c \in 0..IdBase - 1 /\ Card[c].id < IdBase

ASSUME RequestAssumption ==
  \A q \in Requests :
    /\ q.pool \subseteq DOMAIN Card /\ IsFiniteSet(q.pool)
    /\ q.family \in {"unique", "challenge"}
    /\ q.target \in IF q.family = "unique" THEN {"score", "mysekai"} ELSE {"power"}
    /\ q.minimize \in BOOLEAN /\ q.timed \in BOOLEAN /\ q.topK \in Nat \ {0}
    /\ \A c, d \in q.pool :
         /\ Card[c].id = Card[d].id => Card[c].char = Card[d].char
         \* a pool carries multi-unit tables for all its cards or for none
         /\ Card[c].multi = <<>> <=> Card[d].multi = <<>>
    \* a power fits the low half of a MySekai rank
    /\ \A d \in kSubset(DeckSize, q.pool) : TotalPower(d) + HonorBonus < RankBase

VARIABLES
  request,
  job,      \* the character whose decks are searched, as a position in Jobs
  open,     \* whether that search is under way
  plans,    \* its regime plans not looked at yet, highest ceiling first
  results,  \* its tracker's list
  merged,   \* the results of the characters before it
  hit       \* the budget's sticky expiry

vars == <<request, job, open, plans, results, merged, hit>>

\* What the request q asks for is read from it alone.
Ctx(q) == [target |-> q.target, minimize |-> q.minimize]

Unique(q) == q.family = "unique"

ByKey(q, S) == SortedBy(S, LAMBDA a, b : KeyLess(Ctx(q), a, b))

\* The sum of the n largest of v's values.
TopSum(v, n) ==
  LET idx == DOMAIN v
      ahead(i) == {j \in idx : v[j] > v[i] \/ (v[j] = v[i] /\ j < i)}
  IN  SumFunction([i \in {i \in idx : Cardinality(ahead(i)) < n} |-> v[i]])

-----------------------------------------------------------------------------
(* Objectives.                                                              *)

MysekaiValue(power, bonus) == ((10 + power \div PowerStep) * (100 + bonus)) \div 2

EventValue(power, bonus) == power * (100 + bonus)

Primary(q, power, bonus) ==
  CASE q.target = "power" -> power
    [] q.target = "score" -> EventValue(power, bonus)
    [] q.target = "mysekai" -> MysekaiValue(power, bonus)

\* Comparable with rank_threshold only.
Ceiling(q, powerSum, bonus) ==
  LET power == powerSum + HonorBonus
  IN  IF q.target = "mysekai"
      THEN Primary(q, power, bonus) * RankBase + power
      ELSE Primary(q, power, bonus)

Bonus(d) == SumFunction([c \in d |-> Card[c].bonus])

IdCode(ids) == FoldLeft(LAMBDA code, x : code * IdBase + x, 0, Ascending(ids))

\* The exact evaluation of a deck of exchangeable slots.
Evaluated(q, d) ==
  LET power == TotalPower(d) + HonorBonus
  IN  [score |-> Primary(q, power, Bonus(d)),
       power |-> power,
       set |-> IdCode({Card[c].id : c \in d}),
       layout |-> IdCode(d)]

Evaluations(q, decks) == {Evaluated(q, d) : d \in decks}

LegalDecks(q, cards) ==
  {d \in kSubset(DeckSize, cards) :
     /\ Cardinality({Card[c].id : c \in d}) = DeckSize
     /\ Cardinality({Card[c].char : c \in d}) = IF Unique(q) THEN DeckSize ELSE 1}

-----------------------------------------------------------------------------
(* Regimes: a unit and an attribute all members share, or neither.          *)

None == -1

Regimes == [unit : {None} \cup 0..UnitCount - 1, attr : {None} \cup 0..AttrCount - 1]

\* The position in Regime::all.
Order(rg) ==
  CASE rg.unit = None /\ rg.attr = None -> 0
    [] rg.unit = None /\ rg.attr # None -> 1 + rg.attr
    [] rg.unit # None /\ rg.attr = None -> 1 + AttrCount + rg.unit
    [] OTHER -> 1 + AttrCount + UnitCount + rg.unit * AttrCount + rg.attr

Admits(rg, c) ==
  /\ rg.unit # None => rg.unit \in Card[c].units
  /\ rg.attr # None => Card[c].attr = rg.attr

\* Mutant: a member of a shared-unit deck reads its power for that unit only.
SharedKeys(rg) == {[unit |-> rg.unit # None, attr |-> rg.attr # None]}

\* Every (unit shared, attribute shared) a member's power may be read at.
MemberKeys(rg) ==
  {[unit |-> u, attr |-> rg.attr # None] :
     u \in {FALSE} \cup IF rg.unit # None THEN {TRUE} ELSE {}}

LegacyOverKeys(c, keys) ==
  Max({Card[c].legacy[u][k.unit][k.attr] : u \in Card[c].units, k \in keys})

\* The table's first two indices say whether the own and the support unit is shared.
MultiOverKeys(c, keys) ==
  LET reached(k) == {os \in BOOLEAN \X BOOLEAN : (os[1] \/ os[2]) = k.unit}
  IN  Max(UNION {{Card[c].multi[os[1]][os[2]][k.attr] : os \in reached(k)} : k \in keys})

CardBound(c, keys, multi) ==
  IF multi THEN MultiOverKeys(c, keys) ELSE LegacyOverKeys(c, keys)

\* The activations of multi-unit effects a deck of these cards can have.
Activations(cards) ==
  IF \E c \in cards : Card[c].multi # <<>>
  THEN {m \in BOOLEAN : /\ MultiUnitMode = "force_off" => ~m
                        /\ MultiUnitMode = "force_on" => m}
  ELSE {FALSE}

-----------------------------------------------------------------------------
(* Plans                                                                    *)

\* The best values of the characters, or of the cards of a challenge pool.
BestSum(q, cards, value) ==
  IF Unique(q)
  THEN LET chars == {Card[c].char : c \in cards}
       IN  TopSum([x \in chars |-> Max({value[c] : c \in {c \in cards : Card[c].char = x}})],
                  DeckSize)
  ELSE TopSum(value, DeckSize)

Fillable(q, cards) ==
  Cardinality(IF Unique(q) THEN {Card[c].char : c \in cards}
                           ELSE {Card[c].id : c \in cards}) >= DeckSize

Plan(q, cards, rg, multi) ==
  LET keep == {c \in cards : Admits(rg, c)}
      bound == [c \in keep |-> CardBound(c, MemberKeys(rg), multi)]
  IN  [order |-> Order(rg) * 2 + IF multi THEN 1 ELSE 0,
       regime |-> rg, multi |-> multi, keep |-> keep, power |-> bound,
       ceiling |-> IF Fillable(q, keep)
                   THEN Ceiling(q, BestSum(q, keep, bound),
                                   BestSum(q, keep, [c \in keep |-> Card[c].bonus]))
                   ELSE None]

\* Regimes without a legal deck get no plan.
Planned(q, cards) ==
  {p \in {Plan(q, cards, rg, m) : rg \in Regimes, m \in Activations(cards)} :
     p.ceiling # None}

Plans(q, cards) ==
  SortedBy(Planned(q, cards),
           LAMBDA a, b : \/ a.ceiling > b.ceiling
                         \/ a.ceiling = b.ceiling /\ a.order < b.order)

\* The decks a plan has to find: those that share exactly what it says.
Owns(p, d) ==
  LET comp == Composition(d)
  IN  /\ d \subseteq p.keep
      /\ comp.attr = (p.regime.attr # None)
      /\ IF p.regime.unit = None THEN comp.units = {} ELSE p.regime.unit \in comp.units
      /\ p.multi = (MultiActive(comp.multi) /\ \A c \in d : Card[c].multi # <<>>)

-----------------------------------------------------------------------------
(* The search of one regime                                                 *)

DeckCeiling(q, p, d) == Ceiling(q, SumFunction([c \in d |-> p.power[c]]), Bonus(d))

TopOf(q, decks) == ByKey(q, CanonicalTopK(Ctx(q), q.topK, Evaluations(q, decks)))

\* A weakest-deck search has no bounds.  Any other may have dropped whatever is
\* below some cutoff, as long as what it kept reaches that cutoff.
Solutions(q, p, floor) ==
  LET decks == LegalDecks(q, p.keep)
      above(cut) == {d \in decks : DeckCeiling(q, p, d) >= cut}
      reached(cut) == RankThreshold(Ctx(q), q.topK, TopOf(q, above(cut)), floor, RankBase)
      cuts == {0} \cup {Rank(Ctx(q), Evaluated(q, d), RankBase) : d \in decks}
                \cup {RankThreshold(Ctx(q), q.topK, <<>>, floor, RankBase)}
  IN  IF Minimizing(Ctx(q))
      THEN {TopOf(q, decks)}
      ELSE {TopOf(q, above(cut)) : cut \in {cut \in cuts : cut <= reached(cut)}}

\* A search cut short returns legal decks of its regime, at most K.
Partials(q, p) == {<<>>} \cup {<<Evaluated(q, d)>> : d \in LegalDecks(q, p.keep)}

InsertAll(q, list, new) ==
  FoldLeft(LAMBDA l, r : Insert(Ctx(q), q.topK, l, r), list, new)

-----------------------------------------------------------------------------
(* The loop                                                                 *)

\* The characters of a challenge request in ascending order, one search each.
Jobs(q) ==
  IF Unique(q) THEN <<q.pool>>
  ELSE LET chars == Ascending({Card[c].char : c \in q.pool})
       IN  [i \in DOMAIN chars |-> {c \in q.pool : Card[c].char = chars[i]}]

Init ==
  /\ request \in Requests
  /\ job = 1 /\ open = FALSE /\ plans = <<>>
  /\ results = <<>> /\ merged = <<>>
  /\ hit = FALSE

Finished == ~open /\ (hit \/ job > Len(Jobs(request)))

\* Only the unique-character family has a warm start.
Open ==
  /\ ~open /\ ~Finished
  /\ plans' = Plans(request, Jobs(request)[job])
  /\ \E seeds \in {s \in SUBSET LegalDecks(request, Jobs(request)[job]) :
                    Cardinality(s) <= MaxSeeds} :
       /\ ~Unique(request) => seeds = {}
       /\ results' = InsertAll(request, <<>>, ByKey(request, Evaluations(request, seeds)))
  /\ open' = TRUE
  /\ UNCHANGED <<request, job, merged, hit>>

\* The deadline is looked at before every character, regime and node.
Expire ==
  /\ request.timed /\ ~hit /\ ~Finished
  /\ hit' = TRUE
  /\ UNCHANGED <<request, job, open, plans, results, merged>>

Cutoff == RankThreshold(Ctx(request), request.topK, results, 0, RankBase)

Pending == open /\ ~hit /\ plans # <<>>

\* The log-linear bound may also rule out a regime, if its decks allow it.
LogLinearExcludes(p) ==
  /\ Unique(request) /\ request.target = "score"
  /\ \A d \in LegalDecks(request, p.keep) :
       Owns(p, d) => Evaluated(request, d).score < Cutoff

\* Mutant: a regime that can only tie the K-th result is skipped.
PruneTies ==
  /\ Pending
  /\ Cutoff # 0
  /\ Head(plans).ceiling <= Cutoff \/ LogLinearExcludes(Head(plans))
  /\ plans' = Tail(plans)
  /\ UNCHANGED <<request, job, open, results, merged, hit>>

PruneRegime ==
  /\ Pending
  /\ Cutoff # 0
  /\ Head(plans).ceiling < Cutoff \/ LogLinearExcludes(Head(plans))
  /\ plans' = Tail(plans)
  /\ UNCHANGED <<request, job, open, results, merged, hit>>

SearchRegime ==
  /\ Pending
  /\ Cutoff # 0 => Head(plans).ceiling >= Cutoff
  /\ \E found \in Solutions(request, Head(plans), Threshold(request.topK, results, 0)) :
       results' = InsertAll(request, results, found)
  /\ plans' = Tail(plans)
  /\ UNCHANGED <<request, job, open, merged, hit>>

SearchCutShort ==
  /\ Pending /\ request.timed
  /\ Cutoff # 0 => Head(plans).ceiling >= Cutoff
  /\ \E found \in Partials(request, Head(plans)) :
       results' = InsertAll(request, results, found)
  /\ plans' = Tail(plans)
  /\ hit' = TRUE
  /\ UNCHANGED <<request, job, open, merged>>

Close ==
  /\ open /\ (plans = <<>> \/ hit)
  /\ open' = FALSE /\ plans' = <<>> /\ results' = <<>>
  /\ merged' = merged \o results
  /\ job' = job + 1
  /\ UNCHANGED <<request, hit>>

Next == Open \/ Expire \/ PruneRegime \/ SearchRegime \/ SearchCutShort \/ Close

Spec == Init /\ [][Next]_vars

\* The characters' lists are sorted together and cut to K.
Answer ==
  LET all == ByKey(request, ToSet(merged))
  IN  SubSeq(all, 1, Min({request.topK, Len(all)}))

-----------------------------------------------------------------------------

AllDecks ==
  UNION {LegalDecks(request, Jobs(request)[j]) : j \in 1..Len(Jobs(request))}

IsCanonical == Finished /\ ~hit => Answer = TopOf(request, AllDecks)

(***************************************************************************)
(* Unless the deadline struck, a strongest-deck search answers with the    *)
(* canonical Top-K of all legal decks, although every regime was searched  *)
(* under power bounds that are wrong for the decks of the other regimes,   *)
(* with a floor the others had reached, or was not searched at all.        *)
(***************************************************************************)
CompleteIsCanonical == ~request.minimize => IsCanonical

(***************************************************************************)
(* The same of a weakest-deck search (docs/parameters.md: "Exact, including *)
(* Top-K"; challenge.rs: "Maximization ceilings cannot prune a             *)
(* minimum-power search").                                                 *)
(***************************************************************************)
WeakestIsCanonical == request.minimize => IsCanonical

(***************************************************************************)
(* While a pool is searched, every deck that belongs in the list and is    *)
(* not there is owned by a plan not looked at yet, whose power bounds      *)
(* dominate the power each of its members resolves to in the deck, and     *)
(* whose ceiling the deck respects.                                        *)
(***************************************************************************)
StillPlanned ==
  open /\ ~hit /\ ~request.minimize =>
    \A d \in LegalDecks(request, Jobs(request)[job]) :
      LET r == Evaluated(request, d)
      IN  \/ r \notin CanonicalTopK(Ctx(request), request.topK, ToSet(results) \cup {r})
          \/ r \in ToSet(results)
          \/ \E p \in ToSet(plans) :
                /\ Owns(p, d)
                /\ \A c \in d : EffectivePower(c, Composition(d)) <= p.power[c]
                /\ Rank(Ctx(request), r, RankBase) <= p.ceiling
=============================================================================
