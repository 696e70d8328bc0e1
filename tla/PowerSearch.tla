---------------------------- MODULE PowerSearch ----------------------------
(***************************************************************************)
(* The exact Top-K search of the unconstrained maximizing Power target     *)
(* (src/src/search/solver/power.rs): scenarios that fix what a deck shares, *)
(* one additive power ceiling per card and scenario, and a branch and      *)
(* bound over character-distinct decks against one tracker, cut short by a *)
(* cooperative deadline.                                                   *)
(*                                                                         *)
(* A pool is a set of card indices.  A list of public ids is the number    *)
(* that enumerates such lists lexicographically, base IdBase.  The caller  *)
(* sets no power cap, so the clamp of a total is the identity here.        *)
(***************************************************************************)
EXTENDS TopK, DeckPower, Sorting

CONSTANTS
  Pools,      \* the candidate pools, sets of card indices
  TopKs,      \* the requested result counts
  HonorBonus, \* added to every deck's power
  IdBase      \* more than any public id and any card index

ASSUME PowerSearchAssumption ==
  /\ HonorBonus \in Nat /\ IdBase \in Nat
  /\ TopKs \subseteq Nat \ {0}
  /\ DOMAIN Card \subseteq Nat
  /\ \A c \in DOMAIN Card : Card[c].id < IdBase /\ c < IdBase
  /\ \A p \in Pools :
       /\ p \subseteq DOMAIN Card /\ IsFiniteSet(p)
       /\ Cardinality(p) >= DeckSize
       \* a pool carries multi-unit tables for all its cards or for none
       /\ \A c, d \in p : Card[c].multi = <<>> <=> Card[d].multi = <<>>

VARIABLES
  pool, topK, timed,  \* the request: candidates, K, whether it has a deadline
  scenarios,          \* the admitted scenarios, most promising first
  current,            \* the scenario being searched
  stack,              \* the active calls of descend, outermost first
  deck,               \* the shared array of selected cards
  results,            \* the tracker's list
  hit                 \* the budget's sticky expiry

request == <<pool, topK, timed, scenarios>>
vars == <<request, current, stack, deck, results, hit>>

Ctx == [target |-> "power", minimize |-> FALSE]

ListCode(list) == FoldLeft(LAMBDA code, x : code * IdBase + x, 0, list)

SetCode(ids) == ListCode(Ascending(ids))

SmallestOf(S, n) == {x \in S : Cardinality({y \in S : y < x}) < n}

-----------------------------------------------------------------------------
(* The exact evaluation of a complete deck: every slot is exchangeable, so  *)
(* it is reported by public id.                                             *)

Evaluated(members) ==
  LET slots == SortedBy(members, LAMBDA a, b : Card[a].id < Card[b].id)
  IN  [score |-> TotalPower(members) + HonorBonus,
       power |-> 0,
       set |-> SetCode({Card[c].id : c \in members}),
       layout |-> ListCode(slots)]

LegalDecks(p) ==
  {d \in kSubset(DeckSize, p) :
     /\ Cardinality({Card[c].char : c \in d}) = DeckSize
     /\ Cardinality({Card[c].id : c \in d}) = DeckSize}

-----------------------------------------------------------------------------
(* Scenarios                                                                *)

\* Mutant: the masks are not closed under intersection.
MaskSets(p) == {{}} \cup {Card[c].units : c \in p}

\* Unit masks closed under intersection, with the empty set.
UnitSets(p) ==
  LET masks == {Card[c].units : c \in p}
  IN  {{}} \cup {{u \in 0..VS : \A m \in M : u \in m} : M \in (SUBSET masks) \ {{}}}

\* Mutant: the multi-unit activation is forgotten.
LegacyScenarioPower(c, units, attrAll) == LegacyPower(c, units, attrAll)

ScenarioPower(c, units, attrAll) ==
  LET with(multi) ==
        EffectivePower(c, [units |-> units, attr |-> attrAll, multi |-> multi])
  IN  Larger(with(FALSE), with(TRUE))

NoAttr == -1

Admitted(p, units, attr) ==
  {c \in p : units \subseteq Card[c].units /\ attr \in {NoAttr, Card[c].attr}}

\* Descending power, then public id and pool index.
Entries(p, units, attr) ==
  LET entry(c) == [power |-> ScenarioPower(c, units, attr # NoAttr),
                   card |-> c, char |-> Card[c].char, id |-> Card[c].id]
  IN  SortedBy({entry(c) : c \in Admitted(p, units, attr)},
               LAMBDA a, b : \/ a.power > b.power
                             \/ a.power = b.power /\ a.id < b.id
                             \/ a.power = b.power /\ a.id = b.id /\ a.card < b.card)

\* The first entries, from pos on, of the next `slots` characters not used.
Completion(entries, pos, used, slots) ==
  LET first == {i \in pos..Len(entries) :
                  /\ entries[i].char \notin used
                  /\ \A j \in pos..i - 1 : entries[j].char # entries[i].char}
  IN  SmallestOf(first, slots)

Feasible(entries, pos, used, slots) ==
  Cardinality(Completion(entries, pos, used, slots)) = slots

CompletionSum(entries, pos, used, slots) ==
  SumFunction([i \in Completion(entries, pos, used, slots) |-> entries[i].power])

Least(entries, pos, used, slots) ==
  entries[Max(Completion(entries, pos, used, slots))].power

\* Every combination of shared units and shared attribute.
AllScenarios(p) ==
  {[units |-> u, attr |-> a, entries |-> Entries(p, u, a)] :
     u \in UnitSets(p), a \in {NoAttr} \cup {Card[c].attr : c \in p}}

\* Those a legal deck may have, each with its ceiling.
FeasibleScenarios(p) ==
  {[units |-> s.units, attr |-> s.attr, entries |-> s.entries,
    ceiling |-> CompletionSum(s.entries, 1, {}, DeckSize)] :
     s \in {s \in AllScenarios(p) : Feasible(s.entries, 1, {}, DeckSize)}}

\* Any order is exact; ties keep the order the scenarios are listed in.
BuildScenarios(p) ==
  LET listed == SetToSeq(FeasibleScenarios(p))
      order == SortedBy(DOMAIN listed,
                 LAMBDA i, j : \/ listed[i].ceiling > listed[j].ceiling
                               \/ listed[i].ceiling = listed[j].ceiling /\ i < j)
  IN  [n \in DOMAIN listed |-> listed[order[n]]]

-----------------------------------------------------------------------------
(* Pruning                                                                   *)

Cutoff == Threshold(topK, results, 0)

\* Mutant: a deck that ties the K-th objective is pruned.
BelowOrAtCutoff(sum) == Full(topK, results) /\ sum + HonorBonus <= Cutoff

BelowCutoff(sum) == Full(topK, results) /\ sum + HonorBonus < Cutoff

\* A completion that reaches the K-th objective takes the best completion's
\* sum, so its entries are among those of at least its smallest power.
TieCannotEnter(entries, selected, pos, used, sum, slots) ==
  /\ Full(topK, results)
  /\ sum + HonorBonus = Cutoff
  /\ LET least == Least(entries, pos, used, slots)
         ids == {entries[i].id : i \in {i \in pos..Len(entries) :
                   entries[i].power >= least /\ entries[i].char \notin used}}
                  \ selected
     IN  \/ Cardinality(ids) < slots
         \/ SetCode(selected \cup SmallestOf(ids, slots)) > results[Len(results)].set

-----------------------------------------------------------------------------
(* The search                                                                *)

Init ==
  /\ pool \in Pools
  /\ topK \in TopKs
  /\ timed \in BOOLEAN
  /\ scenarios = BuildScenarios(pool)
  /\ current = 1
  /\ stack = <<>>
  /\ deck = [i \in 1..DeckSize |-> 0]
  /\ results = <<>>
  /\ hit = FALSE

Finished == stack = <<>> /\ (hit \/ current > Len(scenarios))

\* The clock is read now and then, and never for an unlimited search.
Expire == timed /\ hit' = TRUE

Entry == scenarios[current].entries

\* One call of descend: a leaf, a dead end, a pruned node, or a loop to run.
Visit(below, cards, pos, used, sum) ==
  LET depth == Len(below)
      slots == DeckSize - depth
      call == [pos |-> pos, used |-> used, sum |-> sum]
      selected == {Card[cards[i]].id : i \in 1..depth}
      prune == \/ ~Feasible(Entry, pos, used, slots)
               \/ LET bound == sum + CompletionSum(Entry, pos, used, slots)
                  IN  \/ BelowCutoff(bound)
                      \/ TieCannotEnter(Entry, selected, pos, used, bound, slots)
  IN  IF depth = DeckSize
      THEN /\ results' = Insert(Ctx, topK, results,
                                Evaluated({cards[i] : i \in 1..DeckSize}))
           /\ stack' = below
      ELSE /\ stack' = IF prune THEN below ELSE Append(below, call)
           /\ UNCHANGED results

ExpireBetweenScenarios ==
  /\ stack = <<>> /\ ~Finished
  /\ Expire
  /\ UNCHANGED <<request, current, stack, deck, results>>

PruneScenario ==
  /\ stack = <<>> /\ ~Finished
  /\ BelowCutoff(scenarios[current].ceiling)
  /\ current' = current + 1
  /\ UNCHANGED <<request, stack, deck, results, hit>>

\* A root that is pruned or infeasible leaves the scenario at once.
SearchScenario ==
  /\ stack = <<>> /\ ~Finished
  /\ ~BelowCutoff(scenarios[current].ceiling)
  /\ Visit(<<>>, deck, 1, {}, 0)
  /\ current' = IF stack' = <<>> THEN current + 1 ELSE current
  /\ UNCHANGED <<request, deck, hit>>

Top == stack[Len(stack)]
Caller == Front(stack)
Candidate == Entry[Top.pos]
Depth == Len(stack) - 1

\* The loop ends, or breaks because later entries are worth no more.
Leave ==
  /\ stack # <<>>
  /\ Top.pos <= Len(Entry) =>
       BelowCutoff(Top.sum + Candidate.power * (DeckSize - Depth))
  /\ stack' = Caller
  /\ current' = IF Caller = <<>> THEN current + 1 ELSE current
  /\ UNCHANGED <<request, deck, results, hit>>

\* The expiry unwinds every call.
ExpireAtCandidate ==
  /\ stack # <<>> /\ Top.pos <= Len(Entry)
  /\ Expire
  /\ stack' = <<>>
  /\ UNCHANGED <<request, current, deck, results>>

Considered ==
  /\ stack # <<>> /\ Top.pos <= Len(Entry)
  /\ ~BelowCutoff(Top.sum + Candidate.power * (DeckSize - Depth))

\* Mutant: only the public id is compared.
TakenCard == \E i \in 1..Depth : Card[deck[i]].id = Candidate.id

Taken == \/ Candidate.char \in Top.used
         \/ \E i \in 1..Depth : Card[deck[i]].id = Candidate.id

Advanced == Append(Caller, [Top EXCEPT !.pos = @ + 1])

\* Mutant: the position is not advanced.
SkipInPlace ==
  /\ Considered /\ Taken
  /\ UNCHANGED vars

Skip ==
  /\ Considered /\ Taken
  /\ stack' = Advanced
  /\ UNCHANGED <<request, current, deck, results, hit>>

\* Mutant: a member's power is not added to the prefix.
DescendSameSum ==
  /\ Considered /\ ~Taken
  /\ deck' = [deck EXCEPT ![Depth + 1] = Candidate.card]
  /\ Visit(Advanced, deck', Top.pos + 1, Top.used \cup {Candidate.char}, Top.sum)
  /\ UNCHANGED <<request, current, hit>>

Descend ==
  /\ Considered /\ ~Taken
  /\ deck' = [deck EXCEPT ![Depth + 1] = Candidate.card]
  /\ Visit(Advanced, deck', Top.pos + 1, Top.used \cup {Candidate.char},
           Top.sum + Candidate.power)
  /\ UNCHANGED <<request, current, hit>>

Next ==
  \/ ExpireBetweenScenarios \/ PruneScenario \/ SearchScenario
  \/ Leave \/ ExpireAtCandidate \/ Skip \/ Descend

Spec == Init /\ [][Next]_vars

\* A single thread that keeps running.
FairSpec == Spec /\ WF_vars(Next)

-----------------------------------------------------------------------------

(***************************************************************************)
(* A search that was not cut short answers with the canonical Top-K of all *)
(* legal decks, evaluated for themselves: no scenario, bound, monotone     *)
(* break or public-set tie test has lost a deck.  Exhaustion of the budget *)
(* is the only excuse, and then the answer is labelled so (hit).           *)
(***************************************************************************)
CompleteIsCanonical ==
  Finished /\ ~hit =>
    ToSet(results) = CanonicalTopK(Ctx, topK, {Evaluated(d) : d \in LegalDecks(pool)})

(***************************************************************************)
(* Cut short or not, only legal decks are reported, with their own power,  *)
(* never a scenario's ceiling.                                             *)
(***************************************************************************)
OnlyLegalDecks ==
  \A r \in ToSet(results) : \E d \in LegalDecks(pool) : r = Evaluated(d)

(***************************************************************************)
(* The array of selected cards is shared by all active calls, and what     *)
(* each call was told about its prefix stays true of the array below it,   *)
(* although every deeper call has written to it since.                     *)
(***************************************************************************)
PrefixAgrees ==
  \A d \in 1..Len(stack) :
    /\ stack[d].used = {Card[deck[i]].char : i \in 1..d - 1}
    /\ Cardinality({Card[deck[i]].id : i \in 1..d - 1}) = d - 1
    /\ stack[d].sum =
         SumFunction([c \in {deck[i] : i \in 1..d - 1} |->
                        ScenarioPower(c, scenarios[current].units,
                                      scenarios[current].attr # NoAttr)])

(***************************************************************************)
(* While the search runs, every deck that belongs to the final answer and  *)
(* is not yet in the list is still ahead in the scenario of exactly what   *)
(* its members share: that scenario is not over, and if it is the current  *)
(* one an active call has the deck's next member before it.                *)
(***************************************************************************)
StillAhead(d, call, depth) ==
  LET prefix == {deck[i] : i \in 1..depth}
      later == {Entry[i].card : i \in call.pos..Len(Entry)}
  IN  prefix \subseteq d /\ (d \ prefix) \subseteq later

OwnScenario(s, d) ==
  LET comp == Composition(d)
  IN  s.units = comp.units /\ (s.attr # NoAttr <=> comp.attr)
        /\ \A c \in d : s.attr \in {NoAttr, Card[c].attr}

NothingLost ==
  ~hit =>
    \A d \in LegalDecks(pool) :
      Evaluated(d) \in CanonicalTopK(Ctx, topK, ToSet(results) \cup {Evaluated(d)})
        => \/ Evaluated(d) \in ToSet(results)
           \/ \E i \in current..Len(scenarios) :
                /\ OwnScenario(scenarios[i], d)
                /\ i = current /\ stack # <<>> =>
                     \E depth \in 1..Len(stack) : StillAhead(d, stack[depth], depth - 1)

(* The search ends, deadline or not. *)
Terminates == <>Finished
=============================================================================
