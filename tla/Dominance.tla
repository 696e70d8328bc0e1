----------------------------- MODULE Dominance -----------------------------
(***************************************************************************)
(* An exact search over a reduced pool (search_unique_characters in         *)
(* src/src/search.rs).  Cards that another card of the same character       *)
(* dominates are removed (src/src/search/dominance.rs); in a final chapter  *)
(* a second round demotes cards worth keeping as a leader only; the rest    *)
(* is searched; and the decks with removed cards that belong among the      *)
(* first K are put back one substitution at a time, against the tracker's   *)
(* moving cutoff (src/src/search/alternatives.rs).                          *)
(*                                                                         *)
(* The search of the reduced pool is abstracted to its contract: the        *)
(* canonical answer of every reduced deck, those below a floor found        *)
(* elsewhere excepted.  Requests have exchangeable free slots; for others   *)
(* the code keeps every card.                                               *)
(***************************************************************************)
EXTENDS Evaluation

CONSTANTS
  Requests,
  Characters  \* the 27 characters

ASSUME RequestAssumption ==
  \A q \in Requests :
    /\ RequestOK(q) /\ q.unique
    /\ q.target \in {"score", "mysekai", "bonus"}
    /\ q.timed \in BOOLEAN /\ q.floor \in Nat

VARIABLES
  evaluation, \* the exact evaluator, tabulated for the request: see Evaluated
  phase,      \* what the search does next
  removed,    \* [removed card -> the card that removed it]
  demoted,    \* the same for the member slots of a final chapter
  alternatives,        \* [card -> the removed cards it stands for]
  memberAlternatives,  \* [card -> those it stands for in a member slot]
  results,    \* the tracker's list, or the list returned
  tasks,      \* the calls of the expansion still to be made, the next one first
  hit         \* the budget's sticky expiry

pruning == <<removed, demoted, alternatives, memberAlternatives>>

vars == <<request, evaluation, phase, pruning, results, tasks, hit>>

\* The decks with a first card from leaders and the others from members, the
\* exchangeable ones in dense order.
Decks(leaders, members) ==
  {d \in Tuples :
     /\ \A slot \in Slots :
          d[slot] \in IF slot = 1 THEN leaders ELSE members
     /\ \A slot \in RolePrefix + 1..DeckSize - 1 : d[slot] < d[slot + 1]
     /\ Valid(d)}

LegalDecks == Decks(request.pool, request.pool)

Evaluated == [d \in Tuples |-> EvaluateCandidate(d)]

Evaluations(decks) == UNION {evaluation[d] : d \in decks}

-----------------------------------------------------------------------------
(* Dominance.                                                               *)

\* The support profiles a completion can use.
Profiles == {SupportFor(char) : char \in IF request.final THEN Characters ELSE {NoChar}}

SupportValue(support, c) ==
  LET entries == {i \in DOMAIN support.cards : support.cards[i].id = Card[c].id}
  IN  IF support.count = 0 \/ entries = {} THEN 0
      ELSE support.cards[CHOOSE i \in entries : TRUE].value

\* What is certain to take a withdrawn support card's place: the entry behind
\* all those that a full deck and a full support can use.
ReplacementFloor(support) ==
  LET i == support.count + DeckSize
  IN  IF support.count > 0 /\ i \in DOMAIN support.cards THEN support.cards[i].value ELSE 0

\* Mutant: a card that leaves the support deck is not missed.
SupportIsFree(a, b) == TRUE

\* What the support deck loses when a takes b's place is made up for by more
\* than it, or refilled.
SupportDeficitAffordable(a, b) ==
  request.worldBloom =>
    \A support \in Profiles :
      LET refill == Max({SupportValue(support, b), ReplacementFloor(support)})
          deficit == SupportValue(support, a) - refill
      IN  deficit <= 0 \/ Card[a].base - Card[b].base > deficit

SkillDominates(a, b) ==
  /\ Card[a].kind = Card[b].kind
  /\ Card[a].skill >= Card[b].skill
  /\ Card[a].gain >= Card[b].gain
  /\ Card[a].reference >= Card[b].reference

BonusDominates(a, b) ==
  /\ Card[a].base >= Card[b].base
  /\ Card[a].limited >= Card[b].limited
  /\ request.cap < DeckSize => (Card[a].limited = 0 <=> Card[b].limited = 0)

Dominates(a, b, asLeader) ==
  /\ Card[a].attr = Card[b].attr /\ Card[a].unit = Card[b].unit
  /\ Card[a].id < Card[b].id \/ (Card[a].id = Card[b].id /\ a < b)
  /\ \A unit, attr \in BOOLEAN : Card[a].power[unit][attr] >= Card[b].power[unit][attr]
  /\ SkillDominates(a, b)
  /\ BonusDominates(a, b)
  /\ asLeader => /\ Card[a].honor >= Card[b].honor
                 /\ Card[a].leaderLimit >= Card[b].leaderLimit

Removes(a, b, asLeader) ==
  /\ a # b /\ Card[a].char = Card[b].char
  /\ Card[b].id \notin ToSet(request.fixedIds)
  /\ Dominates(a, b, asLeader)
  /\ SupportDeficitAffordable(a, b)

\* One pass in dense order: a card still kept removes what it dominates.
Winners(cards, asLeader) ==
  FoldLeft(LAMBDA won, a :
             IF a \in DOMAIN won THEN won
             ELSE [b \in DOMAIN won \cup {x \in cards : Removes(a, x, asLeader)} |->
                     IF b \in DOMAIN won THEN won[b] ELSE a],
           <<>>, Ascending(cards))

\* The survivor at the end of the chain of winners.
Root(won, c) ==
  FoldLeft(LAMBDA x, i : IF x \in DOMAIN won THEN won[x] ELSE x, c,
           [i \in 1..Cardinality(DOMAIN won) |-> i])

ChainCompress(won) ==
  [root \in request.pool |-> Ascending({c \in DOMAIN won : Root(won, c) = root})]

Kept == request.pool \ DOMAIN removed

\* Cards a searched deck may have in its leader slot, and in the others.
Leaders == Kept

Members == Kept \ DOMAIN demoted

\* Mutant: what the first round put under a demoted card is forgotten.
DemotedOnly(won) == ChainCompress(won)

\* The second round's lists, closed over both rounds.
Closure(won) ==
  [root \in request.pool |->
     LET own == ChainCompress(won)[root]
     IN  FlattenSeq([i \in DOMAIN own |-> <<own[i]>> \o alternatives[own[i]]])]

NoAlternatives == [c \in request.pool |-> <<>>]

-----------------------------------------------------------------------------
(* Phases before the expansion.                                             *)

Init ==
  /\ request \in Requests
  /\ evaluation = Evaluated
  /\ phase = "eliminate"
  /\ removed = <<>> /\ demoted = <<>>
  /\ alternatives = NoAlternatives /\ memberAlternatives = NoAlternatives
  /\ results = <<>> /\ tasks = <<>>
  /\ hit = FALSE

Expire == request.timed /\ hit' = TRUE

Proceed(next) == hit' = hit /\ phase' = next

\* Each round is followed by a look at the clock; expired, nothing is returned.
Eliminate ==
  /\ phase = "eliminate"
  /\ removed' = Winners(request.pool, request.final)
  /\ alternatives' = ChainCompress(removed')
  /\ \/ Proceed(IF request.final THEN "demote" ELSE "search")
     \/ Expire /\ phase' = "done"
  /\ UNCHANGED <<request, evaluation, demoted, memberAlternatives, results, tasks>>

Demote ==
  /\ phase = "demote"
  /\ demoted' = Winners(Kept, FALSE)
  /\ memberAlternatives' = Closure(demoted')
  /\ Proceed("search") \/ (Expire /\ phase' = "done")
  /\ UNCHANGED <<request, evaluation, removed, alternatives, results, tasks>>

-----------------------------------------------------------------------------
(* The search of the reduced pool, and the calls its results start.         *)

Variants(c) ==
  LET states == {x \in request.pool : Card[x].id = Card[c].id}
  IN  IF Cardinality(states) > 1 THEN Ascending(states) ELSE <<>>

Options(c) == IF Variants(c) = <<>> THEN <<c>> ELSE Variants(c)

\* Mutant: a card worse as a leader takes the leader's slot.
SubstitutesAnywhere(slot, c) ==
  IF slot \in DOMAIN request.fixedIds
  THEN <<>>
  ELSE alternatives[c] \o memberAlternatives[c]

SubstitutesAt(slot, c) ==
  IF slot \in DOMAIN request.fixedIds
  THEN <<>>
  ELSE alternatives[c] \o IF slot > 1 THEN memberAlternatives[c] ELSE <<>>

\* Only a final chapter has alternatives for members alone, and it always
\* expands.
HasAlternatives(list) ==
  \E i \in DOMAIN list, slot \in Slots :
    \E c \in ToSet(Options(list[i].cards[slot])) : alternatives[c] # <<>>

Call(op, deck, score, slot) == [op |-> op, deck |-> deck, score |-> score, slot |-> slot]

InsertAll(list) ==
  FoldLeft(LAMBDA kept, r : Insert(Ctx, request.topK, kept, r), <<>>, list)

SearchedDecks == Decks(Leaders, Members)

\* What a search has met: every deck that can reach the floor, or, cut short,
\* those up to some first card.
Met ==
  LET all == Evaluations(SearchedDecks)
      known == IF hit' THEN {{r \in all : r.cards[1] < c} : c \in request.pool} ELSE {all}
  IN  known \cup {{r \in S : r.score >= request.floor} : S \in known}

Search ==
  /\ phase = "search"
  /\ hit' = FALSE \/ Expire
  /\ \E S \in Met :
     \E answer \in {SortedBy(CanonicalTopK(Ctx, request.topK, S),
                           LAMBDA a, b : KeyLess(Ctx, a, b))} :
       LET expands == /\ request.topK > 1
                      /\ request.final \/ HasAlternatives(answer)
       IN  IF expands
           THEN /\ results' = InsertAll(answer)
                /\ tasks' = IF hit' THEN <<>>
                            ELSE [i \in DOMAIN answer |->
                                    Call("result", answer[i].cards, answer[i].score, 1)]
                /\ phase' = "expand"
           ELSE /\ results' = answer
                /\ phase' = "done"
                /\ UNCHANGED tasks
  /\ UNCHANGED <<request, evaluation, pruning>>

-----------------------------------------------------------------------------
(* The expansion.  A call is taken from the front and puts the calls it     *)
(* makes there, so that they are made in the order of the recursion.        *)

Take(op) == phase = "expand" /\ tasks # <<>> /\ tasks[1].op = op

Make(calls, list) ==
  /\ tasks' = calls \o Tail(tasks)
  /\ results' = list
  /\ UNCHANGED <<request, evaluation, phase, pruning, hit>>

Placements(deck, score) ==
  <<Call("substitute", deck, score, 1)>> \o
    IF request.final
    THEN [i \in 1..DeckSize - 1 |-> Call("rotate", deck, score, i + 1)]
    ELSE <<>>

ExpandResult ==
  /\ Take("result")
  /\ LET t == tasks[1]
     IN  IF \E slot \in Slots : Variants(t.deck[slot]) # <<>>
         THEN Make(<<Call("cultivate", t.deck, 0, 1)>>, results)
         ELSE Make(Placements(t.deck, t.score), results)

\* Every combination of prepared variants, before any score is looked at.
ChooseVariant ==
  /\ Take("cultivate") /\ tasks[1].slot <= DeckSize
  /\ LET t == tasks[1]
         options == Options(t.deck[t.slot])
     IN  Make([i \in DOMAIN options |->
                 Call("cultivate", [t.deck EXCEPT ![t.slot] = options[i]], 0, t.slot + 1)],
              results)

\* A deck without a result makes no calls.
Consider(deck, Calls(_)) ==
  \/ evaluation[deck] = {} /\ Make(<<>>, results)
  \/ \E r \in evaluation[deck] : Make(Calls(r), Insert(Ctx, request.topK, results, r))

EvaluateVariants ==
  /\ Take("cultivate") /\ tasks[1].slot > DeckSize
  /\ Consider(tasks[1].deck, LAMBDA r : Placements(r.cards, r.score))

RotateLeader ==
  /\ Take("rotate")
  /\ LET t == tasks[1]
     IN  \E rotated \in {[t.deck EXCEPT ![1] = t.deck[t.slot], ![t.slot] = t.deck[1]]} :
           Consider(rotated, LAMBDA r : <<Call("substitute", rotated, r.score, 1)>>)

\* Further substitutions do not raise the score.
Hopeless(t) == LET bar == Threshold(request.topK, results, 0) IN bar # 0 /\ t.score < bar

Prune ==
  /\ Take("substitute") /\ Hopeless(tasks[1])
  /\ Make(<<>>, results)

Substitute ==
  /\ Take("substitute") /\ ~Hopeless(tasks[1])
  /\ LET t == tasks[1]
         triesAt(slot) ==
           LET alts == SubstitutesAt(slot, t.deck[slot])
           IN  [i \in DOMAIN alts |-> Call("try", [t.deck EXCEPT ![slot] = alts[i]], 0, slot)]
     IN  Make(FlattenSeq([i \in 1..DeckSize - t.slot + 1 |-> triesAt(t.slot + i - 1)]), results)

Try ==
  /\ Take("try")
  /\ Consider(tasks[1].deck,
              LAMBDA r : <<Call("substitute", tasks[1].deck, r.score, tasks[1].slot + 1)>>)

ExpireInExpansion ==
  /\ phase = "expand" /\ tasks # <<>>
  /\ Expire
  /\ tasks' = <<>> /\ phase' = "done"
  /\ UNCHANGED <<request, evaluation, pruning, results>>

Finish ==
  /\ phase = "expand" /\ tasks = <<>>
  /\ phase' = "done"
  /\ UNCHANGED <<request, evaluation, pruning, results, tasks, hit>>

Expand ==
  \/ ExpandResult \/ ChooseVariant \/ EvaluateVariants \/ RotateLeader
  \/ Prune \/ Substitute \/ Try \/ ExpireInExpansion \/ Finish

Next == Eliminate \/ Demote \/ Search \/ Expand

Spec == Init /\ [][Next]_vars

-----------------------------------------------------------------------------
(* Properties.                                                              *)

\* The exchange argument that pruning the pool rests on (dominance.rs): in
\* any legal deck, every card that was removed or demoted can be replaced by
\* the survivor at the end of its chain, and the deck obtained is one that is
\* searched and does not rank behind.
ExchangeNeverLoses ==
  phase = "search" =>
    LET survivor(slot, c) ==
          IF slot = 1 THEN Root(removed, c) ELSE Root(demoted, Root(removed, c))
    IN  \A d \in LegalDecks :
          \E e \in [Slots -> Kept] :
            /\ \A slot \in Slots : e[slot] = survivor(slot, d[slot])
            /\ e[1] \in Leaders /\ \A slot \in 2..DeckSize : e[slot] \in Members
            /\ \/ d = e
               \/ \E r \in evaluation[d], better \in evaluation[e] :
                    ~KeyLess(Ctx, r, better)

\* What the prune of expand_substitutions takes for granted: no deck that the
\* call at hand could still reach has a higher score than the call's own.
SubstitutionsOnlyLose ==
  Take("substitute") =>
    LET t == tasks[1]
        choices(slot) ==
          {t.deck[slot]}
            \cup IF slot >= t.slot THEN ToSet(SubstitutesAt(slot, t.deck[slot])) ELSE {}
        reached == {d \in [Slots -> UNION {choices(slot) : slot \in Slots}] :
                      \A slot \in Slots : d[slot] \in choices(slot)}
    IN  \A d \in reached : \A r \in evaluation[d] : r.score <= t.score

\* Every result, also of a search cut short, is a legal deck of the full pool
\* with its exact score (the promise of SearchCompletion::TimedOut).
OnlyLegalDecks ==
  \A i \in DOMAIN results :
    LET r == results[i]
    IN  r.cards \in Tuples /\ evaluation[r.cards] = {r}

\* A search that was not cut short returns the canonical first K of all legal
\* decks of the full pool, as far as the floor lets them matter.
CompleteIsCanonical ==
  (phase = "done" /\ ~hit) =>
    LET above(S) == {r \in S : r.score >= request.floor}
    IN  above(ToSet(results))
          = above(CanonicalTopK(Ctx, request.topK, Evaluations(LegalDecks)))
=============================================================================
