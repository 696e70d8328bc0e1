----------------------------- MODULE ScoreSearch -----------------------------
(***************************************************************************)
(* The branch and bound of the Score, Bonus and MySekai targets             *)
(* (src/src/search/dfs.rs) over decks of distinct characters, with the      *)
(* ceilings of SuffixBounds, the member constraints of a final chapter     *)
(* (membership.rs) and the seeds a caller plants.                          *)
(*                                                                         *)
(* The recursion is a stack of frames, one for each open call; a step is    *)
(* one card of the scan in the innermost frame.  A node's cutoff is read    *)
(* where the code reads it: once at the entry of a scan without an event,   *)
(* after every child elsewhere.  The correlated bound is left out.          *)
(***************************************************************************)
EXTENDS SuffixBounds

CONSTANTS
  Requests,
  BreakStride,  \* cards between two tests of a scan's whole rest, 4 in the code
  ShadowDepth,  \* selected cards from which blocks are scanned, 3 in the code
  BlockWidth    \* cards of a block, 16 in the code

Targets == {"score", "live", "bonus", "mysekai"}

\* Beside what an evaluation reads: the caller's seeds and floor, the members a
\* final chapter keeps, a multi live, and whether the wide masks are there.
ASSUME ScoreAssumption ==
  /\ {BreakStride, BlockWidth} \subseteq Nat \ {0} /\ ShadowDepth \in Nat
  /\ \A q \in Requests :
       /\ RequestOK(q) /\ q.unique /\ q.target \in Targets
       /\ q.pool # {} /\ q.pool = Min(q.pool)..Max(q.pool)
       /\ {q.timed, q.bounds, q.multi, q.wide} \subseteq BOOLEAN
       /\ q.floor \in Nat /\ q.memberKeep \subseteq q.pool
       /\ q.members => q.final
       /\ q.seeds \in Seq([1..DeckSize -> q.pool])

VARIABLES
  seeds,    \* the caller's decks not planted yet
  started,  \* whether the frontier is open
  leaders,  \* the leaders of a final chapter not tried yet
  stack,    \* the open calls, innermost last
  results,  \* the tracker's list
  cutoff,   \* [bonus total -> the threshold asked last and the live score it needs]
  hit,      \* the budget's sticky expiry
  legal,    \* history: every deck a full traversal evaluates, with its result
  answer    \* history: the canonical Top-K of all decks

vars == <<request, suffix, seeds, started, leaders, stack, results, cutoff, hit, legal, answer>>

-----------------------------------------------------------------------------
(* The traversal.                                                           *)

FirstCard == Min(request.pool)

LastCard == Max(request.pool)

Open(deck) == DeckSize - Len(deck)

UsedBy(deck) == {Card[c].char : c \in ToSet(deck)}

\* A final chapter's members are kept ones.
SlotMatches(slot, c) ==
  /\ request.final /\ slot > 1 => c \in request.memberKeep
  /\ CardMatchesSlot(slot, c)

IsFixedSlot(slot) == slot <= FixedPrefix

\* The card may take the next slot.
Fits(deck, c) == Card[c].char \notin UsedBy(deck) /\ SlotMatches(Len(deck) + 1, c)

\* Roles are scanned from the first card, free slots upwards.
Traversed(d) ==
  /\ \A slot \in Slots : SlotMatches(slot, d[slot])
  /\ \A slot \in RolePrefix + 1..DeckSize - 1 : d[slot] < d[slot + 1]

Results(decks) == UNION {EvaluateCandidate(d) : d \in decks}

InsertAll(list, new) == FoldLeft(LAMBDA l, r : Insert(Ctx, request.topK, l, r), list, SetToSeq(new))

\* 0 before there is one, and without bounds.
Cut ==
  IF request.bounds THEN RankThreshold(Ctx, request.topK, results, request.floor, RankBase) ELSE 0

-----------------------------------------------------------------------------
(* Seeds.                                                                   *)

\* The roles filled from a deck's cards: a final chapter keeps its leader, any
\* other role takes the first card it may.
SeedRoles(source) ==
  LET roles[n \in 0..RolePrefix] ==
        IF n = 0
        THEN {<<>>}
        ELSE UNION {LET rest == IF request.final /\ n = 1 THEN {source[1]}
                                ELSE ToSet(source) \ ToSet(p)
                        fit == {c \in rest : CardMatchesSlot(n, c)}
                    IN  IF fit = {} THEN {} ELSE {Append(p, Min(fit))} : p \in roles[n - 1]}
  IN  roles[RolePrefix]

Canonicalized(source) ==
  LET decks == {p \o Ascending(ToSet(source) \ ToSet(p)) : p \in SeedRoles(source)}
  IN  Results({d \in decks : Len(d) = DeckSize /\ Cardinality(UsedBy(d)) = DeckSize})

-----------------------------------------------------------------------------
(* Frames.                                                                  *)

NoPartial == [power |-> 0, skill |-> 0, bonus |-> 0]

\* Every limited amount is counted, whatever the cap.
Plus(partial, c) ==
  LET terms == Terms(c)
  IN  [power |-> partial.power + terms.power,
       skill |-> partial.skill + terms.skill,
       bonus |-> partial.bonus + terms.bonus]

AsLeader(c) ==
  [Plus(NoPartial, c) EXCEPT !.bonus = @ + Card[c].honor + Card[c].leaderLimit]

\* dense: the next card of the scan; bounded: the parent has tested the call
Frame(deck, dense, partial, bounded) ==
  [mode |-> "enter", deck |-> deck, dense |-> dense, partial |-> partial,
   bounded |-> bounded, threshold |-> 0, check |-> 0, extra |-> 0, queue |-> <<>>]

At(mode) == stack # <<>> /\ Last(stack).mode = mode

\* The innermost call, when it is there.
Innermost(mode) == IF At(mode) THEN {Last(stack)} ELSE {}

Leave == stack' = Front(stack)

Stay(f) == stack' = Front(stack) \o <<f>>

Call(f, child) == stack' = Front(stack) \o <<f, child>>

-----------------------------------------------------------------------------
(* Ceilings of a call.                                                      *)

\* Some ceiling does not reach the cutoff.
Below(inputs) == \E in \in inputs : Ceiling(in) < Cut

\* Some skill reads the other members, and the request reads skills.
SkillsVary ==
  ~request.final /\ request.target # "mysekai" /\ \E c \in request.pool : ~IsFixed(c)

Chosen(deck, free) == SumOf([i \in DOMAIN deck |-> SelectedCeiling(deck[i], ToSet(deck), free)])

Tightened(deck, partial) ==
  IF ~SkillsVary \/ \A c \in ToSet(deck) : IsFixed(c)
  THEN partial
  ELSE [partial EXCEPT !.skill = Min({@, Chosen(deck, Open(deck))})]

\* The deck's skills with the last card not looked at, and with all of it.
LeafSkills(deck) ==
  LET head == Front(deck)
  IN  {Chosen(head, 1) + CandidateCeiling(Card[Last(deck)], ToSet(head), 1), Chosen(deck, 0)}

LeafBelow(deck, partial) ==
  /\ Cut # 0 /\ SkillsVary /\ \E c \in ToSet(deck) : ~IsFixed(c)
  /\ Below({[partial EXCEPT !.bonus = @ + suffix.extra, !.skill = s] : s \in LeafSkills(deck)})

NodeBelow(deck, dense, partial) ==
  LET free == Open(deck)
      global == GlobalInputs(partial, UsedBy(deck), free, suffix.extra)
  IN  CASE request.target = "score" ->
             Below({global, DenseInputs(dense, partial, free, suffix.extra)})
        [] request.target = "live" ->
             Min({DenseNumerator(dense, partial, free), ScenarioBound(deck, partial, free)})
               < ThresholdNumerator(Cut)
        [] OTHER -> Below({global})

LeaderBelow(c, partial) ==
  Below({GlobalInputs(partial, {Card[c].char}, DeckSize - 1, suffix.extra),
         DenseInputs(FirstCard, partial, DeckSize - 1, suffix.extra)})

\* Mutant: the members that are missing are not counted.
EachIsAvailable(deck, dense) ==
  LET ahead == {c \in From(dense) : Card[c].char \notin UsedBy(deck)}
  IN  /\ ToSet(request.fixedIds) \subseteq Ids(deck) \cup {Card[c].id : c \in ahead}
      /\ ToSet(request.fixedChars) \subseteq UsedBy(deck)

\* The required members that are missing are ahead, and fit.
PrefixCanComplete(deck, dense) ==
  LET ahead == {c \in From(dense) : Card[c].char \notin UsedBy(deck)}
      ids == ToSet(request.fixedIds) \ Ids(deck)
      chars == (ToSet(request.fixedChars) \cup ({request.leader} \ {NoChar})) \ UsedBy(deck)
      held == {Card[c].char : c \in {c \in ahead : Card[c].id \in ids}}
  IN  /\ ids \subseteq {Card[c].id : c \in ahead}
      /\ chars \subseteq {Card[c].char : c \in ahead}
      /\ Cardinality(ids) + Cardinality(chars \ held) <= Open(deck)

-----------------------------------------------------------------------------
(* The frontier.                                                            *)

Init ==
  /\ request \in Requests /\ suffix = Build
  /\ seeds = request.seeds /\ started = FALSE /\ leaders = <<>> /\ stack = <<>>
  /\ results = <<>> /\ cutoff = <<>> /\ hit = FALSE
  /\ legal = UNION {{[deck |-> d, result |-> r] : r \in EvaluateCandidate(d)} :
                      d \in {d \in Tuples : Traversed(d)}}
  /\ \E all \in {Results({d \in Tuples : \A slot \in Slots : SlotMatches(slot, d[slot])})} :
       answer = CanonicalTopK(Ctx, request.topK, all)

History == UNCHANGED <<request, suffix, legal, answer>>

PlantSeed ==
  /\ ~started /\ seeds # <<>>
  /\ results' = InsertAll(results, Canonicalized(Head(seeds)))
  /\ seeds' = Tail(seeds)
  /\ History /\ UNCHANGED <<started, leaders, stack, cutoff, hit>>

\* Leaders by falling strength.
SortedLeaders ==
  LET key(c) == CardPower(c) * (256 + SkillMax(c)) * (100 + AsLeader(c).bonus)
  IN  SortedBy({c \in request.pool : SlotMatches(1, c)},
               LAMBDA a, b : key(a) > key(b) \/ (key(a) = key(b) /\ a < b))

Start ==
  /\ ~started /\ seeds = <<>>
  /\ started' = TRUE
  /\ IF request.final
     THEN leaders' = SortedLeaders /\ UNCHANGED stack
     ELSE stack' = <<Frame(<<>>, FirstCard, NoPartial, FALSE)>> /\ UNCHANGED leaders
  /\ History /\ UNCHANGED <<seeds, results, cutoff, hit>>

NextLeader ==
  /\ stack = <<>> /\ leaders # <<>>
  /\ leaders' = Tail(leaders)
  /\ LET leader == Head(leaders)
         partial == AsLeader(leader)
     IN  stack' = IF Cut # 0 /\ LeaderBelow(leader, partial)
                  THEN <<>>
                  ELSE <<Frame(<<leader>>, FirstCard, partial, FALSE)>>
  /\ History /\ UNCHANGED <<seeds, started, results, cutoff, hit>>

-----------------------------------------------------------------------------
(* The entry of a call.                                                     *)

Hopeless(f) == request.members /\ ~PrefixCanComplete(f.deck, f.dense)

EnterHopeless ==
  /\ \E f \in Innermost("enter") : Hopeless(f)
  /\ Leave
  /\ History /\ UNCHANGED <<seeds, started, leaders, results, cutoff, hit>>

EnterLeaf ==
  /\ \E f \in Innermost("enter") :
       /\ Len(f.deck) = DeckSize /\ ~Hopeless(f)
       /\ results' = IF LeafBelow(f.deck, f.partial)
                     THEN results
                     ELSE InsertAll(results, Results({f.deck}))
  /\ Leave
  /\ History /\ UNCHANGED <<seeds, started, leaders, cutoff, hit>>

EnterFixed ==
  /\ \E f \in Innermost("enter") :
       /\ Len(f.deck) < DeckSize /\ IsFixedSlot(Len(f.deck) + 1) /\ ~Hopeless(f)
       /\ Stay([f EXCEPT !.mode = "fixed", !.dense = FirstCard])
  /\ History /\ UNCHANGED <<seeds, started, leaders, results, cutoff, hit>>

\* The wide masks know of characters only.
Blocks(deck) ==
  /\ FastPath /\ request.wide /\ Len(deck) >= ShadowDepth
  /\ request.fixedIds = <<>> /\ request.fixedChars = <<>>

\* A scan with a cutoff, and the extra bonus of any completion.
Pruned(f) ==
  LET attrs == {Card[c].attr : c \in ToSet(f.deck)}
  IN  [f EXCEPT !.mode = IF Blocks(f.deck) THEN "shadow" ELSE "ep",
                !.check = f.dense,
                !.extra = WorldBloomExtra(attrs, Ids(f.deck), f.dense, UsedBy(f.deck),
                                          Open(f.deck))]

\* A call whose parent has tested it is not tested again.
CutsOff(node) == Cut # 0 /\ ~node.bounded /\ NodeBelow(node.deck, node.dense, node.partial)

\* The way a call scans its cards.
Scan(node) ==
  CASE request.target = "live" -> [node EXCEPT !.mode = "live", !.threshold = Cut]
    [] request.target # "live" /\ Cut # 0 -> Pruned(node)
    [] OTHER -> [node EXCEPT !.mode = "simple"]

EnterNode ==
  /\ \E f \in Innermost("enter") :
       /\ Len(f.deck) < DeckSize /\ ~IsFixedSlot(Len(f.deck) + 1) /\ ~Hopeless(f)
       /\ \E node \in {[f EXCEPT !.partial = Tightened(f.deck, @)]} :
            \/ CutsOff(node) /\ Leave
            \/ ~CutsOff(node) /\ Stay(Scan(node))
  /\ History /\ UNCHANGED <<seeds, started, leaders, results, cutoff, hit>>

\* The scan has passed the last card.
EndOfScan ==
  /\ stack # <<>> /\ Last(stack).mode # "enter"
  /\ Last(stack).dense > LastCard /\ Last(stack).queue = <<>>
  /\ Leave
  /\ History /\ UNCHANGED <<seeds, started, leaders, results, cutoff, hit>>

-----------------------------------------------------------------------------
(* Scans.                                                                   *)

Scanning(mode) == {f \in Innermost(mode) : f.dense <= LastCard}

Passed(f) == [f EXCEPT !.dense = @ + 1]

\* The call for the scan's next card.
Child(f, start, bounded) ==
  Frame(Append(f.deck, f.dense), start, Plus(f.partial, f.dense), bounded)

\* Free slots start over behind every fixed one.
FixedStep ==
  /\ \E f \in Scanning("fixed") :
       IF Fits(f.deck, f.dense)
       THEN Call(Passed(f), Child(f, FirstCard, FALSE))
       ELSE Stay(Passed(f))
  /\ History /\ UNCHANGED <<seeds, started, leaders, results, cutoff, hit>>

\* The pruned scan takes over as soon as there is a cutoff.
SimpleStep ==
  /\ \E f \in Scanning("simple") :
       \/ Cut # 0 /\ Stay(Pruned(f))
       \/ Cut = 0 /\ ~Fits(f.deck, f.dense) /\ Stay(Passed(f))
       \/ Cut = 0 /\ Fits(f.deck, f.dense) /\ Call(Passed(f), Child(f, f.dense + 1, FALSE))
  /\ History /\ UNCHANGED <<seeds, started, leaders, results, cutoff, hit>>

LiveRestBelow(f) ==
  /\ f.threshold # 0
  /\ DenseNumerator(f.dense, f.partial, Open(f.deck)) < ThresholdNumerator(f.threshold)

\* The card with the best members of other characters, or with the cards behind
\* it, if they are what follows.
LiveCardBelow(f) ==
  LET t == ThresholdNumerator(f.threshold)
      tight == TightInputs(f.dense, f.partial, UsedBy(f.deck), Open(f.deck), 0)
      slot == Len(f.deck) + 1
  IN  /\ f.threshold # 0
      /\ \/ Numerator(tight.power, tight.skill) < t
         \/ /\ slot < DeckSize /\ ~IsFixedSlot(slot + 1)
            /\ DenseNumerator(f.dense + 1, Plus(f.partial, f.dense), Open(f.deck) - 1) < t

NoEventStep ==
  /\ \E f \in Scanning("live") :
       \/ LiveRestBelow(f) /\ Leave
       \/ /\ ~LiveRestBelow(f)
          /\ IF Fits(f.deck, f.dense) /\ ~LiveCardBelow(f)
             THEN Call(Passed(f), Child(f, f.dense + 1, FALSE))
             ELSE Stay(Passed(f))
  /\ History /\ UNCHANGED <<seeds, started, leaders, results, cutoff, hit>>

-----------------------------------------------------------------------------
(* The pruned scan.                                                         *)

DueTests(f) ==
  IF request.target = "score" /\ f.dense >= f.check
  THEN <<DenseInputs(f.dense, f.partial, Open(f.deck), f.extra)>>
  ELSE <<>>

Checked(f) ==
  IF DueTests(f) = <<>> THEN f ELSE [f EXCEPT !.check = f.dense + BreakStride]

Ahead(f, power, skill, extra) ==
  CandidateInputs(f.dense, power, skill, f.partial, Open(f.deck), extra)

\* Of the card and all behind it with the same bonus.
RunTests(f) ==
  LET run == CandidateRun(f.dense)
  IN  <<Ahead(f, Max({CardPower(c) : c \in run}), Max({SkillMax(c) : c \in run}), f.extra)>>

\* The extra bonus of any completion with the card.
OwnExtra(f) ==
  WorldBloomExtra({Card[c].attr : c \in ToSet(f.deck) \cup {f.dense}}, Ids(f.deck), f.dense + 1,
                  UsedBy(f.deck) \cup {Card[f.dense].char}, Open(f.deck) - 1)

Tight(f, extra) == TightInputs(f.dense, f.partial, UsedBy(f.deck), Open(f.deck), extra)

\* A card alone has its run's ceiling once more.
CardTests(f, own) ==
  <<Ahead(f, CardPower(f.dense), SkillMax(f.dense), f.extra)>> \o
  CASE FastPath -> <<>>
    [] request.worldBloom ->
         <<Ahead(f, CardPower(f.dense), SkillMax(f.dense), own), Tight(f, own)>>
    [] OTHER -> <<Tight(f, f.extra)>>

AfterRun(f) == [f EXCEPT !.dense = Max(CandidateRun(f.dense)) + 1]

Tests(f, own) ==
  DueTests(f) \o IF Fits(f.deck, f.dense) THEN RunTests(f) \o CardTests(f, own) ELSE <<>>

\* A test that fails ends the scan, skips a run or skips the card.
PrunedStep ==
  /\ \E f \in Scanning("ep") : \E own \in {OwnExtra(f)} :
       \E got \in {Tested(cutoff, Tests(f, own), Cut)} :
       LET on == Checked(f)
           due == Len(DueTests(f))
       IN  /\ cutoff' = got.cache
           /\ \/ ~got.ok /\ got.passed < due /\ Leave
              \/ ~got.ok /\ got.passed = due /\ Stay(AfterRun(on))
              \/ ~got.ok /\ got.passed > due /\ Stay(Passed(on))
              \/ got.ok /\ ~Fits(f.deck, f.dense) /\ Stay(Passed(on))
              \/ got.ok /\ Fits(f.deck, f.dense) /\ Call(Passed(on), Child(f, f.dense + 1, TRUE))
  /\ History /\ UNCHANGED <<seeds, started, leaders, results, hit>>

-----------------------------------------------------------------------------
(* The scan by blocks.                                                      *)

Block(f) == f.dense..Min({LastCard, f.dense + BlockWidth - 1})

\* The lanes whose whole rest is below the cutoff: none behind them is looked at.
Ends(f) ==
  {c \in Block(f) : /\ (c - f.dense) % BreakStride = 0
                    /\ Below({DenseInputs(c, f.partial, Open(f.deck), f.extra)})}

LaneInputs(f, c) ==
  CandidateInputs(c, CardPower(c), SkillMax(c), f.partial, Open(f.deck), f.extra)

\* The best lane, then the others upwards.
Lanes(f) ==
  LET fit == {c \in Block(f) :
                  Card[c].char \notin UsedBy(f.deck) /\ \A e \in Ends(f) : c < e}
      lanes == UNION {{[card |-> c, bound |-> Ceiling(in)] : in \in {LaneInputs(f, c)}} : c \in fit}
      alive == {l \in lanes : l.bound >= Cut}
      best == {l \in alive : \A o \in alive :
                 l.bound > o.bound \/ (l.bound = o.bound /\ l.card <= o.card)}
  IN  SortedBy(alive, LAMBDA a, b : \/ a \in best /\ b \notin best
                                    \/ (a \in best <=> b \in best) /\ a.card < b.card)

ShadowFill ==
  /\ \E f \in Scanning("shadow") :
       /\ f.queue = <<>>
       /\ Stay([f EXCEPT !.queue = Lanes(f),
                         !.dense = IF Ends(f) = {} THEN Max(Block(f)) + 1 ELSE LastCard + 1])
  /\ History /\ UNCHANGED <<seeds, started, leaders, results, cutoff, hit>>

\* A last card is evaluated at once.
ShadowLane ==
  /\ \E f \in Innermost("shadow") :
       /\ f.queue # <<>>
       /\ LET lane == Head(f.queue)
              on == [f EXCEPT !.queue = Tail(@)]
              deck == Append(f.deck, lane.card)
          IN  \/ /\ lane.bound < Cut
                 /\ Stay(on) /\ UNCHANGED results
              \/ /\ lane.bound >= Cut /\ Open(f.deck) = 1
                 /\ Stay(on) /\ results' = InsertAll(results, Results({deck}))
              \/ /\ lane.bound >= Cut /\ Open(f.deck) > 1
                 /\ Call(on, Frame(deck, lane.card + 1, Plus(f.partial, lane.card), TRUE))
                 /\ UNCHANGED results
  /\ History /\ UNCHANGED <<seeds, started, leaders, cutoff, hit>>

-----------------------------------------------------------------------------

\* Where the deadline is looked at.
Checkpoint ==
  \/ ~started
  \/ stack = <<>> /\ leaders # <<>>
  \/ At("enter") \/ Scanning("ep") # {}
  \/ \E f \in Scanning("shadow") : f.queue = <<>>

\* Every open call returns.
Expire ==
  /\ request.timed /\ Checkpoint
  /\ hit' = TRUE /\ started' = TRUE
  /\ seeds' = <<>> /\ leaders' = <<>> /\ stack' = <<>>
  /\ History /\ UNCHANGED <<results, cutoff>>

Next ==
  \/ PlantSeed \/ Start \/ NextLeader
  \/ EnterHopeless \/ EnterLeaf \/ EnterFixed \/ EnterNode \/ EndOfScan
  \/ FixedStep \/ SimpleStep \/ NoEventStep \/ PrunedStep \/ ShadowFill \/ ShadowLane
  \/ Expire

Spec == Init /\ [][Next]_vars

-----------------------------------------------------------------------------

Done == started /\ stack = <<>> /\ leaders = <<>>

OnFloor(S) == {r \in S : r.score >= request.floor}

(***************************************************************************)
(* A search that the deadline did not strike has found the canonical Top-K *)
(* of all decks (docs/parameters.md: "Exact, including Top-K"), as far as   *)
(* it reaches the floor: no ceiling, no cached cutoff, no run, block or     *)
(* leader that was skipped and no seed has cost a deck that belongs.       *)
(***************************************************************************)
CompleteIsCanonical == Done /\ ~hit => OnFloor(ToSet(results)) = OnFloor(answer)

\* The decks still to come from a call, whose next card is at dense.
Under(f, d) ==
  LET n == Len(f.deck)
      slot == n + 1
      tail == SubSeq(d, slot, DeckSize)
  IN  /\ SubSeq(d, 1, n) = f.deck
      /\ slot \in Slots =>
           IF f.mode # "fixed" /\ IsFixedSlot(slot)
           THEN TRUE
           ELSE d[slot] >= f.dense \/ \E i \in DOMAIN f.queue : f.queue[i].card = d[slot]

(***************************************************************************)
(* At every moment a deck that would enter the list and is not in it is    *)
(* still to come: from an open call, or from a leader not tried yet.       *)
(***************************************************************************)
StillOpen ==
  started /\ ~hit =>
    \A p \in legal :
      LET r == p.result
      IN  \/ r \in ToSet(results) \/ r.score < request.floor
          \/ r \notin CanonicalTopK(Ctx, request.topK, ToSet(results) \cup {r})
          \/ \E i \in DOMAIN stack : Under(stack[i], p.deck)
          \/ p.deck[1] \in ToSet(leaders)

\* Everything a call may compare with the cutoff.
Ceilings(f) ==
  {Ceiling(in) : in \in {GlobalInputs(f.partial, UsedBy(f.deck), Open(f.deck), suffix.extra),
                        DenseInputs(f.dense, f.partial, Open(f.deck), f.extra)}}

CardCeilings(f) ==
  {Ceiling(in) : in \in UNION {ToSet(RunTests(f) \o CardTests(f, own)) : own \in {OwnExtra(f)}}}

NumeratorCeilings(f) ==
  {DenseNumerator(f.dense, f.partial, Open(f.deck)), ScenarioBound(f.deck, f.partial, Open(f.deck))}

(***************************************************************************)
(* No ceiling of an open scan is below a deck it stands for: that of the   *)
(* rest below no deck to come, that of a card or of its run below no deck   *)
(* that goes on with it.                                                   *)
(***************************************************************************)
CeilingsHold ==
  LET decks(f) == {p \in legal : Under(f, p.deck)}
  IN  /\ \A f \in Innermost("live") : \A n \in NumeratorCeilings(f) : \A p \in decks(f) :
           ThresholdNumerator(p.result.score) <= n
      /\ \A f \in Scanning("ep") :
           /\ \A n \in Ceilings(f) : \A p \in decks(f) : Rank(Ctx, p.result, RankBase) <= n
           /\ \A n \in CardCeilings(f) : \A p \in decks(f) :
                p.deck[Len(f.deck) + 1] = f.dense => Rank(Ctx, p.result, RankBase) <= n

(***************************************************************************)
(* The live score cached for a bonus total is the least one whose packed   *)
(* key reaches the threshold it was asked for last, however it was reached  *)
(* from the ones cached before.                                            *)
(***************************************************************************)
CutoffExact ==
  \A b \in DOMAIN cutoff : \A l \in 0..LiveLimit :
    l >= cutoff[b].live <=> PackScore(l, b) >= cutoff[b].threshold
=============================================================================
