---------------------------- MODULE MCScoreSearch ----------------------------
(* Pools of six or seven cards of four or five characters, strong cards     *)
(* first but not in every respect: runs of equal bonuses whose best card is *)
(* not their first, shared units and attributes, skills that read the other *)
(* members, members with a limited amount or in the support deck.           *)
EXTENDS ScoreSearch

\* u, a: added when the unit or the attribute is shared
P(base, u, a) ==
  [su \in BOOLEAN |-> [sa \in BOOLEAN |->
     base + (IF su THEN u ELSE 0) + (IF sa THEN a ELSE 0)]]

K(id, char, attr, unit, power, skill, bonus, limited, honor) ==
  [id |-> id, char |-> char, attr |-> attr, unit |-> unit, power |-> power,
   kind |-> "plain", skill |-> skill, gain |-> 0, reference |-> skill,
   base |-> bonus, limited |-> limited, honor |-> honor, leaderLimit |-> 0]

Skilled(card, kind, gain, reference) ==
  [card EXCEPT !.kind = kind, !.gain = gain, !.reference = reference]

MCCard == <<
  K(1, 1, 0, 0, P(9, 2, 1), 2, 15, 0, 0),
  K(2, 2, 0, 0, P(8, 2, 1), 4, 15, 0, 10),
  Skilled(K(3, 1, 1, 0, P(7, 2, 2), 3, 15, 0, 0), "units", 2, 3),
  K(4, 3, 1, 1, P(8, 1, 3), 3, 10, 5, 20),
  Skilled(K(5, 2, 1, 1, P(7, 1, 1), 2, 10, 5, 0), "reference", 4, 2),
  K(6, 4, 0, 0, P(6, 2, 3), 5, 10, 0, 0),
  K(7, 3, 2, 0, P(9, 1, 1), 1, 5, 5, 0),
  K(8, 5, 1, 1, P(5, 1, 1), 6, 5, 0, 30),
  \* another variant of card 6
  K(6, 4, 0, 0, P(7, 2, 1), 4, 10, 0, 0),
  \* different limited amounts, the largest behind
  K(10, 1, 0, 0, P(9, 2, 1), 4, 15, 0, 10),
  K(11, 2, 0, 0, P(8, 2, 1), 4, 20, 0, 0),
  K(12, 2, 0, 0, P(12, 2, 1), 4, 15, 5, 0),
  K(13, 3, 1, 0, P(7, 1, 1), 3, 10, 30, 0),
  K(14, 5, 2, 0, P(6, 1, 1), 3, 10, 0, 0),
  \* nothing to share, so that the ceilings are tight
  K(15, 1, 0, 0, P(9, 0, 0), 2, 10, 5, 0),
  K(16, 2, 1, 1, P(9, 0, 0), 2, 15, 0, 0),
  K(17, 3, 2, 0, P(9, 0, 0), 2, 10, 5, 0),
  K(18, 4, 0, 1, P(8, 0, 0), 2, 5, 0, 0),
  K(19, 5, 0, 0, P(8, 0, 0), 2, 5, 0, 0) >>

E(id, value) == [id |-> id, value |-> value]

Support(cards, count) == [cards |-> cards, count |-> count]

NoSupport == Support(<<>>, 0)

\* Main cards among the counted ones and behind them.
OfAll == Support(<<E(1, 20), E(6, 15), E(4, 15), E(20, 5), E(21, 5)>>, 2)

OfTwo == Support(<<E(3, 30), E(22, 20), E(1, 10)>>, 2)

Plain ==
  [pool |-> 1..6, unique |-> TRUE, target |-> "score", topK |-> 2, timed |-> FALSE,
   bounds |-> TRUE, floor |-> 0, multi |-> FALSE, wide |-> FALSE, members |-> FALSE,
   memberKeep |-> {}, seeds |-> <<>>, worldBloom |-> FALSE, final |-> FALSE, cap |-> 2,
   fixedIds |-> <<>>, fixedChars |-> <<>>, leader |-> 0, support |-> 0 :> NoSupport]

World == [Plain EXCEPT !.worldBloom = TRUE, !.support = 0 :> OfAll]

Final == [Plain EXCEPT !.final = TRUE, !.cap = 3, !.pool = 1..7, !.memberKeep = 1..7]

WorldFinal ==
  [Final EXCEPT !.worldBloom = TRUE, !.support = (0 :> OfAll) @@ (2 :> OfTwo) @@ (3 :> NoSupport)]

Live == [Plain EXCEPT !.target = "live"]

MCRequests == {
  Plain,
  [Plain EXCEPT !.pool = 1..9, !.topK = 1, !.seeds = <<<<4, 2, 1>>, <<1, 3, 4>>, <<8, 6, 5>>>>],
  [Plain EXCEPT !.pool = 3..9, !.topK = 4],
  [Plain EXCEPT !.pool = 2..7, !.bounds = FALSE],
  [Plain EXCEPT !.pool = 2..6, !.timed = TRUE],
  [Plain EXCEPT !.pool = 1..7, !.floor = 250000],
  [Plain EXCEPT !.multi = TRUE, !.wide = TRUE, !.pool = 1..9],
  [Plain EXCEPT !.multi = TRUE, !.wide = TRUE, !.pool = 2..8, !.topK = 4, !.timed = TRUE],
  [Plain EXCEPT !.multi = TRUE, !.wide = TRUE, !.topK = 1, !.pool = 1..9,
                !.seeds = <<<<8, 7, 5>>>>],
  [Plain EXCEPT !.multi = TRUE, !.pool = 1..8],
  [Plain EXCEPT !.target = "bonus", !.pool = 1..8, !.topK = 3],
  [Plain EXCEPT !.target = "mysekai", !.pool = 1..8, !.topK = 3],
  [Plain EXCEPT !.fixedIds = <<6>>, !.fixedChars = <<1>>, !.pool = 1..9],
  [Plain EXCEPT !.leader = 3],
  Live,
  [Live EXCEPT !.pool = 1..9, !.topK = 1, !.seeds = <<<<1, 2, 4>>>>],
  [Live EXCEPT !.fixedChars = <<2>>, !.pool = 1..8],
  World,
  [World EXCEPT !.pool = 3..9, !.topK = 3],
  [World EXCEPT !.target = "mysekai", !.topK = 1, !.pool = 1..7],
  Final,
  [Final EXCEPT !.memberKeep = {1, 3, 4, 5, 6}, !.seeds = <<<<2, 1, 4>>>>, !.topK = 1],
  [Final EXCEPT !.fixedIds = <<2, 4>>],
  [Final EXCEPT !.timed = TRUE, !.pool = 2..6, !.memberKeep = 2..6],
  WorldFinal,
  [WorldFinal EXCEPT !.leader = 2, !.topK = 3],
  [WorldFinal EXCEPT !.members = TRUE, !.fixedIds = <<5>>, !.fixedChars = <<1>>],
  [Final EXCEPT !.members = TRUE, !.fixedIds = <<4>>, !.fixedChars = <<3>>, !.leader = 4],
  [Final EXCEPT !.members = TRUE, !.fixedIds = <<1>>, !.fixedChars = <<2, 4>>],
  [World EXCEPT !.pool = 15..19, !.topK = 1, !.support = 0 :> NoSupport],
  [World EXCEPT !.target = "bonus", !.pool = 15..19, !.support = 0 :> NoSupport],
  [Final EXCEPT !.pool = 15..19, !.memberKeep = 15..19, !.cap = 1, !.topK = 1],
  [Final EXCEPT !.target = "bonus", !.pool = 15..19, !.memberKeep = 15..19, !.cap = 1] }


\* More limited amounts than the cap counts.
LimitedRequests ==
  {[Final EXCEPT !.cap = 1, !.topK = k, !.pool = 10..14, !.memberKeep = 10..14] : k \in 1..3}

MCDiffAttr == [n \in 0..3 |-> 5 * n]
=============================================================================
