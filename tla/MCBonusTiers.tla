---------------------------- MODULE MCBonusTiers ----------------------------
(* Small pools of four characters, with totals counted in whole percents:   *)
(* a tenth here is a percent of six grains.  The pools differ in what makes *)
(* a sum ambiguous: limited amounts beyond the cap, numbers of attributes,  *)
(* support decks that lose main cards, honors, roles.                       *)
EXTENDS BonusTiers

\* u, a: added when the unit or the attribute is shared
P(base, u, a) ==
  [su \in BOOLEAN |-> [sa \in BOOLEAN |->
     base + (IF su THEN u ELSE 0) + (IF sa THEN a ELSE 0)]]

\* bonus, limited and honor in percents
K(id, char, attr, unit, power, skill, bonus, limited, honor) ==
  [id |-> id, char |-> char, attr |-> attr, unit |-> unit, power |-> power,
   kind |-> "plain", skill |-> skill, gain |-> 0, reference |-> skill,
   base |-> 6 * bonus, limited |-> 6 * limited, honor |-> 6 * honor, leaderLimit |-> 0]

Skilled(card, kind, gain, reference) ==
  [card EXCEPT !.kind = kind, !.gain = gain, !.reference = reference]

MCCard == <<
  K(1, 1, 0, 0, P(8, 2, 1), 2, 3, 1, 2),
  K(2, 1, 1, 0, P(6, 2, 1), 5, 2, 0, 1),
  Skilled(K(3, 2, 0, 0, P(7, 2, 1), 3, 3, 2, 1), "units", 2, 3),
  K(4, 2, 1, 1, P(9, 1, 1), 1, 1, 1, 0),
  K(5, 3, 0, 0, P(6, 1, 2), 4, 2, 1, 1),
  Skilled(K(6, 3, 2, 0, P(5, 1, 2), 2, 4, 0, 2), "reference", 4, 2),
  K(7, 4, 1, 1, P(7, 1, 1), 3, 2, 0, 0),
  K(8, 4, 0, 0, P(4, 1, 1), 6, 2, 0, 1),
  \* cards of character 1 with the bonus of card 2
  K(9, 1, 1, 0, P(7, 1, 1), 3, 2, 0, 1),
  K(10, 1, 0, 1, P(5, 1, 1), 6, 2, 0, 1),
  \* another variant of card 1
  K(1, 1, 0, 0, P(9, 2, 1), 1, 3, 1, 2) >>

E(id, value) == [id |-> id, value |-> value]

Support(cards, count) == [cards |-> cards, count |-> count]

NoSupport == Support(<<>>, 0)

\* Main cards among the counted two and behind them: in whole tenths, in half
\* tenths, and in parts that no scale counts.
Whole == Support(<<E(1, 30), E(3, 24), E(6, 18), E(20, 12), E(2, 12), E(21, 6)>>, 2)

Halves == Support(<<E(2, 33), E(21, 24), E(4, 18), E(5, 15)>>, 1)

Parts == Support(<<E(1, 26), E(3, 22), E(20, 16), E(2, 14), E(21, 5)>>, 2)

\* Two profiles in a final chapter, each with a card it is left with or holds.
OfAll == Support(<<E(7, 24), E(2, 24), E(5, 12), E(21, 6)>>, 1)

OfTwo == Support(<<E(22, 30), E(1, 30), E(8, 24), E(5, 6)>>, 2)

Plain ==
  [pool |-> {1, 2, 3, 4, 5, 6}, unique |-> TRUE, target |-> "bonus", topK |-> 1, timed |-> FALSE,
   bounds |-> TRUE, tiers |-> {7, 8}, worldBloom |-> FALSE, final |-> FALSE, cap |-> 1,
   members |-> FALSE, fixedIds |-> <<>>, fixedChars |-> <<>>, leader |-> 0, support |-> 0 :> NoSupport]

World == [Plain EXCEPT !.worldBloom = TRUE, !.support = 0 :> Whole, !.tiers = {18, 20}]

WorldFinal ==
  [World EXCEPT !.pool = {1, 2, 3, 6, 7, 8}, !.final = TRUE, !.cap = 3,
                !.support = (0 :> OfAll) @@ (2 :> OfTwo), !.tiers = {12, 22}]

Challenge ==
  [Plain EXCEPT !.unique = FALSE, !.pool = {1, 2, 9, 10, 11}, !.cap = 3, !.tiers = {7, -1}]

MCRequests == {
  Plain,
  [Plain EXCEPT !.topK = 3, !.pool = {1, 3, 5, 6, 7, 8}],
  [Plain EXCEPT !.bounds = FALSE],
  [Plain EXCEPT !.timed = TRUE, !.pool = {1, 2, 3, 5, 7}],
  [Plain EXCEPT !.tiers = {-1}],
  [Plain EXCEPT !.fixedIds = <<3>>, !.fixedChars = <<3>>],
  [Plain EXCEPT !.leader = 3],
  [Plain EXCEPT !.pool = {1, 3, 4, 5, 6, 7}, !.final = TRUE, !.tiers = {9, 11}],
  [Plain EXCEPT !.pool = {1, 2, 3, 4, 5, 8}, !.final = TRUE, !.cap = 3, !.topK = 2, !.tiers = {10, 11}],
  World,
  [World EXCEPT !.pool = {1, 2, 3, 4, 5, 7}, !.support = 0 :> Halves, !.cap = 2, !.topK = 2,
                !.tiers = {8, 10}],
  [World EXCEPT !.support = 0 :> Parts, !.topK = 3, !.tiers = {17, 20}],
  WorldFinal,
  Challenge }

MCScales == <<1, 2>>

MCDiffAttr == [n \in 0..3 |-> IF n < 2 THEN 0 ELSE 12 * (n - 1)]
=============================================================================
