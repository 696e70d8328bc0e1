---------------------------- MODULE MCDominance ----------------------------
(* Pools of three or four characters, one block of cards for each.  Cards   *)
(* 1 to 18 (character 1) are blocks in which one card dominates another in  *)
(* every way the rules tell apart; the others are what the difference       *)
(* shows up against.                                                        *)
EXTENDS Dominance

\* u, a: added when the unit or the attribute is shared
P(base, u, a) ==
  [su \in BOOLEAN |-> [sa \in BOOLEAN |->
     base + (IF su THEN u ELSE 0) + (IF sa THEN a ELSE 0)]]

K(id, char, attr, power, skill, bonus, limited, honor) ==
  [id |-> id, char |-> char, attr |-> attr, unit |-> 0, power |-> power,
   kind |-> "plain", skill |-> skill, gain |-> 0, reference |-> skill,
   base |-> bonus, limited |-> limited, honor |-> honor, leaderLimit |-> 0]

Skilled(card, kind, gain, reference) ==
  [card EXCEPT !.kind = kind, !.gain = gain, !.reference = reference]

MCCard == <<
  \* a chain: 1 removes 2, then 3 removes 1
  K(4, 1, 0, P(8, 2, 1), 2, 3, 0, 0),
  K(5, 1, 0, P(7, 2, 1), 2, 2, 0, 0),
  K(3, 1, 0, P(9, 2, 1), 2, 4, 0, 9),
  \* 5 removes 6, and 4 takes 5's place as a member only
  K(6, 1, 0, P(8, 1, 1), 2, 4, 0, 0),
  K(7, 1, 0, P(7, 1, 1), 2, 4, 0, 3),
  K(8, 1, 0, P(6, 1, 1), 2, 4, 0, 2),
  \* a stronger card that the support deck would miss
  K(9, 1, 0, P(8, 1, 1), 2, 4, 0, 0),
  K(10, 1, 0, P(7, 1, 1), 2, 4, 0, 0),
  \* a stronger card that others profit less from
  Skilled(K(11, 1, 0, P(8, 1, 1), 2, 4, 0, 0), "plain", 0, 0),
  Skilled(K(12, 1, 0, P(7, 1, 1), 2, 4, 0, 0), "plain", 0, 5),
  \* a limited amount that takes another's place
  K(13, 1, 0, P(7, 1, 1), 2, 4, 1, 9),
  K(14, 1, 0, P(7, 1, 1), 2, 4, 0, 9),
  \* a stronger card of another attribute
  K(15, 1, 1, P(7, 1, 1), 2, 4, 0, 0),
  K(16, 1, 0, P(6, 1, 1), 2, 4, 0, 0),
  \* equal cards
  K(18, 1, 0, P(7, 1, 1), 2, 4, 0, 0),
  K(17, 1, 0, P(7, 1, 1), 2, 4, 0, 0),

  \* character 2: free-standing cards, variants of one card above another
  \* card, skills that read the other members
  K(1, 2, 0, P(7, 1, 1), 2, 3, 0, 1),
  K(25, 2, 1, P(7, 1, 0), 2, 3, 0, 1),
  K(20, 2, 0, P(7, 1, 1), 2, 2, 2, 1),
  K(20, 2, 0, P(5, 1, 1), 4, 2, 2, 1),
  K(21, 2, 0, P(5, 1, 1), 2, 2, 2, 0),
  Skilled(K(22, 2, 0, P(6, 1, 1), 2, 2, 0, 1), "reference", 6, 2),
  Skilled(K(23, 2, 0, P(6, 1, 1), 2, 2, 0, 1), "units", 2, 2),

  \* character 3
  K(2, 3, 0, P(7, 1, 1), 2, 3, 5, 6),
  K(26, 3, 0, P(7, 1, 1), 2, 3, 3, 2),
  K(27, 3, 0, P(6, 1, 1), 2, 3, 3, 1),

  \* character 4
  K(28, 4, 0, P(5, 1, 1), 2, 3, 0, 2) >>

Blocks == {{1, 2, 3}, {4, 5, 6}, {7, 8}, {9, 10}, {11, 12}, {13, 14}, {15, 16}}

MCPools ==
  {a \cup b \cup {24} : a \in Blocks, b \in {{17, 18}, {19, 20, 21}, {22, 23}}}
  \cup {a \cup {19, 20, 21} \cup {25, 26, 27} : a \in {{1, 2, 3}, {4, 5, 6}, {13, 14}}}
\* Pools small enough to stop the search everywhere.
TimedPools == {{1, 2, 3, 17, 24}, {4, 5, 6, 19, 20, 24}}

E(id, value) == [id |-> id, value |-> value]

Support(cards, count) == [cards |-> cards, count |-> count]

\* Main cards in front of card 7, which is used once they are withdrawn.
Shared == Support(<<E(1, 8), E(2, 8), E(9, 6), E(30, 1), E(31, 1)>>, 2)

\* Card 7 counts for one leader only.
OfAll == Support(<<E(1, 8), E(2, 8), E(30, 1), E(31, 1)>>, 2)

OfThree == Support(<<E(9, 20), E(30, 2), E(31, 2), E(29, 1)>>, 1)

NoSupport == Support(<<>>, 0)

Plain == [pool |-> {}, unique |-> TRUE, target |-> "score", topK |-> 2, timed |-> FALSE, floor |-> 0,
          worldBloom |-> FALSE, final |-> FALSE, cap |-> 3, members |-> FALSE, fixedIds |-> <<>>,
          fixedChars |-> <<>>, leader |-> 0, support |-> 0 :> NoSupport]

Final == [Plain EXCEPT !.final = TRUE]

WorldFinal ==
  [Final EXCEPT !.worldBloom = TRUE,
                !.support = (0 :> OfAll) @@ (3 :> OfThree) @@ (2 :> NoSupport)]

Kinds == {
  Plain,
  [Plain EXCEPT !.target = "mysekai", !.cap = 1],
  [Plain EXCEPT !.worldBloom = TRUE, !.support = 0 :> Shared],
  WorldFinal,
  [Final EXCEPT !.cap = 1, !.target = "bonus"],
  [Final EXCEPT !.fixedChars = <<3>>, !.target = "mysekai"],
  [Final EXCEPT !.leader = 1, !.floor = 170000] }

\* Larger pools, and those with a chain, come with a longer list.
Asked(kinds, pools) ==
  {[q EXCEPT !.pool = p, !.topK = IF 24 \in p /\ 3 \notin p THEN 2 ELSE 4] : q \in kinds, p \in pools}

MCRequests ==
  Asked(Kinds, MCPools)
  \cup Asked({[Plain EXCEPT !.fixedIds = <<5>>]}, {p \in MCPools : 2 \in p})
  \cup {[q EXCEPT !.timed = TRUE] : q \in Asked({Plain, WorldFinal}, TimedPools)}
  \cup {[q EXCEPT !.topK = 1] : q \in Asked({Plain, WorldFinal}, TimedPools)}

MCDiffAttr == [n \in 0..3 |-> 3 * n]
=============================================================================
