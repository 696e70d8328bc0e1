--------------------------- MODULE MCRegimeSearch ---------------------------
(* Cards 1 to 6 have no multi-unit tables and cards 7 to 12 have: public    *)
(* ids with two variants, virtual singers, powers that sharing raises and   *)
(* powers it lowers.  Cards 13 to 20 are two characters' challenge pools.   *)
(* The best decks of cards 21 to 25 tie across two regimes.                 *)
EXTENDS RegimeSearch

\* u: added when a shared unit matches, a: when the attribute is shared
K(id, char, units, attr, base, u, a, bonus) ==
  [id |-> id, char |-> char, units |-> units, attr |-> attr, bonus |-> bonus,
   legacy |-> [unit \in units |-> [su \in BOOLEAN |-> [sa \in BOOLEAN |->
                base + (IF su THEN u ELSE 0) + (IF sa THEN a ELSE 0)]]],
   multi |-> <<>>]

\* o, s: added when the own or the support unit is shared
M(id, char, units, attr, base, o, s, a, bonus) ==
  [K(id, char, units, attr, base - 1, 1, 2, bonus) EXCEPT
     !.multi = [so \in BOOLEAN |-> [ss \in BOOLEAN |-> [sa \in BOOLEAN |->
                  base + (IF so THEN o ELSE 0) + (IF ss THEN s ELSE 0)
                       + (IF sa THEN a ELSE 0)]]]]

MCCard == <<
  K(1, 1, {0},    0, 5, 2, 1, 1),
  K(2, 2, {0},    0, 6, -1, 1, 0),
  K(2, 2, {0},    0, 4, 3, 0, 3),
  K(3, 3, {0, 5}, 1, 4, 2, 2, 2),
  K(4, 4, {1, 5}, 0, 5, 2, -2, 0),
  K(5, 4, {0},    1, 7, 1, 1, 0),

  M(1, 1, {0},    0, 4, 2, 0, 1, 1),
  M(2, 2, {5, 0}, 0, 5, -1, 2, 1, 0),
  M(2, 2, {5},    0, 4, 3, 0, 0, 3),
  M(3, 3, {0},    1, 6, 1, 0, 2, 2),
  M(4, 4, {1},    0, 5, 2, 0, -2, 0),
  M(5, 3, {5, 1}, 0, 4, 1, 1, 3, 0),

  K(1, 1, {0},    0, 5, 1, 4, 0),
  K(2, 1, {0},    0, 5, 1, 4, 0),
  K(3, 1, {0},    0, 6, 0, 4, 0),
  K(4, 1, {0},    1, 2, 1, 0, 0),
  K(6, 2, {5, 1}, 0, 5, 2, 1, 0),
  K(7, 2, {5},    0, 4, 1, 2, 0),
  K(8, 2, {5, 0}, 1, 6, 1, 2, 0),
  K(8, 2, {5, 0}, 1, 5, 3, 2, 0),

  K(1, 1, {0},    0, 5, 2, 0, 0),
  K(2, 2, {5, 0}, 1, 7, -2, 0, 0),
  K(3, 3, {0},    0, 5, 2, 2, 0),
  K(4, 4, {1},    0, 5, 0, 2, 0),
  K(5, 5, {2},    0, 5, 0, 2, 0) >>

Request(pools, family, targets, minimize) ==
  [pool : pools, family : {family}, target : targets, minimize : {minimize},
   topK : {1, 2}, timed : BOOLEAN]

LargeSubsets(S) == {p \in SUBSET S : Cardinality(p) >= 4}

MCRequests ==
  Request(LargeSubsets(1..6) \cup LargeSubsets(7..12) \cup {21..25}, "unique",
          {"score", "mysekai"}, FALSE)
  \cup Request({13..16, 17..20, 13..20, {13, 14, 17, 18, 19}}, "challenge",
               {"power"}, FALSE)

WeakestRequests == Request({13..16, 17..20, 13..20}, "challenge", {"power"}, TRUE)
=============================================================================
