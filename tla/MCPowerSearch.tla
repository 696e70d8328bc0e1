--------------------------- MODULE MCPowerSearch ---------------------------
(* Cards 1 to 6 have multi-unit tables and cards 7 to 12 have none: two     *)
(* cultivation variants of one public card, virtual singers with different *)
(* support units, powers that sharing lowers, and a weaker-looking branch  *)
(* that ties the K-th deck with smaller public ids.                        *)
EXTENDS PowerSearch

\* u: added when a shared unit matches, a: when the attribute is shared
K(id, char, units, attr, base, u, a) ==
  [id |-> id, char |-> char, units |-> units, attr |-> attr,
   legacy |-> [unit \in units |-> [su \in BOOLEAN |-> [sa \in BOOLEAN |->
                base + (IF su THEN u ELSE 0) + (IF sa THEN a ELSE 0)]]],
   multi |-> <<>>]

\* m: added when the deck counts as a multi-unit deck
M(id, char, units, attr, base, u, a, m) ==
  [K(id, char, units, attr, base, u, a) EXCEPT
     !.multi = [o \in BOOLEAN |-> [s \in BOOLEAN |-> [sa \in BOOLEAN |->
                  base + m + (IF o \/ s THEN u ELSE 0) + (IF sa THEN a ELSE 0)]]]]

MCCard == <<
  M(1, 1, {0},    1, 4, 2, 1, 0),
  M(2, 2, {0},    1, 3, 3, 0, 2),
  M(2, 2, {0},    1, 4, 1, 0, -1),
  M(3, 3, {0, 5}, 2, 3, 2, 2, 0),
  M(4, 4, {1, 5}, 1, 4, 2, 3, 0),
  M(5, 1, {1},    1, 5, 1, 1, 3),

  K(1, 1, {0},    1, 4, 2, 1),
  K(2, 2, {0},    1, 5, -1, 0),
  K(7, 2, {0},    1, 4, 1, 0),
  K(3, 3, {1, 5}, 2, 5, 2, 2),
  K(4, 4, {1, 5}, 1, 4, 2, -2),
  K(6, 3, {5},    2, 6, 1, 0) >>

MCPools == {p \in (SUBSET (1..6)) \cup (SUBSET (7..12)) : Cardinality(p) >= 4}
=============================================================================
