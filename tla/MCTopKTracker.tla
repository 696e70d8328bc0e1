--------------------------- MODULE MCTopKTracker ---------------------------
(* Six results over three public sets: two representatives of one set that *)
(* differ in objective, two that differ in layout only, ties across sets   *)
(* that only the power or the set decides.                                 *)
EXTENDS TopKTracker

R(score, power, set, layout) ==
  [score |-> score, power |-> power, set |-> set, layout |-> layout]

MCResult == { R(2, 5, 1, 1), R(3, 4, 1, 2),
              R(2, 5, 2, 1), R(2, 5, 2, 2),
              R(3, 4, 3, 1), R(2, 6, 3, 2) }

MCContexts == { [target |-> "score", minimize |-> TRUE],
                [target |-> "power", minimize |-> FALSE],
                [target |-> "power", minimize |-> TRUE],
                [target |-> "mysekai", minimize |-> FALSE] }
=============================================================================
