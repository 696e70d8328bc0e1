---------------------------- MODULE MCPoolBuild ----------------------------
(***************************************************************************)
(* A small game for PoolBuild: three characters, one of them a virtual      *)
(* singer, with two cards each; decks of two; every kind of skill; events   *)
(* with a cap on limited bonuses, World Bloom chapters, a finale and the    *)
(* simulated ones.                                                          *)
(***************************************************************************)
EXTENDS PoolBuild

MCUnit == 1 :> 1 @@ 2 :> 2 @@ 3 :> VS

Card(char, rarity, attr, support_, skill, trainedSkill) ==
  [char |-> char, rarity |-> rarity, attr |-> attr, support |-> support_,
   levels |-> <<20 * rarity, 30 * rarity + char>>, trained |-> IF rarity > 2 THEN 10 ELSE 0,
   skill |-> skill, trainedSkill |-> trainedSkill]

\* Card 1 has a plain skill and a reference skill, card 4 two plain ones.
MCMaster ==
  1 :> Card(1, 4, "cute", None, "plain", "reference") @@
  2 :> Card(1, 2, "cool", None, "plain", None) @@
  3 :> Card(2, 4, "cute", None, "units", None) @@
  4 :> Card(2, 3, "cool", None, "plain", "better") @@
  5 :> Card(3, 4, "cute", 1, "diff", None) @@
  6 :> Card(3, 2, "cool", None, "wider", None)

MCRarity == [r \in 2..4 |-> [max |-> 2, normal |-> 1, skill |-> 2]]

MCLesson == [r \in 2..4 |-> <<r>>]

MCRankRate == 2 :> 5

Up(value) == [kind |-> "score_up", value |-> value]

MCSkill ==
  "plain" :> [level \in 1..2 |-> <<Up(4 + level), [kind |-> "rank", value |-> 2, rank |-> 2]>>] @@
  "better" :> [level \in 1..2 |-> <<Up(6 + level), [kind |-> "rank", value |-> 3, rank |-> 2]>>] @@
  "units" :> [level \in 1..2 |-> <<Up(4), [kind |-> "units", value |-> 9, count |-> 2, unit |-> 2]>>] @@
  "diff" :> [level \in 1..2 |-> <<Up(4), [kind |-> "diff", value |-> 4, add |-> 1]>>] @@
  "wider" :> [level \in 1..2 |-> <<Up(4), [kind |-> "diff", value |-> 4, add |-> 3]>>] @@
  "reference" :> [level \in 1..2 |-> <<Up(4), [kind |-> "reference", value |-> 50, add |-> 5]>>]

Item(unit, attr, char, rate) == [unit |-> unit, attr |-> attr, char |-> char,
                                 rate |-> rate, all |-> 2 * rate]

MCAreaItem ==
  1 :> << <<Item(1, Wild, Wild, 10)>>, <<Item(1, Wild, Wild, 15)>> >> @@
  2 :> << <<Item(Wild, "cute", Wild, 10), Item(Wild, Wild, 3, 5)>> >> @@
  3 :> << <<Item(Multi, Wild, Wild, 12)>> >>

Rule(char, attr, unit, rate) == [char |-> char, attr |-> attr, unit |-> unit, rate |-> rate]

RarityRate == {[rarity |-> 4, rank |-> 0, rate |-> 10], [rarity |-> 4, rank |-> 1, rate |-> 20]}

Row(type, rules, cards_) ==
  [type |-> type, finale |-> FALSE, chapters |-> <<>>, rules |-> rules, cards |-> cards_,
   honors |-> {}, rarity |-> {}, skillLimit |-> None, cap |-> None, fixtureLimit |-> None]

Gain(id, rate) == [id |-> id, rate |-> rate, leader |-> 0]

Bloomed(char, cards_) ==
  [Row("world_bloom", {Rule(char, Wild, Wild, 50)}, cards_) EXCEPT !.chapters = <<char>>]

MCEvent ==
  1 :> [Row("marathon", {Rule(Wild, "cute", 1, 50), Rule(Wild, Wild, 1, 20)}, <<Gain(2, 30)>>)
          EXCEPT !.rarity = RarityRate] @@
  2 :> [Row("cheerful", {Rule(2, Wild, Wild, 20)}, <<Gain(3, 30), Gain(4, 30), Gain(1, 60)>>)
          EXCEPT !.cap = 1, !.fixtureLimit = 5] @@
  130 :> Bloomed(1, <<Gain(1, 30)>>) @@
  163 :> Bloomed(2, <<Gain(4, 30)>>) @@
  200 :> Bloomed(3, <<Gain(6, 30)>>) @@
  300 :> [Bloomed(1, <<[id |-> 5, rate |-> 40, leader |-> 20]>>)
            EXCEPT !.finale = TRUE, !.chapters = <<>>, !.skillLimit = 8,
                   !.honors = {[honor |-> "first", char |-> 1, rate |-> 10],
                               [honor |-> "second", char |-> 1, rate |-> 30],
                               [honor |-> "first", char |-> 2, rate |-> 20]}] @@
  301 :> [Bloomed(1, <<>>) EXCEPT !.finale = TRUE]

MCSupportRate ==
  [turn \in 1..3 |-> [r \in 2..4 |->
     [specific |-> 20 * turn, others |-> 10, rank |-> 0 :> 0 @@ 1 :> 5,
      skill |-> 1 :> 0 @@ 2 :> 10]]]

MCSupportRows ==
  << [event |-> 163, char |-> 2, id |-> 3, rate |-> 30],
     [event |-> 200, char |-> 3, id |-> 6, rate |-> 50] >>

MCPart == 1 :> {1, 2} @@ 2 :> {3}

MCHonor == "first" :> None @@ "second" :> [part |-> 2, chapter |-> 1]

MCSupportCount == <<1, 1, 2>>

MCDiffAttr == <<0, 5>>

-----------------------------------------------------------------------------
Own(id, level, rank, skill, trained) ==
  [id |-> id, level |-> level, rank |-> rank, skill |-> skill, trained |-> trained, image |-> trained]

User ==
  [ranks |-> <<2, 1, 1>>, fixture |-> <<10, 40, 0>>,
   gates |-> <<[unit |-> 1, level |-> 1, rate |-> 4], [unit |-> 2, level |-> 2, rate |-> 6]>>,
   areaItems |-> <<[item |-> 1, level |-> 2], [item |-> 2, level |-> 3]>>,
   honors |-> {"first", "second"},
   cards |-> <<Own(1, 2, 1, 1, TRUE), Own(2, 1, 0, 2, FALSE), Own(3, 2, 0, 1, TRUE),
               Own(4, 1, 1, 2, FALSE), Own(5, 1, 0, 1, FALSE), Own(6, 2, 1, 1, FALSE)>>]

AsIs == [disable |-> FALSE, levelMax |-> FALSE, level |-> None, skillMax |-> FALSE, rankMax |-> FALSE]

Maxed == [AsIs EXCEPT !.levelMax = TRUE, !.skillMax = TRUE, !.rankMax = TRUE]

Plain ==
  [user |-> User, eventId |-> None, eventType |-> None, finaleTurn |-> None, turn |-> None,
   char |-> None, unit |-> None, attr |-> None, customChars |-> {}, challenge |-> FALSE,
   challengeChar |-> None, target |-> "score", tiers |-> <<>>, fixedIds |-> <<>>,
   fixedChars |-> <<>>, leader |-> None, excluded |-> {}, unitFilter |-> None,
   attrFilter |-> None, filterOther |-> FALSE, keepState |-> FALSE, members |-> FALSE,
   byRarity |-> [r \in 2..4 |-> AsIs], single |-> <<>>, rankMax |-> FALSE, skillMax |-> FALSE]

For(id) == [Plain EXCEPT !.eventId = id]

\* Without an event, or with bonuses of the request's own.
Casual ==
  {Plain,
   [Plain EXCEPT !.target = "skill", !.user.areaItems = @ \o <<[item |-> 3, level |-> 1]>>],
   [Plain EXCEPT !.target = "power", !.byRarity = [r \in 2..4 |-> Maxed],
                 !.single = 4 :> [AsIs EXCEPT !.disable = TRUE] @@ 3 :> [AsIs EXCEPT !.level = 1]],
   [Plain EXCEPT !.challenge = TRUE, !.challengeChar = 1, !.fixedIds = <<2>>],
   [Plain EXCEPT !.challenge = TRUE, !.challengeChar = 1, !.fixedChars = <<1>>],
   [Plain EXCEPT !.user.ranks = <<2, 2, 2>>],
   [Plain EXCEPT !.unit = 1, !.attr = "cool", !.filterOther = TRUE],
   [Plain EXCEPT !.customChars = {2}, !.attr = "cute", !.keepState = TRUE, !.target = "bonus"],
   [Plain EXCEPT !.eventType = "marathon", !.unitFilter = 1, !.attrFilter = "cute"]}

\* Slots, members and leaders.
Constrained ==
  {[Plain EXCEPT !.fixedIds = <<6>>, !.fixedChars = <<2>>],
   [Plain EXCEPT !.fixedIds = <<6>>, !.fixedChars = <<2>>, !.leader = 1],
   [Plain EXCEPT !.fixedIds = <<3, 3>>],
   [Plain EXCEPT !.fixedIds = <<3, 4>>],
   [Plain EXCEPT !.fixedIds = <<5, 1>>, !.unitFilter = 2, !.leader = 3],
   [Plain EXCEPT !.user.cards = SubSeq(@, 1, 4), !.fixedIds = <<5>>, !.leader = 2],
   [Plain EXCEPT !.fixedIds = <<4>>, !.excluded = {4}],
   [Plain EXCEPT !.fixedChars = <<3>>, !.excluded = {5, 6}],
   [Plain EXCEPT !.leader = 7],
   [Plain EXCEPT !.members = TRUE],
   [For(300) EXCEPT !.members = TRUE, !.fixedIds = <<4>>, !.leader = 1],
   [For(300) EXCEPT !.members = TRUE, !.fixedChars = <<2>>, !.target = "bonus", !.tiers = <<20>>]}

\* Real and simulated events.
Eventful ==
  {For(1), For(2), [For(130) EXCEPT !.excluded = {4}], [For(163) EXCEPT !.turn = 3],
   [For(200) EXCEPT !.excluded = {6}, !.skillMax = TRUE, !.rankMax = TRUE],
   [For(300) EXCEPT !.excluded = {1}], For(301),
   [For(1) EXCEPT !.filterOther = TRUE], [For(163) EXCEPT !.char = 1, !.attrFilter = "cute"],
   [Plain EXCEPT !.turn = 1, !.unit = 1, !.char = 1],
   [Plain EXCEPT !.turn = 2, !.unit = 2, !.char = 2],
   [Plain EXCEPT !.turn = 3, !.char = 2], [Plain EXCEPT !.turn = 3],
   [Plain EXCEPT !.finaleTurn = 2],
   [Plain EXCEPT !.finaleTurn = 2, !.rankMax = TRUE, !.skillMax = TRUE],
   [Plain EXCEPT !.finaleTurn = 3],
   [Plain EXCEPT !.finaleTurn = 1], [Plain EXCEPT !.eventType = "world_bloom"]}

\* Bonus tiers, outside a World Bloom.
Tiers(id, tiers) == [For(id) EXCEPT !.target = "bonus", !.tiers = tiers]

Tiering ==
  {Tiers(1, <<2>>), Tiers(1, <<0, 7>>), Tiers(2, <<2, 3>>), Tiers(2, <<7>>),
   [Tiers(1, <<9>>) EXCEPT !.filterOther = TRUE], [Plain EXCEPT !.tiers = <<1>>],
   Tiers(None, <<1>>), Tiers(2, <<4, 4>>), Tiers(130, <<3>>), Tiers(300, <<12>>)}

MCRequests == Casual \cup Constrained \cup Eventful \cup Tiering
=============================================================================
