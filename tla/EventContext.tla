---------------------------- MODULE EventContext ----------------------------
(***************************************************************************)
(* The event a pool is built for: the rows of a real event, or those made   *)
(* up for a World Bloom chapter or finale that the tables do not have yet   *)
(* (src/src/handler/event_bonus.rs and world_bloom.rs).                     *)
(*                                                                         *)
(* A request names an event, or the type, unit and attribute of one to      *)
(* simulate, or a World Bloom turn or finale.  Shuffle bonuses and the      *)
(* support unit restrictions of a custom event are left out.                *)
(***************************************************************************)
EXTENDS CardTables

CONSTANTS
  Invalid,      \* what a malformed event request resolves to
  Honor,        \* [honor -> the WL3 part and chapter it ranks in, or None]
  SupportCount, \* [turn -> support cards that count]: 12, 20 and 25 in the code
  DiffAttr      \* bonus of a deck with n attributes, at n

FinalChapter == 180
WL3FakeFinale == 3200000

WorldBloomEventTurn(id) ==
  CASE id > 1000 -> ((id \div 100000) % 10) + 1
    [] id <= 140 -> 1
    [] id > 140 /\ id <= 180 -> 2
    [] id > 180 /\ id <= 1000 -> 3

\* The group is a unit's code, one more than its index, or a WL3 part.
FakeWbEventId(turn, group) == 3000000 + (turn - 1) * 100000 + group

PartsOf(char) == {part \in DOMAIN Part : char \in Part[part]}

\* The simulated event; a real one comes first.
ResolveWbEventId(q) ==
  CASE q.eventId # None \/ q.challenge -> None
    [] q.eventId = None /\ ~q.challenge /\ q.finaleTurn # None ->
         CASE q.finaleTurn = 2 -> FinalChapter
           [] q.finaleTurn = 3 -> WL3FakeFinale
           [] OTHER -> Invalid
    [] q.eventId = None /\ ~q.challenge /\ q.finaleTurn = None /\ q.turn # None ->
         CASE q.turn = 3 -> IF PartsOf(q.char) = {} THEN Invalid
                            ELSE FakeWbEventId(3, Min(PartsOf(q.char)))
           [] q.turn \in {1, 2} -> IF q.unit = None THEN Invalid
                                   ELSE FakeWbEventId(q.turn, q.unit + 1)
           [] OTHER -> Invalid
    [] OTHER -> None

-----------------------------------------------------------------------------
(* Simulated rows.                                                          *)

NoRows == [rules |-> {}, cards |-> <<>>, honors |-> {}, support |-> <<>>]

\* Every event card row, the events in ascending order.
EventCardRows ==
  LET ids == Ascending(DOMAIN Event)
  IN  FlattenSeq([i \in DOMAIN ids |->
        [n \in DOMAIN Event[ids[i]].cards |-> Event[ids[i]].cards[n] @@ [event |-> ids[i]]]])

\* A sequence without the elements that have an earlier one's key.
FirstOfEach(list, Key(_)) ==
  FoldLeft(LAMBDA kept, e : IF \E k \in ToSet(kept) : Key(k) = Key(e) THEN kept
                            ELSE Append(kept, e), <<>>, list)

CharacterRules(chars, rate) ==
  {[char |-> c, attr |-> Wild, unit |-> Wild, rate |-> rate] : c \in chars}

SupportOf(rows) == [n \in DOMAIN rows |-> [char |-> rows[n].char, id |-> rows[n].id, rate |-> rows[n].rate]]

\* The limited cards of earlier turns support the next ones.
SynthSupportLimited(turn, members) ==
  CASE turn = 2 ->
         SupportOf(SelectSeq(SupportRows, LAMBDA r : /\ r.event # FinalChapter
                                                     /\ WorldBloomEventTurn(r.event) = 2
                                                     /\ r.char \in members))
    [] turn = 3 ->
         LET earlier == SelectSeq(EventCardRows, LAMBDA r :
                          /\ r.event # FinalChapter /\ WorldBloomEventTurn(r.event) <= 2
                          /\ r.rate > 0 /\ Event[r.event].type = "world_bloom"
                          /\ r.id \in DOMAIN Master /\ Master[r.id].char \in members)
             cards == FirstOfEach(earlier, LAMBDA r : r.id)
         IN  [n \in DOMAIN cards |->
                [char |-> Master[cards[n].id].char, id |-> cards[n].id, rate |-> 200]]
    [] OTHER -> <<>>

SynthesizeWbTurnRows(turn, group) ==
  LET members == IF turn = 3 THEN Part[group] \cap Characters
                 ELSE {c \in Characters : Unit[c] = group - 1}
  IN  [NoRows EXCEPT !.rules = CharacterRules(members, 250),
                     !.support = SynthSupportLimited(turn, members)]

LegacySources == {163, 167, 170, 171, 176, 179}

\* The second turn's finale, when the tables have no event 180.
SynthesizeWbLegacyRows ==
  LET ids == Ascending({r.id : r \in {x \in ToSet(EventCardRows) : x.event \in LegacySources}})
  IN  [NoRows EXCEPT !.rules = CharacterRules(Characters, 50),
                     !.cards = [n \in DOMAIN ids |-> [id |-> ids[n], rate |-> 250, leader |-> 0]],
                     !.support = SupportOf(SupportRows)]

\* The third turn's finale draws on the chapters played so far.
SynthesizeWbFinaleRows ==
  LET sources == {e \in DOMAIN Event : /\ e < 1000 /\ Event[e].type = "world_bloom"
                                       /\ WorldBloomEventTurn(e) = 3 /\ ~Event[e].finale}
      cards == FirstOfEach(SelectSeq(EventCardRows, LAMBDA r : r.event \in sources /\ r.rate > 0),
                           LAMBDA r : r.id)
      support == FirstOfEach(SelectSeq(SupportRows, LAMBDA r : /\ r.event \in sources
                                                              /\ r.char \in Characters
                                                              /\ r.rate > 0),
                             LAMBDA r : <<r.char, r.id>>)
      \* The character whose chapter of a part an honor was won in.
      leaders(h) == {Event[e].chapters[n] : e \in sources, n \in {Honor[h].chapter}}
                      \cap (IF Honor[h].part \in DOMAIN Part THEN Part[Honor[h].part] ELSE {})
  IN  IF sources = {} THEN NoRows
      ELSE [rules |-> CharacterRules(Characters, 50),
            cards |-> [n \in DOMAIN cards |-> [id |-> cards[n].id, rate |-> 250, leader |-> 200]],
            honors |-> UNION {{[honor |-> h, char |-> c, rate |-> 500] : c \in leaders(h)} :
                              h \in {x \in DOMAIN Honor : Honor[x] # None}},
            support |-> SupportOf(support)]

\* A real event is never added to.
SynthesizeWbRows(id) ==
  CASE id \in DOMAIN Event -> NoRows
    [] id \notin DOMAIN Event /\ id = WL3FakeFinale -> SynthesizeWbFinaleRows
    [] id \notin DOMAIN Event /\ id = FinalChapter -> SynthesizeWbLegacyRows
    [] OTHER -> SynthesizeWbTurnRows(WorldBloomEventTurn(id), id % 100000)

-----------------------------------------------------------------------------
(* The context.                                                             *)

NoEvent == [event |-> None]

Simulated(q) == q.unit # None \/ q.attr # None \/ q.customChars # {}

EventType(q, simulated) ==
  CASE simulated # None -> "world_bloom"
    [] simulated = None /\ q.eventId \in DOMAIN Event -> Event[q.eventId].type
    [] simulated = None /\ q.eventId \notin DOMAIN Event /\ q.eventType # None -> q.eventType
    [] OTHER -> IF Simulated(q) THEN "marathon" ELSE None

IsFinale(id) ==
  id \in {FinalChapter, WL3FakeFinale} \/ (id \in DOMAIN Event /\ Event[id].finale)

ResolveTurn(q) ==
  CASE q.turn # None -> q.turn
    [] q.turn = None /\ q.eventId \in DOMAIN Event -> WorldBloomEventTurn(q.eventId)
    [] OTHER -> None

\* The rule's common unit, if there is one.
CommonEventUnit(rules, fallback) ==
  LET units == {r.unit : r \in rules} \ {Wild}
  IN  IF Cardinality(units) = 1 THEN CHOOSE u \in units : TRUE ELSE fallback

\* The event's own rates, or those of the first event.
RarityRows(q, id) ==
  LET own == IF id \in DOMAIN Event THEN Event[id].rarity ELSE {}
  IN  IF id = None /\ ~Simulated(q) THEN {}
      ELSE IF own # {} THEN own ELSE Event[Min(DOMAIN Event)].rarity

\* A finale's skill limit must be known.
SkillLimit(q, id, row) ==
  CASE q.challenge -> None
    [] ~q.challenge /\ row.skillLimit # None -> row.skillLimit
    [] ~q.challenge /\ row.skillLimit = None /\ id \in {FinalChapter, WL3FakeFinale} -> 140
    [] OTHER -> IF IsFinale(id) THEN Invalid ELSE None

CardBonusLimit(id, row, turn) ==
  CASE row.cap # None -> row.cap
    [] row.cap = None /\ IsFinale(id) /\ turn = 2 -> DeckSize - 1
    [] OTHER -> DeckSize

BlankEvent ==
  [type |-> None, finale |-> FALSE, chapters |-> <<>>, rules |-> {}, cards |-> <<>>,
   honors |-> {}, rarity |-> {}, skillLimit |-> None, cap |-> None, fixtureLimit |-> None]

\* The event, NoEvent, or Invalid.
BuildEventContext(q) ==
  LET simulated == ResolveWbEventId(q)
      type == EventType(q, simulated)
      id == IF simulated # None THEN simulated ELSE q.eventId
      row == IF id \in DOMAIN Event THEN Event[id] ELSE BlankEvent
      made == IF simulated = None THEN NoRows ELSE SynthesizeWbRows(simulated)
      bloom == type = "world_bloom"
      turn == CASE simulated # None -> WorldBloomEventTurn(simulated)
                [] simulated = None /\ bloom -> ResolveTurn(q)
                [] OTHER -> q.turn
      limit == SkillLimit(q, id, row)
      context ==
        [event |-> id, id |-> id, type |-> type, turn |-> turn,
         finale |-> IsFinale(id), legacy |-> id \in {FinalChapter, WL3FakeFinale},
         rules |-> row.rules \cup made.rules, cards |-> row.cards \o made.cards,
         honors |-> row.honors \cup made.honors, support |-> made.support,
         rarity |-> RarityRows(q, id), skillLimit |-> limit,
         cap |-> CardBonusLimit(id, row, turn),
         supportCount |-> IF ~bloom THEN 0
                          ELSE SupportCount[IF turn \in {1, 2} THEN turn ELSE 3],
         diffAttr |-> [n \in 1..DeckSize |-> IF bloom THEN DiffAttr[n] ELSE 0],
         char |-> IF q.char # None \/ row.chapters = <<>> THEN q.char ELSE row.chapters[1],
         customChars |-> IF q.customChars # {} THEN q.customChars
                         ELSE {c \in Characters : Unit[c] = q.unit},
         customAttr |-> q.attr,
         filterUnit |-> CommonEventUnit(row.rules, q.unit),
         fixtureLimit |-> CASE row.fixtureLimit # None -> row.fixtureLimit
                            [] row.fixtureLimit = None /\ IsFinale(id) -> IF turn = 2 THEN 20 ELSE 60
                            [] OTHER -> None]
  IN  CASE simulated = Invalid -> Invalid
        [] type = None -> NoEvent
        [] /\ bloom /\ simulated = None
           /\ q.eventId = None /\ q.turn = None /\ q.finaleTurn = None -> Invalid
        [] type # None /\ limit = Invalid -> Invalid
        [] OTHER -> context
=============================================================================
