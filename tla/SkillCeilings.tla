--------------------------- MODULE SkillCeilings ---------------------------
(***************************************************************************)
(* Ceilings of skills that read the deck around them                       *)
(* (src/src/search/skill_ceiling.rs), as operators over the selected cards. *)
(*                                                                         *)
(* A unit skill counts the members of its card's own unit, a reference     *)
(* skill takes the best static skill of another member, up to its gain.    *)
(* The tables of the code are linear here, and the largest share is the    *)
(* strategy.                                                               *)
(***************************************************************************)
EXTENDS Evaluation

\* The largest value of the card's skill in any deck.
SkillMax(c) ==
  LET k == Card[c]
  IN  k.skill + CASE k.kind = "plain" -> 0
                  [] k.kind = "units" -> k.gain * (DeckSize - 1)
                  [] k.kind = "reference" -> k.gain

IsFixed(c) == Card[c].kind = "plain"

\* At least what a reference skill takes of the others' static skills.
ReferenceBound(k, others, unknown) ==
  Max({0} \cup {Min({k.gain, Card[o].reference}) : o \in others}
          \cup IF unknown > 0 THEN {k.gain} ELSE {})

\* Mutant: a unit skill counts the known members only.
KnownMembersBound(k, others, unknown) ==
  k.skill +
    CASE k.kind = "plain" -> 0
      [] k.kind = "units" -> k.gain * Cardinality({o \in others : Card[o].unit = k.unit})
      [] k.kind = "reference" -> ReferenceBound(k, others, unknown)

\* At least the skill k has in a deck with these others and some unknown
\* further members.
Bound(k, others, unknown) ==
  LET sharing == Cardinality({o \in others : Card[o].unit = k.unit})
  IN  k.skill +
      CASE k.kind = "plain" -> 0
        [] k.kind = "units" -> k.gain * Min({sharing + unknown, DeckSize - 1})
        [] k.kind = "reference" -> ReferenceBound(k, others, unknown)

\* A selected card with some slots left, and a card taken for one of them.
SelectedCeiling(c, selected, free) == Bound(Card[c], selected \ {c}, free)

CandidateCeiling(k, selected, free) == Bound(k, selected, free - 1)

\* One entry for the cards whose ceilings read the same facts, with the
\* largest of each of their parameters.
CeilingSet(cards) ==
  LET fact(c) == [kind |-> Card[c].kind,
                  unit |-> IF Card[c].kind = "units" THEN Card[c].unit ELSE 0]
      largest(f, field) == Max({Card[c][field] : c \in {x \in cards : fact(x) = f}})
  IN  {[skill |-> largest(f, "skill"), gain |-> largest(f, "gain")] @@ f :
         f \in {fact(c) : c \in cards}}

SetCeiling(set, selected, free) ==
  Max({CandidateCeiling(k, selected, free) : k \in set})
=============================================================================
