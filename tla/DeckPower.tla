----------------------------- MODULE DeckPower -----------------------------
(***************************************************************************)
(* Deck composition and the power a card resolves to in it                 *)
(* (src/src/power.rs), as operators.                                       *)
(*                                                                         *)
(* A card's unit mask is the set of its units: its character's own and, for *)
(* a virtual singer, at most one support unit.  A composition is a record  *)
(* with the fields                                                         *)
(*   units  the units all members carry                                    *)
(*   attr   whether all members share their attribute                      *)
(*   multi  whether the deck counts as a multi-unit deck                   *)
(***************************************************************************)
EXTENDS Integers, FiniteSets, FiniteSetsExt

CONSTANTS
  Card,          \* [card index -> record]: id, char, units, attr, legacy, multi
  DeckSize,      \* members of a full deck, 5 in the code
  MultiUnitMode  \* the activation policy of multi-unit effects

VS == 5          \* the virtual singers' unit bit

ASSUME CardAssumption ==
  \A c \in DOMAIN Card :
    LET k == Card[c]
    IN  /\ k.id \in Nat /\ k.char \in Nat /\ k.attr \in Nat
        /\ k.units # {} /\ k.units \subseteq 0..VS
        /\ Cardinality(k.units) <= IF VS \in k.units THEN 2 ELSE 1
        \* unit -> shared unit -> shared attribute -> power
        /\ k.legacy \in [k.units -> [BOOLEAN -> [BOOLEAN -> Nat]]]
        \* shared original -> shared support -> shared attribute -> power
        /\ k.multi \in {<<>>} \cup [BOOLEAN -> [BOOLEAN -> [BOOLEAN -> Nat]]]

ASSUME DeckAssumption ==
  /\ DeckSize \in Nat \ {0}
  /\ MultiUnitMode \in {"by_deck", "force_on", "force_off"}

Original(units) == IF VS \in units THEN VS ELSE Min(units)

Support(units) == units \ {Original(units)}

\* Units the multi-unit count sees: a virtual singer stands for its support
\* unit once, and for its own unit when that one is taken or missing.
CountedUnits(deck) ==
  LET singers == {c \in deck : VS \in Card[c].units}
      native == {Original(Card[c].units) : c \in deck \ singers}
      needsVS == \E c \in singers :
                   LET s == Support(Card[c].units)
                   IN  \/ s = {} \/ s \cap native # {}
                       \/ \E d \in singers \ {c} : s \cap Support(Card[d].units) # {}
  IN  native \cup UNION {Support(Card[c].units) : c \in singers}
        \cup IF needsVS THEN {VS} ELSE {}

\* A partial deck shares nothing.
Composition(deck) ==
  LET full == Cardinality(deck) = DeckSize
  IN  [units |-> IF full
                 THEN {u \in 0..VS : \A c \in deck : u \in Card[c].units}
                 ELSE {},
       attr |-> full /\ Cardinality({Card[c].attr : c \in deck}) = 1,
       multi |-> Cardinality(CountedUnits(deck)) > 1]

MultiActive(isMulti) ==
  CASE MultiUnitMode = "by_deck" -> isMulti
    [] MultiUnitMode = "force_on" -> TRUE
    [] MultiUnitMode = "force_off" -> FALSE

LegacyPower(c, units, attrAll) ==
  Max({Card[c].legacy[u][(u \in units)][attrAll] : u \in Card[c].units})

MultiPower(c, units, attrAll) ==
  LET mask == Card[c].units
  IN  Card[c].multi[(Original(mask) \in units)]
                   [(units \cap Support(mask) # {})][attrAll]

EffectivePower(c, comp) ==
  IF MultiActive(comp.multi) /\ Card[c].multi # <<>>
  THEN MultiPower(c, comp.units, comp.attr)
  ELSE LegacyPower(c, comp.units, comp.attr)

TotalPower(deck) ==
  SumFunction([c \in deck |-> EffectivePower(c, Composition(deck))])
=============================================================================
