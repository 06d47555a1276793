------------------------------- MODULE Custody -------------------------------
(***************************************************************************)
(* What the rules of capture the flag promise, without places and without  *)
(* players: in whose hands a flag is, and when a team scores.              *)
(***************************************************************************)
EXTENDS Integers, FiniteSets, Teams

CONSTANTS Flags, Home, Lost

VARIABLES
    for,            \* the team that may take a flag, or Nobody: either
    strict,         \* whether a team whose flag is away takes and scores nothing
    hands,          \* the team that carries a flag; Home; Lost: it lies somewhere
    points

vars == <<for, strict, hands, points>>

\* Every flag that is not for the team, the flags F aside, is at home.
OwnAtHome(t, F) == \A f \in Flags \ F : for[f] # t => hands[f] = Home

Init ==
    /\ for \in [Flags -> Teams \cup {Nobody}] /\ strict \in BOOLEAN
    /\ hands = [f \in Flags |-> Home]
    /\ points = [t \in Teams |-> 0]

\* A flag nobody carries is taken by its team; a neutral one by either team,
\* which may lose it at once to the other one.
Take(f, t) ==
    /\ hands[f] \in {Home, Lost}
    /\ for[f] \in {t, Nobody}
    /\ strict => OwnAtHome(t, {f})
    /\ hands' = [hands EXCEPT ![f] = t]
    /\ UNCHANGED <<for, strict, points>>

\* Carriers of the flags F die, change teams or leave.
Lose(F) ==
    /\ \A f \in F : hands[f] \in Teams
    /\ hands' = [f \in Flags |-> IF f \in F THEN Lost ELSE hands[f]]
    /\ UNCHANGED <<for, strict, points>>

\* A lost flag is sent home, or the map or a new round takes it there.
GoHome(F) ==
    /\ hands' = [f \in Flags |-> IF f \in F THEN Home ELSE hands[f]]
    /\ UNCHANGED <<for, strict, points>>

\* The flags F are handed in, for one point each.
Score(t, F) ==
    /\ F # {} /\ \A f \in F : hands[f] = t
    /\ strict => OwnAtHome(t, {})
    /\ hands' = [f \in Flags |-> IF f \in F THEN Home ELSE hands[f]]
    /\ points' = [points EXCEPT ![t] = @ + Cardinality(F)]
    /\ UNCHANGED <<for, strict>>

Next ==
    \/ \E f \in Flags, t \in Teams : Take(f, t)
    \/ \E F \in SUBSET Flags :
          \/ Lose(F) \/ GoHome(F)
          \/ \E t \in Teams : Score(t, F)

Spec == Init /\ [][Next]_vars

\* No flag lies about for ever.
NothingLost == \A f \in Flags : []<>(hands[f] # Lost)
===============================================================================
