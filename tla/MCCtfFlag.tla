------------------------------ MODULE MCCtfFlag ------------------------------
(***************************************************************************)
(* Two players, a flag of each team or a neutral one beside it, and a      *)
(* field round the origin of the world between the two bases.              *)
(***************************************************************************)
EXTENDS CtfFlag

CONSTANTS f1, f2, base1, base2, field

TwoFlags == {f1, f2}
ThreePlaces == {base1, base2, field}
Bases == [f \in TwoFlags |-> IF f = f1 THEN base1 ELSE base2]
SpawnPlaces == [t \in Teams |-> IF t = Americans THEN base2 ELSE base1]

\* f1 belongs to the British, the Americans may take it
Map(t1, t2, c, r) ==
    [captureStyle |-> c, returnStyle |-> r,
     forTeam |-> [f \in TwoFlags |-> IF f = f1 THEN t1 ELSE t2],
     startsOff |-> {}, points |-> {<<base1, {British}>>, <<base2, {Americans}>>},
     inputs |-> FALSE, quick |-> {}]

\* A map for each capture style (in the second, only the Americans score), one
\* where a player may carry both flags, one whose second flag is off and where
\* a class may be changed at once
SoundMaps ==
    {Map(Americans, British, 2, 2),
     [Map(Americans, Nobody, 1, 2) EXCEPT !.inputs = TRUE, !.points = {<<base2, {Americans}>>}],
     [Map(British, British, 2, 1) EXCEPT !.points = {<<field, Teams>>}],
     [Map(Nobody, British, 2, 1) EXCEPT !.startsOff = {f2}, !.quick = {base1}]}
===============================================================================
