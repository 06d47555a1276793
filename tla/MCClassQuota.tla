---------------------------- MODULE MCClassQuota ----------------------------
(***************************************************************************)
(* Two players and a bot; on each team an infantry and a limited class.    *)
(***************************************************************************)
EXTENDS ClassQuota

CONSTANTS h1, h2, b1

TwoHumans == {h1, h2}
OneBot == {b1}
Symmetry2 == Permutations(TwoHumans)

\* The infantry has no limit; the Americans have n officers, the British none.
Officers(n) ==
    [c \in Classes |-> IF c[2] = Infantry THEN -1 ELSE IF c[1] = Americans THEN n ELSE 0]

\* One officer in a game of any size, or only in a game of three
TwoLimits ==
    {[s \in Sizes |-> Officers(1)],
     [s \in Sizes |-> Officers(IF s = "sml" THEN 0 ELSE 1)]}

\* The limits are ones of which LimitsAreRespected is proved.
ASSUME LimitsAreSound == RoomInEveryTeam
===============================================================================
