---------------------------- MODULE MCRoundControl ----------------------------
(***************************************************************************)
(* Small instances of RoundControl: two players, up to two flags, delays   *)
(* of one to four frames.                                                  *)
(***************************************************************************)
EXTENDS RoundControl, TLC

CONSTANTS p1, p2, f1, f2

TwoPlayers == {p1, p2}
Symmetry2 == Permutations(TwoPlayers)

NoFlags == {}
TwoFlags == {f1, f2}
ForBoth == [f \in Flags |-> Teams]
Neutral == [f \in Flags |-> Nobody]

Setting(style, rounds, swap) ==
    [style |-> style, rounds |-> rounds, swap |-> swap, timelimit |-> 0,
     minute |-> FALSE, balance |-> FALSE, admin |-> FALSE]

\* Matches whose rounds end when a team is wiped out, or by the clock
CombatSettings ==
    {[Setting("lms", 1, 0) EXCEPT !.admin = TRUE],
     [Setting("lms", 2, 1) EXCEPT !.balance = TRUE],
     [Setting("tickets", 2, 0) EXCEPT !.minute = TRUE]}

LmsSettings == {Setting("lms", 2, -1)}

\* Rounds over flags, and a match without rounds that ends by the time limit
SkirmishSettings ==
    {Setting("skirmish", 2, 0),
     [Setting("skirmish", 0, 1) EXCEPT !.timelimit = 3]}

\* The maps' flags are ones of which FullcapsAreEarned is proved.
ASSUME FlagsAreSound == CountForHolders

OneTicket == [t \in Teams |-> 1]
HalfTicket == [t \in Teams |-> 1]
===============================================================================
