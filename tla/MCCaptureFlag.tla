---------------------------- MODULE MCCaptureFlag ----------------------------
(***************************************************************************)
(* Two players and one flag of several kinds.                              *)
(***************************************************************************)
EXTENDS CaptureFlag

CONSTANTS p1, p2

TwoPlayers == {p1, p2}
TwoSlots == [p \in TwoPlayers |-> IF p = p1 THEN 1 ELSE 2]

Flag(need) ==
    [forTeam |-> Teams, start |-> Nobody, need |-> need, keeps |-> FALSE,
     uncapOnDeath |-> FALSE, trigger |-> FALSE, inputs |-> FALSE]

\* A flag for two players, one that its holders must survive to keep and the
\* map turns on and off, two for the Americans only, one with a trigger
SoundFlags ==
    {Flag(2),
     [Flag(1) EXCEPT !.uncapOnDeath = TRUE, !.start = British, !.inputs = TRUE],
     [Flag(1) EXCEPT !.forTeam = {Americans}, !.start = British],
     [Flag(1) EXCEPT !.forTeam = {Americans}, !.start = British, !.keeps = TRUE],
     [Flag(2) EXCEPT !.trigger = TRUE]}

\* What the proofs assume of the flags is true of these.
ASSUME FlagsAreSound == SteadyTriggers /\ OwnersAreUncapped /\ GuardedTriggers
===============================================================================
