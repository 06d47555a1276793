-------------------------------- MODULE Match --------------------------------
(***************************************************************************)
(* What the game rules promise about a match, whatever the players do: it  *)
(* is a series of rounds, never more than mp_rounds, each ended once; at    *)
(* most one team gains at a time, by a known amount; nothing but a restart *)
(* takes a point back.                                                     *)
(* RoundControl implements it.                                             *)
(***************************************************************************)
EXTENDS Integers, Teams

CONSTANTS
    Rounds,     \* the values mp_rounds may have; 0: the round system is off
    Bonus       \* the points a round or an objective may be worth

VARIABLES
    limit,      \* the match's number of rounds, an element of Rounds
    phase,      \* "play", "verdict" (the round is decided, not yet ended), "over"
    round,      \* 1, 2, ...
    score       \* points per team

vars == <<limit, phase, round, score>>

Init ==
    /\ limit \in Rounds
    /\ phase = "play"
    /\ round = 1
    /\ score = [t \in Teams |-> 0]

\* Teams may change sides between two rounds and take their points along.
Award(pts, s) == [t \in Teams |-> s[t] + pts[t]]
Sides(s) == {s, [t \in Teams |-> s[Other(t)]]}

\* At most one team gains, and it gains one of the amounts a round is worth.
Points == {[t \in Teams |-> IF t = winner THEN b ELSE 0] :
               winner \in Teams \cup {Nobody}, b \in Bonus}

\* The round is decided; it ends a little later.
Decide ==
    /\ phase = "play"
    /\ phase' = "verdict"
    /\ UNCHANGED <<limit, round, score>>

\* The round ends and the next one, if there is one, starts.
EndRound ==
    /\ phase # "over"
    /\ limit > 0 => round < limit
    /\ phase' = "play"
    /\ round' = IF limit > 0 THEN round + 1 ELSE round
    /\ \E pts \in Points : score' \in Sides(Award(pts, score))
    /\ UNCHANGED limit

\* The last round ends, and the match with it.
EndLastRound ==
    /\ phase # "over"
    /\ limit > 0 /\ round = limit
    /\ phase' = "over"
    /\ \E pts \in Points : score' = Award(pts, score)
    /\ UNCHANGED <<limit, round>>

\* Objectives score during a round.
Objective ==
    /\ phase # "over"
    /\ \E pts \in Points : score' = Award(pts, score)
    /\ UNCHANGED <<limit, phase, round>>

\* A full cap scores and restarts play within the round.
Fullcap ==
    /\ phase # "over"
    /\ phase' = "play"
    /\ \E pts \in Points : score' = Award(pts, score)
    /\ UNCHANGED <<limit, round>>

\* Out of time, in a match without rounds.
TimeUp ==
    /\ limit = 0
    /\ phase' = "over"
    /\ UNCHANGED <<limit, round, score>>

\* A restarted match begins at its first round, with no points.
Restart ==
    /\ phase # "over"
    /\ round' = 1
    /\ score' = [t \in Teams |-> 0]
    /\ UNCHANGED <<limit, phase>>

\* A map's own triggers may still score, and restart play in a match without
\* rounds, when it is over.
Epilogue ==
    /\ phase = "over"
    /\ \E pts \in Points : score' \in Sides(Award(pts, score))
    /\ UNCHANGED <<limit, phase, round>>

NewMap ==
    /\ phase = "over"
    /\ limit' \in Rounds
    /\ phase' = "play"
    /\ round' = 1
    /\ score' = [t \in Teams |-> 0]

Next ==
    \/ Decide \/ EndRound \/ EndLastRound \/ Objective \/ Fullcap
    \/ TimeUp \/ Restart \/ Epilogue \/ NewMap

Spec == Init /\ [][Next]_vars
=============================================================================
