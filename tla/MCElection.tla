---------------------------- MODULE MCElection ----------------------------
(***************************************************************************)
(* Two voters, with or without a bot, in a short match.                    *)
(***************************************************************************)
EXTENDS Election

CONSTANTS v1, v2, m1, m2

TwoVoters == {v1, v2}
TwoMaps == {m1, m2}
TwoOptions == <<m1, m2>>
OneMap == {m1}
OneOption == <<m1>>
Symmetry == Permutations(TwoVoters)

Nobodies == [t \in Teams |-> 0]
OneBot == [t \in Teams |-> IF t = British THEN 1 ELSE 0]
TwoMatches == {[rounds |-> FALSE, bots |-> Nobodies], [rounds |-> TRUE, bots |-> OneBot]}
TimedMatch == {[rounds |-> FALSE, bots |-> OneBot]}

TwoIfTimed == [rounds \in BOOLEAN |-> IF rounds THEN 1 ELSE 2]
TheRatios == [kind \in {"kick", "votemap"} |-> IF kind = "kick" THEN 80 ELSE 60]
TheTeams == Teams
===============================================================================
