-------------------------------- MODULE Teams --------------------------------
(***************************************************************************)
(* The team numbers of shared/shareddefs.h as the rest of the code uses    *)
(* them: two playing teams, the spectators, and TEAM_UNASSIGNED / TEAM_NONE *)
(* for a player who has not chosen, a flag nobody owns, a round nobody won. *)
(***************************************************************************)

Americans == "americans"
British == "british"
Teams == {Americans, British}

\* TEAM_SPECTATOR
Spectators == "spectators"

\* TEAM_UNASSIGNED for players and flags, TEAM_NONE for the winner of a draw.
Nobody == "nobody"

Other(t) == IF t = Americans THEN British ELSE Americans
=============================================================================
