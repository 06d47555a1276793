--------------------------- MODULE MCPlayerScores ---------------------------
(***************************************************************************)
(* Up to two players, one of them in the last slot: matches for points     *)
(* with an admin and with spectators, a gun game of bots with two kits,    *)
(* and a free-for-all.                                                     *)
(***************************************************************************)
EXTENDS PlayerScores

Rule(mode, accounts, known) ==
    [mode |-> mode, accounts |-> accounts, known |-> known, spectators |-> FALSE, admin |-> {}]

Points == Rule("teams", Players, Players)
Alone == Rule("teams", {1}, {1})

GunGame == {[Rule("gungame", Players, {}) EXCEPT !.admin = {"restarts"}]}

AllButFreeForAll ==
    GunGame \cup {Points,
                  [Alone EXCEPT !.admin = {"mutes", "restarts"}],
                  [Alone EXCEPT !.spectators = TRUE]}

FreeForAll == {Rule("ffa", Players, {})}
===============================================================================
