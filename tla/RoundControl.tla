----------------------------- MODULE RoundControl -----------------------------
(***************************************************************************)
(* The rounds of a match: CHL2MPRules::Think and the functions it calls    *)
(* (shared/hl2mp/hl2mp_gamerules.cpp), the tickets of a team               *)
(* (server/team.cpp) and what spawning, joining, dying and leaving         *)
(* (server/hl2mp/hl2mp_player.cpp) do to them.                             *)
(*                                                                         *)
(* The server is one thread.  A frame runs Think once; its blocks, which   *)
(* follow each other in a fixed order, are actions linked by "stage".      *)
(* Everything else happens between two frames (stage = "idle").            *)
(*                                                                         *)
(* Time is relative: left[k] is deadline k minus gpGlobals->curtime, in    *)
(* frames, and stays at Expired once passed.                               *)
(***************************************************************************)
EXTENDS Fullcap

CONSTANTS
    Players,
    Settings,       \* the values the cvars may have on a map, see SettingAssumption
    StartOwner,     \* m_iStartingTeam of each flag
    FlagBonus,      \* m_iTeamBonus of a flag
    TicketsAtStart, \* mp_tickets_a, mp_tickets_b
    Drain,          \* mp_tickets_drain_a, _b, in half tickets
    RoundTime,      \* mp_roundtime
    RespawnTime,    \* mp_respawntime
    FlagInterval,   \* the 10 s between two looks at the flags
    RestartDelay,   \* the 5 s between the end of a round and the next round
    Minute,         \* the 60 s mp_tickets_timelimit leaves
    ChatTime,       \* mp_chattime
    WinBonus,       \* mp_winbonus
    Tolerance,      \* mp_autobalancetolerance
    MaxScore        \* bound: no capture, map trigger or death beyond it

Styles == {"skirmish", "lms", "tickets"}    \* mp_respawnstyle 1, 2 and 4, 3

ASSUME PlayerAssumption == IsFiniteSet(Players)

ASSUME SettingAssumption ==
    Settings \subseteq
        [style : Styles,
         rounds : Nat,          \* mp_rounds
         swap : {-1, 0, 1},     \* mp_swapteams
         timelimit : Nat,       \* mp_timelimit
         minute : BOOLEAN,      \* mp_tickets_timelimit
         balance : BOOLEAN,     \* mp_autobalanceteams
         admin : BOOLEAN]       \* whether an admin uses the server's commands

ASSUME NumberAssumption ==
    /\ {FlagBonus, RoundTime, RespawnTime, FlagInterval, RestartDelay, Minute,
        ChatTime, WinBonus, MaxScore} \subseteq Nat
    /\ Tolerance \in Nat \ {0}
    /\ TicketsAtStart \in [Teams -> Nat]
    /\ Drain \in [Teams -> Nat]
    /\ StartOwner \in [Flags -> Teams \cup {Nobody}]

VARIABLES
    cvar,           \* the settings of the current map
    stage,          \* the block of Think that runs next, "idle" between frames
    left,           \* the deadlines
    gameOver,       \* g_fGameOver
    round,          \* m_iCurrentRound
    score,          \* CTeam::m_iScore and its mirrors mp_americanscore, mp_britishscore
    restarting,     \* m_bIsRestartingRound
    winner,         \* m_iTDMTeamThatWon
    team,           \* GetTeamNumber() of each player; Nobody for one not in the game
    alive,          \* the players that are alive, on a playing team
    freeSpawn,      \* m_bDontRemoveTicket
    tickets,        \* m_iTicketsLeft
    fraction,       \* m_flTicketRemovalFraction, in half tickets
    owner,          \* the team that holds each flag
    fresh           \* history: the end of the round that winner was worked out for
                    \* has lasted since

matchVars == <<gameOver, round, score, restarting, winner, fresh>>
playerVars == <<team, alive, freeSpawn, tickets, fraction>>
vars == <<cvar, stage, left, matchVars, playerVars, owner>>

Expired == -1
Deadlines ==
    {"round",           \* m_fLastRoundRestart + mp_roundtime
     "restart",         \* m_flNextRoundRestart
     "wave",            \* m_fLastRespawnWave + mp_respawntime
     "flags",           \* m_fNextFlagUpdate
     "gameReset",       \* m_fNextGameReset; Expired: none asked for
     "roundReset",      \* m_fNextRoundReset; Expired: none asked for
     "map",             \* m_flGameStartTime + mp_timelimit
     "intermission"}    \* m_flIntermissionEndTime

UsingTickets == cvar.style = "tickets"
Members(t) == {p \in Players : team[p] = t}
Living(t) == Members(t) \cap alive
Playing == {p \in Players : team[p] \in Teams}

\* The deadlines after one more frame.
Passed == [k \in Deadlines |-> IF left[k] > Expired THEN left[k] - 1 ELSE Expired]
-------------------------------------------------------------------------------
(***************************************************************************)
(* Spawn, RemoveTicket, SetRemainingRoundTime: the players S come to life  *)
(* on the teams tm gives them.  l is the value of left before.             *)
(***************************************************************************)
Pays(S) == {p \in S : UsingTickets /\ p \notin freeSpawn}

\* RemoveTicket, k times: a team that has none left cannot pay.
NoTicketCheck(n, k) == n - k
TakeTickets(n, k) == IF k < n THEN n - k ELSE 0

Spawn(S, tm, l) ==
    LET paid(t) == Cardinality({p \in Pays(S) : tm[p] = t})
        after == [t \in Teams |-> TakeTickets(tickets[t], paid(t))]
        ranOut == \E t \in Teams : tickets[t] > 0 /\ after[t] = 0
    IN  /\ tickets' = after
        /\ freeSpawn' = IF UsingTickets THEN freeSpawn \ S ELSE freeSpawn
        /\ left' = IF ranOut /\ cvar.minute /\ l["round"] > Minute
                   THEN [l EXCEPT !["round"] = Minute] ELSE l
        /\ fraction' = fraction

\* MayRespawnOnTeamChange, for a player that has come from one team to another.
MayRespawn(p, to) ==
    /\ to \in Teams
    /\ \/ Members(to) \subseteq {p}
       \/ Members(Other(to)) \subseteq {p}
       \/ /\ team[p] = Nobody
          /\ cvar.style = "skirmish" \/ (UsingTickets /\ tickets[to] > 0)
          /\ RespawnTime < 30

\* ForceJoin to another team: the player dies, and may be spawned there at once.
ForceJoin(p, to) ==
    LET S == IF MayRespawn(p, to) THEN {p} ELSE {}
    IN  /\ team' = [team EXCEPT ![p] = to]
        /\ alive' = (alive \ {p}) \cup S
        /\ Spawn(S, team', left)

\* The points a team has after a change of sides.
KeepScores(swap, sc) == sc
SwapScores(swap, sc) == IF swap THEN [t \in Teams |-> sc[Other(t)]] ELSE sc

(***************************************************************************)
(* RestartRound(swapTeams, bSetLastRoundTime).  SwapTeams sends every      *)
(* player and each score to the other team; RespawnAll spawns everybody,   *)
(* and the tickets it costs are reset after it.                            *)
(***************************************************************************)
RestartRound(swap, setTime, sc, l) ==
    /\ owner' = StartOwner
    /\ team' = [p \in Players |-> IF swap /\ p \in Playing THEN Other(team[p]) ELSE team[p]]
    /\ score' = SwapScores(swap, sc)
    /\ alive' = Playing
    /\ freeSpawn' = IF UsingTickets THEN freeSpawn \ Playing ELSE freeSpawn
    /\ tickets' = IF UsingTickets THEN TicketsAtStart ELSE tickets
    /\ fraction' = IF UsingTickets THEN [t \in Teams |-> 0] ELSE fraction
    /\ left' = [l EXCEPT
                  !["flags"] = IF UsingTickets THEN FlagInterval ELSE @,
                  !["round"] = IF setTime /\ RespawnTime > 0 THEN RoundTime ELSE @,
                  !["wave"]  = IF setTime /\ RespawnTime > 0 THEN RespawnTime ELSE @]
    /\ fresh' = FALSE

GoToIntermission(l) ==
    /\ gameOver' = TRUE
    /\ left' = IF gameOver THEN l ELSE [l EXCEPT !["intermission"] = ChatTime]

CountTwice(t, pts) == IF t \in Teams THEN [score EXCEPT ![t] = @ + 2 * pts] ELSE score
SetScore(t, pts) == IF t \in Teams THEN [score EXCEPT ![t] = pts] ELSE score
AddScore(t, pts) == IF t \in Teams THEN [score EXCEPT ![t] = @ + pts] ELSE score

\* The match ends with the round that is ending.
OneRoundMore == round > cvar.rounds
IsLastRound == round >= cvar.rounds

\* HandleScores(iTeam, iScore, _, bRestart = true, bCycleRound)
HandleScores(t, pts, cycle, l) ==
    LET counted == cycle /\ cvar.rounds > 0
        next == IF counted THEN round + 1 ELSE round
        swap == /\ cycle
                /\ \/ cvar.swap = 1
                   \/ cvar.swap = 0 /\ cvar.rounds > 0 /\ next = cvar.rounds \div 2 + 1
    IN  /\ winner' = winner
        /\ IF counted /\ IsLastRound
           THEN /\ score' = AddScore(t, pts)
                /\ GoToIntermission(l)
                /\ UNCHANGED <<round, restarting, fresh, playerVars, owner>>
           ELSE /\ round' = next
                /\ restarting' = FALSE
                /\ gameOver' = gameOver
                /\ RestartRound(swap, cycle, AddScore(t, pts),
                       [l EXCEPT !["restart"] = IF swap THEN RestartDelay ELSE 1])
-------------------------------------------------------------------------------
(***************************************************************************)
(* A new map: the constructors of CHL2MPRules, CTeam and CHL2MP_Player.    *)
(***************************************************************************)
FreshDeadlines(c) ==
    [k \in Deadlines |-> CASE k = "round" -> RoundTime
                           [] k = "wave"  -> RespawnTime
                           [] k = "flags" -> FlagInterval
                           [] k = "map"   -> c.timelimit
                           [] OTHER       -> Expired]

Init ==
    /\ cvar \in Settings
    /\ stage = "idle"
    /\ left = FreshDeadlines(cvar)
    /\ gameOver = FALSE
    /\ round = 1
    /\ score = [t \in Teams |-> 0]
    /\ restarting = FALSE
    /\ winner = Nobody
    /\ team = [p \in Players |-> Nobody]
    /\ alive = {}
    /\ freeSpawn = Players
    /\ tickets = [t \in Teams |-> 0]
    /\ fraction = [t \in Teams |-> 0]
    /\ owner = StartOwner
    /\ fresh = FALSE

ChangeLevel ==
    /\ cvar' \in Settings
    /\ left' = FreshDeadlines(cvar')
    /\ gameOver' = FALSE
    /\ round' = 1
    /\ score' = [t \in Teams |-> 0]
    /\ restarting' = FALSE
    /\ winner' = Nobody
    /\ team' = [p \in Players |-> Nobody]
    /\ alive' = {}
    /\ freeSpawn' = Players
    /\ tickets' = [t \in Teams |-> 0]
    /\ fraction' = [t \in Teams |-> 0]
    /\ owner' = StartOwner
    /\ fresh' = FALSE
-------------------------------------------------------------------------------
(***************************************************************************)
(* Think.                                                                  *)
(***************************************************************************)
TimeUp == cvar.rounds = 0 /\ cvar.timelimit > 0 /\ Passed["map"] < 0

\* A frame after the match: wait for the end of the intermission.
ThinkGameOver ==
    /\ stage = "idle" /\ gameOver
    /\ stage' = "idle"
    /\ IF Passed["intermission"] < 0
       THEN ChangeLevel
       ELSE left' = Passed /\ UNCHANGED <<cvar, matchVars, playerVars, owner>>

\* A frame in which the time limit of a match without rounds has passed.
ThinkTimeUp ==
    /\ stage = "idle" /\ ~gameOver /\ TimeUp
    /\ stage' = "idle"
    /\ GoToIntermission(Passed)
    /\ UNCHANGED <<cvar, round, score, restarting, winner, fresh, playerVars, owner>>

ThinkStart ==
    /\ stage = "idle" /\ ~gameOver /\ ~TimeUp
    /\ stage' = "flags"
    /\ left' = Passed
    /\ UNCHANGED <<cvar, matchVars, playerVars, owner>>

\* RemoveTickets(number), in half tickets
RemoveTickets(T) ==
    LET due(t) == Drain[t] + fraction[t]
        gone(t) == due(t) \div 2 >= tickets[t]
    IN  /\ tickets' = [t \in Teams |-> IF t \notin T THEN tickets[t]
                                       ELSE IF gone(t) THEN 0
                                       ELSE tickets[t] - due(t) \div 2]
        /\ fraction' = [t \in Teams |-> IF t \notin T THEN fraction[t]
                                        ELSE IF gone(t) THEN 0
                                        ELSE due(t) % 2]

\* CheckTicketDrain or CheckFullcap
ThinkFlags ==
    /\ stage = "flags"
    /\ stage' = "balance"
    /\ cvar' = cvar
    /\ LET l == [left EXCEPT !["flags"] = FlagInterval]
           verdict == FullcapVerdict(owner)
       IN  IF left["flags"] > 0
           THEN UNCHANGED <<left, matchVars, playerVars, owner>>
           ELSE IF UsingTickets
           THEN /\ left' = l
                /\ RemoveTickets(Drained(owner))
                /\ UNCHANGED <<matchVars, team, alive, freeSpawn, owner>>
           ELSE IF verdict \in Teams
           THEN HandleScores(verdict, WinBonus, FALSE, l)
           ELSE left' = l /\ UNCHANGED <<matchVars, playerVars, owner>>

\* AutobalanceTeams: one member of the bigger team, unless it is alive.
ThinkBalance ==
    /\ stage = "balance"
    /\ stage' = "gameReset"
    /\ UNCHANGED <<cvar, matchVars, owner>>
    /\ LET size(t) == Cardinality(Members(t))
           bigger == IF size(Americans) > size(British) THEN Americans ELSE British
       IN  IF cvar.balance /\ size(bigger) - size(Other(bigger)) >= Tolerance
           THEN \E p \in Members(bigger) :
                   IF p \in alive THEN UNCHANGED <<left, playerVars>>
                                  ELSE ForceJoin(p, Other(bigger))
           ELSE UNCHANGED <<left, playerVars>>

\* RestartGame, when sv_restartmap is due
ThinkGameReset ==
    /\ stage = "gameReset"
    /\ stage' = "roundReset"
    /\ UNCHANGED <<cvar, gameOver, restarting, winner>>
    /\ IF left["gameReset"] = 0
       THEN /\ round' = 1
            /\ RestartRound(FALSE, TRUE, [t \in Teams |-> 0],
                   [left EXCEPT !["gameReset"] = Expired, !["map"] = cvar.timelimit])
       ELSE UNCHANGED <<left, round, score, fresh, playerVars, owner>>

\* RestartRound(false), when sv_restartround is due
ThinkRoundReset ==
    /\ stage = "roundReset"
    /\ stage' = "wave"
    /\ UNCHANGED <<cvar, gameOver, round, restarting, winner>>
    /\ IF left["roundReset"] = 0
       THEN RestartRound(FALSE, TRUE, score, [left EXCEPT !["roundReset"] = Expired])
       ELSE UNCHANGED <<left, score, fresh, playerVars, owner>>

(***************************************************************************)
(* RespawnWave goes down each team's list of players and stops when the    *)
(* team has no ticket left.  The order of the list is not modelled: any    *)
(* of the players may be the ones it reaches.                              *)
(***************************************************************************)
Wave(t) ==
    LET dead == Members(t) \ alive
    IN  IF ~UsingTickets THEN {dead}
        ELSE IF tickets[t] = 0 THEN {{}}
        ELSE {S \in SUBSET dead :
                /\ Cardinality(Pays(S)) <= tickets[t]
                /\ S # dead => Cardinality(Pays(S)) = tickets[t]}

ThinkWave ==
    /\ stage = "wave"
    /\ stage' = "roundEnd"
    /\ UNCHANGED <<cvar, matchVars, team, owner>>
    /\ IF cvar.style \in {"skirmish", "tickets"} /\ left["wave"] <= 0
       THEN \E A \in Wave(Americans), B \in Wave(British) :
               /\ alive' = alive \cup A \cup B
               /\ Spawn(A \cup B, team, [left EXCEPT !["wave"] = RespawnTime])
       ELSE UNCHANGED <<left, alive, freeSpawn, tickets, fraction>>

\* CountAlivePlayersAndTickets
Strength(t) == Cardinality(Living(t)) + (IF UsingTickets THEN tickets[t] ELSE 0)

WipedOut ==
    /\ \A t \in Teams : Members(t) # {}
    /\ \E t \in Teams : Strength(t) = 0

Eliminated ==
    /\ cvar.style \in {"lms", "tickets"}
    /\ WipedOut

OnlyEliminated == Eliminated
RoundOver == (cvar.rounds > 0 /\ left["round"] <= 0) \/ Eliminated

Ahead(value(_)) ==
    IF value(Americans) > value(British) THEN Americans
    ELSE IF value(British) > value(Americans) THEN British
    ELSE Nobody

Points(t) == score[t]

ThinkRoundEnd ==
    /\ stage = "roundEnd"
    /\ stage' = "idle"
    /\ cvar' = cvar
    /\ IF RoundOver /\ ~restarting
       THEN /\ restarting' = TRUE
            /\ winner' = IF cvar.style = "skirmish" THEN Ahead(Points) ELSE Ahead(Strength)
            /\ left' = [left EXCEPT !["restart"] = RestartDelay]
            /\ fresh' = TRUE
            /\ UNCHANGED <<gameOver, round, score, playerVars, owner>>
       ELSE IF RoundOver /\ left["restart"] < 0
       THEN HandleScores(winner, IF winner \in Teams THEN 1 ELSE 0, TRUE, left)
       ELSE /\ fresh' = (fresh /\ RoundOver)
            /\ UNCHANGED <<left, gameOver, round, score, restarting, winner, playerVars, owner>>

Think ==
    \/ ThinkGameOver \/ ThinkTimeUp
    \/ ThinkStart \/ ThinkFlags \/ ThinkBalance \/ ThinkGameReset
    \/ ThinkRoundReset \/ ThinkWave \/ ThinkRoundEnd
-------------------------------------------------------------------------------
(***************************************************************************)
(* What happens between two frames.                                        *)
(***************************************************************************)
ScoreRoom == \A t \in Teams : score[t] + WinBonus <= MaxScore

\* PlayerMayJoinTeam, without bots to make room
MayJoin(p, to) ==
    LET size(t) == Cardinality(Members(t) \ {p})
    IN  \/ to = Spectators
        \/ ~cvar.balance
        \/ size(to) < size(Other(to))
        \/ size(to) = size(Other(to)) /\ to = Americans
        \/ size(to) - size(Other(to)) + 1 < Tolerance

JoinTeam(p, to) ==
    /\ stage = "idle"
    /\ team[p] # to
    /\ MayJoin(p, to)
    /\ ForceJoin(p, to)
    /\ UNCHANGED <<cvar, stage, matchVars, owner>>

Die(p) ==
    /\ stage = "idle"
    /\ p \in alive
    /\ ScoreRoom
    /\ alive' = alive \ {p}
    /\ UNCHANGED <<cvar, stage, left, matchVars, team, freeSpawn, tickets, fraction, owner>>

\* The slay command, which a player who has just killed himself survives.
Slay(p) ==
    /\ stage = "idle"
    /\ cvar.admin
    /\ p \in alive
    /\ ScoreRoom
    /\ alive' \in {alive, alive \ {p}}
    /\ freeSpawn' = freeSpawn \cup {p}
    /\ UNCHANGED <<cvar, stage, left, matchVars, team, tickets, fraction, owner>>

Disconnect(p) ==
    /\ stage = "idle"
    /\ team[p] # Nobody
    /\ team' = [team EXCEPT ![p] = Nobody]
    /\ alive' = alive \ {p}
    /\ freeSpawn' = freeSpawn \cup {p}
    /\ UNCHANGED <<cvar, stage, left, matchVars, tickets, fraction, owner>>

\* CFlag::Capture and MarkFullcapCheckNextFrame
Capture(f, t) ==
    /\ stage = "idle"
    /\ cvar.style # "lms"
    /\ ~gameOver
    /\ ScoreRoom
    /\ owner[f] # t /\ t \in ForTeam[f]
    /\ Living(t) # {}
    /\ owner' = [owner EXCEPT ![f] = t]
    /\ score' = IF UsingTickets THEN score ELSE AddScore(t, FlagBonus)
    /\ left' = IF UsingTickets THEN left ELSE [left EXCEPT !["flags"] = Expired]
    /\ UNCHANGED <<cvar, stage, gameOver, round, restarting, winner, fresh, playerVars>>

\* A flag is given up (CFlag::ThinkCapped).
Uncap(f) ==
    /\ stage = "idle"
    /\ owner[f] \in Teams
    /\ owner' = [owner EXCEPT ![f] = Nobody]
    /\ UNCHANGED <<cvar, stage, left, matchVars, playerVars>>

\* bg2_maptrigger's inputs: the map ends the round for a team, or as a draw.
ForceWinRound(t) ==
    /\ stage = "idle"
    /\ ScoreRoom
    /\ HandleScores(t, IF t \in Teams THEN WinBonus ELSE 0, TRUE, left)
    /\ UNCHANGED <<cvar, stage>>

\* sv_restartround and sv_restartmap, set to one second.
AskRestart(k) ==
    /\ stage = "idle" /\ ~gameOver
    /\ cvar.admin
    /\ left' = [left EXCEPT ![k] = 2]
    /\ UNCHANGED <<cvar, stage, matchVars, playerVars, owner>>

Event ==
    \/ \E p \in Players :
          \/ \E to \in Teams \cup {Spectators} : JoinTeam(p, to)
          \/ Die(p) \/ Slay(p) \/ Disconnect(p)
    \/ \E f \in Flags : Uncap(f) \/ \E t \in Teams : Capture(f, t)
    \/ \E t \in Teams \cup {Nobody} : ForceWinRound(t)
    \/ \E k \in {"gameReset", "roundReset"} : AskRestart(k)

Next == Think \/ Event

Spec == Init /\ [][Next]_vars

\* The engine runs a frame again and again.
FairSpec == Spec /\ WF_vars(Think)
-------------------------------------------------------------------------------
(***************************************************************************)
(* Properties.                                                             *)
(***************************************************************************)
Stages == {"idle", "flags", "balance", "gameReset", "roundReset", "wave", "roundEnd"}

\* The type of every variable; only players of a playing team are alive.
TypeOK ==
    /\ cvar \in Settings
    /\ stage \in Stages
    /\ left \in [Deadlines -> Nat \cup {Expired}]
    /\ gameOver \in BOOLEAN /\ restarting \in BOOLEAN /\ fresh \in BOOLEAN
    /\ round \in Nat \ {0}
    /\ score \in [Teams -> Nat]
    /\ winner \in Teams \cup {Nobody}
    /\ team \in [Players -> Teams \cup {Spectators, Nobody}]
    /\ alive \subseteq Playing
    /\ freeSpawn \subseteq Players
    /\ tickets \in [Teams -> Nat]
    /\ fraction \in [Teams -> 0..1]
    /\ owner \in [Flags -> Teams \cup {Nobody}]

(***************************************************************************)
(* hl2mp_gamerules.h:249, "1-based, so runs from 1 up to mp_rounds": every *)
(* way to end a round (clock, elimination, map trigger, both in one frame) *)
(* leaves the round number within the match.                               *)
(***************************************************************************)
RoundInRange == cvar.rounds > 0 => round \in 1..cvar.rounds

(***************************************************************************)
(* When a round gives way to the next one, with or without a change of     *)
(* sides, the players of a team stay together, keep the points their team  *)
(* had, and at most one of the two sides gains: after a verdict, the side  *)
(* that won the round (HandleScores, SwapTeams).                           *)
(***************************************************************************)
Gain(p) == score'[team'[p]] - score[team[p]]

PointsFollowPlayers ==
    [][round' > round =>
          \A p, q \in Playing :
             /\ team[p] = team[q] <=> team'[p] = team'[q]
             /\ Gain(p) \in {0, 1, WinBonus}
             /\ stage = "roundEnd" /\ Gain(p) > 0 => team[p] = winner
             /\ team[p] # team[q] => 0 \in {Gain(p), Gain(q)}]_vars

(***************************************************************************)
(* The point a round ends with goes to the team that was ahead at that end *)
(* ("this block of code only happens once, at the end of the round" ...    *)
(* "calculate the winning team", hl2mp_gamerules.cpp:988), where rounds    *)
(* end by the clock alone and are not restarted.                           *)
(***************************************************************************)
EndedByClock == \A c \in Settings : c.style = "skirmish" /\ ~c.admin

VerdictIsFresh ==
    [][stage = "roundEnd" /\ RoundOver /\ restarting /\ left["restart"] < 0 => fresh]_vars

(***************************************************************************)
(* A full cap goes to a team that holds every flag that counts for it      *)
(* (CountHeldFlags: "1 = Americans Fullcap, 2 = Brits Fullcap"), where the *)
(* flags that count at all count for whoever may hold them.                *)
(***************************************************************************)
CountForHolders ==
    \A f \in Flags, t \in Teams :
        FullCap[f] # {} /\ (t \in ForTeam[f] \/ t = StartOwner[f])
            => t \in ForTeam[f] \cap FullCap[f]

FullcapIsEarned ==
    [][stage = "flags" /\ ~UsingTickets =>
          \A t \in Teams : score'[t] > score[t] =>
             MeantFor(t, FALSE) # {} /\ \A f \in MeantFor(t, FALSE) : owner[f] = t]_vars

\* RoundControl keeps what Match promises.
Promise == INSTANCE Match WITH
    Rounds <- {c.rounds : c \in Settings},
    Bonus  <- {0, 1, WinBonus, FlagBonus},
    limit  <- cvar.rounds,
    phase  <- IF gameOver THEN "over" ELSE IF restarting THEN "verdict" ELSE "play"

MatchPromise == Promise!Spec

(***************************************************************************)
(* Matches with rounds keep ending, and the next map keeps coming, however *)
(* the players die, join and leave: no elimination that is undone, verdict *)
(* that is left behind or ticket that runs out keeps the rounds from       *)
(* ending.  (Full caps may prolong a skirmish, admins any match.)          *)
(***************************************************************************)
Untended == cvar.rounds > 0 /\ cvar.style # "skirmish" /\ ~cvar.admin

MatchEnds ==
    /\ []<>(Untended => gameOver)
    /\ []<>~gameOver
===============================================================================
