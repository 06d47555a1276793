---------------------------- MODULE PlayerScores ----------------------------
(***************************************************************************)
(* The scores of the players: what earns points, the entries kept for      *)
(* those who leave (NScorePreserve, server/bg3/bg3_scorepreserve.cpp),     *)
(* the mutes that are kept with them, the ranks of the gun game            *)
(* (server/bg3_gungame.cpp) and the winner that is announced               *)
(* (shared/hl2mp/hl2mp_gamerules.cpp).                                     *)
(*                                                                         *)
(* A player is an account and, on this server, an entity index.  Whether   *)
(* he is alive is left open.  Points and damage are counted in units, for  *)
(* a flag or a kill and for a hundred points of damage, far from the       *)
(* limits of a short.  Gags and oppressions are kept as mutes are.         *)
(***************************************************************************)
EXTENDS Integers, Sequences, FiniteSets, SequencesExt, Teams

CONSTANTS
    Players,        \* entity indices
    MaxClients,
    NumKits,        \* GetNumGunKits()
    PreserveTime,   \* sv_preserve_score_time
    Rules,
    MaxFrags, MaxCredit, MaxDamage, MaxSaved, MaxClock  \* bounds

ASSUME NumberAssumption ==
    /\ {MaxClients, NumKits} \subseteq Nat \ {0}
    /\ {PreserveTime, MaxFrags, MaxCredit, MaxDamage, MaxSaved, MaxClock} \subseteq Nat
    /\ Players \subseteq 1..MaxClients
    /\ NumKits < MaxFrags

ASSUME RuleAssumption ==
    Rules \subseteq
        [mode : {"teams", "ffa", "gungame"},    \* IsFFA, g_bGunGameActive
         accounts : SUBSET Players,             \* who plays on the server
         known : SUBSET Players,                \* who has a Steam id; bots have none
         spectators : BOOLEAN,                  \* mp_allowspectators
         admin : SUBSET {"mutes", "restarts"}]  \* what an admin does

VARIABLES
    rules,
    here,           \* the connected players
    team,           \* Nobody: unassigned
    frags,          \* m_iFrags
    damage,         \* m_iDamageScore
    kit,            \* m_iGunGameKit
    muted,          \* m_bMuted
    saved,          \* g_scores
    clock,          \* gpGlobals->curtime
    over,           \* g_fGameOver
    winner,         \* the player announced as the winner; 0: none yet
    \* history, by account
    credit,         \* the points earned since they were last set to zero
    lapsed,         \* those who have lost an entry since, or left without one
    sentence,       \* those an admin muted: until he unmutes them, the map or the entry ends
    astray,         \* those who left, or met the admin, before they joined a team
    ranks,          \* the ranks gained in the gun game since it began
    champion        \* who used the last kit; 0: nobody

scoreVars == <<frags, damage, kit>>
storeVars == <<muted, saved>>
historyVars == <<credit, lapsed, sentence, astray, ranks, champion>>
vars == <<rules, here, team, scoreVars, storeVars, clock, over, winner, historyVars>>

Entry == [id : Players, score : 0..MaxFrags, damage : -MaxDamage..MaxDamage,
          muted : BOOLEAN, until : 0..MaxClock + PreserveTime]

Playing(p) == p \in here /\ team[p] \in Teams
NobodyYet == [p \in Players |-> 0]
-------------------------------------------------------------------------------
Init ==
    /\ rules \in Rules
    /\ here = {}
    /\ team = [p \in Players |-> Nobody]
    /\ frags = NobodyYet /\ damage = NobodyYet /\ kit = NobodyYet
    /\ muted = {}
    /\ saved = <<>>
    /\ clock = 0 /\ over = FALSE /\ winner = 0
    /\ credit = NobodyYet /\ lapsed = {} /\ sentence = {} /\ astray = {}
    /\ ranks = NobodyYet /\ champion = 0
-------------------------------------------------------------------------------
(***************************************************************************)
(* NScorePreserve.                                                         *)
(***************************************************************************)
EntriesOf(p) == {i \in DOMAIN saved : saved[i].id = p}

\* The first entry of p is erased.
EraseNothing(p) == saved
EraseEntry(p) == RemoveAt(saved, CHOOSE i \in EntriesOf(p) : \A j \in EntriesOf(p) : i <= j)

\* NotifyConnected, for a player who has points f and damage d
Restore(p, f, d) ==
    IF d # 0 \/ p \notin rules.known \/ EntriesOf(p) = {}
    THEN /\ frags' = [frags EXCEPT ![p] = f]
         /\ damage' = [damage EXCEPT ![p] = d]
         /\ UNCHANGED storeVars
    ELSE \E i \in EntriesOf(p) :
            /\ \A j \in EntriesOf(p) : i <= j
            /\ f + saved[i].score <= MaxFrags
            /\ frags' = [frags EXCEPT ![p] = f + saved[i].score]
            /\ damage' = [damage EXCEPT ![p] = saved[i].damage]
            /\ muted' = IF saved[i].muted THEN muted \cup {p} ELSE muted \ {p}
            /\ saved' = EraseEntry(p)

\* NotifyDisconnected
EntryOf(p) ==
    [id |-> p, score |-> frags[p], damage |-> damage[p],
     muted |-> p \in muted, until |-> clock + PreserveTime]
SaveInFront(p) == <<EntryOf(p)>> \o saved
Save(p) == Append(saved, EntryOf(p))

\* Flush, which keeps the mutes, in their order
IsScored(e) == e.score > 0
IsMute(e) == e.muted
WithoutScore(e) == [e EXCEPT !.score = 0, !.damage = 0]
Mutes == {i \in DOMAIN saved : IsMute(saved[i])}
Flush ==
    \E f \in [1..Cardinality(Mutes) -> Mutes] :
        /\ \A i, j \in DOMAIN f : i < j => f[i] < f[j]
        /\ saved' = [k \in DOMAIN f |-> WithoutScore(saved[f[k]])]

\* Think: the first entries go, up to one whose time has not come.
Current == {i \in DOMAIN saved : saved[i].until >= clock}
Expired == {i \in DOMAIN saved : \A j \in Current : i < j}

Expire ==
    /\ ~over /\ Expired # {}
    /\ saved' = SubSeq(saved, Cardinality(Expired) + 1, Len(saved))
    /\ lapsed' = lapsed \cup {saved[i].id : i \in Expired}
    /\ sentence' = sentence \ {saved[i].id : i \in Expired}
    /\ UNCHANGED <<rules, here, team, scoreVars, muted, clock, over, winner,
                   credit, astray, ranks, champion>>

Tick ==
    /\ clock < MaxClock
    /\ clock' = clock + 1
    /\ UNCHANGED <<rules, here, team, scoreVars, storeVars, over, winner, historyVars>>
-------------------------------------------------------------------------------
(***************************************************************************)
(* Coming, choosing a team, going.                                         *)
(***************************************************************************)
\* A new CHL2MP_Player: what an account that is not here has is zero.
Connect(p) ==
    /\ p \in rules.accounts \ here
    /\ here' = here \cup {p}
    /\ UNCHANGED <<rules, team, scoreVars, storeVars, clock, over, winner, historyVars>>

\* The damage score of a player whom a change of teams may kill
Suicided(p, t) == IF team[p] \in Teams \ {t} THEN {damage[p] - 1, damage[p]} ELSE {damage[p]}

\* ForceJoin: the player changes his team, or his class.
Join(p, t) ==
    /\ p \in here
    /\ team' = [team EXCEPT ![p] = t]
    /\ \E d \in Suicided(p, t) : -MaxDamage <= d /\ Restore(p, frags[p], d)
    /\ UNCHANGED <<rules, here, kit, clock, over, winner, historyVars>>

\* HandleCommand_JoinTeam: who is alive when he leaves his team is given a point.
Spectate(p) ==
    /\ rules.spectators
    /\ p \in here /\ team[p] # Spectators
    /\ team' = [team EXCEPT ![p] = Spectators]
    /\ \/ Restore(p, frags[p], damage[p])
       \/ /\ Playing(p)
          /\ frags[p] < MaxFrags /\ -MaxDamage < damage[p]
          /\ Restore(p, frags[p] + 1, damage[p] - 1)
    /\ UNCHANGED <<rules, here, kit, clock, over, winner, historyVars>>

\* ClientDisconnected, which the intermission skips
Disconnect(p) ==
    /\ p \in here
    /\ here' = here \ {p}
    /\ IF over \/ p \notin rules.known
       THEN saved' = saved /\ lapsed' = lapsed \cup {p} /\ sentence' = sentence \ {p}
       ELSE Len(saved) < MaxSaved /\ saved' = Save(p) /\ UNCHANGED <<lapsed, sentence>>
    /\ astray' = IF team[p] = Nobody THEN astray \cup {p} ELSE astray
    /\ team' = [team EXCEPT ![p] = Nobody]
    /\ frags' = [frags EXCEPT ![p] = 0]
    /\ damage' = [damage EXCEPT ![p] = 0]
    /\ kit' = [kit EXCEPT ![p] = 0]
    /\ ranks' = [ranks EXCEPT ![p] = 0]
    /\ muted' = muted \ {p}
    /\ UNCHANGED <<rules, clock, over, winner, credit, champion>>

\* The commands mute and unmute
Punish(p, on) ==
    /\ "mutes" \in rules.admin /\ p \in here
    /\ muted' = IF on THEN muted \cup {p} ELSE muted \ {p}
    /\ sentence' = IF on THEN sentence \cup {p} ELSE sentence \ {p}
    /\ astray' = IF team[p] = Nobody THEN astray \cup {p} ELSE astray
    /\ UNCHANGED <<rules, here, team, scoreVars, saved, clock, over, winner,
                   credit, lapsed, ranks, champion>>
-------------------------------------------------------------------------------
(***************************************************************************)
(* Points.  Flags are off in the gun game and in a free-for-all.           *)
(***************************************************************************)
Earn(p) ==
    /\ frags[p] < MaxFrags /\ credit[p] < MaxCredit
    /\ frags' = [frags EXCEPT ![p] = @ + 1]
    /\ credit' = [credit EXCEPT ![p] = @ + 1]

CaptureFlag(p) ==
    /\ ~over /\ Playing(p) /\ rules.mode = "teams"
    /\ Earn(p)
    /\ UNCHANGED <<rules, here, team, damage, kit, storeVars, clock, over, winner,
                   lapsed, sentence, astray, ranks, champion>>

\* Hitting others, or one's own, and suicides
Hit(p, d) ==
    /\ ~over /\ Playing(p)
    /\ damage[p] + d \in -MaxDamage..MaxDamage
    /\ damage' = [damage EXCEPT ![p] = @ + d]
    /\ UNCHANGED <<rules, here, team, frags, kit, storeVars, clock, over, winner, historyVars>>

\* PlayerKilled outside the gun game
Kill(a, v) ==
    /\ ~over /\ rules.mode # "gungame"
    /\ a # v /\ a \in here /\ team[a] # Nobody /\ Playing(v)
    /\ Earn(a)
    /\ UNCHANGED <<rules, here, team, damage, kit, storeVars, clock, over, winner,
                   lapsed, sentence, astray, ranks, champion>>

(***************************************************************************)
(* PlayerKilled in the gun game: the killer gains a rank, and one more     *)
(* point from CMultiplayRules; a bottle costs the victim a rank; the last  *)
(* kit ends the match.                                                     *)
(***************************************************************************)
OneLessAlways(k) == k - 1
OneLess(k) == IF k > 0 THEN k - 1 ELSE 0

RankUp(a, v, bottle) ==
    LET rank == kit[a] + 1 IN
    /\ ~over /\ rules.mode = "gungame"
    /\ a # v /\ a \in here /\ team[a] # Nobody /\ Playing(v)
    /\ IF rank >= NumKits
       THEN /\ kit' = [kit EXCEPT ![a] = NumKits - 1]
            /\ frags' = [frags EXCEPT ![a] = rank + 1]
            /\ over' = TRUE /\ champion' = a
       ELSE /\ kit' = [kit EXCEPT ![a] = rank, ![v] = IF bottle THEN OneLess(@) ELSE @]
            /\ frags' = [frags EXCEPT ![a] = rank + 2,
                                      ![v] = IF bottle THEN OneLess(kit[v]) + 1 ELSE @]
            /\ UNCHANGED <<over, champion>>
    /\ ranks' = [ranks EXCEPT ![a] = IF @ < NumKits THEN @ + 1 ELSE @]
    /\ UNCHANGED <<rules, here, team, damage, storeVars, clock, winner,
                   credit, lapsed, sentence, astray>>
-------------------------------------------------------------------------------
(***************************************************************************)
(* The match.                                                              *)
(***************************************************************************)
\* ResetGunKitsOnPlayers goes through the indices below maxClients.
InGunGameButLast(p) == rules.mode = "gungame" /\ p \in here /\ p < MaxClients - 1
InGunGame(p) == rules.mode = "gungame" /\ p \in here /\ p < MaxClients

RestartGame ==
    /\ "restarts" \in rules.admin /\ ~over
    /\ Flush
    /\ damage' = [p \in Players |-> IF Playing(p) THEN 0 ELSE damage[p]]
    /\ frags' = [p \in Players |-> IF InGunGame(p) THEN 1 ELSE IF Playing(p) THEN 0 ELSE frags[p]]
    /\ kit' = [p \in Players |-> IF InGunGame(p) THEN 0 ELSE kit[p]]
    /\ credit' = [p \in Players |-> IF p \in here THEN frags'[p] ELSE 0]
    /\ ranks' = NobodyYet
    /\ lapsed' = {}
    /\ UNCHANGED <<rules, here, team, muted, clock, over, winner, sentence, astray, champion>>

\* GoToIntermission, at the end of the time
EndMatch ==
    /\ ~over
    /\ over' = TRUE
    /\ UNCHANGED <<rules, here, team, scoreVars, storeVars, clock, winner, historyVars>>

(***************************************************************************)
(* Think in the intermission looks for the winner: the first player, and   *)
(* the next one if the winner so far has more points than maxScore, which  *)
(* is always what he has.                                                  *)
(***************************************************************************)
First == CHOOSE p \in here : \A q \in here : p <= q

Announce ==
    /\ over /\ winner = 0 /\ here # {} /\ rules.mode # "teams"
    /\ winner' = First
    /\ UNCHANGED <<rules, here, team, scoreVars, storeVars, clock, over, historyVars>>

\* LevelInit: the clock starts anew, and every player is a new one.
ChangeLevel ==
    /\ over
    /\ here' = {}
    /\ team' = [p \in Players |-> Nobody]
    /\ frags' = NobodyYet /\ damage' = NobodyYet /\ kit' = NobodyYet
    /\ muted' = {}
    /\ Flush
    /\ clock' = 0 /\ over' = FALSE /\ winner' = 0
    /\ credit' = NobodyYet /\ lapsed' = {} /\ sentence' = sentence \ {p \in here : EntriesOf(p) = {}}
    /\ ranks' = NobodyYet /\ champion' = 0
    /\ UNCHANGED <<rules, astray>>

Next ==
    \/ \E p \in Players :
          \/ Connect(p) \/ Spectate(p) \/ Disconnect(p) \/ CaptureFlag(p)
          \/ \E t \in Teams : Join(p, t)
          \/ \E on \in BOOLEAN : Punish(p, on)
          \/ \E d \in {-1, 1} : Hit(p, d)
          \/ \E v \in Players :
                Kill(p, v) \/ \E bottle \in BOOLEAN : RankUp(p, v, bottle)
    \/ Tick \/ Expire \/ RestartGame \/ EndMatch \/ Announce \/ ChangeLevel

Spec == Init /\ [][Next]_vars
-------------------------------------------------------------------------------
(***************************************************************************)
(* Properties.                                                             *)
(***************************************************************************)
\* The type of every variable; a kit that exists is in everyone's hands.
TypeOK ==
    /\ rules \in Rules
    /\ here \subseteq Players
    /\ team \in [Players -> Teams \cup {Spectators, Nobody}]
    /\ frags \in [Players -> 0..MaxFrags]
    /\ damage \in [Players -> -MaxDamage..MaxDamage]
    /\ kit \in [Players -> 0..NumKits - 1]
    /\ muted \subseteq Players
    /\ saved \in Seq(Entry) /\ Len(saved) <= MaxSaved
    /\ clock \in 0..MaxClock /\ over \in BOOLEAN
    /\ winner \in Players \cup {0} /\ champion \in Players \cup {0}
    /\ credit \in [Players -> Nat]
    /\ {lapsed, sentence, astray} \subseteq SUBSET Players
    /\ ranks \in [Players -> 0..NumKits]

(***************************************************************************)
(* However often a player comes and goes and changes his class, what he    *)
(* has and what is kept for him are together what he earned: nothing is    *)
(* counted twice, and nothing lost before its time ("Stores the player's   *)
(* score for potential later restoration", bg3_scorepreserve.cpp:109).     *)
(***************************************************************************)
Kept(p) == Cardinality({x \in EntriesOf(p) \X (1..MaxFrags) : x[2] <= saved[x[1]].score})
Owned(p) == (IF p \in here THEN frags[p] ELSE 0) + Kept(p)

ScoreIsPreserved ==
    ~rules.spectators /\ rules.mode # "gungame" =>
        \A p \in Players :
            Owned(p) <= credit[p] /\ (p \notin lapsed => Owned(p) = credit[p])

(***************************************************************************)
(* A player on a team is muted if and only if an admin wants him to be     *)
(* ("preserve mutes", bg3_scorepreserve.cpp:134), although he may have     *)
(* left and come back, and the match may have been restarted.  Not so for  *)
(* those who left, or whom the admin dealt with, before joining a team.    *)
(***************************************************************************)
MutesSurvive ==
    \A p \in Players \ astray : Playing(p) => (p \in muted <=> p \in sentence)

(***************************************************************************)
(* An entry older than sv_preserve_score_time is one that the next think   *)
(* removes ("Removes old players after their set time",                    *)
(* bg3_scorepreserve.cpp:63), unless mutes have outlived the last map.     *)
(***************************************************************************)
ForgottenOnTime ==
    "mutes" \notin rules.admin =>
        \A i \in DOMAIN saved : saved[i].until < clock => i \in Expired

(***************************************************************************)
(* Who wins the gun game has gained all its ranks since it began, ranks he *)
(* gained before a restart not included: the restart "sets them all back   *)
(* to the starting kit" (ResetGunKitsOnPlayers, bg3_gungame.h:58).         *)
(***************************************************************************)
WinIsEarned ==
    [][champion' \notin {0, champion} => ranks'[champion'] >= NumKits]_vars

(***************************************************************************)
(* So has every winner whose index is below maxClients: those are the ones *)
(* ResetGunKitsOnPlayers reaches (bg3_gungame.cpp:112), whoever else plays *)
(* and comes, goes or loses ranks meanwhile.                               *)
(***************************************************************************)
ReachedWinIsEarned ==
    [][champion' \notin {0, champion} /\ champion' < MaxClients =>
          ranks'[champion'] >= NumKits]_vars

(***************************************************************************)
(* The winner that is announced has the highest score ("find player with   *)
(* highest score", hl2mp_gamerules.cpp:806).                               *)
(***************************************************************************)
WinnerIsBest == [][Announce => \A p \in here : frags[p] <= frags[winner']]_vars
===============================================================================
