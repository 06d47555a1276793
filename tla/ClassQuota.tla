------------------------------ MODULE ClassQuota ------------------------------
(***************************************************************************)
(* Who may fight as what: the population counters, the limits and the bot  *)
(* queues of NClassQuota (shared/bg3/bg3_class_quota.cpp), and the ways    *)
(* into and out of a class (server/hl2mp/hl2mp_player.cpp).                *)
(*                                                                         *)
(* A class is a team and a number.  What a player is counted under is his  *)
(* team with the number he asked for last, so the two must never be mixed  *)
(* from different moments.                                                 *)
(***************************************************************************)
EXTENDS Teams, Integers, FiniteSets, SequencesExt

CONSTANTS
    Humans,
    Bots,
    NumClasses,     \* numClassesForTeam
    Limits,         \* what mp_limit_<class>_<team>_<size> may be on a map
    MapsizeLow,     \* mp_limit_mapsize_low
    MapsizeHigh,    \* mp_limit_mapsize_high
    Balance,        \* mp_autobalanceteams
    Tolerance,      \* mp_autobalancetolerance
    MaxRemovals,    \* bound: no joining while a class has as many bots to remove
    MaxPopulation   \* bound: no unnoticed leaving from a class with as many players

Players == Humans \cup Bots
Numbers == 0 .. NumClasses - 1
Classes == Teams \X Numbers
Sizes == {"sml", "med", "lrg"}

Infantry == 0           \* CLASS_INFANTRY
NoNumber == -1
BotsPerClass == 2       \* MAX_NUM_BOTS_PER_CLASS

ASSUME PlayerAssumption == IsFiniteSet(Players) /\ Humans \cap Bots = {}
ASSUME ClassAssumption ==
    /\ NumClasses \in Nat \ {0}
    /\ Limits \subseteq [Sizes -> [Classes -> Int]]
ASSUME NumberAssumption ==
    /\ {MapsizeLow, MapsizeHigh, Tolerance, MaxRemovals, MaxPopulation} \subseteq Nat
    /\ Balance \in BOOLEAN

VARIABLES
    limit,      \* the limits of the current map
    gameOver,   \* g_fGameOver
    connected,  \* the clients that have a player
    team,       \* GetTeamNumber()
    next,       \* m_iNextClass; NoNumber for one who is on no playing team
    total,      \* m_iTotalPopulation of each class
    bots,       \* m_iBotPopulation
    future,     \* g_qFutureBotClasses
    removals,   \* how often g_qRemoveBotClasses contains each class
    pending,    \* the player for whom a bot has just made room, and his class;
                \* then, for JoinsKeepBalance only, how much bigger than the
                \* other the team was when he asked for it
    alive,      \* the bots that are alive
    awake,      \* the bots whose thinker is not BotThinkers::Death
    cur         \* m_pCurClass of the bots

counters == <<total, bots, future, removals>>
minds == <<alive, awake, cur>>
vars == <<limit, gameOver, connected, team, next, counters, pending, minds>>

NoOne == <<>>
Clients == Cardinality(connected)
Members(t) == {p \in Players : team[p] = t}
Gap(t) == Cardinality(Members(t)) - Cardinality(Members(Other(t)))

\* GetNextPlayerClass, for a player on a playing team
NextClass(p) == <<team[p], next[p]>>
In(c) == {p \in Players : NextClass(p) = c}

\* NumRealPlayers
Real(c) == total[c] - bots[c]

\* GetLimitForClass, with n clients
Limit(c, n) ==
    limit[IF n <= MapsizeLow THEN "sml" ELSE IF n <= MapsizeHigh THEN "med" ELSE "lrg"][c]

\* The lists of infinite classes are made when nobody is connected yet.
Infinite == {c \in Classes : limit["sml"][c] < 0}
InfiniteClassesForTeam(t) == {c \in Infinite : c[1] = IF t = Americans THEN t ELSE British}

FindInfiniteClassForTeam(t, n) ==
    LET free == {k \in Numbers : Limit(<<t, k>>, n) < 0}
    IN  <<t, IF free = {} THEN Infantry ELSE Min(free)>>
-------------------------------------------------------------------------------
(***************************************************************************)
(* NotifyPlayerChangedTeamClass: p leaves the class he is counted under    *)
(* and is counted under c, if t is a playing team.  r is the value of      *)
(* removals before, n the number of clients.                               *)
(***************************************************************************)
Counted(p) == team[p] \in Teams

\* Had m_iNextClass been assigned already, the class would be another one.
LeavingTooLate(p, c) == <<team[p], IF c[2] \in Numbers THEN c[2] ELSE next[p]>>
Leaving(p, c) == NextClass(p)

\* RemovePlayer
TotalWithout(p, c) == IF Counted(p) THEN [total EXCEPT ![Leaving(p, c)] = @ - 1] ELSE total
AnyoneLeaves(p, c) == IF Counted(p) THEN [bots EXCEPT ![Leaving(p, c)] = @ - 1] ELSE bots
BotsWithout(p, c) ==
    IF Counted(p) /\ p \in Bots THEN [bots EXCEPT ![Leaving(p, c)] = @ - 1] ELSE bots

\* CheckBotAddClass(old), with the counters tot and bot
WithOffer(q, old, tot, bot, n) ==
    IF tot[old] < Limit(old, n) /\ bot[old] < BotsPerClass /\ old \notin Infinite
    THEN Append(q, old) ELSE q

FutureWithout(p, c, n) ==
    IF Counted(p)
    THEN WithOffer(future, Leaving(p, c), TotalWithout(p, c), BotsWithout(p, c), n)
    ELSE future

KeepOffer(q, c) == q
TakeOffer(q, c) == RemoveFirst(q, c)

Notify(p, c, t, r, n) ==
    LET tot == TotalWithout(p, c)
        bot == BotsWithout(p, c)
        joins == t \in Teams
        surplus == joins /\ tot[c] + 1 > Limit(c, n) /\ c \notin Infinite
    IN  /\ total' = IF joins THEN [tot EXCEPT ![c] = @ + 1] ELSE tot
        /\ bots' = IF joins /\ p \in Bots THEN [bot EXCEPT ![c] = @ + 1] ELSE bot
        /\ future' = IF joins THEN TakeOffer(FutureWithout(p, c, n), c)
                              ELSE FutureWithout(p, c, n)
        /\ removals' = IF surplus THEN [r EXCEPT ![c] = @ + 1] ELSE r

(***************************************************************************)
(* ForceJoin.  A player who changes teams dies; when he spawns is left     *)
(* open.  The m_iNextClass of a spectator is never read.                   *)
(***************************************************************************)
ForceJoin(p, c, t, r, n) ==
    /\ Notify(p, c, t, r, n)
    /\ next' = [next EXCEPT ![p] = IF t \in Teams THEN c[2] ELSE NoNumber]
    /\ team' = [team EXCEPT ![p] = t]
    /\ alive' = IF team[p] = t THEN alive ELSE alive \ {p}
    /\ UNCHANGED <<limit, gameOver, cur>>
-------------------------------------------------------------------------------
(***************************************************************************)
(* A new map: NClassQuota::Init.  The order of the first offers to bots is *)
(* random.                                                                 *)
(***************************************************************************)
FirstOffers(l) ==
    LET places == {x \in Classes \X (1..BotsPerClass) : x[2] <= l["sml"][x[1]]}
    IN  {q \in [1..Cardinality(places) -> Classes] :
            \A c \in Classes : Cardinality({i \in DOMAIN q : q[i] = c})
                             = Cardinality({x \in places : x[1] = c})}

Init ==
    /\ limit \in Limits
    /\ gameOver = FALSE
    /\ connected = {}
    /\ team = [p \in Players |-> Nobody]
    /\ next = [p \in Players |-> NoNumber]
    /\ total = [c \in Classes |-> 0]
    /\ bots = [c \in Classes |-> 0]
    /\ future \in FirstOffers(limit)
    /\ removals = [c \in Classes |-> 0]
    /\ pending = NoOne
    /\ alive = {} /\ awake = {}
    /\ cur = [b \in Bots |-> <<Americans, Infantry>>]

NewMap ==
    /\ gameOver
    /\ pending = NoOne
    /\ limit' \in Limits
    /\ gameOver' = FALSE
    /\ connected' = {}
    /\ team' = [p \in Players |-> Nobody]
    /\ next' = [p \in Players |-> NoNumber]
    /\ total' = [c \in Classes |-> 0]
    /\ bots' = [c \in Classes |-> 0]
    /\ future' \in FirstOffers(limit')
    /\ removals' = [c \in Classes |-> 0]
    /\ pending' = NoOne
    /\ alive' = {} /\ awake' = {}
    /\ cur' = [b \in Bots |-> <<Americans, Infantry>>]

\* GoToIntermission
EndMatch ==
    /\ ~gameOver
    /\ pending = NoOne
    /\ gameOver' = TRUE
    /\ UNCHANGED <<limit, connected, team, next, counters, pending, minds>>
-------------------------------------------------------------------------------
Room == pending = NoOne /\ \A c \in Classes : removals[c] < MaxRemovals

Connect(p) ==
    /\ pending = NoOne
    /\ p \in Humans \ connected
    /\ connected' = connected \cup {p}
    /\ UNCHANGED <<limit, gameOver, team, next, counters, pending, minds>>

\* The size of a team for somebody who plans on leaving his.
SizeWithoutMe(p, t) == Cardinality(Members(t) \ {p})

\* PlayerMayJoinTeam: whether a bot has to make room
Crowded(p, t) ==
    LET mine == SizeWithoutMe(p, t)
        theirs == SizeWithoutMe(p, Other(t))
    IN  /\ Balance
        /\ team[p] # t
        /\ IF t = Americans THEN mine > theirs ELSE mine >= theirs
        /\ mine - theirs + 1 >= Tolerance

OverFull(c, n) == Limit(c, n) >= 0 /\ Real(c) > Limit(c, n)
Full(c, n) == Limit(c, n) >= 0 /\ Real(c) >= Limit(c, n)

\* iEnemyTeam, where the bot goes
OwnTeam(t) == t
EnemyTeam(t) == Other(t)

(***************************************************************************)
(* AttemptJoin.  If a bot has to make room it is sent to the other team    *)
(* first, as the class the player leaves or as one without limit.          *)
(***************************************************************************)
AttemptJoin(p, c) ==
    LET t == c[1]
        left == IF Counted(p) THEN NextClass(p) ELSE FindInfiniteClassForTeam(EnemyTeam(t), Clients)
    IN  /\ Room
        /\ p \in connected \cap Humans
        /\ NextClass(p) # c
        /\ ~Full(c, Clients)
        /\ IF Crowded(p, t)
           THEN \E b \in Members(t) \cap Bots :
                   /\ ForceJoin(b, left, EnemyTeam(t), removals, Clients)
                   /\ pending' = <<p, c, Gap(t)>>
           ELSE /\ ForceJoin(p, c, t, removals, Clients)
                /\ pending' = pending
        /\ UNCHANGED <<connected, awake>>

\* The rest of AttemptJoin, after a bot has made room
FinishJoin ==
    /\ pending # NoOne
    /\ ForceJoin(pending[1], pending[2], pending[2][1], removals, Clients)
    /\ pending' = NoOne
    /\ UNCHANGED <<connected, awake>>

\* HandleCommand_JoinTeam(TEAM_SPECTATOR)
Spectate(p) ==
    /\ pending = NoOne
    /\ p \in connected
    /\ team[p] # Spectators
    /\ ForceJoin(p, <<Spectators, NoNumber>>, Spectators, removals, Clients)
    /\ UNCHANGED <<connected, pending, awake>>

\* SwapPlayerTeam, amer, brit, scramble_teams
SwitchTeam(p) ==
    /\ Room
    /\ Counted(p)
    /\ LET to == Other(team[p])
       IN  ForceJoin(p, FindInfiniteClassForTeam(to, Clients), to, removals, Clients)
    /\ UNCHANGED <<connected, pending, awake>>

(***************************************************************************)
(* ClientDisconnect.  During the intermission the game rules are not told. *)
(***************************************************************************)
Disconnect(p) ==
    /\ pending = NoOne
    /\ p \in connected
    /\ IF gameOver
       THEN /\ Counted(p) => total[NextClass(p)] < MaxPopulation
            /\ UNCHANGED counters
       ELSE /\ total' = TotalWithout(p, NextClass(p))
            /\ bots' = BotsWithout(p, NextClass(p))
            /\ future' = FutureWithout(p, NextClass(p), Clients)
            /\ removals' = removals
    /\ connected' = connected \ {p}
    /\ team' = [team EXCEPT ![p] = Nobody]
    /\ next' = [next EXCEPT ![p] = NoNumber]
    /\ alive' = alive \ {p}
    /\ awake' = awake \ {p}
    /\ UNCHANGED <<limit, gameOver, pending, cur>>
-------------------------------------------------------------------------------
(***************************************************************************)
(* The bots.                                                               *)
(***************************************************************************)

\* BotPutInServer, CSDKBot::Init
AddBot(b, t) ==
    /\ Room
    /\ b \in Bots \ connected
    /\ connected' = connected \cup {b}
    /\ ForceJoin(b, <<t, Infantry>>, t, removals, Clients + 1)
    /\ UNCHANGED <<pending, awake>>

Spawn(b) ==
    /\ pending = NoOne
    /\ b \in Bots \ alive
    /\ Counted(b)
    /\ alive' = alive \cup {b}
    /\ cur' = [cur EXCEPT ![b] = NextClass(b)]
    /\ UNCHANGED <<limit, gameOver, connected, team, next, counters, pending, awake>>

Die(b) ==
    /\ pending = NoOne
    /\ b \in alive
    /\ alive' = alive \ {b}
    /\ UNCHANGED <<limit, gameOver, connected, team, next, counters, pending, awake, cur>>

\* ThinkDeath_Check
Wake(b) ==
    /\ pending = NoOne
    /\ b \in alive \ awake
    /\ awake' = awake \cup {b}
    /\ UNCHANGED <<limit, gameOver, connected, team, next, counters, pending, alive, cur>>

(***************************************************************************)
(* ThinkDeath_Begin, when the bot's mind finds it dead:                    *)
(* CheckBotSwitchClass.                                                    *)
(***************************************************************************)
ThinkDeath(b) ==
    LET t == team[b]
        free == InfiniteClassesForTeam(t)
        surplus == free # {} /\ removals[cur[b]] > 0
        offered == /\ free # {} /\ ~surplus
                   /\ future # <<>> /\ Head(future)[1] = t
                   /\ cur[b] \in free
    IN  /\ pending = NoOne
        /\ b \in awake \ alive
        /\ awake' = awake \ {b}
        /\ \/ /\ surplus
              /\ \E c \in free :
                    ForceJoin(b, c, t, [removals EXCEPT ![cur[b]] = @ - 1], Clients)
           \/ offered /\ ForceJoin(b, Head(future), t, removals, Clients)
           \/ /\ ~surplus /\ ~offered
              /\ UNCHANGED <<limit, gameOver, team, next, counters, alive, cur>>
        /\ UNCHANGED <<connected, pending>>

Next ==
    \/ NewMap \/ EndMatch \/ FinishJoin
    \/ \E p \in Humans : Connect(p) \/ \E c \in Classes : AttemptJoin(p, c)
    \/ \E p \in Players : Spectate(p) \/ SwitchTeam(p) \/ Disconnect(p)
    \/ \E b \in Bots :
          \/ Spawn(b) \/ Die(b) \/ Wake(b) \/ ThinkDeath(b)
          \/ \E t \in Teams : AddBot(b, t)

Spec == Init /\ [][Next]_vars
-------------------------------------------------------------------------------
(***************************************************************************)
(* Properties.                                                             *)
(***************************************************************************)

\* The type of every variable.
TypeOK ==
    /\ limit \in Limits
    /\ gameOver \in BOOLEAN
    /\ connected \subseteq Players
    /\ team \in [Players -> Teams \cup {Spectators, Nobody}]
    /\ next \in [Players -> Numbers \cup {NoNumber}]
    /\ \A p \in Players : Counted(p) => next[p] \in Numbers
    /\ total \in [Classes -> Nat]
    /\ bots \in [Classes -> Nat]
    /\ future \in Seq(Classes)
    /\ removals \in [Classes -> Nat]
    /\ pending \in {NoOne} \cup (Humans \X Classes \X Int)
    /\ alive \subseteq Bots
    /\ awake \subseteq Bots
    /\ cur \in [Bots -> Classes]

(***************************************************************************)
(* SPopulationCounter: "Each CPlayerClass keeps track of its own           *)
(* population".  While a match is played the counters of a class are the   *)
(* numbers of the players and of the bots who asked for it last, through   *)
(* every way of joining, changing, being moved and leaving.                *)
(***************************************************************************)
CountersExact ==
    ~gameOver => \A c \in Classes : /\ total[c] = Cardinality(In(c))
                                    /\ bots[c] = Cardinality(In(c) \cap Bots)

(***************************************************************************)
(* Limits that leave room for whoever is moved without a choice of his     *)
(* own: mp_limit_inf_* is -1 unless it is configured otherwise, so there   *)
(* is a class without limit in every team and size of game.                *)
(***************************************************************************)
RoomInEveryTeam ==
    \A l \in Limits, s \in Sizes, t \in Teams : \E k \in Numbers : l[s][<<t, k>>] < 0

(***************************************************************************)
(* ForceJoin: "there can be for instance two loyalists even though the     *)
(* limit is one" must not happen: however players move at a time, nobody   *)
(* becomes one human too many of a limited class.                          *)
(***************************************************************************)
LimitRespected ==
    [][\A c \in Classes :
          Real(c)' > Real(c) =>
             LET lim == Limit(c, Clients)' IN lim < 0 \/ Real(c)' <= lim]_vars

(***************************************************************************)
(* PlayerMayJoinTeam: "check so we don't ruin the team balance".  A join,  *)
(* with the move of the bot that makes room for it, widens no lead of a    *)
(* team over the other beyond one player and what mp_autobalancetolerance  *)
(* allows.  Where a bot has to move, the leads after the player has joined *)
(* are judged by those before the bot has moved.                           *)
(***************************************************************************)
GapBefore(t) ==
    IF pending = NoOne THEN Gap(t)
    ELSE IF t = pending[2][1] THEN pending[3] ELSE -pending[3]

Joins ==
    /\ FinishJoin \/ \E p \in Humans, c \in Classes : AttemptJoin(p, c)
    /\ pending' = NoOne

JoinsKeepBalance ==
    [][Balance /\ Joins =>
          \A t \in Teams : Gap(t)' > GapBefore(t) => Gap(t)' < Tolerance \/ Gap(t)' <= 1]_vars

(***************************************************************************)
(* g_qFutureBotClasses: as long as the limits do not depend on the size of *)
(* the game, the bots are offered no more places in a class than are left. *)
(***************************************************************************)
FixedLimits == \A s \in Sizes : limit[s] = limit["sml"]
Offers(c) == Cardinality({i \in DOMAIN future : future[i] = c})

OffersAreFree ==
    FixedLimits => \A c \in Classes :
        Offers(c) > 0 => total[c] + Offers(c) <= limit["sml"][c]
===============================================================================
