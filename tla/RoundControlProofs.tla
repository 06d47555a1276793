-------------------------- MODULE RoundControlProofs --------------------------
(***************************************************************************)
(* Type correctness of RoundControl, the range of the round number, that   *)
(* RoundControl implements Match, that points follow their players, full   *)
(* caps are earned and verdicts of the clock fresh, for any players,       *)
(* flags, settings and delays.                                             *)
(***************************************************************************)
EXTENDS RoundControl, FiniteSetTheorems, TLAPS

TimesType == [Deadlines -> Nat \cup {Expired}]

\* The types of what a restarted round sets.
RestartTypes ==
    /\ left' \in TimesType
    /\ score' \in [Teams -> Nat]
    /\ team' \in [Players -> Teams \cup {Spectators, Nobody}]
    /\ alive' \subseteq Playing'
    /\ freeSpawn' \subseteq Players
    /\ tickets' \in [Teams -> Nat]
    /\ fraction' \in [Teams -> 0..1]
    /\ owner' \in [Flags -> Teams \cup {Nobody}]

\* A number of players is a natural number.
LEMMA PlayerCount ==
    ASSUME NEW S \in SUBSET Players
    PROVE  Cardinality(S) \in Nat
<1>1. IsFiniteSet(S)
  BY PlayerAssumption, FS_Subset
<1> QED
  BY <1>1, FS_CardinalityType

\* One more frame keeps the deadlines what they are.
LEMMA PassedType == TypeOK => Passed \in TimesType
BY DEF TypeOK, Passed, TimesType, Expired

\* Spawning leaves natural numbers of tickets.
LEMMA SpawnType ==
    ASSUME TypeOK, NEW S \in SUBSET Players, NEW tm, NEW l \in TimesType, Spawn(S, tm, l)
    PROVE  /\ tickets' \in [Teams -> Nat]
           /\ freeSpawn' \subseteq Players
           /\ left' \in TimesType
           /\ fraction' \in [Teams -> 0..1]
<1> DEFINE paid(t) == Cardinality({p \in Pays(S) : tm[p] = t})
<1>1. \A t \in Teams : paid(t) \in Nat
  <2>1. \A t : {p \in Pays(S) : tm[p] = t} \in SUBSET Players
    BY DEF Pays
  <2> QED
    BY <2>1, PlayerCount
<1> HIDE DEF paid
<1>2. tickets' = [t \in Teams |-> TakeTickets(tickets[t], paid(t))]
  BY DEF Spawn, paid
<1>3. tickets' \in [Teams -> Nat]
  BY <1>1, <1>2 DEF TypeOK, TakeTickets
<1>4. left' \in TimesType
  BY NumberAssumption DEF Spawn, TimesType
<1> QED
  BY <1>3, <1>4 DEF Spawn, TypeOK

\* A player who changes teams is alive only if he has been spawned.
LEMMA ForceJoinType ==
    ASSUME TypeOK, NEW p \in Players, NEW to \in Teams \cup {Spectators, Nobody},
           ForceJoin(p, to)
    PROVE  /\ team' \in [Players -> Teams \cup {Spectators, Nobody}]
           /\ alive' \subseteq Playing'
           /\ freeSpawn' \subseteq Players
           /\ tickets' \in [Teams -> Nat]
           /\ fraction' \in [Teams -> 0..1]
           /\ left' \in TimesType
<1> DEFINE S == IF MayRespawn(p, to) THEN {p} ELSE {}
<1>1. team' = [team EXCEPT ![p] = to] /\ alive' = (alive \ {p}) \cup S
  BY DEF ForceJoin
<1>2. \A q \in alive \ {p} : q \in Players /\ team'[q] \in Teams
  BY <1>1 DEF TypeOK, Playing
<1>3. \A q \in S : q \in Players /\ team'[q] \in Teams
  BY <1>1 DEF TypeOK, MayRespawn
<1>4. alive' \subseteq Playing'
  BY <1>1, <1>2, <1>3 DEF Playing
<1>5. Spawn(S, team', left) /\ S \in SUBSET Players /\ left \in TimesType
  BY DEF ForceJoin, TypeOK, TimesType
<1> HIDE DEF S
<1>6. team' \in [Players -> Teams \cup {Spectators, Nobody}]
  BY <1>1 DEF TypeOK
<1> QED
  BY <1>4, <1>5, <1>6, SpawnType

\* A restarted round gives every variable it sets a value of its type.
LEMMA RestartRoundType ==
    ASSUME TypeOK, NEW swap \in BOOLEAN, NEW setTime \in BOOLEAN,
           NEW sc \in [Teams -> Nat], NEW l \in TimesType,
           RestartRound(swap, setTime, sc, l)
    PROVE  RestartTypes /\ fresh' = FALSE
<1>1. \A t \in Teams : Other(t) \in Teams
  BY DEF Teams, Other
<1>2. team' = [p \in Players |-> IF swap /\ p \in Playing THEN Other(team[p]) ELSE team[p]]
  BY DEF RestartRound
<1>3. team' \in [Players -> Teams \cup {Spectators, Nobody}]
  BY <1>1, <1>2 DEF Playing, TypeOK
<1>4. alive' \subseteq Playing'
  BY <1>1, <1>2 DEF RestartRound, Playing, TypeOK
<1>5. score' \in [Teams -> Nat]
  BY <1>1 DEF RestartRound, SwapScores
<1>6. left' \in TimesType
  BY NumberAssumption DEF RestartRound, TimesType, Deadlines
<1>7. tickets' \in [Teams -> Nat] /\ fraction' \in [Teams -> 0..1]
  BY NumberAssumption DEF RestartRound, TypeOK
<1>8. freeSpawn' \subseteq Players /\ owner' \in [Flags -> Teams \cup {Nobody}]
  BY NumberAssumption DEF RestartRound, TypeOK
<1> QED
  BY <1>3, <1>4, <1>5, <1>6, <1>7, <1>8 DEF RestartRound, RestartTypes

\* Points may be given to a team or, with a draw, to none.
LEMMA AddScoreType ==
    ASSUME TypeOK, NEW t \in Teams \cup {Nobody}, NEW pts \in Nat
    PROVE  AddScore(t, pts) \in [Teams -> Nat]
BY DEF TypeOK, AddScore

\* Ending a round keeps the types, and the round number within the match.
LEMMA HandleScoresType ==
    ASSUME TypeOK, RoundInRange, NEW t \in Teams \cup {Nobody}, NEW pts \in Nat,
           NEW cycle \in BOOLEAN, NEW l \in TimesType,
           HandleScores(t, pts, cycle, l), cvar' = cvar
    PROVE  /\ RestartTypes
           /\ gameOver' \in BOOLEAN /\ restarting' \in BOOLEAN /\ fresh' \in BOOLEAN
           /\ winner' = winner
           /\ round' \in Nat \ {0}
           /\ RoundInRange'
<1> DEFINE counted == cycle /\ cvar.rounds > 0
           next == IF counted THEN round + 1 ELSE round
           swap == /\ cycle
                   /\ \/ cvar.swap = 1
                      \/ cvar.swap = 0 /\ cvar.rounds > 0 /\ next = cvar.rounds \div 2 + 1
           delayed == [l EXCEPT !["restart"] = IF swap THEN RestartDelay ELSE 1]
<1>1. AddScore(t, pts) \in [Teams -> Nat]
  BY AddScoreType
<1>2. cvar.rounds \in Nat
  BY SettingAssumption DEF TypeOK
<1>3. CASE counted /\ round >= cvar.rounds
  <2>1. /\ score' = AddScore(t, pts) /\ GoToIntermission(l)
        /\ UNCHANGED <<round, restarting, fresh, playerVars, owner>>
    BY <1>3 DEF HandleScores, IsLastRound
  <2>2. left' \in TimesType /\ gameOver' \in BOOLEAN
    BY <2>1, NumberAssumption DEF GoToIntermission, TimesType, Deadlines
  <2>3. RestartTypes
    BY <1>1, <2>1, <2>2 DEF RestartTypes, playerVars, TypeOK, Playing
  <2> QED
    BY <2>1, <2>2, <2>3 DEF HandleScores, TypeOK, RoundInRange
<1>4. CASE ~(counted /\ round >= cvar.rounds)
  <2>1. /\ round' = next /\ restarting' = FALSE /\ gameOver' = gameOver
        /\ RestartRound(swap, cycle, AddScore(t, pts), delayed)
    BY <1>4 DEF HandleScores, IsLastRound
  <2>2. delayed \in TimesType
    BY NumberAssumption DEF TimesType, Deadlines
  <2>3. swap \in BOOLEAN
    OBVIOUS
  <2> HIDE DEF swap, delayed
  <2>4. RestartTypes /\ fresh' = FALSE
    BY <1>1, <2>1, <2>2, <2>3, RestartRoundType
  <2>5. round' \in Nat \ {0} /\ RoundInRange'
    BY <1>2, <1>4, <2>1 DEF RoundInRange, TypeOK
  <2> QED
    BY <2>1, <2>4, <2>5 DEF HandleScores, TypeOK
<1> QED
  BY <1>3, <1>4

\* What the types and the range of the round number follow from.
Inv == TypeOK /\ RoundInRange

\* A restarted round in which nothing but these types is new keeps Inv.
LEMMA RestartKeepsInv ==
    ASSUME Inv, RestartTypes, cvar' \in Settings, stage' \in Stages,
           gameOver' \in BOOLEAN, restarting' \in BOOLEAN, fresh' \in BOOLEAN,
           winner' \in Teams \cup {Nobody},
           round' \in Nat \ {0}, RoundInRange'
    PROVE  Inv'
BY DEF Inv, TypeOK, RestartTypes, TimesType

\* A match starts in its first round.
LEMMA InitInv == Init => Inv
<1> SUFFICES ASSUME Init PROVE Inv
  OBVIOUS
<1>1. cvar.timelimit \in Nat
  BY SettingAssumption DEF Init
<1>2. left \in [Deadlines -> Nat \cup {Expired}]
  BY <1>1, NumberAssumption DEF Init, FreshDeadlines, Expired
<1>3. RoundInRange
  BY SettingAssumption DEF Init, RoundInRange
<1>4. alive \subseteq Playing /\ freeSpawn \subseteq Players
  BY DEF Init
<1>5. score \in [Teams -> Nat] /\ tickets \in [Teams -> Nat] /\ fraction \in [Teams -> 0..1]
  BY DEF Init
<1>6. team \in [Players -> Teams \cup {Spectators, Nobody}] /\ winner \in Teams \cup {Nobody}
  BY DEF Init
<1>7. gameOver \in BOOLEAN /\ restarting \in BOOLEAN /\ fresh \in BOOLEAN
  BY DEF Init
<1>8. cvar \in Settings /\ stage \in Stages /\ round \in Nat \ {0}
  BY DEF Init, Stages
<1>9. owner \in [Flags -> Teams \cup {Nobody}]
  BY NumberAssumption DEF Init
<1> QED
  BY <1>2, <1>3, <1>4, <1>5, <1>6, <1>7, <1>8, <1>9 DEF Inv, TypeOK

\* A new map is a new match.
LEMMA GameOverInv == Inv /\ ThinkGameOver => Inv'
<1> SUFFICES ASSUME Inv, ThinkGameOver PROVE Inv'
  OBVIOUS
<1>1. CASE Passed["intermission"] < 0
  <2>1. ChangeLevel /\ stage' = "idle"
    BY <1>1 DEF ThinkGameOver
  <2>2. cvar' \in Settings /\ cvar'.timelimit \in Nat /\ cvar'.rounds \in Nat
    BY <2>1, SettingAssumption DEF ChangeLevel
  <2>3. left' \in TimesType
    BY <2>1, <2>2, NumberAssumption DEF ChangeLevel, FreshDeadlines, TimesType, Expired
  <2>4. RestartTypes
    BY <2>1, <2>3, NumberAssumption DEF ChangeLevel, RestartTypes
  <2>5. RoundInRange'
    BY <2>1, <2>2 DEF ChangeLevel, RoundInRange
  <2>6. /\ gameOver' \in BOOLEAN /\ restarting' \in BOOLEAN /\ fresh' \in BOOLEAN
    BY <2>1 DEF ChangeLevel
  <2>7. winner' \in Teams \cup {Nobody} /\ round' \in Nat \ {0}
    BY <2>1 DEF ChangeLevel
  <2>8. stage' \in Stages
    BY <2>1 DEF Stages
  <2> QED
    BY <2>2, <2>4, <2>5, <2>6, <2>7, <2>8, RestartKeepsInv
<1>2. CASE ~(Passed["intermission"] < 0)
  <2>1. /\ left' = Passed /\ stage' = "idle"
        /\ UNCHANGED <<cvar, matchVars, playerVars, owner>>
    BY <1>2 DEF ThinkGameOver
  <2>2. Passed \in TimesType
    BY PassedType DEF Inv
  <2> QED
    BY <2>1, <2>2 DEF Inv, TypeOK, RoundInRange, TimesType, Stages, Playing, matchVars, playerVars
<1> QED
  BY <1>1, <1>2

\* The beginning of a frame changes the deadlines, or ends the match.
LEMMA StartInv == Inv /\ (ThinkStart \/ ThinkTimeUp) => Inv'
<1> SUFFICES ASSUME Inv, ThinkStart \/ ThinkTimeUp PROVE Inv'
  OBVIOUS
<1>1. Passed \in TimesType
  BY PassedType DEF Inv
<1>2. left' \in TimesType /\ gameOver' \in BOOLEAN
  BY <1>1, NumberAssumption
  DEF ThinkStart, ThinkTimeUp, GoToIntermission, TimesType, Deadlines, matchVars, Inv, TypeOK
<1>3. UNCHANGED <<cvar, round, score, restarting, winner, fresh, playerVars, owner>>
      /\ stage' \in Stages
  BY DEF ThinkStart, ThinkTimeUp, matchVars, Stages
<1> QED
  BY <1>2, <1>3 DEF Inv, TypeOK, RoundInRange, TimesType, Playing, playerVars

\* Draining tickets leaves whole tickets and at most a half.
LEMMA DrainType ==
    ASSUME TypeOK, NEW T, RemoveTickets(T)
    PROVE  tickets' \in [Teams -> Nat] /\ fraction' \in [Teams -> 0..1]
<1> DEFINE due(t) == Drain[t] + fraction[t]
           gone(t) == due(t) \div 2 >= tickets[t]
<1>1. \A t \in Teams : /\ due(t) \in Nat /\ due(t) \div 2 \in Nat /\ due(t) % 2 \in 0..1
                        /\ tickets[t] \in Nat /\ fraction[t] \in 0..1
  BY NumberAssumption DEF TypeOK
<1>2. /\ tickets' = [t \in Teams |-> IF t \notin T THEN tickets[t]
                                     ELSE IF gone(t) THEN 0 ELSE tickets[t] - due(t) \div 2]
      /\ fraction' = [t \in Teams |-> IF t \notin T THEN fraction[t]
                                      ELSE IF gone(t) THEN 0 ELSE due(t) % 2]
  BY DEF RemoveTickets
<1> HIDE DEF due
<1> QED
  BY <1>1, <1>2

\* Looking at the flags drains tickets, or ends a round by a full cap.
LEMMA FlagsInv == Inv /\ ThinkFlags => Inv'
<1> SUFFICES ASSUME Inv, ThinkFlags PROVE Inv'
  OBVIOUS
<1> DEFINE l == [left EXCEPT !["flags"] = FlagInterval]
           verdict == FullcapVerdict(owner)
<1>1. l \in TimesType /\ left \in TimesType
  BY NumberAssumption DEF Inv, TypeOK, TimesType
<1>2. cvar' = cvar /\ stage' \in Stages
  BY DEF ThinkFlags, Stages
<1>3. CASE UNCHANGED <<left, matchVars, playerVars, owner>>
  BY <1>2, <1>3 DEF Inv, TypeOK, RoundInRange, Playing, matchVars, playerVars
<1>4. CASE /\ left' = l /\ RemoveTickets(Drained(owner))
           /\ UNCHANGED <<matchVars, team, alive, freeSpawn, owner>>
  <2>1. tickets' \in [Teams -> Nat] /\ fraction' \in [Teams -> 0..1]
    BY <1>4, DrainType DEF Inv
  <2> QED
    BY <1>1, <1>2, <1>4, <2>1 DEF Inv, TypeOK, RoundInRange, Playing, matchVars, TimesType
<1>5. CASE verdict \in Teams /\ HandleScores(verdict, WinBonus, FALSE, l)
  <2> HIDE DEF l, verdict
  <2>1. /\ RestartTypes /\ gameOver' \in BOOLEAN /\ restarting' \in BOOLEAN /\ fresh' \in BOOLEAN
        /\ winner' = winner /\ round' \in Nat \ {0} /\ RoundInRange'
    BY <1>1, <1>2, <1>5, NumberAssumption, HandleScoresType DEF Inv
  <2> QED
    BY <1>2, <2>1, RestartKeepsInv DEF Inv, TypeOK
<1>6. CASE left' = l /\ UNCHANGED <<matchVars, playerVars, owner>>
  BY <1>1, <1>2, <1>6 DEF Inv, TypeOK, RoundInRange, Playing, matchVars, playerVars, TimesType
<1> QED
  BY <1>3, <1>4, <1>5, <1>6 DEF ThinkFlags

\* Balancing sends a dead player to the other team.
LEMMA BalanceInv == Inv /\ ThinkBalance => Inv'
<1> SUFFICES ASSUME Inv, ThinkBalance PROVE Inv'
  OBVIOUS
<1>1. UNCHANGED <<cvar, matchVars, owner>> /\ stage' \in Stages
  BY DEF ThinkBalance, Stages
<1>2. CASE UNCHANGED <<left, playerVars>>
  BY <1>1, <1>2 DEF Inv, TypeOK, RoundInRange, Playing, matchVars, playerVars
<1>3. ASSUME NEW p \in Players, NEW to \in Teams, ForceJoin(p, to)
      PROVE  Inv'
  <2>1. /\ team' \in [Players -> Teams \cup {Spectators, Nobody}]
        /\ alive' \subseteq Playing' /\ freeSpawn' \subseteq Players
        /\ tickets' \in [Teams -> Nat] /\ fraction' \in [Teams -> 0..1]
        /\ left' \in TimesType
    BY <1>3, ForceJoinType DEF Inv
  <2> QED
    BY <1>1, <2>1 DEF Inv, TypeOK, RoundInRange, matchVars, TimesType
<1>4. Other(Americans) \in Teams /\ Other(British) \in Teams
  BY DEF Other, Teams
<1>5. \/ UNCHANGED <<left, playerVars>>
      \/ \E p \in Players, to \in Teams : ForceJoin(p, to)
  BY <1>4 DEF ThinkBalance, Members
<1> QED
  BY <1>2, <1>3, <1>5

\* A restart asked for by an admin.
LEMMA ResetInv == Inv /\ (ThinkGameReset \/ ThinkRoundReset) => Inv'
<1> SUFFICES ASSUME Inv, ThinkGameReset \/ ThinkRoundReset PROVE Inv'
  OBVIOUS
<1>1. UNCHANGED <<cvar, gameOver, restarting, winner>> /\ stage' \in Stages
  BY DEF ThinkGameReset, ThinkRoundReset, Stages
<1>2. left \in TimesType /\ score \in [Teams -> Nat] /\ cvar.timelimit \in Nat
      /\ [t \in Teams |-> 0] \in [Teams -> Nat] /\ cvar.rounds \in Nat
  BY SettingAssumption DEF Inv, TypeOK, TimesType
<1>3. CASE UNCHANGED <<left, round, score, fresh, playerVars, owner>>
  BY <1>1, <1>3 DEF Inv, TypeOK, RoundInRange, Playing, playerVars
<1>4. ASSUME NEW sc \in [Teams -> Nat], NEW l \in TimesType,
             RestartRound(FALSE, TRUE, sc, l), round' \in {1, round}
      PROVE  Inv'
  <2>1. RestartTypes /\ fresh' = FALSE
    BY <1>4, RestartRoundType DEF Inv
  <2>2. round' \in Nat \ {0} /\ RoundInRange'
    BY <1>1, <1>2, <1>4 DEF Inv, TypeOK, RoundInRange
  <2>3. gameOver' \in BOOLEAN /\ restarting' \in BOOLEAN /\ fresh' \in BOOLEAN
    BY <1>1, <2>1 DEF Inv, TypeOK
  <2>4. cvar' \in Settings /\ winner' \in Teams \cup {Nobody}
    BY <1>1 DEF Inv, TypeOK
  <2> QED
    BY <1>1, <2>1, <2>2, <2>3, <2>4, RestartKeepsInv
<1>5. /\ [left EXCEPT !["gameReset"] = Expired, !["map"] = cvar.timelimit] \in TimesType
      /\ [left EXCEPT !["roundReset"] = Expired] \in TimesType
  BY <1>2 DEF TimesType
<1>6. CASE ThinkGameReset /\ left["gameReset"] = 0
  BY <1>2, <1>4, <1>5, <1>6 DEF ThinkGameReset
<1>7. CASE ThinkRoundReset /\ left["roundReset"] = 0
  BY <1>2, <1>4, <1>5, <1>7 DEF ThinkRoundReset
<1> QED
  BY <1>3, <1>6, <1>7 DEF ThinkGameReset, ThinkRoundReset

\* A wave spawns members of the playing teams.
LEMMA WaveInv == Inv /\ ThinkWave => Inv'
<1> SUFFICES ASSUME Inv, ThinkWave PROVE Inv'
  OBVIOUS
<1>1. UNCHANGED <<cvar, matchVars, team, owner>> /\ stage' \in Stages
  BY DEF ThinkWave, Stages
<1>2. CASE UNCHANGED <<left, alive, freeSpawn, tickets, fraction>>
  BY <1>1, <1>2 DEF Inv, TypeOK, RoundInRange, Playing, matchVars
<1>3. ASSUME NEW A \in Wave(Americans), NEW B \in Wave(British),
             alive' = alive \cup A \cup B,
             Spawn(A \cup B, team, [left EXCEPT !["wave"] = RespawnTime])
      PROVE  Inv'
  <2>1. A \subseteq Members(Americans) /\ B \subseteq Members(British)
    BY <1>3 DEF Wave
  <2>2. A \cup B \in SUBSET Players /\ A \cup B \subseteq Playing
    BY <2>1 DEF Members, Playing, Teams
  <2>3. [left EXCEPT !["wave"] = RespawnTime] \in TimesType
    BY NumberAssumption DEF Inv, TypeOK, TimesType
  <2>4. /\ tickets' \in [Teams -> Nat] /\ freeSpawn' \subseteq Players
        /\ left' \in TimesType /\ fraction' \in [Teams -> 0..1]
    BY <1>3, <2>2, <2>3, SpawnType DEF Inv
  <2>5. alive' \subseteq Playing'
    BY <1>1, <1>3, <2>2 DEF Inv, TypeOK, Playing
  <2> QED
    BY <1>1, <2>4, <2>5 DEF Inv, TypeOK, RoundInRange, matchVars, TimesType
<1> QED
  BY <1>2, <1>3 DEF ThinkWave

\* The end of a round.
LEMMA RoundEndInv == Inv /\ ThinkRoundEnd => Inv'
<1> SUFFICES ASSUME Inv, ThinkRoundEnd PROVE Inv'
  OBVIOUS
<1>1. cvar' = cvar /\ stage' \in Stages
  BY DEF ThinkRoundEnd, Stages
<1>2. CASE RoundOver /\ ~restarting
  <2>1. /\ restarting' = TRUE /\ fresh' = TRUE
        /\ winner' = IF cvar.style = "skirmish" THEN Ahead(Points) ELSE Ahead(Strength)
        /\ left' = [left EXCEPT !["restart"] = RestartDelay]
        /\ UNCHANGED <<gameOver, round, score, playerVars, owner>>
    BY <1>2 DEF ThinkRoundEnd
  <2>2. winner' \in Teams \cup {Nobody}
    BY <2>1 DEF Ahead, Teams
  <2>3. left' \in TimesType
    BY <2>1, NumberAssumption DEF Inv, TypeOK, TimesType
  <2> QED
    BY <1>1, <2>1, <2>2, <2>3 DEF Inv, TypeOK, RoundInRange, Playing, playerVars, TimesType
<1>3. CASE /\ RoundOver /\ restarting
           /\ HandleScores(winner, IF winner \in Teams THEN 1 ELSE 0, TRUE, left)
  <2>1. winner \in Teams \cup {Nobody} /\ left \in TimesType
    BY DEF Inv, TypeOK, TimesType
  <2>2. /\ RestartTypes /\ gameOver' \in BOOLEAN /\ restarting' \in BOOLEAN /\ fresh' \in BOOLEAN
        /\ winner' = winner /\ round' \in Nat \ {0} /\ RoundInRange'
    BY <1>1, <1>3, <2>1, HandleScoresType DEF Inv
  <2> QED
    BY <1>1, <2>1, <2>2, RestartKeepsInv DEF Inv, TypeOK
<1>4. CASE /\ fresh' = (fresh /\ RoundOver)
           /\ UNCHANGED <<left, gameOver, round, score, restarting, winner, playerVars, owner>>
  <2>1. fresh' \in BOOLEAN
    BY <1>4
  <2> QED
    BY <1>1, <1>4, <2>1 DEF Inv, TypeOK, RoundInRange, Playing, playerVars
<1> QED
  BY <1>2, <1>3, <1>4 DEF ThinkRoundEnd

\* What happens between two frames.
LEMMA EventInv == Inv /\ Event => Inv'
<1> SUFFICES ASSUME Inv, Event PROVE Inv'
  OBVIOUS
<1>1. ASSUME NEW p \in Players, NEW to \in Teams \cup {Spectators}, JoinTeam(p, to)
      PROVE  Inv'
  <2>1. /\ team' \in [Players -> Teams \cup {Spectators, Nobody}]
        /\ alive' \subseteq Playing' /\ freeSpawn' \subseteq Players
        /\ tickets' \in [Teams -> Nat] /\ fraction' \in [Teams -> 0..1]
        /\ left' \in TimesType
    BY <1>1, ForceJoinType DEF JoinTeam, Inv
  <2> QED
    BY <1>1, <2>1 DEF JoinTeam, Inv, TypeOK, RoundInRange, matchVars, TimesType
<1>2. ASSUME NEW p \in Players, Die(p) \/ Slay(p)
      PROVE  Inv'
  BY <1>2 DEF Die, Slay, Inv, TypeOK, RoundInRange, Playing, matchVars
<1>3. ASSUME NEW p \in Players, Disconnect(p)
      PROVE  Inv'
  BY <1>3 DEF Disconnect, Inv, TypeOK, RoundInRange, Playing, matchVars
<1>4. ASSUME NEW f \in Flags, NEW t \in Teams, Capture(f, t)
      PROVE  Inv'
  <2>1. score' \in [Teams -> Nat]
    BY <1>4, NumberAssumption, AddScoreType DEF Capture, Inv, TypeOK
  <2>2. left' \in TimesType
    BY <1>4 DEF Capture, Inv, TypeOK, TimesType
  <2> QED
    BY <1>4, <2>1, <2>2 DEF Capture, Inv, TypeOK, RoundInRange, Playing, playerVars, TimesType
<1>5. ASSUME NEW f \in Flags, Uncap(f)
      PROVE  Inv'
  BY <1>5 DEF Uncap, Inv, TypeOK, RoundInRange, Playing, matchVars, playerVars
<1>6. ASSUME NEW t \in Teams \cup {Nobody}, ForceWinRound(t)
      PROVE  Inv'
  <2>1. /\ left \in TimesType /\ UNCHANGED <<cvar, stage>>
        /\ HandleScores(t, IF t \in Teams THEN WinBonus ELSE 0, TRUE, left)
    BY <1>6 DEF ForceWinRound, Inv, TypeOK, TimesType
  <2>2. (IF t \in Teams THEN WinBonus ELSE 0) \in Nat
    BY NumberAssumption
  <2>3. /\ RestartTypes /\ gameOver' \in BOOLEAN /\ restarting' \in BOOLEAN /\ fresh' \in BOOLEAN
        /\ winner' = winner /\ round' \in Nat \ {0} /\ RoundInRange'
    BY <2>1, <2>2, HandleScoresType DEF Inv
  <2> QED
    BY <2>1, <2>3, RestartKeepsInv DEF Inv, TypeOK
<1>7. ASSUME NEW k \in {"gameReset", "roundReset"}, AskRestart(k)
      PROVE  Inv'
  BY <1>7 DEF AskRestart, Inv, TypeOK, RoundInRange, Playing, matchVars, playerVars
<1> QED
  BY <1>1, <1>2, <1>3, <1>4, <1>5, <1>6, <1>7 DEF Event

\* A step that changes nothing.
LEMMA StutterInv == Inv /\ UNCHANGED vars => Inv'
BY DEF Inv, TypeOK, RoundInRange, Playing, vars, matchVars, playerVars

LEMMA NextInv == Inv /\ [Next]_vars => Inv'
BY GameOverInv, StartInv, FlagsInv, BalanceInv, ResetInv, WaveInv, RoundEndInv, EventInv,
   StutterInv DEF Next, Think

(***************************************************************************)
(* Every variable keeps its type; in particular no sequence of deaths,     *)
(* team changes and disconnects leaves a player alive outside the two      *)
(* teams, nor a count of tickets below zero.                               *)
(***************************************************************************)
THEOREM TypeCorrect == Spec => []TypeOK
<1>1. Inv => TypeOK
  BY DEF Inv
<1> QED
  BY <1>1, InitInv, NextInv, PTL DEF Spec

(***************************************************************************)
(* m_iCurrentRound runs from 1 up to mp_rounds, for any match length and   *)
(* however rounds are ended.                                               *)
(***************************************************************************)
THEOREM RoundStaysInRange == Spec => []RoundInRange
<1>1. Inv => RoundInRange
  BY DEF Inv
<1> QED
  BY <1>1, InitInv, NextInv, PTL DEF Spec
-------------------------------------------------------------------------------
(***************************************************************************)
(* Every step is a step of Match.  This needs that a frame never runs in   *)
(* the intermission past its first block, and that a match with rounds is  *)
(* over in its last round only.                                            *)
(***************************************************************************)
Ended ==
    /\ stage # "idle" => ~gameOver
    /\ gameOver /\ cvar.rounds > 0 => round = cvar.rounds

LEMMA RoundsType ==
    ASSUME Inv
    PROVE  /\ cvar.rounds \in Nat /\ round \in Nat \ {0}
           /\ cvar.rounds > 0 => round <= cvar.rounds
BY SettingAssumption DEF Inv, TypeOK, RoundInRange

LEMMA EndedInit == Init => Ended
BY DEF Init, Ended

LEMMA EndedScores ==
    ASSUME Inv, Ended, cvar' = cvar, NEW t, NEW pts, NEW cycle \in BOOLEAN, NEW l,
           HandleScores(t, pts, cycle, l), ~cycle => ~gameOver
    PROVE  gameOver' /\ cvar.rounds > 0 => round' = cvar.rounds
<1>1. CASE cycle /\ cvar.rounds > 0 /\ IsLastRound
  <2>1. round' = round
    BY <1>1 DEF HandleScores
  <2>. QED
    BY <1>1, <2>1, RoundsType DEF IsLastRound
<1>2. CASE ~(cycle /\ cvar.rounds > 0 /\ IsLastRound)
  <2>1. gameOver' = gameOver
    BY <1>2 DEF HandleScores
  <2>2. ~gameOver \/ ~(cvar.rounds > 0)
    BY <1>2, RoundsType DEF Ended, IsLastRound
  <2>. QED
    BY <2>1, <2>2
<1>. QED
  BY <1>1, <1>2

LEMMA EndedNext ==
    ASSUME Inv, Ended, [Next]_vars
    PROVE  Ended'
<1>1. CASE ThinkGameOver
  BY <1>1 DEF ThinkGameOver, ChangeLevel, matchVars, Ended
<1>2. CASE ThinkTimeUp
  BY <1>2 DEF ThinkTimeUp, TimeUp, Ended
<1>3. CASE ThinkStart
  BY <1>3 DEF ThinkStart, matchVars, Ended
<1>4. CASE ThinkFlags
  <2>1. cvar' = cvar /\ ~gameOver
    BY <1>4 DEF ThinkFlags, Ended
  <2>2. gameOver' = gameOver
    BY <1>4 DEF ThinkFlags, HandleScores, matchVars
  <2>. QED
    BY <2>1, <2>2 DEF Ended
<1>5. CASE ThinkBalance \/ ThinkGameReset \/ ThinkRoundReset \/ ThinkWave
  <2>1. ~gameOver
    BY <1>5 DEF ThinkBalance, ThinkGameReset, ThinkRoundReset, ThinkWave, Ended
  <2>2. gameOver' = gameOver
    BY <1>5 DEF ThinkBalance, ThinkGameReset, ThinkRoundReset, ThinkWave, matchVars
  <2>. QED
    BY <2>1, <2>2 DEF Ended
<1>6. CASE ThinkRoundEnd
  <2>1. cvar' = cvar /\ stage' = "idle" /\ ~gameOver
    BY <1>6 DEF ThinkRoundEnd, Ended
  <2>2. \/ gameOver' = gameOver
        \/ HandleScores(winner, IF winner \in Teams THEN 1 ELSE 0, TRUE, left)
    BY <1>6 DEF ThinkRoundEnd
  <2>3. gameOver' /\ cvar.rounds > 0 => round' = cvar.rounds
    BY <2>1, <2>2, EndedScores
  <2>. QED
    BY <2>1, <2>3 DEF Ended
<1>7. ASSUME NEW t \in Teams \cup {Nobody}, ForceWinRound(t)
      PROVE  Ended'
  <2>1. cvar' = cvar /\ stage' = "idle"
        /\ HandleScores(t, IF t \in Teams THEN WinBonus ELSE 0, TRUE, left)
    BY <1>7 DEF ForceWinRound
  <2>. QED
    BY <2>1, EndedScores DEF Ended
<1>8. ASSUME NEW p \in Players,
             \/ \E to \in Teams \cup {Spectators} : JoinTeam(p, to)
             \/ Die(p) \/ Slay(p) \/ Disconnect(p)
      PROVE  Ended'
  BY <1>8 DEF JoinTeam, Die, Slay, Disconnect, matchVars, Ended
<1>9. CASE \/ \E f \in Flags : Uncap(f) \/ \E t \in Teams : Capture(f, t)
           \/ \E k \in {"gameReset", "roundReset"} : AskRestart(k)
  BY <1>9 DEF Uncap, Capture, AskRestart, matchVars, Ended
<1>10. CASE UNCHANGED vars
  BY <1>10 DEF vars, matchVars, Ended
<1>. QED
  BY <1>1, <1>2, <1>3, <1>4, <1>5, <1>6, <1>7, <1>8, <1>9, <1>10 DEF Next, Think, Event

\* Match and RoundControl mean the same teams.
LEMMA SameTeams ==
    /\ Promise!Teams = Teams /\ Promise!Nobody = Nobody
    /\ \A t : Promise!Other(t) = Other(t)
BY DEF Promise!Teams, Promise!Americans, Promise!British, Promise!Nobody, Promise!Other,
       Teams, Americans, British, Nobody, Other

\* Points given to a team, or to none, are an award; so they are after a change of sides.
LEMMA Awarded ==
    ASSUME Inv, NEW t \in Teams \cup {Nobody}, NEW b \in {0, 1, WinBonus, FlagBonus}
    PROVE  \E pts \in Promise!Points : AddScore(t, b) = Promise!Award(pts, score)
<1> DEFINE pts == [u \in Teams |-> IF u = t THEN b ELSE 0]
<1>1. pts \in Promise!Points
  <2>1. \A w \in Teams \cup {Nobody}, x \in {0, 1, WinBonus, FlagBonus} :
           [u \in Teams |-> IF u = w THEN x ELSE 0] \in Promise!Points
    BY DEF Promise!Points, Promise!Teams, Promise!Americans, Promise!British, Promise!Nobody,
       Teams, Americans, British, Nobody
  <2>. QED
    BY <2>1
<1>2. score \in [Teams -> Nat] /\ b \in Nat
  BY NumberAssumption DEF Inv, TypeOK
<1>3. AddScore(t, b) = [u \in Teams |-> score[u] + (IF u = t THEN b ELSE 0)]
  <2>1. CASE t \in Teams
    <3>1. \A u \in Teams \ {t} : score[u] = score[u] + (IF u = t THEN b ELSE 0)
      BY <1>2
    <3>2. AddScore(t, b) = [u \in Teams |-> IF u = t THEN score[t] + b ELSE score[u]]
      BY <1>2, <2>1 DEF AddScore
    <3>. QED
      BY <3>1, <3>2
  <2>2. CASE t \notin Teams
    <3>1. \A u \in Teams : score[u] = score[u] + (IF u = t THEN b ELSE 0)
      BY <1>2, <2>2
    <3>2. score = [u \in Teams |-> score[u] + (IF u = t THEN b ELSE 0)]
      BY <1>2, <3>1
    <3>. QED
      BY <2>2, <3>2 DEF AddScore
  <2>. QED
    BY <2>1, <2>2
<1>4. Promise!Award(pts, score) = [u \in Teams |-> score[u] + (IF u = t THEN b ELSE 0)]
  BY SameTeams DEF Promise!Award
<1>. QED
  BY <1>1, <1>3, <1>4

LEMMA SidesChanged ==
    ASSUME NEW swap \in BOOLEAN, NEW sc
    PROVE  SwapScores(swap, sc) \in Promise!Sides(sc) /\ SwapScores(FALSE, sc) = sc
BY SameTeams DEF SwapScores, Promise!Sides

\* HandleScores ends a round, the match, or a full cap.
LEMMA ScoresMap ==
    ASSUME Inv, Ended, cvar' = cvar, NEW t \in Teams \cup {Nobody}, NEW b \in {0, 1, WinBonus},
           NEW cycle \in BOOLEAN, NEW l, HandleScores(t, b, cycle, l), ~cycle => ~gameOver
    PROVE  Promise!Next
<1>1. PICK pts \in Promise!Points : AddScore(t, b) = Promise!Award(pts, score)
  BY Awarded
<1>2. CASE cycle /\ cvar.rounds > 0 /\ IsLastRound
  <2>1. score' = AddScore(t, b) /\ gameOver' = TRUE /\ round' = round
    BY <1>2 DEF HandleScores, GoToIntermission
  <2>2. round = cvar.rounds
    BY <1>2, RoundsType DEF IsLastRound
  <2>3. CASE ~gameOver
    <3>1. Promise!EndLastRound
      BY <1>1, <1>2, <2>1, <2>2, <2>3 DEF Promise!EndLastRound
    <3>. QED
      BY <3>1 DEF Promise!Next
  <2>4. CASE gameOver
    <3>1. score' \in Promise!Sides(Promise!Award(pts, score))
      BY <1>1, <2>1 DEF Promise!Sides
    <3>2. Promise!Epilogue
      BY <2>1, <2>4, <3>1 DEF Promise!Epilogue
    <3>. QED
      BY <3>2 DEF Promise!Next
  <2>. QED
    BY <2>3, <2>4
<1>3. CASE ~(cycle /\ cvar.rounds > 0 /\ IsLastRound)
  <2>1. /\ round' = IF cycle /\ cvar.rounds > 0 THEN round + 1 ELSE round
        /\ restarting' = FALSE /\ gameOver' = gameOver
        /\ \E swap \in BOOLEAN :
              (~cycle => ~swap) /\ score' = SwapScores(swap, AddScore(t, b))
    BY <1>3 DEF HandleScores, RestartRound
  <2>2. score' \in Promise!Sides(Promise!Award(pts, score))
        /\ (~cycle => score' = Promise!Award(pts, score))
    BY <1>1, <2>1, SidesChanged
  <2>3. CASE ~cycle
    <3>1. Promise!Fullcap
      BY <2>1, <2>2, <2>3 DEF Promise!Fullcap
    <3>. QED
      BY <3>1 DEF Promise!Next
  <2>4. CASE cycle /\ ~gameOver
    <3>1. cvar.rounds > 0 => round < cvar.rounds
      BY <1>3, <2>4, RoundsType DEF IsLastRound
    <3>2. Promise!EndRound
      BY <2>1, <2>2, <2>4, <3>1 DEF Promise!EndRound
    <3>. QED
      BY <3>2 DEF Promise!Next
  <2>5. CASE cycle /\ gameOver
    <3>1. ~(cvar.rounds > 0)
      BY <1>3, <2>5, RoundsType DEF Ended, IsLastRound
    <3>2. Promise!Epilogue
      BY <2>1, <2>2, <2>5, <3>1 DEF Promise!Epilogue
    <3>. QED
      BY <3>2 DEF Promise!Next
  <2>. QED
    BY <2>3, <2>4, <2>5
<1>. QED
  BY <1>2, <1>3

\* What a step that leaves the match alone leaves alone.
LEMMA Stutters ==
    ASSUME UNCHANGED <<cvar, gameOver, round, score, restarting>>
    PROVE  UNCHANGED Promise!vars
BY DEF Promise!vars

LEMMA ThinkMaps ==
    ASSUME Inv, Ended, Think
    PROVE  [Promise!Next]_(Promise!vars)
<1>1. CASE ThinkGameOver
  <2>1. CASE ChangeLevel
    <3>1. Promise!NewMap
      BY <1>1, <2>1, SameTeams DEF ThinkGameOver, ChangeLevel, Promise!NewMap
    <3>. QED
      BY <3>1 DEF Promise!Next
  <2>2. CASE UNCHANGED <<cvar, matchVars>>
    BY <2>2, Stutters DEF matchVars
  <2>. QED
    BY <1>1, <2>1, <2>2 DEF ThinkGameOver
<1>2. CASE ThinkTimeUp
  <2>1. Promise!TimeUp
    BY <1>2 DEF ThinkTimeUp, TimeUp, GoToIntermission, Promise!TimeUp
  <2>. QED
    BY <2>1 DEF Promise!Next
<1>3. CASE ThinkStart \/ ThinkBalance \/ ThinkWave
  BY <1>3, Stutters DEF ThinkStart, ThinkBalance, ThinkWave, matchVars
<1>4. CASE ThinkFlags
  <2>1. cvar' = cvar /\ ~gameOver
    BY <1>4 DEF ThinkFlags, Ended
  <2>2. CASE UNCHANGED matchVars
    BY <2>1, <2>2, Stutters DEF matchVars
  <2>3. ASSUME NEW t \in Teams, NEW l, HandleScores(t, WinBonus, FALSE, l)
        PROVE  Promise!Next
    BY <2>1, <2>3, ScoresMap
  <2>. QED
    BY <1>4, <2>2, <2>3 DEF ThinkFlags
<1>5. CASE ThinkGameReset
  <2>1. ~gameOver
    BY <1>5 DEF ThinkGameReset, Ended
  <2>2. CASE left["gameReset"] = 0
    <3>1. round' = 1 /\ score' = [t \in Teams |-> 0] /\ UNCHANGED <<cvar, gameOver, restarting>>
      BY <1>5, <2>2, SidesChanged DEF ThinkGameReset, RestartRound
    <3>2. Promise!Restart
      BY <2>1, <3>1, SameTeams DEF Promise!Restart
    <3>. QED
      BY <3>2 DEF Promise!Next
  <2>3. CASE left["gameReset"] # 0
    BY <1>5, <2>3, Stutters DEF ThinkGameReset
  <2>. QED
    BY <2>2, <2>3
<1>6. CASE ThinkRoundReset
  <2>1. score' = score
    BY <1>6, SidesChanged DEF ThinkRoundReset, RestartRound
  <2>. QED
    BY <1>6, <2>1, Stutters DEF ThinkRoundReset
<1>7. CASE ThinkRoundEnd
  <2>1. cvar' = cvar /\ ~gameOver
    BY <1>7 DEF ThinkRoundEnd, Ended
  <2>2. CASE RoundOver /\ ~restarting
    <3>1. Promise!Decide
      BY <1>7, <2>1, <2>2 DEF ThinkRoundEnd, Promise!Decide
    <3>. QED
      BY <3>1 DEF Promise!Next
  <2>3. CASE HandleScores(winner, IF winner \in Teams THEN 1 ELSE 0, TRUE, left)
    <3>1. winner \in Teams \cup {Nobody}
      BY DEF Inv, TypeOK
    <3>. QED
      BY <2>1, <2>3, <3>1, ScoresMap
  <2>4. CASE UNCHANGED <<gameOver, round, score, restarting>>
    BY <2>1, <2>4, Stutters
  <2>. QED
    BY <1>7, <2>2, <2>3, <2>4 DEF ThinkRoundEnd
<1>. QED
  BY <1>1, <1>2, <1>3, <1>4, <1>5, <1>6, <1>7 DEF Think

LEMMA EventMaps ==
    ASSUME Inv, Ended, Event
    PROVE  [Promise!Next]_(Promise!vars)
<1>1. ASSUME NEW p \in Players,
             \/ \E to \in Teams \cup {Spectators} : JoinTeam(p, to)
             \/ Die(p) \/ Slay(p) \/ Disconnect(p)
      PROVE  UNCHANGED Promise!vars
  BY <1>1, Stutters DEF JoinTeam, Die, Slay, Disconnect, matchVars
<1>2. CASE \/ \E f \in Flags : Uncap(f)
           \/ \E k \in {"gameReset", "roundReset"} : AskRestart(k)
  BY <1>2, Stutters DEF Uncap, AskRestart, matchVars
<1>3. ASSUME NEW f \in Flags, NEW t \in Teams, Capture(f, t)
      PROVE  [Promise!Next]_(Promise!vars)
  <2>1. CASE UsingTickets
    BY <1>3, <2>1, Stutters DEF Capture
  <2>2. CASE ~UsingTickets
    <3>1. PICK pts \in Promise!Points : AddScore(t, FlagBonus) = Promise!Award(pts, score)
      BY Awarded
    <3>2. Promise!Objective
      BY <1>3, <2>2, <3>1 DEF Capture, Promise!Objective
    <3>. QED
      BY <3>2 DEF Promise!Next
  <2>. QED
    BY <2>1, <2>2
<1>4. ASSUME NEW t \in Teams \cup {Nobody}, ForceWinRound(t)
      PROVE  Promise!Next
  <2>1. cvar' = cvar /\ HandleScores(t, IF t \in Teams THEN WinBonus ELSE 0, TRUE, left)
    BY <1>4 DEF ForceWinRound
  <2>. QED
    BY <2>1, ScoresMap
<1>. QED
  BY <1>1, <1>2, <1>3, <1>4 DEF Event

LEMMA StepMaps ==
    ASSUME Inv, Ended, [Next]_vars
    PROVE  [Promise!Next]_(Promise!vars)
<1>1. CASE UNCHANGED vars
  BY <1>1, Stutters DEF vars, matchVars
<1>. QED
  BY <1>1, ThinkMaps, EventMaps DEF Next

LEMMA InitMaps == Init => Promise!Init
BY SameTeams DEF Init, Promise!Init

(***************************************************************************)
(* The round loop implements Match (Think, HandleScores, SwapTeams,        *)
(* RestartGame), for any players, flags and settings.                      *)
(***************************************************************************)
THEOREM MatchKept == Spec => MatchPromise
<1>1. Init => Inv /\ Ended /\ Promise!Init
  BY InitInv, EndedInit, InitMaps
<1>2. Inv /\ Ended /\ [Next]_vars => Inv' /\ Ended' /\ [Promise!Next]_(Promise!vars)
  BY NextInv, EndedNext, StepMaps
<1>. QED
  BY <1>1, <1>2, PTL DEF Spec, MatchPromise, Promise!Spec
-------------------------------------------------------------------------------
(***************************************************************************)
(* Only HandleScores makes a round give way to the next one, and then the  *)
(* two teams either stay or change sides as a whole.                       *)
(***************************************************************************)
GivesWay(t, b, swap) ==
    /\ team' = [p \in Players |-> IF swap /\ p \in Playing THEN Other(team[p]) ELSE team[p]]
    /\ score' = SwapScores(swap, AddScore(t, b))

LEMMA RoundEnds ==
    ASSUME Inv, NEW t, NEW b, NEW l, HandleScores(t, b, TRUE, l), round' > round
    PROVE  \E swap \in BOOLEAN : GivesWay(t, b, swap)
<1>1. ~(cvar.rounds > 0 /\ IsLastRound)
  <2> SUFFICES ASSUME cvar.rounds > 0 /\ IsLastRound PROVE FALSE
    OBVIOUS
  <2>1. round' = round
    BY DEF HandleScores
  <2>. QED
    BY <2>1, RoundsType
<1>. QED
  BY <1>1 DEF HandleScores, RestartRound, GivesWay

LEMMA RoundGivesWay ==
    ASSUME Inv, [Next]_vars, round' > round
    PROVE  \E t \in Teams \cup {Nobody}, b \in {0, 1, WinBonus}, swap \in BOOLEAN :
              GivesWay(t, b, swap) /\ (stage = "roundEnd" => t = winner)
<1>1. round \in Nat \ {0} /\ winner \in Teams \cup {Nobody}
  BY DEF Inv, TypeOK
<1>2. ~(round' = round) /\ ~(round' = 1)
  BY <1>1
<1>3. CASE ThinkRoundEnd
  <2>1. HandleScores(winner, IF winner \in Teams THEN 1 ELSE 0, TRUE, left)
    BY <1>2, <1>3 DEF ThinkRoundEnd
  <2>. QED
    BY <1>1, <2>1, RoundEnds
<1>4. ASSUME NEW t \in Teams \cup {Nobody}, ForceWinRound(t)
      PROVE  \E b \in {0, 1, WinBonus}, swap \in BOOLEAN :
                GivesWay(t, b, swap) /\ stage # "roundEnd"
  <2>1. HandleScores(t, IF t \in Teams THEN WinBonus ELSE 0, TRUE, left) /\ stage # "roundEnd"
    BY <1>4 DEF ForceWinRound
  <2>. QED
    BY <2>1, RoundEnds
<1>5. ~ThinkFlags
  BY <1>2 DEF ThinkFlags, HandleScores, matchVars
<1>6. ~(ThinkGameOver \/ ThinkTimeUp \/ ThinkStart \/ ThinkBalance \/ ThinkGameReset
        \/ ThinkRoundReset \/ ThinkWave)
  BY <1>2 DEF ThinkGameOver, ChangeLevel, ThinkTimeUp, ThinkStart, ThinkBalance, ThinkGameReset,
     ThinkRoundReset, ThinkWave, matchVars
<1>7. ~(UNCHANGED vars)
  BY <1>2 DEF vars, matchVars
<1>8. Think => ThinkRoundEnd
  BY <1>5, <1>6 DEF Think
<1>9. Event => \E t \in Teams \cup {Nobody} : ForceWinRound(t)
  BY <1>2 DEF Event, JoinTeam, Die, Slay, Disconnect, Capture, Uncap, AskRestart, matchVars
<1>. QED
  BY <1>3, <1>4, <1>7, <1>8, <1>9 DEF Next

LEMMA PlayersKeepPoints ==
    ASSUME Inv, NEW t \in Teams \cup {Nobody}, NEW b \in {0, 1, WinBonus}, NEW swap \in BOOLEAN,
           GivesWay(t, b, swap), NEW p \in Playing
    PROVE  /\ team'[p] = IF swap THEN Other(team[p]) ELSE team[p]
           /\ Gain(p) = IF team[p] = t THEN b ELSE 0
<1>1. p \in Players /\ team[p] \in Teams
  BY DEF Playing
<1>2. team'[p] = IF swap THEN Other(team[p]) ELSE team[p]
  BY <1>1 DEF GivesWay
<1>3. Other(team[p]) \in Teams /\ Other(Other(team[p])) = team[p]
  BY <1>1 DEF Teams, Other, Americans, British
<1>4. score'[team'[p]] = AddScore(t, b)[team[p]]
  BY <1>1, <1>2, <1>3 DEF GivesWay, SwapScores
<1>5. score \in [Teams -> Nat] /\ b \in Nat
  BY NumberAssumption DEF Inv, TypeOK
<1>6. AddScore(t, b)[team[p]] = IF team[p] = t THEN score[team[p]] + b ELSE score[team[p]]
  BY <1>1, <1>5 DEF AddScore
<1>. QED
  BY <1>1, <1>2, <1>4, <1>5, <1>6 DEF Gain

LEMMA PointsFollow ==
    ASSUME Inv, [Next]_vars, round' > round, NEW p \in Playing, NEW q \in Playing
    PROVE  /\ team[p] = team[q] <=> team'[p] = team'[q]
           /\ Gain(p) \in {0, 1, WinBonus}
           /\ stage = "roundEnd" /\ Gain(p) > 0 => team[p] = winner
           /\ team[p] # team[q] => 0 \in {Gain(p), Gain(q)}
<1>1. PICK t \in Teams \cup {Nobody}, b \in {0, 1, WinBonus}, swap \in BOOLEAN :
          GivesWay(t, b, swap) /\ (stage = "roundEnd" => t = winner)
  BY RoundGivesWay
<1>2. /\ team'[p] = IF swap THEN Other(team[p]) ELSE team[p]
      /\ Gain(p) = IF team[p] = t THEN b ELSE 0
  BY <1>1, PlayersKeepPoints
<1>3. /\ team'[q] = IF swap THEN Other(team[q]) ELSE team[q]
      /\ Gain(q) = IF team[q] = t THEN b ELSE 0
  BY <1>1, PlayersKeepPoints
<1>4. team[p] \in Teams /\ team[q] \in Teams
  BY DEF Playing
<1>5. team[p] = team[q] <=> team'[p] = team'[q]
  BY <1>2, <1>3, <1>4 DEF Teams, Other, Americans, British
<1>. QED
  BY <1>1, <1>2, <1>3, <1>5

(***************************************************************************)
(* When a round gives way to the next, the players of a team stay together *)
(* with the points their team had (HandleScores, SwapTeams).               *)
(***************************************************************************)
THEOREM PointsFollowTheirPlayers == Spec => PointsFollowPlayers
<1>1. Inv /\ [Next]_vars
          => [round' > round =>
                 \A p, q \in Playing :
                    /\ team[p] = team[q] <=> team'[p] = team'[q]
                    /\ Gain(p) \in {0, 1, WinBonus}
                    /\ stage = "roundEnd" /\ Gain(p) > 0 => team[p] = winner
                    /\ team[p] # team[q] => 0 \in {Gain(p), Gain(q)}]_vars
  BY PointsFollow
<1>. QED
  BY <1>1, InitInv, NextInv, PTL DEF Spec, PointsFollowPlayers
-------------------------------------------------------------------------------
(***************************************************************************)
(* Full caps.  A flag is held by a team that may capture it, or started    *)
(* with it; if such a flag counts for that team, the flags a team holds    *)
(* are among those that count for it, and as many only if they are all.    *)
(***************************************************************************)
HeldByRight == \A f \in Flags : owner[f] \in ForTeam[f] \cup {StartOwner[f], Nobody}

LEMMA HeldStep ==
    ASSUME Inv, HeldByRight, [Next]_vars
    PROVE  HeldByRight'
<1>1. owner \in [Flags -> Teams \cup {Nobody}]
  BY DEF Inv, TypeOK
<1>2. CASE owner' = owner
  BY <1>2 DEF HeldByRight
<1>3. CASE owner' = StartOwner
  BY <1>3 DEF HeldByRight
<1>4. ASSUME NEW f \in Flags, NEW t, owner' = [owner EXCEPT ![f] = t], t \in ForTeam[f] \cup {Nobody}
      PROVE  HeldByRight'
  BY <1>1, <1>4 DEF HeldByRight
<1>5. Think => owner' = owner \/ owner' = StartOwner
  BY DEF Think, ThinkGameOver, ThinkTimeUp, ThinkStart, ThinkFlags, ThinkBalance, ThinkGameReset,
     ThinkRoundReset, ThinkWave, ThinkRoundEnd, ChangeLevel, HandleScores, RestartRound
<1>6. Event => \/ owner' = owner \/ owner' = StartOwner
               \/ \E f \in Flags : \E t \in ForTeam[f] \cup {Nobody} :
                        owner' = [owner EXCEPT ![f] = t]
  BY DEF Event, JoinTeam, Die, Slay, Disconnect, Uncap, Capture, ForceWinRound, AskRestart,
     HandleScores, RestartRound
<1>7. UNCHANGED vars => owner' = owner
  BY DEF vars
<1>. QED
  BY <1>2, <1>3, <1>4, <1>5, <1>6, <1>7 DEF Next

\* The verdict of CheckFullcap
LEMMA VerdictEarned ==
    ASSUME Inv, HeldByRight, CountForHolders, NEW t \in Teams, FullcapVerdict(owner) = t
    PROVE  MeantFor(t, FALSE) # {} /\ \A f \in MeantFor(t, FALSE) : owner[f] = t
<1> DEFINE held(u) == {f \in Counted(FALSE) : owner[f] = u}
           n(u) == HeldBy(u, owner, FALSE)
<1>1. IsFiniteSet(Flags) /\ Counted(FALSE) \in SUBSET Flags
  BY FlagAssumption DEF Counted
<1>2. ASSUME NEW u
      PROVE  /\ IsFiniteSet(held(u)) /\ n(u) = Cardinality(held(u)) /\ n(u) \in Nat
             /\ n(u) = 0 <=> held(u) = {}
  <2>1. held(u) \in SUBSET Flags /\ n(u) = Cardinality(held(u))
    BY <1>1 DEF HeldBy
  <2> HIDE DEF held, n
  <2>2. IsFiniteSet(held(u))
    BY <1>1, <2>1, FS_Subset
  <2>. QED
    BY <2>1, <2>2, FS_CardinalityType, FS_EmptySet
<1>3. IsFiniteSet(MeantFor(t, FALSE)) /\ For(t, FALSE) \in Nat
      /\ (For(t, FALSE) = 0 <=> MeantFor(t, FALSE) = {})
  <2>1. MeantFor(t, FALSE) \in SUBSET Flags
    BY <1>1 DEF MeantFor
  <2>2. IsFiniteSet(MeantFor(t, FALSE))
    BY <1>1, <2>1, FS_Subset
  <2>. QED
    BY <2>2, FS_CardinalityType, FS_EmptySet DEF For
<1>4. held(t) \in SUBSET MeantFor(t, FALSE)
  <2>1. ASSUME NEW f \in Counted(FALSE), owner[f] = t
        PROVE  f \in MeantFor(t, FALSE)
    <3>1. f \in Flags /\ FullCap[f] # {} /\ (t \in ForTeam[f] \/ t = StartOwner[f])
      BY <2>1 DEF Counted, HeldByRight, Teams, Nobody, Americans, British
    <3>2. t \in ForTeam[f] \cap FullCap[f]
      BY <3>1 DEF CountForHolders
    <3>. QED
      BY <3>2 DEF MeantFor
  <2>. QED
    BY <2>1
<1>5. /\ For(t, FALSE) - n(t) = 0
      /\ For(t, FALSE) # 0 \/ (n(Nobody) = 0 /\ n(Other(t)) = 0 /\ n(t) # 0)
  <2>1. /\ Teams = {t, Other(t)} /\ Other(Other(t)) = t /\ t # "play" /\ Other(t) # "play" /\ Other(t) # t
        /\ Americans \in Teams /\ British \in Teams
    BY DEF Teams, Other, Americans, British
  <2> DEFINE full(u) == For(u, FALSE) - n(u) = 0
             wins(u) == IF n(Nobody) > 0 THEN full(u) /\ For(u, FALSE) # 0
                                         ELSE full(u) /\ n(Other(u)) = 0
             first == IF n(Nobody) > 0 THEN Americans ELSE British
  <2>2. FullcapVerdict(owner) =
           IF \A u \in Teams \cup {Nobody} : n(u) = 0 THEN "play"
           ELSE IF wins(first) THEN first
           ELSE IF wins(Other(first)) THEN Other(first)
           ELSE "play"
    BY DEF FullcapVerdict
  <2>3. first \in Teams /\ n(Nobody) \in Nat
    BY <1>2, <2>1
  <2> HIDE DEF n, wins, first
  <2>4. ~(\A u \in Teams \cup {Nobody} : n(u) = 0) /\ wins(t)
    BY <2>1, <2>2, <2>3
  <2>5. n(Nobody) = 0 /\ n(Other(t)) = 0 => n(t) # 0
    BY <2>1, <2>4
  <2>6. CASE n(Nobody) > 0
    <3>1. full(t) /\ For(t, FALSE) # 0
      BY <2>4, <2>6 DEF wins
    <3>. QED
      BY <3>1
  <2>7. CASE ~(n(Nobody) > 0)
    <3>1. full(t) /\ n(Other(t)) = 0
      BY <2>4, <2>7 DEF wins
    <3>2. n(Nobody) = 0
      BY <2>3, <2>7
    <3>. QED
      BY <2>5, <3>1, <3>2
  <2>. QED
    BY <2>6, <2>7
<1>6. For(t, FALSE) = n(t) /\ n(t) = Cardinality(held(t))
  <2>1. n(t) \in Nat /\ n(t) = Cardinality(held(t))
    BY <1>2
  <2> DEFINE k == For(t, FALSE)
             m == n(t)
  <2>2. k \in Nat /\ m \in Nat /\ k - m = 0
    BY <1>3, <1>5, <2>1
  <2> HIDE DEF k, m
  <2>3. k = m
    BY <2>2
  <2>. QED
    BY <2>1, <2>3 DEF k, m
<1> HIDE DEF held, n
<1>7. MeantFor(t, FALSE) = held(t)
  <2>1. Cardinality(MeantFor(t, FALSE)) = Cardinality(held(t))
    BY <1>6 DEF For
  <2>. QED
    BY <1>3, <1>4, <2>1, FS_Subset
<1>8. MeantFor(t, FALSE) # {}
  BY <1>3, <1>5, <1>6
<1>. QED
  BY <1>7, <1>8 DEF held

LEMMA FullcapStep ==
    ASSUME Inv, HeldByRight, CountForHolders, [Next]_vars, stage = "flags", ~UsingTickets,
           NEW t \in Teams, score'[t] > score[t]
    PROVE  MeantFor(t, FALSE) # {} /\ \A f \in MeantFor(t, FALSE) : owner[f] = t
<1>1. score[t] \in Nat
  BY DEF Inv, TypeOK
<1>2. ThinkFlags
  <2>1. ~UNCHANGED vars
    BY <1>1 DEF vars, matchVars
  <2>. QED
    BY <2>1 DEF Next, Think, Event, ThinkGameOver, ThinkTimeUp, ThinkStart, ThinkBalance,
       ThinkGameReset, ThinkRoundReset, ThinkWave, ThinkRoundEnd, JoinTeam, Die, Slay, Disconnect,
       Uncap, Capture, ForceWinRound, AskRestart
<1> DEFINE verdict == FullcapVerdict(owner)
<1>3. verdict \in Teams /\ \E l : HandleScores(verdict, WinBonus, FALSE, l)
  <2>1. ~(score' = score)
    BY <1>1
  <2>. QED
    BY <1>2, <2>1 DEF ThinkFlags, matchVars
<1> HIDE DEF verdict
<1>4. score' = AddScore(verdict, WinBonus)
  BY <1>3 DEF HandleScores, RestartRound, SwapScores
<1>5. verdict = t
  <2>1. verdict # t => AddScore(verdict, WinBonus)[t] = score[t]
    BY <1>3 DEF AddScore, Inv, TypeOK
  <2>. QED
    BY <1>1, <1>4, <2>1
<1>. QED
  BY <1>5, VerdictEarned DEF verdict

(***************************************************************************)
(* A full cap goes to a team that holds every flag that counts for it, and *)
(* at least one (CheckFullcap): any flags of which those that count do so  *)
(* for whoever may hold them.                                              *)
(***************************************************************************)
THEOREM FullcapsAreEarned == CountForHolders => (Spec => FullcapIsEarned)
<1>1. Init => HeldByRight
  BY DEF Init, HeldByRight
<1>2. ASSUME CountForHolders
      PROVE  Spec => FullcapIsEarned
  <2>1. Inv /\ HeldByRight /\ [Next]_vars =>
           [stage = "flags" /\ ~UsingTickets =>
               \A t \in Teams : score'[t] > score[t] =>
                  MeantFor(t, FALSE) # {} /\ \A f \in MeantFor(t, FALSE) : owner[f] = t]_vars
    BY <1>2, FullcapStep
  <2>2. Inv /\ HeldByRight /\ [Next]_vars => HeldByRight'
    BY HeldStep
  <2>. QED
    BY <1>1, <2>1, <2>2, InitInv, NextInv, PTL DEF Spec, FullcapIsEarned
<1>. QED
  BY <1>2
-------------------------------------------------------------------------------
(***************************************************************************)
(* Verdicts where rounds end by the clock.  Once a verdict has been given  *)
(* the time of the round stays over until the next one starts, for nobody  *)
(* asks for a restart.                                                     *)
(***************************************************************************)
NoneAsked == left["gameReset"] = Expired /\ left["roundReset"] = Expired

VerdictStands == restarting => fresh /\ cvar.rounds > 0 /\ left["round"] <= 0

Calm == NoneAsked /\ VerdictStands

\* The deadlines l of a step that leaves the verdict to what it is
Waits(l) ==
    /\ l["gameReset"] = Expired /\ l["roundReset"] = Expired
    /\ left["round"] <= 0 => l["round"] <= 0

LEMMA Names ==
    /\ {"round", "restart", "wave", "flags", "gameReset", "roundReset", "map", "intermission"}
          = Deadlines
    /\ \A k \in {"restart", "wave", "flags", "map", "intermission"} :
          k \notin {"round", "gameReset", "roundReset"}
BY DEF Deadlines

LEMMA CalmKept ==
    ASSUME Calm, cvar' = cvar, Waits(left'), restarting' => restarting /\ fresh'
    PROVE  Calm'
BY DEF Calm, NoneAsked, VerdictStands, Waits

LEMMA WaitsFor ==
    ASSUME Inv, NoneAsked
    PROVE  /\ Waits(left) /\ Waits(Passed)
           /\ \A k \in {"restart", "wave", "flags", "map", "intermission"} : \A n :
                 Waits([left EXCEPT ![k] = n]) /\ Waits([Passed EXCEPT ![k] = n])
<1>1. left \in [Deadlines -> Nat \cup {Expired}] /\ Passed = [k \in Deadlines |-> IF left[k] > Expired THEN left[k] - 1 ELSE Expired]
  BY DEF Inv, TypeOK, Passed
<1>2. Waits(left)
  BY DEF Waits, NoneAsked
<1>3. Waits(Passed)
  <2>1. Passed["gameReset"] = Expired /\ Passed["roundReset"] = Expired
    BY <1>1 DEF NoneAsked, Deadlines, Expired
  <2>2. left["round"] <= 0 => Passed["round"] <= 0
    BY <1>1 DEF Deadlines, Expired
  <2>. QED
    BY <2>1, <2>2 DEF Waits
<1>4. ASSUME NEW k \in {"restart", "wave", "flags", "map", "intermission"}, NEW n
      PROVE  Waits([left EXCEPT ![k] = n]) /\ Waits([Passed EXCEPT ![k] = n])
  <2>1. \A j \in {"round", "gameReset", "roundReset"} :
           /\ [left EXCEPT ![k] = n][j] = left[j]
           /\ [Passed EXCEPT ![k] = n][j] = Passed[j]
    BY <1>1, Names
  <2>. QED
    BY <1>2, <1>3, <2>1 DEF Waits
<1>. QED
  BY <1>2, <1>3, <1>4

\* A round's time is shortened only while there is some left.
LEMMA SpawnWaits ==
    ASSUME NEW S, NEW tm, NEW l \in TimesType, Waits(l), Spawn(S, tm, l)
    PROVE  Waits(left')
<1>1. left' = l \/ (l["round"] > Minute /\ left' = [l EXCEPT !["round"] = Minute])
  BY DEF Spawn
<1>2. Minute \in Nat /\ l["round"] \in Nat \cup {Expired}
  BY NumberAssumption DEF TimesType, Deadlines
<1>3. CASE l["round"] > Minute /\ left' = [l EXCEPT !["round"] = Minute]
  <2>1. ~(left["round"] <= 0)
    BY <1>2, <1>3 DEF Waits, Expired
  <2>2. left'["gameReset"] = l["gameReset"] /\ left'["roundReset"] = l["roundReset"]
    BY <1>3 DEF TimesType
  <2>. QED
    BY <2>1, <2>2 DEF Waits
<1>. QED
  BY <1>1, <1>3

LEMMA RoundEndCalm ==
    ASSUME Inv, Calm, cvar' = cvar, NEW t, NEW pts, NEW cycle \in BOOLEAN, NEW l \in TimesType,
           Waits(l), HandleScores(t, pts, cycle, l)
    PROVE  Calm'
<1>1. CASE restarting' = restarting /\ fresh' = fresh /\ GoToIntermission(l)
  <2>1. left' = l \/ left' = [l EXCEPT !["intermission"] = ChatTime]
    BY <1>1 DEF GoToIntermission
  <2>2. Waits(left')
    BY <2>1 DEF Waits, TimesType, Deadlines
  <2>. QED
    BY <1>1, <2>2, CalmKept DEF Calm, VerdictStands
<1>2. ASSUME NEW swap, NEW n, restarting' = FALSE,
             RestartRound(swap, cycle, AddScore(t, pts), [l EXCEPT !["restart"] = n])
      PROVE  Calm'
  <2>1. left'["gameReset"] = l["gameReset"] /\ left'["roundReset"] = l["roundReset"]
    BY <1>2 DEF RestartRound, TimesType, Deadlines
  <2>. QED
    BY <1>2, <2>1 DEF Waits, Calm, NoneAsked, VerdictStands
<1>. QED
  BY <1>1, <1>2 DEF HandleScores

LEMMA CalmThink ==
    ASSUME Inv, Calm, EndedByClock, Think
    PROVE  Calm'
<1>1. cvar.style = "skirmish" /\ ~UsingTickets /\ left \in TimesType /\ Passed \in TimesType /\ NoneAsked
  BY PassedType DEF EndedByClock, Inv, TypeOK, UsingTickets, TimesType, Calm
<1>2. CASE ThinkGameOver
  <2>1. CASE ChangeLevel
    <3>1. left' = FreshDeadlines(cvar') /\ ~restarting'
      BY <2>1 DEF ChangeLevel
    <3>2. left'["gameReset"] = Expired /\ left'["roundReset"] = Expired
      BY <3>1 DEF FreshDeadlines, Deadlines
    <3>. QED
      BY <3>1, <3>2 DEF Calm, NoneAsked, VerdictStands
  <2>2. CASE left' = Passed /\ UNCHANGED <<cvar, matchVars>>
    BY <1>1, <2>2, WaitsFor, CalmKept DEF matchVars, Calm, VerdictStands
  <2>. QED
    BY <1>2, <2>1, <2>2 DEF ThinkGameOver
<1>3. CASE ThinkTimeUp
  <2>1. left' \in {Passed, [Passed EXCEPT !["intermission"] = ChatTime]}
    BY <1>3 DEF ThinkTimeUp, GoToIntermission
  <2>2. Waits(left')
    BY <1>1, <2>1, WaitsFor
  <2>. QED
    BY <1>3, <2>2, CalmKept DEF ThinkTimeUp, Calm, VerdictStands
<1>4. CASE ThinkStart
  BY <1>1, <1>4, WaitsFor, CalmKept DEF ThinkStart, matchVars, Calm, VerdictStands
<1>5. CASE ThinkFlags
  <2> DEFINE l == [left EXCEPT !["flags"] = FlagInterval]
  <2>1. Waits(left) /\ Waits(l) /\ l \in TimesType
    BY <1>1, WaitsFor, NumberAssumption DEF TimesType, Deadlines
  <2>2. \/ left' \in {left, l} /\ UNCHANGED matchVars
        \/ \E t : HandleScores(t, WinBonus, FALSE, l)
    BY <1>1, <1>5 DEF ThinkFlags
  <2>3. cvar' = cvar
    BY <1>5 DEF ThinkFlags
  <2> HIDE DEF l
  <2>4. CASE left' \in {left, l} /\ UNCHANGED matchVars
    BY <2>1, <2>3, <2>4, CalmKept DEF matchVars, Calm, VerdictStands
  <2>5. ASSUME NEW t, HandleScores(t, WinBonus, FALSE, l)
        PROVE  Calm'
    <3>1. FALSE \in BOOLEAN
      OBVIOUS
    <3>. QED
      BY <2>1, <2>3, <2>5, <3>1, RoundEndCalm
  <2>. QED
    BY <2>2, <2>4, <2>5
<1>6. CASE ThinkBalance
  <2>1. \/ left' = left
        \/ \E p, to : ForceJoin(p, to)
    BY <1>6 DEF ThinkBalance
  <2>2. Waits(left')
    BY <1>1, <2>1, WaitsFor, SpawnWaits DEF ForceJoin
  <2>. QED
    BY <1>6, <2>2, CalmKept DEF ThinkBalance, matchVars, Calm, VerdictStands
<1>7. CASE ThinkGameReset \/ ThinkRoundReset
  <2>1. left' = left /\ fresh' = fresh
    BY <1>1, <1>7 DEF ThinkGameReset, ThinkRoundReset, NoneAsked, Expired
  <2>2. UNCHANGED <<cvar, restarting>>
    BY <1>7 DEF ThinkGameReset, ThinkRoundReset
  <2>. QED
    BY <2>1, <2>2 DEF Calm, NoneAsked, VerdictStands
<1>8. CASE ThinkWave
  <2> DEFINE l == [left EXCEPT !["wave"] = RespawnTime]
  <2>1. l \in TimesType /\ Waits(l) /\ Waits(left)
    BY <1>1, WaitsFor, NumberAssumption DEF TimesType, Deadlines
  <2>2. \/ left' = left
        \/ \E S : Spawn(S, team, l)
    BY <1>8 DEF ThinkWave
  <2> HIDE DEF l
  <2>3. Waits(left')
    BY <2>1, <2>2, SpawnWaits
  <2>. QED
    BY <1>8, <2>3, CalmKept DEF ThinkWave, matchVars, Calm, VerdictStands
<1>9. CASE ThinkRoundEnd
  <2>1. RoundOver <=> cvar.rounds > 0 /\ left["round"] <= 0
    BY <1>1 DEF RoundOver, Eliminated
  <2>2. cvar' = cvar
    BY <1>9 DEF ThinkRoundEnd
  <2>3. CASE RoundOver /\ ~restarting
    <3>1. left' = [left EXCEPT !["restart"] = RestartDelay] /\ fresh' = TRUE
      BY <1>9, <2>3 DEF ThinkRoundEnd
    <3>2. \A k \in {"round", "gameReset", "roundReset"} : left'[k] = left[k]
      BY <1>1, <3>1 DEF TimesType
    <3>. QED
      BY <2>1, <2>2, <2>3, <3>1, <3>2 DEF Calm, NoneAsked, VerdictStands
  <2>4. CASE HandleScores(winner, IF winner \in Teams THEN 1 ELSE 0, TRUE, left)
    BY <1>1, <2>2, <2>4, WaitsFor, RoundEndCalm
  <2>5. CASE fresh' = (fresh /\ RoundOver) /\ UNCHANGED <<left, restarting>>
    BY <2>1, <2>2, <2>5 DEF Calm, NoneAsked, VerdictStands
  <2>. QED
    BY <1>9, <2>3, <2>4, <2>5 DEF ThinkRoundEnd
<1>. QED
  BY <1>2, <1>3, <1>4, <1>5, <1>6, <1>7, <1>8, <1>9 DEF Think

LEMMA CalmStep ==
    ASSUME Inv, Calm, EndedByClock, [Next]_vars
    PROVE  Calm'
<1>1. left \in TimesType /\ NoneAsked /\ ~cvar.admin
  BY DEF EndedByClock, Inv, TypeOK, TimesType, Calm
<1>2. Waits(left) /\ Waits([left EXCEPT !["flags"] = Expired])
  BY <1>1, WaitsFor
<1>3. ASSUME NEW p, NEW to, JoinTeam(p, to)
      PROVE  Calm'
  <2>1. Waits(left')
    BY <1>1, <1>2, <1>3, SpawnWaits DEF JoinTeam, ForceJoin
  <2>. QED
    BY <1>3, <2>1, CalmKept DEF JoinTeam, matchVars, Calm, VerdictStands
<1>4. ASSUME NEW t, ForceWinRound(t)
      PROVE  Calm'
  BY <1>1, <1>2, <1>4, RoundEndCalm DEF ForceWinRound
<1>5. CASE /\ left' \in {left, [left EXCEPT !["flags"] = Expired]}
           /\ UNCHANGED <<cvar, restarting, fresh>>
  BY <1>2, <1>5, CalmKept DEF Calm, VerdictStands
<1>6. Event => \/ \E p, to : JoinTeam(p, to)
               \/ \E t : ForceWinRound(t)
               \/ /\ left' \in {left, [left EXCEPT !["flags"] = Expired]}
                  /\ UNCHANGED <<cvar, restarting, fresh>>
  BY <1>1 DEF Event, Die, Slay, Disconnect, Uncap, Capture, AskRestart, matchVars
<1>7. UNCHANGED vars => left' = left /\ UNCHANGED <<cvar, restarting, fresh>>
  BY DEF vars, matchVars
<1>. QED
  BY <1>3, <1>4, <1>5, <1>6, <1>7, CalmThink DEF Next

(***************************************************************************)
(* The point a round ends with goes to the team that was ahead at that end *)
(* (m_iTDMTeamThatWon), in matches whose rounds end by the clock and are   *)
(* not restarted by an admin.  Where a round ends when a team is wiped out *)
(* this is not so.                                                         *)
(***************************************************************************)
THEOREM VerdictsAreFresh == EndedByClock => (Spec => VerdictIsFresh)
<1>1. Init => Calm
  <2>1. Init => ~restarting /\ left = FreshDeadlines(cvar)
    BY DEF Init
  <2>2. FreshDeadlines(cvar)["gameReset"] = Expired /\ FreshDeadlines(cvar)["roundReset"] = Expired
    BY DEF FreshDeadlines, Deadlines
  <2>. QED
    BY <2>1, <2>2 DEF Calm, NoneAsked, VerdictStands
<1>2. ASSUME EndedByClock
      PROVE  Spec => VerdictIsFresh
  <2>1. Inv /\ Calm /\ [Next]_vars => Calm'
    BY <1>2, CalmStep
  <2>2. Calm =>
           [stage = "roundEnd" /\ RoundOver /\ restarting /\ left["restart"] < 0 => fresh]_vars
    BY DEF Calm, VerdictStands
  <2>. QED
    BY <1>1, <2>1, <2>2, InitInv, NextInv, PTL DEF Spec, VerdictIsFresh
<1>. QED
  BY <1>2
===============================================================================
