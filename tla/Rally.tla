-------------------------------- MODULE Rally --------------------------------
(***************************************************************************)
(* The orders by which an officer rallies his team (BG3Buffs,              *)
(* shared/bg3/bg3_buffs.cpp), the flags that rally who captured them, and  *)
(* the hits that slow a player down, which share his timer.                *)
(*                                                                         *)
(* Which classes may rally, who stands near the officer and how hard a hit *)
(* is are left open.  Times are counted from the start of the map.         *)
(***************************************************************************)
EXTENDS Integers, FiniteSets, Teams

CONSTANTS
    Players,
    Duration,       \* GetRallyDuration, the same for every order
    SlowTime,       \* NERF_SLOW_DURATION
    Interval,       \* GetRallyInterval
    Lag,            \* how late a player's PostThink may come
    FlagBuffs,      \* whether the map has flags with CaptureBuffAmer or -Brit
    MaxTime         \* bound: the length of a map

ASSUME TimeAssumption ==
    /\ {Duration, SlowTime, Interval, Lag, MaxTime} \subseteq Nat
    /\ Duration + Lag + 1 < Interval
ASSUME FlagAssumption == FlagBuffs \in BOOLEAN

VARIABLES
    now,            \* gpGlobals->curtime
    next,           \* mp_nextrally_amer, mp_nextrally_brit
    team, alive,
    effect,         \* m_iCurrentRallies
    ends,           \* m_flEndRallyTime; 0 without an effect
    call            \* history: when an officer gave the order a player is under

playerVars == <<team, alive>>
effectVars == <<effect, ends, call>>
vars == <<now, next, playerVars, effectVars>>

RallyRound == "rally round"
Orders == {RallyRound, "advance"}   \* "fire" and "retreat" are like "advance"
Slowed == "slowed"
Free == "free"
NoCall == -1

Mates(p) == {q \in alive \ {p} : team[q] = team[p]}
-------------------------------------------------------------------------------
Init ==
    /\ now = 0
    /\ next = [t \in Teams |-> 0]
    /\ team = [p \in Players |-> Nobody]
    /\ alive = {}
    /\ effect = [p \in Players |-> Free]
    /\ ends = [p \in Players |-> 0]
    /\ call = [p \in Players |-> NoCall]

\* RallyPlayer(0): the effects of the players P end.
NotCleared(P) == UNCHANGED effectVars
Cleared(P) ==
    /\ effect' = [p \in Players |-> IF p \in P THEN Free ELSE effect[p]]
    /\ ends' = [p \in Players |-> IF p \in P THEN 0 ELSE ends[p]]
    /\ call' = [p \in Players |-> IF p \in P THEN NoCall ELSE call[p]]

(***************************************************************************)
(* RallyPlayer: who is under an effect is not rallied again, but "Rally    *)
(* round" makes a slowed player move.                                      *)
(***************************************************************************)
Takes(p, order) == effect[p] = Free \/ (effect[p] = Slowed /\ order = RallyRound)

Rallied(P, order, c) ==
    LET R == {p \in P : Takes(p, order)} IN
    /\ effect' = [p \in Players |-> IF p \in R THEN order ELSE effect[p]]
    /\ ends' = [p \in Players |-> IF p \in R THEN now + Duration ELSE ends[p]]
    /\ call' = [p \in Players |-> IF p \in R THEN c ELSE call[p]]
-------------------------------------------------------------------------------
\* PlayerCanRally
MayRallyAnyTime(p) == p \in alive
MayRally(p) == p \in alive /\ now >= next[team[p]]

\* RallyRequest of an officer, who rallies himself only with others
RallyRequest(p, order) ==
    /\ MayRally(p)
    /\ effect[p] = Slowed => order = RallyRound
    /\ \E near \in SUBSET Mates(p) :
          near # {} /\ Rallied(near \cup {p}, order, now)
    /\ next' = [next EXCEPT ![team[p]] = now + Interval]
    /\ UNCHANGED <<now, playerVars>>

\* RallyRequest of a flag that changes hands, whose team need not wait
FlagRally(t, order) ==
    /\ FlagBuffs
    /\ \E near \in SUBSET {p \in alive : team[p] = t} :
          near # {} /\ Rallied(near, order, NoCall)
    /\ UNCHANGED <<now, next, playerVars>>

\* TraceAttack: a hit that slows ends what the player was rallied to.
Hit(p) ==
    /\ p \in alive /\ effect[p] # RallyRound
    /\ effect' = [effect EXCEPT ![p] = Slowed]
    /\ ends' = [ends EXCEPT ![p] = now + SlowTime]
    /\ call' = [call EXCEPT ![p] = NoCall]
    /\ UNCHANGED <<now, next, playerVars>>

\* PostThink
PostThink(p) ==
    /\ effect[p] # Free /\ ends[p] < now
    /\ Cleared({p})
    /\ UNCHANGED <<now, next, playerVars>>

Tick ==
    /\ now < MaxTime
    /\ \A p \in Players : effect[p] # Free => now <= ends[p] + Lag
    /\ now' = now + 1
    /\ UNCHANGED <<next, playerVars, effectVars>>
-------------------------------------------------------------------------------
\* Event_Killed
Die(p) ==
    /\ p \in alive
    /\ alive' = alive \ {p}
    /\ Cleared({p})
    /\ UNCHANGED <<now, next, team>>

Spawn(p) ==
    /\ team[p] \in Teams /\ p \notin alive
    /\ alive' = alive \cup {p}
    /\ Cleared({p})
    /\ UNCHANGED <<now, next, team>>

\* ForceJoin, which kills the player if he is alive; or he leaves (Nobody).
ChangeTeam(p, to) ==
    /\ team[p] # to
    /\ team' = [team EXCEPT ![p] = to]
    /\ alive' = alive \ {p}
    /\ Cleared({p})
    /\ UNCHANGED <<now, next>>

\* RestartRound: everybody spawns, perhaps on the other side.
Swapped == [p \in Players |-> IF team[p] \in Teams THEN Other(team[p]) ELSE team[p]]

RestartRound ==
    /\ team' \in {team, Swapped}
    /\ alive' = {p \in Players : team[p] \in Teams}
    /\ Cleared(alive')
    /\ next' = [t \in Teams |-> now]
    /\ UNCHANGED now

\* Reset, at LevelInit: the clock starts anew, and every player is a new one.
NoReset == next
Reset == [t \in Teams |-> 0]

ChangeLevel ==
    /\ now' = 0 /\ next' = Reset
    /\ team' = [p \in Players |-> Nobody] /\ alive' = {}
    /\ Cleared(Players)

Next ==
    \/ \E p \in Players :
          \/ \E order \in Orders : RallyRequest(p, order)
          \/ Hit(p) \/ PostThink(p) \/ Die(p) \/ Spawn(p)
          \/ \E to \in Teams \cup {Nobody} : ChangeTeam(p, to)
    \/ \E t \in Teams, order \in Orders : FlagRally(t, order)
    \/ Tick \/ RestartRound \/ ChangeLevel

Spec == Init /\ [][Next]_vars
-------------------------------------------------------------------------------
(***************************************************************************)
(* Properties.                                                             *)
(***************************************************************************)
\* The type of every variable; the dead are under no effect.
TypeOK ==
    /\ now \in 0..MaxTime
    /\ next \in [Teams -> Nat]
    /\ team \in [Players -> Teams \cup {Nobody}]
    /\ alive \subseteq {p \in Players : team[p] \in Teams}
    /\ effect \in [Players -> Orders \cup {Slowed, Free}]
    /\ ends \in [Players -> Nat]
    /\ call \in [Players -> Nat \cup {NoCall}]
    /\ \A p \in Players : effect[p] # Free => p \in alive

(***************************************************************************)
(* A team never profits from two orders of its officers at once ("time a   *)
(* team must wait before their officer can do another rally",              *)
(* bg3_player_shared.h:174), whoever dies, changes sides, is slowed or     *)
(* answers late, and although every round lets them rally at once.         *)
(***************************************************************************)
Ordered(p) == call[p] # NoCall

OneOrderAtATime ==
    \A p, q \in Players :
        Ordered(p) /\ Ordered(q) /\ team[p] = team[q] =>
            call[p] = call[q] /\ effect[p] \in Orders

(***************************************************************************)
(* No team waits longer than the interval, on this map or after a change   *)
(* of the map ("otherwise its times go out of sync with server clock",     *)
(* gameinterface.cpp:1217).                                                *)
(***************************************************************************)
NobodyWaitsLonger == \A t \in Teams : next[t] <= now + Interval
===============================================================================
