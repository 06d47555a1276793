------------------------------- MODULE CtfFlag -------------------------------
(***************************************************************************)
(* The flags of a capture-the-flag map: CtfFlag (server/bg2/ctfflag.cpp),  *)
(* the trigger where they are handed in (CTriggerCTFCapture,               *)
(* server/hl2/hl2_triggers.cpp), and the players who take them, die,       *)
(* change teams and leave (server/hl2mp/hl2mp_player.cpp).                 *)
(*                                                                         *)
(* A place stands for the surroundings, as wide as the pick-up radius, of  *)
(* a point where a flag may be.  A Think takes no time; due counts the     *)
(* Thinks until fReturnTime.  Players are numbered in the order in which   *)
(* the engine goes through them.  Only the flags of the map's mp_flagmode  *)
(* are modelled: the others are never active.                              *)
(***************************************************************************)
EXTENDS Integers, FiniteSets, Teams

CONSTANTS
    Players,
    Flags,
    Places,
    Home,           \* FlagOrigin
    World,          \* the place of the origin of the map's coordinates
    SpawnPlace,     \* where a team comes to life
    Rules,          \* the settings and maps, see RuleAssumption
    ReturnTime,     \* m_fReturnTime
    MaxScore        \* bound: no hand-in by a team with as many captures

ASSUME PlayerAssumption == Players \subseteq Nat \ {0} /\ IsFiniteSet(Players)

AtHome == "at home"     \* no place: the flag is where it always is

ASSUME PlaceAssumption ==
    /\ IsFiniteSet(Flags) /\ AtHome \notin Places
    /\ Home \in [Flags -> Places] /\ SpawnPlace \in [Teams -> Places] /\ World \in Places

ASSUME RuleAssumption ==
    Rules \subseteq
        [captureStyle : 1..2,                           \* sv_ctf_capturestyle
         returnStyle : 1..2,                            \* sv_ctf_returnstyle
         forTeam : [Flags -> Teams \cup {Nobody}],      \* iTeam: who may take the flag
         startsOff : SUBSET Flags,                      \* CtfFlag_START_DISABLED
         points : SUBSET (Places \X SUBSET Teams),      \* where, and for whom, the triggers are
         inputs : BOOLEAN,                              \* whether the map uses the flags' inputs
         quick : SUBSET Places]                         \* where a class may be changed at once

ASSUME NumberAssumption == ReturnTime \in Nat /\ MaxScore \in Nat

VARIABLES
    rules,
    holder,         \* GetParent(): the player who carries the flag, or NoPlayer
    lies,           \* where the flag was dropped, or AtHome
    due,            \* fReturnTime of a flag that was dropped, otherwise 0
    slowed,         \* the players with the speed modifier ESpeedModID::Flag
    score,          \* the captures of each team
    team,           \* each player's team; Nobody: not connected
    alive,
    place           \* where each living player is; World for the others

flagVars == <<holder, lies, due>>
playerVars == <<team, alive, place>>
vars == <<rules, flagVars, slowed, score, playerVars>>

NoPlayer == 0

Carried(f) == holder[f] # NoPlayer
Dropped(f) == lies[f] # AtHome          \* m_bFlagIsDropped
Away(f) == Carried(f) \/ Dropped(f)     \* GetAbsOrigin() != FlagOrigin, and m_bIsCarried

MayTake(f, t) == rules.forTeam[f] \in {Nobody, t}
AnyCarriedBy(p) == LET F == {f \in Flags : holder[f] = p} IN IF F = {} THEN {} ELSE {CHOOSE f \in F : TRUE}
CarriedBy(p) == {f \in Flags : holder[f] = p}

\* With the second capture style, a team whose flag is away can neither take
\* nor hand in another one; the flag of a team is any that is not for it.
BlockedByTheirs(t, F) ==
    rules.captureStyle > 1 /\ \E f \in F : rules.forTeam[f] = t /\ Away(f)
Blocked(t, F) ==
    rules.captureStyle > 1 /\ \E f \in F : rules.forTeam[f] # t /\ Away(f)
-------------------------------------------------------------------------------
Init ==
    /\ rules \in Rules
    /\ holder = [f \in Flags |-> NoPlayer]
    /\ lies = [f \in Flags |-> AtHome]
    /\ due = [f \in Flags |-> 0]
    /\ slowed = {}
    /\ score = [t \in Teams |-> 0]
    /\ team = [p \in Players |-> Nobody]
    /\ alive = {}
    /\ place = [p \in Players |-> World]
-------------------------------------------------------------------------------
(***************************************************************************)
(* ResetFlag of the flags F.  It also sets m_bActivated as it was when the *)
(* map began, which makes it a constant between two events.                *)
(***************************************************************************)
StillHeld(F) == holder
Released(F) == [f \in Flags |-> IF f \in F THEN NoPlayer ELSE holder[f]]
LeftThere(F) == lies
BroughtHome(F) == [f \in Flags |-> IF f \in F THEN AtHome ELSE lies[f]]

NotDue(F) == [f \in Flags |-> IF f \in F THEN 0 ELSE due[f]]

ResetFlags(F) == holder' = Released(F) /\ lies' = BroughtHome(F) /\ due' = NotDue(F)

IsActive(f) == f \notin rules.startsOff

(***************************************************************************)
(* Think.  The players at the flag are gone through in their order: an     *)
(* opponent may send a dropped flag home, and the search goes on there;    *)
(* who may take the flag gets it, and the search goes on, round the origin *)
(* of the world, for players who take it from him.                         *)
(***************************************************************************)
At(w) == {p \in alive : place[p] = w}
Takers(f, w) == {p \in At(w) : MayTake(f, team[p])}
Opponents(f, w) == At(w) \ Takers(f, w)

Overdue(f) == Dropped(f) /\ due[f] = 0
Waits(f) == Dropped(f) /\ ~Overdue(f)

\* The opponents who come before the first player who may take the flag
Senders(f) ==
    {q \in Opponents(f, lies[f]) :
        rules.returnStyle > 1 /\ Waits(f) /\ \A p \in Takers(f, lies[f]) : q < p}

OnlySentHome(f) == Senders(f) # {}
GoesHome(f) == Overdue(f) \/ Senders(f) # {}

Reaching(f) ==
    IF Senders(f) # {} THEN {p \in Takers(f, Home[f]) : \E q \in Senders(f) : q < p}
    ELSE Takers(f, IF Waits(f) THEN lies[f] ELSE Home[f])

Denied(f, t) == Blocked(t, IF GoesHome(f) THEN Flags \ {f} ELSE Flags)

\* Those who take the flag from p at once
Later(f, p) ==
    IF rules.forTeam[f] = Nobody /\ rules.captureStyle > 1 THEN {}
    ELSE {q \in Takers(f, World) : p < q}

PickUp(f, p) ==
    /\ ~Denied(f, team[p])
    /\ \E last \in {p} \cup Later(f, p) :
          /\ \A q \in Later(f, p) : q <= last
          /\ holder' = [holder EXCEPT ![f] = last]
    /\ lies' = BroughtHome({f})
    /\ due' = NotDue({f})
    /\ slowed' = slowed \cup {p} \cup Later(f, p)

\* Nobody comes, or the first to come is denied the flag, which ends the search.
NoPickUp(f) ==
    /\ \A p \in Reaching(f) : (\A q \in Reaching(f) : p <= q) => Denied(f, team[p])
    /\ IF GoesHome(f)
       THEN lies' = BroughtHome({f}) /\ due' = NotDue({f})
       ELSE lies' = lies /\ due' = IF Waits(f) THEN [due EXCEPT ![f] = @ - 1] ELSE due
    /\ UNCHANGED <<holder, slowed>>

Think(f) ==
    /\ IsActive(f) /\ ~Carried(f)
    /\ \/ NoPickUp(f)
       \/ \E p \in Reaching(f) : (\A q \in Reaching(f) : p <= q) /\ PickUp(f, p)
    /\ UNCHANGED <<rules, score, playerVars>>
-------------------------------------------------------------------------------
(***************************************************************************)
(* CTriggerCTFCapture::StartTouch: a player hands in all he carries.       *)
(***************************************************************************)
Touch(p, point) ==
    LET F == CarriedBy(p) IN
    /\ p \in At(point[1]) /\ F # {}
    /\ team[p] \in point[2]
    /\ ~Blocked(team[p], Flags)
    /\ score[team[p]] < MaxScore
    /\ ResetFlags(F)
    /\ score' = [score EXCEPT ![team[p]] = @ + Cardinality(F)]
    /\ slowed' = slowed \ {p}
    /\ UNCHANGED <<rules, playerVars>>

(***************************************************************************)
(* The inputs Reset, Enable, Disable and Toggle: each sends the flag home, *)
(* and ResetFlag undoes what Enable or Disable have done to m_bActivated.  *)
(***************************************************************************)
Input(f) ==
    /\ rules.inputs /\ Away(f)
    /\ ResetFlags({f})
    /\ UNCHANGED <<rules, slowed, score, playerVars>>
-------------------------------------------------------------------------------
(***************************************************************************)
(* The players.                                                            *)
(***************************************************************************)
\* A player who dies, changes teams or leaves drops what he carries.
KeepFlags(p) == UNCHANGED flagVars
RemoveSelfFromFlags(p) ==
    /\ holder' = Released(CarriedBy(p))
    /\ lies' = [f \in Flags |-> IF holder[f] = p THEN place[p] ELSE lies[f]]
    /\ due' = [f \in Flags |-> IF holder[f] = p THEN ReturnTime ELSE due[f]]

Gone(p) == alive' = alive \ {p} /\ place' = [place EXCEPT ![p] = World]

Walk(p, w) ==
    /\ p \in alive /\ place[p] # w
    /\ place' = [place EXCEPT ![p] = w]
    /\ UNCHANGED <<rules, flagVars, slowed, score, team, alive>>

\* Event_Killed
Die(p) ==
    /\ p \in alive
    /\ Gone(p)
    /\ RemoveSelfFromFlags(p)
    /\ UNCHANGED <<rules, slowed, score, team>>

\* Spawn clears the list of speed modifiers.
Spawn(p) ==
    /\ team[p] \in Teams /\ p \notin alive
    /\ alive' = alive \cup {p}
    /\ place' = [place EXCEPT ![p] = SpawnPlace[team[p]]]
    /\ slowed' = slowed \ {p}
    /\ UNCHANGED <<rules, flagVars, score, team>>

\* CheckQuickRespawn: who changes his class soon after he has spawned, in a
\* spawn room or in a line battle, gets it, with a cleared list.
QuickSwitch(p) ==
    /\ p \in slowed \cap alive /\ place[p] \in rules.quick
    /\ slowed' = slowed \ {p}
    /\ UNCHANGED <<rules, flagVars, score, playerVars>>

Connect(p) ==
    /\ team[p] = Nobody
    /\ team' = [team EXCEPT ![p] = Spectators]
    /\ slowed' = slowed \ {p}
    /\ UNCHANGED <<rules, flagVars, score, alive, place>>

\* ForceJoin, which kills the player if he is alive and changes his team;
\* whether it also brings him to life again depends on the match.
ChangeTeam(p, to) ==
    /\ team[p] \notin {Nobody, to}
    /\ team' = [team EXCEPT ![p] = to]
    /\ RemoveSelfFromFlags(p)
    /\ \/ Gone(p) /\ UNCHANGED slowed
       \/ /\ to \in Teams
          /\ alive' = alive \cup {p}
          /\ place' = [place EXCEPT ![p] = SpawnPlace[to]]
          /\ slowed' = slowed \ {p}
    /\ UNCHANGED <<rules, score>>

Disconnect(p) ==
    /\ team[p] # Nobody
    /\ team' = [team EXCEPT ![p] = Nobody]
    /\ Gone(p)
    /\ RemoveSelfFromFlags(p)
    /\ UNCHANGED <<rules, slowed, score>>

(***************************************************************************)
(* RestartRound: ResetFlags, and everybody starts from his spawn point,    *)
(* the teams perhaps with changed sides.                                   *)
(***************************************************************************)
Swapped == [p \in Players |-> IF team[p] \in Teams THEN Other(team[p]) ELSE team[p]]

Restart ==
    /\ ResetFlags(Flags)
    /\ team' \in {team, Swapped}
    /\ alive' = {p \in Players : team[p] \in Teams}
    /\ place' = [p \in Players |-> IF p \in alive' THEN SpawnPlace[team'[p]] ELSE World]
    /\ slowed' = slowed \ alive'
    /\ UNCHANGED <<rules, score>>

Next ==
    \/ \E f \in Flags : Think(f) \/ Input(f)
    \/ \E p \in Players :
          \/ \E point \in rules.points : Touch(p, point)
          \/ \E w \in Places : Walk(p, w)
          \/ Die(p) \/ Spawn(p) \/ QuickSwitch(p) \/ Connect(p) \/ Disconnect(p)
          \/ \E to \in Teams \cup {Spectators} : ChangeTeam(p, to)
    \/ Restart

Spec == Init /\ [][Next]_vars

\* SetNextThink: the engine calls each flag's Think again and again.
FairSpec == Spec /\ \A f \in Flags : WF_vars(Think(f))
-------------------------------------------------------------------------------
(***************************************************************************)
(* Properties.                                                             *)
(***************************************************************************)
\* The type of every variable; a flag does not lie anywhere while it is carried.
TypeOK ==
    /\ rules \in Rules
    /\ holder \in [Flags -> Players \cup {NoPlayer}]
    /\ lies \in [Flags -> Places \cup {AtHome}]
    /\ due \in [Flags -> 0..ReturnTime]
    /\ slowed \subseteq Players
    /\ score \in [Teams -> Nat]
    /\ team \in [Players -> Teams \cup {Spectators, Nobody}]
    /\ alive \subseteq {p \in Players : team[p] \in Teams}
    /\ place \in [Players -> Places]
    /\ \A f \in Flags : ~(Carried(f) /\ Dropped(f))

(***************************************************************************)
(* Who carries a flag is alive and of a team that may take it: he drops it *)
(* "precisely when a player dies / changes teams / disconnects" (DropFlag, *)
(* ctfflag.cpp:206).  A flag that is off is at home.                       *)
(***************************************************************************)
CustodyIsLegit ==
    \A f \in Flags :
        /\ Carried(f) => holder[f] \in alive /\ MayTake(f, team[holder[f]])
        /\ ~IsActive(f) => ~Away(f)

(***************************************************************************)
(* With the second capture style the teams never hold each other's flags   *)
(* at once, and so never wait for each other ("If it's not, we can't take  *)
(* the enemy flag!", ctfflag.cpp:137): of two flags that are away, one is  *)
(* neutral or both are for the same team.                                  *)
(***************************************************************************)
NoStandoff ==
    rules.captureStyle > 1 =>
        \A f, g \in Flags :
            Away(f) /\ Away(g) /\ f # g =>
                \/ rules.forTeam[f] = rules.forTeam[g]
                \/ Nobody \in {rules.forTeam[f], rules.forTeam[g]}

(***************************************************************************)
(* Who carries a flag is slowed down ("decrease the carrier's speed",      *)
(* ctfflag.cpp:165), whoever takes, hands in and resets other flags, as    *)
(* long as nobody changes his class without dying.                         *)
(***************************************************************************)
CarriersAreSlowed ==
    rules.quick = {} => \A f \in Flags : Carried(f) => holder[f] \in slowed

(***************************************************************************)
(* The flags keep the promise of Custody: a team scores with flags that    *)
(* one of its players took and nobody took from the team since, and with   *)
(* its own at home; and no flag lies about for ever.                       *)
(***************************************************************************)
Hands ==
    [f \in Flags |-> IF Carried(f) THEN team[holder[f]] ELSE IF Dropped(f) THEN "lost" ELSE AtHome]

Promise ==
    INSTANCE Custody WITH
        for <- rules.forTeam, strict <- rules.captureStyle > 1,
        hands <- Hands, points <- score, Home <- AtHome, Lost <- "lost"

CustodyPromise == Promise!Spec
FlagsComeBack == Promise!NothingLost
===============================================================================
