----------------------------- MODULE CaptureFlag -----------------------------
(***************************************************************************)
(* One capture point: CFlag (server/bg2/flag.cpp), the trigger brush that  *)
(* may stand for its radius (CFlagTriggerBG2, server/hl2/hl2_triggers.cpp) *)
(* and what dying, changing teams, leaving and a new round do to it.       *)
(*                                                                         *)
(* Players move and die between two Thinks of the flag.  A Think takes no  *)
(* time; due counts the Thinks (8 a second) until m_flNextCapture.  The    *)
(* style is not LMS, where flags are off.                                  *)
(***************************************************************************)
EXTENDS Integers, FiniteSets, Teams

CONSTANTS
    Players,
    Slot,           \* the entity index of each player, which starts at 1
    Keys,           \* the flags a map maker may place, see KeyAssumption
    CaptureTime,    \* m_flCaptureTime
    MaxTouch        \* bound: how often a player may be on a trigger's list

ASSUME PlayerAssumption ==
    /\ IsFiniteSet(Players)
    /\ Slot \in [Players -> Nat \ {0}]
    /\ \A p, q \in Players : Slot[p] = Slot[q] => p = q

ASSUME KeyAssumption ==
    Keys \subseteq
        [forTeam : SUBSET Teams \ {{}},     \* m_iForTeam
         start : Teams \cup {Nobody},       \* m_iStartingTeam
         need : Nat \ {0},                  \* m_iCapturePlayers
         keeps : BOOLEAN,                   \* m_bNotUncappable
         uncapOnDeath : BOOLEAN,            \* m_bUncapOnDeath
         trigger : BOOLEAN,                 \* m_bIsParent
         inputs : BOOLEAN]                  \* whether the map uses the flag's inputs

ASSUME NumberAssumption == {CaptureTime, MaxTouch} \subseteq Nat \ {0}

VARIABLES
    key,            \* the flag's keyvalues
    active,         \* m_bActivated
    owner,          \* GetTeamNumber()
    capturing,      \* m_iLastTeam
    due,            \* m_flNextCapture
    holders,        \* m_vOverloadingPlayers, which holds no player twice
    listed,         \* how often m_vTriggerAmericanPlayers and ..British.. hold a player
    team,           \* each player's team; Nobody: not connected
    alive,
    near,           \* the players within the radius, or touching the trigger
    over,           \* g_fGameOver
    stood           \* history: for how many Thinks a team has stood on the flag

flagVars == <<active, owner, capturing, due, holders>>
playerVars == <<team, alive, near>>
vars == <<key, flagVars, listed, playerVars, over, stood>>

Members(t) == {p \in Players : team[p] = t}
Standing(t) == Members(t) \cap alive \cap near
-------------------------------------------------------------------------------
Init ==
    /\ key \in Keys
    /\ active = TRUE
    /\ owner = key.start
    /\ capturing = Nobody
    /\ due = 0
    /\ holders = {}
    /\ listed = [t \in Teams |-> [p \in Players |-> 0]]
    /\ team = [p \in Players |-> Nobody]
    /\ alive = {} /\ near = {}
    /\ over = FALSE
    /\ stood = [t \in Teams |-> 0]
-------------------------------------------------------------------------------
(***************************************************************************)
(* Think.  A flag with a trigger counts the entries of the trigger's lists *)
(* but collects the players whose entity indices are below that number     *)
(* (UTIL_PlayerByIndex(i) for i from 0).                                   *)
(***************************************************************************)
Entries(t) == Cardinality({x \in Players \X (1..MaxTouch) : x[2] <= listed[t][x[1]]})
Indexed(t) == {p \in Players : team[p] # Nobody /\ Slot[p] < Entries(t)}

\* americans, british: those who may capture the flag
Count(t) ==
    IF key.trigger THEN Entries(t)
    ELSE IF t \in key.forTeam THEN Cardinality(Standing(t)) ELSE 0

Friends(t) == IF key.trigger THEN Entries(t) ELSE Cardinality(Standing(t))

\* How many players a capture takes: never more than the team has.
OneIsEnough(t) == 1
AllNeeded(t) == key.need
Needed(t) == LET size == Cardinality(Members(t)) IN IF key.need < size THEN key.need ELSE size

\* The team that is alone at the flag, if there is one
Alone ==
    IF \E t \in Teams : Count(t) > 0 /\ Count(Other(t)) <= 0
    THEN CHOOSE t \in Teams : Count(t) > 0
    ELSE Nobody

\* Who is put on the list of a flag that t captures, or holds.
Capturers(t) == IF key.trigger THEN Indexed(t) \cap alive ELSE Standing(t)
Joining(t) == IF key.trigger THEN Indexed(t) ELSE Standing(t)

Ticked == IF due > 0 THEN due - 1 ELSE 0

\* Capture(t), when the match is not over
Capture(t) ==
    /\ owner' = t
    /\ holders' = Capturers(t)
    /\ capturing' = Nobody

(***************************************************************************)
(* ThinkUncapped, after ThinkCapped has left the flag to o and its list h; *)
(* c is m_iLastTeam.                                                       *)
(***************************************************************************)
ThinkUncapped(o, h, c) ==
    LET ignored == over \/ (Alone # Nobody /\ Alone = o)
        enough == Alone # Nobody /\ Count(Alone) >= Needed(Alone)
    IN  \/ /\ ignored
           /\ owner' = o /\ holders' = h /\ capturing' = c /\ due' = Ticked
        \/ /\ ~ignored /\ ~enough
           /\ owner' = o /\ holders' = h /\ capturing' = Nobody /\ due' = 0
        \/ /\ ~ignored /\ enough /\ c # Alone
           /\ owner' = o /\ holders' = h /\ capturing' = Alone /\ due' = CaptureTime
        \/ /\ ~ignored /\ enough /\ c = Alone
           /\ IF Ticked = 0
              THEN Capture(Alone)
              ELSE owner' = o /\ holders' = h /\ capturing' = c
           /\ due' = Ticked

\* The condition under which ThinkCapped gives the flag up
LostWhileGuarded(h) ==
    \/ Count(Other(owner)) > 0
    \/ key.uncapOnDeath /\ h = {}
Lost(h) ==
    \/ Count(Other(owner)) > 0 /\ Friends(owner) <= 0
    \/ key.uncapOnDeath /\ h = {}

\* The history: the team stood there alone, as many as it takes.
StoodAlone(t) ==
    /\ t \in key.forTeam /\ Standing(t) # {}
    /\ Other(t) \in key.forTeam => Standing(Other(t)) = {}
    /\ Cardinality(Standing(t)) >= key.need \/ Standing(t) = Members(t)

Recorded(t, n) ==
    IF StoodAlone(t) /\ owner' # t THEN IF n < CaptureTime THEN n + 1 ELSE n ELSE 0

Think ==
    /\ UNCHANGED <<key, active, listed, playerVars, over>>
    /\ IF ~active
       THEN /\ owner' = Nobody /\ capturing' = Nobody
            /\ stood' = [t \in Teams |-> 0]
            /\ UNCHANGED <<due, holders>>
       ELSE /\ IF owner = Nobody THEN ThinkUncapped(Nobody, holders, capturing)
               ELSE LET h == holders \cup Joining(owner)
                    IN  IF ~key.keeps /\ Lost(h)
                        THEN ThinkUncapped(Nobody, {}, capturing)
                        ELSE ThinkUncapped(owner, h, capturing)
            /\ stood' = [t \in Teams |-> Recorded(t, stood[t])]
-------------------------------------------------------------------------------
(***************************************************************************)
(* The flag's inputs.  Disabling it leaves its owner to the next Think;    *)
(* enabling it thinks at once.                                             *)
(***************************************************************************)
Disable ==
    /\ key.inputs /\ active
    /\ active' = FALSE
    /\ UNCHANGED <<key, owner, capturing, due, holders, listed, playerVars, over, stood>>

Enable ==
    /\ key.inputs /\ ~active
    /\ active' = TRUE
    /\ ThinkUncapped(Nobody, holders, Nobody)
    /\ stood' = [t \in Teams |-> Recorded(t, 0)]
    /\ UNCHANGED <<key, listed, playerVars, over>>

\* ForceCap, which asks neither who may capture the flag nor whether it is on
ForceCap(t) ==
    /\ key.inputs /\ ~over
    /\ Capture(t)
    /\ stood' = [stood EXCEPT ![t] = 0]
    /\ UNCHANGED <<key, active, due, listed, playerVars, over>>
-------------------------------------------------------------------------------
(***************************************************************************)
(* The players.                                                            *)
(***************************************************************************)
\* FindAndRemove, which removes one entry if there is one, n times
Fewer(k, n) == IF k > n THEN k - n ELSE 0
KeepEntries(p, n) == listed
WithoutCheck(p, n) == [t \in Teams |-> [listed[t] EXCEPT ![p] = @ - n]]
RemoveEntries(p, n) == [t \in Teams |-> [listed[t] EXCEPT ![p] = Fewer(@, n)]]

KeepHolding(p) == holders
LeaveHolders(p) == holders \ {p}

\* Whether the trigger's StartTouch and EndTouch see the player
Seen(p) == key.trigger /\ active /\ team[p] \in key.forTeam

\* StartTouch: a living player walks up to the flag.
Enter(p) ==
    /\ p \in alive \ near
    /\ Seen(p) => listed[team[p]][p] < MaxTouch
    /\ near' = near \cup {p}
    /\ listed' = IF Seen(p) THEN [listed EXCEPT ![team[p]][p] = @ + 1] ELSE listed
    /\ UNCHANGED <<key, flagVars, team, alive, over, stood>>

\* EndTouch: a player, or his body, leaves it.
Leave(p) ==
    /\ p \in near
    /\ near' = near \ {p}
    /\ listed' = IF Seen(p) THEN [listed EXCEPT ![team[p]][p] = Fewer(@, 1)] ELSE listed
    /\ UNCHANGED <<key, flagVars, team, alive, over, stood>>

\* Event_Killed and its RemoveSelfFromFlags
Die(p) ==
    /\ p \in alive
    /\ alive' = alive \ {p}
    /\ holders' = LeaveHolders(p)
    /\ listed' = RemoveEntries(p, 1)
    /\ UNCHANGED <<key, active, owner, capturing, due, team, near, over, stood>>

\* A player comes to life at his team's spawn point.
Spawn(p) ==
    /\ team[p] \in Teams
    /\ p \notin alive \cup near
    /\ alive' = alive \cup {p}
    /\ UNCHANGED <<key, flagVars, listed, team, near, over, stood>>

Connect(p) ==
    /\ team[p] = Nobody
    /\ team' = [team EXCEPT ![p] = Spectators]
    /\ UNCHANGED <<key, flagVars, listed, alive, near, over, stood>>

\* ForceJoin: the player is killed if he is alive, and changes teams.
ChangeTeam(p, to) ==
    /\ team[p] \notin {Nobody, to}
    /\ team' = [team EXCEPT ![p] = to]
    /\ alive' = alive \ {p}
    /\ holders' = LeaveHolders(p)
    /\ listed' = RemoveEntries(p, IF p \in alive THEN 2 ELSE 1)
    /\ UNCHANGED <<key, active, owner, capturing, due, near, over, stood>>

\* ClientDisconnected; the trigger loses touch with a player who was there.
Disconnect(p) ==
    /\ team[p] # Nobody
    /\ team' = [team EXCEPT ![p] = Nobody]
    /\ alive' = alive \ {p} /\ near' = near \ {p}
    /\ holders' = LeaveHolders(p)
    /\ listed' = RemoveEntries(p, IF p \in near /\ Seen(p) THEN 2 ELSE 1)
    /\ UNCHANGED <<key, active, owner, capturing, due, over, stood>>
-------------------------------------------------------------------------------
(***************************************************************************)
(* RestartRound: ResetFlag, and everybody starts from his spawn point, the *)
(* teams perhaps with changed sides.                                       *)
(***************************************************************************)
Restart ==
    /\ active' = TRUE
    /\ owner' = key.start
    /\ capturing' = Nobody
    /\ holders' = {}
    /\ listed' = [t \in Teams |-> [p \in Players |-> 0]]
    /\ team' \in {team, [p \in Players |-> IF team[p] \in Teams THEN Other(team[p]) ELSE team[p]]}
    /\ alive' = {p \in Players : team[p] \in Teams}
    /\ near' = {}
    /\ stood' = [t \in Teams |-> 0]
    /\ UNCHANGED <<key, due, over>>

EndMatch ==
    /\ ~over
    /\ over' = TRUE
    /\ UNCHANGED <<key, flagVars, listed, playerVars, stood>>

Next ==
    \/ Think
    \/ Disable \/ Enable \/ \E t \in Teams : ForceCap(t)
    \/ \E p \in Players :
          \/ Enter(p) \/ Leave(p) \/ Die(p) \/ Spawn(p) \/ Connect(p) \/ Disconnect(p)
          \/ \E to \in Teams \cup {Spectators} : ChangeTeam(p, to)
    \/ Restart \/ EndMatch

Spec == Init /\ [][Next]_vars

\* SetNextThink: the engine calls Think again and again.
FairSpec == Spec /\ WF_vars(Think)
-------------------------------------------------------------------------------
(***************************************************************************)
(* Properties.                                                             *)
(***************************************************************************)
\* The type of every variable; only players of a playing team are alive.
TypeOK ==
    /\ key \in Keys
    /\ active \in BOOLEAN /\ over \in BOOLEAN
    /\ owner \in Teams \cup {Nobody}
    /\ capturing \in Teams \cup {Nobody}
    /\ due \in 0..CaptureTime
    /\ holders \subseteq Players
    /\ listed \in [Teams -> [Players -> 0..MaxTouch]]
    /\ team \in [Players -> Teams \cup {Spectators, Nobody}]
    /\ alive \subseteq {p \in Players : team[p] \in Teams}
    /\ near \subseteq Players
    /\ stood \in [Teams -> 0..CaptureTime]

(***************************************************************************)
(* The players who hold a flag are living players of the team that owns it *)
(* (flag.h:185-187: who dies, changes teams or disconnects is removed from *)
(* the list), whatever happens between two Thinks.                         *)
(***************************************************************************)
HoldersAreOwners ==
    ~key.trigger /\ owner \in Teams => holders \subseteq Members(owner) \cap alive

(***************************************************************************)
(* Flags of which more is true: a trigger is never turned off; a flag that *)
(* cannot be uncapped is for one team; a trigger sees the owners, and the  *)
(* flag needs no list made of list positions (flag.cpp:761).               *)
(***************************************************************************)
SteadyTriggers == \A k \in Keys : k.trigger => ~k.inputs

OwnersAreUncapped == \A k \in Keys : k.keeps => k.forTeam # Teams

GuardedTriggers ==
    \A k \in Keys : k.trigger /\ ~k.keeps =>
        ~k.uncapOnDeath /\ k.start \in k.forTeam \cup {Nobody}

(***************************************************************************)
(* A Think gives the flag to a team only if, at this Think and at those of *)
(* the CaptureTime before it, the team stood there alone and in sufficient *)
(* number ("wait for m_iCapturePlayers ... to stand near it for            *)
(* m_flCaptureTime seconds", flag.cpp:289).                                *)
(***************************************************************************)
CaptureIsEarned ==
    [][\A t \in Teams : Think /\ owner # t /\ owner' = t
           => StoodAlone(t) /\ stood[t] >= CaptureTime]_vars

(***************************************************************************)
(* A Think takes the flag from a team only if none of the team is there    *)
(* ("any enemy walking into a capture zone without a friendly player       *)
(* inside", flag.cpp:296; "when all the people who captured the flag die", *)
(* flag.cpp:294).  The team a flag is not for cannot guard it against a    *)
(* capture.                                                                *)
(***************************************************************************)
LossIsDeserved ==
    [][\A t \in Teams : Think /\ active /\ owner = t /\ owner' # t
           => Standing(t) = {} \/ (t \notin key.forTeam /\ owner' = Other(t))]_vars

(***************************************************************************)
(* The trigger's lists hold the living players who touch it, each once, as *)
(* long as the map does not turn the flag off and on.                      *)
(***************************************************************************)
ListsAreExact ==
    key.trigger /\ ~key.inputs =>
        \A t \in key.forTeam, p \in Players :
            listed[t][p] = IF p \in Standing(t) THEN 1 ELSE 0

(***************************************************************************)
(* A team that stays on the flag alone, with as many as it takes or all    *)
(* its players, gets it (ThinkUncapped).                                   *)
(***************************************************************************)
Unopposed(t) == active /\ ~over /\ ~key.inputs /\ StoodAlone(t)

CaptureHappens == \A t \in Teams : <>[]Unopposed(t) => <>[](owner = t)
===============================================================================
