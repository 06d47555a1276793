-------------------------- MODULE CaptureFlagProofs --------------------------
(***************************************************************************)
(* Type correctness of CaptureFlag, that holders are living owners, that   *)
(* the lists of a trigger are exact, that captures are earned and losses   *)
(* deserved, for any players and flags.                                    *)
(***************************************************************************)
EXTENDS CaptureFlag, FiniteSetTheorems, TLAPS

\* What is true of a team that is alone at the flag.
LEMMA AloneType == Alone \in Teams \cup {Nobody}
BY DEF Alone

LEMMA TeamsDiffer == Nobody \notin Teams /\ Spectators \notin Teams
BY DEF Nobody, Spectators, Teams, Americans, British

\* Whoever is counted at the flag is a player.
LEMMA CountedArePlayers ==
    ASSUME NEW t \in Teams
    PROVE  Capturers(t) \subseteq Players /\ Joining(t) \subseteq Players
BY DEF Capturers, Joining, Indexed, Standing, Members

\* A Think leaves a flag with its old owner and holders, or captured.
LEMMA ThinkUncappedTypes ==
    ASSUME TypeOK, NEW o \in Teams \cup {Nobody}, NEW h \in SUBSET Players,
           NEW c \in Teams \cup {Nobody}, ThinkUncapped(o, h, c)
    PROVE  /\ owner' \in Teams \cup {Nobody}
           /\ capturing' \in Teams \cup {Nobody}
           /\ due' \in 0..CaptureTime
           /\ holders' \subseteq Players
           /\ \/ owner' = o /\ holders' = h
              \/ owner' \in Teams /\ holders' = Capturers(owner')
<1> DEFINE ignored == over \/ (Alone # Nobody /\ Alone = o)
           enough == Alone # Nobody /\ Count(Alone) >= Needed(Alone)
<1>1. Ticked \in 0..CaptureTime /\ 0 \in 0..CaptureTime /\ CaptureTime \in 0..CaptureTime
  BY NumberAssumption DEF Ticked, TypeOK
<1>2. CASE owner' = o /\ holders' = h
  <2>1. capturing' \in {c, Nobody, Alone} /\ due' \in {Ticked, 0, CaptureTime}
    BY DEF ThinkUncapped, Capture
  <2> QED
    BY <1>1, <1>2, <2>1, AloneType
<1>3. CASE Alone \in Teams /\ Capture(Alone) /\ due' = Ticked
  BY <1>1, <1>3, CountedArePlayers DEF Capture
<1>4. \/ owner' = o /\ holders' = h
      \/ Alone # Nobody /\ Capture(Alone) /\ due' = Ticked
  BY DEF ThinkUncapped
<1> QED
  BY <1>2, <1>3, <1>4, AloneType

\* The history stays within its bound.
LEMMA RecordedType ==
    ASSUME NEW t, NEW n \in 0..CaptureTime
    PROVE  Recorded(t, n) \in 0..CaptureTime
BY NumberAssumption DEF Recorded

\* Lists hold a player a bounded number of times.
LEMMA RemoveEntriesType ==
    ASSUME listed \in [Teams -> [Players -> 0..MaxTouch]], NEW p \in Players, NEW n \in Nat
    PROVE  RemoveEntries(p, n) \in [Teams -> [Players -> 0..MaxTouch]]
<1>1. \A k \in 0..MaxTouch : Fewer(k, n) \in 0..MaxTouch
  BY NumberAssumption DEF Fewer
<1> QED
  BY <1>1 DEF RemoveEntries
-------------------------------------------------------------------------------
\* Every step keeps the types.
LEMMA TypeStep == TypeOK /\ [Next]_vars => TypeOK'
<1> SUFFICES ASSUME TypeOK, [Next]_vars
             PROVE  TypeOK'
  OBVIOUS
<1> USE DEF flagVars, playerVars
<1>1. CASE UNCHANGED vars
  BY <1>1 DEF TypeOK, vars
<1>2. CASE Think
  <2>1. CASE ~active
    <3>1. stood' \in [Teams -> 0..CaptureTime]
      BY <1>2, <2>1, NumberAssumption DEF Think
    <3> QED
      BY <1>2, <2>1, <3>1 DEF Think, TypeOK
  <2>2. CASE active
    <3>1. PICK o \in Teams \cup {Nobody}, h \in SUBSET Players : ThinkUncapped(o, h, capturing)
      <4>1. owner # Nobody => holders \cup Joining(owner) \in SUBSET Players
        BY CountedArePlayers DEF TypeOK
      <4> QED
        BY <1>2, <2>2, <4>1 DEF Think, TypeOK
    <3>2. stood' \in [Teams -> 0..CaptureTime]
      BY <1>2, <2>2, RecordedType DEF Think, TypeOK
    <3> QED
      BY <1>2, <3>1, <3>2, ThinkUncappedTypes DEF Think, TypeOK
  <2> QED
    BY <2>1, <2>2
<1>3. CASE Disable
  BY <1>3 DEF Disable, TypeOK
<1>4. CASE Enable
  <2>1. stood' \in [Teams -> 0..CaptureTime]
    BY <1>4, RecordedType, NumberAssumption DEF Enable
  <2> QED
    BY <1>4, <2>1, ThinkUncappedTypes DEF Enable, TypeOK
<1>5. CASE \E t \in Teams : ForceCap(t)
  <2>1. stood' \in [Teams -> 0..CaptureTime]
    BY <1>5, NumberAssumption DEF ForceCap, TypeOK
  <2> QED
    BY <1>5, <2>1, CountedArePlayers DEF ForceCap, Capture, TypeOK
<1>6. CASE Restart
  <2>1. team' \in [Players -> Teams \cup {Spectators, Nobody}]
    BY <1>6 DEF Restart, TypeOK, Other, Teams
  <2>2. alive' \subseteq {p \in Players : team'[p] \in Teams}
    BY <1>6 DEF Restart, TypeOK, Other, Teams
  <2> QED
    BY <1>6, <2>1, <2>2, NumberAssumption, KeyAssumption DEF Restart, TypeOK
<1>7. CASE EndMatch
  BY <1>7 DEF EndMatch, TypeOK
<1>8. ASSUME NEW p \in Players,
             Enter(p) \/ Leave(p) \/ Die(p) \/ Spawn(p) \/ Connect(p) \/ Disconnect(p)
             \/ \E to \in Teams \cup {Spectators} : ChangeTeam(p, to)
      PROVE  TypeOK'
  <2>0. \A k \in 0..MaxTouch : (k < MaxTouch => k + 1 \in 0..MaxTouch) /\ Fewer(k, 1) \in 0..MaxTouch
    BY NumberAssumption DEF Fewer
  <2>00. /\ RemoveEntries(p, 1) \in [Teams -> [Players -> 0..MaxTouch]]
         /\ RemoveEntries(p, 2) \in [Teams -> [Players -> 0..MaxTouch]]
    BY RemoveEntriesType DEF TypeOK
  <2>1. CASE Enter(p)
    <3>1. listed' \in [Teams -> [Players -> 0..MaxTouch]]
      BY <2>0, <2>1 DEF Enter, TypeOK
    <3> QED
      BY <2>1, <3>1 DEF Enter, TypeOK
  <2>2. CASE Leave(p)
    <3>1. listed' \in [Teams -> [Players -> 0..MaxTouch]]
      BY <2>0, <2>2 DEF Leave, TypeOK
    <3> QED
      BY <2>2, <3>1 DEF Leave, TypeOK
  <2>3. CASE Die(p)
    BY <2>3, <2>00 DEF Die, TypeOK, LeaveHolders
  <2>4. CASE Spawn(p)
    BY <2>4 DEF Spawn, TypeOK
  <2>5. CASE Connect(p)
    BY <2>5, TeamsDiffer DEF Connect, TypeOK
  <2>6. CASE Disconnect(p)
    BY <2>6, <2>00 DEF Disconnect, TypeOK, LeaveHolders
  <2>7. CASE \E to \in Teams \cup {Spectators} : ChangeTeam(p, to)
    BY <2>7, <2>00 DEF ChangeTeam, TypeOK, LeaveHolders
  <2> QED
    BY <1>8, <2>1, <2>2, <2>3, <2>4, <2>5, <2>6, <2>7
<1> QED
  BY <1>1, <1>2, <1>3, <1>4, <1>5, <1>6, <1>7, <1>8 DEF Next

\* Every reachable state has the types of TypeOK (CFlag and what surrounds it).
THEOREM TypeCorrect == Spec => []TypeOK
<1>1. Init => TypeOK
  <2> SUFFICES ASSUME Init PROVE TypeOK
    OBVIOUS
  <2>1. owner \in Teams \cup {Nobody}
    BY KeyAssumption DEF Init
  <2>2. 0 \in 0..CaptureTime /\ 0 \in 0..MaxTouch
    BY NumberAssumption
  <2> QED
    BY <2>1, <2>2 DEF Init, TypeOK
<1> QED
  BY <1>1, TypeStep, PTL DEF Spec
-------------------------------------------------------------------------------
(***************************************************************************)
(* HoldersAreOwners needs only the types: a Think adds to the list who     *)
(* stands there of the owners, and each way to stop being a living owner   *)
(* takes the player off it.                                                *)
(***************************************************************************)
LEMMA HoldersStep == TypeOK /\ HoldersAreOwners /\ [Next]_vars => HoldersAreOwners'
<1> SUFFICES ASSUME TypeOK, HoldersAreOwners, [Next]_vars, ~key'.trigger, owner' \in Teams
             PROVE  holders' \subseteq Members(owner)' \cap alive'
  BY DEF HoldersAreOwners
<1> USE DEF flagVars, playerVars
<1>0. key' = key
  BY DEF Next, vars, Think, Disable, Enable, ForceCap, Enter, Leave, Die, Spawn, Connect,
         Disconnect, ChangeTeam, Restart, EndMatch
<1>a. owner \in Teams => holders \subseteq Members(owner) \cap alive
  BY <1>0 DEF HoldersAreOwners
<1>b. \A t \in Teams : Capturers(t) \subseteq Members(t) \cap alive /\ Joining(t) \subseteq Members(t) \cap alive
  BY <1>0 DEF Capturers, Joining, Standing
<1>c. ASSUME team' = team, alive' = alive, holders' \subseteq Members(owner') \cap alive
      PROVE  holders' \subseteq Members(owner)' \cap alive'
  BY <1>c DEF Members
<1>1. CASE UNCHANGED vars
  BY <1>1, <1>a, <1>c DEF vars
<1>2. CASE Think
  <2>1. CASE ~active
    BY <1>2, <2>1, TeamsDiffer DEF Think
  <2>2. CASE active
    <3>1. PICK o \in Teams \cup {Nobody}, h \in SUBSET Players :
             /\ ThinkUncapped(o, h, capturing)
             /\ o \in Teams => h \subseteq Members(o) \cap alive
      <4>1. owner \in Teams => holders \cup Joining(owner) \subseteq Members(owner) \cap alive
        BY <1>a, <1>b
      <4>2. owner # Nobody => owner \in Teams /\ holders \cup Joining(owner) \in SUBSET Players
        BY CountedArePlayers DEF TypeOK
      <4> QED
        BY <1>2, <2>2, <4>1, <4>2, TeamsDiffer DEF Think, TypeOK
    <3> QED
      BY <1>2, <1>b, <1>c, <3>1, ThinkUncappedTypes DEF Think, TypeOK
  <2> QED
    BY <2>1, <2>2
<1>3. CASE Disable \/ EndMatch
  BY <1>3, <1>a, <1>c DEF Disable, EndMatch
<1>4. CASE Enable
  <2>1. ThinkUncapped(Nobody, holders, Nobody) /\ holders \in SUBSET Players
    BY <1>4 DEF Enable, TypeOK
  <2> QED
    BY <1>4, <1>b, <1>c, <2>1, ThinkUncappedTypes, TeamsDiffer DEF Enable
<1>5. CASE \E t \in Teams : ForceCap(t)
  BY <1>5, <1>b, <1>c DEF ForceCap, Capture
<1>6. CASE Restart
  BY <1>6 DEF Restart
<1>8. ASSUME NEW p \in Players,
             Enter(p) \/ Leave(p) \/ Die(p) \/ Spawn(p) \/ Connect(p) \/ Disconnect(p)
             \/ \E to \in Teams \cup {Spectators} : ChangeTeam(p, to)
      PROVE  holders' \subseteq Members(owner)' \cap alive'
  <2>1. owner' = owner
    BY <1>8 DEF Enter, Leave, Die, Spawn, Connect, Disconnect, ChangeTeam
  <2>2. CASE Enter(p) \/ Leave(p)
    BY <1>a, <1>c, <2>1, <2>2 DEF Enter, Leave
  <2>3. CASE Spawn(p)
    BY <1>a, <2>1, <2>3 DEF Spawn, Members
  <2>4. CASE Connect(p)
    BY <1>a, <2>1, <2>4, TeamsDiffer DEF Connect, Members, TypeOK
  <2>5. CASE Die(p) \/ Disconnect(p) \/ \E to \in Teams \cup {Spectators} : ChangeTeam(p, to)
    <3>1. holders' = holders \ {p} /\ alive' = alive \ {p}
      BY <2>5 DEF Die, Disconnect, ChangeTeam, LeaveHolders
    <3>2. \A q \in Players \ {p} : team'[q] = team[q]
      BY <2>5 DEF Die, Disconnect, ChangeTeam, TypeOK
    <3> QED
      BY <1>a, <2>1, <3>1, <3>2 DEF Members
  <2> QED
    BY <1>8, <2>2, <2>3, <2>4, <2>5
<1> QED
  BY <1>1, <1>2, <1>3, <1>4, <1>5, <1>6, <1>8 DEF Next

(***************************************************************************)
(* The players who hold a flag are living players of its owners, however   *)
(* they die, change teams or leave between two Thinks (HoldersAreOwners).  *)
(***************************************************************************)
THEOREM HoldersOwn == Spec => []HoldersAreOwners
<1>1. Init => HoldersAreOwners
  BY DEF Init, HoldersAreOwners
<1> QED
  BY <1>1, HoldersStep, TypeCorrect, PTL DEF Spec
-------------------------------------------------------------------------------
(***************************************************************************)
(* ListsAreExact, once more conjunct: without inputs a flag stays on, so   *)
(* that no coming and going escapes the trigger.                           *)
(***************************************************************************)
StaysOn == ~key.inputs => active

ListsInv == StaysOn /\ ListsAreExact

LEMMA ListsStep == TypeOK /\ ListsInv /\ [Next]_vars => ListsInv'
<1> SUFFICES ASSUME TypeOK, ListsInv, [Next]_vars
             PROVE  ListsInv'
  OBVIOUS
<1> USE DEF flagVars, playerVars
<1>0. key' = key
  BY DEF Next, vars, Think, Disable, Enable, ForceCap, Enter, Leave, Die, Spawn, Connect,
         Disconnect, ChangeTeam, Restart, EndMatch
<1>1. StaysOn'
  BY <1>0 DEF ListsInv, StaysOn, Next, vars, Think, Disable, Enable, ForceCap, Enter, Leave,
              Die, Spawn, Connect, Disconnect, ChangeTeam, Restart, EndMatch
<1> SUFFICES ASSUME key.trigger, ~key.inputs, NEW t \in key.forTeam, NEW q \in Players
             PROVE  listed'[t][q] = IF q \in Standing(t)' THEN 1 ELSE 0
  BY <1>0, <1>1 DEF ListsInv, ListsAreExact
<1>a. active /\ listed[t][q] = IF q \in Standing(t) THEN 1 ELSE 0
  BY DEF ListsInv, StaysOn, ListsAreExact
<1>b. t \in Teams
  BY KeyAssumption DEF TypeOK
<1>c. Fewer(0, 1) = 0 /\ Fewer(1, 1) = 0 /\ Fewer(0, 2) = 0 /\ Fewer(1, 2) = 0
  BY DEF Fewer
<1>d. ASSUME NEW p \in Players, NEW n \in {1, 2}, listed' = RemoveEntries(p, n)
      PROVE  listed'[t][q] = IF q = p THEN 0 ELSE listed[t][q]
  BY <1>a, <1>b, <1>c, <1>d DEF RemoveEntries, TypeOK
<1>2. CASE UNCHANGED <<listed, playerVars>>
  BY <1>a, <1>2 DEF Standing, Members
<1>3. CASE Restart
  BY <1>3, <1>b DEF Restart, Standing
<1>4. ASSUME NEW p \in Players, Enter(p)
      PROVE  listed'[t][q] = IF q \in Standing(t)' THEN 1 ELSE 0
  <2>1. Seen(p) <=> team[p] \in key.forTeam
    BY <1>a DEF Seen
  <2>2. listed'[t][q] = IF q = p /\ team[p] = t THEN listed[t][q] + 1 ELSE listed[t][q]
    BY <1>4, <1>b, <2>1 DEF Enter, TypeOK
  <2>3. q \in Standing(t)' <=> q \in Standing(t) \/ (q = p /\ team[p] = t)
    BY <1>4 DEF Enter, Standing, Members
  <2>4. p \notin Standing(t)
    BY <1>4 DEF Enter, Standing
  <2> QED
    BY <1>a, <2>2, <2>3, <2>4
<1>5. ASSUME NEW p \in Players, Leave(p)
      PROVE  listed'[t][q] = IF q \in Standing(t)' THEN 1 ELSE 0
  <2>1. Seen(p) <=> team[p] \in key.forTeam
    BY <1>a DEF Seen
  <2>2. listed'[t][q] = IF q = p /\ team[p] = t THEN Fewer(listed[t][q], 1) ELSE listed[t][q]
    BY <1>5, <1>b, <2>1 DEF Leave, TypeOK
  <2>3. q \in Standing(t)' <=> q \in Standing(t) /\ q # p
    BY <1>5 DEF Leave, Standing, Members
  <2>4. q \in Standing(t) => team[q] = t
    BY DEF Standing, Members
  <2> QED
    BY <1>a, <1>c, <2>2, <2>3, <2>4
<1>6. ASSUME NEW p \in Players, Die(p) \/ Disconnect(p) \/ \E to \in Teams \cup {Spectators} : ChangeTeam(p, to)
      PROVE  listed'[t][q] = IF q \in Standing(t)' THEN 1 ELSE 0
  <2>1. PICK n \in {1, 2} : listed' = RemoveEntries(p, n)
    BY <1>6 DEF Die, Disconnect, ChangeTeam
  <2>2. q \in Standing(t)' <=> q \in Standing(t) /\ q # p
    BY <1>6 DEF Die, Disconnect, ChangeTeam, Standing, Members, TypeOK
  <2> QED
    BY <1>a, <1>d, <2>1, <2>2
<1>7. ASSUME NEW p \in Players, Spawn(p) \/ Connect(p)
      PROVE  listed'[t][q] = IF q \in Standing(t)' THEN 1 ELSE 0
  <2>1. listed' = listed
    BY <1>7 DEF Spawn, Connect
  <2>2. q \in Standing(t)' <=> q \in Standing(t)
    BY <1>7, <1>b, TeamsDiffer DEF Spawn, Connect, Standing, Members, TypeOK
  <2> QED
    BY <1>a, <2>1, <2>2
<1>8. CASE Think \/ Disable \/ Enable \/ EndMatch \/ \E u \in Teams : ForceCap(u)
  BY <1>2, <1>8 DEF Think, Disable, Enable, EndMatch, ForceCap
<1> QED
  BY <1>2, <1>3, <1>4, <1>5, <1>6, <1>7, <1>8 DEF Next, vars

(***************************************************************************)
(* The lists of a trigger hold the living players who touch it, each once  *)
(* (ListsAreExact), for any number of players and any order of events.     *)
(***************************************************************************)
THEOREM ListsStayExact == Spec => []ListsAreExact
<1>1. Init => ListsInv
  <2> SUFFICES ASSUME Init PROVE ListsInv
    OBVIOUS
  <2>1. key.forTeam \subseteq Teams
    BY KeyAssumption DEF Init
  <2> QED
    BY <2>1 DEF Init, ListsInv, StaysOn, ListsAreExact, Standing
<1>2. ListsInv => ListsAreExact
  BY DEF ListsInv
<1> QED
  BY <1>1, <1>2, ListsStep, TypeCorrect, PTL DEF Spec
-------------------------------------------------------------------------------
(***************************************************************************)
(* What a Think counts are the living players who stand at the flag, if    *)
(* its trigger, should it have one, is never turned off: who the flag is   *)
(* not for is on no list.                                                  *)
(***************************************************************************)
NoStrangers == \A t \in Teams \ key.forTeam, p \in Players : listed[t][p] = 0

CountsInv == ListsInv /\ NoStrangers

LEMMA KeyIsKept ==
    ASSUME [Next]_vars
    PROVE  key' = key
BY DEF Next, vars, Think, Disable, Enable, ForceCap, Enter, Leave, Die, Spawn, Connect,
       Disconnect, ChangeTeam, Restart, EndMatch

LEMMA StrangersStep == TypeOK /\ NoStrangers /\ [Next]_vars => NoStrangers'
<1> SUFFICES ASSUME TypeOK, NoStrangers, [Next]_vars, NEW t \in Teams \ key.forTeam, NEW q \in Players
             PROVE  listed'[t][q] = 0
  BY KeyIsKept DEF NoStrangers
<1>1. listed[t][q] = 0
  BY DEF NoStrangers
<1>2. Fewer(0, 1) = 0 /\ Fewer(0, 2) = 0
  BY DEF Fewer
<1>3. CASE listed' = listed
  BY <1>1, <1>3
<1>4. CASE Restart
  BY <1>4 DEF Restart
<1>5. ASSUME NEW p \in Players, Enter(p) \/ Leave(p)
      PROVE  listed'[t][q] = 0
  <2>1. Seen(p) => team[p] \in key.forTeam
    BY DEF Seen
  <2>2. team[p] # t => [listed EXCEPT ![team[p]][p] = @ + 1][t][q] = listed[t][q]
    BY DEF TypeOK
  <2>3. team[p] # t => [listed EXCEPT ![team[p]][p] = Fewer(@, 1)][t][q] = listed[t][q]
    BY DEF TypeOK
  <2> QED
    BY <1>1, <1>5, <2>1, <2>2, <2>3 DEF Enter, Leave
<1>6. ASSUME NEW p \in Players, NEW n \in {1, 2}, listed' = RemoveEntries(p, n)
      PROVE  listed'[t][q] = 0
  BY <1>1, <1>2, <1>6 DEF RemoveEntries, TypeOK
<1>7. ASSUME NEW p \in Players, Die(p) \/ Disconnect(p) \/ \E to \in Teams \cup {Spectators} : ChangeTeam(p, to)
      PROVE  listed'[t][q] = 0
  BY <1>6, <1>7 DEF Die, Disconnect, ChangeTeam
<1>8. \/ listed' = listed
      \/ Restart
      \/ \E p \in Players : \/ Enter(p) \/ Leave(p) \/ Die(p) \/ Disconnect(p)
                            \/ \E to \in Teams \cup {Spectators} : ChangeTeam(p, to)
  BY DEF Next, vars, Think, Disable, Enable, ForceCap, Spawn, Connect, EndMatch
<1> QED
  BY <1>3, <1>4, <1>5, <1>7, <1>8

LEMMA StandingFinite ==
    ASSUME NEW t
    PROVE  /\ IsFiniteSet(Standing(t)) /\ IsFiniteSet(Members(t))
           /\ Cardinality(Standing(t)) \in Nat /\ Cardinality(Members(t)) \in Nat
           /\ Cardinality(Standing(t)) = 0 <=> Standing(t) = {}
           /\ Cardinality(Standing(t)) >= Cardinality(Members(t)) => Standing(t) = Members(t)
<1>1. Standing(t) \in SUBSET Members(t) /\ Members(t) \in SUBSET Players
  BY DEF Standing, Members
<1>2. IsFiniteSet(Members(t))
  BY <1>1, PlayerAssumption, FS_Subset
<1>3. /\ IsFiniteSet(Standing(t)) /\ Cardinality(Standing(t)) <= Cardinality(Members(t))
      /\ Cardinality(Members(t)) = Cardinality(Standing(t)) => Members(t) = Standing(t)
  BY <1>1, <1>2, FS_Subset
<1>4. Cardinality(Standing(t)) \in Nat /\ Cardinality(Members(t)) \in Nat
  BY <1>2, <1>3, FS_CardinalityType
<1>. QED
  BY <1>2, <1>3, <1>4, FS_EmptySet

LEMMA EntriesAre ==
    ASSUME TypeOK, CountsInv, key.trigger, ~key.inputs, NEW t \in Teams
    PROVE  Entries(t) = IF t \in key.forTeam THEN Cardinality(Standing(t)) ELSE 0
<1> DEFINE entries == {x \in Players \X (1..MaxTouch) : x[2] <= listed[t][x[1]]}
<1>1. Entries(t) = Cardinality(entries)
  BY DEF Entries
<1>2. MaxTouch \in Nat /\ 1 \in 1..MaxTouch
  BY NumberAssumption
<1>3. CASE t \in key.forTeam
  <2>1. \A p \in Players : listed[t][p] = IF p \in Standing(t) THEN 1 ELSE 0
    BY <1>3 DEF CountsInv, ListsInv, ListsAreExact
  <2>2. Standing(t) \subseteq Players
    BY DEF Standing, Members
  <2>3. entries = Standing(t) \X {1}
    <3>1. ASSUME NEW p \in Players, NEW n \in 1..MaxTouch
          PROVE  n <= listed[t][p] <=> (p \in Standing(t) /\ n = 1)
      BY <2>1
    <3>2. entries \subseteq Standing(t) \X {1}
      BY <3>1
    <3>3. Standing(t) \X {1} \subseteq entries
      BY <1>2, <2>2, <3>1
    <3>. QED
      BY <3>2, <3>3
  <2>4. IsFiniteSet({1}) /\ Cardinality({1}) = 1
    BY FS_Singleton
  <2>5. IsFiniteSet(Standing(t)) /\ Cardinality(Standing(t)) \in Nat
    BY StandingFinite
  <2> DEFINE S == Standing(t)
             one == {1}
  <2> HIDE DEF S, one
  <2>6. Cardinality(S \X one) = Cardinality(S) * Cardinality(one)
    BY <2>4, <2>5, FS_Product DEF S, one
  <2>7. Cardinality(S \X one) = Cardinality(S)
    BY <2>4, <2>5, <2>6 DEF S, one
  <2>. QED
    BY <1>1, <1>3, <2>3, <2>7 DEF S, one
<1>4. CASE t \notin key.forTeam
  <2>1. \A p \in Players : listed[t][p] = 0
    BY <1>4 DEF CountsInv, NoStrangers
  <2>2. entries = {}
    BY <1>2, <2>1
  <2>. QED
    BY <1>1, <1>4, <2>2, FS_EmptySet
<1>. QED
  BY <1>3, <1>4

LEMMA CountsAre ==
    ASSUME TypeOK, CountsInv, SteadyTriggers, NEW t \in Teams
    PROVE  /\ Count(t) = IF t \in key.forTeam THEN Cardinality(Standing(t)) ELSE 0
           /\ t \in key.forTeam => Friends(t) = Cardinality(Standing(t))
           /\ ~key.trigger => Friends(t) = Cardinality(Standing(t))
<1>1. key.trigger => ~key.inputs
  BY DEF SteadyTriggers, TypeOK
<1>. QED
  BY <1>1, EntriesAre DEF Count, Friends

\* The team that is alone stands there, and nobody of the other may capture.
LEMMA AloneStands ==
    ASSUME TypeOK, CountsInv, SteadyTriggers, Alone # Nobody
    PROVE  /\ Alone \in key.forTeam /\ Standing(Alone) # {}
           /\ Count(Alone) > 0 /\ Count(Other(Alone)) = 0
           /\ Other(Alone) \in key.forTeam => Standing(Other(Alone)) = {}
           /\ Count(Alone) >= Needed(Alone) => StoodAlone(Alone)
<1>1. ASSUME NEW t \in Teams
      PROVE  /\ Other(t) \in Teams /\ Other(t) # t /\ Other(Other(t)) = t
             /\ Count(t) \in Nat
             /\ Count(t) = IF t \in key.forTeam THEN Cardinality(Standing(t)) ELSE 0
  BY CountsAre, StandingFinite DEF Other, Teams, Americans, British
<1>2. PICK t \in Teams : Count(t) > 0 /\ Count(Other(t)) <= 0
  BY DEF Alone
<1>3. \A u \in Teams : u = t \/ u = Other(t)
  BY DEF Teams, Other
<1>4. \A u \in Teams : Count(u) > 0 <=> u = t
  <2>1. ~(Count(Other(t)) > 0)
    BY <1>1, <1>2
  <2>. QED
    BY <1>2, <1>3, <2>1
<1>5. Alone = t
  <2>1. Alone = CHOOSE u \in Teams : Count(u) > 0
    BY <1>2 DEF Alone
  <2> HIDE DEF Alone
  <2>. QED
    BY <1>4, <2>1
<1>6. Count(Other(t)) = 0 /\ t \in key.forTeam /\ Standing(t) # {}
  <2>1. Count(Other(t)) = 0
    BY <1>1, <1>2
  <2>2. t \in key.forTeam /\ Cardinality(Standing(t)) > 0
    BY <1>1, <1>2
  <2>. QED
    BY <2>1, <2>2, StandingFinite
<1>7. Other(t) \in key.forTeam => Standing(Other(t)) = {}
  BY <1>1, <1>6, StandingFinite
<1>8. ASSUME Count(t) >= Needed(t)
      PROVE  StoodAlone(t)
  <2>1. Cardinality(Standing(t)) >= Needed(t) /\ key.need \in Nat
    BY <1>1, <1>6, <1>8, KeyAssumption DEF TypeOK
  <2>2. Cardinality(Standing(t)) >= key.need \/ Cardinality(Standing(t)) >= Cardinality(Members(t))
    BY <2>1 DEF Needed
  <2>3. Cardinality(Standing(t)) >= key.need \/ Standing(t) = Members(t)
    BY <2>2, StandingFinite
  <2>. QED
    BY <1>6, <1>7, <2>3 DEF StoodAlone
<1>. QED
  BY <1>2, <1>5, <1>6, <1>7, <1>8
-------------------------------------------------------------------------------
(***************************************************************************)
(* Captures are earned.  What the flag remembers of a capture that is      *)
(* going on is only who captures and when he is done.  It is right because *)
(* a flag that either team may take has no owner while a team captures it; *)
(* one that cannot be uncapped has (flag.cpp:453), and is left out.        *)
(***************************************************************************)
CaptureTimed ==
    /\ capturing \in key.forTeam \cup {Nobody}
    /\ key.forTeam = Teams /\ owner \in Teams => capturing = Nobody
    /\ capturing \in Teams =>
          /\ owner # capturing
          /\ ~over => \/ stood[capturing] >= CaptureTime
                      \/ stood[capturing] + due > CaptureTime

LEMMA UncappedTimed ==
    ASSUME TypeOK, CountsInv, SteadyTriggers, key' = key, over' = over,
           NEW o \in Teams \cup {Nobody}, NEW h, NEW c \in key.forTeam \cup {Nobody},
           NEW s \in [Teams -> 0..CaptureTime],
           ThinkUncapped(o, h, c), stood' = [t \in Teams |-> Recorded(t, s[t])],
           o \in Teams /\ key.forTeam = Teams => c = Nobody /\ Alone \in {o, Nobody},
           c \in Teams => /\ o # c
                          /\ ~over => s[c] >= CaptureTime \/ s[c] + due > CaptureTime
    PROVE  /\ CaptureTimed'
           /\ \A t \in Teams : owner' = t /\ o # t => StoodAlone(t) /\ s[t] >= CaptureTime
<1> DEFINE enough == Alone # Nobody /\ Count(Alone) >= Needed(Alone)
<1>1. /\ key.forTeam \subseteq Teams /\ Nobody \notin Teams
      /\ CaptureTime \in Nat /\ CaptureTime > 0 /\ due \in 0..CaptureTime
  BY KeyAssumption, NumberAssumption, TeamsDiffer DEF TypeOK
<1>2. Ticked \in Nat /\ (due = 0 => Ticked = 0) /\ (due > 0 => Ticked = due - 1)
  BY <1>1 DEF Ticked
<1>3. ASSUME NEW t \in Teams, StoodAlone(t), owner' # t
      PROVE  /\ stood'[t] \in Nat /\ stood'[t] > 0
             /\ stood'[t] >= CaptureTime \/ stood'[t] = s[t] + 1
  <2>1. stood'[t] = IF s[t] < CaptureTime THEN s[t] + 1 ELSE s[t]
    BY <1>3 DEF Recorded
  <2>2. s[t] \in 0..CaptureTime
    OBVIOUS
  <2>. QED
    BY <1>1, <2>1, <2>2
<1>4. CASE over
  <2>1. owner' = o /\ capturing' = c
    BY <1>4 DEF ThinkUncapped
  <2>. QED
    BY <1>1, <1>4, <2>1 DEF CaptureTimed
<1>5. CASE ~over /\ Alone # Nobody /\ Alone = o
  <2>1. owner' = o /\ capturing' = c
    BY <1>5 DEF ThinkUncapped
  <2>2. o \in key.forTeam
    BY <1>5, AloneStands
  <2>3. c = Nobody
    <3>1. c \in Teams => key.forTeam = Teams
      BY <1>1, <2>2 DEF Teams
    <3>. QED
      BY <1>1, <2>2, <3>1
  <2>. QED
    BY <1>1, <2>1, <2>3 DEF CaptureTimed
<1>6. CASE ~over /\ ~(Alone # Nobody /\ Alone = o) /\ ~enough
  <2>1. owner' = o /\ capturing' = Nobody
    BY <1>6 DEF ThinkUncapped
  <2>. QED
    BY <1>1, <2>1 DEF CaptureTimed
<1>7. CASE ~over /\ Alone # Nobody /\ Alone # o /\ enough
  <2>1. Alone \in key.forTeam /\ Alone \in Teams /\ StoodAlone(Alone)
    BY <1>1, <1>7, AloneStands
  <2>2. ~(key.forTeam = Teams /\ o \in Teams)
    BY <1>7
  <2>3. s[Alone] \in Nat
    BY <1>1, <2>1
  <2>4. CASE c # Alone
    <3>1. owner' = o /\ capturing' = Alone /\ due' = CaptureTime
      BY <1>7, <2>4 DEF ThinkUncapped
    <3>2. stood'[Alone] + due' > CaptureTime
      BY <1>1, <1>3, <1>7, <2>1, <3>1
    <3>. QED
      BY <1>7, <2>1, <2>2, <3>1, <3>2 DEF CaptureTimed
  <2>5. CASE c = Alone /\ Ticked = 0
    <3>1. owner' = Alone /\ capturing' = Nobody
      BY <1>7, <2>5 DEF ThinkUncapped, Capture
    <3>2. s[Alone] >= CaptureTime
      BY <1>1, <1>2, <1>7, <2>1, <2>3, <2>5
    <3>. QED
      BY <1>1, <2>1, <3>1, <3>2 DEF CaptureTimed
  <2>6. CASE c = Alone /\ Ticked # 0
    <3>1. owner' = o /\ capturing' = c /\ due' = Ticked
      BY <1>7, <2>6 DEF ThinkUncapped
    <3>2. stood'[Alone] >= CaptureTime \/ stood'[Alone] + due' > CaptureTime
      BY <1>1, <1>2, <1>3, <1>7, <2>1, <2>3, <2>6, <3>1
    <3>. QED
      BY <1>7, <2>1, <2>2, <2>6, <3>1, <3>2 DEF CaptureTimed
  <2>. QED
    BY <2>4, <2>5, <2>6
<1>. QED
  BY <1>4, <1>5, <1>6, <1>7

LEMMA ThinkTimed ==
    ASSUME TypeOK, CountsInv, SteadyTriggers, OwnersAreUncapped, CaptureTimed, Think
    PROVE  /\ CaptureTimed'
           /\ \A t \in Teams : owner # t /\ owner' = t => StoodAlone(t) /\ stood[t] >= CaptureTime
<1>1. key' = key /\ over' = over /\ Nobody \notin Teams
  BY TeamsDiffer DEF Think
<1>2. CASE ~active
  <2>1. owner' = Nobody /\ capturing' = Nobody
    BY <1>2 DEF Think
  <2>. QED
    BY <1>1, <2>1 DEF CaptureTimed
<1>3. CASE active
  <2>1. stood' = [t \in Teams |-> Recorded(t, stood[t])] /\ stood \in [Teams -> 0..CaptureTime]
    BY <1>3 DEF Think, TypeOK
  <2>2. \E o \in {owner, Nobody} : \E h :
           /\ ThinkUncapped(o, h, capturing)
           /\ o \in Teams => \E g : key.keeps \/ ~Lost(g)
    BY <1>1, <1>3 DEF Think
  <2>3. PICK o \in {owner, Nobody} : \E h :
           /\ ThinkUncapped(o, h, capturing)
           /\ o \in Teams => \E g : key.keeps \/ ~Lost(g)
    BY <2>2
  <2>4. o \in Teams \cup {Nobody}
    BY DEF TypeOK
  <2>5. capturing \in key.forTeam \cup {Nobody}
    BY DEF CaptureTimed
  <2>6. ASSUME o \in Teams, key.forTeam = Teams
        PROVE  capturing = Nobody /\ Alone \in {o, Nobody}
    <3>1. o = owner /\ owner \in Teams /\ ~key.keeps
      BY <1>1, <2>6 DEF OwnersAreUncapped, TypeOK
    <3>2. ~(Count(Other(owner)) > 0 /\ Friends(owner) <= 0)
      BY <2>3, <2>6, <3>1 DEF Lost
    <3>3. Alone # Other(owner)
      <4>1. SUFFICES ASSUME Alone = Other(owner)
                     PROVE  FALSE
        OBVIOUS
      <4>2. Other(owner) \in Teams /\ Other(Other(owner)) = owner
        BY <3>1 DEF Other, Teams, Americans, British
      <4>3. Count(Other(owner)) > 0 /\ Standing(owner) = {}
        BY <1>1, <2>6, <3>1, <4>1, <4>2, AloneStands
      <4>4. Friends(owner) = Cardinality(Standing(owner)) /\ Cardinality(Standing(owner)) = 0
        BY <2>6, <3>1, <4>3, CountsAre, StandingFinite
      <4>. QED
        BY <3>2, <4>3, <4>4
    <3>4. Alone \in {owner, Nobody}
      BY <3>1, <3>3, AloneType DEF Teams, Other
    <3>. QED
      BY <2>6, <3>1, <3>4 DEF CaptureTimed
  <2>7. ASSUME capturing \in Teams
        PROVE  /\ o # capturing
               /\ ~over => \/ stood[capturing] >= CaptureTime
                           \/ stood[capturing] + due > CaptureTime
    BY <1>1, <2>7 DEF CaptureTimed
  <2>8. /\ CaptureTimed'
        /\ \A t \in Teams : owner' = t /\ o # t => StoodAlone(t) /\ stood[t] >= CaptureTime
    BY <1>1, <2>1, <2>3, <2>4, <2>5, <2>6, <2>7, UncappedTimed
  <2>. QED
    BY <1>1, <2>8
<1>. QED
  BY <1>2, <1>3

LEMMA TimedStep ==
    ASSUME TypeOK, CountsInv, SteadyTriggers, OwnersAreUncapped, CaptureTimed, [Next]_vars
    PROVE  CaptureTimed'
<1>1. key' = key /\ Nobody \notin Teams
  BY KeyIsKept, TeamsDiffer
<1>2. CASE Think
  BY <1>2, ThinkTimed
<1>3. CASE Enable
  <2> DEFINE none == [t \in Teams |-> 0]
  <2>1. none \in [Teams -> 0..CaptureTime]
    BY NumberAssumption
  <2>2. /\ ThinkUncapped(Nobody, holders, Nobody) /\ over' = over
        /\ stood' = [t \in Teams |-> Recorded(t, none[t])]
    BY <1>3 DEF Enable
  <2> HIDE DEF none
  <2>. QED
    BY <1>1, <2>1, <2>2, UncappedTimed
<1>4. CASE capturing' = Nobody
  BY <1>1, <1>4 DEF CaptureTimed
<1>5. CASE UNCHANGED <<owner, capturing, due, stood>> /\ (over => over')
  BY <1>1, <1>5 DEF CaptureTimed
<1>6. \/ Think \/ Enable \/ capturing' = Nobody
      \/ UNCHANGED <<owner, capturing, due, stood>> /\ (over => over')
  BY DEF Next, vars, flagVars, Disable, ForceCap, Capture, Enter, Leave, Die, Spawn, Connect,
     Disconnect, ChangeTeam, Restart, EndMatch
<1>. QED
  BY <1>2, <1>3, <1>4, <1>5, <1>6

(***************************************************************************)
(* The counts hold in every reachable state.                               *)
(***************************************************************************)
LEMMA CountsHold == Spec => []CountsInv
<1>1. Init => CountsInv
  <2> SUFFICES ASSUME Init PROVE CountsInv
    OBVIOUS
  <2>1. key.forTeam \subseteq Teams
    BY KeyAssumption DEF Init
  <2>. QED
    BY <2>1 DEF Init, CountsInv, NoStrangers, ListsInv, StaysOn, ListsAreExact, Standing
<1>2. TypeOK /\ CountsInv /\ [Next]_vars => CountsInv'
  BY ListsStep, StrangersStep DEF CountsInv
<1>. QED
  BY <1>1, <1>2, TypeCorrect, PTL DEF Spec

(***************************************************************************)
(* A Think gives a flag only to a team that has stood there alone, as many *)
(* as it takes, for the time it takes (CaptureIsEarned): any players who   *)
(* come, go, die and change teams, and flags of any kind but those that    *)
(* cannot be uncapped and are for both teams, and those whose trigger is   *)
(* turned off and on.                                                      *)
(***************************************************************************)
THEOREM CapturesAreEarned ==
    SteadyTriggers /\ OwnersAreUncapped => (Spec => CaptureIsEarned)
<1>1. Init => CaptureTimed
  BY TeamsDiffer DEF Init, CaptureTimed
<1>2. ASSUME SteadyTriggers, OwnersAreUncapped
      PROVE  Spec => CaptureIsEarned
  <2>1. TypeOK /\ CountsInv /\ CaptureTimed /\ [Next]_vars => CaptureTimed'
    BY <1>2, TimedStep
  <2>2. TypeOK /\ CountsInv /\ CaptureTimed /\ [Next]_vars =>
           [\A t \in Teams : Think /\ owner # t /\ owner' = t
               => StoodAlone(t) /\ stood[t] >= CaptureTime]_vars
    BY <1>2, ThinkTimed
  <2>. QED
    BY <1>1, <2>1, <2>2, TypeCorrect, CountsHold, PTL DEF Spec, CaptureIsEarned
<1>. QED
  BY <1>2
-------------------------------------------------------------------------------
(***************************************************************************)
(* Losses are deserved.  A flag with a trigger must be owned by a team     *)
(* whose players the trigger sees, and must not depend on the list that    *)
(* is made of list positions (flag.cpp:761).                               *)
(***************************************************************************)
OwnerIsSeen ==
    key.trigger /\ ~key.keeps => owner \in key.forTeam \cup {Nobody}

LEMMA SeenStep ==
    ASSUME TypeOK, CountsInv, SteadyTriggers, GuardedTriggers, OwnerIsSeen, [Next]_vars
    PROVE  OwnerIsSeen'
<1> SUFFICES ASSUME key.trigger, ~key.keeps
             PROVE  owner' \in key.forTeam \cup {Nobody}
  BY KeyIsKept DEF OwnerIsSeen
<1>1. key.start \in key.forTeam \cup {Nobody} /\ ~key.inputs
  BY DEF GuardedTriggers, SteadyTriggers, TypeOK
<1>2. owner \in key.forTeam \cup {Nobody}
  BY DEF OwnerIsSeen
<1>3. CASE Think
  <2>1. owner' \in {owner, Nobody, Alone}
    BY <1>3 DEF Think, ThinkUncapped, Capture
  <2>. QED
    BY <1>2, <2>1, AloneStands
<1>4. CASE Restart
  BY <1>1, <1>4 DEF Restart
<1>5. CASE owner' = owner
  BY <1>2, <1>5
<1>6. Think \/ Restart \/ owner' = owner
  BY <1>1 DEF Next, vars, flagVars, Disable, Enable, ForceCap, Enter, Leave, Die, Spawn, Connect,
     Disconnect, ChangeTeam, EndMatch
<1>. QED
  BY <1>3, <1>4, <1>5, <1>6

LEMMA LossStep ==
    ASSUME TypeOK, CountsInv, SteadyTriggers, GuardedTriggers, OwnerIsSeen,
           NEW t \in Teams, Think, active, owner = t, owner' # t
    PROVE  Standing(t) = {} \/ (t \notin key.forTeam /\ owner' = Other(t))
<1>1. Nobody \notin Teams
  BY TeamsDiffer
<1> DEFINE h == holders \cup Joining(t)
<1>2. CASE ~key.keeps /\ Lost(h)
  <2>1. key.trigger => ~key.uncapOnDeath /\ t \in key.forTeam
    BY <1>1, <1>2 DEF GuardedTriggers, OwnerIsSeen, TypeOK
  <2>2. CASE Count(Other(t)) > 0 /\ Friends(t) <= 0
    <3>1. Friends(t) = Cardinality(Standing(t))
      BY <2>1, CountsAre
    <3>. QED
      BY <2>2, <3>1, StandingFinite
  <2>3. CASE key.uncapOnDeath /\ h = {}
    <3>1. Joining(t) = Standing(t)
      BY <2>1, <2>3 DEF Joining
    <3>. QED
      BY <2>3, <3>1
  <2>. QED
    BY <1>2, <2>2, <2>3 DEF Lost
<1>3. CASE key.keeps \/ ~Lost(h)
  <2>1. ThinkUncapped(t, h, capturing)
    BY <1>1, <1>3 DEF Think
  <2>2. Alone # Nobody /\ owner' = Alone
    <3> HIDE DEF h
    <3>. QED
      BY <2>1 DEF ThinkUncapped, Capture
  <2>3. t = Other(Alone) /\ Alone = Other(t)
    BY <2>2, AloneType DEF Other, Teams, Americans, British
  <2>. QED
    BY <2>2, <2>3, AloneStands
<1>. QED
  BY <1>2, <1>3

(***************************************************************************)
(* A Think takes the flag from a team only if none of it stands there, or  *)
(* if the flag is not for that team and is captured (LossIsDeserved): any  *)
(* players and flags, but for triggers that are turned off and on, or that *)
(* do not see the owner, or whose list must be met.                        *)
(***************************************************************************)
THEOREM LossesAreDeserved ==
    SteadyTriggers /\ GuardedTriggers => (Spec => LossIsDeserved)
<1>1. ASSUME GuardedTriggers
      PROVE  Init => OwnerIsSeen
  BY <1>1 DEF Init, OwnerIsSeen, GuardedTriggers
<1>2. ASSUME SteadyTriggers, GuardedTriggers
      PROVE  Spec => LossIsDeserved
  <2>1. TypeOK /\ CountsInv /\ OwnerIsSeen /\ [Next]_vars => OwnerIsSeen'
    BY <1>2, SeenStep
  <2>2. TypeOK /\ CountsInv /\ OwnerIsSeen /\ [Next]_vars =>
           [\A t \in Teams : Think /\ active /\ owner = t /\ owner' # t
               => Standing(t) = {} \/ (t \notin key.forTeam /\ owner' = Other(t))]_vars
    BY <1>2, LossStep
  <2>3. Init => OwnerIsSeen
    BY <1>1, <1>2
  <2>. QED
    BY <2>1, <2>2, <2>3, TypeCorrect, CountsHold, PTL DEF Spec, LossIsDeserved
<1>. QED
  BY <1>2
===============================================================================
