---------------------------- MODULE CtfFlagProofs ----------------------------
(***************************************************************************)
(* Capture the flag keeps its promise for any players, flags, places and   *)
(* maps: who carries a flag may, is slowed down, the teams never hold each *)
(* other's flags, and every step is one that Custody allows.               *)
(***************************************************************************)
EXTENDS CtfFlag, FiniteSetTheorems, TLAPS

(***************************************************************************)
(* That a carrier stays slowed down when somebody comes to life needs that *)
(* carriers are alive.                                                     *)
(***************************************************************************)
Inv == TypeOK /\ CustodyIsLegit /\ NoStandoff /\ CarriersAreSlowed

LEMMA Names ==
    /\ Nobody \notin Teams /\ Spectators \notin Teams /\ Teams # {}
    /\ NoPlayer \notin Players
    /\ \A t \in Teams : Other(t) \in Teams
    /\ AtHome \notin Teams /\ "lost" \notin Teams /\ AtHome # "lost"
BY PlayerAssumption DEF Nobody, Spectators, Teams, Americans, British, NoPlayer, Other, AtHome

\* What a rule's settings are.
LEMMA Settings ==
    ASSUME rules \in Rules
    PROVE  /\ rules.captureStyle \in 1..2 /\ rules.returnStyle \in 1..2
           /\ rules.forTeam \in [Flags -> Teams \cup {Nobody}]
BY RuleAssumption

(***************************************************************************)
(* What the parts of a step do to the flags.                               *)
(***************************************************************************)
LEMMA ResetEffect ==
    ASSUME Inv, NEW F, ResetFlags(F)
    PROVE  /\ holder' \in [Flags -> Players \cup {NoPlayer}]
           /\ lies' \in [Flags -> Places \cup {AtHome}]
           /\ due' \in [Flags -> 0..ReturnTime]
           /\ \A f \in Flags :
                 IF f \in F THEN holder'[f] = NoPlayer /\ lies'[f] = AtHome
                 ELSE holder'[f] = holder[f] /\ lies'[f] = lies[f]
BY NumberAssumption DEF Inv, TypeOK, ResetFlags, Released, BroughtHome, NotDue

LEMMA DropEffect ==
    ASSUME Inv, NEW p \in Players, RemoveSelfFromFlags(p)
    PROVE  /\ holder' \in [Flags -> Players \cup {NoPlayer}]
           /\ lies' \in [Flags -> Places \cup {AtHome}]
           /\ due' \in [Flags -> 0..ReturnTime]
           /\ \A f \in Flags :
                 IF holder[f] = p THEN holder'[f] = NoPlayer /\ lies'[f] = place[p]
                 ELSE holder'[f] = holder[f] /\ lies'[f] = lies[f]
BY NumberAssumption DEF Inv, TypeOK, RemoveSelfFromFlags, Released, CarriedBy

\* Who picks a flag up, or takes it from him at once, may have it.
LEMMA PickUpEffect ==
    ASSUME Inv, NEW f \in Flags, ~Carried(f), NEW p \in Reaching(f), PickUp(f, p)
    PROVE  \E last \in Takers(f, World) \cup {p} :
              /\ p \in alive /\ last \in alive
              /\ MayTake(f, team[p]) /\ MayTake(f, team[last])
              /\ holder' = [holder EXCEPT ![f] = last]
              /\ last \in slowed'
              /\ team[last] # team[p] => rules.forTeam[f] = Nobody /\ rules.captureStyle <= 1
<1>1. p \in alive /\ MayTake(f, team[p])
  BY DEF Reaching, Takers, At
<1>2. PICK last \in {p} \cup Later(f, p) :
          /\ holder' = [holder EXCEPT ![f] = last]
          /\ slowed' = slowed \cup {p} \cup Later(f, p)
  BY DEF PickUp
<1>3. last \in slowed'
  BY <1>2
<1>4. last \in Takers(f, World) \cup {p}
  BY <1>2 DEF Later
<1>5. last \in alive /\ MayTake(f, team[last])
  BY <1>1, <1>4 DEF Takers, At
<1>6. team[last] # team[p] => rules.forTeam[f] = Nobody /\ rules.captureStyle <= 1
  <2> SUFFICES ASSUME team[last] # team[p]
               PROVE  rules.forTeam[f] = Nobody /\ rules.captureStyle <= 1
    OBVIOUS
  <2>1. rules.forTeam[f] = Nobody
    BY <1>1, <1>5 DEF MayTake
  <2>2. last \in Later(f, p)
    BY <1>2
  <2>3. ~(rules.captureStyle > 1)
    BY <2>1, <2>2 DEF Later
  <2>. QED
    BY <2>1, <2>3, Settings DEF Inv, TypeOK
<1>. QED
  BY <1>1, <1>2, <1>3, <1>4, <1>5, <1>6

(***************************************************************************)
(* A step that takes no flag keeps the invariant: the flags that are away  *)
(* were away, and who still carries one lives on in his team, as slow as   *)
(* before.                                                                 *)
(***************************************************************************)
Kept(f) == holder'[f] = holder[f] /\ holder'[f] \in alive' /\ team'[holder[f]] = team[holder[f]]

LEMMA NothingTaken ==
    ASSUME Inv, TypeOK', rules' = rules,
           \A f \in Flags : Carried(f)' =>
               Kept(f) /\ (rules.quick = {} => holder[f] \in slowed'),
           \A f \in Flags : Away(f)' => Away(f)
    PROVE  Inv'
<1>1. CustodyIsLegit'
  <2>1. ASSUME NEW f \in Flags, Carried(f)'
        PROVE  holder'[f] \in alive' /\ MayTake(f, team[holder[f]]) /\ team'[holder'[f]] = team[holder[f]]
    <3>1. Kept(f) /\ Carried(f)
      BY <2>1 DEF Carried, Kept
    <3>. QED
      BY <3>1 DEF Kept, Inv, CustodyIsLegit
  <2>. QED
    BY <2>1 DEF Inv, CustodyIsLegit, IsActive, MayTake
<1>2. NoStandoff'
  BY DEF Inv, NoStandoff
<1>3. CarriersAreSlowed'
  BY DEF CarriersAreSlowed, Kept
<1>. QED
  BY <1>1, <1>2, <1>3 DEF Inv

-------------------------------------------------------------------------------
(***************************************************************************)
(* The steps.                                                              *)
(***************************************************************************)
LEMMA InitStep ==
    ASSUME Init PROVE Inv
<1>1. TypeOK
  BY PlaceAssumption, NumberAssumption DEF Init, TypeOK, Carried, Dropped
<1>. QED
  BY <1>1 DEF Init, Inv, CustodyIsLegit, NoStandoff, CarriersAreSlowed, Carried, Dropped, Away

\* A step that leaves the flags where they are.
LEMMA FlagsAlone ==
    ASSUME Inv, TypeOK', rules' = rules, UNCHANGED flagVars,
           \A p \in alive : p \in alive' /\ team'[p] = team[p] /\ (rules.quick = {} /\ p \in slowed => p \in slowed')
    PROVE  Inv'
<1>1. ASSUME NEW f \in Flags, Carried(f)'
      PROVE  Kept(f) /\ (rules.quick = {} => holder[f] \in slowed')
  BY <1>1 DEF Inv, CustodyIsLegit, CarriersAreSlowed, Carried, Kept, flagVars
<1>2. ASSUME NEW f \in Flags, Away(f)' PROVE Away(f)
  BY <1>2 DEF Away, Carried, Dropped, flagVars
<1>. QED
  BY <1>1, <1>2, NothingTaken

\* A step that brings the flags F home.
LEMMA FlagsHome ==
    ASSUME Inv, TypeOK', rules' = rules, NEW F, ResetFlags(F),
           \A f \in Flags \ F : Carried(f) =>
               /\ holder[f] \in alive' /\ team'[holder[f]] = team[holder[f]]
               /\ holder[f] \in slowed => holder[f] \in slowed'
    PROVE  Inv'
<1>1. ASSUME NEW f \in Flags, Carried(f)'
      PROVE  Kept(f) /\ (rules.quick = {} => holder[f] \in slowed')
  BY <1>1, ResetEffect DEF Inv, CarriersAreSlowed, Carried, Kept
<1>2. ASSUME NEW f \in Flags, Away(f)' PROVE Away(f)
  BY <1>2, ResetEffect DEF Away, Carried, Dropped
<1>. QED
  BY <1>1, <1>2, NothingTaken

\* A step in which the player p drops what he carries.
LEMMA FlagsDropped ==
    ASSUME Inv, TypeOK', rules' = rules, NEW p \in Players, RemoveSelfFromFlags(p),
           \A q \in alive \ {p} :
               q \in alive' /\ team'[q] = team[q] /\ (q \in slowed => q \in slowed')
    PROVE  Inv'
<1>1. ASSUME NEW f \in Flags, Carried(f)'
      PROVE  Kept(f) /\ (rules.quick = {} => holder[f] \in slowed')
  BY <1>1, DropEffect DEF Inv, CustodyIsLegit, CarriersAreSlowed, Carried, Kept
<1>2. ASSUME NEW f \in Flags, Away(f)' PROVE Away(f)
  BY <1>2, DropEffect, Names DEF Away, Carried, Dropped
<1>. QED
  BY <1>1, <1>2, NothingTaken

LEMMA NoPickUpStep ==
    ASSUME Inv, NEW f \in Flags, ~Carried(f), NoPickUp(f), UNCHANGED <<rules, score, playerVars>>
    PROVE  Inv'
<1>1. CASE GoesHome(f)
  <2>1. holder' = Released({f})
    BY <1>1 DEF NoPickUp, Released, Carried, Inv, TypeOK
  <2>2. ResetFlags({f})
    BY <1>1, <2>1 DEF NoPickUp, ResetFlags
  <2>3. TypeOK'
    BY <2>2, ResetEffect DEF NoPickUp, playerVars, Inv, TypeOK, Carried, Dropped
  <2>. QED
    BY <2>2, <2>3, FlagsHome DEF NoPickUp, playerVars, Inv, CustodyIsLegit
<1>2. CASE ~GoesHome(f)
  <2>1. holder' = holder /\ lies' = lies /\ slowed' = slowed
    BY <1>2 DEF NoPickUp
  <2>2. due' \in [Flags -> 0..ReturnTime]
    <3>1. CASE Waits(f)
      BY <1>2, <3>1, NumberAssumption DEF NoPickUp, Waits, Overdue, Inv, TypeOK
    <3>2. CASE ~Waits(f)
      BY <1>2, <3>2 DEF NoPickUp, Inv, TypeOK
    <3>. QED
      BY <3>1, <3>2
  <2>3. TypeOK'
    BY <2>1, <2>2 DEF playerVars, Inv, TypeOK, Carried, Dropped
  <2>4. ASSUME NEW g \in Flags, Carried(g)'
        PROVE  Kept(g) /\ (rules.quick = {} => holder[g] \in slowed')
    BY <2>1, <2>4 DEF playerVars, Inv, CustodyIsLegit, CarriersAreSlowed, Carried, Kept
  <2>. QED
    BY <2>1, <2>3, <2>4, NothingTaken DEF Away, Carried, Dropped
<1>. QED
  BY <1>1, <1>2

\* A flag that its team may take is not taken while the other team's is away.
LEMMA TakenAlone ==
    ASSUME Inv, NEW f \in Flags, NEW p, p \in alive, MayTake(f, team[p]), ~Denied(f, team[p]),
           rules.captureStyle > 1, NEW g \in Flags \ {f}, Away(g)
    PROVE  rules.forTeam[g] = team[p]
BY DEF Denied, Blocked

LEMMA PickUpStep ==
    ASSUME Inv, NEW f \in Flags, IsActive(f), ~Carried(f), NEW p \in Reaching(f), PickUp(f, p),
           UNCHANGED <<rules, score, playerVars>>
    PROVE  Inv'
<1>1. PICK last \in Takers(f, World) \cup {p} :
          /\ p \in alive /\ last \in alive
          /\ MayTake(f, team[p]) /\ MayTake(f, team[last])
          /\ holder' = [holder EXCEPT ![f] = last]
          /\ last \in slowed'
          /\ team[last] # team[p] => rules.forTeam[f] = Nobody /\ rules.captureStyle <= 1
  BY PickUpEffect
<1>2. /\ lies' = [lies EXCEPT ![f] = AtHome]
      /\ due' = [due EXCEPT ![f] = 0]
      /\ slowed \subseteq slowed' /\ slowed' \subseteq slowed \cup alive
      /\ ~Denied(f, team[p])
  BY <1>1 DEF PickUp, BroughtHome, NotDue, Later, Takers, At, Inv, TypeOK
<1>3. TypeOK'
  <2>1. last \in Players /\ 0 \in 0..ReturnTime
    BY <1>1, NumberAssumption DEF Inv, TypeOK
  <2>. QED
    BY <1>1, <1>2, <2>1 DEF Inv, TypeOK, Carried, Dropped, playerVars
<1>4. \A g \in Flags \ {f} : holder'[g] = holder[g] /\ lies'[g] = lies[g]
  BY <1>1, <1>2 DEF Inv, TypeOK
<1>5. holder'[f] = last
  BY <1>1 DEF Inv, TypeOK
<1>6. CustodyIsLegit'
  BY <1>1, <1>4, <1>5
     DEF Inv, CustodyIsLegit, Carried, Dropped, Away, MayTake, IsActive, playerVars
<1>7. NoStandoff'
  <2>1. ASSUME rules.captureStyle > 1, NEW g \in Flags \ {f}, Away(g)
        PROVE  rules.forTeam[g] = rules.forTeam[f] \/ rules.forTeam[f] = Nobody
    BY <1>1, <1>2, <2>1, TakenAlone DEF MayTake
  <2>2. ASSUME NEW g \in Flags \ {f}, Away(g)'
        PROVE  Away(g)
    BY <1>4, <2>2 DEF Away, Carried, Dropped
  <2>. QED
    BY <2>1, <2>2 DEF Inv, NoStandoff
<1>8. CarriersAreSlowed'
  BY <1>1, <1>2, <1>4, <1>5 DEF Inv, CarriersAreSlowed, Carried
<1>. QED
  BY <1>3, <1>6, <1>7, <1>8 DEF Inv

LEMMA ThinkStep ==
    ASSUME Inv, NEW f \in Flags, Think(f)
    PROVE  Inv'
BY NoPickUpStep, PickUpStep DEF Think

LEMMA TouchStep ==
    ASSUME Inv, NEW p \in Players, NEW point \in rules.points, Touch(p, point)
    PROVE  Inv'
<1>1. ResetFlags(CarriedBy(p)) /\ slowed' = slowed \ {p} /\ UNCHANGED <<rules, playerVars>>
  BY DEF Touch
<1>2. score' \in [Teams -> Nat]
  <2>1. CarriedBy(p) \subseteq Flags /\ IsFiniteSet(CarriedBy(p))
    BY PlaceAssumption, FS_Subset DEF CarriedBy
  <2>2. Cardinality(CarriedBy(p)) \in Nat
    BY <2>1, FS_CardinalityType
  <2>3. team[p] \in Teams
    BY DEF Touch, At, Inv, TypeOK
  <2>4. score[team[p]] + Cardinality(CarriedBy(p)) \in Nat
    BY <2>2, <2>3 DEF Inv, TypeOK
  <2>. QED
    BY <2>3, <2>4 DEF Touch, Inv, TypeOK
<1>3. TypeOK'
  BY <1>1, <1>2, ResetEffect DEF Inv, TypeOK, Carried, Dropped, playerVars
<1>4. ASSUME NEW f \in Flags \ CarriedBy(p), Carried(f)
      PROVE  holder[f] # p /\ holder[f] \in alive
  BY <1>4 DEF CarriedBy, Inv, CustodyIsLegit
<1>. QED
  BY <1>1, <1>3, <1>4, FlagsHome DEF playerVars

LEMMA InputStep ==
    ASSUME Inv, NEW f \in Flags, Input(f)
    PROVE  Inv'
<1>1. TypeOK'
  BY ResetEffect DEF Input, Inv, TypeOK, Carried, Dropped, playerVars
<1>. QED
  BY <1>1, FlagsHome DEF Input, Inv, CustodyIsLegit, playerVars

LEMMA WalkStep ==
    ASSUME Inv, NEW p \in Players, NEW w \in Places, Walk(p, w)
    PROVE  Inv'
<1>1. TypeOK'
  BY DEF Walk, Inv, TypeOK, flagVars, Carried, Dropped
<1>. QED
  BY <1>1, FlagsAlone DEF Walk

LEMMA DieStep ==
    ASSUME Inv, NEW p \in Players, Die(p)
    PROVE  Inv'
<1>1. TypeOK'
  BY DropEffect, PlaceAssumption, Names DEF Die, Gone, Inv, TypeOK, Carried, Dropped
<1>. QED
  BY <1>1, FlagsDropped DEF Die, Gone

LEMMA SpawnStep ==
    ASSUME Inv, NEW p \in Players, Spawn(p)
    PROVE  Inv'
<1>1. TypeOK'
  BY PlaceAssumption DEF Spawn, Inv, TypeOK, flagVars, Carried, Dropped
<1>. QED
  BY <1>1, FlagsAlone DEF Spawn

LEMMA QuickSwitchStep ==
    ASSUME Inv, NEW p \in Players, QuickSwitch(p)
    PROVE  Inv'
<1>1. TypeOK'
  BY DEF QuickSwitch, Inv, TypeOK, flagVars, playerVars, Carried, Dropped
<1>. QED
  BY <1>1, FlagsAlone DEF QuickSwitch, playerVars

LEMMA ConnectStep ==
    ASSUME Inv, NEW p \in Players, Connect(p)
    PROVE  Inv'
<1>1. p \notin alive
  BY Names DEF Connect, Inv, TypeOK
<1>2. TypeOK'
  BY <1>1 DEF Connect, Inv, TypeOK, flagVars, Carried, Dropped
<1>. QED
  BY <1>1, <1>2, FlagsAlone DEF Connect, Inv, TypeOK

LEMMA ChangeTeamStep ==
    ASSUME Inv, NEW p \in Players, NEW to \in Teams \cup {Spectators}, ChangeTeam(p, to)
    PROVE  Inv'
<1>1. TypeOK'
  <2>1. alive' \subseteq alive \cup {p} /\ slowed' \subseteq slowed /\ place' \in [Players -> Places]
    BY PlaceAssumption DEF ChangeTeam, Gone, Inv, TypeOK
  <2>2. p \in alive' => to \in Teams
    BY DEF ChangeTeam, Gone
  <2>3. /\ team' \in [Players -> Teams \cup {Spectators, Nobody}]
        /\ alive' \subseteq {q \in Players : team'[q] \in Teams}
    BY <2>1, <2>2 DEF ChangeTeam, Inv, TypeOK
  <2>4. \A f \in Flags : ~(Carried(f) /\ Dropped(f))'
    BY DropEffect DEF ChangeTeam, Inv, TypeOK, Carried, Dropped
  <2>. QED
    BY <2>1, <2>3, <2>4, DropEffect DEF ChangeTeam, Inv, TypeOK
<1>2. ASSUME NEW q \in alive \ {p}
      PROVE  q \in alive' /\ team'[q] = team[q] /\ (q \in slowed => q \in slowed')
  BY <1>2 DEF ChangeTeam, Gone, Inv, TypeOK
<1>. QED
  BY <1>1, <1>2, FlagsDropped DEF ChangeTeam

LEMMA DisconnectStep ==
    ASSUME Inv, NEW p \in Players, Disconnect(p)
    PROVE  Inv'
<1>1. TypeOK'
  BY DropEffect, PlaceAssumption, Names DEF Disconnect, Gone, Inv, TypeOK, Carried, Dropped
<1>. QED
  BY <1>1, FlagsDropped DEF Disconnect, Gone, Inv, TypeOK

LEMMA RestartStep ==
    ASSUME Inv, Restart
    PROVE  Inv'
<1>1. team' \in [Players -> Teams \cup {Spectators, Nobody}] /\ \A p \in alive' : team'[p] \in Teams
  BY Names DEF Restart, Swapped, Inv, TypeOK
<1>2. place' \in [Players -> Places]
  BY <1>1, PlaceAssumption DEF Restart
<1>3. TypeOK'
  BY <1>1, <1>2, ResetEffect DEF Restart, Inv, TypeOK, Carried, Dropped
<1>. QED
  BY <1>3, FlagsHome DEF Restart

LEMMA Inductive ==
    ASSUME Inv, [Next]_vars
    PROVE  Inv'
<1>1. CASE Next
  BY <1>1, ThinkStep, InputStep, TouchStep, WalkStep, DieStep, SpawnStep, QuickSwitchStep,
     ConnectStep, DisconnectStep, ChangeTeamStep, RestartStep DEF Next
<1>2. CASE UNCHANGED vars
  BY <1>2 DEF vars, flagVars, playerVars, Inv, TypeOK, CustodyIsLegit, NoStandoff,
     CarriersAreSlowed, Carried, Dropped, Away, MayTake, IsActive
<1>. QED
  BY <1>1, <1>2

LEMMA InvHolds == Spec => []Inv
<1>1. Init => Inv
  BY InitStep
<1>2. Inv /\ [Next]_vars => Inv'
  BY Inductive
<1>. QED
  BY <1>1, <1>2, PTL DEF Spec
-------------------------------------------------------------------------------
(***************************************************************************)
(* The types hold.                                                         *)
(***************************************************************************)
THEOREM TypeCorrect == Spec => []TypeOK
<1>1. Inv => TypeOK
  BY DEF Inv
<1>. QED
  BY <1>1, InvHolds, PTL

(***************************************************************************)
(* Who carries a flag is alive and of a team that may have it (Think,      *)
(* RemoveSelfFromFlags, ResetFlag).                                        *)
(***************************************************************************)
THEOREM CustodyLegit == Spec => []CustodyIsLegit
<1>1. Inv => CustodyIsLegit
  BY DEF Inv
<1>. QED
  BY <1>1, InvHolds, PTL

(***************************************************************************)
(* With the second capture style the teams never hold each other's flags.  *)
(***************************************************************************)
THEOREM NeverStandOff == Spec => []NoStandoff
<1>1. Inv => NoStandoff
  BY DEF Inv
<1>. QED
  BY <1>1, InvHolds, PTL

(***************************************************************************)
(* Who carries a flag is slowed down.                                      *)
(***************************************************************************)
THEOREM CarriersSlow == Spec => []CarriersAreSlowed
<1>1. Inv => CarriersAreSlowed
  BY DEF Inv
<1>. QED
  BY <1>1, InvHolds, PTL
-------------------------------------------------------------------------------
(***************************************************************************)
(* Every step is a step of Custody, or leaves the hands the flags are in   *)
(* and the points as they are.                                             *)
(***************************************************************************)
LEMMA SameTeams == Promise!Teams = Teams /\ Promise!Nobody = Nobody
BY DEF Promise!Teams, Promise!Americans, Promise!British, Promise!Nobody,
       Teams, Americans, British, Nobody

LEMMA SameCount == \A F : Promise!Cardinality(F) = Cardinality(F)
BY DEF Promise!Cardinality, Cardinality

LEMMA HandsOf ==
    ASSUME Inv
    PROVE  /\ Hands \in [Flags -> Teams \cup {"lost", AtHome}]
           /\ \A f \in Flags :
                 /\ Hands[f] = AtHome <=> ~Away(f)
                 /\ Hands[f] = "lost" <=> ~Carried(f) /\ Dropped(f)
                 /\ Carried(f) <=> Hands[f] \in Teams
                 /\ Carried(f) => Hands[f] = team[holder[f]]
<1>1. \A f \in Flags : Carried(f) => team[holder[f]] \in Teams
  BY DEF Inv, TypeOK, CustodyIsLegit
<1>. QED
  BY <1>1, Names DEF Hands, Away

\* Nobody is blocked by flags at home.
LEMMA NotBlocked ==
    ASSUME Inv, NEW t \in Teams, NEW F \in SUBSET Flags, ~Blocked(t, F), rules.captureStyle > 1
    PROVE  \A f \in F : rules.forTeam[f] # t => Hands[f] = AtHome
BY HandsOf DEF Blocked

\* A step that leaves the holders, their teams and where the flags lie.
LEMMA Stutters ==
    ASSUME Inv, Inv', rules' = rules, score' = score,
           \A f \in Flags : holder'[f] = holder[f] /\ (Dropped(f)' <=> Dropped(f))
                            /\ (Carried(f) => team'[holder[f]] = team[holder[f]])
    PROVE  UNCHANGED Promise!vars
<1>1. Hands' = Hands
  BY Zenon DEF Hands, Carried
<1>. QED
  BY <1>1 DEF Promise!vars

LEMMA HomeStep ==
    ASSUME Inv, Inv', rules' = rules, score' = score, NEW F \in SUBSET Flags, ResetFlags(F),
           \A f \in Flags \ F : Carried(f) => team'[holder[f]] = team[holder[f]]
    PROVE  Promise!GoHome(F)
<1>1. Hands' = [f \in Flags |-> IF f \in F THEN AtHome ELSE Hands[f]]
  BY ResetEffect DEF Hands, Carried, Dropped
<1>. QED
  BY <1>1 DEF Promise!GoHome

LEMMA LoseStep ==
    ASSUME Inv, Inv', rules' = rules, score' = score, NEW p \in Players, RemoveSelfFromFlags(p),
           \A q \in Players \ {p} : team'[q] = team[q]
    PROVE  Promise!Lose(CarriedBy(p))
<1>1. \A f \in CarriedBy(p) : Carried(f) /\ Hands[f] \in Teams
  BY HandsOf, Names DEF CarriedBy, Carried
<1>2. ASSUME NEW f \in Flags
      PROVE  Hands'[f] = IF f \in CarriedBy(p) THEN "lost" ELSE Hands[f]
  <2>1. CASE holder[f] = p
    BY <2>1, DropEffect, PlaceAssumption DEF Hands, Carried, Dropped, CarriedBy, Inv, TypeOK
  <2>2. CASE holder[f] # p
    BY <2>2, DropEffect DEF Hands, Carried, Dropped, CarriedBy, Inv, TypeOK
  <2>. QED
    BY <2>1, <2>2
<1>3. Hands' = [f \in Flags |-> IF f \in CarriedBy(p) THEN "lost" ELSE Hands[f]]
  BY <1>2 DEF Hands
<1>. QED
  BY <1>1, <1>3, SameTeams DEF Promise!Lose

LEMMA TakeStep ==
    ASSUME Inv, Inv', NEW f \in Flags, ~Carried(f), NEW p \in Reaching(f), PickUp(f, p),
           UNCHANGED <<rules, score, playerVars>>
    PROVE  \E t \in Teams : Promise!Take(f, t)
<1>1. PICK last \in Takers(f, World) \cup {p} :
          /\ p \in alive /\ last \in alive
          /\ MayTake(f, team[p]) /\ MayTake(f, team[last])
          /\ holder' = [holder EXCEPT ![f] = last]
          /\ last \in slowed'
          /\ team[last] # team[p] => rules.forTeam[f] = Nobody /\ rules.captureStyle <= 1
  BY PickUpEffect
<1>2. last \in Players /\ team[last] \in Teams /\ last # NoPlayer
  BY <1>1, Names DEF Inv, TypeOK
<1>3. lies' = [lies EXCEPT ![f] = AtHome] /\ ~Denied(f, team[p])
  BY DEF PickUp, BroughtHome, Inv, TypeOK
<1>4. Hands' = [Hands EXCEPT ![f] = team[last]]
  <2>1. \A g \in Flags : Hands'[g] = IF g = f THEN team[last] ELSE Hands[g]
    BY <1>1, <1>2, <1>3 DEF Hands, Carried, Dropped, playerVars, Inv, TypeOK
  <2>. QED
    BY <2>1, Zenon DEF Hands
<1>5. Hands[f] \in {AtHome, "lost"}
  BY HandsOf
<1>6. rules.forTeam[f] \in {team[last], Nobody}
  BY <1>1 DEF MayTake
<1>7. ASSUME rules.captureStyle > 1
      PROVE  Promise!OwnAtHome(team[last], {f})
  <2>1. team[last] = team[p]
    BY <1>1, <1>7, Settings DEF Inv, TypeOK
  <2>2. ASSUME NEW g \in Flags \ {f}, rules.forTeam[g] # team[p]
        PROVE  Hands[g] = AtHome
    BY <1>1, <1>3, <1>7, <2>2, TakenAlone, HandsOf
  <2>. QED
    BY <2>1, <2>2 DEF Promise!OwnAtHome
<1>8. Promise!Take(f, team[last])
  BY <1>4, <1>5, <1>6, <1>7, SameTeams DEF Promise!Take
<1>. QED
  BY <1>2, <1>8

LEMMA ScoreStep ==
    ASSUME Inv, Inv', NEW p \in Players, NEW point \in rules.points, Touch(p, point)
    PROVE  Promise!Score(team[p], CarriedBy(p))
<1>1. team[p] \in Teams
  BY DEF Touch, At, Inv, TypeOK
<1>2. \A f \in CarriedBy(p) : Hands[f] = team[p]
  BY HandsOf, Names DEF Touch, At, Inv, TypeOK, CarriedBy, Carried
<1>3. Hands' = [f \in Flags |-> IF f \in CarriedBy(p) THEN AtHome ELSE Hands[f]]
  BY ResetEffect DEF Touch, Hands, Carried, Dropped, playerVars
<1>4. rules.captureStyle > 1 => Promise!OwnAtHome(team[p], {})
  BY <1>1, NotBlocked DEF Touch, Promise!OwnAtHome
<1>5. /\ CarriedBy(p) # {} /\ rules' = rules
      /\ score' = [score EXCEPT ![team[p]] = @ + Cardinality(CarriedBy(p))]
  BY DEF Touch
<1>. QED
  BY <1>2, <1>3, <1>4, <1>5, SameCount DEF Promise!Score

LEMMA ThinkMaps ==
    ASSUME Inv, Inv', NEW f \in Flags, Think(f)
    PROVE  [Promise!Next]_(Promise!vars)
<1>1. CASE NoPickUp(f) /\ GoesHome(f)
  <2>1. holder' = Released({f})
    BY <1>1 DEF Think, NoPickUp, Released, Carried, Inv, TypeOK
  <2>2. ResetFlags({f})
    BY <1>1, <2>1 DEF NoPickUp, ResetFlags
  <2>3. Promise!GoHome({f})
    BY <2>2, HomeStep DEF Think, playerVars
  <2>. QED
    BY <2>3 DEF Promise!Next
<1>2. CASE NoPickUp(f) /\ ~GoesHome(f)
  BY <1>2, Stutters DEF Think, NoPickUp, Dropped, playerVars
<1>3. ASSUME NEW p \in Reaching(f), PickUp(f, p)
      PROVE  Promise!Next
  BY <1>3, TakeStep, SameTeams DEF Think, Promise!Next
<1>. QED
  BY <1>1, <1>2, <1>3 DEF Think

LEMMA PlayerMaps ==
    ASSUME Inv, Inv', NEW p \in Players,
           \/ Die(p) \/ Spawn(p) \/ QuickSwitch(p) \/ Connect(p) \/ Disconnect(p)
           \/ \E w \in Places : Walk(p, w)
           \/ \E to \in Teams \cup {Spectators} : ChangeTeam(p, to)
    PROVE  [Promise!Next]_(Promise!vars)
<1>1. CASE \/ Spawn(p) \/ QuickSwitch(p) \/ \E w \in Places : Walk(p, w)
  BY <1>1, Stutters DEF Spawn, QuickSwitch, Walk, flagVars, playerVars, Dropped
<1>2. CASE Connect(p)
  <2>1. p \notin alive
    BY <1>2, Names DEF Connect, Inv, TypeOK
  <2>2. \A f \in Flags : Carried(f) => team'[holder[f]] = team[holder[f]]
    BY <1>2, <2>1 DEF Connect, Inv, TypeOK, CustodyIsLegit
  <2>. QED
    BY <1>2, <2>2, Stutters DEF Connect, flagVars, Dropped
<1>3. CASE Die(p) \/ Disconnect(p) \/ \E to \in Teams \cup {Spectators} : ChangeTeam(p, to)
  <2>1. RemoveSelfFromFlags(p) /\ rules' = rules /\ score' = score
    BY <1>3 DEF Die, Disconnect, ChangeTeam
  <2>2. \A q \in Players \ {p} : team'[q] = team[q]
    BY <1>3 DEF Die, Disconnect, ChangeTeam, Inv, TypeOK
  <2>3. Promise!Lose(CarriedBy(p)) /\ CarriedBy(p) \in SUBSET Flags
    BY <2>1, <2>2, LoseStep DEF CarriedBy
  <2>. QED
    BY <2>3 DEF Promise!Next
<1>. QED
  BY <1>1, <1>2, <1>3

LEMMA StepMaps ==
    ASSUME Inv, Inv', [Next]_vars
    PROVE  [Promise!Next]_(Promise!vars)
<1>1. ASSUME NEW p \in Players, NEW point \in rules.points, Touch(p, point)
      PROVE  Promise!Next
  <2>1. team[p] \in Teams /\ CarriedBy(p) \in SUBSET Flags
    BY <1>1 DEF Touch, At, Inv, TypeOK, CarriedBy
  <2>. QED
    BY <1>1, <2>1, ScoreStep, SameTeams DEF Promise!Next
<1>2. ASSUME NEW f \in Flags, Input(f)
      PROVE  Promise!Next
  <2>1. Promise!GoHome({f})
    BY <1>2, HomeStep DEF Input, playerVars
  <2>. QED
    BY <2>1 DEF Promise!Next
<1>3. CASE Restart
  <2>1. Promise!GoHome(Flags)
    BY <1>3, HomeStep DEF Restart
  <2>. QED
    BY <2>1 DEF Promise!Next
<1>4. CASE UNCHANGED vars
  BY <1>4, Stutters DEF vars, flagVars, playerVars, Dropped
<1>. QED
  BY <1>1, <1>2, <1>3, <1>4, ThinkMaps, PlayerMaps DEF Next

LEMMA InitMaps ==
    ASSUME Init PROVE Promise!Init
<1>1. Inv /\ Hands = [f \in Flags |-> AtHome]
  BY InitStep DEF Init, Hands, Carried, Dropped
<1>. QED
  BY <1>1, Settings, SameTeams DEF Promise!Init, Init

(***************************************************************************)
(* The flags of the code implement the custody of the rules.               *)
(***************************************************************************)
THEOREM CustodyKept == Spec => CustodyPromise
<1>1. Init => Promise!Init
  BY InitMaps
<1>2. Inv /\ Inv' /\ [Next]_vars => [Promise!Next]_(Promise!vars)
  BY StepMaps
<1>. QED
  BY <1>1, <1>2, InvHolds, PTL DEF Spec, CustodyPromise, Promise!Spec
=============================================================================
