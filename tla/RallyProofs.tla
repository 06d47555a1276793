----------------------------- MODULE RallyProofs -----------------------------
(***************************************************************************)
(* A team is under one order of its officers at a time, for any players    *)
(* and any durations and intervals that satisfy TimeAssumption.            *)
(***************************************************************************)
EXTENDS Rally, TLAPS

(***************************************************************************)
(* OneOrderAtATime is not inductive: that a new order finds nobody under   *)
(* an old one follows from when the old one was given, which the team's    *)
(* next rally tells.                                                       *)
(***************************************************************************)
Current(p) ==
    Ordered(p) =>
        /\ effect[p] \in Orders
        /\ ends[p] = call[p] + Duration
        /\ now <= ends[p] + Lag + 1
        /\ next[team[p]] = call[p] + Interval

Inv == TypeOK /\ NobodyWaitsLonger /\ \A p \in Players : Current(p)

LEMMA Names ==
    /\ Nobody \notin Teams /\ Slowed \notin Orders /\ Free \notin Orders /\ RallyRound \in Orders
    /\ Slowed # Free
BY DEF Nobody, Teams, Americans, British, Slowed, Free, Orders, RallyRound

LEMMA Times ==
    /\ Duration \in Nat /\ SlowTime \in Nat /\ Interval \in Nat /\ Lag \in Nat /\ MaxTime \in Nat
    /\ Duration + Lag + 1 < Interval
    /\ NoCall \notin Nat
BY TimeAssumption DEF NoCall

\* Who is under an order is alive, so he has a team.
LEMMA OrderedAlive ==
    ASSUME Inv, NEW p \in Players, Ordered(p)
    PROVE  p \in alive /\ team[p] \in Teams /\ call[p] \in Nat
BY Names DEF Inv, TypeOK, Current, Ordered

\* When a team may be rallied again, nobody in it is under an order any more.
LEMMA NobodyLeft ==
    ASSUME Inv, NEW p \in Players, NEW t \in Teams, team[p] = t, now >= next[t]
    PROVE  ~Ordered(p)
BY Times, OrderedAlive DEF Inv, TypeOK, Current

\* Effects that end leave the types, and the orders of the other players.
LEMMA ClearedTypes ==
    ASSUME TypeOK, NEW P, Cleared(P)
    PROVE  /\ effect' \in [Players -> Orders \cup {Slowed, Free}]
           /\ ends' \in [Players -> Nat]
           /\ call' \in [Players -> Nat \cup {NoCall}]
           /\ \A p \in Players :
                 IF p \in P THEN effect'[p] = Free /\ ~Ordered(p)'
                 ELSE effect'[p] = effect[p] /\ ends'[p] = ends[p] /\ call'[p] = call[p]
BY DEF TypeOK, Cleared, Ordered

\* A rally gives the order to some of the players P, and no effect to the dead.
GivenTo(P, order, c) ==
    /\ effect' \in [Players -> Orders \cup {Slowed, Free}]
    /\ ends' \in [Players -> Nat]
    /\ call' \in [Players -> Nat \cup {NoCall}]
    /\ \A p \in Players : effect'[p] # Free => p \in alive'
    /\ \A p \in Players :
          \/ p \in P /\ effect'[p] = order /\ ends'[p] = now + Duration /\ call'[p] = c
          \/ effect'[p] = effect[p] /\ ends'[p] = ends[p] /\ call'[p] = call[p]

LEMMA RalliedTypes ==
    ASSUME TypeOK, NEW P \in SUBSET alive, NEW order \in Orders, NEW c \in Nat \cup {NoCall},
           Rallied(P, order, c), UNCHANGED alive
    PROVE  GivenTo(P, order, c)
BY Times, Names DEF TypeOK, Rallied, GivenTo
-------------------------------------------------------------------------------
\* Init, and each action, make or keep the invariant.
LEMMA InitInv == Init => Inv
BY Names, Times DEF Init, Inv, TypeOK, NobodyWaitsLonger, Current, Ordered

LEMMA RequestStep ==
    ASSUME Inv, NEW p \in Players, NEW order \in Orders, RallyRequest(p, order)
    PROVE  Inv'
<1>1. PICK near \in SUBSET Mates(p) : Rallied(near \cup {p}, order, now)
  BY DEF RallyRequest
<1>2. /\ p \in alive /\ team[p] \in Teams /\ now >= next[team[p]]
      /\ next' = [next EXCEPT ![team[p]] = now + Interval]
      /\ UNCHANGED <<now, playerVars>>
  BY DEF RallyRequest, MayRally, Inv, TypeOK
<1>3. near \cup {p} \in SUBSET alive /\ \A q \in near \cup {p} : team[q] = team[p]
  BY <1>2 DEF Mates
<1>4. now \in Nat /\ next \in [Teams -> Nat]
  BY Times DEF Inv, TypeOK
<1>5. GivenTo(near \cup {p}, order, now)
  <2>1. TypeOK /\ now \in Nat \cup {NoCall} /\ UNCHANGED alive
    BY <1>2, <1>4 DEF Inv, playerVars
  <2>2. \A P \in SUBSET alive : Rallied(P, order, now) => GivenTo(P, order, now)
    BY <2>1, RalliedTypes
  <2> QED
    BY <1>1, <1>3, <2>2
<1>6. TypeOK' /\ NobodyWaitsLonger'
  <2>1. next' \in [Teams -> Nat] /\ now + Interval \in Nat
    BY <1>2, <1>4, Times
  <2>2. NobodyWaitsLonger'
    BY <1>2, <1>4, Times DEF Inv, NobodyWaitsLonger
  <2>3. now' \in 0..MaxTime /\ team' = team /\ alive' = alive
    BY <1>2 DEF Inv, TypeOK, playerVars
  <2> QED
    BY <1>5, <2>1, <2>2, <2>3 DEF Inv, TypeOK, GivenTo
<1>7. ASSUME NEW q \in Players
      PROVE  Current(q)'
  <2>1. CASE q \in near \cup {p} /\ effect'[q] = order /\ ends'[q] = now + Duration /\ call'[q] = now
    BY <1>2, <1>3, <1>4, <2>1, Times DEF Current, playerVars
  <2>2. CASE effect'[q] = effect[q] /\ ends'[q] = ends[q] /\ call'[q] = call[q]
    <3>1. CASE Ordered(q)
      <4>1. team[q] \in Teams /\ team[q] # team[p]
        BY <1>2, <3>1, OrderedAlive, NobodyLeft
      <4>2. next'[team[q]] = next[team[q]]
        BY <1>2, <1>4, <4>1
      <4> QED
        BY <1>2, <2>2, <3>1, <4>2 DEF Inv, Current, Ordered, playerVars
    <3>2. CASE ~Ordered(q)
      BY <2>2, <3>2 DEF Current, Ordered
    <3> QED
      BY <3>1, <3>2
  <2> QED
    BY <1>5, <2>1, <2>2 DEF GivenTo
<1> QED
  BY <1>6, <1>7 DEF Inv

LEMMA FlagStep ==
    ASSUME Inv, NEW t \in Teams, NEW order \in Orders, FlagRally(t, order)
    PROVE  Inv'
<1>1. PICK near \in SUBSET {p \in alive : team[p] = t} : Rallied(near, order, NoCall)
  BY DEF FlagRally
<1>2. UNCHANGED <<now, next, team, alive>>
  BY DEF FlagRally, playerVars
<1>3. near \in SUBSET alive
  OBVIOUS
<1>4. GivenTo(near, order, NoCall)
  <2>1. TypeOK /\ NoCall \in Nat \cup {NoCall} /\ UNCHANGED alive
    BY <1>2 DEF Inv
  <2>2. \A P \in SUBSET alive : Rallied(P, order, NoCall) => GivenTo(P, order, NoCall)
    BY <2>1, RalliedTypes
  <2> QED
    BY <1>1, <1>3, <2>2
<1>5. TypeOK' /\ NobodyWaitsLonger'
  BY <1>2, <1>4 DEF Inv, TypeOK, NobodyWaitsLonger, GivenTo
<1>6. \A q \in Players : Current(q)'
  BY <1>2, <1>4 DEF Inv, Current, Ordered, GivenTo
<1> QED
  BY <1>5, <1>6 DEF Inv

LEMMA HitStep ==
    ASSUME Inv, NEW p \in Players, Hit(p)
    PROVE  Inv'
<1>1. TypeOK' /\ NobodyWaitsLonger'
  BY Times DEF Inv, TypeOK, NobodyWaitsLonger, Hit, playerVars
<1>2. ASSUME NEW q \in Players
      PROVE  Current(q)'
  <2>1. CASE q = p
    BY <2>1 DEF Inv, TypeOK, Hit, Current, Ordered
  <2>2. CASE q # p
    BY <2>2 DEF Inv, TypeOK, Hit, Current, Ordered, playerVars
  <2> QED
    BY <2>1, <2>2
<1> QED
  BY <1>1, <1>2 DEF Inv

LEMMA TickStep ==
    ASSUME Inv, Tick
    PROVE  Inv'
<1>1. TypeOK' /\ NobodyWaitsLonger'
  BY Times DEF Inv, TypeOK, NobodyWaitsLonger, Tick, playerVars, effectVars
<1>2. ASSUME NEW q \in Players
      PROVE  Current(q)'
  <2>1. Ordered(q) => now <= ends[q] + Lag
    BY Names DEF Tick, Inv, Current
  <2> QED
    BY <2>1, Times DEF Inv, TypeOK, Tick, Current, Ordered, playerVars, effectVars
<1> QED
  BY <1>1, <1>2 DEF Inv

\* The effects of a player end, and with them his life or his team may.
LEMMA EndStep ==
    ASSUME Inv, NEW p \in Players, Cleared({p}), UNCHANGED <<now, next>>,
           team' \in [Players -> Teams \cup {Nobody}], alive' \subseteq {q \in Players : team'[q] \in Teams},
           \A q \in Players \ {p} : team'[q] = team[q] /\ (q \in alive => q \in alive')
    PROVE  Inv'
<1>1. /\ effect' \in [Players -> Orders \cup {Slowed, Free}]
      /\ ends' \in [Players -> Nat]
      /\ call' \in [Players -> Nat \cup {NoCall}]
      /\ \A q \in Players :
            IF q = p THEN effect'[q] = Free /\ ~Ordered(q)'
            ELSE effect'[q] = effect[q] /\ ends'[q] = ends[q] /\ call'[q] = call[q]
  BY ClearedTypes DEF Inv
<1>2. TypeOK' /\ NobodyWaitsLonger'
  BY <1>1 DEF Inv, TypeOK, NobodyWaitsLonger
<1>3. \A q \in Players : Current(q)'
  BY <1>1 DEF Inv, Current, Ordered
<1> QED
  BY <1>2, <1>3 DEF Inv

LEMMA RestartStep ==
    ASSUME Inv, RestartRound
    PROVE  Inv'
<1>1. team' \in [Players -> Teams \cup {Nobody}] /\ alive' \subseteq {q \in Players : team'[q] \in Teams}
  BY DEF RestartRound, Inv, TypeOK, Swapped, Other, Teams
<1>2. alive \subseteq alive' /\ now' = now /\ next' = [t \in Teams |-> now] /\ now \in Nat
  BY Times DEF RestartRound, Inv, TypeOK
<1>3. /\ effect' \in [Players -> Orders \cup {Slowed, Free}]
      /\ ends' \in [Players -> Nat]
      /\ call' \in [Players -> Nat \cup {NoCall}]
      /\ \A q \in Players :
            IF q \in alive' THEN effect'[q] = Free /\ ~Ordered(q)'
            ELSE effect'[q] = effect[q] /\ ends'[q] = ends[q] /\ call'[q] = call[q]
  BY ClearedTypes DEF RestartRound, Inv
<1>4. \A q \in Players : effect'[q] = Free /\ ~Ordered(q)'
  BY <1>2, <1>3, OrderedAlive DEF Inv, TypeOK, Ordered
<1>5. TypeOK' /\ NobodyWaitsLonger'
  BY <1>1, <1>2, <1>3, <1>4, Times DEF Inv, TypeOK, NobodyWaitsLonger
<1> QED
  BY <1>4, <1>5 DEF Inv, Current

LEMMA LevelStep ==
    ASSUME Inv, ChangeLevel
    PROVE  Inv'
<1>1. /\ effect' \in [Players -> Orders \cup {Slowed, Free}]
      /\ ends' \in [Players -> Nat]
      /\ call' \in [Players -> Nat \cup {NoCall}]
      /\ \A q \in Players : effect'[q] = Free /\ ~Ordered(q)'
  BY ClearedTypes DEF ChangeLevel, Inv
<1> QED
  BY <1>1, Times DEF ChangeLevel, Reset, Inv, TypeOK, NobodyWaitsLonger, Current

LEMMA InvStep == Inv /\ [Next]_vars => Inv'
<1> SUFFICES ASSUME Inv, [Next]_vars
             PROVE  Inv'
  OBVIOUS
<1>1. CASE UNCHANGED vars
  BY <1>1 DEF vars, playerVars, effectVars, Inv, TypeOK, NobodyWaitsLonger, Current, Ordered
<1>2. ASSUME NEW p \in Players,
             PostThink(p) \/ Die(p) \/ Spawn(p) \/ \E to \in Teams \cup {Nobody} : ChangeTeam(p, to)
      PROVE  Inv'
  <2>1. Cleared({p}) /\ UNCHANGED <<now, next>>
    BY <1>2 DEF PostThink, Die, Spawn, ChangeTeam
  <2>2. /\ team' \in [Players -> Teams \cup {Nobody}]
        /\ alive' \subseteq {q \in Players : team'[q] \in Teams}
        /\ \A q \in Players \ {p} : team'[q] = team[q] /\ (q \in alive => q \in alive')
    BY <1>2 DEF PostThink, Die, Spawn, ChangeTeam, playerVars, Inv, TypeOK
  <2> QED
    BY <2>1, <2>2, EndStep
<1> QED
  BY <1>1, <1>2, RequestStep, FlagStep, HitStep, TickStep, RestartStep, LevelStep DEF Next
-------------------------------------------------------------------------------
\* Every reachable state has the types of TypeOK; the dead are under no effect.
THEOREM TypeCorrect == Spec => []TypeOK
<1>1. Inv => TypeOK
  BY DEF Inv
<1> QED
  BY <1>1, InitInv, InvStep, PTL DEF Spec

(***************************************************************************)
(* A team never profits from two orders of its officers at once            *)
(* (OneOrderAtATime), as long as an order and a late answer are over       *)
(* before the interval is.                                                 *)
(***************************************************************************)
THEOREM OrdersDoNotOverlap == Spec => []OneOrderAtATime
<1>1. Inv => OneOrderAtATime
  BY Times, OrderedAlive DEF Inv, OneOrderAtATime, Current, TypeOK
<1> QED
  BY <1>1, InitInv, InvStep, PTL DEF Spec

(***************************************************************************)
(* No team waits longer than the interval (NobodyWaitsLonger), although    *)
(* the clock starts anew on every map.                                     *)
(***************************************************************************)
THEOREM WaitsAreBounded == Spec => []NobodyWaitsLonger
<1>1. Inv => NobodyWaitsLonger
  BY DEF Inv
<1> QED
  BY <1>1, InitInv, InvStep, PTL DEF Spec
===============================================================================
