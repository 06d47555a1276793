---------------------------- MODULE ElectionProofs ----------------------------
(***************************************************************************)
(* Elections do not clash, are not voted in twice, are not cut off, end    *)
(* early only when nobody is missed, and do not act on what was asked for  *)
(* on an earlier map, for any people, maps, times and settings.            *)
(***************************************************************************)
EXTENDS Election, FiniteSetTheorems, WellFoundedInduction, SequenceTheorems, TLAPS

(***************************************************************************)
(* What is always so of the elections E of the two systems, apart from the *)
(* clock.                                                                  *)
(***************************************************************************)
Active(e) == e.kind # "none"

Alone(E) == \A t \in Teams : Active(E[t]) /\ E[t].universal => ~Active(E[Other(t)])

Once(e) == \A i, j \in DOMAIN e.votes : e.votes[i].voter = e.votes[j].voter => i = j
Proper(e) == Once(e) /\ (e.instant => Active(e))

Sound(E) ==
    /\ E \in [Teams -> Election]
    /\ Alone(E)
    /\ \A t \in Teams : Proper(E[t])
    /\ \A t \in Teams : Active(E[t]) => E[t].due + Margin <= MapTime

\* No election is overdue at the time now.
Timely(E, now) == \A t \in Teams : Active(E[t]) => now <= E[t].due

\* An election of F is one of E, but for the votes and the player it is about.
Fewer(F, E) ==
    \A t \in Teams : Active(F[t]) =>
        /\ Active(E[t])
        /\ F[t].universal = E[t].universal
        /\ F[t].due = E[t].due
        /\ F[t].instant = E[t].instant

\* No election ends the match that the players of this map did not ask for.
Asked(E, asked) == \A t \in Teams : E[t].instant => asked

(***************************************************************************)
(* The inductive invariant                                                 *)
(***************************************************************************)
IInv == TypeOK /\ Sound(election) /\ Timely(election, clock) /\ RtvStaysOnItsMap

-------------------------------------------------------------------------------
\* The settings as the provers need them
LEMMA Settings ==
    /\ MapTime \in Nat /\ Duration \in Nat /\ Margin \in Nat /\ Margin > 0
    /\ MaxClock \in Nat /\ ChangeDelay \in Nat /\ RtvDelay \in Nat
    /\ Never \in Nat
    /\ Instant \in BOOLEAN
BY TimeAssumption, SettingAssumption DEF Never

LEMMA NoneType ==
    /\ None \in Election
    /\ ~Active(None) /\ Proper(None)
<1>1. None.votes \in Seq([voter : Voters, choice : Answers \cup ToSet(Options)])
  BY DEF None
<1> QED
  BY <1>1, Settings DEF None, Election, Active, Once, Proper

\* The teams are two.
LEMMA Others ==
    \A t \in Teams : /\ Other(t) \in Teams /\ Other(t) # t /\ Other(Other(t)) = t
                     /\ \A o \in Teams : o = t \/ o = Other(t)
BY DEF Teams, Other, Americans, British

\* What CreateElection makes is an election, if there is time for it.
LEMMA NewType ==
    ASSUME NEW now \in Nat, EnoughTime(now),
           NEW kind \in Kinds, NEW universal \in BOOLEAN, NEW target \in Voters \cup {NoVoter},
           NEW map \in Maps \cup {NoMap}, NEW instant \in BOOLEAN
    PROVE  New(kind, universal, target, map, instant, now) \in Election
<1>1. now + Duration \in 0..MapTime
  BY Settings DEF EnoughTime
<1>2. <<>> \in Seq([voter : Voters, choice : Answers \cup ToSet(Options)])
  OBVIOUS
<1> QED
  BY <1>1, <1>2 DEF New, Election

\* CreateElection
LEMMA NewSound ==
    ASSUME Sound(election), NEW t \in Teams, NEW now \in Nat, NEW e \in Election,
           Active(e), e.votes = <<>>, e.due = now + Duration,
           CreationAllowed(t, e.universal, now)
    PROVE  Sound([election EXCEPT ![t] = e])
<1> DEFINE E == [election EXCEPT ![t] = e]
<1>1. now + Duration + Margin <= MapTime
  BY DEF CreationAllowed, EnoughTime
<1>2. E \in [Teams -> Election]
  BY DEF Sound
<1>3. E[t] = e /\ \A o \in Teams \ {t} : E[o] = election[o]
  BY DEF Sound
<1> HIDE DEF E
<1>4. Proper(e)
  BY DEF Proper, Once
<1>5. Alone(E)
  <2>1. \A o \in Teams : ~(Active(election[o]) /\ (e.universal \/ election[o].universal))
    BY DEF CreationAllowed, NewElectionAllowedForTeam, HasActiveElection, Active
  <2> QED
    BY <1>3, <2>1, Others DEF Alone
<1>6. e.due + Margin <= MapTime
  BY <1>1, Settings
<1> QED
  BY <1>2, <1>3, <1>4, <1>5, <1>6 DEF Sound, E

\* Elections that end, and players who are forgotten, leave sound elections.
LEMMA FewerSound ==
    ASSUME NEW E, Sound(E), NEW F \in [Teams -> Election], Fewer(F, E),
           \A t \in Teams : Proper(F[t])
    PROVE  Sound(F)
BY Others DEF Sound, Alone, Fewer

LEMMA ForgetFewer ==
    ASSUME NEW E, Sound(E), NEW v
    PROVE  /\ Sound(Forget(E, v)) /\ Fewer(Forget(E, v), E)
           /\ \A t \in Teams : Forget(E, v)[t].instant = E[t].instant
<1> DEFINE F == Forget(E, v)
<1>1. \A t \in Teams : /\ F[t] \in Election
                       /\ F[t].kind = E[t].kind /\ F[t].universal = E[t].universal
                       /\ F[t].due = E[t].due /\ F[t].instant = E[t].instant
                       /\ F[t].votes = E[t].votes
  <2> SUFFICES ASSUME NEW t \in Teams
               PROVE  /\ F[t] \in Election
                      /\ F[t].kind = E[t].kind /\ F[t].universal = E[t].universal
                      /\ F[t].due = E[t].due /\ F[t].instant = E[t].instant
                      /\ F[t].votes = E[t].votes
    OBVIOUS
  <2>1. E[t] \in Election
    BY DEF Sound
  <2>2. F[t] = IF E[t].target = v THEN [E[t] EXCEPT !.target = NoVoter] ELSE E[t]
    BY DEF Forget
  <2> QED
    BY <2>1, <2>2 DEF Election
<1>2. F = [t \in Teams |-> F[t]]
  BY DEF Forget
<1> HIDE DEF F
<1>3. F \in [Teams -> Election] /\ Fewer(F, E) /\ \A t \in Teams : Proper(F[t])
  BY <1>1, <1>2 DEF Sound, Fewer, Proper, Once, Active
<1> QED
  BY <1>1, <1>3, FewerSound DEF F

LEMMA ClearFewer ==
    ASSUME NEW E, Sound(E), NEW t \in Teams
    PROVE  LET F == [E EXCEPT ![t] = None] IN Sound(F) /\ Fewer(F, E)
<1> DEFINE F == [E EXCEPT ![t] = None]
<1>1. F[t] = None /\ \A o \in Teams \ {t} : F[o] = E[o]
  BY DEF Sound
<1>2. F \in [Teams -> Election]
  BY NoneType DEF Sound
<1> HIDE DEF F
<1>3. Fewer(F, E) /\ \A o \in Teams : Proper(F[o])
  BY <1>1, NoneType DEF Fewer, Sound
<1> QED
  BY <1>2, <1>3, FewerSound DEF F

LEMMA FewerTwice ==
    ASSUME NEW E, NEW F, NEW G, Fewer(F, E), Fewer(G, F)
    PROVE  Fewer(G, E)
BY DEF Fewer

-------------------------------------------------------------------------------
\* The least element of a set of natural numbers is one of them.
LEMMA MinOf ==
    ASSUME NEW S \in SUBSET Nat, S # {}
    PROVE  \E n \in S : \A m \in S : n <= m
<1> DEFINE Below == OpToRel(<, Nat)
<1>1. IsWellFoundedOn(Below, Nat)
  BY NatLessThanWellFounded
<1> HIDE DEF Below
<1>2. PICK n \in S : \A m \in S : ~(<<m, n>> \in Below)
  BY <1>1, WFMin
<1>3. ASSUME NEW m \in S
      PROVE  n <= m
  <2>1. m < n => <<m, n>> \in Below
    BY DEF Below, OpToRel
  <2> QED
    BY <1>2, <2>1
<1> QED
  BY <1>3

\* No map has more backers than there are votes.
LEMMA BackersBound ==
    ASSUME NEW X, NEW votes \in Seq(X), NEW c
    PROVE  Backers(votes, c) \in 0..Len(votes)
<1> DEFINE S == {i \in DOMAIN votes : votes[i].choice = c}
<1>1. S \subseteq 1..Len(votes) /\ Len(votes) \in Nat
  OBVIOUS
<1>2. IsFiniteSet(1..Len(votes)) /\ Cardinality(1..Len(votes)) = Len(votes)
  <2> DEFINE n == Len(votes)
  <2>1. n \in Nat
    OBVIOUS
  <2> HIDE DEF n
  <2>2. IsFiniteSet(1..n) /\ Cardinality(1..n) = IF 1 > n THEN 0 ELSE n - 1 + 1
    BY <2>1, FS_Interval
  <2>3. Cardinality(1..n) = n
    BY <2>1, <2>2
  <2> QED
    BY <2>2, <2>3 DEF n
<1>3. Cardinality(S) <= Len(votes) /\ IsFiniteSet(S)
  BY <1>1, <1>2, FS_Subset
<1>4. Cardinality(S) \in Nat
  BY <1>3, FS_CardinalityType
<1> QED
  BY <1>1, <1>3, <1>4 DEF Backers

\* CalculateResults finds one of the maps that can be chosen.
LEMMA WinnerType ==
    ASSUME NEW X, NEW votes \in Seq(X)
    PROVE  Winner(votes) \in Maps
<1> DEFINE N == Len(votes)
           slots == DOMAIN Options
           short(i) == N - Backers(votes, Options[i])
           best == {i \in slots : \A j \in slots :
                       Backers(votes, Options[i]) >= Backers(votes, Options[j])}
<1>1. \A i \in slots : Backers(votes, Options[i]) \in 0..N
  BY BackersBound
<1>2. N \in Nat /\ slots = 1..Len(Options) /\ slots # {} /\ slots \subseteq Nat
  BY MapAssumption
<1>3. {short(i) : i \in slots} \subseteq Nat /\ {short(i) : i \in slots} # {}
  BY <1>1, <1>2
<1>4. PICK n \in {short(i) : i \in slots} : \A m \in {short(i) : i \in slots} : n <= m
  BY <1>3, MinOf
<1>5. PICK i \in slots : n = short(i)
  BY <1>4
<1>6. \A j \in slots : Backers(votes, Options[i]) >= Backers(votes, Options[j])
  <2> SUFFICES ASSUME NEW j \in slots
               PROVE  Backers(votes, Options[i]) >= Backers(votes, Options[j])
    OBVIOUS
  <2>1. short(i) <= short(j)
    BY <1>4, <1>5
  <2> QED
    BY <1>1, <1>2, <2>1
<1>7. best \subseteq Nat /\ best # {} /\ best \subseteq slots
  BY <1>2, <1>6
<1> HIDE DEF best
<1>8. Min(best) \in best
  BY <1>7, MinOf DEF Min
<1>9. Winner(votes) = Options[Min(best)]
  BY DEF Winner, best
<1> HIDE DEF short
<1> DEFINE w == Min(best)
<1>10. w \in 1..Len(Options)
  BY <1>2, <1>7, <1>8
<1> HIDE DEF w
<1>11. Options[w] \in Maps
  BY <1>10, MapAssumption
<1> QED
  BY <1>9, <1>11 DEF w
-------------------------------------------------------------------------------
(***************************************************************************)
(* What the end of an election makes of the state s, when the elections    *)
(* were E.                                                                 *)
(***************************************************************************)
Fine(s, E) ==
    /\ s.team \in [Voters -> Teams \cup {Spectators, Nobody}]
    /\ s.nextlevel \in Maps \cup {NoMap}
    /\ s.changeTime \in Nat
    /\ Sound(s.election)
    /\ Fewer(s.election, E)

LEMMA StateFine ==
    ASSUME TypeOK, NEW E, Sound(E)
    PROVE  Fine([State EXCEPT !.election = E], E)
BY DEF TypeOK, Fine, State, Fewer

\* FinishElection
LEMMA FinishFine ==
    ASSUME NEW E, NEW s, Fine(s, E), NEW t \in Teams, NEW e \in Election, NEW now \in Nat
    PROVE  /\ Fine(FinishElection(t, e, s, now), E)
           /\ FinishElection(t, e, s, now).election[t] = None
<1> DEFINE kicked == e.kind = "kick" /\ e.target # NoVoter /\ Passes(e)
           left == IF kicked THEN Forget(s.election, e.target) ELSE s.election
           r == FinishElection(t, e, s, now)
<1>1. Sound(left) /\ Fewer(left, E)
  <2>1. Sound(s.election) /\ Fewer(s.election, E)
    BY DEF Fine
  <2> QED
    BY <2>1, ForgetFewer, FewerTwice
<1>2. r.election = [left EXCEPT ![t] = None]
  BY DEF FinishElection
<1> HIDE DEF left
<1>3. Sound(r.election) /\ Fewer(r.election, E)
  BY <1>1, <1>2, ClearFewer, FewerTwice
<1>4. r.election[t] = None
  BY <1>1, <1>2 DEF Sound
<1>5. r.team \in [Voters -> Teams \cup {Spectators, Nobody}]
  <2>1. r.team = IF kicked THEN [s.team EXCEPT ![e.target] = Nobody] ELSE s.team
    BY DEF FinishElection
  <2> HIDE DEF kicked, r
  <2> QED
    BY <2>1 DEF Fine
<1>6. r.nextlevel \in Maps \cup {NoMap}
  <2>1. e.map \in Maps \cup {NoMap} /\ Winner(e.votes) \in Maps
    BY WinnerType DEF Election
  <2>2. r.nextlevel \in {e.map, Winner(e.votes), s.nextlevel}
    BY DEF FinishElection
  <2> HIDE DEF r
  <2> QED
    BY <2>1, <2>2 DEF Fine
<1>7. r.changeTime \in Nat
  <2>1. r.changeTime \in {now + ChangeDelay, s.changeTime}
    BY DEF FinishElection
  <2> HIDE DEF r
  <2> QED
    BY <2>1, Settings DEF Fine
<1> HIDE DEF r
<1>8. Fine(r, E)
  BY <1>3, <1>5, <1>6, <1>7 DEF Fine
<1> QED
  BY <1>4, <1>8 DEF r

\* ElectionThink leaves no election of t that is overdue.
LEMMA ThinkFine ==
    ASSUME NEW E, NEW s, Fine(s, E), NEW t \in Teams, NEW now \in Nat
    PROVE  LET r == ElectionThink(t, s, now)
           IN  /\ Fine(r, E)
               /\ Active(r.election[t]) => now <= r.election[t].due
<1>1. CASE s.election[t].kind # "none" /\ now > s.election[t].due
  <2>1. s.election[t] \in Election
    BY DEF Fine, Sound
  <2>2. ElectionThink(t, s, now) = FinishElection(t, s.election[t], s, now)
    BY <1>1 DEF ElectionThink
  <2> QED
    BY <2>1, <2>2, FinishFine, NoneType
<1>2. CASE ~(s.election[t].kind # "none" /\ now > s.election[t].due)
  <2>1. ElectionThink(t, s, now) = s
    BY <1>2 DEF ElectionThink
  <2>2. s.election[t].due \in Nat
    BY Settings DEF Fine, Sound, Election
  <2> QED
    BY <1>2, <2>1, <2>2 DEF Active
<1> QED
  BY <1>1, <1>2
-------------------------------------------------------------------------------
(***************************************************************************)
(* The steps.                                                              *)
(***************************************************************************)
LEMMA InitInv == Init => IInv
<1> SUFFICES ASSUME Init
             PROVE  IInv
  OBVIOUS
<1>1. TypeOK
  <2>1. counts \in [Teams -> Nat] /\ election \in [Teams -> Election]
    BY NoneType DEF Init
  <2>2. team \in [Voters -> Teams \cup {Spectators, Nobody}]
    BY DEF Init
  <2>3. orders \in 0..MaxOrders
    BY TimeAssumption DEF Init
  <2> QED
    BY <2>1, <2>2, <2>3, Settings DEF Init, TypeOK
<1>2. Sound(election) /\ Timely(election, clock)
  <2>1. \A t \in Teams : election[t] = None
    BY DEF Init
  <2> QED
    BY <1>1, <2>1, NoneType DEF Sound, Alone, Timely, TypeOK
<1>3. RtvStaysOnItsMap
  BY NoneType DEF Init, RtvStaysOnItsMap, None
<1> QED
  BY <1>1, <1>2, <1>3 DEF IInv

LEMMA ChangeLevelInv == ChangeLevel => IInv'
<1> SUFFICES ASSUME ChangeLevel
             PROVE  IInv'
  OBVIOUS
<1>1. TypeOK'
  <2>1. counts' \in [Teams -> Nat] /\ election' \in [Teams -> Election]
    BY NoneType DEF ChangeLevel
  <2>2. team' \in [Voters -> Teams \cup {Spectators, Nobody}]
    BY DEF ChangeLevel
  <2>3. orders' \in 0..MaxOrders
    BY TimeAssumption DEF ChangeLevel
  <2> QED
    BY <2>1, <2>2, <2>3, Settings DEF ChangeLevel, FlagOnNewMap, TypeOK
<1>2. Sound(election)' /\ Timely(election, clock)'
  <2>1. \A t \in Teams : election'[t] = None
    BY DEF ChangeLevel
  <2> QED
    BY <1>1, <2>1, NoneType DEF Sound, Alone, Timely, TypeOK
<1>3. RtvStaysOnItsMap'
  BY NoneType DEF ChangeLevel, FlagOnNewMap, RtvStaysOnItsMap, None
<1> QED
  BY <1>1, <1>2, <1>3 DEF IInv

\* When elections only end, nothing is overdue or unasked for afterwards.
LEMMA EndsOnly ==
    ASSUME IInv, Sound(election)', Fewer(election', election), clock' = clock,
           UNCHANGED <<rtvComplete, rtvDisabled>> \/ orders' # 0,
           orders' = 0 => orders = 0
    PROVE  Timely(election, clock)' /\ RtvStaysOnItsMap'
<1>1. Timely(election, clock)'
  BY DEF IInv, Timely, Fewer
<1>2. \A t \in Teams : election'[t].instant => election[t].instant
  BY DEF Sound, Proper, Fewer
<1> QED
  BY <1>1, <1>2 DEF IInv, RtvStaysOnItsMap

\* The elections E are as they are, but for one that is created now.
OldOrNew(E, flag, now) ==
    \A o \in Teams : E[o] # election[o] =>
        /\ E[o].due >= now
        /\ E[o].instant => Instant \/ flag

\* CreateMultichoiceMapElection
LEMMA MapElectionSound ==
    ASSUME IInv, NEW t \in Teams, NEW flag \in BOOLEAN, NEW now \in Nat
    PROVE  LET E == MapElection(t, flag, now)
           IN  /\ Sound(E)
               /\ OldOrNew(E, flag, now)
<1> DEFINE i == Instant \/ (flag /\ t = British)
           e == New("mapchoice", TRUE, NoVoter, NoMap, i, now)
           E == MapElection(t, flag, now)
<1>1. Sound(election)
  BY DEF IInv
<1>2. CASE CreationAllowed(t, TRUE, now)
  <2>1. /\ e.kind = "mapchoice" /\ e.universal = TRUE /\ e.votes = <<>>
        /\ e.due = now + Duration /\ e.instant = i
    BY DEF New
  <2>2. e \in Election
    <3>1. i \in BOOLEAN /\ "mapchoice" \in Kinds
      BY Settings DEF Kinds
    <3>2. NoVoter \in Voters \cup {NoVoter} /\ NoMap \in Maps \cup {NoMap}
      OBVIOUS
    <3>3. now + Duration \in 0..MapTime
      BY <1>2, Settings DEF CreationAllowed, EnoughTime
    <3>4. <<>> \in Seq([voter : Voters, choice : Answers \cup ToSet(Options)])
      OBVIOUS
    <3> HIDE DEF i
    <3> QED
      BY <3>1, <3>2, <3>3, <3>4 DEF New, Election
  <2>3. E = [election EXCEPT ![t] = e]
    BY <1>2 DEF MapElection
  <2>4. e.instant => Instant \/ flag
    BY <2>1
  <2> HIDE DEF e, E, i
  <2>5. e.due >= now /\ Active(e)
    BY <2>1, Settings DEF Active
  <2>9. CreationAllowed(t, e.universal, now)
    BY <1>2, <2>1, Zenon
  <2>6. Sound(E)
    BY <1>1, <2>1, <2>2, <2>3, <2>5, <2>9, NewSound
  <2>7. \A o \in Teams : E[o] = IF o = t THEN e ELSE election[o]
    BY <1>1, <2>3 DEF Sound
  <2>8. OldOrNew(E, flag, now)
    BY <2>4, <2>5, <2>7 DEF OldOrNew
  <2> QED
    BY <2>6, <2>8 DEF E
<1>3. CASE ~CreationAllowed(t, TRUE, now)
  <2>1. E = election
    BY <1>3 DEF MapElection
  <2> QED
    BY <1>1, <2>1 DEF OldOrNew
<1> QED
  BY <1>2, <1>3

LEMMA AutoElectionSound ==
    ASSUME IInv, NEW flag \in BOOLEAN, NEW last, NEW now \in Nat
    PROVE  LET E == AutoElection(flag, last, now)
           IN  /\ Sound(E)
               /\ OldOrNew(E, flag, now)
<1>1. British \in Teams
  BY DEF Teams
<1>2. AutoElection(flag, last, now) = MapElection(British, flag, now)
         \/ AutoElection(flag, last, now) = election
  BY DEF AutoElection
<1> QED
  BY <1>1, <1>2, MapElectionSound DEF IInv, OldOrNew

\* Both systems think, after E has been made of their elections.
LEMMA ThinkElectionsInv ==
    ASSUME IInv, clock' = clock + 1, ~(clock + 1 > changeTime), NEW E, Sound(E),
           OldOrNew(E, rtvComplete, clock + 1),
           ThinkElections(E, clock + 1),
           rtvComplete' \in BOOLEAN, rtvComplete' => rtvComplete
    PROVE  IInv'
<1> DEFINE now == clock + 1
           s == [State EXCEPT !.election = E]
           a == ElectionThink(Americans, s, now)
           b == ElectionThink(British, a, now)
<1>0. now \in Nat /\ Americans \in Teams /\ British \in Teams /\ TypeOK
  BY DEF IInv, TypeOK, Teams
<1>1. /\ Become(b)
      /\ UNCHANGED <<gameOver, counts, match, orders, rtv>>
  BY DEF ThinkElections
<1>2. Fine(s, E)
  BY <1>0, StateFine
<1> HIDE DEF s
<1>3. Fine(a, E) /\ (Active(a.election[Americans]) => now <= a.election[Americans].due)
  BY <1>0, <1>2, ThinkFine
<1> HIDE DEF a
<1>4. Fine(a, a.election)
  BY <1>3 DEF Fine, Fewer
<1>5. /\ Fine(b, E) /\ Fine(b, a.election)
      /\ Active(b.election[British]) => now <= b.election[British].due
  BY <1>0, <1>3, <1>4, ThinkFine
<1> HIDE DEF b
<1>6. Timely(b.election, now)
  <2>1. Active(b.election[Americans]) => now <= b.election[Americans].due
    BY <1>0, <1>3, <1>5 DEF Fine, Fewer
  <2> QED
    BY <1>5, <2>1 DEF Timely, Teams
<1>7. /\ team' = b.team /\ election' = b.election
      /\ nextlevel' = b.nextlevel /\ changeTime' = b.changeTime
  BY <1>1 DEF Become
<1>8. TypeOK'
  BY <1>0, <1>1, <1>5, <1>7 DEF TypeOK, Fine, Sound, rtv
<1>9. Sound(election)' /\ Timely(election, clock)'
  BY <1>5, <1>6, <1>7 DEF Fine
<1>10. RtvStaysOnItsMap'
  <2> SUFFICES ASSUME orders' = 0, ~Instant
               PROVE  /\ rtvComplete' => rtvDisabled'
                      /\ \A t \in Teams : election'[t].instant => rtvDisabled'
    BY DEF RtvStaysOnItsMap
  <2>1. /\ rtvComplete => rtvDisabled
        /\ rtvDisabled' = rtvDisabled
        /\ \A t \in Teams : election[t].instant => rtvDisabled
    BY <1>1 DEF IInv, RtvStaysOnItsMap, rtv
  <2>2. \A t \in Teams : election'[t].instant => E[t].instant
    BY <1>5, <1>7 DEF Fine, Fewer, Sound, Proper
  <2>3. \A t \in Teams : E[t].instant => rtvDisabled
    <3> SUFFICES ASSUME NEW t \in Teams, E[t].instant
                 PROVE  rtvDisabled
      OBVIOUS
    <3>1. CASE E[t] = election[t]
      BY <2>1, <3>1
    <3>2. CASE E[t] # election[t]
      <4>1. E[t].instant => Instant \/ rtvComplete
        BY <3>2 DEF OldOrNew
      <4> QED
        BY <2>1, <4>1
    <3> QED
      BY <3>1, <3>2
  <2>4. rtvComplete' => rtvDisabled'
    BY <2>1
  <2>5. \A t \in Teams : election'[t].instant => rtvDisabled'
    BY <2>1, <2>2, <2>3
  <2> QED
    BY <2>4, <2>5
<1> QED
  BY <1>8, <1>9, <1>10 DEF IInv

LEMMA ThinkInv == IInv /\ Think => IInv'
<1> SUFFICES ASSUME IInv, Think
             PROVE  IInv'
  OBVIOUS
<1>0. TypeOK
  BY DEF IInv
<1>1. CASE ThinkGameOver
  BY <1>1, ChangeLevelInv DEF ThinkGameOver
<1>2. CASE ThinkTimeUp
  <2>1. UNCHANGED <<counts, match, orders, results, rtvComplete, rtv>> /\ clock' = clock + 1
           /\ gameOver' = TRUE /\ clock + 1 > MapTime
    BY <1>2 DEF ThinkTimeUp
  <2>2. \A t \in Teams : ~Active(election[t])
    <3> SUFFICES ASSUME NEW t \in Teams, Active(election[t])
                 PROVE  FALSE
      OBVIOUS
    <3>1. clock <= election[t].due /\ election[t].due + Margin <= MapTime
      BY DEF IInv, Sound, Timely
    <3>2. election[t].due \in Nat
      BY Settings DEF IInv, Sound, Election
    <3> QED
      BY <1>0, <2>1, <3>1, <3>2, Settings DEF TypeOK
  <2>3. TypeOK'
    BY <1>0, <2>1 DEF TypeOK, results, rtv
  <2>4. Sound(election)' /\ Timely(election, clock)' /\ RtvStaysOnItsMap'
    BY <2>1, <2>2 DEF IInv, Sound, Timely, Alone, RtvStaysOnItsMap, results, rtv
  <2> QED
    BY <2>3, <2>4 DEF IInv
<1>3. CASE ThinkPlay
  <2> DEFINE now == clock + 1
  <2>0. now \in Nat /\ rtvComplete \in BOOLEAN
    BY <1>0 DEF TypeOK
  <2>1. CASE now > changeTime
    <3>1. ChangeLevel
      BY <1>3, <2>1 DEF ThinkPlay, ThinkElections
    <3> QED
      BY <3>1, ChangeLevelInv
  <2>2. CASE ~(now > changeTime) /\ now % Period # 0
    <3>1. ThinkElections(election, now) /\ rtvComplete' = rtvComplete
      BY <1>3, <2>2 DEF ThinkPlay
    <3>2. clock' = now
      BY <2>2, <3>1 DEF ThinkElections
    <3>3. Sound(election) /\ OldOrNew(election, rtvComplete, now)
      BY DEF IInv, OldOrNew
    <3> QED
      BY <2>0, <2>2, <3>1, <3>2, <3>3, ThinkElectionsInv
  <2>3. CASE ~(now > changeTime) /\ ~(now % Period # 0)
    <3>1. PICK last \in LastRound :
             /\ ThinkElections(AutoElection(rtvComplete, last, now), now)
             /\ rtvComplete' = AutoFlag(rtvComplete, last, now)
      BY <1>3, <2>3 DEF ThinkPlay
    <3>2. clock' = now
      BY <2>3, <3>1 DEF ThinkElections
    <3> DEFINE E == AutoElection(rtvComplete, last, now)
    <3>3. Sound(E) /\ OldOrNew(E, rtvComplete, now)
      BY <2>0, AutoElectionSound
    <3>4. rtvComplete' \in BOOLEAN /\ (rtvComplete' => rtvComplete)
      BY <2>0, <3>1 DEF AutoFlag
    <3>5. ThinkElections(E, now)
      BY <3>1
    <3> HIDE DEF E
    <3> QED
      BY <2>3, <3>2, <3>3, <3>4, <3>5, ThinkElectionsInv
  <2> QED
    BY <2>1, <2>2, <2>3
<1> QED
  BY <1>1, <1>2, <1>3 DEF Think

\* The end of the match, people who come and go, the counting, and the orders that touch no
\* election
LEMMA OtherInv ==
    ASSUME IInv,
           \/ EndMatch \/ UpdatePlayerData \/ RtvCancel
           \/ \E v \in Voters : Leave(v) \/ \E t \in Places : Join(v, t)
           \/ \E m \in Maps : NextMap(m)
    PROVE  IInv'
<1>0. TypeOK /\ Sound(election)
  BY DEF IInv
<1>1. CASE EndMatch
  BY <1>0, <1>1 DEF EndMatch, IInv, TypeOK, Sound, Alone, Timely, RtvStaysOnItsMap, results, rtv
<1>2. CASE UpdatePlayerData
  <2>1. counts' \in [Teams -> Nat]
    <3>1. \A t \in Teams : Cardinality(Present(t)) \in Nat
      BY VoterAssumption, FS_Subset, FS_CardinalityType DEF Present
    <3>2. match.bots \in [Teams -> Nat]
      BY <1>0, SettingAssumption DEF TypeOK
    <3>3. counts' = [t \in Teams |-> Cardinality(Present(t)) + match.bots[t]]
      BY <1>2 DEF UpdatePlayerData, Counted
    <3> QED
      BY <3>1, <3>2, <3>3
  <2> QED
    BY <1>0, <1>2, <2>1
       DEF UpdatePlayerData, IInv, TypeOK, Sound, Alone, Timely, RtvStaysOnItsMap, results, rtv
<1>3. CASE RtvCancel
  <2>1. orders' \in 0..MaxOrders /\ orders' # 0
    BY <1>0, <1>3, TimeAssumption DEF RtvCancel, Ordered, TypeOK
  <2>2. UNCHANGED <<clock, gameOver, counts, match, results, rtvComplete>>
           /\ rtvs' = {} /\ rtvDisabled' = FALSE /\ rtvFrom' = clock + RtvDelay
    BY <1>3 DEF RtvCancel
  <2>3. TypeOK'
    <3>1. rtvFrom' \in Nat
      BY <1>0, <2>2, Settings DEF TypeOK
    <3>2. UNCHANGED <<team, election, nextlevel, changeTime>>
      BY <2>2 DEF results
    <3>3. rtvs' \subseteq Voters /\ rtvDisabled' \in BOOLEAN
      BY <2>2
    <3> QED
      BY <1>0, <2>1, <2>2, <3>1, <3>2, <3>3 DEF TypeOK
  <2>4. RtvStaysOnItsMap'
    BY <2>1 DEF RtvStaysOnItsMap
  <2> QED
    BY <2>2, <2>3, <2>4 DEF IInv, Sound, Alone, Timely, results
<1>4. ASSUME NEW v \in Voters, Leave(v)
      PROVE  IInv'
  <2>1. /\ team' = [team EXCEPT ![v] = Nobody] /\ election' = Forget(election, v)
        /\ UNCHANGED <<clock, gameOver, counts, match, orders, nextlevel, changeTime,
                       rtvComplete, rtv>>
    BY <1>4 DEF Leave
  <2>2. Sound(election)' /\ Fewer(election', election)
    BY <1>0, <2>1, ForgetFewer
  <2>3. TypeOK'
    BY <1>0, <2>1, <2>2 DEF TypeOK, Sound, rtv
  <2> QED
    BY <2>1, <2>2, <2>3, EndsOnly DEF IInv, rtv
<1>5. ASSUME NEW v \in Voters, NEW t \in Places, Join(v, t)
      PROVE  IInv'
  <2>1. team' \in [Voters -> Teams \cup {Spectators, Nobody}]
    BY <1>0, <1>5, SettingAssumption DEF Join, TypeOK
  <2> QED
    BY <1>0, <1>5, <2>1 DEF Join, IInv, TypeOK, Sound, Alone, Timely, RtvStaysOnItsMap, rtv
<1>6. ASSUME NEW m \in Maps, NextMap(m)
      PROVE  IInv'
  <2>1. orders' \in 0..MaxOrders /\ orders' # 0
    BY <1>0, <1>6, TimeAssumption DEF NextMap, Ordered, TypeOK
  <2>2. TypeOK'
    BY <1>0, <1>6, <2>1 DEF NextMap, TypeOK, rtv
  <2>3. RtvStaysOnItsMap'
    BY <2>1 DEF RtvStaysOnItsMap
  <2> QED
    BY <1>6, <2>2, <2>3 DEF NextMap, IInv, Sound, Alone, Timely
<1> QED
  BY <1>1, <1>2, <1>3, <1>4, <1>5, <1>6

\* The orders that end elections
LEMMA CancelInv ==
    ASSUME IInv,
           \/ \E which \in SUBSET Teams : VoteCancel(which)
           \/ \E m \in Maps : ChangeMap(m)
    PROVE  IInv'
<1>0. TypeOK /\ Sound(election)
  BY DEF IInv
<1>1. orders' \in 0..MaxOrders /\ orders' # 0
  BY <1>0, TimeAssumption DEF VoteCancel, ChangeMap, Ordered, TypeOK
<1>2. PICK which \in SUBSET Teams :
         election' = [t \in Teams |-> IF t \in which THEN None ELSE election[t]]
  <2>1. CASE \E m \in Maps : ChangeMap(m)
    <3>1. election' = [t \in Teams |-> IF t \in Teams THEN None ELSE election[t]]
      BY <2>1 DEF ChangeMap
    <3> QED
      BY <3>1
  <2> QED
    BY <2>1 DEF VoteCancel
<1>3. Fewer(election', election) /\ election' \in [Teams -> Election]
  BY <1>0, <1>2, NoneType DEF Fewer, Sound
<1>4. \A t \in Teams : Proper(election'[t])
  BY <1>0, <1>2, NoneType DEF Sound
<1>5. Sound(election)'
  BY <1>0, <1>3, <1>4, FewerSound
<1>6. nextlevel' \in Maps \cup {NoMap} /\ changeTime' \in Nat
  BY <1>0, Settings DEF VoteCancel, ChangeMap, TypeOK
<1>7. UNCHANGED <<clock, gameOver, counts, match, team, rtvComplete, rtv>>
  BY DEF VoteCancel, ChangeMap
<1>8. TypeOK'
  BY <1>0, <1>1, <1>3, <1>6, <1>7 DEF TypeOK, rtv
<1> QED
  BY <1>1, <1>3, <1>5, <1>7, <1>8, EndsOnly DEF IInv

\* votemap with several maps
LEMMA VoteMapsInv ==
    ASSUME IInv, NEW v \in Voters, VoteMaps(v)
    PROVE  IInv'
<1>0. TypeOK /\ clock \in Nat /\ rtvComplete \in BOOLEAN /\ team[v] \in Teams
  BY DEF IInv, TypeOK, VoteMaps
<1>1. orders' \in 0..MaxOrders /\ orders' # 0
  BY <1>0, TimeAssumption DEF VoteMaps, Ordered, TypeOK
<1>2. Sound(election)' /\ OldOrNew(election', rtvComplete, clock)
  BY <1>0, MapElectionSound DEF VoteMaps
<1>3. UNCHANGED <<clock, gameOver, counts, match, team, nextlevel, changeTime, rtv>>
        /\ rtvComplete' \in BOOLEAN
  BY <1>0 DEF VoteMaps, FlagAfterwards
<1>4. TypeOK'
  BY <1>0, <1>1, <1>2, <1>3 DEF TypeOK, Sound, rtv
<1>5. Timely(election, clock)'
  BY <1>2, <1>3 DEF IInv, Timely, OldOrNew
<1>6. RtvStaysOnItsMap'
  BY <1>1 DEF RtvStaysOnItsMap
<1> QED
  BY <1>2, <1>4, <1>5, <1>6 DEF IInv

\* votekick, votemap and the other requests of a player
LEMMA RequestInv ==
    ASSUME IInv, NEW v \in Voters, NEW e \in Election,
           Active(e), e.votes = <<>>, e.due = clock + Duration, ~e.instant,
           Request(v, e)
    PROVE  IInv'
<1>0. TypeOK /\ Sound(election) /\ clock \in Nat /\ team[v] \in Teams
  BY DEF IInv, TypeOK, Request
<1>1. election' = [election EXCEPT ![team[v]] = e] /\ CreationAllowed(team[v], e.universal, clock)
  BY DEF Request, CreateElection
<1>2. Sound(election)'
  BY <1>0, <1>1, NewSound
<1>3. UNCHANGED <<clock, gameOver, counts, match, orders, team, nextlevel, changeTime,
                  rtvComplete, rtv>>
  BY DEF Request
<1>4. TypeOK'
  BY <1>0, <1>2, <1>3 DEF TypeOK, Sound, rtv
<1>5. \A t \in Teams : election'[t] = IF t = team[v] THEN e ELSE election[t]
  BY <1>0, <1>1 DEF Sound
<1>6. Timely(election, clock)'
  BY <1>0, <1>3, <1>5, Settings DEF IInv, Timely
<1>7. RtvStaysOnItsMap'
  BY <1>3, <1>5 DEF IInv, RtvStaysOnItsMap, rtv
<1> QED
  BY <1>2, <1>4, <1>6, <1>7 DEF IInv

LEMMA RequestsInv ==
    ASSUME IInv, NEW v \in Voters,
           \/ VotePoll(v)
           \/ \E target \in Voters : VoteKick(v, target)
           \/ \E m \in Maps : VoteMap(v, m)
    PROVE  IInv'
<1>1. PICK kind \in {"poll", "kick", "votemap"}, universal \in BOOLEAN,
           target \in Voters \cup {NoVoter}, map \in Maps \cup {NoMap} :
         Request(v, New(kind, universal, target, map, FALSE, clock))
  BY DEF VotePoll, VoteKick, VoteMap
<1> DEFINE e == New(kind, universal, target, map, FALSE, clock)
<1>2. /\ e.votes = <<>> /\ e.due = clock + Duration /\ e.instant = FALSE /\ e.kind = kind
      /\ Active(e)
  BY DEF New, Active
<1>3. e \in Election
  <2>1. clock \in Nat /\ EnoughTime(clock)
    BY <1>1 DEF IInv, TypeOK, Request, CreationAllowed
  <2>2. kind \in Kinds
    BY DEF Kinds
  <2> QED
    BY <2>1, <2>2, NewType
<1> HIDE DEF e
<1> QED
  BY <1>1, <1>2, <1>3, RequestInv DEF e

LEMMA RtvInv ==
    ASSUME IInv, NEW v \in Voters, ReceiveRtvFromPlayer(v)
    PROVE  IInv'
<1>0. TypeOK /\ Sound(election) /\ clock \in Nat
  BY DEF IInv, TypeOK
<1>1. /\ rtvs' = rtvs \cup {v} /\ rtvFrom' = rtvFrom
      /\ UNCHANGED <<clock, gameOver, counts, match, orders, team, nextlevel, changeTime>>
  BY DEF ReceiveRtvFromPlayer
<1>2. CASE UNCHANGED <<rtvDisabled, rtvComplete, election>>
  <2>1. TypeOK'
    BY <1>0, <1>1, <1>2 DEF TypeOK
  <2> QED
    BY <1>1, <1>2, <2>1 DEF IInv, Sound, Alone, Timely, RtvStaysOnItsMap
<1>3. CASE ~UNCHANGED <<rtvDisabled, rtvComplete, election>>
  <2>1. PICK last \in LastRound : /\ rtvDisabled' = TRUE
                                  /\ election' = AutoElection(TRUE, last, clock)
                                  /\ rtvComplete' = AutoFlag(TRUE, last, clock)
    BY <1>3 DEF ReceiveRtvFromPlayer
  <2>2. Sound(election)' /\ OldOrNew(election', TRUE, clock)
    BY <1>0, <2>1, AutoElectionSound
  <2>3. rtvComplete' \in BOOLEAN
    BY <2>1 DEF AutoFlag
  <2>4. TypeOK'
    BY <1>0, <1>1, <2>1, <2>2, <2>3 DEF TypeOK, Sound
  <2>5. Timely(election, clock)'
    BY <1>1, <2>2 DEF IInv, Timely, OldOrNew
  <2>6. RtvStaysOnItsMap'
    BY <2>1 DEF RtvStaysOnItsMap
  <2> QED
    BY <2>2, <2>4, <2>5, <2>6 DEF IInv
<1> QED
  BY <1>2, <1>3
-------------------------------------------------------------------------------
\* A vote of a voter who has not voted yet
LEMMA AppendProper ==
    ASSUME NEW e \in Election, Proper(e), NEW v \in Voters, ~HasVoted(e, v),
           NEW c \in Answers \cup ToSet(Options)
    PROVE  LET f == [e EXCEPT !.votes = Append(@, [voter |-> v, choice |-> c])]
           IN  /\ f \in Election /\ Proper(f)
               /\ f.kind = e.kind /\ f.universal = e.universal
               /\ f.due = e.due /\ f.instant = e.instant
<1> DEFINE X == [voter : Voters, choice : Answers \cup ToSet(Options)]
           x == [voter |-> v, choice |-> c]
           w == Append(e.votes, x)
           f == [e EXCEPT !.votes = w]
<1>1. x \in X /\ x.voter = v
  OBVIOUS
<1>2. e.votes \in Seq(X)
  BY DEF Election
<1> HIDE DEF x, X
<1>3. /\ w \in Seq(X) /\ Len(w) = Len(e.votes) + 1 /\ Len(e.votes) \in Nat
      /\ w[Len(w)] = x
      /\ \A i \in 1..Len(e.votes) : w[i] = e.votes[i]
      /\ DOMAIN w = 1..Len(w) /\ DOMAIN e.votes = 1..Len(e.votes)
  BY <1>1, <1>2
<1> HIDE DEF w
<1>4. /\ f.votes = w /\ f.kind = e.kind /\ f.universal = e.universal
      /\ f.due = e.due /\ f.instant = e.instant
  BY DEF Election
<1>5. f \in Election
  BY <1>3 DEF Election, X
<1> HIDE DEF f
<1>6. Once(f)
  <2> SUFFICES ASSUME NEW i \in 1..Len(w), NEW j \in 1..Len(w), w[i].voter = w[j].voter, i # j
               PROVE  FALSE
    BY <1>3, <1>4 DEF Once
  <2>1. \A k \in 1..Len(w) : k # Len(w) => k \in 1..Len(e.votes) /\ w[k] = e.votes[k]
    BY <1>3
  <2>2. \A k \in 1..Len(e.votes) : e.votes[k].voter # v
    BY <1>3 DEF HasVoted
  <2>3. CASE i = Len(w) \/ j = Len(w)
    BY <1>1, <1>3, <2>1, <2>2, <2>3
  <2>4. CASE i # Len(w) /\ j # Len(w)
    BY <1>3, <2>1, <2>4 DEF Proper, Once
  <2> QED
    BY <2>3, <2>4
<1>7. Proper(f)
  BY <1>4, <1>6 DEF Proper, Active
<1> QED
  BY <1>4, <1>5, <1>7 DEF f, w, x

LEMMA VoteInv ==
    ASSUME IInv, NEW v \in Voters, NEW c \in Answers \cup ToSet(Options), Vote(v, c)
    PROVE  IInv'
<1> DEFINE t == System(v)
           e == [election[t] EXCEPT !.votes = Append(@, [voter |-> v, choice |-> c])]
<1>0. TypeOK /\ Sound(election) /\ clock \in Nat
  BY DEF IInv, TypeOK
<1>1. t \in Teams
  BY DEF System, Vote, Teams
<1>2. /\ HasActiveElection(t) /\ ~HasVoted(election[t], v)
      /\ \/ Become(FinishElection(t, e, State, clock))
         \/ /\ election' = [election EXCEPT ![t] = e]
            /\ UNCHANGED <<team, nextlevel, changeTime>>
      /\ UNCHANGED <<clock, gameOver, counts, match, orders, rtvComplete, rtv>>
  BY DEF Vote
<1>3. /\ e \in Election /\ Proper(e)
      /\ e.kind = election[t].kind /\ e.universal = election[t].universal
      /\ e.due = election[t].due /\ e.instant = election[t].instant
  <2>1. election[t] \in Election /\ Proper(election[t])
    BY <1>0, <1>1 DEF Sound
  <2> HIDE DEF t
  <2> QED
    BY <1>2, <2>1, AppendProper
<1> HIDE DEF e, t
<1>4. /\ Sound(election)' /\ Fewer(election', election)
      /\ team' \in [Voters -> Teams \cup {Spectators, Nobody}]
      /\ nextlevel' \in Maps \cup {NoMap} /\ changeTime' \in Nat
  <2>1. CASE Become(FinishElection(t, e, State, clock))
    <3> DEFINE r == FinishElection(t, e, State, clock)
    <3>1. Fine(State, election)
      BY <1>0 DEF TypeOK, Fine, State, Fewer
    <3>2. Fine(r, election)
      BY <1>0, <1>1, <1>3, <3>1, FinishFine
    <3>3. /\ team' = r.team /\ election' = r.election
          /\ nextlevel' = r.nextlevel /\ changeTime' = r.changeTime
      BY <2>1 DEF Become
    <3> HIDE DEF r
    <3> QED
      BY <3>2, <3>3 DEF Fine
  <2>2. CASE /\ election' = [election EXCEPT ![t] = e]
             /\ UNCHANGED <<team, nextlevel, changeTime>>
    <3>1. \A o \in Teams : election'[o] = IF o = t THEN e ELSE election[o]
      BY <1>0, <2>2 DEF Sound
    <3>2. election' \in [Teams -> Election]
      BY <1>0, <1>3, <2>2 DEF Sound
    <3>3. Fewer(election', election) /\ \A o \in Teams : Proper(election'[o])
      BY <1>0, <1>3, <3>1 DEF Fewer, Active, Sound
    <3>4. Sound(election)'
      BY <1>0, <3>2, <3>3, FewerSound
    <3> QED
      BY <1>0, <2>2, <3>3, <3>4 DEF TypeOK
  <2> QED
    BY <1>2, <2>1, <2>2
<1>5. TypeOK'
  BY <1>0, <1>2, <1>4 DEF TypeOK, Sound, rtv
<1> QED
  BY <1>2, <1>4, <1>5, EndsOnly DEF IInv, rtv

LEMMA StutterInv == IInv /\ UNCHANGED vars => IInv'
BY DEF IInv, vars, results, rtv, TypeOK, Sound, Alone, Timely, RtvStaysOnItsMap, HasActiveElection

LEMMA NextInv == IInv /\ [Next]_vars => IInv'
<1> SUFFICES ASSUME IInv, [Next]_vars
             PROVE  IInv'
  OBVIOUS
<1>1. CASE Think
  BY <1>1, ThinkInv
<1>2. CASE EndMatch \/ UpdatePlayerData \/ RtvCancel
  BY <1>2, OtherInv
<1>3. CASE VoteCancel(Teams) \/ \E t \in Teams : VoteCancel({t})
  BY <1>3, CancelInv
<1>4. ASSUME NEW m \in Maps, NextMap(m) \/ ChangeMap(m)
      PROVE  IInv'
  BY <1>4, OtherInv, CancelInv
<1>5. ASSUME NEW v \in Voters, Leave(v) \/ \E t \in Places : Join(v, t)
      PROVE  IInv'
  BY <1>5, OtherInv
<1>6. ASSUME NEW v \in Voters, ReceiveRtvFromPlayer(v)
      PROVE  IInv'
  BY <1>6, RtvInv
<1>7. ASSUME NEW v \in Voters, VoteMaps(v)
      PROVE  IInv'
  BY <1>7, VoteMapsInv
<1>8. ASSUME NEW v \in Voters,
             VotePoll(v) \/ (\E target \in Voters : VoteKick(v, target))
                         \/ (\E m \in Maps : VoteMap(v, m))
      PROVE  IInv'
  BY <1>8, RequestsInv
<1>9. ASSUME NEW v \in Voters, NEW c \in Answers \cup ToSet(Options), Vote(v, c)
      PROVE  IInv'
  BY <1>9, VoteInv
<1>10. CASE UNCHANGED vars
  BY <1>10, StutterInv
<1> QED
  BY <1>1, <1>2, <1>3, <1>4, <1>5, <1>6, <1>7, <1>8, <1>9, <1>10 DEF Next

(***************************************************************************)
(* The strengthened invariant holds in every reachable state.              *)
(***************************************************************************)
THEOREM Invariance == Spec => []IInv
<1> QED
  BY InitInv, NextInv, PTL DEF Spec

(***************************************************************************)
(* Every variable has its type, and no election is due after the match.    *)
(***************************************************************************)
THEOREM TypeCorrect == Spec => []TypeOK
<1>1. IInv => TypeOK
  BY DEF IInv
<1> QED
  BY <1>1, Invariance, PTL

(***************************************************************************)
(* NewElectionAllowedForTeam keeps an election of everybody alone.         *)
(***************************************************************************)
THEOREM NeverClash == Spec => []NoClash
<1>1. IInv => NoClash
  BY DEF IInv, Sound, Alone, NoClash, HasActiveElection, Active
<1> QED
  BY <1>1, Invariance, PTL

(***************************************************************************)
(* PlayerCanVote lets nobody vote twice in an election.                    *)
(***************************************************************************)
THEOREM NobodyVotesTwice == Spec => []OneVoteEach
<1>1. IInv => OneVoteEach
  BY DEF IInv, Sound, Proper, Once, OneVoteEach
<1> QED
  BY <1>1, Invariance, PTL

(***************************************************************************)
(* What the players of one map asked for is not done on the next.          *)
(***************************************************************************)
THEOREM RtvIsForgotten == Spec => []RtvStaysOnItsMap
<1>1. IInv => RtvStaysOnItsMap
  BY DEF IInv
<1> QED
  BY <1>1, Invariance, PTL

(***************************************************************************)
(* CreateElection's check of the time left, with Think every frame, lets   *)
(* every election end before the time limit does.                          *)
(***************************************************************************)
THEOREM TimeLimitCutsNothing == Spec => NotCutOff
<1>1. IInv /\ [Next]_vars => [gameOver' /\ clock' > MapTime /\ ~gameOver =>
                                \A t \in Teams : ~HasActiveElection(t)]_vars
  <2> SUFFICES ASSUME IInv, Next, gameOver', clock' > MapTime, ~gameOver,
                      NEW t \in Teams, Active(election[t])
               PROVE  FALSE
    BY DEF HasActiveElection, Active
  <2>1. /\ clock \in Nat /\ election[t].due \in Nat
        /\ clock <= election[t].due /\ election[t].due + Margin <= MapTime
    BY Settings DEF IInv, TypeOK, Sound, Timely, Election
  <2>2. clock' \in {0, clock, clock + 1}
    BY DEF Next, Think, ThinkGameOver, ThinkTimeUp, ThinkPlay, ThinkElections, ChangeLevel,
           EndMatch, UpdatePlayerData, RtvCancel, VoteCancel, NextMap, ChangeMap, Join, Leave,
           ReceiveRtvFromPlayer, VotePoll, VoteKick, VoteMap, VoteMaps, Request, Vote
  <2> QED
    BY <2>1, <2>2, Settings
<1> QED
  BY <1>1, Invariance, PTL DEF Spec, NotCutOff
-------------------------------------------------------------------------------
(***************************************************************************)
(* Early ends.  In an election without double votes there are as many      *)
(* voters as votes.                                                        *)
(***************************************************************************)
VotersOf(e) == {e.votes[i].voter : i \in DOMAIN e.votes}

LEMMA AsManyVoters ==
    ASSUME NEW e \in Election, Once(e)
    PROVE  /\ IsFiniteSet(VotersOf(e))
           /\ Cardinality(VotersOf(e)) = Len(e.votes) /\ Len(e.votes) \in Nat
<1> DEFINE n == Len(e.votes)
           f == [i \in 1..n |-> e.votes[i].voter]
<1>1. n \in Nat /\ DOMAIN e.votes = 1..n
  BY DEF Election
<1> HIDE DEF n
<1>2. IsFiniteSet(1..n) /\ Cardinality(1..n) = n
  <2>1. IsFiniteSet(1..n) /\ Cardinality(1..n) = IF 1 > n THEN 0 ELSE n - 1 + 1
    BY <1>1, FS_Interval
  <2> QED
    BY <1>1, <2>1
<1>3. f \in Bijection(1..n, VotersOf(e))
  BY <1>1 DEF Bijection, Injection, Surjection, IsInjective, VotersOf, Once
<1>4. ExistsBijection(1..n, VotersOf(e))
  BY <1>3 DEF ExistsBijection
<1> QED
  BY <1>1, <1>2, <1>4, FS_Bijection DEF n

\* The players of the two teams are counted one by one.
LEMMA EntitledAreCounted ==
    ASSUME TypeOK, counts = Counted, NEW t \in Teams
    PROVE  /\ IsFiniteSet(Entitled(t))
           /\ Cardinality(Entitled(t)) \in Nat
           /\ Cardinality(Entitled(t)) <= Electorate(t, election[t])
<1> DEFINE A == Present(Americans)
           B == Present(British)
<1>1. IsFiniteSet(A) /\ IsFiniteSet(B)
  BY VoterAssumption, FS_Subset DEF Present
<1>2. A \cap B = {}
  BY DEF Present, Americans, British
<1>3. /\ Cardinality(A) \in Nat /\ match.bots[Americans] \in Nat
      /\ Cardinality(B) \in Nat /\ match.bots[British] \in Nat
  <2>1. match.bots[Americans] \in Nat /\ match.bots[British] \in Nat
    BY SettingAssumption DEF TypeOK, Teams
  <2> QED
    BY <1>1, <2>1, FS_CardinalityType
<1>4. /\ counts[Americans] = Cardinality(A) + match.bots[Americans]
      /\ counts[British] = Cardinality(B) + match.bots[British]
  BY DEF Counted, Teams
<1> HIDE DEF A, B
<1>5. /\ IsFiniteSet(A \cup B)
      /\ Cardinality(A \cup B) = Cardinality(A) + Cardinality(B) - Cardinality(A \cap B)
  BY <1>1, FS_Union
<1>6. Cardinality(A \cap B) = 0
  BY <1>2, FS_EmptySet
<1>7. Cardinality(A \cup B) = Cardinality(A) + Cardinality(B)
  BY <1>3, <1>5, <1>6
<1>8. CASE election[t].universal
  <2>1. Entitled(t) = A \cup B /\ Electorate(t, election[t]) = counts[Americans] + counts[British]
    BY <1>8 DEF Entitled, Electorate, NumNonSpectators, A, B
  <2> QED
    BY <1>3, <1>4, <1>5, <1>7, <2>1
<1>9. CASE ~election[t].universal
  <2>1. Entitled(t) = (IF t = Americans THEN A ELSE B) /\ Electorate(t, election[t]) = counts[t]
    BY <1>9 DEF Entitled, Electorate, A, B, Teams
  <2> QED
    BY <1>1, <1>3, <1>4, <2>1 DEF Teams
<1> QED
  BY <1>8, <1>9

\* A vote ends no election but the one it is given in, and that one when
\* as many have voted as may.
LEMMA EndsOnLastVote ==
    ASSUME IInv, NEW v \in Voters, NEW c, Vote(v, c),
           NEW t \in Teams, HasActiveElection(t), election'[t] = None
    PROVE  /\ ~HasVoted(election[t], v)
           /\ Len(election[t].votes) + 1 = Electorate(t, election[t])
<1> DEFINE s == System(v)
           e == [election[s] EXCEPT !.votes = Append(@, [voter |-> v, choice |-> c])]
<1>1. s \in Teams /\ election \in [Teams -> Election]
  BY DEF System, Vote, Teams, IInv, Sound
<1>2. /\ HasActiveElection(s) /\ ~HasVoted(election[s], v)
      /\ IF AllPlayersVoted(s, e)
         THEN Become(FinishElection(s, e, State, clock))
         ELSE election' = [election EXCEPT ![s] = e]
  BY DEF Vote
<1>3. /\ e.kind = election[s].kind /\ e.universal = election[s].universal
      /\ e.votes = Append(election[s].votes, [voter |-> v, choice |-> c])
  BY <1>1 DEF Election
<1>4. Len(e.votes) = Len(election[s].votes) + 1
  BY <1>1, <1>3 DEF Election
<1> HIDE DEF e, s
<1>5. None.kind = "none"
  BY DEF None
<1>6. AllPlayersVoted(s, e)
  <2> SUFFICES ASSUME election' = [election EXCEPT ![s] = e]
               PROVE  FALSE
    BY <1>2
  <2>1. election'[t].kind = election[t].kind
    BY <1>1, <1>3
  <2> QED
    BY <1>5, <2>1 DEF HasActiveElection
<1>7. t = s
  <2> SUFFICES ASSUME t # s
               PROVE  FALSE
    OBVIOUS
  <2>1. election' = FinishElection(s, e, State, clock).election
    BY <1>2, <1>6 DEF Become
  <2>2. \/ election' = [election EXCEPT ![s] = None]
        \/ election' = [Forget(election, e.target) EXCEPT ![s] = None]
    BY <2>1 DEF FinishElection, State
  <2>3. Forget(election, e.target)[t].kind = election[t].kind
    BY <1>1 DEF Forget, Election
  <2>4. election'[t].kind = election[t].kind
    BY <1>1, <2>2, <2>3 DEF Forget
  <2> QED
    BY <1>5, <2>4 DEF HasActiveElection
<1>8. Electorate(s, e) = Electorate(s, election[s])
  BY <1>3 DEF Electorate
<1> QED
  BY <1>2, <1>4, <1>6, <1>7, <1>8 DEF AllPlayersVoted

(***************************************************************************)
(* Whoever may vote has voted when AllPlayersVoted ends an election before *)
(* its time, as long as the players' numbers are up to date and nobody who *)
(* voted has gone: HasVoted makes as many voters as votes.                 *)
(***************************************************************************)
THEOREM EarlyEndsMissNobody == Spec => EarlyEndMissesNobody
<1> DEFINE Missed(t, v) ==
             /\ HasActiveElection(t) /\ election'[t] = None
             /\ \E c \in Answers \cup ToSet(Options) : Vote(v, c)
             =>
             LET voted == {election[t].votes[i].voter : i \in DOMAIN election[t].votes} \cup {v}
             IN  counts = Counted /\ voted \subseteq Entitled(t) => Entitled(t) \subseteq voted
<1>1. ASSUME IInv, NEW t \in Teams, NEW v \in Voters, NEW c, Vote(v, c),
             HasActiveElection(t), election'[t] = None,
             counts = Counted, VotersOf(election[t]) \cup {v} \subseteq Entitled(t)
      PROVE  Entitled(t) \subseteq VotersOf(election[t]) \cup {v}
  <2> DEFINE e == election[t]
             V == VotersOf(e)
             W == V \cup {v}
             E == Entitled(t)
             n == Len(e.votes)
  <2>1. ~HasVoted(e, v) /\ n + 1 = Electorate(t, e)
    BY <1>1, EndsOnLastVote
  <2>2. e \in Election /\ Once(e)
    BY <1>1 DEF IInv, Sound, Proper
  <2> HIDE DEF e
  <2>3. IsFiniteSet(V) /\ Cardinality(V) = n /\ n \in Nat
    BY <2>2, AsManyVoters
  <2>4. v \notin V
    BY <2>1 DEF HasVoted, VotersOf
  <2>5. IsFiniteSet(E) /\ Cardinality(E) \in Nat /\ Cardinality(E) <= n + 1
    BY <1>1, <2>1, EntitledAreCounted DEF IInv, e
  <2>6. W \in SUBSET E
    BY <1>1 DEF e
  <2> HIDE DEF n, V, E
  <2>7. Cardinality(W) = n + 1
    BY <2>3, <2>4, FS_AddElement
  <2> HIDE DEF W
  <2>8. Cardinality(W) <= Cardinality(E) /\ (Cardinality(E) = Cardinality(W) => E = W)
    BY <2>5, <2>6, FS_Subset
  <2>9. Cardinality(E) = Cardinality(W)
    BY <2>3, <2>5, <2>7, <2>8
  <2> QED
    BY <2>8, <2>9 DEF E, W, V, e
<1>2. ASSUME IInv, NEW t \in Teams, NEW v \in Voters
      PROVE  Missed(t, v)
  BY <1>1, <1>2 DEF VotersOf
<1>3. IInv /\ [Next]_vars => [\A t \in Teams, v \in Voters : Missed(t, v)]_vars
  BY <1>2
<1> QED
  BY <1>3, Invariance, PTL DEF Spec, EarlyEndMissesNobody
===============================================================================
