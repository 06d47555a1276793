--------------------------- MODULE ClassQuotaProofs ---------------------------
(***************************************************************************)
(* For any players, bots, classes and limits: the population counters are  *)
(* exact, bots are offered only free places, limited classes do not        *)
(* overflow, and joining keeps the teams balanced.                         *)
(***************************************************************************)
EXTENDS ClassQuota, SequenceLemmas, TLAPS

\* How far the counters of a class are above what they count.
Excess(c) == total[c] - Cardinality(In(c))
BotExcess(c) == bots[c] - Cardinality(In(c) \cap Bots)

(***************************************************************************)
(* The inductive invariant: a player who leaves in the intermission may    *)
(* stay counted, but nobody in a class is ever left out of the count.      *)
(***************************************************************************)
Covered == \A c \in Classes : Excess(c) >= BotExcess(c) /\ BotExcess(c) >= 0

IInv == TypeOK /\ Covered /\ CountersExact

-------------------------------------------------------------------------------
\* The sets that are counted are finite.
LEMMA Countable ==
    ASSUME NEW S \in SUBSET Players
    PROVE  IsFiniteSet(S) /\ Cardinality(S) \in Nat
<1>1. IsFiniteSet(S)
  BY PlayerAssumption, FS_Subset
<1> QED
  BY <1>1, FS_CardinalityType

\* Taking one element out of a finite set and putting it in.
LEMMA OneLess ==
    ASSUME NEW S \in SUBSET Players, NEW x
    PROVE  Cardinality(S \ {x}) = IF x \in S THEN Cardinality(S) - 1 ELSE Cardinality(S)
BY Countable, FS_RemoveElement

LEMMA OneMore ==
    ASSUME NEW S \in SUBSET Players, NEW x
    PROVE  Cardinality(S \cup {x}) = IF x \in S THEN Cardinality(S) ELSE Cardinality(S) + 1
BY Countable, FS_AddElement

LEMMA InType ==
    ASSUME NEW c
    PROVE  In(c) \in SUBSET Players /\ In(c) \cap Bots \in SUBSET Players
BY DEF In

\* How far one team is ahead of the other is a number.
LEMMA GapType ==
    ASSUME NEW t
    PROVE  /\ Members(t) \in SUBSET Players
           /\ Cardinality(Members(t)) \in Nat
           /\ Gap(t) \in Int
<1>1. Members(t) \in SUBSET Players /\ Members(Other(t)) \in SUBSET Players
  BY DEF Members
<1>2. Cardinality(Members(t)) \in Nat /\ Cardinality(Members(Other(t))) \in Nat
  BY <1>1, Countable
<1>. QED
  BY <1>1, <1>2 DEF Gap

\* A class without limit is a class.
LEMMA InfiniteType ==
    ASSUME NEW t \in Teams, NEW n
    PROVE  /\ FindInfiniteClassForTeam(t, n) \in Classes
           /\ FindInfiniteClassForTeam(t, n)[1] = t
<1> DEFINE free == {k \in Numbers : Limit(<<t, k>>, n) < 0}
<1>1. Infantry \in Numbers
  BY ClassAssumption DEF Infantry, Numbers
<1>2. free \in SUBSET Nat /\ free \subseteq Numbers
  BY ClassAssumption DEF Numbers
<1>3. free # {} => Min(free) \in Numbers
  BY <1>2, LeastElement
<1> HIDE DEF free
<1>4. FindInfiniteClassForTeam(t, n) = <<t, IF free = {} THEN Infantry ELSE Min(free)>>
  BY DEF FindInfiniteClassForTeam, free
<1> QED
  BY <1>1, <1>3, <1>4 DEF Classes

\* Taking the first offer of a class away leaves a queue of classes.
LEMMA TakeOfferType ==
    ASSUME NEW q \in Seq(Classes), NEW c
    PROVE  TakeOffer(q, c) \in Seq(Classes)
BY RemoveFirstCount DEF TakeOffer
-------------------------------------------------------------------------------
\* Who is counted after p has gone to the team t and asked for the class c.
LEMMA InAfter ==
    ASSUME TypeOK, NEW p \in Players, NEW c, NEW t,
           t \in Teams => c \in Classes /\ c[1] = t,
           t \notin Teams => t \in {Spectators, Nobody},
           team' = [team EXCEPT ![p] = t],
           next' = [next EXCEPT ![p] = IF t \in Teams THEN c[2] ELSE NoNumber],
           NEW d \in Classes
    PROVE  In(d)' = (In(d) \ {p}) \cup (IF t \in Teams /\ d = c THEN {p} ELSE {})
<1>1. \A q \in Players \ {p} : NextClass(q)' = NextClass(q)
  BY DEF TypeOK, NextClass
<1>2. NextClass(p)' = <<t, IF t \in Teams THEN c[2] ELSE NoNumber>>
  BY DEF TypeOK, NextClass
<1>3. t \in Teams => NextClass(p)' = c
  BY <1>2 DEF Classes
<1>4. t \notin Teams => NextClass(p)' # d
  BY <1>2 DEF Classes
<1> QED
  BY <1>1, <1>3, <1>4 DEF In

\* A player is counted in a class just when he is on a playing team.
LEMMA CountedIn ==
    ASSUME TypeOK, NEW p \in Players, NEW d \in Classes
    PROVE  /\ p \in In(d) <=> Counted(p) /\ NextClass(p) = d
           /\ Counted(p) => NextClass(p) \in Classes
BY DEF TypeOK, In, Counted, NextClass, Classes

\* Nobody is missing from the counters.
LEMMA CoveredMeans ==
    ASSUME TypeOK, Covered, NEW d \in Classes
    PROVE  total[d] >= Cardinality(In(d)) /\ bots[d] >= Cardinality(In(d) \cap Bots)
<1>1. total[d] \in Int /\ bots[d] \in Int
  BY DEF TypeOK
<1>2. Cardinality(In(d)) \in Int /\ Cardinality(In(d) \cap Bots) \in Int
  <2>1. In(d) \in SUBSET Players /\ In(d) \cap Bots \in SUBSET Players
    BY InType
  <2>. QED
    BY <2>1, Countable
<1>3. Excess(d) >= BotExcess(d) /\ BotExcess(d) >= 0
  BY DEF Covered
<1>4. Excess(d) = total[d] - Cardinality(In(d)) /\ BotExcess(d) = bots[d] - Cardinality(In(d) \cap Bots)
  BY DEF Excess, BotExcess
<1>5. Excess(d) >= 0
  BY <1>1, <1>2, <1>3, <1>4
<1>. QED
  BY <1>1, <1>2, <1>3, <1>4, <1>5

\* The counters when p is taken out of them.
LEMMA Without ==
    ASSUME TypeOK, Covered, NEW p \in Players, NEW c
    PROVE  /\ TotalWithout(p, c) \in [Classes -> Nat]
           /\ BotsWithout(p, c) \in [Classes -> Nat]
           /\ \A d \in Classes :
                 /\ TotalWithout(p, c)[d] = total[d] - (IF p \in In(d) THEN 1 ELSE 0)
                 /\ BotsWithout(p, c)[d] = bots[d] - (IF p \in In(d) \cap Bots THEN 1 ELSE 0)
<1>1. ASSUME NEW d \in Classes
      PROVE  /\ p \in In(d) => total[d] > 0
             /\ p \in In(d) \cap Bots => bots[d] > 0
  <2>1. /\ In(d) \in SUBSET Players /\ Cardinality(In(d)) \in Nat
        /\ In(d) \cap Bots \in SUBSET Players /\ Cardinality(In(d) \cap Bots) \in Nat
    BY InType, Countable
  <2>2. p \in In(d) => Cardinality(In(d)) # 0
    BY <2>1, Countable, FS_EmptySet
  <2>3. p \in In(d) \cap Bots => Cardinality(In(d) \cap Bots) # 0
    BY <2>1, Countable, FS_EmptySet
  <2>4. total[d] >= Cardinality(In(d)) /\ bots[d] >= Cardinality(In(d) \cap Bots)
    BY CoveredMeans
  <2>5. total[d] \in Nat /\ bots[d] \in Nat
    BY DEF TypeOK
  <2> QED
    BY <2>1, <2>2, <2>3, <2>4, <2>5
<1> DEFINE k == NextClass(p)
<1>2. total \in [Classes -> Nat] /\ bots \in [Classes -> Nat]
  BY DEF TypeOK
<1>3. CASE Counted(p)
  <2>1. k \in Classes
    BY <1>3 DEF TypeOK, Counted, NextClass, Classes
  <2>2. \A d \in Classes : p \in In(d) <=> d = k
    BY <1>3, CountedIn
  <2>3. total[k] > 0 /\ (p \in Bots => bots[k] > 0)
    BY <1>1, <2>1, <2>2
  <2>4. /\ TotalWithout(p, c) = [total EXCEPT ![k] = @ - 1]
        /\ BotsWithout(p, c) = IF p \in Bots THEN [bots EXCEPT ![k] = @ - 1] ELSE bots
    BY <1>3 DEF TotalWithout, BotsWithout, Leaving
  <2> HIDE DEF k
  <2> QED
    BY <1>2, <2>1, <2>2, <2>3, <2>4
<1>4. CASE ~Counted(p)
  <2>1. \A d \in Classes : p \notin In(d)
    BY <1>4, CountedIn
  <2> QED
    BY <1>2, <1>4, <2>1 DEF TotalWithout, BotsWithout
<1> QED
  BY <1>3, <1>4

\* The queue of offers stays one of classes.
LEMMA FutureType ==
    ASSUME TypeOK, NEW p \in Players, NEW c, NEW n
    PROVE  FutureWithout(p, c, n) \in Seq(Classes)
<1>1. Counted(p) => Leaving(p, c) \in Classes
  BY DEF TypeOK, Counted, Leaving, NextClass, Classes
<1> QED
  BY <1>1 DEF TypeOK, FutureWithout, WithOffer

(***************************************************************************)
(* ForceJoin neither widens nor narrows the gap between a counter and what *)
(* it counts, whichever class and team a player comes from and goes to.    *)
(***************************************************************************)
LEMMA ForceJoinCounts ==
    ASSUME TypeOK, Covered, NEW p \in Players, NEW c, NEW t, NEW n,
           t \in Teams => c \in Classes /\ c[1] = t,
           t \notin Teams => t \in {Spectators, Nobody},
           NEW r \in [Classes -> Nat],
           ForceJoin(p, c, t, r, n)
    PROVE  /\ total' \in [Classes -> Nat]
           /\ bots' \in [Classes -> Nat]
           /\ \A d \in Classes : Excess(d)' = Excess(d) /\ BotExcess(d)' = BotExcess(d)
<1> DEFINE tot == TotalWithout(p, c)
           bot == BotsWithout(p, c)
           came(d) == t \in Teams /\ d = c
<1>1. /\ tot \in [Classes -> Nat] /\ bot \in [Classes -> Nat]
      /\ \A d \in Classes :
            /\ tot[d] = total[d] - (IF p \in In(d) THEN 1 ELSE 0)
            /\ bot[d] = bots[d] - (IF p \in In(d) \cap Bots THEN 1 ELSE 0)
  BY Without
<1>2. /\ total' = IF t \in Teams THEN [tot EXCEPT ![c] = @ + 1] ELSE tot
      /\ bots' = IF t \in Teams /\ p \in Bots THEN [bot EXCEPT ![c] = @ + 1] ELSE bot
  BY DEF ForceJoin, Notify
<1> HIDE DEF tot, bot
<1>3. total' \in [Classes -> Nat] /\ bots' \in [Classes -> Nat]
  BY <1>1, <1>2
<1>4. ASSUME NEW d \in Classes
      PROVE  Excess(d)' = Excess(d) /\ BotExcess(d)' = BotExcess(d)
  <2> DEFINE D == In(d)
             rest == D \ {p}
             restBots == (D \cap Bots) \ {p}
  <2>1. In(d)' = rest \cup (IF came(d) THEN {p} ELSE {})
    BY InAfter DEF ForceJoin
  <2>2. /\ D \in SUBSET Players /\ D \cap Bots \in SUBSET Players
        /\ Cardinality(D) \in Nat /\ Cardinality(D \cap Bots) \in Nat
    BY InType, Countable
  <2>3. /\ Cardinality(rest) = Cardinality(D) - (IF p \in D THEN 1 ELSE 0)
        /\ Cardinality(restBots)
             = Cardinality(D \cap Bots) - (IF p \in D \cap Bots THEN 1 ELSE 0)
    BY <2>2, OneLess
  <2>4. /\ rest \in SUBSET Players /\ restBots \in SUBSET Players
        /\ p \notin rest /\ p \notin restBots
    BY <2>2
  <2>5. Cardinality(rest \cup {p}) = Cardinality(rest) + 1
    BY <2>4, OneMore
  <2>6. Cardinality(restBots \cup {p}) = Cardinality(restBots) + 1
    BY <2>4, OneMore
  <2>7. In(d)' \cap Bots = restBots \cup (IF came(d) /\ p \in Bots THEN {p} ELSE {})
    BY <2>1
  <2>8. Cardinality(In(d)') = Cardinality(rest) + (IF came(d) THEN 1 ELSE 0)
    <3>1. rest \cup {} = rest
      OBVIOUS
    <3>2. Cardinality(rest) \in Nat
      BY <2>4, Countable
    <3>3. CASE came(d)
      BY <2>1, <2>5, <3>3
    <3>4. CASE ~came(d)
      BY <2>1, <3>1, <3>2, <3>4
    <3> QED
      BY <3>3, <3>4
  <2>9. Cardinality(In(d)' \cap Bots)
          = Cardinality(restBots) + (IF came(d) /\ p \in Bots THEN 1 ELSE 0)
    <3>1. restBots \cup {} = restBots
      OBVIOUS
    <3>2. Cardinality(restBots) \in Nat
      BY <2>4, Countable
    <3>3. CASE came(d) /\ p \in Bots
      BY <2>6, <2>7, <3>3
    <3>4. CASE ~(came(d) /\ p \in Bots)
      BY <2>7, <3>1, <3>2, <3>4
    <3> QED
      BY <3>3, <3>4
  <2>10. /\ total'[d] = tot[d] + (IF came(d) THEN 1 ELSE 0)
         /\ bots'[d] = bot[d] + (IF came(d) /\ p \in Bots THEN 1 ELSE 0)
    BY <1>1, <1>2
  <2>11. total[d] \in Nat /\ bots[d] \in Nat
    BY DEF TypeOK
  <2> HIDE DEF D, rest, restBots, came
  <2>12. Excess(d)' = Excess(d)
    BY <1>1, <2>2, <2>3, <2>8, <2>10, <2>11 DEF Excess, D
  <2>13. BotExcess(d)' = BotExcess(d)
    BY <1>1, <2>2, <2>3, <2>9, <2>10, <2>11 DEF BotExcess, D
  <2> QED
    BY <2>12, <2>13
<1> QED
  BY <1>3, <1>4

(***************************************************************************)
(* Every step that is one ForceJoin keeps the invariant.                   *)
(***************************************************************************)
LEMMA ForceJoinKeeps ==
    ASSUME IInv, NEW p \in Players, NEW c, NEW t, NEW n,
           t \in Teams => c \in Classes /\ c[1] = t,
           t \notin Teams => t \in {Spectators, Nobody},
           NEW r \in [Classes -> Nat],
           ForceJoin(p, c, t, r, n),
           connected' \subseteq Players,
           awake' \subseteq Bots,
           pending' \in {NoOne} \cup (Humans \X Classes \X Int)
    PROVE  IInv'
<1> USE DEF IInv
<1>1. /\ total' \in [Classes -> Nat]
      /\ bots' \in [Classes -> Nat]
      /\ \A d \in Classes : Excess(d)' = Excess(d) /\ BotExcess(d)' = BotExcess(d)
  BY ForceJoinCounts
<1>2. /\ team' \in [Players -> Teams \cup {Spectators, Nobody}]
      /\ next' \in [Players -> Numbers \cup {NoNumber}]
      /\ \A q \in Players : Counted(q)' => next'[q] \in Numbers
  BY DEF ForceJoin, TypeOK, Counted, Classes
<1>3. future' \in Seq(Classes)
  BY FutureType, TakeOfferType DEF ForceJoin, Notify
<1>4. removals' \in [Classes -> Nat]
  BY DEF ForceJoin, Notify
<1>5. alive' \subseteq Bots /\ cur' \in [Bots -> Classes]
      /\ limit' \in Limits /\ gameOver' = gameOver
  BY DEF ForceJoin, TypeOK
<1>6. TypeOK'
  BY <1>1, <1>2, <1>3, <1>4, <1>5 DEF TypeOK
<1>7. Covered'
  BY <1>1 DEF Covered
<1>8. ASSUME ~gameOver, NEW d \in Classes
      PROVE  /\ total'[d] = Cardinality(In(d)')
             /\ bots'[d] = Cardinality(In(d)' \cap Bots)
  <2>1. /\ In(d) \in SUBSET Players /\ Cardinality(In(d)) \in Nat
        /\ Cardinality(In(d) \cap Bots) \in Nat
    BY InType, Countable
  <2>2. Excess(d) = 0 /\ BotExcess(d) = 0
    BY <1>8, <2>1 DEF CountersExact, Excess, BotExcess
  <2>3. In(d)' \in SUBSET Players /\ In(d)' \cap Bots \in SUBSET Players
    BY DEF In
  <2>4. Cardinality(In(d)') \in Nat /\ Cardinality(In(d)' \cap Bots) \in Nat
    BY <2>3, Countable
  <2>5. Excess(d)' = 0 /\ BotExcess(d)' = 0
    BY <1>1, <2>2
  <2>6. total'[d] \in Nat /\ bots'[d] \in Nat
    BY <1>1
  <2> QED
    BY <2>4, <2>5, <2>6 DEF Excess, BotExcess
<1> QED
  BY <1>5, <1>6, <1>7, <1>8 DEF CountersExact

\* A change of what nothing is counted by keeps the invariant.
LEMMA CountKept ==
    ASSUME IInv, TypeOK', UNCHANGED <<team, next, total, bots>>, gameOver => gameOver'
    PROVE  IInv'
<1>1. \A d : In(d)' = In(d)
  BY DEF In, NextClass
<1>2. \A d : Excess(d)' = Excess(d) /\ BotExcess(d)' = BotExcess(d)
  BY <1>1 DEF Excess, BotExcess
<1>3. Covered'
  BY <1>2 DEF IInv, Covered
<1>4. CountersExact'
  BY <1>1 DEF IInv, CountersExact
<1> QED
  BY <1>3, <1>4 DEF IInv

\* Nobody is in a class when a map starts.
LEMMA NobodyIn ==
    ASSUME team = [p \in Players |-> Nobody], NEW d \in Classes
    PROVE  In(d) = {}
BY DEF In, NextClass, Classes, Teams, Nobody, Americans, British

LEMMA InitKeeps == Init => IInv
<1> SUFFICES ASSUME Init PROVE IInv
  OBVIOUS
<1>1. Infantry \in Numbers /\ <<Americans, Infantry>> \in Classes
  BY ClassAssumption DEF Infantry, Numbers, Classes, Teams
<1>2. future \in Seq(Classes)
  <2>1. IsFiniteSet(Classes \X (1..BotsPerClass))
    <3>1. IsFiniteSet(Teams)
      <4>1. Teams = {Americans} \cup {British}
        BY DEF Teams
      <4>2. IsFiniteSet({Americans}) /\ IsFiniteSet({British})
        BY FS_Singleton
      <4> QED
        BY <4>1, <4>2, FS_Union
    <3>2. IsFiniteSet(Numbers) /\ IsFiniteSet(1..BotsPerClass)
      <4>1. 0 \in Int /\ NumClasses - 1 \in Int
        BY ClassAssumption
      <4>2. 1 \in Int /\ BotsPerClass \in Int
        BY DEF BotsPerClass
      <4>3. IsFiniteSet(0 .. NumClasses - 1)
        BY <4>1, FS_Interval
      <4>4. IsFiniteSet(1..BotsPerClass)
        BY <4>2, FS_Interval
      <4> QED
        BY <4>3, <4>4 DEF Numbers
    <3>3. IsFiniteSet(Classes)
      BY <3>1, <3>2, FS_Product DEF Classes
    <3> QED
      BY <3>2, <3>3, FS_Product
  <2> DEFINE places == {x \in Classes \X (1..BotsPerClass) : x[2] <= limit["sml"][x[1]]}
  <2>2. Cardinality(places) \in Nat
    <3>1. IsFiniteSet(places)
      BY <2>1, FS_Subset
    <3> QED
      BY <3>1, FS_CardinalityType
  <2>3. future \in [1..Cardinality(places) -> Classes]
    BY DEF Init, FirstOffers
  <2> HIDE DEF places
  <2> QED
    BY <2>2, <2>3
<1>3. TypeOK
  BY <1>1, <1>2, ClassAssumption DEF Init, TypeOK, Counted, Teams, Nobody, Americans, British, NoNumber
<1>4. \A d \in Classes : /\ Cardinality(In(d)) = 0 /\ Cardinality(In(d) \cap Bots) = 0
                         /\ total[d] = 0 /\ bots[d] = 0
  BY NobodyIn, FS_EmptySet DEF Init
<1>5. Covered
  BY <1>4 DEF Covered, Excess, BotExcess
<1>6. CountersExact
  BY <1>4 DEF CountersExact
<1> QED
  BY <1>3, <1>5, <1>6 DEF IInv

\* A new map starts as the first one did.
LEMMA NewMapKeeps == NewMap => IInv'
<1>1. NewMap => Init'
  BY DEF NewMap, Init
<1>2. Init' => IInv'
  BY InitKeeps, PTL
<1> QED
  BY <1>1, <1>2

(***************************************************************************)
(* Leaving.  When the game rules are told, the counters follow; in the     *)
(* intermission they are left behind, too high.                            *)
(***************************************************************************)
LEMMA DisconnectKeeps ==
    ASSUME IInv, NEW p \in Players, Disconnect(p)
    PROVE  IInv'
<1> USE DEF IInv
<1> DEFINE c == NextClass(p)
<1>1. /\ TotalWithout(p, c) \in [Classes -> Nat] /\ BotsWithout(p, c) \in [Classes -> Nat]
      /\ \A d \in Classes :
            /\ TotalWithout(p, c)[d] = total[d] - (IF p \in In(d) THEN 1 ELSE 0)
            /\ BotsWithout(p, c)[d] = bots[d] - (IF p \in In(d) \cap Bots THEN 1 ELSE 0)
  BY Without
<1>2. TypeOK'
  <2>1. /\ total' \in [Classes -> Nat] /\ bots' \in [Classes -> Nat]
        /\ removals' \in [Classes -> Nat]
    BY <1>1 DEF Disconnect, TypeOK, counters
  <2>2. future' \in Seq(Classes)
    BY FutureType DEF Disconnect, TypeOK, counters
  <2>3. /\ team' \in [Players -> Teams \cup {Spectators, Nobody}]
        /\ next' \in [Players -> Numbers \cup {NoNumber}]
        /\ \A q \in Players : Counted(q)' => next'[q] \in Numbers
    BY DEF Disconnect, TypeOK, Counted, Teams, Nobody, Americans, British
  <2> QED
    BY <2>1, <2>2, <2>3 DEF Disconnect, TypeOK
<1>3. ASSUME NEW d \in Classes
      PROVE  In(d)' = In(d) \ {p}
  <2>1. \A q \in Players \ {p} : NextClass(q)' = NextClass(q)
    BY DEF Disconnect, TypeOK, NextClass
  <2>2. NextClass(p)' # d
    BY DEF Disconnect, TypeOK, NextClass, Classes, Teams, Nobody, Americans, British
  <2> QED
    BY <2>1, <2>2 DEF In
<1>4. ASSUME NEW d \in Classes
      PROVE  /\ Cardinality(In(d)') = Cardinality(In(d)) - (IF p \in In(d) THEN 1 ELSE 0)
             /\ Cardinality(In(d)' \cap Bots)
                  = Cardinality(In(d) \cap Bots) - (IF p \in In(d) \cap Bots THEN 1 ELSE 0)
             /\ Cardinality(In(d)) \in Nat /\ Cardinality(In(d) \cap Bots) \in Nat
  <2>1. /\ In(d) \in SUBSET Players /\ In(d) \cap Bots \in SUBSET Players
        /\ Cardinality(In(d)) \in Nat /\ Cardinality(In(d) \cap Bots) \in Nat
    BY InType, Countable
  <2>2. (In(d) \ {p}) \cap Bots = (In(d) \cap Bots) \ {p}
    OBVIOUS
  <2>3. Cardinality(In(d) \ {p}) = Cardinality(In(d)) - (IF p \in In(d) THEN 1 ELSE 0)
    BY <2>1, OneLess
  <2>4. Cardinality((In(d) \cap Bots) \ {p})
          = Cardinality(In(d) \cap Bots) - (IF p \in In(d) \cap Bots THEN 1 ELSE 0)
    <3> DEFINE B == In(d) \cap Bots
    <3>1. B \in SUBSET Players /\ Cardinality(B) \in Nat
      BY <2>1
    <3> HIDE DEF B
    <3>2. Cardinality(B \ {p}) = Cardinality(B) - (IF p \in B THEN 1 ELSE 0)
      BY <3>1, OneLess
    <3> QED
      BY <3>2 DEF B
  <2> QED
    BY <1>3, <2>1, <2>2, <2>3, <2>4
<1>5. ASSUME NEW d \in Classes
      PROVE  /\ total'[d] >= Cardinality(In(d)')
             /\ bots'[d] >= Cardinality(In(d)' \cap Bots)
             /\ ~gameOver => /\ total'[d] = Cardinality(In(d)')
                             /\ bots'[d] = Cardinality(In(d)' \cap Bots)
  <2>1. /\ total[d] \in Nat /\ bots[d] \in Nat
        /\ total[d] >= Cardinality(In(d)) /\ bots[d] >= Cardinality(In(d) \cap Bots)
    BY CoveredMeans DEF TypeOK
  <2>2. CASE gameOver
    <3>1. total' = total /\ bots' = bots
      BY <2>2 DEF Disconnect, counters
    <3> QED
      BY <1>4, <2>1, <2>2, <3>1
  <2>3. CASE ~gameOver
    <3>1. total' = TotalWithout(p, c) /\ bots' = BotsWithout(p, c)
      BY <2>3 DEF Disconnect
    <3>2. total[d] = Cardinality(In(d)) /\ bots[d] = Cardinality(In(d) \cap Bots)
      BY <2>3 DEF CountersExact
    <3>3. /\ total'[d] = total[d] - (IF p \in In(d) THEN 1 ELSE 0)
          /\ bots'[d] = bots[d] - (IF p \in In(d) \cap Bots THEN 1 ELSE 0)
      BY <1>1, <3>1
    <3>4. /\ total'[d] = Cardinality(In(d)')
          /\ bots'[d] = Cardinality(In(d)' \cap Bots)
      BY <1>4, <3>2, <3>3
    <3>5. total'[d] \in Nat /\ bots'[d] \in Nat
      BY <1>2 DEF TypeOK
    <3> QED
      BY <3>4, <3>5
  <2> QED
    BY <2>2, <2>3
<1>6. ASSUME NEW d \in Classes
      PROVE  /\ total'[d] \in Nat /\ bots'[d] \in Nat
             /\ Cardinality(In(d)') \in Nat /\ Cardinality(In(d)' \cap Bots) \in Nat
  <2>1. In(d)' \in SUBSET Players /\ In(d)' \cap Bots \in SUBSET Players
    BY DEF In
  <2> QED
    BY <1>2, <2>1, Countable DEF TypeOK
<1>7. Covered'
  <2> SUFFICES ASSUME NEW d \in Classes
               PROVE  Excess(d)' >= BotExcess(d)' /\ BotExcess(d)' >= 0
    BY DEF Covered
  <2> DEFINE out == IF p \in In(d) THEN 1 ELSE 0
             botOut == IF p \in In(d) \cap Bots THEN 1 ELSE 0
  <2>1. out \in {0, 1} /\ botOut \in {0, 1} /\ botOut <= out
    OBVIOUS
  <2>2. Excess(d) >= BotExcess(d) /\ BotExcess(d) >= 0
    BY DEF Covered
  <2>3. /\ Excess(d) \in Int /\ BotExcess(d) \in Int /\ total[d] \in Int /\ bots[d] \in Int
        /\ Cardinality(In(d)) \in Int /\ Cardinality(In(d) \cap Bots) \in Int
    <3>1. total[d] \in Int /\ bots[d] \in Int
      BY DEF TypeOK
    <3>2. Cardinality(In(d)) \in Int /\ Cardinality(In(d) \cap Bots) \in Int
      <4>1. In(d) \in SUBSET Players /\ In(d) \cap Bots \in SUBSET Players
        BY InType
      <4>. QED
        BY <4>1, Countable
    <3>. QED
      BY <3>1, <3>2 DEF Excess, BotExcess
  <2>4. /\ Cardinality(In(d)') = Cardinality(In(d)) - out
        /\ Cardinality(In(d)' \cap Bots) = Cardinality(In(d) \cap Bots) - botOut
    BY <1>4
  <2>5. CASE gameOver
    <3>1. total'[d] = total[d] /\ bots'[d] = bots[d]
      BY <2>5 DEF Disconnect, counters
    <3> HIDE DEF out, botOut
    <3>2. Excess(d)' = Excess(d) + out /\ BotExcess(d)' = BotExcess(d) + botOut
      BY <2>1, <2>3, <2>4, <3>1 DEF Excess, BotExcess
    <3>. QED
      BY <2>1, <2>2, <2>3, <3>2
  <2>6. CASE ~gameOver
    <3>1. total'[d] = total[d] - out /\ bots'[d] = bots[d] - botOut
      BY <1>1, <2>6 DEF Disconnect
    <3> HIDE DEF out, botOut
    <3>2. Excess(d)' = Excess(d) /\ BotExcess(d)' = BotExcess(d)
      BY <2>1, <2>3, <2>4, <3>1 DEF Excess, BotExcess
    <3>. QED
      BY <2>2, <3>2
  <2>. QED
    BY <2>5, <2>6
<1>8. CountersExact'
  BY <1>5 DEF CountersExact, Disconnect
<1> QED
  BY <1>2, <1>7, <1>8

(***************************************************************************)
(* Joining, in one step or in two, changing sides, and adding a bot: each  *)
(* makes one person join one class of the team it belongs to.              *)
(***************************************************************************)
LEMMA JoiningAClass ==
    ASSUME IInv
    PROVE  /\ \A p \in Humans, c \in Classes : AttemptJoin(p, c) =>
                 \E q \in Players, d \in Classes : ForceJoin(q, d, d[1], removals, Clients)
           /\ FinishJoin => \E q \in Players, d \in Classes :
                 ForceJoin(q, d, d[1], removals, Clients)
           /\ \A p \in Players : SwitchTeam(p) => \E d \in Classes :
                 ForceJoin(p, d, d[1], removals, Clients)
           /\ \A b \in Bots, t \in Teams : AddBot(b, t) => \E d \in Classes :
                 ForceJoin(b, d, d[1], removals, Clients + 1)
<1>1. ASSUME NEW p \in Humans, NEW c \in Classes, AttemptJoin(p, c)
      PROVE  \E q \in Players, d \in Classes : ForceJoin(q, d, d[1], removals, Clients)
  <2> DEFINE t == c[1]
             left == IF Counted(p) THEN NextClass(p)
                     ELSE FindInfiniteClassForTeam(Other(t), Clients)
  <2>1. p \in Players /\ t \in Teams /\ Other(t) \in Teams
    BY DEF Players, Classes, Other, Teams
  <2>2. CASE Crowded(p, t)
    <3>1. PICK b \in Members(t) \cap Bots : ForceJoin(b, left, Other(t), removals, Clients)
      BY <1>1, <2>2 DEF AttemptJoin, EnemyTeam
    <3>2. left \in Classes /\ left[1] = Other(t)
      <4>1. CASE Counted(p)
        <5>1. team[p] # t /\ team[p] \in Teams
          BY <2>2, <4>1 DEF Crowded, Counted
        <5>2. team[p] = Other(t)
          BY <2>1, <5>1 DEF Other, Teams
        <5>3. NextClass(p) \in Classes /\ NextClass(p)[1] = team[p]
          BY <2>1, <4>1, CountedIn DEF IInv, NextClass
        <5>. QED
          BY <4>1, <5>2, <5>3
      <4>2. CASE ~Counted(p)
        BY <2>1, <4>2, InfiniteType
      <4>. QED
        BY <4>1, <4>2
    <3>3. b \in Players
      BY DEF Players
    <3> HIDE DEF left, t
    <3>. QED
      BY <3>1, <3>2, <3>3
  <2>3. CASE ~Crowded(p, t)
    <3>1. ForceJoin(p, c, t, removals, Clients)
      BY <1>1, <2>3 DEF AttemptJoin
    <3>. QED
      BY <2>1, <3>1
  <2>. QED
    BY <2>2, <2>3
<1>2. ASSUME FinishJoin
      PROVE  \E q \in Players, d \in Classes : ForceJoin(q, d, d[1], removals, Clients)
  BY <1>2 DEF FinishJoin, IInv, TypeOK, Players
<1>3. ASSUME NEW p \in Players, SwitchTeam(p)
      PROVE  \E d \in Classes : ForceJoin(p, d, d[1], removals, Clients)
  <2> DEFINE to == Other(team[p])
             c == FindInfiniteClassForTeam(to, Clients)
  <2>1. to \in Teams
    BY <1>3 DEF SwitchTeam, Counted, Other, Teams
  <2>2. c \in Classes /\ c[1] = to
    BY <2>1, InfiniteType
  <2>3. ForceJoin(p, c, to, removals, Clients)
    BY <1>3 DEF SwitchTeam
  <2> HIDE DEF to, c
  <2>. QED
    BY <2>2, <2>3
<1>4. ASSUME NEW b \in Bots, NEW t \in Teams, AddBot(b, t)
      PROVE  \E d \in Classes : ForceJoin(b, d, d[1], removals, Clients + 1)
  <2>1. <<t, Infantry>> \in Classes /\ <<t, Infantry>>[1] = t
    BY ClassAssumption DEF Classes, Numbers, Infantry
  <2>2. ForceJoin(b, <<t, Infantry>>, t, removals, Clients + 1)
    BY <1>4 DEF AddBot
  <2>. QED
    BY <2>1, <2>2
<1>. QED
  BY <1>1, <1>2, <1>3, <1>4

LEMMA JoinKeeps ==
    ASSUME IInv,
           \/ \E p \in Humans, c \in Classes : AttemptJoin(p, c)
           \/ FinishJoin
           \/ \E p \in Players : SwitchTeam(p)
           \/ \E b \in Bots, t \in Teams : AddBot(b, t)
    PROVE  IInv'
<1>1. PICK p \in Players, c \in Classes, n \in {Clients, Clients + 1} :
         ForceJoin(p, c, c[1], removals, n)
  <2>1. Bots \subseteq Players
    BY DEF Players
  <2>. QED
    BY <2>1, JoiningAClass
<1>2. c[1] \in Teams /\ removals \in [Classes -> Nat]
  BY DEF Classes, IInv, TypeOK
<1>3. connected' \subseteq Players /\ awake' \subseteq Bots
  BY DEF IInv, TypeOK, AttemptJoin, FinishJoin, SwitchTeam, AddBot, Players
<1>4. pending' \in {NoOne} \cup (Humans \X Classes \X Int)
  <2>1. CASE \E h \in Humans, d \in Classes : AttemptJoin(h, d)
    BY <2>1, GapType DEF AttemptJoin, IInv, TypeOK
  <2>2. CASE FinishJoin
    BY <2>2 DEF FinishJoin
  <2>3. CASE UNCHANGED pending
    BY <2>3 DEF IInv, TypeOK
  <2>. QED
    BY <2>1, <2>2, <2>3 DEF SwitchTeam, AddBot
<1>. QED
  BY <1>1, <1>2, <1>3, <1>4, ForceJoinKeeps

LEMMA SpectateKeeps ==
    ASSUME IInv, NEW p \in Players, Spectate(p)
    PROVE  IInv'
<1>1. /\ removals \in [Classes -> Nat]
      /\ connected' \subseteq Players /\ awake' \subseteq Bots
      /\ pending' \in {NoOne} \cup (Humans \X Classes \X Int)
  BY DEF Spectate, IInv, TypeOK
<1>2. Spectators \notin Teams
  BY DEF Teams, Americans, British, Spectators
<1>3. ForceJoin(p, <<Spectators, NoNumber>>, Spectators, removals, Clients)
  BY DEF Spectate
<1> QED
  BY <1>1, <1>2, <1>3, ForceJoinKeeps

(***************************************************************************)
(* A bot that finds itself dead: it takes a class without limit, or the    *)
(* first offer, or stays what it is.                                       *)
(***************************************************************************)
LEMMA ThinkDeathKeeps ==
    ASSUME IInv, NEW b \in Bots, ThinkDeath(b)
    PROVE  IInv'
<1> DEFINE t == team[b]
           free == InfiniteClassesForTeam(t)
           surplus == free # {} /\ removals[cur[b]] > 0
           offered == /\ free # {} /\ ~surplus
                      /\ future # <<>> /\ Head(future)[1] = t
                      /\ cur[b] \in free
           fewer == [removals EXCEPT ![cur[b]] = @ - 1]
<1>1. /\ b \in Players
      /\ t \in Teams \/ t \in {Spectators, Nobody}
      /\ removals \in [Classes -> Nat]
      /\ cur[b] \in Classes
      /\ connected' \subseteq Players /\ awake' \subseteq Bots
      /\ pending' \in {NoOne} \cup (Humans \X Classes \X Int)
  BY DEF ThinkDeath, IInv, TypeOK, Players
<1>2. CASE surplus /\ \E c \in free : ForceJoin(b, c, t, fewer, Clients)
  <2>1. PICK c \in free : ForceJoin(b, c, t, fewer, Clients)
    BY <1>2
  <2>2. c \in Classes /\ (t \in Teams => c[1] = t)
    BY DEF InfiniteClassesForTeam, Infinite, Teams
  <2>3. fewer \in [Classes -> Nat]
    BY <1>1, <1>2
  <2> HIDE DEF fewer, free, surplus, t
  <2> QED
    BY <1>1, <2>1, <2>2, <2>3, ForceJoinKeeps
<1>3. CASE offered /\ ForceJoin(b, Head(future), t, removals, Clients)
  <2>1. Head(future) \in Classes /\ Head(future)[1] = t
    BY <1>3, HeadTailProperties DEF IInv, TypeOK
  <2> HIDE DEF t
  <2> QED
    BY <1>1, <1>3, <2>1, ForceJoinKeeps
<1>4. CASE UNCHANGED <<limit, gameOver, team, next, counters, alive, cur>>
  <2>1. TypeOK'
    BY <1>1, <1>4 DEF IInv, TypeOK, counters, Counted
  <2> QED
    BY <1>4, <2>1, CountKept DEF counters
<1> QED
  BY <1>2, <1>3, <1>4 DEF ThinkDeath
-------------------------------------------------------------------------------
(***************************************************************************)
(* Every step keeps the invariant.                                         *)
(***************************************************************************)
LEMMA NextKeeps == IInv /\ [Next]_vars => IInv'
<1> SUFFICES ASSUME IInv, [Next]_vars PROVE IInv'
  OBVIOUS
<1>1. CASE UNCHANGED vars
  <2>1. TypeOK'
    BY <1>1 DEF IInv, TypeOK, vars, counters, minds, Counted
  <2> QED
    BY <1>1, <2>1, CountKept DEF vars, counters
<1>2. CASE NewMap
  BY <1>2, NewMapKeeps
<1>3. CASE EndMatch
  <2>1. TypeOK'
    BY <1>3 DEF IInv, TypeOK, EndMatch, counters, minds, Counted
  <2> QED
    BY <1>3, <2>1, CountKept DEF EndMatch, counters
<1>4. CASE \/ \E p \in Humans, c \in Classes : AttemptJoin(p, c)
           \/ FinishJoin
           \/ \E p \in Players : SwitchTeam(p)
           \/ \E b \in Bots, t \in Teams : AddBot(b, t)
  BY <1>4, JoinKeeps
<1>5. ASSUME NEW p \in Humans, Connect(p)
      PROVE  IInv'
  <2>1. TypeOK'
    BY <1>5 DEF IInv, TypeOK, Connect, counters, minds, Counted, Players
  <2> QED
    BY <1>5, <2>1, CountKept DEF Connect, counters
<1>6. ASSUME NEW b \in Bots, Spawn(b) \/ Die(b) \/ Wake(b)
      PROVE  IInv'
  <2>1. UNCHANGED <<limit, gameOver, connected, team, next, counters, pending>>
    BY <1>6 DEF Spawn, Die, Wake
  <2>2. alive' \subseteq Bots /\ awake' \subseteq Bots
    BY <1>6 DEF Spawn, Die, Wake, IInv, TypeOK
  <2>3. cur' \in [Bots -> Classes]
    <3>1. b \in Players
      BY DEF Players
    <3>2. Counted(b) => NextClass(b) \in Classes
      BY <3>1 DEF IInv, TypeOK, Counted, NextClass, Classes
    <3> QED
      BY <1>6, <3>2 DEF Spawn, Die, Wake, IInv, TypeOK
  <2>4. TypeOK'
    BY <2>1, <2>2, <2>3 DEF IInv, TypeOK, counters, Counted
  <2> QED
    BY <2>1, <2>4, CountKept DEF counters
<1> QED
  BY <1>1, <1>2, <1>3, <1>4, <1>5, <1>6, SpectateKeeps, DisconnectKeeps, ThinkDeathKeeps
     DEF Next

\* Every variable has its type in every state of every play.
THEOREM TypeCorrect == Spec => []TypeOK
<1>1. IInv => TypeOK
  BY DEF IInv
<1> QED
  BY <1>1, InitKeeps, NextKeeps, PTL DEF Spec

(***************************************************************************)
(* SPopulationCounter: during a match a class has as many players and as   *)
(* many bots as its counters say, however many there are, whatever the     *)
(* limits, and in whatever order they join, change, are moved and leave.   *)
(***************************************************************************)
THEOREM CountersStayExact == Spec => []CountersExact
<1>1. IInv => CountersExact
  BY DEF IInv
<1> QED
  BY <1>1, InitKeeps, NextKeeps, PTL DEF Spec

\* In the intermission too, nobody in a class is missing from its counters.
THEOREM NobodyMissing == Spec => []Covered
<1>1. IInv => Covered
  BY DEF IInv
<1> QED
  BY <1>1, InitKeeps, NextKeeps, PTL DEF Spec
-------------------------------------------------------------------------------
(***************************************************************************)
(* The offers of places to bots.  Where a class has one limit, places are  *)
(* offered only while there are free ones (CheckBotAddClass), and whoever  *)
(* comes into the class takes an offer away with him.                      *)
(***************************************************************************)
PlacesAreLeft(q, tot, c) == Count(q, c) > 0 => tot[c] + Count(q, c) <= limit["sml"][c]

LEMMA OffersByPlaces ==
    OffersAreFree <=> (FixedLimits => \A c \in Classes : PlacesAreLeft(future, total, c))
BY DEF OffersAreFree, PlacesAreLeft, Offers, Count, Places

LEMMA OneLimit ==
    ASSUME TypeOK, FixedLimits, NEW c \in Classes, NEW n
    PROVE  Limit(c, n) = limit["sml"][c] /\ limit["sml"][c] \in Int
BY ClassAssumption DEF TypeOK, FixedLimits, Limit, Sizes

\* A player leaves a class: there may be one more offer, for the place that is free now.
LEMMA LeavingKeepsOffers ==
    ASSUME TypeOK, Covered, FixedLimits, \A d \in Classes : PlacesAreLeft(future, total, d),
           NEW p \in Players, NEW k, NEW n, NEW c \in Classes
    PROVE  PlacesAreLeft(FutureWithout(p, k, n), TotalWithout(p, k), c)
<1> DEFINE old == NextClass(p)
           tot == TotalWithout(p, k)
<1>1. /\ tot \in [Classes -> Nat]
      /\ \A d \in Classes : tot[d] = total[d] - (IF p \in In(d) THEN 1 ELSE 0)
  BY Without
<1>2. Count(future, c) \in Nat /\ future \in Seq(Classes) /\ total[c] \in Nat
  BY PlacesType DEF TypeOK
<1>3. CASE ~Counted(p)
  BY <1>3 DEF FutureWithout, TotalWithout
<1>4. CASE Counted(p)
  <2>1. old \in Classes /\ (p \in In(c) <=> c = old)
    BY <1>4, CountedIn
  <2>2. FutureWithout(p, k, n) = WithOffer(future, old, tot, BotsWithout(p, k), n)
    BY <1>4 DEF FutureWithout, Leaving
  <2>3. Limit(old, n) = limit["sml"][old] /\ limit["sml"][c] \in Int
    BY <2>1, OneLimit
  <2> HIDE DEF tot, old
  <2>4. CASE FutureWithout(p, k, n) = Append(future, old) /\ tot[old] < Limit(old, n)
    <3>1. Count(Append(future, old), c) = Count(future, c) + (IF c = old THEN 1 ELSE 0)
      BY <1>2, <2>1, AppendCount
    <3>2. CASE c = old
      <4>1. tot[c] = total[c] - 1 /\ tot[c] < limit["sml"][c] /\ tot[c] \in Nat
        BY <1>1, <2>1, <2>3, <2>4, <3>2
      <4>2. Count(FutureWithout(p, k, n), c) = Count(future, c) + 1
        BY <2>4, <3>1, <3>2
      <4>3. Count(future, c) > 0 => total[c] + Count(future, c) <= limit["sml"][c]
        BY DEF PlacesAreLeft
      <4>4. tot[c] + (Count(future, c) + 1) <= limit["sml"][c]
        BY <1>2, <2>3, <4>1, <4>3
      <4>. QED
        BY <4>2, <4>4 DEF PlacesAreLeft, tot
    <3>3. CASE c # old
      <4>1. tot[c] = total[c] /\ Count(FutureWithout(p, k, n), c) = Count(future, c)
        BY <1>1, <1>2, <2>1, <2>4, <3>1, <3>3
      <4>. QED
        BY <4>1 DEF PlacesAreLeft, tot
    <3>. QED
      BY <3>2, <3>3
  <2>5. CASE FutureWithout(p, k, n) = future
    <3>1. tot[c] \in Nat /\ tot[c] <= total[c]
      BY <1>1, <1>2
    <3>2. Count(future, c) > 0 => total[c] + Count(future, c) <= limit["sml"][c]
      BY DEF PlacesAreLeft
    <3>3. Count(future, c) > 0 => tot[c] + Count(future, c) <= limit["sml"][c]
      BY <1>2, <2>3, <3>1, <3>2
    <3>. QED
      BY <2>5, <3>3 DEF PlacesAreLeft, tot
  <2>. QED
    BY <2>2, <2>4, <2>5 DEF WithOffer
<1>. QED
  BY <1>3, <1>4

\* A player comes into a class, and takes an offer with him if there is one.
LEMMA ForceJoinKeepsOffers ==
    ASSUME TypeOK, Covered, OffersAreFree, NEW p \in Players, NEW c, NEW t, NEW n, NEW r,
           t \in Teams => c \in Classes,
           ForceJoin(p, c, t, r, n)
    PROVE  OffersAreFree'
<1> SUFFICES ASSUME FixedLimits', NEW d \in Classes
             PROVE  PlacesAreLeft(future, total, d)'
  BY OffersByPlaces DEF OffersAreFree, PlacesAreLeft, Offers, Count, Places
<1> DEFINE q == FutureWithout(p, c, n)
           tot == TotalWithout(p, c)
<1>1. limit' = limit /\ FixedLimits
  BY DEF ForceJoin, FixedLimits
<1>2. PlacesAreLeft(q, tot, d)
  BY <1>1, OffersByPlaces, LeavingKeepsOffers
<1>3. /\ total' = IF t \in Teams THEN [tot EXCEPT ![c] = @ + 1] ELSE tot
      /\ future' = IF t \in Teams THEN RemoveFirst(q, c) ELSE q
  BY DEF ForceJoin, Notify, TakeOffer
<1>4. tot \in [Classes -> Nat] /\ q \in Seq(Classes) /\ limit["sml"][d] \in Int
  BY <1>1, Without, FutureType, OneLimit
<1>5. Count(q, d) \in Nat
  BY <1>4, PlacesType
<1>6. Count(q, d) > 0 => tot[d] + Count(q, d) <= limit["sml"][d]
  BY <1>2 DEF PlacesAreLeft
<1> HIDE DEF q, tot
<1>7. CASE t \notin Teams
  BY <1>1, <1>3, <1>6, <1>7 DEF PlacesAreLeft, Count, Places
<1>8. CASE t \in Teams
  <2>1. /\ Count(RemoveFirst(q, c), d) \in Nat
        /\ Count(RemoveFirst(q, c), d) <= Count(q, d)
        /\ d = c /\ Count(q, d) > 0 => Count(RemoveFirst(q, c), d) < Count(q, d)
    BY <1>4, RemoveFirstCount
  <2>2. tot[d] \in Nat /\ total'[d] = IF d = c THEN tot[d] + 1 ELSE tot[d]
    BY <1>3, <1>4, <1>8
  <2>3. Count(RemoveFirst(q, c), d) > 0
           => total'[d] + Count(RemoveFirst(q, c), d) <= limit["sml"][d]
    BY <1>4, <1>5, <1>6, <2>1, <2>2
  <2>. QED
    BY <1>1, <1>3, <1>8, <2>3 DEF PlacesAreLeft, Count, Places
<1>. QED
  BY <1>7, <1>8

LEMMA ThinkDeathKeepsOffers ==
    ASSUME IInv, OffersAreFree, NEW b \in Bots, ThinkDeath(b)
    PROVE  OffersAreFree'
<1> DEFINE t == team[b]
           free == InfiniteClassesForTeam(t)
           fewer == [removals EXCEPT ![cur[b]] = @ - 1]
<1>1. b \in Players
  BY DEF Players
<1>2. CASE \E c \in free : ForceJoin(b, c, t, fewer, Clients)
  <2>1. PICK c \in free : ForceJoin(b, c, t, fewer, Clients)
    BY <1>2
  <2>2. c \in Classes
    BY DEF InfiniteClassesForTeam, Infinite
  <2> HIDE DEF fewer, free, t
  <2>. QED
    BY <1>1, <2>1, <2>2, ForceJoinKeepsOffers DEF IInv
<1>3. CASE future # <<>> /\ ForceJoin(b, Head(future), t, removals, Clients)
  <2>1. Head(future) \in Classes
    BY <1>3, HeadTailProperties DEF IInv, TypeOK
  <2>. QED
    BY <1>1, <1>3, <2>1, ForceJoinKeepsOffers DEF IInv
<1>4. CASE UNCHANGED <<limit, counters>>
  BY <1>4 DEF OffersAreFree, FixedLimits, Offers, counters
<1>. QED
  BY <1>2, <1>3, <1>4 DEF ThinkDeath

LEMMA DisconnectKeepsOffers ==
    ASSUME IInv, OffersAreFree, NEW p \in Players, Disconnect(p)
    PROVE  OffersAreFree'
<1> DEFINE c == NextClass(p)
<1>1. CASE gameOver
  BY <1>1 DEF Disconnect, OffersAreFree, FixedLimits, Offers, counters
<1>2. CASE ~gameOver
  <2>1. total' = TotalWithout(p, c) /\ future' = FutureWithout(p, c, Clients) /\ limit' = limit
    BY <1>2 DEF Disconnect
  <2> HIDE DEF c
  <2>2. FixedLimits =>
           \A d \in Classes : PlacesAreLeft(FutureWithout(p, c, Clients), TotalWithout(p, c), d)
    BY OffersByPlaces, LeavingKeepsOffers DEF IInv
  <2>3. FixedLimits' = FixedLimits
    BY <2>1 DEF FixedLimits
  <2>4. FixedLimits' => \A d \in Classes : PlacesAreLeft(future, total, d)'
    BY <2>1, <2>2, <2>3 DEF PlacesAreLeft
  <2>. QED
    BY <2>4 DEF OffersAreFree, PlacesAreLeft, Offers, Count, Places
<1>. QED
  BY <1>1, <1>2

\* The first offers of a map are places below the limits.
LEMMA FirstOffersAreFree ==
    ASSUME Init
    PROVE  OffersAreFree
<1> SUFFICES ASSUME FixedLimits, NEW c \in Classes, Offers(c) > 0
             PROVE  total[c] + Offers(c) <= limit["sml"][c]
  BY DEF OffersAreFree
<1> DEFINE places == {x \in Classes \X (1..BotsPerClass) : x[2] <= limit["sml"][x[1]]}
           mine == {x \in places : x[1] = c}
           L == limit["sml"][c]
           number == [x \in mine |-> x[2]]
<1>1. Offers(c) = Cardinality(mine)
  BY DEF Init, FirstOffers, Offers
<1>2. total[c] = 0 /\ L \in Int
  BY ClassAssumption DEF Init, Sizes
<1>3. \A x \in mine : x = <<c, x[2]>> /\ x[2] \in 1..L /\ x[2] \in Int
  BY <1>2
<1>4. number \in Injection(mine, 1..L)
  <2>1. number \in [mine -> 1..L]
    BY <1>3
  <2>2. \A x, y \in mine : number[x] = number[y] => x = y
    BY <1>3
  <2>. QED
    BY <2>1, <2>2 DEF Injection, IsInjective
<1>5. IsFiniteSet(1..L) /\ Cardinality(1..L) = IF 1 > L THEN 0 ELSE L
  <2>1. IsFiniteSet(1..L) /\ Cardinality(1..L) = IF 1 > L THEN 0 ELSE L - 1 + 1
    BY <1>2, FS_Interval
  <2>. QED
    BY <1>2, <2>1
<1> HIDE DEF mine, L, number
<1>6. Cardinality(mine) \in Nat /\ Cardinality(mine) <= Cardinality(1..L)
  BY <1>4, <1>5, FS_Injection, FS_CardinalityType
<1>7. Offers(c) <= L
  BY <1>1, <1>2, <1>5, <1>6
<1>. QED
  BY <1>1, <1>2, <1>6, <1>7 DEF L

LEMMA NextKeepsOffers == IInv /\ OffersAreFree /\ [Next]_vars => OffersAreFree'
<1> SUFFICES ASSUME IInv, OffersAreFree, [Next]_vars PROVE OffersAreFree'
  OBVIOUS
<1>1. CASE \/ UNCHANGED vars \/ EndMatch \/ \E p \in Humans : Connect(p)
           \/ \E b \in Bots : Spawn(b) \/ Die(b) \/ Wake(b)
  <2>1. UNCHANGED <<limit, total, future>>
    BY <1>1 DEF vars, EndMatch, Connect, Spawn, Die, Wake, counters
  <2>. QED
    BY <2>1 DEF OffersAreFree, FixedLimits, Offers
<1>2. CASE NewMap
  <2>1. Init'
    BY <1>2 DEF NewMap, Init
  <2>2. Init' => OffersAreFree'
    BY FirstOffersAreFree, PTL
  <2>. QED
    BY <2>1, <2>2
<1>3. ASSUME NEW q \in Players, NEW d \in Classes, NEW n, ForceJoin(q, d, d[1], removals, n)
      PROVE  OffersAreFree'
  BY <1>3, ForceJoinKeepsOffers DEF IInv
<1>4. ASSUME NEW p \in Players, Spectate(p)
      PROVE  OffersAreFree'
  <2>1. ForceJoin(p, <<Spectators, NoNumber>>, Spectators, removals, Clients)
        /\ Spectators \notin Teams
    BY <1>4 DEF Spectate, Teams, Americans, British, Spectators
  <2>. QED
    BY <2>1, ForceJoinKeepsOffers DEF IInv
<1>5. Bots \subseteq Players
  BY DEF Players
<1>6. CASE \/ \E p \in Humans, c \in Classes : AttemptJoin(p, c)
           \/ FinishJoin
           \/ \E p \in Players : SwitchTeam(p)
           \/ \E b \in Bots, t \in Teams : AddBot(b, t)
  BY <1>3, <1>5, <1>6, JoiningAClass
<1>. QED
  BY <1>1, <1>2, <1>4, <1>6, DisconnectKeepsOffers, ThinkDeathKeepsOffers DEF Next

(***************************************************************************)
(* g_qFutureBotClasses: where a class has one limit in games of all sizes, *)
(* bots are never offered more places in it than are left, whoever comes,  *)
(* goes and changes, and in whatever order the first offers were put.      *)
(***************************************************************************)
THEOREM OffersStayFree == Spec => []OffersAreFree
<1>1. Init => OffersAreFree
  BY FirstOffersAreFree
<1>. QED
  BY <1>1, InitKeeps, NextKeeps, NextKeepsOffers, PTL DEF Spec
-------------------------------------------------------------------------------
(***************************************************************************)
(* The limits of the classes.  A class for which a bot has just made room  *)
(* is not full in the meantime.                                            *)
(***************************************************************************)
PendingFree == pending # NoOne => ~Full(pending[2], Clients)

LEMMA RealType ==
    ASSUME TypeOK, NEW c \in Classes
    PROVE  Real(c) \in Int /\ total[c] \in Int /\ bots[c] \in Int
BY DEF TypeOK, Real

\* No counter of players is below that of the bots among them.
LEMMA RealIsNatural ==
    ASSUME TypeOK, Covered, NEW c \in Classes
    PROVE  Real(c) >= 0
<1>1. In(c) \in SUBSET Players /\ In(c) \cap Bots \in SUBSET Players
  BY InType
<1>2. IsFiniteSet(In(c)) /\ Cardinality(In(c)) \in Nat /\ Cardinality(In(c) \cap Bots) \in Nat
  BY <1>1, Countable
<1>3. Cardinality(In(c) \cap Bots) <= Cardinality(In(c))
  BY <1>2, FS_Subset
<1>4. total[c] - Cardinality(In(c)) >= bots[c] - Cardinality(In(c) \cap Bots)
  BY DEF Covered, Excess, BotExcess
<1>5. total[c] \in Int /\ bots[c] \in Int
  BY RealType
<1>6. total[c] - bots[c] >= 0
  <2>. DEFINE i == Cardinality(In(c))
              j == Cardinality(In(c) \cap Bots)
  <2>1. i \in Nat /\ j \in Nat /\ j <= i /\ total[c] - i >= bots[c] - j
    BY <1>2, <1>3, <1>4
  <2>. HIDE DEF i, j
  <2>. QED
    BY <1>5, <2>1
<1>. QED
  BY <1>6 DEF Real

(***************************************************************************)
(* A bot that joins, leaves or changes makes no difference to the humans   *)
(* of a class, a human makes one to the class he comes into.               *)
(***************************************************************************)
LEMMA ForceJoinReal ==
    ASSUME TypeOK, Covered, NEW p \in Players, NEW c, NEW t, NEW n, NEW r,
           t \in Teams => c \in Classes,
           ForceJoin(p, c, t, r, n),
           NEW d \in Classes
    PROVE  /\ p \in Bots => Real(d)' = Real(d)
           /\ Real(d)' <= Real(d) \/ (t \in Teams /\ d = c /\ p \notin Bots)
           /\ Real(d)' <= Real(d) + 1
<1> DEFINE tot == TotalWithout(p, c)
           bot == BotsWithout(p, c)
           out == IF p \in In(d) THEN 1 ELSE 0
           botOut == IF p \in In(d) \cap Bots THEN 1 ELSE 0
           come == IF t \in Teams /\ d = c THEN 1 ELSE 0
           botCome == IF t \in Teams /\ d = c /\ p \in Bots THEN 1 ELSE 0
<1>1. /\ tot \in [Classes -> Nat] /\ bot \in [Classes -> Nat]
      /\ tot[d] = total[d] - out /\ bot[d] = bots[d] - botOut
  BY Without
<1>2. /\ total' = IF t \in Teams THEN [tot EXCEPT ![c] = @ + 1] ELSE tot
      /\ bots' = IF t \in Teams /\ p \in Bots THEN [bot EXCEPT ![c] = @ + 1] ELSE bot
  BY DEF ForceJoin, Notify
<1>3. /\ out \in {0, 1} /\ botOut \in {0, 1} /\ botOut <= out
      /\ come \in {0, 1} /\ botCome \in {0, 1} /\ botCome <= come
      /\ p \in Bots => botOut = out /\ botCome = come
      /\ p \notin Bots => botOut = 0 /\ botCome = 0
  OBVIOUS
<1>4. total[d] \in Int /\ bots[d] \in Int
  BY RealType
<1> HIDE DEF tot, bot, out, botOut
<1>5. total'[d] = tot[d] + come /\ bots'[d] = bot[d] + botCome
  <2>1. tot[d] \in Int /\ bot[d] \in Int
    BY <1>1
  <2>. QED
    BY <1>1, <1>2, <2>1
<1>6. come = 1 => t \in Teams /\ d = c
  OBVIOUS
<1> HIDE DEF come, botCome
<1>7. Real(d)' = total[d] - out + come - (bots[d] - botOut + botCome) /\ Real(d) = total[d] - bots[d]
  <2>1. Real(d)' = total'[d] - bots'[d] /\ Real(d) = total[d] - bots[d]
    BY DEF Real
  <2>. QED
    BY <1>1, <1>3, <1>4, <1>5, <2>1
<1>. QED
  BY <1>3, <1>4, <1>6, <1>7

\* A class without limit in the team's list has none.
LEMMA NoLimitThere ==
    ASSUME TypeOK, RoomInEveryTeam, NEW t \in Teams, NEW n
    PROVE  Limit(FindInfiniteClassForTeam(t, n), n) < 0
<1> DEFINE free == {k \in Numbers : Limit(<<t, k>>, n) < 0}
<1>1. \E k \in Numbers : Limit(<<t, k>>, n) < 0
  <2>1. \A size \in Sizes : \E k \in Numbers : limit[size][<<t, k>>] < 0
    BY DEF TypeOK, RoomInEveryTeam
  <2>. QED
    BY <2>1 DEF Limit, Sizes
<1>2. free # {} /\ free \subseteq Nat
  <2>1. Numbers \subseteq Nat
    BY ClassAssumption DEF Numbers
  <2>. QED
    BY <1>1, <2>1
<1>3. Min(free) \in free
  <2> HIDE DEF free
  <2>. QED
    BY <1>2, LeastElement
<1>4. FindInfiniteClassForTeam(t, n) = <<t, Min(free)>>
  BY <1>2 DEF FindInfiniteClassForTeam
<1>. QED
  BY <1>3, <1>4

LEMMA NextKeepsPending == IInv /\ PendingFree /\ [Next]_vars => PendingFree'
<1> SUFFICES ASSUME IInv, PendingFree, [Next]_vars, pending' # NoOne
             PROVE  ~Full(pending[2], Clients)'
  BY DEF PendingFree
<1>1. CASE UNCHANGED vars
  BY <1>1 DEF PendingFree, Full, Limit, Real, Clients, vars, counters
<1>2. ASSUME NEW p \in Humans, NEW c \in Classes, AttemptJoin(p, c)
      PROVE  ~Full(pending[2], Clients)'
  <2> DEFINE t == c[1]
             left == IF Counted(p) THEN NextClass(p)
                     ELSE FindInfiniteClassForTeam(Other(t), Clients)
  <2>1. CASE Crowded(p, t)
    <3>1. PICK b \in Members(t) \cap Bots : ForceJoin(b, left, Other(t), removals, Clients)
      BY <1>2, <2>1 DEF AttemptJoin, EnemyTeam
    <3>2. b \in Players /\ b \in Bots
      BY DEF Players
    <3>3. Other(t) \in Teams => left \in Classes
      <4>1. p \in Players
        BY DEF Players
      <4>2. Counted(p) => NextClass(p) \in Classes
        BY <4>1, CountedIn, <1>2 DEF IInv, TypeOK, Counted, NextClass, Classes
      <4>. QED
        BY <4>2, InfiniteType
    <3>4. pending' = <<p, c, Gap(t)>> /\ connected' = connected /\ limit' = limit
      BY <1>2, <2>1 DEF AttemptJoin, ForceJoin
    <3> HIDE DEF left, t
    <3>5. Real(c)' = Real(c)
      BY <3>1, <3>2, <3>3, ForceJoinReal DEF IInv
    <3>6. ~Full(c, Clients)
      BY <1>2 DEF AttemptJoin
    <3>. QED
      BY <3>4, <3>5, <3>6 DEF Full, Limit, Clients
  <2>2. CASE ~Crowded(p, t)
    <3>1. pending' = NoOne
      BY <1>2, <2>2 DEF AttemptJoin, Room
    <3>. QED
      BY <3>1
  <2>. QED
    BY <2>1, <2>2
<1>3. CASE ~\E p \in Humans, c \in Classes : AttemptJoin(p, c)
  <2>1. CASE Next
    <3>1. pending' = NoOne
      BY <1>3, <2>1 DEF Next, NewMap, EndMatch, FinishJoin, Connect, Spectate, SwitchTeam, Room,
         Disconnect, AddBot, Spawn, Die, Wake, ThinkDeath
    <3>. QED
      BY <3>1
  <2>. QED
    BY <1>1, <2>1
<1>. QED
  BY <1>2, <1>3

LEMMA RealAfter ==
    ASSUME IInv, [Next]_vars, NEW c \in Classes
    PROVE  Real(c)' \in Int
<1>1. TypeOK'
  BY NextKeeps DEF IInv
<1>2. total'[c] \in Int /\ bots'[c] \in Int
  BY <1>1 DEF TypeOK
<1>. QED
  BY <1>2 DEF Real

LEMMA StepKeepsLimits ==
    ASSUME IInv, PendingFree, RoomInEveryTeam, [Next]_vars, NEW c \in Classes,
           Real(c)' > Real(c)
    PROVE  LET lim == Limit(c, Clients)' IN lim < 0 \/ Real(c)' <= lim
<1> SUFFICES ASSUME TRUE
             PROVE  Limit(c, Clients)' < 0 \/ Real(c)' <= Limit(c, Clients)'
  OBVIOUS
<1>1. Real(c) \in Int /\ Real(c) >= 0
  BY RealType, RealIsNatural DEF IInv
<1>2. UNCHANGED <<limit, connected>> => Limit(c, Clients)' = Limit(c, Clients)
  BY DEF Limit, Clients
<1>3. Limit(c, Clients) \in Int
  BY ClassAssumption DEF IInv, TypeOK, Limit, Sizes
<1>4. ASSUME NEW b \in Bots, NEW d, NEW t, NEW n, NEW r, t \in Teams => d \in Classes,
             ForceJoin(b, d, t, r, n)
      PROVE  FALSE
  <2>1. b \in Players
    BY DEF Players
  <2>2. Real(c)' = Real(c)
    BY <1>4, <2>1, ForceJoinReal DEF IInv
  <2>. QED
    BY <1>1, <2>2
<1>5. ASSUME NEW p \in Players, NEW d \in Classes, NEW n, NEW r,
             ForceJoin(p, d, d[1], r, n), ~Full(d, Clients), UNCHANGED <<limit, connected>>
      PROVE  Limit(c, Clients)' < 0 \/ Real(c)' <= Limit(c, Clients)'
  <2>1. /\ Real(c)' <= Real(c) \/ c = d
        /\ Real(c)' <= Real(c) + 1
        /\ Real(c)' \in Int
    BY <1>5, RealAfter, ForceJoinReal DEF IInv
  <2>2. c = d
    BY <1>1, <2>1
  <2>3. Limit(c, Clients) < 0 \/ Real(c) < Limit(c, Clients)
    BY <1>1, <1>3, <1>5, <2>2 DEF Full
  <2>. QED
    BY <1>1, <1>2, <1>3, <1>5, <2>1, <2>3
<1>6. CASE \E p \in Humans, d \in Classes : AttemptJoin(p, d)
  <2>1. PICK p \in Humans, d \in Classes : AttemptJoin(p, d)
    BY <1>6
  <2>2. p \in Players /\ ~Full(d, Clients) /\ UNCHANGED <<limit, connected>>
    BY <2>1 DEF AttemptJoin, Players, ForceJoin
  <2>3. CASE Crowded(p, d[1])
    <3> DEFINE left == IF Counted(p) THEN NextClass(p)
                       ELSE FindInfiniteClassForTeam(Other(d[1]), Clients)
    <3>1. PICK b \in Members(d[1]) \cap Bots : ForceJoin(b, left, Other(d[1]), removals, Clients)
      BY <2>1, <2>3 DEF AttemptJoin, EnemyTeam
    <3>2. Other(d[1]) \in Teams => left \in Classes
      <4>1. Counted(p) => NextClass(p) \in Classes
        BY <2>2 DEF IInv, TypeOK, Counted, NextClass, Classes
      <4>. QED
        BY <4>1, InfiniteType
    <3> HIDE DEF left
    <3>. QED
      BY <1>4, <3>1, <3>2
  <2>4. CASE ~Crowded(p, d[1])
    <3>1. ForceJoin(p, d, d[1], removals, Clients)
      BY <2>1, <2>4 DEF AttemptJoin
    <3>. QED
      BY <1>5, <2>2, <3>1
  <2>. QED
    BY <2>3, <2>4
<1>7. CASE FinishJoin
  <2>1. /\ pending[1] \in Players /\ pending[2] \in Classes
        /\ ForceJoin(pending[1], pending[2], pending[2][1], removals, Clients)
        /\ ~Full(pending[2], Clients)
        /\ UNCHANGED <<limit, connected>>
    BY <1>7 DEF FinishJoin, PendingFree, IInv, TypeOK, ForceJoin, Players
  <2>. QED
    BY <1>5, <2>1
<1>8. CASE \E p \in Players : SwitchTeam(p)
  <2>1. PICK p \in Players : SwitchTeam(p)
    BY <1>8
  <2> DEFINE to == Other(team[p])
             d == FindInfiniteClassForTeam(to, Clients)
  <2>2. to \in Teams
    BY <2>1 DEF SwitchTeam, Counted, Other, Teams
  <2>3. d \in Classes /\ d[1] = to /\ Limit(d, Clients) < 0
    BY <2>2, InfiniteType, NoLimitThere DEF IInv
  <2>4. ForceJoin(p, d, to, removals, Clients) /\ UNCHANGED <<limit, connected>>
    BY <2>1 DEF SwitchTeam, ForceJoin
  <2> HIDE DEF to, d
  <2>5. ~Full(d, Clients)
    <3>1. Limit(d, Clients) \in Int
      BY <2>3, ClassAssumption DEF IInv, TypeOK, Limit, Sizes
    <3>. QED
      BY <2>3, <3>1 DEF Full
  <2>. QED
    BY <1>5, <2>3, <2>4, <2>5
<1>9. CASE \E b \in Bots, t \in Teams : AddBot(b, t)
  <2>1. PICK b \in Bots, t \in Teams : ForceJoin(b, <<t, Infantry>>, t, removals, Clients + 1)
    BY <1>9 DEF AddBot
  <2>2. <<t, Infantry>> \in Classes
    BY ClassAssumption DEF Classes, Numbers, Infantry
  <2>. QED
    BY <1>4, <2>1, <2>2
<1>10. CASE \E p \in Players : Spectate(p)
  <2>1. PICK p \in Players :
           ForceJoin(p, <<Spectators, NoNumber>>, Spectators, removals, Clients)
    BY <1>10 DEF Spectate
  <2>2. Spectators \notin Teams
    BY DEF Teams, Americans, British, Spectators
  <2>3. Real(c)' <= Real(c)
    BY <2>1, <2>2, ForceJoinReal DEF IInv
  <2>. QED
    BY <1>1, <2>3, RealAfter
<1>11. CASE \E b \in Bots : ThinkDeath(b)
  <2>1. PICK b \in Bots : ThinkDeath(b)
    BY <1>11
  <2> DEFINE free == InfiniteClassesForTeam(team[b])
             fewer == [removals EXCEPT ![cur[b]] = @ - 1]
  <2>2. CASE \E d \in free : ForceJoin(b, d, team[b], fewer, Clients)
    <3>1. free \subseteq Classes
      BY DEF InfiniteClassesForTeam, Infinite
    <3> HIDE DEF free, fewer
    <3>. QED
      BY <1>4, <2>2, <3>1
  <2>3. CASE future # <<>> /\ ForceJoin(b, Head(future), team[b], removals, Clients)
    <3>1. Head(future) \in Classes
      BY <2>3, HeadTailProperties DEF IInv, TypeOK
    <3>. QED
      BY <1>4, <2>3, <3>1
  <2>4. CASE UNCHANGED counters
    BY <1>1, <2>4 DEF counters, Real
  <2>. QED
    BY <2>1, <2>2, <2>3, <2>4 DEF ThinkDeath
<1>12. CASE \E p \in Players : Disconnect(p)
  <2>1. PICK p \in Players : Disconnect(p)
    BY <1>12
  <2> DEFINE d == NextClass(p)
             out == IF p \in In(c) THEN 1 ELSE 0
             botOut == IF p \in In(c) \cap Bots THEN 1 ELSE 0
  <2>2. CASE gameOver
    BY <1>1, <2>1, <2>2 DEF Disconnect, counters, Real
  <2>3. CASE ~gameOver
    <3>1. total' = TotalWithout(p, d) /\ bots' = BotsWithout(p, d)
      BY <2>1, <2>3 DEF Disconnect
    <3>2. total'[c] = total[c] - out /\ bots'[c] = bots[c] - botOut
      BY <3>1, Without DEF IInv
    <3>3. out \in {0, 1} /\ botOut \in {0, 1} /\ botOut <= out
      OBVIOUS
    <3>4. total[c] \in Int /\ bots[c] \in Int
      BY RealType DEF IInv
    <3> HIDE DEF out, botOut
    <3>5. Real(c)' = total'[c] - bots'[c] /\ Real(c) = total[c] - bots[c]
      BY DEF Real
    <3>. QED
      BY <3>2, <3>3, <3>4, <3>5
  <2>. QED
    BY <2>2, <2>3
<1>13. CASE NewMap
  BY <1>1, <1>13 DEF NewMap, Real
<1>14. CASE \/ UNCHANGED vars \/ EndMatch \/ \E p \in Humans : Connect(p)
            \/ \E b \in Bots : Spawn(b) \/ Die(b) \/ Wake(b)
  <2>1. UNCHANGED counters
    BY <1>14 DEF vars, EndMatch, Connect, Spawn, Die, Wake
  <2>. QED
    BY <1>1, <2>1 DEF counters, Real
<1>. QED
  BY <1>6, <1>7, <1>8, <1>9, <1>10, <1>11, <1>12, <1>13, <1>14 DEF Next

(***************************************************************************)
(* AttemptJoin, ForceJoin: no step brings a human into a class whose limit *)
(* is reached, though a bot may have to make room between the question     *)
(* and the answer, players are swapped, and counters are left too high by  *)
(* those who go in the intermission.                                       *)
(***************************************************************************)
THEOREM LimitsAreRespected == RoomInEveryTeam /\ Spec => LimitRespected
<1> SUFFICES ASSUME RoomInEveryTeam
             PROVE  Spec => LimitRespected
  OBVIOUS
<1>1. Init => PendingFree
  BY DEF Init, PendingFree
<1>2. IInv /\ PendingFree /\ [Next]_vars =>
         [\A c \in Classes :
             Real(c)' > Real(c) =>
                LET lim == Limit(c, Clients)' IN lim < 0 \/ Real(c)' <= lim]_vars
  BY StepKeepsLimits
<1>. QED
  BY <1>1, <1>2, InitKeeps, NextKeeps, NextKeepsPending, PTL DEF Spec, LimitRespected
-------------------------------------------------------------------------------
(***************************************************************************)
(* The balance of the teams.                                               *)
(***************************************************************************)
\* There are two teams, and each is the other's other.
LEMMA TwoTeams ==
    ASSUME NEW t \in Teams
    PROVE  /\ Other(t) \in Teams /\ Other(t) # t /\ Other(Other(t)) = t
           /\ Teams = {t, Other(t)}
BY DEF Other, Teams, Americans, British

(***************************************************************************)
(* Somebody who comes to a team widens its lead by one, and by one more if *)
(* he comes from the other team.                                           *)
(***************************************************************************)
LEMMA GapAfter ==
    ASSUME TypeOK, NEW p \in Players, NEW t \in Teams, team[p] # t,
           team' = [team EXCEPT ![p] = t]
    PROVE  LET x == IF team[p] = Other(t) THEN 1 ELSE 0
           IN  Gap(t)' = Gap(t) + 1 + x /\ Gap(Other(t))' = -(Gap(t) + 1 + x)
<1> DEFINE x == IF team[p] = Other(t) THEN 1 ELSE 0
           mine == Members(t)
           theirs == Members(Other(t))
<1>1. Other(t) \in Teams /\ Other(t) # t /\ Other(Other(t)) = t
  BY TwoTeams
<1>2. /\ Members(t)' = mine \cup {p}
      /\ Members(Other(t))' = theirs \ {p}
  BY <1>1 DEF Members, TypeOK
<1>3. /\ mine \in SUBSET Players /\ Cardinality(mine) \in Nat
      /\ theirs \in SUBSET Players /\ Cardinality(theirs) \in Nat
  BY GapType
<1>4. p \notin mine /\ (p \in theirs <=> team[p] = Other(t))
  BY DEF Members
<1>5. Cardinality(Members(t)') = Cardinality(mine) + 1
  BY <1>2, <1>3, <1>4, OneMore
<1>6. Cardinality(Members(Other(t))') = Cardinality(theirs) - x
  BY <1>2, <1>3, <1>4, OneLess
<1>7. /\ Gap(t) = Cardinality(mine) - Cardinality(theirs)
      /\ Gap(t)' = Cardinality(Members(t)') - Cardinality(Members(Other(t))')
      /\ Gap(Other(t))' = Cardinality(Members(Other(t))') - Cardinality(Members(t)')
  BY <1>1 DEF Gap
<1>8. x \in {0, 1}
  OBVIOUS
<1> HIDE DEF x, mine, theirs
<1>9. Gap(t)' = Gap(t) + 1 + x /\ Gap(Other(t))' = -(Gap(t) + 1 + x)
  BY <1>3, <1>5, <1>6, <1>7, <1>8
<1>. QED
  BY <1>9 DEF x

\* PlayerMayJoinTeam compares the lead of t without p with the tolerance.
LEMMA CrowdedMeans ==
    ASSUME TypeOK, NEW p \in Players, NEW t \in Teams, team[p] # t, Balance
    PROVE  LET lead == Gap(t) + (IF team[p] = Other(t) THEN 1 ELSE 0)
           IN  /\ Crowded(p, t) => lead >= 0
               /\ ~Crowded(p, t) => lead <= 0 \/ lead + 1 < Tolerance
<1> DEFINE x == IF team[p] = Other(t) THEN 1 ELSE 0
           mine == Members(t)
           theirs == Members(Other(t))
<1>1. /\ mine \in SUBSET Players /\ Cardinality(mine) \in Nat
      /\ theirs \in SUBSET Players /\ Cardinality(theirs) \in Nat
  BY GapType
<1>2. p \notin mine /\ (p \in theirs <=> team[p] = Other(t))
  BY DEF Members
<1>3. mine \ {p} = mine
  BY <1>2
<1>4. SizeWithoutMe(p, t) = Cardinality(mine)
  BY <1>3 DEF SizeWithoutMe
<1>5. SizeWithoutMe(p, Other(t)) = Cardinality(theirs) - x
  BY <1>1, <1>2, OneLess DEF SizeWithoutMe
<1>6. Gap(t) = Cardinality(mine) - Cardinality(theirs) /\ x \in {0, 1}
  BY DEF Gap
<1> HIDE DEF x, mine, theirs
<1>7. /\ Crowded(p, t) => Gap(t) + x >= 0
      /\ ~Crowded(p, t) => Gap(t) + x <= 0 \/ Gap(t) + x + 1 < Tolerance
  BY <1>1, <1>4, <1>5, <1>6, NumberAssumption DEF Crowded
<1>. QED
  BY <1>7 DEF x

(***************************************************************************)
(* While a join is under way the bot that made room has taken two off the  *)
(* lead of the team that is joined, and this lead was not negative, the    *)
(* one who joins left out.                                                 *)
(***************************************************************************)
RoomIsMade ==
    pending # NoOne =>
        LET p == pending[1]
            t == pending[2][1]
        IN  /\ team[p] # t
            /\ Gap(t) = pending[3] - 2
            /\ Balance /\ pending[3] + (IF team[p] = Other(t) THEN 1 ELSE 0) >= 0

\* A bot that makes room leaves the lead as RoomIsMade says.
LEMMA MakingRoom ==
    ASSUME TypeOK, NEW p \in Humans, NEW c \in Classes, AttemptJoin(p, c), Crowded(p, c[1])
    PROVE  RoomIsMade'
<1> DEFINE t == c[1]
           u == Other(t)
           x == IF team[p] = Other(t) THEN 1 ELSE 0
<1>1. t \in Teams
  BY DEF Classes
<1>2. u \in Teams /\ u # t /\ Other(u) = t
  BY <1>1, TwoTeams
<1>3. /\ pending' = <<p, c, Gap(t)>>
      /\ \E b \in Members(t) \cap Bots : team' = [team EXCEPT ![b] = u]
  BY DEF AttemptJoin, ForceJoin, EnemyTeam
<1> HIDE DEF t
<1>4. PICK b \in Members(t) \cap Bots : team' = [team EXCEPT ![b] = u]
  BY <1>3
<1>5. p \in Players /\ b \in Players /\ b # p /\ team[b] = t
  BY PlayerAssumption DEF Players, Members
<1>6. Balance /\ team[p] # t
  BY DEF Crowded, t
<1>7. Gap(t)' = Gap(t) - 2
  <2>1. Gap(Other(u))' = -(Gap(u) + 1 + 1)
    BY <1>2, <1>4, <1>5, GapAfter
  <2>2. Gap(u) = -Gap(t)
    <3>1. Cardinality(Members(t)) \in Nat /\ Cardinality(Members(u)) \in Nat
      BY GapType
    <3>2. Gap(t) = Cardinality(Members(t)) - Cardinality(Members(u))
      BY DEF Gap
    <3>3. Gap(u) = Cardinality(Members(u)) - Cardinality(Members(t))
      BY <1>2 DEF Gap
    <3>. QED
      BY <3>1, <3>2, <3>3
  <2>3. Gap(t) \in Int
    BY GapType
  <2> HIDE DEF u
  <2>. QED
    BY <1>2, <2>1, <2>2, <2>3
<1>8. Gap(t) + x >= 0
  BY <1>1, <1>5, <1>6, CrowdedMeans DEF t
<1>9. team'[p] = team[p]
  BY <1>4, <1>5 DEF TypeOK
<1>10. pending'[1] = p /\ pending'[2][1] = t /\ pending'[3] = Gap(t)
  BY <1>3 DEF t
<1>. QED
  BY <1>6, <1>7, <1>8, <1>9, <1>10 DEF RoomIsMade

LEMMA NextKeepsRoom == IInv /\ RoomIsMade /\ [Next]_vars => RoomIsMade'
<1> SUFFICES ASSUME IInv, RoomIsMade, [Next]_vars
             PROVE  RoomIsMade'
  OBVIOUS
<1>1. CASE UNCHANGED vars
  BY <1>1 DEF RoomIsMade, Gap, Members, vars
<1>2. CASE \E p \in Humans, c \in Classes : AttemptJoin(p, c) /\ Crowded(p, c[1])
  BY <1>2, MakingRoom DEF IInv
<1>3. CASE pending' = NoOne
  BY <1>3 DEF RoomIsMade
<1>4. CASE Next /\ ~\E p \in Humans, c \in Classes : AttemptJoin(p, c) /\ Crowded(p, c[1])
  <2>1. pending' = NoOne
    BY <1>4 DEF Next, NewMap, EndMatch, FinishJoin, Connect, Spectate, SwitchTeam, Room,
       AttemptJoin, Disconnect, AddBot, Spawn, Die, Wake, ThinkDeath
  <2>. QED
    BY <1>3, <2>1
<1>. QED
  BY <1>1, <1>2, <1>4

\* A join for which no bot has to make room.
LEMMA DirectJoinKeepsBalance ==
    ASSUME TypeOK, NEW p \in Humans, NEW c \in Classes, AttemptJoin(p, c), Balance,
           pending' = NoOne, NEW t \in Teams, Gap(t)' > GapBefore(t)
    PROVE  Gap(t)' < Tolerance \/ Gap(t)' <= 1
<1> DEFINE u == c[1]
           x == IF team[p] = Other(u) THEN 1 ELSE 0
<1>1. u \in Teams /\ p \in Players
  BY DEF Classes, Players
<1>2. ~Crowded(p, u) /\ pending = NoOne
  BY DEF AttemptJoin, NoOne, Room
<1>3. team' = [team EXCEPT ![p] = u]
  BY <1>2 DEF AttemptJoin, ForceJoin
<1>4. t \in {u, Other(u)} /\ GapBefore(t) = Gap(t)
  BY <1>1, <1>2, TwoTeams DEF GapBefore
<1> HIDE DEF u
<1>5. Gap(t) \in Int /\ Gap(u) \in Int
  BY GapType
<1>6. team[p] # u
  <2>1. ASSUME team[p] = u PROVE FALSE
    <3>1. team' = team
      BY <1>1, <1>3, <2>1 DEF TypeOK
    <3>2. Gap(t)' = Gap(t)
      BY <3>1 DEF Gap, Members
    <3>. QED
      BY <1>4, <1>5, <3>2
  <2>. QED
    BY <2>1
<1>7. Gap(u)' = Gap(u) + 1 + x /\ Gap(Other(u))' = -(Gap(u) + 1 + x)
  BY <1>1, <1>3, <1>6, GapAfter
<1>8. Gap(u) + x <= 0 \/ Gap(u) + x + 1 < Tolerance
  BY <1>1, <1>2, <1>6, CrowdedMeans
<1>9. Gap(Other(u)) = -Gap(u)
  <2>1. Cardinality(Members(u)) \in Nat /\ Cardinality(Members(Other(u))) \in Nat
    BY GapType
  <2>2. Other(Other(u)) = u
    BY <1>1, TwoTeams
  <2>. QED
    BY <2>1, <2>2 DEF Gap
<1>10. x \in {0, 1}
  OBVIOUS
<1> HIDE DEF x
<1>11. CASE t = u
  BY <1>5, <1>7, <1>8, <1>10, <1>11, NumberAssumption
<1>12. CASE t = Other(u)
  BY <1>4, <1>5, <1>7, <1>9, <1>10, <1>12
<1>. QED
  BY <1>4, <1>11, <1>12

\* A join for which a bot has made room.
LEMMA FinishKeepsBalance ==
    ASSUME TypeOK, RoomIsMade, FinishJoin, NEW t \in Teams
    PROVE  Gap(t)' <= GapBefore(t) \/ Gap(t)' <= 1
<1>0. PICK p \in Humans, c \in Classes, before \in Int : pending = <<p, c, before>>
  BY DEF FinishJoin, TypeOK
<1> DEFINE u == c[1]
           x == IF team[p] = Other(u) THEN 1 ELSE 0
<1>1. p \in Players /\ u \in Teams /\ before \in Int /\ pending # NoOne
  BY DEF FinishJoin, Players, Classes
<1>2. team[p] # u /\ Gap(u) = before - 2 /\ before + x >= 0
  BY <1>0, <1>1 DEF RoomIsMade
<1>3. team' = [team EXCEPT ![p] = u]
  BY <1>0 DEF FinishJoin, ForceJoin
<1>4. GapBefore(u) = before /\ t \in {u, Other(u)}
  BY <1>0, <1>1, TwoTeams DEF GapBefore
<1>5. x \in {0, 1}
  OBVIOUS
<1>6. Gap(u)' = Gap(u) + 1 + x /\ Gap(Other(u))' = -(Gap(u) + 1 + x)
  <2> HIDE DEF u
  <2>. QED
    BY <1>1, <1>2, <1>3, GapAfter
<1> HIDE DEF u, x
<1>7. CASE t = u
  BY <1>1, <1>2, <1>4, <1>5, <1>6, <1>7
<1>8. CASE t = Other(u)
  BY <1>1, <1>2, <1>5, <1>6, <1>8
<1>. QED
  BY <1>4, <1>7, <1>8

(***************************************************************************)
(* PlayerMayJoinTeam: "check so we don't ruin the team balance".  However  *)
(* many players there are, a join widens no lead beyond one player and the *)
(* tolerance; where a bot makes room, the lead is compared with the one    *)
(* before the bot moved.                                                   *)
(***************************************************************************)
THEOREM JoinsAreBalanced == Spec => JoinsKeepBalance
<1>1. Init => RoomIsMade
  BY DEF Init, RoomIsMade
<1>2. ASSUME IInv, RoomIsMade, Balance, Joins, NEW t \in Teams, Gap(t)' > GapBefore(t)
      PROVE  Gap(t)' < Tolerance \/ Gap(t)' <= 1
  <2>1. CASE FinishJoin
    <3>1. Gap(t)' <= GapBefore(t) \/ Gap(t)' <= 1
      BY <1>2, <2>1, FinishKeepsBalance DEF IInv
    <3>2. Gap(t)' \in Int
      <4>1. Cardinality(Members(t))' \in Nat /\ Cardinality(Members(Other(t)))' \in Nat
        BY GapType, Countable DEF Members
      <4>. QED
        BY <4>1 DEF Gap
    <3>3. GapBefore(t) \in Int
      <4>1. Gap(t) \in Int
        BY GapType
      <4>2. pending \in {NoOne} \cup (Humans \X Classes \X Int)
        BY <1>2 DEF IInv, TypeOK
      <4>. QED
        BY <4>1, <4>2 DEF GapBefore
    <3>. QED
      BY <1>2, <3>1, <3>2, <3>3
  <2>2. CASE \E p \in Humans, c \in Classes : AttemptJoin(p, c)
    BY <1>2, <2>2, DirectJoinKeepsBalance DEF IInv, Joins
  <2>. QED
    BY <1>2, <2>1, <2>2 DEF Joins
<1>3. IInv /\ RoomIsMade /\ [Next]_vars =>
         [Balance /\ Joins =>
             \A t \in Teams : Gap(t)' > GapBefore(t) => Gap(t)' < Tolerance \/ Gap(t)' <= 1]_vars
  BY <1>2
<1>. QED
  BY <1>1, <1>3, InitKeeps, NextKeeps, NextKeepsRoom, PTL DEF Spec, JoinsKeepBalance
===============================================================================
