-------------------------- MODULE PlayerScoresProofs --------------------------
(***************************************************************************)
(* For any players, kits, bounds and rules: nobody but who plays in the    *)
(* server's last slot wins the gun game with ranks he has not gained since *)
(* it began; entries are forgotten on time; mutes are kept; and points are *)
(* neither lost nor doubled.                                               *)
(***************************************************************************)
EXTENDS PlayerScores, SequenceLemmas, TLAPS

(***************************************************************************)
(* The kit in a player's hands is a rank he has gained, unless a restart   *)
(* does not reach him; who is not in a gun game has the first.  The latter *)
(* is what makes a restart, which resets the kits of a gun game only, keep *)
(* the former.                                                             *)
(***************************************************************************)
KitsAreGained ==
    /\ here \subseteq Players
    /\ kit \in [Players -> 0..NumKits - 1]
    /\ ranks \in [Players -> 0..NumKits]
    /\ \A p \in Players :
          /\ p < MaxClients => kit[p] <= ranks[p]
          /\ p \notin here \/ rules.mode # "gungame" => kit[p] = 0

LEMMA InitStep ==
    ASSUME Init PROVE KitsAreGained
BY NumberAssumption DEF Init, KitsAreGained, NobodyYet

\* The steps that touch neither the kits nor the ranks.
Idle ==
    /\ UNCHANGED <<rules, kit, ranks>>
    /\ here \subseteq here' /\ here' \subseteq Players

LEMMA IdleStep ==
    ASSUME KitsAreGained, Idle PROVE KitsAreGained'
BY DEF KitsAreGained, Idle

\* The kit of a killer who has the rank k, and of a bottle's victim
LEMMA Ranks ==
    ASSUME NEW k \in 0..NumKits - 1
    PROVE  /\ OneLess(k) \in 0..NumKits - 1 /\ OneLess(k) <= k
           /\ k + 1 >= NumKits => k = NumKits - 1
BY NumberAssumption DEF OneLess

LEMMA RankUpStep ==
    ASSUME KitsAreGained, NEW a \in Players, NEW v \in Players, NEW bottle \in BOOLEAN,
           RankUp(a, v, bottle)
    PROVE  /\ KitsAreGained'
           /\ champion' # champion =>
                 champion' = a /\ (a < MaxClients => ranks'[a] >= NumKits)
<1>1. kit[a] \in 0..NumKits - 1 /\ kit[v] \in 0..NumKits - 1 /\ ranks[a] \in 0..NumKits
      /\ (a < MaxClients => kit[a] <= ranks[a]) /\ NumKits \in Nat \ {0}
  BY NumberAssumption DEF KitsAreGained
<1>2. ranks' \in [Players -> 0..NumKits] /\ (a < MaxClients => kit[a] < ranks'[a])
      /\ \A p \in Players : ranks[p] <= ranks'[p]
  BY <1>1 DEF RankUp, KitsAreGained
<1>3. a \in here /\ v \in here /\ a # v /\ rules.mode = "gungame" /\ UNCHANGED <<rules, here>>
  BY DEF RankUp, Playing
<1>4. CASE kit[a] + 1 >= NumKits
  <2>1. kit' = [kit EXCEPT ![a] = NumKits - 1] /\ champion' = a
    BY <1>4 DEF RankUp
  <2>2. NumKits - 1 = kit[a] /\ (a < MaxClients => ranks'[a] >= NumKits)
    BY <1>1, <1>2, <1>4, Ranks
  <2>3. kit' = kit
    BY <2>1, <2>2 DEF KitsAreGained
  <2>. QED
    BY <1>2, <1>3, <2>1, <2>2, <2>3 DEF KitsAreGained
<1>5. CASE ~(kit[a] + 1 >= NumKits)
  <2>1. kit' = [kit EXCEPT ![a] = kit[a] + 1, ![v] = IF bottle THEN OneLess(kit[v]) ELSE kit[v]]
        /\ champion' = champion
    BY <1>3, <1>5 DEF RankUp
  <2>2. kit' \in [Players -> 0..NumKits - 1] /\ kit'[a] = kit[a] + 1 /\ kit'[v] <= kit[v]
        /\ \A p \in Players \ {a, v} : kit'[p] = kit[p]
    BY <1>1, <1>3, <1>5, <2>1, Ranks DEF KitsAreGained
  <2>3. \A p \in Players : p < MaxClients => kit'[p] <= ranks'[p]
    BY <1>1, <1>2, <1>3, <2>2 DEF KitsAreGained
  <2>. QED
    BY <1>2, <1>3, <2>1, <2>2, <2>3 DEF KitsAreGained
<1>. QED
  BY <1>4, <1>5

LEMMA DisconnectStep ==
    ASSUME KitsAreGained, NEW p \in Players, Disconnect(p) PROVE KitsAreGained'
BY NumberAssumption DEF Disconnect, KitsAreGained

LEMMA RestartStep ==
    ASSUME KitsAreGained, RestartGame PROVE KitsAreGained'
<1>1. kit' = [p \in Players |-> IF InGunGame(p) THEN 0 ELSE kit[p]] /\ ranks' = NobodyYet
      /\ here' = here /\ rules' = rules
  BY DEF RestartGame
<1>2. \A p \in Players : p < MaxClients => kit'[p] = 0
  BY <1>1 DEF InGunGame, KitsAreGained
<1>3. kit' \in [Players -> 0..NumKits - 1]
  BY <1>1, NumberAssumption DEF KitsAreGained
<1>. QED
  BY <1>1, <1>2, <1>3, NumberAssumption DEF KitsAreGained, NobodyYet

LEMMA ChangeLevelStep ==
    ASSUME KitsAreGained, ChangeLevel PROVE KitsAreGained'
BY NumberAssumption DEF ChangeLevel, KitsAreGained, NobodyYet

LEMMA OtherSteps ==
    ASSUME KitsAreGained,
           \/ \E p \in Players :
                 \/ Connect(p) \/ Spectate(p) \/ CaptureFlag(p)
                 \/ \E t \in Teams : Join(p, t)
                 \/ \E on \in BOOLEAN : Punish(p, on)
                 \/ \E d \in {-1, 1} : Hit(p, d)
                 \/ \E v \in Players : Kill(p, v)
           \/ Tick \/ Expire \/ EndMatch \/ Announce
           \/ UNCHANGED vars
    PROVE  Idle /\ champion' = champion
BY DEF Idle, KitsAreGained, Connect, Spectate, CaptureFlag, Join, Punish, Hit, Kill, Tick, Expire,
       EndMatch, Announce, vars, scoreVars, storeVars, historyVars

LEMMA Inductive ==
    ASSUME KitsAreGained, [Next]_vars
    PROVE  /\ KitsAreGained'
           /\ champion' \notin {0, champion} /\ champion' < MaxClients =>
                 ranks'[champion'] >= NumKits
<1>1. ASSUME NEW p \in Players, Disconnect(p)
      PROVE  KitsAreGained' /\ champion' = champion
  BY <1>1, DisconnectStep DEF Disconnect
<1>2. CASE RestartGame
  BY <1>2, RestartStep DEF RestartGame
<1>3. CASE ChangeLevel
  BY <1>3, ChangeLevelStep DEF ChangeLevel
<1>. QED
  BY <1>1, <1>2, <1>3, RankUpStep, OtherSteps, IdleStep DEF Next, Idle

LEMMA Gained == Spec => []KitsAreGained
<1>1. Init => KitsAreGained
  BY InitStep
<1>2. KitsAreGained /\ [Next]_vars => KitsAreGained'
  BY Inductive
<1>. QED
  BY <1>1, <1>2, PTL DEF Spec

(***************************************************************************)
(* Who wins the gun game has gained all its ranks since it began           *)
(* (PlayerKilled, ResetGunKitsOnPlayers), unless he plays in the last slot,*)
(* whoever plays there.                                                    *)
(***************************************************************************)
THEOREM WinsAreEarned == Spec => ReachedWinIsEarned
<1>1. Spec => []KitsAreGained
  BY Gained
<1>2. KitsAreGained /\ [Next]_vars
          => [champion' \notin {0, champion} /\ champion' < MaxClients =>
                 ranks'[champion'] >= NumKits]_vars
  BY Inductive
<1>. QED
  BY <1>1, <1>2, PTL DEF Spec, ReachedWinIsEarned
-------------------------------------------------------------------------------
(***************************************************************************)
(* The entries that are kept, and what is done to them.                    *)
(***************************************************************************)
LEMMA Bounds ==
    /\ NumKits \in Nat /\ NumKits > 0 /\ PreserveTime \in Nat /\ MaxFrags \in Nat
    /\ MaxCredit \in Nat /\ MaxDamage \in Nat /\ MaxSaved \in Nat /\ MaxClock \in Nat
    /\ NumKits < MaxFrags /\ Players \subseteq Nat
BY NumberAssumption

LEMMA SavedType ==
    ASSUME TypeOK
    PROVE  /\ saved \in Seq(Entry) /\ Len(saved) \in Nat /\ DOMAIN saved = 1..Len(saved)
           /\ \A i \in DOMAIN saved : saved[i] \in Entry
BY LenProperties, ElementOfSeq DEF TypeOK

\* What is kept of a player and given back to him: his first entry.
LEMMA RestoreMeans ==
    ASSUME TypeOK, NEW p \in Players, NEW f, NEW d, Restore(p, f, d),
           d = 0, p \in rules.known, EntriesOf(p) # {}
    PROVE  \E i \in EntriesOf(p) :
              /\ i \in 1..Len(saved)
              /\ f + saved[i].score <= MaxFrags
              /\ frags' = [frags EXCEPT ![p] = f + saved[i].score]
              /\ damage' = [damage EXCEPT ![p] = saved[i].damage]
              /\ muted' = IF saved[i].muted THEN muted \cup {p} ELSE muted \ {p}
              /\ saved' = RemoveAt(saved, i)
              /\ \E g : Picks(g, saved', saved, DOMAIN saved \ {i})
<1>1. PICK i \in EntriesOf(p) :
         /\ \A j \in EntriesOf(p) : i <= j
         /\ f + saved[i].score <= MaxFrags
         /\ frags' = [frags EXCEPT ![p] = f + saved[i].score]
         /\ damage' = [damage EXCEPT ![p] = saved[i].damage]
         /\ muted' = IF saved[i].muted THEN muted \cup {p} ELSE muted \ {p}
         /\ saved' = EraseEntry(p)
  BY DEF Restore
<1>2. EntriesOf(p) \subseteq 1..Len(saved) /\ saved \in Seq(Entry) /\ Len(saved) \in Nat
  BY SavedType DEF EntriesOf
<1>3. i = CHOOSE k \in EntriesOf(p) : \A j \in EntriesOf(p) : k <= j
  <2>1. \A k \in EntriesOf(p) : (\A j \in EntriesOf(p) : k <= j) => k = i
    BY <1>1, <1>2
  <2>. QED
    BY <1>1, <2>1
<1>4. saved' = RemoveAt(saved, i)
  BY <1>1, <1>3 DEF EraseEntry
<1>5. \E g : Picks(g, saved', saved, DOMAIN saved \ {i})
  BY <1>2, <1>4, RemoveAtPicks
<1>. QED
  BY <1>1, <1>2, <1>4, <1>5

\* The entries whose time has come are the first ones.
LEMMA ExpiredAreFirst ==
    ASSUME TypeOK
    PROVE  \E n \in 0..Len(saved) : Expired = 1..n /\ Cardinality(Expired) = n
<1>1. Len(saved) \in Nat /\ DOMAIN saved = 1..Len(saved)
  BY SavedType
<1>2. Current \in SUBSET Nat /\ Current \subseteq 1..Len(saved)
  BY <1>1 DEF Current
<1>3. PICK n \in 0..Len(saved) : Expired = 1..n
  <2>1. CASE Current = {}
    <3>1. Expired = 1..Len(saved)
      BY <1>1, <2>1 DEF Expired
    <3>2. Len(saved) \in 0..Len(saved)
      BY <1>1
    <3>. QED
      BY <3>1, <3>2
  <2>2. CASE Current # {}
    <3> DEFINE m == Min(Current)
    <3>1. m \in Current /\ \A j \in Current : m <= j
      BY <1>2, <2>2, LeastElement
    <3> HIDE DEF m
    <3>2. Expired = 1..m - 1
      <4>1. Expired \subseteq 1..m - 1
        BY <1>1, <1>2, <3>1 DEF Expired
      <4>2. 1..m - 1 \subseteq Expired
        BY <1>1, <1>2, <3>1 DEF Expired
      <4>. QED
        BY <4>1, <4>2
    <3>3. m - 1 \in 0..Len(saved)
      BY <1>1, <1>2, <3>1
    <3>. QED
      BY <3>2, <3>3
  <2>. QED
    BY <2>1, <2>2
<1>4. Cardinality(1..n) = n
  <2>1. n \in Nat /\ 1 \in Int /\ n \in Int
    BY <1>1
  <2>2. Cardinality(1..n) = IF 1 > n THEN 0 ELSE n - 1 + 1
    BY <2>1, FS_Interval
  <2>. QED
    BY <2>1, <2>2
<1>. QED
  BY <1>3, <1>4

LEMMA ExpireMeans ==
    ASSUME TypeOK, Expire
    PROVE  \E n \in 0..Len(saved) :
              /\ Expired = 1..n
              /\ saved' \in Seq(Entry) /\ Len(saved') <= Len(saved)
              /\ \E g : Picks(g, saved', saved, DOMAIN saved \ (1..n))
<1>1. PICK n \in 0..Len(saved) : Expired = 1..n /\ Cardinality(Expired) = n
  BY ExpiredAreFirst
<1>2. saved' = SubSeq(saved, n + 1, Len(saved))
  BY <1>1 DEF Expire
<1>3. saved \in Seq(Entry) /\ Len(saved) \in Nat
  BY SavedType
<1>4. /\ saved' \in Seq(Entry) /\ Len(saved') = Len(saved) - n
      /\ \E g : Picks(g, saved', saved, DOMAIN saved \ (1..n))
  BY <1>2, <1>3, RestPicks
<1>5. Len(saved') <= Len(saved)
  BY <1>3, <1>4
<1>. QED
  BY <1>1, <1>4, <1>5

\* An entry of a player is one
LEMMA EntryType ==
    ASSUME TypeOK, NEW p \in Players
    PROVE  EntryOf(p) \in Entry
BY Bounds DEF TypeOK, EntryOf, Entry

(***************************************************************************)
(* Flush keeps each mute once: an order-preserving function from as many   *)
(* places as there are mutes to the mutes meets them all.                  *)
(***************************************************************************)
LEMMA FlushMeans ==
    ASSUME TypeOK, Flush
    PROVE  /\ saved' \in Seq(Entry) /\ Len(saved') <= Len(saved)
           /\ \E f : /\ f \in [DOMAIN saved' -> Mutes]
                     /\ \A k \in Mutes : \E i \in DOMAIN saved' : f[i] = k
                     /\ \A i, j \in DOMAIN saved' : f[i] = f[j] => i = j
                     /\ \A i \in DOMAIN saved' : saved'[i] = WithoutScore(saved[f[i]])
<1>1. PICK f \in [1..Cardinality(Mutes) -> Mutes] :
         /\ \A i, j \in DOMAIN f : i < j => f[i] < f[j]
         /\ saved' = [k \in DOMAIN f |-> WithoutScore(saved[f[k]])]
  BY DEF Flush
<1> DEFINE n == Cardinality(Mutes)
           D == 1..n
<1>2. /\ Len(saved) \in Nat /\ Mutes \subseteq 1..Len(saved)
      /\ \A i \in Mutes : saved[i] \in Entry
  BY SavedType DEF Mutes
<1>3. IsFiniteSet(Mutes) /\ n \in Nat /\ n <= Len(saved)
  <2>1. IsFiniteSet(1..Len(saved)) /\ Cardinality(1..Len(saved)) = Len(saved)
    <3>1. 1 \in Int /\ Len(saved) \in Int
      BY <1>2
    <3>2. IsFiniteSet(1..Len(saved))
          /\ Cardinality(1..Len(saved)) = IF 1 > Len(saved) THEN 0 ELSE Len(saved) - 1 + 1
      BY <3>1, FS_Interval
    <3>. QED
      BY <1>2, <3>2
  <2>2. IsFiniteSet(Mutes) /\ Cardinality(Mutes) <= Len(saved)
    <3> DEFINE I == 1..Len(saved)
    <3>1. Mutes \in SUBSET I /\ IsFiniteSet(I) /\ Cardinality(I) = Len(saved)
      BY <1>2, <2>1
    <3> HIDE DEF I
    <3>. QED
      BY <3>1, FS_Subset
  <2>3. Cardinality(Mutes) \in Nat
    BY <2>2, FS_CardinalityType
  <2>. QED
    BY <2>2, <2>3
<1> HIDE DEF n
<1>4. IsFiniteSet(D) /\ Cardinality(D) = n
  <2>1. 1 \in Int /\ n \in Int
    BY <1>3
  <2>2. IsFiniteSet(1..n) /\ Cardinality(1..n) = IF 1 > n THEN 0 ELSE n - 1 + 1
    BY <2>1, FS_Interval
  <2>. QED
    BY <1>3, <2>2
<1>5. f \in [D -> Mutes] /\ D \subseteq Nat
  BY DEF n
<1>6. \A i, j \in D : f[i] = f[j] => i = j
  <2>1. ASSUME NEW i \in D, NEW j \in D, f[i] = f[j], i # j
        PROVE  FALSE
    <3>1. f[i] \in Nat /\ f[j] \in Nat
      <4>1. f[i] \in Mutes /\ f[j] \in Mutes
        BY <1>5
      <4>2. Mutes \subseteq Nat
        BY <1>2
      <4>. QED
        BY <4>1, <4>2
    <3>2. i < j => f[i] < f[j]
      BY <1>1, <1>5
    <3>3. j < i => f[j] < f[i]
      BY <1>1, <1>5
    <3>. QED
      BY <1>5, <2>1, <3>1, <3>2, <3>3
  <2>. QED
    BY <2>1
<1>7. \A k \in Mutes : \E i \in D : f[i] = k
  <2> DEFINE image == {f[i] : i \in D}
             b == [i \in D |-> f[i]]
  <2>1. b \in Bijection(D, image)
    BY <1>6 DEF Bijection, Injection, Surjection, IsInjective
  <2>2. image \subseteq Mutes
    BY <1>5
  <2> HIDE DEF image, b
  <2>3. IsFiniteSet(image) /\ Cardinality(image) = n
    BY <1>4, <2>1, FS_Bijection DEF ExistsBijection
  <2>4. image = Mutes
    BY <1>3, <2>2, <2>3, FS_Subset DEF n
  <2>. QED
    BY <2>4 DEF image
<1>8. DOMAIN f = D
  BY <1>5
<1> HIDE DEF D
<1>9. saved' = [k \in D |-> WithoutScore(saved[f[k]])]
  BY <1>1, <1>8
<1>10. \A k \in D : WithoutScore(saved[f[k]]) \in Entry
  <2>1. ASSUME NEW e \in Entry
        PROVE  WithoutScore(e) \in Entry
    <3>1. 0 \in 0..MaxFrags /\ 0 \in -MaxDamage..MaxDamage
      BY Bounds
    <3> DEFINE d == [e EXCEPT !.score = 0]
    <3>2. d \in Entry
      BY <3>1 DEF Entry
    <3>3. WithoutScore(e) = [d EXCEPT !.damage = 0]
      BY DEF WithoutScore
    <3> HIDE DEF d
    <3>. QED
      BY <3>1, <3>2, <3>3 DEF Entry
  <2>. QED
    BY <1>2, <1>5, <2>1
<1>11. saved' \in Seq(Entry) /\ DOMAIN saved' = D
  BY <1>3, <1>9, <1>10 DEF D
<1>12. Len(saved') = n
  BY <1>3, <1>11, LenProperties DEF D
<1>13. \A i \in D : saved'[i] = WithoutScore(saved[f[i]])
  BY <1>9
<1>. QED
  BY <1>3, <1>5, <1>6, <1>7, <1>11, <1>12, <1>13
-------------------------------------------------------------------------------
(***************************************************************************)
(* Types.                                                                  *)
(***************************************************************************)
ScoreTypes ==
    /\ frags \in [Players -> 0..MaxFrags]
    /\ damage \in [Players -> -MaxDamage..MaxDamage]
    /\ muted \subseteq Players
    /\ saved \in Seq(Entry) /\ Len(saved) <= MaxSaved

LEMMA RestoreTypes ==
    ASSUME TypeOK, NEW p \in Players,
           NEW f \in 0..MaxFrags, NEW d \in -MaxDamage..MaxDamage, Restore(p, f, d)
    PROVE  ScoreTypes'
<1>1. CASE d # 0 \/ p \notin rules.known \/ EntriesOf(p) = {}
  BY <1>1 DEF Restore, TypeOK, ScoreTypes, storeVars
<1>2. CASE d = 0 /\ p \in rules.known /\ EntriesOf(p) # {}
  <2>1. PICK i \in EntriesOf(p) :
           /\ i \in 1..Len(saved)
           /\ f + saved[i].score <= MaxFrags
           /\ frags' = [frags EXCEPT ![p] = f + saved[i].score]
           /\ damage' = [damage EXCEPT ![p] = saved[i].damage]
           /\ muted' = IF saved[i].muted THEN muted \cup {p} ELSE muted \ {p}
           /\ saved' = RemoveAt(saved, i)
    BY <1>2, RestoreMeans
  <2>2. /\ saved \in Seq(Entry) /\ saved[i] \in Entry /\ Len(saved) \in Nat
        /\ Len(saved) <= MaxSaved
    BY <2>1, SavedType DEF TypeOK
  <2>3. saved' \in Seq(Entry) /\ Len(saved') = Len(saved) - 1
    BY <2>1, <2>2, RemoveAtIs
  <2>4. Len(saved') <= MaxSaved
    BY <2>2, <2>3, Bounds
  <2>5. saved[i].score \in 0..MaxFrags /\ saved[i].damage \in -MaxDamage..MaxDamage
    BY <2>2 DEF Entry
  <2>6. f + saved[i].score \in 0..MaxFrags
    BY <2>1, <2>5, Bounds
  <2>. QED
    BY <2>1, <2>3, <2>4, <2>5, <2>6 DEF TypeOK, ScoreTypes
<1>. QED
  BY <1>1, <1>2

LEMMA InitTypes ==
    ASSUME Init PROVE TypeOK
<1>1. saved \in Seq(Entry) /\ Len(saved) = 0
  BY DEF Init
<1>2. /\ 0 \in 0..MaxFrags /\ 0 \in -MaxDamage..MaxDamage /\ 0 \in 0..NumKits - 1
      /\ 0 \in 0..NumKits /\ 0 \in 0..MaxClock /\ 0 <= MaxSaved
  BY Bounds
<1>. QED
  BY <1>1, <1>2 DEF Init, TypeOK, NobodyYet

\* Joining, spectating, leaving
LEMMA ComingTypes ==
    ASSUME TypeOK, NEW p \in Players,
           \/ \E t \in Teams : Join(p, t)
           \/ Spectate(p)
           \/ Disconnect(p)
    PROVE  TypeOK'
<1>1. frags[p] \in 0..MaxFrags /\ damage[p] \in -MaxDamage..MaxDamage
  BY DEF TypeOK
<1>2. ASSUME NEW t \in Teams, Join(p, t)
      PROVE  TypeOK'
  <2>1. PICK d \in Suicided(p, t) : -MaxDamage <= d /\ Restore(p, frags[p], d)
    BY <1>2 DEF Join
  <2>2. d \in -MaxDamage..MaxDamage
    BY <1>1, <2>1, Bounds DEF Suicided
  <2>3. ScoreTypes'
    BY <1>1, <2>1, <2>2, RestoreTypes
  <2>. QED
    BY <1>2, <2>3 DEF Join, TypeOK, ScoreTypes, historyVars
<1>3. ASSUME Spectate(p)
      PROVE  TypeOK'
  <2>1. \E f \in 0..MaxFrags, d \in -MaxDamage..MaxDamage : Restore(p, f, d)
    <3>1. CASE Restore(p, frags[p], damage[p])
      BY <1>1, <3>1
    <3>2. CASE /\ frags[p] < MaxFrags /\ -MaxDamage < damage[p]
               /\ Restore(p, frags[p] + 1, damage[p] - 1)
      <4>1. frags[p] + 1 \in 0..MaxFrags /\ damage[p] - 1 \in -MaxDamage..MaxDamage
        BY <1>1, <3>2, Bounds
      <4>. QED
        BY <3>2, <4>1
    <3>. QED
      BY <1>3, <3>1, <3>2 DEF Spectate
  <2>2. ScoreTypes'
    BY <2>1, RestoreTypes
  <2>. QED
    BY <1>3, <2>2 DEF Spectate, TypeOK, ScoreTypes, historyVars
<1>4. ASSUME Disconnect(p)
      PROVE  TypeOK'
  <2>1. saved' \in Seq(Entry) /\ Len(saved') <= MaxSaved
    <3>1. CASE saved' = saved
      BY <3>1 DEF TypeOK
    <3>2. CASE Len(saved) < MaxSaved /\ saved' = Append(saved, EntryOf(p))
      <4>1. saved' \in Seq(Entry) /\ Len(saved') = Len(saved) + 1
        BY <3>2, EntryType, SavedType, AppendProperties
      <4>2. Len(saved) \in Nat
        BY SavedType
      <4>. QED
        BY <3>2, <4>1, <4>2, Bounds
    <3>. QED
      BY <1>4, <3>1, <3>2 DEF Disconnect, Save
  <2>2. 0 \in 0..MaxFrags /\ 0 \in -MaxDamage..MaxDamage /\ 0 \in 0..NumKits - 1 /\ 0 \in 0..NumKits
    BY Bounds
  <2>3. /\ frags' \in [Players -> 0..MaxFrags] /\ damage' \in [Players -> -MaxDamage..MaxDamage]
        /\ kit' \in [Players -> 0..NumKits - 1] /\ ranks' \in [Players -> 0..NumKits]
        /\ team' \in [Players -> Teams \cup {Spectators, Nobody}]
    BY <1>4, <2>2 DEF Disconnect, TypeOK
  <2>4. /\ here' \subseteq Players /\ muted' \subseteq Players
        /\ lapsed' \subseteq Players /\ sentence' \subseteq Players /\ astray' \subseteq Players
    <3>1. lapsed \subseteq Players /\ sentence \subseteq Players /\ astray \subseteq Players
      BY DEF TypeOK
    <3>2. lapsed' \in {lapsed, lapsed \cup {p}} /\ sentence' \in {sentence, sentence \ {p}}
          /\ astray' \in {astray, astray \cup {p}}
      BY <1>4 DEF Disconnect
    <3>3. here' = here \ {p} /\ muted' = muted \ {p} /\ here \subseteq Players /\ muted \subseteq Players
      BY <1>4 DEF Disconnect, TypeOK
    <3>. QED
      BY <3>1, <3>2, <3>3
  <2>5. UNCHANGED <<rules, clock, over, winner, credit, champion>>
    BY <1>4 DEF Disconnect
  <2>6. {lapsed', sentence', astray'} \subseteq SUBSET Players
    BY <2>4
  <2>. QED
    BY <2>1, <2>3, <2>4, <2>5, <2>6 DEF TypeOK
<1>. QED
  BY <1>2, <1>3, <1>4

\* Points, damage and ranks
LEMMA EarningTypes ==
    ASSUME TypeOK, NEW p \in Players,
           \/ CaptureFlag(p)
           \/ \E v \in Players : Kill(p, v)
           \/ \E d \in {-1, 1} : Hit(p, d)
    PROVE  TypeOK'
<1>1. frags[p] \in 0..MaxFrags /\ credit[p] \in Nat
  BY DEF TypeOK
<1>2. CASE CaptureFlag(p) \/ \E v \in Players : Kill(p, v)
  <2>1. /\ frags[p] < MaxFrags
        /\ frags' = [frags EXCEPT ![p] = @ + 1]
        /\ credit' = [credit EXCEPT ![p] = @ + 1]
        /\ UNCHANGED <<rules, here, team, damage, kit, storeVars, clock, over, winner,
                       lapsed, sentence, astray, ranks, champion>>
    BY <1>2 DEF CaptureFlag, Kill, Earn
  <2>2. frags[p] + 1 \in 0..MaxFrags /\ credit[p] + 1 \in Nat
    BY <1>1, <2>1, Bounds
  <2>. QED
    BY <2>1, <2>2 DEF TypeOK, storeVars
<1>3. CASE \E d \in {-1, 1} : Hit(p, d)
  BY <1>3 DEF Hit, TypeOK, storeVars, historyVars
<1>. QED
  BY <1>2, <1>3

LEMMA RankUpTypes ==
    ASSUME TypeOK, NEW a \in Players, NEW v \in Players, NEW bottle \in BOOLEAN,
           RankUp(a, v, bottle)
    PROVE  TypeOK'
<1>1. kit[a] \in 0..NumKits - 1 /\ kit[v] \in 0..NumKits - 1 /\ ranks[a] \in 0..NumKits
  BY DEF TypeOK
<1>2. OneLess(kit[v]) \in 0..NumKits - 1
  BY <1>1, Ranks
<1>3. OneLess(kit[v]) + 1 \in 0..MaxFrags /\ NumKits - 1 \in 0..NumKits - 1
  BY <1>1, <1>2, Bounds
<1>4. ranks' \in [Players -> 0..NumKits]
  <2>1. (IF ranks[a] < NumKits THEN ranks[a] + 1 ELSE ranks[a]) \in 0..NumKits
    BY <1>1, Bounds
  <2>2. ranks' = [ranks EXCEPT ![a] = IF ranks[a] < NumKits THEN ranks[a] + 1 ELSE ranks[a]]
    BY DEF RankUp
  <2>. QED
    BY <2>1, <2>2 DEF TypeOK
<1>5. kit' \in [Players -> 0..NumKits - 1] /\ frags' \in [Players -> 0..MaxFrags]
      /\ over' \in BOOLEAN /\ champion' \in Players \cup {0}
  <2>1. CASE kit[a] + 1 >= NumKits
    <3>1. kit' = [kit EXCEPT ![a] = NumKits - 1] /\ frags' = [frags EXCEPT ![a] = kit[a] + 1 + 1]
          /\ over' = TRUE /\ champion' = a
      BY <2>1 DEF RankUp
    <3>2. kit[a] + 1 + 1 \in 0..MaxFrags
      BY <1>1, Bounds
    <3>. QED
      BY <1>3, <3>1, <3>2 DEF TypeOK
  <2>2. CASE ~(kit[a] + 1 >= NumKits)
    <3>1. /\ kit' = [kit EXCEPT ![a] = kit[a] + 1, ![v] = IF bottle THEN OneLess(@) ELSE @]
          /\ frags' = [frags EXCEPT ![a] = kit[a] + 1 + 2,
                                    ![v] = IF bottle THEN OneLess(kit[v]) + 1 ELSE @]
          /\ over' = over /\ champion' = champion /\ a # v
      BY <2>2 DEF RankUp
    <3>2. kit[a] + 1 + 2 \in 0..MaxFrags /\ kit[a] + 1 \in 0..NumKits - 1
      BY <1>1, <2>2, Bounds
    <3>3. kit' \in [Players -> 0..NumKits - 1]
      BY <1>2, <3>1, <3>2 DEF TypeOK
    <3>4. frags' \in [Players -> 0..MaxFrags]
      BY <1>3, <3>1, <3>2 DEF TypeOK
    <3>. QED
      BY <3>1, <3>3, <3>4 DEF TypeOK
  <2>. QED
    BY <2>1, <2>2
<1>. QED
  BY <1>4, <1>5 DEF RankUp, TypeOK, storeVars

\* The match and the clock
LEMMA MatchTypes ==
    ASSUME TypeOK, \/ Tick \/ Expire \/ RestartGame \/ EndMatch \/ Announce \/ ChangeLevel
    PROVE  TypeOK'
<1>1. /\ 0 \in 0..MaxFrags /\ 1 \in 0..MaxFrags /\ 0 \in -MaxDamage..MaxDamage
      /\ 0 \in 0..NumKits - 1 /\ 0 \in 0..NumKits /\ 0 \in 0..MaxClock /\ MaxFrags \in Nat
  BY Bounds
<1>2. Len(saved) \in Nat /\ Len(saved) <= MaxSaved /\ MaxSaved \in Nat
  BY SavedType, Bounds DEF TypeOK
<1>3. CASE Tick
  <2>1. clock' \in 0..MaxClock
    BY <1>3, Bounds DEF Tick, TypeOK
  <2>. QED
    BY <1>3, <2>1 DEF Tick, TypeOK, scoreVars, storeVars, historyVars
<1>4. CASE EndMatch
  BY <1>4 DEF EndMatch, TypeOK, scoreVars, storeVars, historyVars
<1>5. CASE Expire
  <2>1. saved' \in Seq(Entry) /\ Len(saved') <= Len(saved)
    BY <1>5, ExpireMeans
  <2>2. Len(saved') <= MaxSaved
    <3>1. Len(saved') \in Nat
      BY <2>1, LenProperties
    <3>. QED
      BY <1>2, <2>1, <3>1
  <2>3. lapsed' \subseteq Players /\ sentence' \subseteq Players
    <3>1. {saved[i].id : i \in Expired} \subseteq Players
      BY SavedType DEF Expired, Entry
    <3>. QED
      BY <1>5, <3>1 DEF Expire, TypeOK
  <2>4. UNCHANGED <<rules, here, team, frags, damage, kit, muted, clock, over, winner,
                   credit, astray, ranks, champion>>
    BY <1>5 DEF Expire, scoreVars
  <2>5. {lapsed', sentence', astray'} \subseteq SUBSET Players
    BY <2>3, <2>4 DEF TypeOK
  <2>. QED
    BY <2>1, <2>2, <2>4, <2>5 DEF TypeOK
<1>6. ASSUME Flush
      PROVE  saved' \in Seq(Entry) /\ Len(saved') <= MaxSaved
  <2>1. saved' \in Seq(Entry) /\ Len(saved') <= Len(saved)
    BY <1>6, FlushMeans
  <2>2. Len(saved') \in Nat
    BY <2>1, LenProperties
  <2>. QED
    BY <1>2, <2>1, <2>2
<1>7. CASE RestartGame
  <2>1. saved' \in Seq(Entry) /\ Len(saved') <= MaxSaved
    BY <1>6, <1>7 DEF RestartGame
  <2>2. /\ damage' \in [Players -> -MaxDamage..MaxDamage]
        /\ frags' \in [Players -> 0..MaxFrags]
        /\ kit' \in [Players -> 0..NumKits - 1]
    BY <1>1, <1>7 DEF RestartGame, TypeOK
  <2>3. credit' \in [Players -> Nat]
    <3>1. \A p \in Players : frags'[p] \in Nat
      BY <1>1, <2>2
    <3>2. credit' = [p \in Players |-> IF p \in here THEN frags'[p] ELSE 0]
      BY <1>7 DEF RestartGame
    <3>. QED
      BY <3>1, <3>2
  <2>4. ranks' \in [Players -> 0..NumKits] /\ lapsed' = {}
    BY <1>1, <1>7 DEF RestartGame, NobodyYet
  <2>5. UNCHANGED <<rules, here, team, muted, clock, over, winner, sentence, astray, champion>>
    BY <1>7 DEF RestartGame
  <2>6. {lapsed', sentence', astray'} \subseteq SUBSET Players
    BY <2>4, <2>5 DEF TypeOK
  <2>. QED
    BY <2>1, <2>2, <2>3, <2>4, <2>5, <2>6 DEF TypeOK
<1>8. CASE Announce
  <2>1. First \in here
    <3>1. here \in SUBSET Nat /\ here # {}
      BY <1>8, Bounds DEF Announce, TypeOK
    <3>2. \E p \in here : \A q \in here : p <= q
      BY <3>1, LeastElement
    <3>. QED
      BY <3>2 DEF First
  <2>. QED
    BY <1>8, <2>1 DEF Announce, TypeOK, scoreVars, storeVars, historyVars
<1>9. CASE ChangeLevel
  <2>1. saved' \in Seq(Entry) /\ Len(saved') <= MaxSaved
    BY <1>6, <1>9 DEF ChangeLevel
  <2>2. /\ team' \in [Players -> Teams \cup {Spectators, Nobody}]
        /\ frags' \in [Players -> 0..MaxFrags]
        /\ damage' \in [Players -> -MaxDamage..MaxDamage]
        /\ kit' \in [Players -> 0..NumKits - 1]
        /\ credit' \in [Players -> Nat]
        /\ ranks' \in [Players -> 0..NumKits]
    BY <1>1, <1>9 DEF ChangeLevel, NobodyYet
  <2>3. here' = {} /\ muted' = {} /\ clock' = 0 /\ over' = FALSE /\ winner' = 0 /\ champion' = 0
        /\ rules' = rules
    BY <1>9 DEF ChangeLevel
  <2>4. {lapsed', sentence', astray'} \subseteq SUBSET Players
    BY <1>9 DEF ChangeLevel, TypeOK
  <2>. QED
    BY <1>1, <2>1, <2>2, <2>3, <2>4 DEF TypeOK
<1>. QED
  BY <1>3, <1>4, <1>5, <1>7, <1>8, <1>9

LEMMA NextTypes == TypeOK /\ [Next]_vars => TypeOK'
<1> SUFFICES ASSUME TypeOK, [Next]_vars PROVE TypeOK'
  OBVIOUS
<1>1. CASE UNCHANGED vars
  BY <1>1 DEF TypeOK, vars, scoreVars, storeVars, historyVars
<1>2. ASSUME NEW p \in Players, Connect(p) \/ \E on \in BOOLEAN : Punish(p, on)
      PROVE  TypeOK'
  <2>1. CASE Connect(p)
    BY <2>1 DEF Connect, TypeOK, scoreVars, storeVars, historyVars
  <2>2. CASE \E on \in BOOLEAN : Punish(p, on)
    <3>1. muted' \subseteq Players /\ sentence' \subseteq Players /\ astray' \subseteq Players
      BY <2>2 DEF Punish, TypeOK
    <3>2. UNCHANGED <<rules, here, team, scoreVars, saved, clock, over, winner,
                      credit, lapsed, ranks, champion>>
      BY <2>2 DEF Punish
    <3>3. {lapsed', sentence', astray'} \subseteq SUBSET Players
      BY <3>1, <3>2 DEF TypeOK
    <3>. QED
      BY <3>1, <3>2, <3>3 DEF TypeOK, scoreVars
  <2>. QED
    BY <1>2, <2>1, <2>2
<1>. QED
  BY <1>1, <1>2, ComingTypes, EarningTypes, RankUpTypes, MatchTypes DEF Next

\* Every variable has its type, for any players, kits, bounds and rules.
THEOREM TypeCorrect == Spec => []TypeOK
BY InitTypes, NextTypes, PTL DEF Spec
-------------------------------------------------------------------------------
(***************************************************************************)
(* What a step does to the entries and the mutes: nothing, one entry is    *)
(* given back, one is added, the first ones go, or all but the mutes go.   *)
(***************************************************************************)
GivesBack(p, i, g) ==
    /\ p \in rules.known /\ i \in EntriesOf(p)
    /\ muted' = IF saved[i].muted THEN muted \cup {p} ELSE muted \ {p}
    /\ Picks(g, saved', saved, DOMAIN saved \ {i})

LEMMA RestoreEither ==
    ASSUME TypeOK, NEW p \in Players, NEW f, NEW d, Restore(p, f, d)
    PROVE  \/ /\ frags' = [frags EXCEPT ![p] = f] /\ damage' = [damage EXCEPT ![p] = d]
              /\ UNCHANGED <<muted, saved>>
              /\ d # 0 \/ p \notin rules.known \/ EntriesOf(p) = {}
           \/ \E i, g :
                 /\ GivesBack(p, i, g)
                 /\ frags' = [frags EXCEPT ![p] = f + saved[i].score]
                 /\ damage' = [damage EXCEPT ![p] = saved[i].damage]
<1>1. CASE d # 0 \/ p \notin rules.known \/ EntriesOf(p) = {}
  BY <1>1 DEF Restore, storeVars
<1>2. CASE d = 0 /\ p \in rules.known /\ EntriesOf(p) # {}
  <2>1. PICK i \in EntriesOf(p) :
           /\ frags' = [frags EXCEPT ![p] = f + saved[i].score]
           /\ damage' = [damage EXCEPT ![p] = saved[i].damage]
           /\ muted' = IF saved[i].muted THEN muted \cup {p} ELSE muted \ {p}
           /\ \E g : Picks(g, saved', saved, DOMAIN saved \ {i})
    BY <1>2, RestoreMeans
  <2>. QED
    BY <1>2, <2>1 DEF GivesBack
<1>. QED
  BY <1>1, <1>2

\* Joining a team or a class, or the spectators
LEMMA ComingMeans ==
    ASSUME TypeOK, NEW p \in Players, NEW t \in Teams \cup {Spectators},
           (t \in Teams /\ Join(p, t)) \/ (t = Spectators /\ Spectate(p))
    PROVE  /\ UNCHANGED <<rules, here, clock, historyVars>>
           /\ p \in here /\ team' = [team EXCEPT ![p] = t]
           /\ \E f : frags' = [frags EXCEPT ![p] = f]
           /\ \E d : damage' = [damage EXCEPT ![p] = d]
           /\ \/ /\ UNCHANGED <<muted, saved>>
                 /\ damage[p] # 0 \/ team[p] # Nobody \/ p \notin rules.known \/ EntriesOf(p) = {}
              \/ \E i, g : GivesBack(p, i, g)
<1>1. /\ UNCHANGED <<rules, here, clock, historyVars>>
      /\ p \in here /\ team' = [team EXCEPT ![p] = t]
  BY DEF Join, Spectate
<1>2. \E f, d : Restore(p, f, d) /\ (d = damage[p] \/ team[p] # Nobody)
  <2>1. CASE t \in Teams /\ Join(p, t)
    <3>1. PICK d \in Suicided(p, t) : Restore(p, frags[p], d)
      BY <2>1 DEF Join
    <3>2. d = damage[p] \/ team[p] # Nobody
      BY DEF Suicided, Teams, Nobody, Americans, British
    <3>. QED
      BY <3>1, <3>2
  <2>2. CASE Spectate(p)
    <3>1. Playing(p) => team[p] # Nobody
      BY DEF Playing, Teams, Nobody, Americans, British
    <3>. QED
      BY <2>2, <3>1 DEF Spectate
  <2>. QED
    BY <2>1, <2>2
<1>3. PICK f, d : Restore(p, f, d) /\ (d = damage[p] \/ team[p] # Nobody)
  BY <1>2
<1>. QED
  BY <1>1, <1>3, RestoreEither

(***************************************************************************)
(* Who is not here has no points, no damage and no mute, who has not       *)
(* chosen a team has no damage, and who has no Steam id no entry.          *)
(***************************************************************************)
Absent ==
    \A p \in Players :
        /\ p \notin here => team[p] = Nobody /\ frags[p] = 0 /\ p \notin muted
        /\ team[p] = Nobody => damage[p] = 0
        /\ p \notin rules.known => EntriesOf(p) = {}

\* No entry for who had none
NoNewEntry(p) == EntriesOf(p) = {} => EntriesOf(p)' = {}

LEMMA PickedEntries ==
    ASSUME NEW p, NEW g, NEW K, Picks(g, saved', saved, K)
    PROVE  /\ \A i \in DOMAIN saved' :
                 /\ saved'[i] = saved[g[i]] /\ g[i] \in K
                 /\ i \in EntriesOf(p)' <=> g[i] \in EntriesOf(p)
           /\ NoNewEntry(p)
BY DEF Picks, EntriesOf, NoNewEntry

LEMMA FlushedEntries ==
    ASSUME TypeOK, Flush, NEW p
    PROVE  NoNewEntry(p)
<1>1. PICK f \in [DOMAIN saved' -> Mutes] :
         \A i \in DOMAIN saved' : saved'[i] = WithoutScore(saved[f[i]])
  BY FlushMeans
<1>2. \A i \in DOMAIN saved' : saved'[i].id = saved[f[i]].id /\ f[i] \in DOMAIN saved
  <2>1. ASSUME NEW i \in DOMAIN saved'
        PROVE  saved'[i].id = saved[f[i]].id /\ f[i] \in DOMAIN saved
    <3>1. f[i] \in DOMAIN saved
      BY <1>1 DEF Mutes
    <3>2. saved[f[i]] \in Entry
      BY <3>1, SavedType
    <3>3. WithoutScore(saved[f[i]]).id = saved[f[i]].id
      BY <3>2 DEF WithoutScore, Entry
    <3>. QED
      BY <1>1, <3>1, <3>3
  <2>. QED
    BY <2>1
<1>. QED
  BY <1>2 DEF NoNewEntry, EntriesOf

LEMMA AppendedEntries ==
    ASSUME TypeOK, NEW p \in Players, saved' = Save(p), NEW q
    PROVE  /\ Len(saved') = Len(saved) + 1 /\ Len(saved) \in Nat
           /\ DOMAIN saved' = 1..Len(saved) + 1 /\ DOMAIN saved = 1..Len(saved)
           /\ saved'[Len(saved) + 1] = EntryOf(p)
           /\ \A i \in DOMAIN saved : saved'[i] = saved[i]
           /\ EntriesOf(q)' = IF q = p THEN EntriesOf(q) \cup {Len(saved) + 1} ELSE EntriesOf(q)
<1>1. saved \in Seq(Entry) /\ EntryOf(p) \in Entry /\ Len(saved) \in Nat /\ DOMAIN saved = 1..Len(saved)
  BY SavedType, EntryType
<1>2. /\ Len(saved') = Len(saved) + 1 /\ saved' \in Seq(Entry)
      /\ \A i \in 1..Len(saved) : saved'[i] = saved[i]
      /\ saved'[Len(saved) + 1] = EntryOf(p)
  BY <1>1, AppendProperties DEF Save
<1>3. DOMAIN saved' = 1..Len(saved) + 1
  BY <1>2, LenProperties
<1>4. EntryOf(p).id = p
  BY DEF EntryOf
<1>5. EntriesOf(q)' = IF q = p THEN EntriesOf(q) \cup {Len(saved) + 1} ELSE EntriesOf(q)
  <2>1. EntriesOf(q)' = {i \in DOMAIN saved' : saved'[i].id = q}
    BY DEF EntriesOf
  <2>2. DOMAIN saved' = DOMAIN saved \cup {Len(saved) + 1}
    BY <1>1, <1>3
  <2>. QED
    BY <1>1, <1>2, <1>4, <2>1, <2>2 DEF EntriesOf
<1>. QED
  BY <1>1, <1>2, <1>3, <1>5

\* The steps that touch no entry and no mute
Aside ==
    \/ \E p \in Players :
          \/ Connect(p) \/ CaptureFlag(p)
          \/ \E d \in {-1, 1} : Hit(p, d)
          \/ \E v \in Players : Kill(p, v) \/ \E bottle \in BOOLEAN : RankUp(p, v, bottle)
    \/ Tick \/ EndMatch \/ Announce
    \/ UNCHANGED vars

LEMMA AsideMeans ==
    ASSUME Aside
    PROVE  /\ UNCHANGED <<rules, team, muted, saved, sentence, astray, lapsed>>
           /\ here \subseteq here'
           /\ clock' = clock \/ clock' = clock + 1
BY DEF Aside, Connect, CaptureFlag, Hit, Kill, RankUp, Tick, EndMatch, Announce, vars,
       scoreVars, storeVars, historyVars

LEMMA StepKinds ==
    ASSUME [Next]_vars
    PROVE  \/ Aside
           \/ \E p \in Players : \/ Spectate(p) \/ Disconnect(p)
                                 \/ \E t \in Teams : Join(p, t)
                                 \/ \E on \in BOOLEAN : Punish(p, on)
           \/ Expire \/ RestartGame \/ ChangeLevel
BY DEF Next, Aside

LEMMA AbsentStep ==
    ASSUME TypeOK, Absent, [Next]_vars
    PROVE  Absent'
<1>1. Nobody \notin Teams \cup {Spectators}
  BY DEF Teams, Nobody, Spectators, Americans, British
<1>2. ASSUME Aside, NEW p \in Players
      PROVE  /\ p \notin here' => team'[p] = Nobody /\ frags'[p] = 0 /\ p \notin muted'
             /\ team'[p] = Nobody => damage'[p] = 0
             /\ p \notin rules'.known => EntriesOf(p)' = {}
  <2>1. UNCHANGED <<rules, team, muted, saved>> /\ here \subseteq here'
    BY <1>2, AsideMeans
  <2>2. p \notin here' => frags'[p] = frags[p]
    BY <1>2 DEF Aside, Connect, CaptureFlag, Hit, Kill, RankUp, Earn, Playing, Tick, EndMatch,
       Announce, vars, scoreVars, TypeOK
  <2>3. team[p] = Nobody => damage'[p] = damage[p]
    BY <1>1, <1>2 DEF Aside, Connect, CaptureFlag, Hit, Kill, RankUp, Playing, Tick, EndMatch,
       Announce, vars, scoreVars, TypeOK
  <2>. QED
    BY <2>1, <2>2, <2>3 DEF Absent, EntriesOf
<1>3. ASSUME NEW q \in Players, NEW t \in Teams \cup {Spectators},
             (t \in Teams /\ Join(q, t)) \/ (t = Spectators /\ Spectate(q))
      PROVE  Absent'
  <2>1. /\ UNCHANGED <<rules, here>> /\ q \in here /\ team' = [team EXCEPT ![q] = t]
        /\ \E f : frags' = [frags EXCEPT ![q] = f]
        /\ \E d : damage' = [damage EXCEPT ![q] = d]
        /\ UNCHANGED <<muted, saved>> \/ \E i, g : GivesBack(q, i, g)
    BY <1>3, ComingMeans
  <2>2. \A p \in Players : NoNewEntry(p) /\ (p \in muted' => p \in muted \/ p = q)
    <3>1. CASE UNCHANGED <<muted, saved>>
      BY <3>1 DEF NoNewEntry, EntriesOf
    <3>2. CASE \E i, g : GivesBack(q, i, g)
      <4>1. PICK i, g : GivesBack(q, i, g)
        BY <3>2
      <4>2. \A p \in Players : NoNewEntry(p)
        BY <4>1, PickedEntries DEF GivesBack
      <4>. QED
        BY <4>1, <4>2 DEF GivesBack
    <3>. QED
      BY <2>1, <3>1, <3>2
  <2>3. ASSUME NEW p \in Players
        PROVE  /\ p \notin here' => team'[p] = Nobody /\ frags'[p] = 0 /\ p \notin muted'
               /\ team'[p] = Nobody => damage'[p] = 0
               /\ p \notin rules'.known => EntriesOf(p)' = {}
    <3>1. team' \in [Players -> Teams \cup {Spectators, Nobody}] /\ team'[q] = t
          /\ (p # q => team'[p] = team[p] /\ frags'[p] = frags[p] /\ damage'[p] = damage[p])
      BY <2>1 DEF TypeOK
    <3>2. p # q => /\ p \notin here' => team'[p] = Nobody /\ frags'[p] = 0 /\ p \notin muted'
                   /\ team'[p] = Nobody => damage'[p] = 0
      BY <2>1, <2>2, <3>1 DEF Absent
    <3>3. p \notin rules'.known => EntriesOf(p)' = {}
      BY <2>1, <2>2 DEF Absent, NoNewEntry
    <3>. QED
      BY <1>1, <2>1, <3>1, <3>2, <3>3
  <2>. QED
    BY <2>3 DEF Absent
<1>4. ASSUME NEW q \in Players, Disconnect(q)
      PROVE  Absent'
  <2>1. /\ rules' = rules /\ here' = here \ {q} /\ muted' = muted \ {q}
        /\ team' = [team EXCEPT ![q] = Nobody]
        /\ frags' = [frags EXCEPT ![q] = 0] /\ damage' = [damage EXCEPT ![q] = 0]
        /\ saved' = saved \/ (q \in rules.known /\ saved' = Save(q))
    BY <1>4 DEF Disconnect
  <2>2. \A p \in Players : p \notin rules.known => NoNewEntry(p)
    BY <2>1, AppendedEntries DEF NoNewEntry, EntriesOf
  <2>. QED
    BY <2>1, <2>2 DEF Absent, NoNewEntry, TypeOK
<1>5. ASSUME NEW q \in Players, NEW on \in BOOLEAN, Punish(q, on)
      PROVE  Absent'
  BY <1>5 DEF Punish, Absent, scoreVars, EntriesOf
<1>6. CASE Expire
  <2>1. \A p \in Players : NoNewEntry(p)
    BY <1>6, ExpireMeans, PickedEntries
  <2>. QED
    BY <1>6, <2>1 DEF Expire, Absent, scoreVars, NoNewEntry
<1>7. CASE RestartGame
  <2>1. \A p \in Players : NoNewEntry(p)
    BY <1>7, FlushedEntries DEF RestartGame
  <2>2. \A p \in Players : p \notin here => frags'[p] = frags[p]
    BY <1>7 DEF RestartGame, InGunGame, Playing
  <2>3. \A p \in Players : team[p] = Nobody => damage'[p] = damage[p]
    BY <1>1, <1>7 DEF RestartGame, Playing
  <2>. QED
    BY <1>7, <2>1, <2>2, <2>3 DEF RestartGame, Absent, NoNewEntry
<1>8. CASE ChangeLevel
  <2>1. \A p \in Players : NoNewEntry(p)
    BY <1>8, FlushedEntries DEF ChangeLevel
  <2>. QED
    BY <1>8, <2>1 DEF ChangeLevel, Absent, NoNewEntry, NobodyYet
<1>9. CASE Aside
  BY <1>2, <1>9 DEF Absent
<1>10. ASSUME NEW q \in Players, Spectate(q) \/ \E t \in Teams : Join(q, t)
       PROVE  Absent'
  <2>1. CASE Spectate(q)
    BY <1>3, <2>1
  <2>2. CASE \E t \in Teams : Join(q, t)
    BY <1>3, <2>2
  <2>. QED
    BY <1>10, <2>1, <2>2
<1>. QED
  BY <1>4, <1>5, <1>6, <1>7, <1>8, <1>9, <1>10, StepKinds

LEMMA InitAbsent ==
    ASSUME Init PROVE Absent
BY DEF Init, Absent, NobodyYet, EntriesOf
-------------------------------------------------------------------------------
(***************************************************************************)
(* The entries are forgotten on time.  As long as nobody is muted none of  *)
(* them outlives a map, and they lie in the order in which their times     *)
(* come, none of them later than one that is made now.                     *)
(***************************************************************************)
InTime ==
    "mutes" \notin rules.admin =>
        /\ muted = {} /\ Mutes = {}
        /\ \A i \in DOMAIN saved : saved[i].until <= clock + PreserveTime
        /\ \A i, j \in DOMAIN saved : i < j => saved[i].until <= saved[j].until

LEMMA InTimePicked ==
    ASSUME InTime, NEW g, NEW K, Picks(g, saved', saved, K),
           UNCHANGED <<rules, clock>>, muted' \subseteq muted
    PROVE  InTime'
<1> SUFFICES ASSUME "mutes" \notin rules.admin PROVE InTime'
  BY DEF InTime
<1>1. muted' = {}
  BY DEF InTime
<1>2. \A i \in DOMAIN saved' : g[i] \in DOMAIN saved /\ saved'[i] = saved[g[i]]
  BY DEF Picks
<1>3. \A i, j \in DOMAIN saved' : i < j => g[i] < g[j]
  BY DEF Picks
<1>4. Mutes' = {}
  BY <1>2 DEF InTime, Mutes, IsMute
<1>. QED
  BY <1>1, <1>2, <1>3, <1>4 DEF InTime

LEMMA UntilType ==
    ASSUME TypeOK
    PROVE  clock \in Int /\ \A i \in DOMAIN saved : i \in Nat /\ saved[i].until \in Int
<1>1. clock \in Int
  BY Bounds DEF TypeOK
<1>2. \A i \in DOMAIN saved : i \in Nat /\ saved[i] \in Entry
  BY SavedType
<1>3. ASSUME NEW e \in Entry
      PROVE  e.until \in Int
  BY Bounds DEF Entry
<1>. QED
  BY <1>1, <1>2, <1>3

LEMMA InTimeStep ==
    ASSUME TypeOK, InTime, [Next]_vars
    PROVE  InTime'
<1> SUFFICES ASSUME "mutes" \notin rules.admin PROVE InTime'
  <2>1. rules' = rules
    BY DEF Next, Connect, Spectate, Disconnect, CaptureFlag, Join, Punish, Hit, Kill, RankUp, Tick,
       Expire, RestartGame, EndMatch, Announce, ChangeLevel, vars
  <2>. QED
    BY <2>1 DEF InTime
<1>1. ASSUME NEW q \in Players, NEW t \in Teams \cup {Spectators},
             (t \in Teams /\ Join(q, t)) \/ (t = Spectators /\ Spectate(q))
      PROVE  InTime'
  <2>1. /\ UNCHANGED <<rules, clock>>
        /\ UNCHANGED <<muted, saved>> \/ \E i, g : GivesBack(q, i, g)
    BY <1>1, ComingMeans
  <2>2. CASE UNCHANGED <<muted, saved>>
    BY <2>1, <2>2 DEF InTime, Mutes
  <2>3. CASE \E i, g : GivesBack(q, i, g)
    <3>1. PICK i, g : GivesBack(q, i, g)
      BY <2>3
    <3>2. ~saved[i].muted
      BY <3>1 DEF InTime, Mutes, IsMute, GivesBack, EntriesOf
    <3>3. muted' \subseteq muted
      BY <3>1, <3>2 DEF GivesBack
    <3>. QED
      BY <2>1, <3>1, <3>3, InTimePicked DEF GivesBack
  <2>. QED
    BY <2>1, <2>2, <2>3
<1>2. ASSUME NEW q \in Players, Disconnect(q)
      PROVE  InTime'
  <2>1. UNCHANGED <<rules, clock>> /\ muted' = muted \ {q}
    BY <1>2 DEF Disconnect
  <2>2. CASE saved' = saved
    BY <2>1, <2>2 DEF InTime, Mutes
  <2>3. CASE saved' = Save(q)
    <3>1. /\ Len(saved') = Len(saved) + 1 /\ Len(saved) \in Nat
          /\ DOMAIN saved' = 1..Len(saved) + 1 /\ DOMAIN saved = 1..Len(saved)
          /\ saved'[Len(saved) + 1] = EntryOf(q)
          /\ \A i \in DOMAIN saved : saved'[i] = saved[i]
      BY <2>3, AppendedEntries
    <3>2. EntryOf(q).until = clock + PreserveTime /\ ~EntryOf(q).muted
      BY DEF EntryOf, InTime
    <3>3. clock + PreserveTime \in Int
      BY Bounds DEF TypeOK
    <3>4. Mutes' = {}
      BY <3>1, <3>2 DEF InTime, Mutes, IsMute
    <3>5. \A i \in DOMAIN saved' : saved'[i].until <= clock + PreserveTime
      BY <3>1, <3>2, <3>3 DEF InTime
    <3>6. \A i, j \in DOMAIN saved' : i < j => saved'[i].until <= saved'[j].until
      <4>1. ASSUME NEW i \in DOMAIN saved', NEW j \in DOMAIN saved', i < j
            PROVE  saved'[i].until <= saved'[j].until
        <5>1. i \in DOMAIN saved /\ (j \in DOMAIN saved \/ j = Len(saved) + 1)
          BY <3>1, <4>1
        <5>. QED
          BY <3>1, <3>2, <3>5, <4>1, <5>1 DEF InTime
      <4>. QED
        BY <4>1
    <3>. QED
      BY <2>1, <3>4, <3>5, <3>6 DEF InTime
  <2>. QED
    BY <1>2, <2>2, <2>3 DEF Disconnect
<1>3. ASSUME NEW q \in Players, NEW on \in BOOLEAN, Punish(q, on)
      PROVE  InTime'
  BY <1>3 DEF Punish
<1>4. CASE Expire
  BY <1>4, ExpireMeans, InTimePicked DEF Expire
<1>5. ASSUME Flush
      PROVE  DOMAIN saved' = {}
  BY <1>5, FlushMeans DEF InTime
<1>6. CASE RestartGame \/ ChangeLevel
  <2>1. DOMAIN saved' = {} /\ muted' = {}
    BY <1>5, <1>6 DEF RestartGame, ChangeLevel, InTime
  <2>2. Mutes' = {}
    BY <2>1 DEF Mutes
  <2>. QED
    BY <2>1, <2>2 DEF InTime
<1>7. CASE Aside
  <2>1. /\ UNCHANGED <<rules, muted, saved>>
        /\ clock' = clock \/ clock' = clock + 1
    BY <1>7, AsideMeans
  <2>2. Mutes' = Mutes /\ (\A i \in DOMAIN saved : saved[i].until \in Int) /\ clock \in Int
    BY <2>1, UntilType DEF Mutes
  <2>3. ASSUME NEW i \in DOMAIN saved
        PROVE  saved[i].until <= clock' + PreserveTime
    <3>1. saved[i].until <= clock + PreserveTime /\ saved[i].until \in Int /\ clock \in Int
      BY <2>2 DEF InTime
    <3>2. PreserveTime \in Int
      BY Bounds
    <3>. QED
      BY <2>1, <3>1, <3>2
  <2>. QED
    BY <2>1, <2>2, <2>3 DEF InTime
<1>8. ASSUME NEW q \in Players, Spectate(q) \/ \E t \in Teams : Join(q, t)
      PROVE  InTime'
  <2>1. CASE Spectate(q)
    BY <1>1, <2>1
  <2>2. CASE \E t \in Teams : Join(q, t)
    BY <1>1, <2>2
  <2>. QED
    BY <1>8, <2>1, <2>2
<1>. QED
  BY <1>2, <1>3, <1>4, <1>6, <1>7, <1>8, StepKinds

LEMMA InTimeMeans ==
    ASSUME TypeOK, InTime PROVE ForgottenOnTime
<1> SUFFICES ASSUME "mutes" \notin rules.admin, NEW i \in DOMAIN saved, saved[i].until < clock
             PROVE  i \in Expired
  BY DEF ForgottenOnTime
<1>1. ASSUME NEW j \in Current
      PROVE  i < j
  <2>1. /\ j \in DOMAIN saved /\ saved[j].until >= clock
        /\ DOMAIN saved \subseteq Nat
        /\ saved[i].until \in Int /\ saved[j].until \in Int /\ clock \in Int
    BY UntilType DEF Current
  <2>2. j < i => saved[j].until <= saved[i].until
    BY <2>1 DEF InTime
  <2>. QED
    BY <2>1, <2>2
<1>. QED
  BY <1>1 DEF Expired

(***************************************************************************)
(* Think "Removes old players after their set time": however players come, *)
(* go and come back, the entries lie in the order of their times, so that  *)
(* looking at the first one only never keeps an old one, for any length of *)
(* time.  (Mutes outlive a map, and with it the clock.)                    *)
(***************************************************************************)
THEOREM EntriesAreForgotten == Spec => []ForgottenOnTime
<1>1. Init => InTime
  BY DEF Init, InTime, Mutes
<1>. QED
  BY <1>1, InitTypes, NextTypes, InTimeStep, InTimeMeans, PTL DEF Spec
-------------------------------------------------------------------------------
(***************************************************************************)
(* The mutes.  Who has chosen a team has no entry left, and is muted if    *)
(* the admin wants it; of anybody else there is at most one entry, and the *)
(* wish of the admin is in it.                                             *)
(***************************************************************************)
OneEntry(p) == \A i, j \in EntriesOf(p) : i = j
HasMute(p) == \E i \in EntriesOf(p) : IsMute(saved[i])

FaithfulTo(p) ==
    /\ OneEntry(p)
    /\ team[p] = Nobody => p \notin muted /\ (p \in sentence <=> HasMute(p))
    /\ team[p] # Nobody => EntriesOf(p) = {} /\ (p \in muted <=> p \in sentence)

Faithful == \A p \in Players \ astray : FaithfulTo(p)

\* Some entries are picked: what is left of those of a player
LEMMA PickedOne ==
    ASSUME TypeOK, TypeOK', NEW p, OneEntry(p), NEW g, NEW K, Picks(g, saved', saved, K)
    PROVE  /\ OneEntry(p)'
           /\ HasMute(p)' <=> \E k \in EntriesOf(p) \cap K : IsMute(saved[k])
           /\ EntriesOf(p)' = {} <=> EntriesOf(p) \cap K = {}
<1>1. ASSUME NEW i \in DOMAIN saved'
      PROVE  /\ saved'[i] = saved[g[i]] /\ g[i] \in K
             /\ i \in EntriesOf(p)' <=> g[i] \in EntriesOf(p)
  BY PickedEntries
<1>2. DOMAIN saved' \subseteq Nat /\ DOMAIN saved \subseteq Nat
  <2>1. saved' \in Seq(Entry)
    BY DEF TypeOK
  <2>2. DOMAIN saved' = 1..Len(saved')
    BY <2>1, LenProperties
  <2>. QED
    BY <2>2, SavedType
<1>3. EntriesOf(p)' \subseteq DOMAIN saved' /\ EntriesOf(p) \subseteq DOMAIN saved
  BY DEF EntriesOf
<1>4. ASSUME NEW i \in EntriesOf(p)', NEW j \in EntriesOf(p)'
      PROVE  i = j
  <2>1. i \in DOMAIN saved' /\ j \in DOMAIN saved' /\ i \in Nat /\ j \in Nat
    BY <1>2, <1>3
  <2>2. g[i] \in EntriesOf(p) /\ g[j] \in EntriesOf(p)
    BY <1>1, <1>4, <2>1
  <2>3. g[i] = g[j] /\ g[i] \in Nat
    BY <1>2, <1>3, <2>2 DEF OneEntry
  <2>4. (i < j => g[i] < g[j]) /\ (j < i => g[j] < g[i])
    BY <2>1 DEF Picks
  <2>. QED
    BY <2>1, <2>3, <2>4
<1>5. ASSUME NEW k \in EntriesOf(p) \cap K
      PROVE  \E i \in EntriesOf(p)' : saved'[i] = saved[k]
  <2>1. PICK i \in DOMAIN saved' : g[i] = k
    BY DEF Picks
  <2>. QED
    BY <1>1, <2>1
<1>6. ASSUME NEW i \in EntriesOf(p)'
      PROVE  g[i] \in EntriesOf(p) \cap K /\ saved'[i] = saved[g[i]]
  BY <1>1, <1>3
<1>7. HasMute(p)' <=> \E k \in EntriesOf(p) \cap K : IsMute(saved[k])
  <2>1. HasMute(p)' <=> \E i \in EntriesOf(p)' : saved'[i].muted
    BY DEF HasMute, IsMute
  <2>2. (\E i \in EntriesOf(p)' : saved'[i].muted)
           <=> \E k \in EntriesOf(p) \cap K : saved[k].muted
    BY <1>5, <1>6
  <2>. QED
    BY <2>1, <2>2 DEF IsMute
<1>8. EntriesOf(p)' = {} <=> EntriesOf(p) \cap K = {}
  BY <1>5, <1>6
<1>. QED
  BY <1>4, <1>7, <1>8 DEF OneEntry

\* All but the mutes go.
LEMMA FlushedOne ==
    ASSUME TypeOK, Flush, NEW p, OneEntry(p)
    PROVE  OneEntry(p)' /\ (HasMute(p)' <=> HasMute(p))
<1>1. PICK f \in [DOMAIN saved' -> Mutes] :
         /\ \A k \in Mutes : \E i \in DOMAIN saved' : f[i] = k
         /\ \A i, j \in DOMAIN saved' : f[i] = f[j] => i = j
         /\ \A i \in DOMAIN saved' : saved'[i] = WithoutScore(saved[f[i]])
  BY FlushMeans
<1>2. ASSUME NEW i \in DOMAIN saved'
      PROVE  /\ f[i] \in Mutes /\ f[i] \in DOMAIN saved
             /\ saved'[i].id = saved[f[i]].id /\ saved'[i].muted = saved[f[i]].muted
  <2>1. f[i] \in Mutes /\ f[i] \in DOMAIN saved
    BY <1>1 DEF Mutes
  <2>2. saved[f[i]] \in Entry
    BY <2>1, SavedType
  <2>3. /\ WithoutScore(saved[f[i]]).id = saved[f[i]].id
        /\ WithoutScore(saved[f[i]]).muted = saved[f[i]].muted
    BY <2>2 DEF WithoutScore, Entry
  <2>. QED
    BY <1>1, <2>1, <2>3
<1>3. \A i \in DOMAIN saved' : i \in EntriesOf(p)' <=> f[i] \in EntriesOf(p)
  BY <1>2 DEF EntriesOf
<1>4. EntriesOf(p)' \subseteq DOMAIN saved' /\ EntriesOf(p) \subseteq DOMAIN saved
  BY DEF EntriesOf
<1>5. OneEntry(p)'
  <2>1. \A i, j \in EntriesOf(p)' : i = j
    BY <1>1, <1>3, <1>4 DEF OneEntry
  <2>. QED
    BY <2>1 DEF OneEntry
<1>6. HasMute(p)' => HasMute(p)
  <2>1. ASSUME NEW i \in EntriesOf(p)', saved'[i].muted
        PROVE  HasMute(p)
    BY <1>2, <1>3, <1>4, <2>1 DEF HasMute, IsMute
  <2>2. HasMute(p)' <=> \E i \in EntriesOf(p)' : saved'[i].muted
    BY DEF HasMute, IsMute
  <2>. QED
    BY <2>1, <2>2
<1>7. HasMute(p) => HasMute(p)'
  <2>1. ASSUME NEW k \in EntriesOf(p), saved[k].muted
        PROVE  \E i \in EntriesOf(p)' : saved'[i].muted
    <3>1. k \in Mutes
      BY <1>4, <2>1 DEF Mutes, IsMute
    <3>2. PICK i \in DOMAIN saved' : f[i] = k
      BY <1>1, <3>1
    <3>. QED
      BY <1>2, <1>3, <2>1, <3>2
  <2>2. HasMute(p)' <=> \E i \in EntriesOf(p)' : saved'[i].muted
    BY DEF HasMute, IsMute
  <2>. QED
    BY <2>1, <2>2 DEF HasMute, IsMute
<1>. QED
  BY <1>5, <1>6, <1>7

\* A player whom a step does not concern
LEMMA FaithfulKept ==
    ASSUME NEW p, FaithfulTo(p), EntriesOf(p)' = EntriesOf(p),
           \A i \in EntriesOf(p) : saved'[i] = saved[i],
           team'[p] = team[p],
           p \in muted' <=> p \in muted, p \in sentence' <=> p \in sentence
    PROVE  FaithfulTo(p)'
<1>1. HasMute(p)' = \E i \in EntriesOf(p)' : saved'[i].muted
  BY DEF HasMute, IsMute
<1>2. HasMute(p)' <=> HasMute(p)
  BY <1>1 DEF HasMute, IsMute
<1>. QED
  BY <1>2 DEF FaithfulTo, OneEntry

\* A player who chooses a team
LEMMA FaithfulComing ==
    ASSUME TypeOK, TypeOK', Absent, NEW q \in Players, NEW t \in Teams \cup {Spectators},
           (t \in Teams /\ Join(q, t)) \/ (t = Spectators /\ Spectate(q)),
           NEW p \in Players, FaithfulTo(p)
    PROVE  FaithfulTo(p)'
<1>1. /\ UNCHANGED historyVars
      /\ team' = [team EXCEPT ![q] = t]
      /\ \/ /\ UNCHANGED <<muted, saved>>
            /\ damage[q] # 0 \/ team[q] # Nobody \/ q \notin rules.known \/ EntriesOf(q) = {}
         \/ \E i, g : GivesBack(q, i, g)
  BY ComingMeans
<1>2. sentence' = sentence
  BY <1>1 DEF historyVars
<1>3. t # Nobody
  BY DEF Teams, Nobody, Spectators, Americans, British
<1>4. team'[p] = IF p = q THEN t ELSE team[p]
  BY <1>1 DEF TypeOK
<1>5. CASE /\ UNCHANGED <<muted, saved>>
           /\ damage[q] # 0 \/ team[q] # Nobody \/ q \notin rules.known \/ EntriesOf(q) = {}
  <2>1. EntriesOf(p)' = EntriesOf(p) /\ (HasMute(p)' <=> HasMute(p)) /\ OneEntry(p)'
    BY <1>5 DEF EntriesOf, HasMute, IsMute, FaithfulTo, OneEntry
  <2>2. CASE p # q
    BY <1>2, <1>4, <1>5, <2>1, <2>2 DEF FaithfulTo
  <2>3. CASE p = q
    <3>1. EntriesOf(p) = {}
      BY <1>5, <2>3 DEF FaithfulTo, Absent
    <3>2. ~HasMute(p)
      BY <3>1 DEF HasMute
    <3>3. p \in muted <=> p \in sentence
      BY <3>2 DEF FaithfulTo
    <3>. QED
      BY <1>2, <1>3, <1>4, <1>5, <2>1, <2>3, <3>1, <3>3 DEF FaithfulTo
  <2>. QED
    BY <2>2, <2>3
<1>6. CASE \E i, g : GivesBack(q, i, g)
  <2>1. PICK i, g : GivesBack(q, i, g)
    BY <1>6
  <2>2. /\ OneEntry(p)'
        /\ HasMute(p)' <=> \E k \in EntriesOf(p) \cap (DOMAIN saved \ {i}) : IsMute(saved[k])
        /\ EntriesOf(p)' = {} <=> EntriesOf(p) \cap (DOMAIN saved \ {i}) = {}
    <3>1. OneEntry(p)
      BY DEF FaithfulTo
    <3>. QED
      BY <2>1, <3>1, PickedOne DEF GivesBack
  <2>3. EntriesOf(p) \subseteq DOMAIN saved /\ (i \in EntriesOf(p) <=> p = q)
    BY <2>1 DEF EntriesOf, GivesBack
  <2>4. CASE p # q
    <3>1. (HasMute(p)' <=> HasMute(p)) /\ (EntriesOf(p)' = {} <=> EntriesOf(p) = {})
      BY <2>2, <2>3, <2>4 DEF HasMute
    <3>2. p \in muted' <=> p \in muted
      BY <2>1, <2>4 DEF GivesBack
    <3>. QED
      BY <1>2, <1>4, <2>2, <2>4, <3>1, <3>2 DEF FaithfulTo
  <2>5. CASE p = q
    <3>1. EntriesOf(p) = {i}
      BY <2>3, <2>5 DEF FaithfulTo, OneEntry
    <3>2. EntriesOf(p)' = {}
      BY <2>2, <3>1
    <3>3. p \in sentence <=> saved[i].muted
      BY <3>1 DEF FaithfulTo, HasMute, IsMute
    <3>4. p \in muted' <=> saved[i].muted
      BY <2>1, <2>5 DEF GivesBack
    <3>. QED
      BY <1>2, <1>3, <1>4, <2>2, <2>5, <3>2, <3>3, <3>4 DEF FaithfulTo
  <2>. QED
    BY <2>4, <2>5
<1>. QED
  BY <1>1, <1>5, <1>6

\* A player who leaves takes the wish of the admin with him.
LEMMA FaithfulLeaving ==
    ASSUME TypeOK, TypeOK', NEW q \in Players, Disconnect(q),
           NEW p \in Players \ astray', FaithfulTo(p)
    PROVE  FaithfulTo(p)'
<1>1. /\ team' = [team EXCEPT ![q] = Nobody] /\ muted' = muted \ {q}
      /\ p = q => team[q] # Nobody
      /\ \/ saved' = saved /\ sentence' = sentence \ {q}
         \/ saved' = Save(q) /\ sentence' = sentence
  BY DEF Disconnect
<1>2. team'[p] = IF p = q THEN Nobody ELSE team[p]
  BY <1>1 DEF TypeOK
<1>3. CASE saved' = saved /\ sentence' = sentence \ {q}
  <2>1. EntriesOf(p)' = EntriesOf(p) /\ (HasMute(p)' <=> HasMute(p)) /\ OneEntry(p)'
    BY <1>3 DEF EntriesOf, HasMute, IsMute, FaithfulTo, OneEntry
  <2>2. p = q => ~HasMute(p)
    BY <1>1 DEF FaithfulTo, HasMute
  <2>. QED
    BY <1>1, <1>2, <1>3, <2>1, <2>2 DEF FaithfulTo
<1>4. CASE saved' = Save(q) /\ sentence' = sentence
  <2>1. /\ DOMAIN saved = 1..Len(saved) /\ Len(saved) \in Nat
        /\ saved'[Len(saved) + 1] = EntryOf(q)
        /\ \A i \in DOMAIN saved : saved'[i] = saved[i]
        /\ EntriesOf(p)' = IF p = q THEN EntriesOf(p) \cup {Len(saved) + 1} ELSE EntriesOf(p)
    BY <1>4, AppendedEntries
  <2>2. CASE p # q
    <3>1. EntriesOf(p)' = EntriesOf(p) /\ EntriesOf(p) \subseteq DOMAIN saved
      BY <2>1, <2>2 DEF EntriesOf
    <3>2. \A i \in EntriesOf(p) : saved'[i] = saved[i]
      BY <2>1, <3>1
    <3>. QED
      BY <1>1, <1>2, <1>4, <2>2, <3>1, <3>2, FaithfulKept
  <2>3. CASE p = q
    <3>1. EntriesOf(p)' = {Len(saved) + 1} /\ (p \in muted <=> p \in sentence)
      BY <1>1, <2>1, <2>3 DEF FaithfulTo
    <3>2. HasMute(p)' <=> EntryOf(q).muted
      <4>1. HasMute(p)' <=> \E i \in EntriesOf(p)' : saved'[i].muted
        BY DEF HasMute, IsMute
      <4>. QED
        BY <2>1, <3>1, <4>1
    <3>3. EntryOf(q).muted <=> q \in muted
      BY DEF EntryOf
    <3>4. OneEntry(p)'
      BY <3>1 DEF OneEntry
    <3>. QED
      BY <1>1, <1>2, <1>4, <2>3, <3>1, <3>2, <3>3, <3>4 DEF FaithfulTo
  <2>. QED
    BY <2>2, <2>3
<1>. QED
  BY <1>1, <1>3, <1>4

LEMMA FaithfulExpire ==
    ASSUME TypeOK, TypeOK', Expire, NEW p \in Players, FaithfulTo(p)
    PROVE  FaithfulTo(p)'
<1>1. PICK n \in 0..Len(saved) :
         Expired = 1..n /\ \E g : Picks(g, saved', saved, DOMAIN saved \ (1..n))
  BY ExpireMeans
<1>2. OneEntry(p)
  BY DEF FaithfulTo
<1>3. /\ OneEntry(p)'
      /\ HasMute(p)' <=> \E k \in EntriesOf(p) \cap (DOMAIN saved \ Expired) : IsMute(saved[k])
      /\ EntriesOf(p)' = {} <=> EntriesOf(p) \cap (DOMAIN saved \ Expired) = {}
  BY <1>1, <1>2, PickedOne
<1>4. UNCHANGED <<team, muted>> /\ sentence' = sentence \ {saved[i].id : i \in Expired}
  BY DEF Expire
<1>5. EntriesOf(p) \subseteq DOMAIN saved /\ Expired \subseteq DOMAIN saved
  BY DEF EntriesOf, Expired
<1>6. p \in {saved[i].id : i \in Expired} <=> EntriesOf(p) \cap Expired # {}
  BY <1>5 DEF EntriesOf
<1>7. CASE EntriesOf(p) \cap Expired = {}
  <2>1. (HasMute(p)' <=> HasMute(p)) /\ (EntriesOf(p)' = {} <=> EntriesOf(p) = {})
    BY <1>3, <1>5, <1>7 DEF HasMute
  <2>2. p \in sentence' <=> p \in sentence
    BY <1>4, <1>6, <1>7
  <2>. QED
    BY <1>3, <1>4, <2>1, <2>2 DEF FaithfulTo
<1>8. CASE EntriesOf(p) \cap Expired # {}
  <2>1. EntriesOf(p) \cap (DOMAIN saved \ Expired) = {}
    BY <1>2, <1>8 DEF OneEntry
  <2>2. ~HasMute(p)' /\ p \notin sentence' /\ team[p] = Nobody
    BY <1>3, <1>4, <1>6, <1>8, <2>1 DEF FaithfulTo
  <2>. QED
    BY <1>3, <1>4, <2>2 DEF FaithfulTo
<1>. QED
  BY <1>7, <1>8

LEMMA FaithfulRestart ==
    ASSUME TypeOK, RestartGame \/ ChangeLevel, NEW p \in Players, FaithfulTo(p), Absent
    PROVE  FaithfulTo(p)'
<1>1. OneEntry(p)' /\ (HasMute(p)' <=> HasMute(p)) /\ NoNewEntry(p)
  BY FlushedOne, FlushedEntries DEF RestartGame, ChangeLevel, FaithfulTo
<1>2. CASE RestartGame
  <2>1. UNCHANGED <<team, muted, sentence>>
    BY <1>2 DEF RestartGame
  <2>. QED
    BY <1>1, <2>1 DEF FaithfulTo, NoNewEntry
<1>3. CASE ChangeLevel
  <2>1. /\ team' = [q \in Players |-> Nobody] /\ muted' = {}
        /\ sentence' = sentence \ {q \in here : EntriesOf(q) = {}}
    BY <1>3 DEF ChangeLevel
  <2>2. EntriesOf(p) = {} => ~HasMute(p)
    BY DEF HasMute
  <2>3. CASE team[p] = Nobody
    <3>1. p \in sentence' <=> p \in sentence
      BY <2>1, <2>2, <2>3 DEF FaithfulTo
    <3>. QED
      BY <1>1, <2>1, <2>3, <3>1 DEF FaithfulTo
  <2>4. CASE team[p] # Nobody
    <3>1. p \in here /\ EntriesOf(p) = {}
      BY <2>4 DEF FaithfulTo, Absent
    <3>2. p \notin sentence' /\ ~HasMute(p)
      BY <2>1, <2>2, <3>1
    <3>. QED
      BY <1>1, <2>1, <3>2 DEF FaithfulTo
  <2>. QED
    BY <2>3, <2>4
<1>. QED
  BY <1>2, <1>3

LEMMA FaithfulStep ==
    ASSUME TypeOK, TypeOK', Absent, Faithful, [Next]_vars
    PROVE  Faithful'
<1> SUFFICES ASSUME NEW p \in Players \ astray'
             PROVE  FaithfulTo(p)'
  BY DEF Faithful
<1>1. astray \subseteq astray'
  BY DEF Next, Connect, Spectate, Disconnect, CaptureFlag, Join, Punish, Hit, Kill, RankUp, Tick,
     Expire, RestartGame, EndMatch, Announce, ChangeLevel, vars, historyVars
<1>2. FaithfulTo(p)
  BY <1>1 DEF Faithful
<1>3. CASE Aside
  <2>1. UNCHANGED <<team, muted, saved, sentence>>
    BY <1>3, AsideMeans
  <2>. QED
    BY <1>2, <2>1, FaithfulKept DEF EntriesOf
<1>4. ASSUME NEW q \in Players, Spectate(q) \/ \E t \in Teams : Join(q, t)
      PROVE  FaithfulTo(p)'
  <2>1. CASE Spectate(q)
    BY <1>2, <2>1, FaithfulComing
  <2>2. CASE \E t \in Teams : Join(q, t)
    BY <1>2, <2>2, FaithfulComing
  <2>. QED
    BY <1>4, <2>1, <2>2
<1>5. ASSUME NEW q \in Players, Disconnect(q)
      PROVE  FaithfulTo(p)'
  BY <1>2, <1>5, FaithfulLeaving
<1>6. ASSUME NEW q \in Players, NEW on \in BOOLEAN, Punish(q, on)
      PROVE  FaithfulTo(p)'
  <2>1. /\ UNCHANGED <<team, saved>>
        /\ muted' = IF on THEN muted \cup {q} ELSE muted \ {q}
        /\ sentence' = IF on THEN sentence \cup {q} ELSE sentence \ {q}
        /\ p = q => team[p] # Nobody
    BY <1>6 DEF Punish
  <2>2. EntriesOf(p)' = EntriesOf(p) /\ (HasMute(p)' <=> HasMute(p)) /\ OneEntry(p)'
    BY <1>2, <2>1 DEF EntriesOf, HasMute, FaithfulTo, OneEntry
  <2>3. CASE p = q
    <3>1. (p \in muted' <=> on) /\ (p \in sentence' <=> on)
      BY <2>1, <2>3
    <3>. QED
      BY <1>2, <2>1, <2>2, <2>3, <3>1 DEF FaithfulTo
  <2>4. CASE p # q
    <3>1. (p \in muted' <=> p \in muted) /\ (p \in sentence' <=> p \in sentence)
      BY <2>1, <2>4
    <3>. QED
      BY <1>2, <2>1, <2>2, <3>1 DEF FaithfulTo
  <2>. QED
    BY <2>3, <2>4
<1>7. CASE Expire
  BY <1>2, <1>7, FaithfulExpire
<1>8. CASE RestartGame \/ ChangeLevel
  BY <1>2, <1>8, FaithfulRestart
<1>. QED
  BY <1>3, <1>4, <1>5, <1>6, <1>7, <1>8, StepKinds

(***************************************************************************)
(* "preserve mutes": whether a player on a team is muted is what the admin *)
(* wants, for any number of players who leave, come back, change teams and *)
(* are muted and unmuted in the meantime, and through restarts, changes of *)
(* the map and entries whose time has come.                                *)
(***************************************************************************)
THEOREM MutesAreKept == Spec => []MutesSurvive
<1>1. Init => Absent /\ Faithful
  <2>1. Init => \A p : EntriesOf(p) = {}
    BY DEF Init, EntriesOf
  <2>2. Init => muted = {} /\ sentence = {} /\ \A p \in Players : team[p] = Nobody
    BY DEF Init
  <2>. QED
    BY <2>1, <2>2, InitAbsent DEF Faithful, FaithfulTo, OneEntry, HasMute
<1>2. TypeOK /\ Absent /\ Faithful /\ [Next]_vars => Absent' /\ Faithful'
  BY NextTypes, AbsentStep, FaithfulStep
<1>3. Faithful => MutesSurvive
  BY DEF Faithful, FaithfulTo, MutesSurvive, Playing, Teams, Nobody, Americans, British
<1>. QED
  BY <1>1, <1>2, <1>3, InitTypes, NextTypes, PTL DEF Spec
-------------------------------------------------------------------------------
(***************************************************************************)
(* The points.  What is kept of a player are the pairs of an entry of his  *)
(* and a number up to its score.                                           *)
(***************************************************************************)
PointsOf(p) == {x \in EntriesOf(p) \X (1..MaxFrags) : x[2] <= saved[x[1]].score}

LEMMA IntervalSize ==
    ASSUME NEW n \in Nat
    PROVE  IsFiniteSet(1..n) /\ Cardinality(1..n) = n
<1>1. 1 \in Int /\ n \in Int
  OBVIOUS
<1>2. IsFiniteSet(1..n) /\ Cardinality(1..n) = IF 1 > n THEN 0 ELSE n - 1 + 1
  BY <1>1, FS_Interval
<1>. QED
  BY <1>2

LEMMA KeptIs ==
    ASSUME TypeOK, NEW p
    PROVE  /\ Kept(p) = Cardinality(PointsOf(p)) /\ Kept(p) \in Nat
           /\ IsFiniteSet(PointsOf(p))
<1>1. EntriesOf(p) \subseteq 1..Len(saved) /\ Len(saved) \in Nat /\ MaxFrags \in Nat
  BY SavedType, Bounds DEF EntriesOf
<1>2. IsFiniteSet(1..Len(saved)) /\ IsFiniteSet(1..MaxFrags)
  BY <1>1, IntervalSize
<1>3. IsFiniteSet(EntriesOf(p))
  BY <1>1, <1>2, FS_Subset
<1>4. IsFiniteSet(EntriesOf(p) \X (1..MaxFrags))
  BY <1>2, <1>3, FS_Product
<1>5. PointsOf(p) \subseteq EntriesOf(p) \X (1..MaxFrags)
  BY DEF PointsOf
<1>6. IsFiniteSet(PointsOf(p))
  BY <1>4, <1>5, FS_Subset
<1>7. Kept(p) = Cardinality(PointsOf(p))
  BY DEF Kept, PointsOf
<1>. QED
  BY <1>6, <1>7, FS_CardinalityType

\* The points are counted by Kept, before a step and after it.
CountsPoints == \A p : Kept(p) = Cardinality(PointsOf(p)) /\ Kept(p) \in Nat
                       /\ IsFiniteSet(PointsOf(p))

LEMMA KeptCounts == /\ TypeOK => CountsPoints
                    /\ TypeOK' => CountsPoints'
<1>1. TypeOK => CountsPoints
  BY KeptIs DEF CountsPoints
<1>. QED
  BY <1>1, PTL

\* The points of one entry
LEMMA OneScore ==
    ASSUME NEW i, NEW n \in Nat
    PROVE  IsFiniteSet({i} \X (1..n)) /\ Cardinality({i} \X (1..n)) = n
<1>1. IsFiniteSet({i}) /\ Cardinality({i}) = 1
  BY FS_Singleton
<1>2. IsFiniteSet(1..n) /\ Cardinality(1..n) = n
  BY IntervalSize
<1> DEFINE I == 1..n
           J == {i}
<1> HIDE DEF I, J
<1>3. IsFiniteSet(J \X I) /\ Cardinality(J \X I) = Cardinality(J) * Cardinality(I)
  BY <1>1, <1>2, FS_Product DEF I, J
<1>4. Cardinality(J \X I) = 1 * n
  BY <1>1, <1>2, <1>3 DEF I, J
<1>. QED
  BY <1>3, <1>4 DEF I, J

LEMMA KeptPicked ==
    ASSUME TypeOK, TypeOK', NEW p, NEW g, NEW K, Picks(g, saved', saved, K)
    PROVE  Kept(p)' = Cardinality({x \in PointsOf(p) : x[1] \in K})
<1> DEFINE after == PointsOf(p)'
           left == {x \in PointsOf(p) : x[1] \in K}
           b == [x \in after |-> <<g[x[1]], x[2]>>]
<1>1. Kept(p)' = Cardinality(after) /\ IsFiniteSet(after)
  BY KeptCounts DEF CountsPoints
<1>2. ASSUME NEW i \in DOMAIN saved'
      PROVE  /\ saved'[i] = saved[g[i]] /\ g[i] \in K
             /\ i \in EntriesOf(p)' <=> g[i] \in EntriesOf(p)
  BY PickedEntries
<1>3. \A x : x \in after <=> /\ x = <<x[1], x[2]>> /\ x[1] \in EntriesOf(p)'
                             /\ x[2] \in 1..MaxFrags /\ x[2] <= saved'[x[1]].score
  BY DEF PointsOf
<1>4. \A x : x \in PointsOf(p) <=> /\ x = <<x[1], x[2]>> /\ x[1] \in EntriesOf(p)
                                   /\ x[2] \in 1..MaxFrags /\ x[2] <= saved[x[1]].score
  BY DEF PointsOf
<1>5. EntriesOf(p)' \subseteq DOMAIN saved' /\ EntriesOf(p) \subseteq DOMAIN saved
  BY DEF EntriesOf
<1> HIDE DEF after
<1>6. ASSUME NEW x \in after
      PROVE  b[x] \in left
  BY <1>2, <1>3, <1>4, <1>5
<1>7. ASSUME NEW x \in after, NEW y \in after, b[x] = b[y]
      PROVE  x = y
  <2>1. x[1] \in DOMAIN saved' /\ y[1] \in DOMAIN saved' /\ g[x[1]] = g[y[1]] /\ x[2] = y[2]
    BY <1>3, <1>5, <1>7
  <2>2. x[1] \in Nat /\ y[1] \in Nat /\ g[x[1]] \in Nat
    <3>1. saved' \in Seq(Entry)
      BY DEF TypeOK
    <3>2. DOMAIN saved' = 1..Len(saved')
      BY <3>1, LenProperties
    <3>3. g[x[1]] \in DOMAIN saved
      BY <2>1 DEF Picks
    <3>. QED
      BY <2>1, <3>2, <3>3, SavedType
  <2>3. (x[1] < y[1] => g[x[1]] < g[y[1]]) /\ (y[1] < x[1] => g[y[1]] < g[x[1]])
    BY <2>1 DEF Picks
  <2>4. x[1] = y[1]
    BY <2>1, <2>2, <2>3
  <2>. QED
    BY <1>3, <2>1, <2>4
<1>8. ASSUME NEW y \in left
      PROVE  \E x \in after : b[x] = y
  <2>1. PICK i \in DOMAIN saved' : g[i] = y[1]
    BY DEF Picks
  <2> DEFINE x == <<i, y[2]>>
  <2>2. x \in after
    BY <1>2, <1>3, <1>4, <2>1
  <2>3. b[x] = y
    BY <1>4, <2>1, <2>2
  <2>. QED
    BY <2>2, <2>3
<1>9. b \in Bijection(after, left)
  <2>1. b \in [after -> left]
    BY <1>6
  <2> HIDE DEF b, left
  <2>. QED
    BY <1>7, <1>8, <2>1 DEF Bijection, Injection, Surjection, IsInjective
<1> HIDE DEF b, left
<1>10. Cardinality(left) = Cardinality(after)
  BY <1>1, <1>9, FS_Bijection DEF ExistsBijection
<1>. QED
  BY <1>1, <1>10 DEF left

LEMMA DisjointCount ==
    ASSUME NEW S, NEW T, IsFiniteSet(S), IsFiniteSet(T), S \cap T = {}
    PROVE  Cardinality(S \cup T) = Cardinality(S) + Cardinality(T)
<1>1. Cardinality(S \cup T) = Cardinality(S) + Cardinality(T) - Cardinality({})
  BY FS_Union
<1>2. Cardinality(S) \in Nat /\ Cardinality(T) \in Nat /\ Cardinality({}) = 0
  BY FS_CardinalityType, FS_EmptySet
<1>. QED
  BY <1>1, <1>2

\* The points of an entry are its score.
LEMMA ScoreType ==
    ASSUME TypeOK
    PROVE  \A i \in DOMAIN saved : saved[i].score \in 0..MaxFrags /\ saved[i].score \in Nat
<1>1. ASSUME NEW e \in Entry
      PROVE  e.score \in 0..MaxFrags
  BY DEF Entry
<1>. QED
  BY <1>1, SavedType, Bounds

\* Who gets an entry back loses its score from what is kept; nobody else does.
LEMMA KeptGivenBack ==
    ASSUME TypeOK, TypeOK', NEW p, NEW i, NEW g, GivesBack(p, i, g)
    PROVE  /\ saved[i].score \in Nat
           /\ Kept(p)' + saved[i].score = Kept(p)
           /\ \A q : q # p => Kept(q)' = Kept(q)
<1> DEFINE left(q) == {x \in PointsOf(q) : x[1] \in DOMAIN saved \ {i}}
           n == saved[i].score
           back == {i} \X (1..n)
<1>1. i \in DOMAIN saved /\ saved[i].id = p /\ n \in Nat /\ n \in 0..MaxFrags
  BY ScoreType DEF GivesBack, EntriesOf
<1>2. \A q : Kept(q)' = Cardinality(left(q))
  BY KeptPicked DEF GivesBack
<1>3. \A q, x : x \in PointsOf(q) <=> /\ x = <<x[1], x[2]>> /\ x[1] \in EntriesOf(q)
                                      /\ x[2] \in 1..MaxFrags /\ x[2] <= saved[x[1]].score
  BY DEF PointsOf
<1>4. ASSUME NEW q, q # p
      PROVE  left(q) = PointsOf(q)
  BY <1>1, <1>3, <1>4 DEF EntriesOf
<1>5. PointsOf(p) = left(p) \cup back /\ left(p) \cap back = {}
  <2>1. ASSUME NEW x \in PointsOf(p)
        PROVE  x \in left(p) \cup back
    <3>1. x[1] \in DOMAIN saved
      BY <1>3 DEF EntriesOf
    <3>2. CASE x[1] = i
      <4>1. x[2] \in 1..n
        BY <1>1, <1>3, <3>2, Bounds
      <4>. QED
        BY <1>3, <3>2, <4>1
    <3>. QED
      BY <3>1, <3>2
  <2>2. ASSUME NEW k \in 1..n
        PROVE  <<i, k>> \in PointsOf(p)
    <3>1. k \in 1..MaxFrags /\ k <= saved[i].score
      BY <1>1, Bounds
    <3>. QED
      BY <1>3, <3>1 DEF GivesBack
  <2>3. left(p) \cap back = {}
    OBVIOUS
  <2>. QED
    BY <2>1, <2>2, <2>3
<1>6. IsFiniteSet(left(p)) /\ IsFiniteSet(back) /\ Cardinality(back) = n
  <2>1. left(p) \in SUBSET PointsOf(p) /\ IsFiniteSet(PointsOf(p))
    BY KeptIs
  <2> HIDE DEF left
  <2>. QED
    BY <1>1, <2>1, FS_Subset, OneScore
<1>7. Kept(p) = Kept(p)' + n
  <2>. HIDE DEF left, back, n
  <2>1. Cardinality(PointsOf(p)) = Cardinality(left(p)) + Cardinality(back)
    BY <1>5, <1>6, DisjointCount
  <2>. QED
    BY <1>2, <1>6, <2>1, KeptIs
<1>8. ASSUME NEW q, q # p
      PROVE  Kept(q)' = Kept(q)
  <2>1. Kept(q) = Cardinality(PointsOf(q))
    BY KeptIs
  <2>. QED
    BY <1>2, <1>4, <1>8, <2>1
<1>. QED
  BY <1>1, <1>7, <1>8

\* Who leaves has his score added to what is kept of him; nobody else has.
LEMMA KeptSaved ==
    ASSUME TypeOK, TypeOK', NEW p \in Players, saved' = Save(p)
    PROVE  /\ Kept(p)' = Kept(p) + frags[p]
           /\ \A q : q # p => Kept(q)' = Kept(q)
<1> DEFINE last == Len(saved) + 1
           n == frags[p]
           more == {last} \X (1..n)
<1>1. n \in 0..MaxFrags /\ n \in Nat /\ EntryOf(p).score = n
  BY Bounds DEF TypeOK, EntryOf
<1>2. /\ Len(saved) \in Nat /\ DOMAIN saved = 1..Len(saved)
      /\ saved'[last] = EntryOf(p)
      /\ \A i \in DOMAIN saved : saved'[i] = saved[i]
      /\ \A q : EntriesOf(q)' = IF q = p THEN EntriesOf(q) \cup {last} ELSE EntriesOf(q)
  BY AppendedEntries
<1>3. last \notin DOMAIN saved
  BY <1>2
<1>4. \A q : EntriesOf(q) \subseteq DOMAIN saved
  BY DEF EntriesOf
<1> HIDE DEF last, n
<1>5. \A q, x : x \in PointsOf(q) <=> /\ x = <<x[1], x[2]>> /\ x[1] \in EntriesOf(q)
                                      /\ x[2] \in 1..MaxFrags /\ x[2] <= saved[x[1]].score
  BY DEF PointsOf
<1>6. \A q, x : x \in PointsOf(q)' <=> /\ x = <<x[1], x[2]>> /\ x[1] \in EntriesOf(q)'
                                       /\ x[2] \in 1..MaxFrags /\ x[2] <= saved'[x[1]].score
  BY DEF PointsOf
<1>7. ASSUME NEW q, q # p
      PROVE  PointsOf(q)' = PointsOf(q)
  <2>1. EntriesOf(q)' = EntriesOf(q) /\ \A i \in EntriesOf(q) : saved'[i] = saved[i]
    BY <1>2, <1>4, <1>7
  <2>. QED
    BY <2>1 DEF PointsOf
<1>8. PointsOf(p)' = PointsOf(p) \cup more
  <2>1. ASSUME NEW x \in PointsOf(p)'
        PROVE  x \in PointsOf(p) \cup more
    <3>1. CASE x[1] = last
      <4>1. x[2] \in 1..n
        BY <1>1, <1>2, <1>6, <3>1, Bounds
      <4>. QED
        BY <1>6, <3>1, <4>1
    <3>2. CASE x[1] # last
      BY <1>2, <1>4, <1>5, <1>6, <3>2
    <3>. QED
      BY <3>1, <3>2
  <2>2. ASSUME NEW k \in 1..n
        PROVE  <<last, k>> \in PointsOf(p)'
    <3>1. k \in 1..MaxFrags /\ k <= saved'[last].score
      BY <1>1, <1>2, Bounds
    <3>. QED
      BY <1>2, <1>6, <3>1
  <2>3. PointsOf(p) \subseteq PointsOf(p)'
    BY <1>2, <1>4, <1>5, <1>6
  <2>. QED
    BY <2>1, <2>2, <2>3
<1>9. PointsOf(p) \cap more = {}
  BY <1>3, <1>4, <1>5
<1>10. IsFiniteSet(more) /\ Cardinality(more) = n
  BY <1>1, OneScore
<1>11. CountsPoints /\ CountsPoints'
  BY KeptCounts
<1>12. Kept(p)' = Kept(p) + n
  <2>. HIDE DEF more
  <2>1. Cardinality(PointsOf(p)') = Cardinality(PointsOf(p)) + Cardinality(more)
    BY <1>8, <1>9, <1>10, <1>11, DisjointCount DEF CountsPoints
  <2>. QED
    BY <1>10, <1>11, <2>1 DEF CountsPoints
<1>13. \A q : q # p => Kept(q)' = Kept(q)
  BY <1>7, <1>11 DEF CountsPoints
<1>. QED
  BY <1>12, <1>13 DEF n

\* Nothing is kept after a flush but the mutes.
LEMMA KeptFlushed ==
    ASSUME TypeOK, TypeOK', Flush, NEW p
    PROVE  Kept(p)' = 0
<1>1. PICK f \in [DOMAIN saved' -> Mutes] :
         \A i \in DOMAIN saved' : saved'[i] = WithoutScore(saved[f[i]])
  BY FlushMeans
<1>2. ASSUME NEW i \in DOMAIN saved'
      PROVE  saved'[i].score = 0
  <2>1. f[i] \in DOMAIN saved
    BY <1>1 DEF Mutes
  <2>2. saved[f[i]] \in Entry
    BY <2>1, SavedType
  <2>3. WithoutScore(saved[f[i]]).score = 0
    BY <2>2 DEF WithoutScore, Entry
  <2>. QED
    BY <1>1, <2>3
<1>3. PointsOf(p)' = {}
  <2>1. EntriesOf(p)' \subseteq DOMAIN saved'
    BY DEF EntriesOf
  <2>2. \A x \in PointsOf(p)' : x[1] \in EntriesOf(p)' /\ x[2] \in 1..MaxFrags /\ x[2] <= saved'[x[1]].score
    BY DEF PointsOf
  <2>3. \A k \in 1..MaxFrags : ~(k <= 0)
    BY Bounds
  <2>. QED
    BY <1>2, <2>1, <2>2, <2>3
<1>. QED
  BY <1>3, KeptCounts, FS_EmptySet DEF CountsPoints

\* What is kept of those whose entries stay when others have had their time
LEMMA KeptExpired ==
    ASSUME TypeOK, TypeOK', Expire, NEW p
    PROVE  /\ Kept(p)' <= Kept(p)
           /\ p \notin {saved[i].id : i \in Expired} => Kept(p)' = Kept(p)
<1>1. PICK n \in 0..Len(saved) : /\ Expired = 1..n
                                 /\ \E g : Picks(g, saved', saved, DOMAIN saved \ (1..n))
  BY ExpireMeans
<1> DEFINE left == {x \in PointsOf(p) : x[1] \in DOMAIN saved \ (1..n)}
<1>2. Kept(p)' = Cardinality(left)
  BY <1>1, KeptPicked
<1>3. left \in SUBSET PointsOf(p)
  OBVIOUS
<1>4. p \notin {saved[i].id : i \in Expired} => left = PointsOf(p)
  BY <1>1 DEF PointsOf, EntriesOf
<1> HIDE DEF left
<1>5. Kept(p) = Cardinality(PointsOf(p)) /\ IsFiniteSet(PointsOf(p))
  BY KeptIs
<1>6. Cardinality(left) <= Cardinality(PointsOf(p))
  BY <1>3, <1>5, FS_Subset
<1>. QED
  BY <1>2, <1>4, <1>5, <1>6

(***************************************************************************)
(* A step gives a player some points, and to what he has or is kept of him *)
(* as many; or it takes from what is kept of him, and he has lost an       *)
(* entry.                                                                  *)
(***************************************************************************)
Scored(p) == Owned(p) <= credit[p] /\ (p \notin lapsed => Owned(p) = credit[p])

Gains(p, n) ==
    /\ Owned(p)' = Owned(p) + n /\ credit'[p] = credit[p] + n
    /\ p \in lapsed => p \in lapsed'

\* What is counted in the rules that the property is about
Counting == ~rules.spectators /\ rules.mode # "gungame"
AllScored == Counting => \A p \in Players : Scored(p)

LEMMA OwnedType ==
    ASSUME TypeOK, NEW p \in Players
    PROVE  Owned(p) \in Nat /\ Kept(p) \in Nat /\ frags[p] \in Nat /\ credit[p] \in Nat
<1>1. frags[p] \in Nat /\ credit[p] \in Nat
  BY Bounds DEF TypeOK
<1>2. Kept(p) \in Nat
  BY KeptIs
<1>. QED
  BY <1>1, <1>2 DEF Owned

LEMMA GainsKeep ==
    ASSUME TypeOK, NEW p \in Players, Scored(p), NEW n \in Nat, Gains(p, n)
    PROVE  Scored(p)'
<1>1. Owned(p) \in Nat /\ credit[p] \in Nat
  BY OwnedType
<1>. QED
  BY <1>1 DEF Scored, Gains

\* The steps that touch neither entries nor the points of who is here
LEMMA AsideGains ==
    ASSUME TypeOK, Absent, Aside, Counting, NEW p \in Players
    PROVE  \E n \in Nat : Gains(p, n)
<1>1. /\ UNCHANGED <<rules, saved, lapsed>> /\ here \subseteq here'
  BY AsideMeans
<1>2. Kept(p)' = Kept(p)
  BY <1>1 DEF Kept, EntriesOf
<1>3. frags \in [Players -> 0..MaxFrags] /\ credit \in [Players -> Nat]
  BY DEF TypeOK
<1>4. Kept(p) \in Nat /\ frags[p] \in Nat /\ credit[p] \in Nat
  BY OwnedType
<1>5. CASE UNCHANGED <<frags, credit>> /\ p \in here' \ here
  <2>1. frags[p] = 0
    BY <1>5 DEF Absent
  <2>. QED
    BY <1>1, <1>2, <1>4, <1>5, <2>1 DEF Gains, Owned
<1>6. CASE UNCHANGED <<frags, credit>> /\ p \notin here' \ here
  BY <1>1, <1>2, <1>4, <1>6 DEF Gains, Owned
<1>7. ASSUME NEW a \in here, a \in Players, here' = here, Earn(a)
      PROVE  \E n \in Nat : Gains(p, n)
  <2>1. /\ frags' = [frags EXCEPT ![a] = @ + 1]
        /\ credit' = [credit EXCEPT ![a] = @ + 1]
    BY <1>7 DEF Earn
  <2>2. CASE p = a
    <3>1. frags'[p] = frags[p] + 1 /\ credit'[p] = credit[p] + 1
      BY <1>3, <2>1, <2>2
    <3>2. Gains(p, 1)
      BY <1>1, <1>2, <1>4, <1>7, <2>2, <3>1 DEF Gains, Owned
    <3>. QED
      BY <3>2
  <2>3. CASE p # a
    <3>1. frags'[p] = frags[p] /\ credit'[p] = credit[p]
      BY <1>3, <2>1, <2>3
    <3>2. Gains(p, 0)
      BY <1>1, <1>2, <1>4, <1>7, <3>1 DEF Gains, Owned
    <3>. QED
      BY <3>2
  <2>. QED
    BY <2>2, <2>3
<1>8. \/ UNCHANGED <<frags, credit>>
      \/ \E a \in here : a \in Players /\ here' = here /\ Earn(a)
  BY DEF Aside, Counting, Connect, CaptureFlag, Hit, Kill, RankUp, Playing, Tick, EndMatch,
     Announce, vars, scoreVars, historyVars
<1>. QED
  BY <1>5, <1>6, <1>7, <1>8

LEMMA JoinGains ==
    ASSUME TypeOK, TypeOK', NEW q \in Players, NEW t \in Teams, Join(q, t), NEW p \in Players
    PROVE  Gains(p, 0)
<1>1. PICK d : Restore(q, frags[q], d)
  BY DEF Join
<1>2. UNCHANGED <<here, credit, lapsed>> /\ q \in here
  BY DEF Join, historyVars
<1>3. frags \in [Players -> 0..MaxFrags]
  BY DEF TypeOK
<1>4. Kept(p) \in Nat /\ frags[p] \in Nat /\ credit[p] \in Nat
  BY OwnedType
<1>5. CASE frags' = [frags EXCEPT ![q] = frags[q]] /\ saved' = saved
  <2>1. Kept(p)' = Kept(p)
    BY <1>5 DEF Kept, EntriesOf
  <2>2. frags'[p] = frags[p]
    BY <1>3, <1>5
  <2>. QED
    BY <1>2, <1>4, <2>1, <2>2 DEF Gains, Owned
<1>6. ASSUME NEW i, NEW g, GivesBack(q, i, g), frags' = [frags EXCEPT ![q] = frags[q] + saved[i].score]
      PROVE  Gains(p, 0)
  <2>1. /\ saved[i].score \in Nat
        /\ Kept(q)' + saved[i].score = Kept(q)
        /\ p # q => Kept(p)' = Kept(p)
    BY <1>6, KeptGivenBack
  <2>2. CASE p = q
    <3>1. frags'[p] = frags[p] + saved[i].score
      BY <1>3, <1>6, <2>2
    <3>2. Kept(p)' \in Nat
      BY KeptCounts DEF CountsPoints
    <3>3. p \in here /\ p \in here'
      BY <1>2, <2>2
    <3>4. Owned(p)' = frags'[p] + Kept(p)' /\ Owned(p) = frags[p] + Kept(p)
      BY <3>3 DEF Owned
    <3>5. Owned(p)' = Owned(p) + 0
      <4> DEFINE k == Kept(p)
                 kk == Kept(p)'
                 s == saved[i].score
      <4>1. kk + s = k /\ kk \in Nat /\ k \in Nat /\ s \in Nat
        BY <1>4, <2>1, <2>2, <3>2
      <4> HIDE DEF k, kk, s
      <4>2. (frags[p] + s) + kk = frags[p] + k + 0
        BY <1>4, <4>1
      <4>. QED
        BY <3>1, <3>4, <4>2 DEF k, kk, s
    <3>. QED
      BY <1>2, <1>4, <3>5 DEF Gains
  <2>3. CASE p # q
    <3>1. frags'[p] = frags[p]
      BY <1>3, <1>6, <2>3
    <3>. QED
      BY <1>2, <1>4, <2>1, <2>3, <3>1 DEF Gains, Owned
  <2>. QED
    BY <2>2, <2>3
<1>. QED
  BY <1>1, <1>5, <1>6, RestoreEither

LEMMA DisconnectScored ==
    ASSUME TypeOK, TypeOK', NEW q \in Players, Disconnect(q), NEW p \in Players, Scored(p)
    PROVE  Scored(p)'
<1>1. q \in here /\ here' = here \ {q} /\ UNCHANGED credit /\ frags' = [frags EXCEPT ![q] = 0]
  BY DEF Disconnect
<1>2. frags \in [Players -> 0..MaxFrags]
  BY DEF TypeOK
<1>3. Kept(p) \in Nat /\ frags[p] \in Nat /\ credit[p] \in Nat
  BY OwnedType
<1>4. CASE saved' = saved /\ lapsed' = lapsed \cup {q}
  <2>1. Kept(p)' = Kept(p)
    BY <1>4 DEF Kept, EntriesOf
  <2>2. p # q => frags'[p] = frags[p]
    BY <1>1, <1>2
  <2>. QED
    BY <1>1, <1>3, <1>4, <2>1, <2>2 DEF Scored, Owned
<1>5. CASE saved' = Save(q) /\ lapsed' = lapsed
  <2>1. Kept(q)' = Kept(q) + frags[q] /\ (p # q => Kept(p)' = Kept(p))
    BY <1>5, KeptSaved
  <2>2. p # q => frags'[p] = frags[p]
    BY <1>1, <1>2
  <2>3. Owned(p)' = Owned(p)
    BY <1>1, <1>3, <2>1, <2>2 DEF Owned
  <2>. QED
    BY <1>1, <1>5, <2>3 DEF Scored
<1>. QED
  BY <1>4, <1>5 DEF Disconnect

LEMMA RestartScored ==
    ASSUME TypeOK, TypeOK', RestartGame, NEW p \in Players
    PROVE  Scored(p)'
<1>1. here' = here /\ credit' = [x \in Players |-> IF x \in here THEN frags'[x] ELSE 0]
  BY DEF RestartGame
<1>2. Kept(p)' = 0
  BY KeptFlushed DEF RestartGame
<1>3. credit'[p] = IF p \in here THEN frags'[p] ELSE 0
  BY <1>1
<1>4. frags'[p] \in Nat
  BY Bounds DEF TypeOK
<1>5. Owned(p)' = credit'[p]
  BY <1>1, <1>2, <1>3, <1>4 DEF Owned
<1>. QED
  BY <1>3, <1>4, <1>5 DEF Scored

LEMMA AllScoredStep ==
    ASSUME TypeOK, TypeOK', Absent, AllScored, [Next]_vars
    PROVE  AllScored'
<1>1. rules' = rules
  BY StepKinds, AsideMeans DEF Spectate, Disconnect, Join, Punish, Expire, RestartGame, ChangeLevel
<1> SUFFICES ASSUME Counting, NEW p \in Players
             PROVE  Scored(p)'
  BY <1>1 DEF AllScored, Counting
<1>2. Scored(p)
  BY DEF AllScored
<1>3. CASE Aside
  BY <1>2, <1>3, AsideGains, GainsKeep
<1>4. ASSUME NEW q \in Players, NEW t \in Teams, Join(q, t)
      PROVE  Scored(p)'
  <2>1. Gains(p, 0)
    BY <1>4, JoinGains
  <2>. QED
    BY <1>2, <2>1, GainsKeep
<1>5. ASSUME NEW q \in Players
      PROVE  ~Spectate(q)
  BY DEF Spectate, Counting
<1>6. ASSUME NEW q \in Players, Disconnect(q)
      PROVE  Scored(p)'
  BY <1>2, <1>6, DisconnectScored
<1>7. ASSUME NEW q \in Players, NEW on \in BOOLEAN, Punish(q, on)
      PROVE  Scored(p)'
  BY <1>2, <1>7 DEF Punish, scoreVars, Scored, Owned, Kept, EntriesOf
<1>8. CASE Expire
  <2>1. /\ Kept(p)' <= Kept(p)
        /\ p \notin {saved[i].id : i \in Expired} => Kept(p)' = Kept(p)
    BY <1>8, KeptExpired
  <2>2. /\ UNCHANGED <<here, frags, credit>>
        /\ lapsed' = lapsed \cup {saved[i].id : i \in Expired}
    BY <1>8 DEF Expire, scoreVars
  <2>3. Kept(p) \in Nat /\ frags[p] \in Nat /\ credit[p] \in Nat
    BY OwnedType
  <2>4. Kept(p)' \in Nat
    BY KeptCounts DEF CountsPoints
  <2>5. Owned(p)' <= Owned(p) /\ Owned(p) \in Nat /\ Owned(p)' \in Nat
        /\ (p \notin {saved[i].id : i \in Expired} => Owned(p)' = Owned(p))
    BY <2>1, <2>2, <2>3, <2>4 DEF Owned
  <2>. QED
    BY <1>2, <2>2, <2>3, <2>5 DEF Scored
<1>9. CASE RestartGame
  BY <1>9, RestartScored
<1>10. CASE ChangeLevel
  <2>1. here' = {} /\ credit' = NobodyYet /\ Kept(p)' = 0
    BY <1>10, KeptFlushed DEF ChangeLevel
  <2>. QED
    BY <2>1 DEF Scored, Owned, NobodyYet
<1>. QED
  BY <1>3, <1>4, <1>5, <1>6, <1>7, <1>8, <1>9, <1>10, StepKinds

(***************************************************************************)
(* However many players come and go, under any rules without spectators    *)
(* and outside the gun game: what a player has and what is kept of him are *)
(* together never more than what he earned, and no less unless an entry of *)
(* his has had its time, or none was made.                                 *)
(***************************************************************************)
THEOREM ScoresArePreserved == Spec => []ScoreIsPreserved
<1>1. Init => Absent /\ AllScored
  <2>1. ASSUME Init, NEW p \in Players
        PROVE  Scored(p)
    <3>1. EntriesOf(p) = {} /\ here = {} /\ credit[p] = 0
      BY <2>1 DEF Init, EntriesOf, NobodyYet
    <3>2. PointsOf(p) = {}
      BY <3>1 DEF PointsOf
    <3>3. Kept(p) = 0
      BY <2>1, <3>2, InitTypes, KeptIs, FS_EmptySet
    <3>. QED
      BY <3>1, <3>3 DEF Scored, Owned
  <2>. QED
    BY <2>1, InitAbsent DEF AllScored
<1>2. TypeOK /\ Absent /\ AllScored /\ [Next]_vars => Absent' /\ AllScored'
  BY NextTypes, AbsentStep, AllScoredStep
<1>3. AllScored => ScoreIsPreserved
  BY DEF AllScored, Counting, Scored, ScoreIsPreserved
<1>. QED
  BY <1>1, <1>2, <1>3, InitTypes, NextTypes, PTL DEF Spec
===============================================================================
