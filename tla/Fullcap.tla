------------------------------- MODULE Fullcap -------------------------------
(***************************************************************************)
(* The head count over a map's flags that ends a skirmish round ("full     *)
(* cap") and drains the tickets of a ticket round: CountHeldFlags,         *)
(* CheckFullcap and CheckTicketDrain of CHL2MPRules.                       *)
(*                                                                         *)
(* A function owner \in [Flags -> Teams \cup {Nobody}] is the state read:  *)
(* who holds each active flag (flag.cpp, GetTeamNumber()).                 *)
(***************************************************************************)
EXTENDS Integers, FiniteSets, Teams

CONSTANTS
    Flags,      \* the active flags of the map
    ForTeam,    \* m_iForTeam: the teams that may capture a flag
    FullCap     \* m_iFullCap: the teams whose full cap a flag counts for, if any

ASSUME FlagAssumption ==
    /\ IsFiniteSet(Flags)
    /\ ForTeam \in [Flags -> (SUBSET Teams) \ {{}}]
    /\ FullCap \in [Flags -> SUBSET Teams]

\* The flags CountHeldFlags looks at: "No Fullcap" flags are skipped unless
\* tickets are used, where FullCap is ignored.
Counted(tickets) == {f \in Flags : tickets \/ FullCap[f] # {}}

\* american_flags, british_flags and (for Nobody) neutral_flags
HeldBy(t, owner, tickets) == Cardinality({f \in Counted(tickets) : owner[f] = t})

\* The flags that foramericans and forbritish count.
MeantFor(t, tickets) ==
    {f \in Counted(tickets) : t \in ForTeam[f] /\ (tickets \/ t \in FullCap[f])}

For(t, tickets) == Cardinality(MeantFor(t, tickets))

\* A verdict that forgets the flags nobody holds.
FullcapIgnoringNeutral(owner) ==
    LET held(t) == HeldBy(t, owner, FALSE)
        wins(t) == held(t) > 0 /\ held(Other(t)) = 0
    IN  IF wins(Americans) THEN Americans ELSE IF wins(British) THEN British ELSE "play"

(***************************************************************************)
(* CheckFullcap: what it tells HandleScores.  "play" is a return without a *)
(* call.  (The draw CheckFullcap has a call for needs three counts of zero, *)
(* for which it has already returned.)                                     *)
(***************************************************************************)
FullcapVerdict(owner) ==
    LET held(t) == HeldBy(t, owner, FALSE)
        full(t) == For(t, FALSE) - held(t) = 0
        wins(t) == IF held(Nobody) > 0 THEN full(t) /\ For(t, FALSE) # 0
                                       ELSE full(t) /\ held(Other(t)) = 0
        first == IF held(Nobody) > 0 THEN Americans ELSE British
    IN  IF \A t \in Teams \cup {Nobody} : held(t) = 0 THEN "play"
        ELSE IF wins(first) THEN first
        ELSE IF wins(Other(first)) THEN Other(first)
        ELSE "play"

(***************************************************************************)
(* CheckTicketDrain: the teams that lose tickets, because the enemy holds  *)
(* more than half of the flags it may capture.                             *)
(***************************************************************************)
Drained(owner) ==
    {t \in Teams : HeldBy(Other(t), owner, TRUE) > For(Other(t), TRUE) \div 2}
=============================================================================
