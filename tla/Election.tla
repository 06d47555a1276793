------------------------------ MODULE Election ------------------------------
(***************************************************************************)
(* The two election systems, one per team (CElectionSystem, in             *)
(* server/bg3/controls/bg3_voting_system.cpp), the map choice the server   *)
(* starts by itself, and rocking the vote (bg3_rtv.cpp).                   *)
(*                                                                         *)
(* An election of one team and one of the other may run at a time; one of  *)
(* everybody must run alone.  Map choices are made by the British system,  *)
(* except those an American with the permission asks for.                  *)
(***************************************************************************)
EXTENDS Teams, Integers, FiniteSets, SequencesExt

CONSTANTS
    Voters,         \* the Steam ids of the people who play here
    Matches,        \* the matches a map may see: with rounds or not, with how many bots on each team
    Maps,
    Options,        \* the maps of a map choice, in the order of their slots
    MapTime,        \* mp_timelimit, in frames, like all the times here
    Duration,       \* sv_vote_duration
    Margin,         \* 5 seconds
    EarlyTime,      \* 60 seconds: no election before
    MapVoteTime,    \* 240 seconds: no vote on a map before
    ChoiceTime,     \* sv_vote_mapchoice_start_time
    Period,         \* between two periodic thinks: 30 seconds
    RtvDelay,       \* sv_rtv_delay
    ChangeDelay,    \* 5 seconds
    Percent,        \* sv_vote_kick_ratio and sv_vote_mapchange_ratio
    Instant,        \* sv_vote_mapchoice_instant
    Places,         \* bound: where people may go, of the teams and the spectators
    MaxOrders,      \* bound: how many commands the admin gives on a map
    MaxClock,       \* bound: a match with rounds ends by then
    MaxStale,       \* bound: nobody moves while a team's number is wrong by as many
    MaxVotes        \* bound: how many votes there are in both elections together, in a
                    \* match with rounds or without

NoMap == "no map"
NoVoter == "no voter"
Never == MapTime + MaxClock + Duration + ChangeDelay + 1       \* FLT_MAX

ASSUME VoterAssumption == IsFiniteSet(Voters) /\ NoVoter \notin Voters
ASSUME MapAssumption == Options \in Seq(Maps) /\ Options # <<>> /\ NoMap \notin Maps
ASSUME TimeAssumption ==
    /\ {MapTime, Duration, Margin, EarlyTime, MapVoteTime, ChoiceTime, Period,
        RtvDelay, ChangeDelay, MaxStale,
        MaxOrders, MaxClock} \subseteq Nat
    /\ Margin > 0 /\ Period > 0
ASSUME SettingAssumption ==
    /\ Matches \subseteq [rounds : BOOLEAN, bots : [Teams -> Nat]]
    /\ Percent \in [{"kick", "votemap"} -> 0..100]
    /\ Instant \in BOOLEAN
    /\ MaxVotes \in [BOOLEAN -> Nat]
    /\ Places \subseteq Teams \cup {Spectators}

VARIABLES
    clock,          \* GetMapElapsedTime()
    gameOver,       \* g_fGameOver
    team,           \* GetTeamNumber() of each voter; Nobody while he is not connected
    match,          \* the match on this map
    orders,         \* how many commands the admin has given on this map
    counts,         \* g_pPlayerResource's numbers of players of each team
    election,       \* the election of each system
    rtvComplete,    \* m_bRtvComplete of the British system; the other's is never set
    rtvs,           \* g_rtvs
    rtvDisabled,    \* g_bRtvTempDisable
    rtvFrom,        \* g_flNextRtvTime
    nextlevel,
    changeTime      \* m_tmDelayedMapChangeTime

rtv == <<rtvs, rtvDisabled, rtvFrom>>
results == <<team, election, nextlevel, changeTime>>
vars == <<clock, gameOver, counts, match, orders, results, rtvComplete, rtv>>

Kinds == {"kick", "poll", "votemap", "mapchoice"}
Answers == {"yes", "no"}

\* No election; ClearElection
None == [kind |-> "none", universal |-> FALSE, due |-> Never, target |-> NoVoter,
         map |-> NoMap, instant |-> FALSE, votes |-> <<>>]

HasActiveElection(t) == election[t].kind # "none"
Present(t) == {v \in Voters : team[v] = t}
NumNonSpectators == counts[Americans] + counts[British]
-------------------------------------------------------------------------------
(***************************************************************************)
(* Creating an election.                                                   *)
(***************************************************************************)
AllowedIfFree(t, universal) == ~gameOver /\ ~HasActiveElection(t)

NewElectionAllowedForTeam(t, universal) ==
    /\ ~gameOver
    /\ \A o \in Teams : ~(HasActiveElection(o) /\ (universal \/ election[o].universal))
    /\ ~HasActiveElection(t)

NoTimeCheck(now) == TRUE
TimeWithoutMargin(now) == now + Duration <= MapTime
EnoughTime(now) == now + Duration + Margin <= MapTime

CreationAllowed(t, universal, now) ==
    /\ NewElectionAllowedForTeam(t, universal)
    /\ now >= EarlyTime
    /\ EnoughTime(now)

New(kind, universal, target, map, instant, now) ==
    [kind |-> kind, universal |-> universal, due |-> now + Duration, target |-> target,
     map |-> map, instant |-> instant, votes |-> <<>>]

CreateElection(t, e) == election' = [election EXCEPT ![t] = e]

(***************************************************************************)
(* CreateMultichoiceMapElection: what it makes of the elections.  flag is  *)
(* m_bRtvComplete, and the election ends the match if the players asked    *)
(* for it.  What they asked is used up by now, election or not.            *)
(***************************************************************************)
MapElection(t, flag, now) ==
    IF CreationAllowed(t, TRUE, now)
    THEN [election EXCEPT ![t] = New("mapchoice", TRUE, NoVoter, NoMap,
                                     Instant \/ (flag /\ t = British), now)]
    ELSE election

FlagAfterwards(t, flag) == flag /\ t # British

(***************************************************************************)
(* AutoMapchoiceElectionThink; last tells whether the last round is        *)
(* played.                                                                 *)
(***************************************************************************)
MapChoiceDue(flag, last, now) ==
    /\ ~HasActiveElection(British)
    /\ nextlevel = NoMap
    /\ flag \/ last \/ MapTime - now < ChoiceTime

AutoElection(flag, last, now) ==
    IF MapChoiceDue(flag, last, now) THEN MapElection(British, flag, now) ELSE election

AutoFlag(flag, last, now) == flag /\ ~MapChoiceDue(flag, last, now)

\* Only a match with rounds has a last one.
LastRound == IF match.rounds THEN BOOLEAN ELSE {FALSE}
-------------------------------------------------------------------------------
(***************************************************************************)
(* Finishing an election: CalculateResults and the result commands.        *)
(***************************************************************************)
Backers(votes, c) == Cardinality({i \in DOMAIN votes : votes[i].choice = c})

\* GetBinaryResultsRatio; without votes it is not a number, and nothing passes.
Passes(e) ==
    LET yes == Backers(e.votes, "yes")
    IN  Len(e.votes) > 0 /\ 100 * yes >= Percent[e.kind] * Len(e.votes)

\* The first of the slots with the most votes
Winner(votes) ==
    LET best == {i \in DOMAIN Options :
                    \A j \in DOMAIN Options :
                        Backers(votes, Options[i]) >= Backers(votes, Options[j])}
    IN  Options[Min(best)]

\* A CHandle to a player who has left is NULL.
Forget(elections, v) == [t \in Teams |->
    IF elections[t].target = v THEN [elections[t] EXCEPT !.target = NoVoter] ELSE elections[t]]

(***************************************************************************)
(* FinishElection of e by the system of t, in the state s.  The kick       *)
(* command is run before anything else happens.                            *)
(***************************************************************************)
FinishElection(t, e, s, now) ==
    LET kicked == e.kind = "kick" /\ e.target # NoVoter /\ Passes(e)
        voted == e.kind = "votemap" /\ Passes(e)
        chosen == e.kind = "mapchoice"
        left == IF kicked THEN Forget(s.election, e.target) ELSE s.election
    IN  [team |-> IF kicked THEN [s.team EXCEPT ![e.target] = Nobody] ELSE s.team,
         election |-> [left EXCEPT ![t] = None],
         nextlevel |-> IF voted THEN e.map ELSE IF chosen THEN Winner(e.votes) ELSE s.nextlevel,
         changeTime |-> IF voted \/ (chosen /\ e.instant) THEN now + ChangeDelay
                                                           ELSE s.changeTime]

State == [team |-> team, election |-> election, nextlevel |-> nextlevel, changeTime |-> changeTime]

Become(s) ==
    /\ team' = s.team /\ election' = s.election
    /\ nextlevel' = s.nextlevel /\ changeTime' = s.changeTime
-------------------------------------------------------------------------------
(***************************************************************************)
(* A map starts: the constructor of the game rules, and LevelInit in       *)
(* gameinterface.cpp.                                                      *)
(***************************************************************************)
Init ==
    /\ clock = 0 /\ gameOver = FALSE
    /\ team = [v \in Voters |-> Nobody]
    /\ match \in Matches
    /\ orders = 0
    /\ counts = [t \in Teams |-> 0]
    /\ election = [t \in Teams |-> None]
    /\ rtvComplete = FALSE
    /\ rtvs = {} /\ rtvDisabled = FALSE /\ rtvFrom = RtvDelay
    /\ nextlevel = NoMap
    /\ changeTime = Never

\* FlagForRtvMapElection(false)
FlagKept == rtvComplete
FlagOnNewMap == FALSE

ChangeLevel ==
    /\ clock' = 0 /\ gameOver' = FALSE
    /\ team' = [v \in Voters |-> Nobody]
    /\ match' \in Matches
    /\ orders' = 0
    /\ counts' = [t \in Teams |-> 0]
    /\ election' = [t \in Teams |-> None]
    /\ rtvComplete' = FlagOnNewMap
    /\ rtvs' = {} /\ rtvDisabled' = FALSE /\ rtvFrom' = RtvDelay
    /\ nextlevel' = NoMap
    /\ changeTime' = Never

(***************************************************************************)
(* CHL2MPRules::Think, as far as it matters here.                          *)
(***************************************************************************)
ThinkGameOver ==
    /\ gameOver
    /\ ChangeLevel

ThinkTimeUp ==
    /\ ~gameOver /\ ~match.rounds
    /\ clock + 1 > MapTime
    /\ clock' = clock + 1
    /\ gameOver' = TRUE
    /\ UNCHANGED <<counts, match, orders, results, rtvComplete, rtv>>

ElectionThink(t, s, now) ==
    IF s.election[t].kind # "none" /\ now > s.election[t].due
    THEN FinishElection(t, s.election[t], s, now)
    ELSE s

ThinkElections(elections, now) ==
    LET s == ElectionThink(Americans, [State EXCEPT !.election = elections], now)
    IN  IF now > changeTime THEN ChangeLevel
        ELSE /\ clock' = now
             /\ Become(ElectionThink(British, s, now))
             /\ UNCHANGED <<gameOver, counts, match, orders, rtv>>

ThinkPlay ==
    LET now == clock + 1
    IN  /\ ~gameOver
        /\ IF match.rounds THEN now <= MaxClock ELSE now <= MapTime
        /\ IF now % Period # 0
           THEN /\ ThinkElections(election, now)
                /\ now > changeTime \/ UNCHANGED rtvComplete
           ELSE \E last \in LastRound :
                /\ ThinkElections(AutoElection(rtvComplete, last, now), now)
                /\ now > changeTime \/ rtvComplete' = AutoFlag(rtvComplete, last, now)

\* The rounds of the match are over.
EndMatch ==
    /\ match.rounds /\ ~gameOver
    /\ gameOver' = TRUE
    /\ UNCHANGED <<clock, counts, match, orders, results, rtvComplete, rtv>>
-------------------------------------------------------------------------------
(***************************************************************************)
(* The people.                                                             *)
(***************************************************************************)

\* CPlayerResource counts every two seconds.
Counted == [t \in Teams |-> Cardinality(Present(t)) + match.bots[t]]
Room == \A t \in Teams : counts[t] - Counted[t] \in 1 - MaxStale .. MaxStale - 1

\* Connecting, joining a team, changing teams
Join(v, t) ==
    /\ Room
    /\ team[v] # t
    /\ team' = [team EXCEPT ![v] = t]
    /\ UNCHANGED <<clock, gameOver, counts, match, orders, election, nextlevel, changeTime,
                   rtvComplete, rtv>>

Leave(v) ==
    /\ Room
    /\ team[v] # Nobody
    /\ team' = [team EXCEPT ![v] = Nobody]
    /\ election' = Forget(election, v)
    /\ UNCHANGED <<clock, gameOver, counts, match, orders, nextlevel, changeTime,
                   rtvComplete, rtv>>

UpdatePlayerData ==
    /\ counts # Counted
    /\ counts' = Counted
    /\ UNCHANGED <<clock, gameOver, match, orders, results, rtvComplete, rtv>>

(***************************************************************************)
(* SubmitPlayerVote, in the system GetActiveElectionSystemForTeam finds.   *)
(***************************************************************************)
System(v) ==
    LET open == {t \in Teams : HasActiveElection(t) /\ election[t].universal}
    IN  IF Americans \in open THEN Americans
        ELSE IF British \in open THEN British
        ELSE team[v]

HasVotedEarlier(e, v) == \E i \in DOMAIN e.votes : i < Len(e.votes) /\ e.votes[i].voter = v
HasVoted(e, v) == \E i \in DOMAIN e.votes : e.votes[i].voter = v

CountOfTeam(t, e) == counts[t]
Electorate(t, e) == IF e.universal THEN NumNonSpectators ELSE counts[t]
AllPlayersVoted(t, e) == Len(e.votes) = Electorate(t, e)

\* (What is answered to a poll is of no concern.)
Ballot(e) == IF e.kind = "mapchoice" THEN ToSet(Options)
             ELSE IF e.kind = "poll" THEN {"yes"} ELSE Answers

Vote(v, c) ==
    /\ Len(election[Americans].votes) + Len(election[British].votes) < MaxVotes[match.rounds]
    /\ team[v] \in Teams
    /\ LET t == System(v)
           e == [election[t] EXCEPT !.votes = Append(@, [voter |-> v, choice |-> c])]
       IN  /\ HasActiveElection(t)
           /\ ~HasVoted(election[t], v)
           /\ c \in Ballot(e)
           /\ IF AllPlayersVoted(t, e)
              THEN Become(FinishElection(t, e, State, clock))
              ELSE /\ election' = [election EXCEPT ![t] = e]
                   /\ UNCHANGED <<team, nextlevel, changeTime>>
    /\ UNCHANGED <<clock, gameOver, counts, match, orders, rtvComplete, rtv>>

\* What a player asks of the system of his team
Request(v, e) ==
    /\ team[v] \in Teams
    /\ CreationAllowed(team[v], e.universal, clock)
    /\ CreateElection(team[v], e)
    /\ UNCHANGED <<clock, gameOver, counts, match, orders, team, nextlevel, changeTime,
                   rtvComplete, rtv>>

VoteKick(v, target) ==
    /\ team[target] = team[v]
    /\ Request(v, New("kick", FALSE, target, NoMap, FALSE, clock))

\* votescramble, votegungame, votemute, vote <topic>.  Scrambling moves people as Join does.
VotePoll(v) == Request(v, New("poll", TRUE, NoVoter, NoMap, FALSE, clock))

VoteMap(v, m) ==
    /\ clock >= MapVoteTime
    /\ Request(v, New("votemap", TRUE, NoVoter, m, FALSE, clock))

(***************************************************************************)
(* ReceiveRtvFromPlayer: sv_rtv_threshold is 0.55.                         *)
(***************************************************************************)
Required(n) == IF (11 * n) \div 20 < 2 THEN 2 ELSE (11 * n) \div 20

ReceiveRtvFromPlayer(v) ==
    /\ team[v] # Nobody
    /\ ~rtvDisabled /\ nextlevel = NoMap /\ clock >= rtvFrom /\ NumNonSpectators >= 3
    /\ v \notin rtvs
    /\ rtvs' = rtvs \cup {v}
    /\ rtvFrom' = rtvFrom
    /\ IF Cardinality(rtvs') >= Required(NumNonSpectators)
       THEN /\ rtvDisabled' = TRUE
            /\ \E last \in LastRound :
                  /\ election' = AutoElection(TRUE, last, clock)
                  /\ rtvComplete' = AutoFlag(TRUE, last, clock)
       ELSE UNCHANGED <<rtvDisabled, rtvComplete, election>>
    /\ UNCHANGED <<clock, gameOver, counts, match, orders, team, nextlevel, changeTime>>
-------------------------------------------------------------------------------
(***************************************************************************)
(* The admin, who may also be one of the players.                          *)
(***************************************************************************)
\* bound
Ordered ==
    /\ orders < MaxOrders
    /\ orders' = orders + 1

RtvCancel ==
    /\ Ordered
    /\ rtvs # {}
    /\ rtvs' = {} /\ rtvDisabled' = FALSE /\ rtvFrom' = clock + RtvDelay
    /\ UNCHANGED <<clock, gameOver, counts, match, results, rtvComplete>>

\* votecancel: the election the admin's team sees, or, from the console, all of them
VoteCancel(which) ==
    /\ Ordered
    /\ \E t \in which : HasActiveElection(t)
    /\ election' = [t \in Teams |-> IF t \in which THEN None ELSE election[t]]
    /\ UNCHANGED <<clock, gameOver, counts, match, team, nextlevel, changeTime,
                   rtvComplete, rtv>>

\* votemap with several maps, or with a kind of map
VoteMaps(v) ==
    /\ Ordered
    /\ team[v] \in Teams
    /\ election' = MapElection(team[v], rtvComplete, clock)
    /\ rtvComplete' = FlagAfterwards(team[v], rtvComplete)
    /\ UNCHANGED <<clock, gameOver, counts, match, team, nextlevel, changeTime, rtv>>

NextMap(m) ==
    /\ Ordered
    /\ nextlevel' = m
    /\ UNCHANGED <<clock, gameOver, counts, match, team, election, changeTime,
                   rtvComplete, rtv>>

\* The command that changes the map in five seconds
ChangeMap(m) ==
    /\ Ordered
    /\ election' = [t \in Teams |-> None]
    /\ nextlevel' = m
    /\ changeTime' = clock + ChangeDelay
    /\ UNCHANGED <<clock, gameOver, counts, match, team, rtvComplete, rtv>>
-------------------------------------------------------------------------------
Think == ThinkGameOver \/ ThinkTimeUp \/ ThinkPlay

Next ==
    \/ Think
    \/ EndMatch \/ UpdatePlayerData \/ RtvCancel
    \/ VoteCancel(Teams) \/ \E t \in Teams : VoteCancel({t})
    \/ \E m \in Maps : NextMap(m) \/ ChangeMap(m)
    \/ \E v \in Voters :
          \/ \E t \in Places : Join(v, t)
          \/ Leave(v) \/ ReceiveRtvFromPlayer(v) \/ VotePoll(v) \/ VoteMaps(v)
          \/ \E c \in Answers \cup ToSet(Options) : Vote(v, c)
          \/ \E target \in Voters : VoteKick(v, target)
          \/ \E m \in Maps : VoteMap(v, m)

Spec == Init /\ [][Next]_vars
-------------------------------------------------------------------------------
(***************************************************************************)
(* Properties.                                                             *)
(***************************************************************************)

\* The type of every variable.  No election is due later than the match ends.
Election ==
    [kind : Kinds \cup {"none"}, universal : BOOLEAN, due : 0..MapTime \cup {Never},
     target : Voters \cup {NoVoter}, map : Maps \cup {NoMap}, instant : BOOLEAN,
     votes : Seq([voter : Voters, choice : Answers \cup ToSet(Options)])]

TypeOK ==
    /\ clock \in Nat
    /\ gameOver \in BOOLEAN
    /\ team \in [Voters -> Teams \cup {Spectators, Nobody}]
    /\ match \in Matches
    /\ orders \in 0 .. MaxOrders
    /\ counts \in [Teams -> Nat]
    /\ election \in [Teams -> Election]
    /\ rtvComplete \in BOOLEAN
    /\ rtvs \subseteq Voters
    /\ rtvDisabled \in BOOLEAN
    /\ rtvFrom \in Nat
    /\ nextlevel \in Maps \cup {NoMap}
    /\ changeTime \in Nat

(***************************************************************************)
(* NewElectionAllowedForTeam: "If either one has a universal vote, cancel; *)
(* also cancel if one has a vote and we're asking for a universal vote".   *)
(* Whoever starts elections, and whichever system finishes first, an       *)
(* election of everybody runs alone.                                       *)
(***************************************************************************)
NoClash ==
    \A t \in Teams : HasActiveElection(t) /\ election[t].universal
                        => ~HasActiveElection(Other(t))

(***************************************************************************)
(* PlayerCanVote: "check that this player hasn't already voted".  Nobody   *)
(* votes twice in an election, not by changing teams either, nor by        *)
(* leaving and coming back.                                                *)
(***************************************************************************)
OneVoteEach ==
    \A t \in Teams : \A i, j \in DOMAIN election[t].votes :
        election[t].votes[i].voter = election[t].votes[j].voter => i = j

(***************************************************************************)
(* CreateElection: "ensure we have enough time for the vote".  The time    *)
(* limit never cuts an election off.                                       *)
(***************************************************************************)
NotCutOff ==
    [][gameOver' /\ clock' > MapTime /\ ~gameOver =>
          \A t \in Teams : ~HasActiveElection(t)]_vars

(***************************************************************************)
(* AllPlayersVoted ends an election before its time.  If the numbers of    *)
(* players are up to date and nobody who voted has gone, then nobody who   *)
(* may vote has missed it.                                                 *)
(***************************************************************************)
Entitled(t) == IF election[t].universal THEN Present(Americans) \cup Present(British)
                                        ELSE Present(t)

EarlyEndMissesNobody ==
    [][\A t \in Teams, v \in Voters :
          /\ HasActiveElection(t) /\ election'[t] = None
          /\ \E c \in Answers \cup ToSet(Options) : Vote(v, c)
          =>
          LET voted == {election[t].votes[i].voter : i \in DOMAIN election[t].votes} \cup {v}
          IN  counts = Counted /\ voted \subseteq Entitled(t) => Entitled(t) \subseteq voted]_vars

(***************************************************************************)
(* LevelInit: "ensure the voting system doesn't activate an RTV election   *)
(* from the previous map".  As long as the admin gives no command, a map  *)
(* choice that ends the match is held only if the players of this map have *)
(* rocked the vote.                                                        *)
(***************************************************************************)
RtvStaysOnItsMap ==
    orders = 0 /\ ~Instant =>
       /\ rtvComplete => rtvDisabled
       /\ \A t \in Teams : election[t].instant => rtvDisabled

(***************************************************************************)
(* ReceiveRtvFromPlayer: "check immediately, tho if another vote is        *)
(* already ongoing it will happen later instead".  Once enough players     *)
(* have rocked the vote, the choice of a map is under way or will come.    *)
(***************************************************************************)
RtvHonoured ==
    rtvDisabled /\ orders = 0 /\ ~gameOver =>
       \/ rtvComplete
       \/ \E t \in Teams : election[t].kind = "mapchoice"
       \/ nextlevel # NoMap
===============================================================================
