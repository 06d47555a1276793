# The match logic of Battle Grounds 3 in TLA+

Battle Grounds 3 is a Source-engine mod: two teams, Americans and British, fight rounds over
flags, tickets or elimination, or carry off each other's flags.  This directory models the part of
the server that decides who wins what and when: the game rules, the flags of both kinds, the scores,
the quotas of the classes, the votes, the rallies, and what players do to them.  All of it runs on one
server thread.  What makes it hard is not parallelism but *time*: a frame runs some thirty
conditions on a dozen deadlines in a fixed order, and players join, die, change teams and leave
between any two frames, while results worked out earlier are still waiting to be used.

Paths below are relative to `src/game/`.

## The parts of the system

| part | state | operations | what can go wrong |
|---|---|---|---|
| match and rounds, `shared/hl2mp/hl2mp_gamerules.cpp` | round number, verdict and its delay, game over, deadlines for waves, flags, restarts, map | `Think` once a frame; `HandleScores`, `RestartRound`, `SwapTeams`, `RestartGame`, `GoToIntermission` | a round ended twice or never; a verdict applied to a situation that is no longer so; points that do not follow a change of sides |
| teams, `server/team.cpp` | score, tickets, fraction of a ticket | `AddScore`, `RemoveTicket`, `RemoveTickets`, `ResetTickets` | tickets taken by waves, team changes and drain at once |
| players, `server/hl2mp/hl2mp_player.cpp` | team, life, free respawn, class | `ForceJoin`, `Spawn`, `Event_Killed`, `ChangeTeam`, disconnecting | state of a player left behind in a flag, a counter or a list |
| full caps, ticket drain | none of their own | `CountHeldFlags`, `CheckFullcap`, `CheckTicketDrain` | flags that count for one side, both or none |
| flags, `server/bg2/flag.cpp`; triggers, `server/hl2/hl2_triggers.cpp` | owner, team that is capturing and when it is due, holders, trigger lists, on or off | `Think`, `Capture`, inputs, `StartTouch`, `EndTouch`, `ResetFlag` | a capture nobody stood for; a flag lost with its holder on it; lists that keep absent players |
| map triggers, `server/bg2/bg2_maptriggers.cpp` | none | end the round for a team | may fire in any phase of the match |
| class quotas, `shared/bg3/bg3_class_quota.cpp` | players, bots and limit of each class; offers to bots, calls for bots to make room | joining, changing class, leaving, making room | counters that drift; a limit exceeded by two requests; an offer of a place that is taken |
| CTF flags, `server/bg2/ctfflag.cpp`; the trigger where they are handed in, `server/hl2/hl2_triggers.cpp` | carrier, where the flag was dropped, return time; the carrier's speed | `Think`, `DropFlag`, `ReturnFlag`, `ResetFlag`, inputs, `StartTouch` | a carrier who died or left; teams that wait for each other; a flag that never comes home; a carrier who is not slowed down |
| elections, `server/bg3/controls/` | one election per team (kind, votes, end), the players who rock the vote, the flag that they are enough, next map, time of its change | start, vote, finish, cancel, automatic map choice, rtv | elections that clash or are cut off; votes cast twice; requests lost, or kept for another map |
| score preservation, `server/bg3/bg3_scorepreserve.cpp` | a queue of entries: score, damage, mutes, time of removal | save on leaving, restore on joining, expire, flush | points counted twice or lost; mutes lost with the scores they are kept with |
| gun game, `server/bg3_gungame.cpp`; the winner, `CHL2MPRules::Think` | each player's kit and points | rank up and down, end, restart | ranks that outlive their game; the wrong winner |
| rally buffs, `shared/bg3/bg3_buffs.cpp` | each player's effect and its end; when each team may rally next | orders, rallies of flags, hits that slow down | effects that overlap; times of another map |
| line spawn, bots, permissions, unlockables, weapons, client | | | see `PROJECT.json`, "components" |

The parts talk by direct calls.  A flag that is captured adds to its team's score and asks the
game rules to look for a full cap in the next frame; the game rules, when a round ends, reset every
flag and spawn every player; a player who spawns takes a ticket; one who dies, changes teams or
leaves removes himself from every flag and drops those he carries; one who leaves has his score put
aside, and gets it back when he joins a team; a flag that changes hands may rally the players near it.

## The modules

| module | stands for |
|---|---|
| `Teams` | the team numbers |
| `Match` | what a match promises, whatever the players do: a series of at most mp_rounds rounds, each ended once, in which at most one team gains at a time and only a restart takes points back |
| `Fullcap` | `CountHeldFlags`, `CheckFullcap`, `CheckTicketDrain` as operators on the owners of the flags |
| `RoundControl` | `CHL2MPRules::Think` and everything it calls on rounds, scores, tickets, deadlines; joining, dying, leaving, capturing and the map's triggers as they act on those |
| `CaptureFlag` | one `CFlag`, with a radius or with a trigger, and the players around it |
| `Custody` | what capture the flag promises, without places and players: in whose hands each flag is, and when a team scores |
| `CtfFlag` | the `CtfFlag`s of a map, `CTriggerCTFCapture`, and the players who carry flags about |
| `PlayerScores` | `NScorePreserve`, the mutes it keeps, what earns points, the gun game, and the search for the winner |
| `Rally` | `BG3Buffs` on the server, and the slowing of a player who is hit |
| `ClassQuota` | `NClassQuota`, `AttemptJoin`, and what changes of team and class, bots and disconnections do to its counters |
| `Election` | both `CElectionSystem`s, the automatic map choice, rock-the-vote |
| `MCRoundControl`, `MCCaptureFlag`, `MCCtfFlag`, `MCPlayerScores`, `MCRally`, `MCClassQuota`, `MCElection` | small instances for TLC |
| `RoundControlProofs`, `CaptureFlagProofs`, `CtfFlagProofs`, `PlayerScoresProofs`, `RallyProofs`, `ClassQuotaProofs`, `ElectionProofs` | theorems about them |
| `SequenceLemmas` | what removing from a sequence, adding to it and picking from it leave, for the queues of `ClassQuota` and `PlayerScores` |

`RoundControl` extends `Fullcap`, and implements `Match` under the mapping stated at its end:
phase is "over" after `GoToIntermission`, "verdict" while `m_bIsRestartingRound` is set, "play"
otherwise.  `CaptureFlag` looks into what `RoundControl` abstracts to "some flag is captured by a
team with a living player" (`Capture`) and "is given up" (`Uncap`).  `CtfFlag` implements `Custody`
under the mapping stated at its end: a flag is in the hands of its carrier's team, lost when it lies
somewhere, otherwise at home.

### RoundControl

A frame is the sequence `ThinkStart`, `ThinkFlags`, `ThinkBalance`, `ThinkGameReset`,
`ThinkRoundReset`, `ThinkWave`, `ThinkRoundEnd`, linked by `stage`; `ThinkGameOver` and
`ThinkTimeUp` are the frames that return early.  Nothing else runs inside a frame, so the events
have the guard `stage = "idle"`.  The blocks are kept apart because each reads what the ones
before it wrote (a full cap restarts the round that the end of the frame then judges).

Time is relative: `left[k]` is a deadline minus the current time, in frames.  A deadline that has
passed stays at -1, which tells `<=` from `<` in the code.  `m_flNextRoundRestart` is `FLT_MAX` at
first; it is read only when `m_bIsRestartingRound` is set, after it has been written.

What is abstracted: the order of players in a team's list (a wave that runs out of tickets may
reach any of them); a team's score and its console variable, which mirror each other, are one
variable; the one-second cadence of the auto balance (every frame here); positions, so that any
living player may capture; what the periodic think and the votes do.  `fraction` counts half
tickets.  The settings of a map (`cvar`) do not change during it.

Details a reader will stumble over, all of them the code's: a team has no tickets until the first
`RestartRound`; `HandleScores` may be called by a map during the intermission and then still
scores, and restarts play in a match without rounds (`Match!Epilogue`); a full cap restarts the
round without ending it and without resetting the clock.

### CaptureFlag

`Think` runs 8 times a second; between two Thinks players enter, leave, die, change teams,
disconnect.  `Think` composes `ThinkCapped` and `ThinkUncapped` as the code does.  `listed` says how
often the trigger's lists contain a player (`CUtlVector`, which may hold him twice).  The trigger
branches look players up by entity index, so `Slot` is part of the model and `Indexed` is the set
they find.  `stood` is a history variable for the properties: for how many Thinks a team has stood
alone on the flag, in sufficient number.  Left out: the team bonus paid while a flag is held, sounds,
the buff a flag gives, `mp_flagmode` (which can make Enable a no-op), and LMS, where flags are off.

### CtfFlag

The flags a team may take are its opponents' (`iTeam`, here `forTeam`) or neutral.  `holder` is the
flag's parent, `lies` the place where it was dropped; both empty, it is at home.  A place stands for
everything within the pick-up radius of a point.  `Think` goes through the players near the flag in
the order of their indices, and what it does to the flag changes whom it finds next: an opponent may
send a dropped flag home (`Senders`), and the search goes on there (`Reaching`); and after a pick-up
the flag's local origin is that of its new parent, so the search goes on round the origin of the
map's coordinates (`Later`, around the place `World`), for players who take the flag from its
carrier.  With `sv_ctf_capturestyle` 2 a team whose own flag (any flag not for it, neutral ones
included) is away may neither take nor hand in (`Blocked`); the first player who is denied ends the
search.  `Touch` hands in everything a player carries, and gives him back his speed.

`RemoveSelfFromFlags` is on every path out of life (`Die`, `ChangeTeam`, `Disconnect`); `Restart` is
`ResetFlags` with everybody spawned, sides changed or not.  `ResetFlag` calls `SetActiveState` with the
flag's spawn flag, which undoes what the inputs Enable and Disable have just done: whether a flag is
on is a constant of a map (`IsActive`), and all four inputs amount to sending it home.
`QuickSwitch` is a change of class that takes effect at once and clears all speed modifiers.
Left out: flags of another `mp_flagmode` (never on; the setting restarts the map when it changes),
the bonus of a capture (one point here), sounds and outputs, and the intermission, where players are
frozen.

### PlayerScores

An entry of `saved` is a `scoreinfo_t`.  A player is known by his account when he has left and by
his index while he is here; the model gives each account one index.  `Restore` is
`NotifyConnected`, which `ForceJoin` calls whenever the player has no damage score: on joining, but
also on any change of class or team of somebody who has not hit anybody.  `Save` is
`NotifyDisconnected`, which the intermission skips.  `Flush` keeps the mutes: of the entries only those that `Mutes` names, in their order and without their points.  Points are counted in units of a
flag or a kill, damage in units of a hundred; what a `short` can hold is far away.

`credit` (points earned since they were last set to zero), `lapsed` (entry lost meanwhile),
`sentence` (whom an admin wants muted), `astray`, `ranks` and `champion` are history variables for
the properties and guard nothing (`credit` also bounds what is earned).  In a gun game `RankUp` is
`PlayerKilled`: the killer's kit and points, the victim's if he was killed with a bottle, and the end
of the match with the last kit; `CMultiplayRules::PlayerKilled` adds a point.  `Announce` is the
search for the winner in the first frame of the intermission, which always ends with the first player.

### Rally

A player has one effect and one timer, whoever started it: an officer's order, a flag, or a hit.
`next` are the times of the teams' next orders, which are server variables and outlive the map.
`PostThink` ends an effect whose time is over; `Lag` is how late it may come.  `call`
is a history variable: when the order a player is under was given.  "Rally round" differs from the other three orders (it
makes a slowed player move, and protects from being slowed), so two orders stand for the four.  Who
is near the officer, which class may give orders and how hard a hit is are left open.  Left out: the effects themselves
(stamina, speed, view), and `mp_endrally_*`, which only the client reads.

### ClassQuota

A class is a team and a number.  `total` and `bots` are the two counters of each class's
`SPopulationCounter`, `future` is `g_qFutureBotClasses` (offers of free places to bots) and
`removals` counts the entries of `g_qRemoveBotClasses` (requests that a bot leave a class).
`limit` holds the three limits of each class; which one applies depends on the number of clients
at the moment, while the lists of infinite classes and the first offers are made when a map starts
and nobody is connected (`Infinite`, `FirstOffers`), and are not made again:
`NotifyClassLimitChanged` has no caller.  A bot that is being added is a client already when it
joins, hence the argument `n` of `Notify`.

`Notify` is `NotifyPlayerChangedTeamClass`: out of the counters of the class left, into those of the
class taken, with what both do to the queues.  `ForceJoin` is that and the change of team.
`AttemptJoin` of the code checks limit and balance, may send a bot to the other team, then moves the
player; when a bot makes room the second half is `FinishJoin`, and `pending` keeps everything else
from happening in between, as it is one call.  Its third component is history: the lead of the team when
the player asked, by which `JoinsKeepBalance` judges the bot's move and `FinishJoin` together.  The class a player is counted under is his team with
`m_iNextClass`, which a living player changes before he spawns in it (`NextClass`).  A bot looks at
the queues when its mind finds it dead (`ThinkDeath`, once per death: `awake`).  Requests to remove
a bot may outlive their reason; the code lets them, and so does the model, up to `MaxRemovals`.

A player who leaves during the intermission is not taken out of the counters, because
`ClientDisconnect` skips the game rules while `g_fGameOver` is set; they stay too high until the
next map starts afresh.  `CountersExact` is therefore about a match in play.  Left out: settings
that change during a map; what `CheckForForcedClassChange` did is commented out in the code.

### Election

Times are frames since the map started.  `clock` is `GetMapElapsedTime`; `ThinkPlay` is a frame of
`CHL2MPRules::Think`: every `Period` the periodic think with `AutoMapchoiceElectionThink`, then
`ElectionThink` of the American and of the British system, then the delayed change of the map.
`ThinkTimeUp` and `ThinkGameOver` are the frames that return early, and they hold no elections.
Everything else is a command of a player or an admin, or somebody joining or leaving between two
frames.  A player's vote goes to `System(v)`: `GetActiveElectionSystemForTeam`, the system of an
election of everybody or that of his team.  The last vote of all (`AllPlayersVoted`) finishes an
election at once; `counts` are the numbers `CPlayerResource` counts every two seconds
(`UpdatePlayerData`), so they may be out of date when it does.

Operators carry the chain of calls: `MapElection` is `CreateMultichoiceMapElection` with the refusals
of `CreateElection`, `AutoElection` and `AutoFlag` are `AutoMapchoiceElectionThink`, on the elections
and on `m_bRtvComplete`.  `FinishElection` gives what the results do: a kick, the next map, a change
of the map in five seconds.  The kick is queued as a server command by the code and is immediate
here.  Maps that may be chosen, and their order, are the constant `Options`; how they are nominated
is not modelled.

A team is `Nobody` while a voter is away; he is the same person (Steam id) when he returns, and
votes he has cast stay.  `match` says whether the map is played in rounds, and how many bots
`counts` includes.  A match in rounds runs on after `mp_timelimit`; no election can be created then.

## The runs

| run | checks | what it shows |
|---|---|---|
| `combat` | `TypeOK`, `RoundInRange`, `PointsFollowPlayers`, `MatchPromise`, `MatchEnds` | two players, last-man-standing and ticket settings, with and without auto balance, admin and swaps; a match with rounds that no admin tends ends, and the next map follows |
| `skirmish` | `VerdictIsFresh`, `FullcapIsEarned`, `MatchPromise` | two flags; rounds by the clock, and a match without rounds |
| `flag` | `TypeOK`, `HoldersAreOwners`, `ListsAreExact`, `CaptureIsEarned`, `LossIsDeserved`, `CaptureHappens` | five kinds of flag, two players |
| `quota` | `TypeOK`, `CountersExact`, `OffersAreFree`, `LimitRespected`, `JoinsKeepBalance` | two players and a bot join, change team and class, make room, are moved, die, leave, in and out of the intermission |
| `elections` | `TypeOK`, `NoClash`, `OneVoteEach`, `RtvStaysOnItsMap`, `NotCutOff`, `EarlyEndMissesNobody` | two voters, an admin and the server start elections of every kind, in a match with a time limit or in rounds with a bot |
| `ctf` | `TypeOK`, `CustodyIsLegit`, `NoStandoff`, `CarriersAreSlowed`, `CustodyPromise`, `FlagsComeBack` | two players, two flags on four maps: carriers are alive, entitled and slow, teams never hold each other up, scoring keeps to the rules of `Custody`, and lost flags come back |
| `scores` | `TypeOK`, `ScoreIsPreserved`, `MutesSurvive`, `ForgottenOnTime`, `ReachedWinIsEarned` | up to two players, one of them in the last slot, come, go, score and are muted, in matches and in a gun game |
| `rally` | `TypeOK`, `OneOrderAtATime`, `NobodyWaitsLonger` | three players under orders, flags and hits, through rounds and changes of the map |
| `lost_rtv` | `RtvHonoured`, violated | see findings |
| `stale_verdict` | `VerdictIsFresh`, violated | see findings |
| `wrong_winner` | `WinnerIsBest`, violated | see findings |
| `kept_rank` | `WinIsEarned`, violated | see findings |

Each property of a passing run has a mutant in `PROJECT.json`: a small change of a modelled
operation that breaks it (`NoTicketCheck`, `OneRoundMore`, ... stand next to the definitions they
replace).

**Bounds.**  Two players suffice for a team to be empty, wiped out, equal or bigger, and for the two
teams to contest a flag.  Two flags suffice for a full cap to be partial, neutral, or contested.  Two
rounds have a first, a half-way and a last; the match an admin interferes with has one
(of a longer one, the theorems say the same).  Delays are 1 to 4 frames, so that every order of two
deadlines occurs; `MaxScore` stops captures, deaths and map triggers (not the round loop) once a
score has reached it; `MaxTouch` bounds how often one player may be on a list.  The round numbers and
the deadlines need no bound.  In `quota` a limited and an unlimited class stand for the classes;
`MaxRemovals` bounds the queue of removal requests and `MaxPopulation` what absent players add to
the counters in the intermission.  In `elections`, a map of four frames has room for an election
that is refused for being too early, one that is allowed, and one that is too late; `MaxVotes` (two
in a timed match, one in rounds) lets everybody vote in one election or one person in each;
`MaxStale` lets one person move before the players are counted again, `MaxOrders` is one command of
the admin on each map, and `MaxClock` ends matches in rounds.  One map is enough to tell "chosen"
from "not chosen", since no property compares maps.  Everybody is symmetric.

In `ctf`, three places are the two bases and a field round the origin of the map, where flags are
dropped, and where a second player takes the flag from the first; the four maps have both capture
styles and both return styles (where the first capture style is, only the Americans score), flags of both teams, of one team (which one player can carry
together), neutral ones, and one that is off.  `ReturnTime` 1 tells a flag that is due from one that
waits.  `MaxScore` 1 stops a team once it has a capture, which may be of both flags handed in
together.  The players are not symmetric, since `Think`
goes through them in order.  In `scores`, `PreserveTime` 1 of `MaxClock` 2 lets an entry expire and
another one not; `MaxSaved` 2 lets one account have two entries or two have one each; two kits are a
first and a last one; a point, a unit of damage and its opposite suffice, as all rules only ask whether
damage is zero and add points.  With two players the gun game is of bots, who are not saved; the
admin and spectators are with one player, who is enough for what they do to him.  `MaxClients` 2 puts
the second player in the last slot, which a restart of the gun game does not reach.  In `rally`, an order of one unit, a lag of one and an interval
of four are the smallest numbers `TimeAssumption` allows (the code has 10 s, 20 s in line battles, and
30 s); `MaxTime` 5 has room for an order at the first moment and the next one of the team.  Three
players are an officer, one of his men, and one who changes sides.

**Fairness.**  `WF_vars(Think)` in `RoundControl` and `CaptureFlag`, and of each flag's `Think(f)` in
`CtfFlag`: the engine runs a frame, and an entity's next think, again and
again.  No fairness is asked of players, admins or maps.  `MatchEnds` is stated for matches without
admin commands, because a restart can be repeated for ever, and not for skirmishes, because full
caps can be; `CaptureHappens` is stated for flags whose inputs the map does not use.
`FlagsComeBack` says that a dropped flag does not lie for ever: it is taken, or sent home by an
opponent, by the map, by a round, or by its own `Think` when its time is over.

## Findings

* **A stale verdict** (`stale_verdict`).  When a team is wiped out the winner is worked out and the
  round is to end five seconds later.  If a player joins the dead team meanwhile and is spawned, the
  condition is false and the round goes on, but `m_bIsRestartingRound` stays set.  The next time the
  round is decided the code skips the verdict and awards it to the earlier winner, with no delay.  In a
  skirmish the condition is the clock alone and cannot become false again: `skirmish` passes.
* **The wrong winner** (`wrong_winner`).  The search for the winner of a free-for-all compares the score
  of the winner so far, not of the candidate, with the best score, so the first player stays the winner.  In a gun game the same search decides which team has won.
* **A lost vote** (`lost_rtv`).  When enough players rock the vote while an election runs in the
  American system, or when too little time is left, `CreateMultichoiceMapElection` clears
  `m_bRtvComplete` and is then refused by `CreateElection`.  The request is dropped, where the
  comment says it "will happen later instead", and `g_bRtvTempDisable` keeps players from repeating
  it on this map.  (With the British system busy it does wait.)

* **A kept rank** (`kept_rank`).  `ResetGunKitsOnPlayers`, which "sets them all back to the starting kit"
  (`server/bg3_gungame.h:58`), stops at `i < maxClients` (`server/bg3_gungame.cpp:112`), although the last
  index is `maxClients`.  The player in the last slot of a full server keeps his kit when the
  match is restarted, and wins the next game with fewer ranks than the others need.  `ReachedWinIsEarned`
  states what holds of everybody else, with somebody in the last slot.

Read from the same code and not shown by a run:

* *Rounds.*  `mp_tickets_timelimit` is honoured when the last ticket is spent by a respawn
  (`server/team.cpp:521`) but not when it is drained (`:540`).  A flag that counts for one side's full cap
  only is still counted as held by the other side, and makes up for a flag it lacks
  (`CountHeldFlags`); the hypothesis `CountForHolders` leaves such flags out, and the maps of `skirmish` have flags
  that count for both.
* *Flags.*  On a flag that is not uncappable, attackers who are relieved by owners between two Thinks
  keep their capture time and, back alone, capture at once (`server/bg2/flag.cpp:453`).  The trigger
  branches use positions in the trigger's list as entity indices (`:616`), so a lone capturer is not put on the list
  of holders, and a flag with UncapOnDeath falls at the next Think; `HoldersAreOwners` is about
  flags with a radius.  A flag with a trigger that is turned off and on keeps on its lists the players
  who left meanwhile.  The hypotheses `SteadyTriggers`, `OwnersAreUncapped` and `GuardedTriggers` leave these flags out, and the
  flags of the run satisfy them.  A flag for one team only cannot be guarded
  against capture by the other team standing on it (`LossIsDeserved` says so).
* *Capture the flag.*  A class that is changed at once sheds the flag's weight (`CheckQuickRespawn`;
  `CarriersAreSlowed` is about maps without).  Enable and Disable have no lasting effect.  With capture style 2 a neutral flag can
  never be handed in, as it is itself a flag that is away.  A flag taken near the origin of the map may pass on to another player at once.
  A flag that the map sends home from a carrier's hands leaves him slow until he spawns.
* *Scores.*  Who joins the spectators while alive gains a point (`server/hl2mp/hl2mp_player.cpp:1411`
  balances a loss that `CMultiplayRules` no longer inflicts), so `ScoreIsPreserved` is about servers without
  spectators.  A muted player who leaves before he has joined a team may be unmuted by his second entry,
  and an admin's decision about somebody who has not joined yet is overwritten by the entry
  (`astray`).  Mutes outlive the map with the removal times of the old clock, and as only the front of the queue is
  looked at, later entries stay longer than they should (`ForgottenOnTime` is about servers without mutes).  The mutes
  of connected players end with the map.
* *Rallies.*  An order that finds only players who are under one already uses up the interval.
  `OnRallyEffectDisable` runs after the flags are cleared, although its comment says that they "haven't been
  cleared yet".  A flag that turns neutral rallies unassigned players.
* *Votes.*  `m_bResultValid` is worked out but never used, so
  `sv_vote_min_turnout` has no effect; `AllPlayersVoted` compares with `==` a number of votes that
  includes departed players and a number of players that may be old, so it may end an election
  that some have not voted in (`EarlyEndMissesNobody` states the case where it does not);
  `rtvcancel` does not clear `m_bRtvComplete`, so a choice that waits is held all the same.
* *Classes.*  `NotifyClassLimitChanged` is never called, so a class that has no limit in a small game
  keeps none for bots in a large one.

## The proofs

Every safety property of the passing runs, invariant or action property, and both refinements are
theorems, for all values of the constants that satisfy the named assumptions of the modules.  Where a
property is not true of everything the code lets a server configure (see the findings), the theorem
has a hypothesis on the constants.  Each hypothesis is a definition of the component's module, next
to the property; most MC modules assume it of their instance, so that TLC evaluates it and no theorem is
about nothing.

### RoundControl

`RoundControlProofs` proves, for any finite set of players and flags and any settings:

* `TypeCorrect`: `Spec => []TypeOK`;
* `RoundStaysInRange`: `Spec => []RoundInRange`;
* `MatchKept`: `Spec => MatchPromise`, that the round loop implements `Match`;
* `PointsFollowTheirPlayers`: `Spec => PointsFollowPlayers`;
* `FullcapsAreEarned`: `CountForHolders => (Spec => FullcapIsEarned)`;
* `VerdictsAreFresh`: `EndedByClock => (Spec => VerdictIsFresh)`.

The inductive invariant of the first two is `Inv == TypeOK /\ RoundInRange`.  `TypeOK` alone is inductive except for
the ends of rounds, where `HandleScores` needs the round number's type; `RoundInRange` needs
`TypeOK` for `cvar` and `round`.  The lemmas follow the code's structure: one on what `Spawn`,
`ForceJoin`, `RestartRound`, `AddScore` and `HandleScores` leave behind, then one per action of
`Think`, one for the events, one for stuttering.  That tickets are natural numbers is where the check in
`RemoveTicket` is used; that only players of a playing team are alive rests on `RestartRound` and
`ForceJoin` computing `alive` from the teams they assign.  The refinement needs one more invariant,
`Ended`: a frame is never past its first block in the intermission, and a match with rounds is over in
its last round only; then each block and each event is shown to be a step of `Match` or a stutter.

The full cap compares numbers: how many flags a team holds with how many count for it.  They
speak of the same flags because of `HeldByRight`: a flag is held by a team it is for or by the one it
started with.  With `CountForHolders` (a flag that counts at all counts for whoever may hold it) the flags
held are among those that count, and are as many only if they are all.

`EndedByClock` says that rounds end by the clock and no admin restarts them; without it the property is
false (`stale_verdict`).  The invariant is `Calm`: nobody has asked for a restart, and once there is
a verdict it is fresh and the time of the round stays over until the next round starts.

### CaptureFlag

`CaptureFlagProofs` proves, for any finite set of players, any slots and any kinds of flag:

* `TypeCorrect`, `HoldersOwn` (`HoldersAreOwners`), `ListsStayExact` (`ListsAreExact`);
* `CapturesAreEarned`: `SteadyTriggers /\ OwnersAreUncapped => (Spec => CaptureIsEarned)`;
* `LossesAreDeserved`: `SteadyTriggers /\ GuardedTriggers => (Spec => LossIsDeserved)`.

`HoldersAreOwners` and `ListsAreExact` are inductive given the types: a Think lists only who stands there of the
owners, and each way to stop being a living owner, or to leave the trigger, takes the player off the
lists, one entry each, which is enough because there is never a second one.

All that a flag remembers of a capture is who captures and when it is due.  `CaptureTimed` connects that with the
history (`stood`): the team that captures does not own the flag and, unless the map is over, has stood there long
enough or the time still to wait is what is missing.  What a Think counts is what stands there, on flags with a radius
by definition and on triggers by `CountsInv`: the lists are exact and hold nobody the flag is not for.
`OwnersAreUncapped` keeps out the flags whose owners cannot interrupt a capture, which are the finding
above.  For losses, `OwnerIsSeen` says that a trigger counts the team that owns its flag.

### CtfFlag

`CtfFlagProofs` proves, for any finite sets of players and flags, any places and any maps:

* `TypeCorrect`, `CustodyLegit`, `NeverStandOff`, `CarriersSlow`: the invariants `TypeOK`,
  `CustodyIsLegit`, `NoStandoff`, `CarriersAreSlowed`;
* `CustodyKept`: `Spec => CustodyPromise`, that the flags implement `Custody`.

The inductive invariant is the conjunction of the four: that a carrier stays slow when others come to
life needs that carriers are alive, and that a flag handed in is a point for its carrier's team needs
that he may have it.  The lemmas say what `ResetFlags`, `RemoveSelfFromFlags` and a pick-up leave
of the flags; the refinement maps a pick-up, with what `Later` players do, to one `Take`.

### PlayerScores

`PlayerScoresProofs` proves, for any players, kits, bounds and rules:

* `TypeCorrect`: `Spec => []TypeOK`;
* `ScoresArePreserved`: `Spec => []ScoreIsPreserved`;
* `MutesAreKept`: `Spec => []MutesSurvive`;
* `EntriesAreForgotten`: `Spec => []ForgottenOnTime`;
* `WinsAreEarned`: `Spec => ReachedWinIsEarned`.

The entries are a queue that is added to at the back and taken from in the middle, and the lemmas say what
each of these leaves: every way to shorten the queue picks some of its entries and keeps their
order (`Picks`), and the rest follows from which ones.

* Points: what is kept of a player are the pairs of an entry of his and a number up to its score
  (`PointsOf`), so that a step's effect on a sum over the queue is the cardinality of a set that
  grows or shrinks.  The invariant is `Absent /\ AllScored`: who is not here has neither points nor a mute,
  who has no team has no damage, who has no Steam id no entry.  It is needed because `Restore` adds
  the entry's points to those in hand and happens only without damage.
* Mutes: `Faithful` says that who has chosen a team has no entry left, and anybody else at most one, which
  says whether he is to be muted.
* Times: `InTime` says that the entries lie in the order of their times and none is later than one made now.
* The gun game: `KitsAreGained`: the kit in the hands of a player with an index below `MaxClients` is a rank gained
  since the game began, and who is not in a gun game has the first kit.  Nothing is claimed of the last
  slot, of which the property is false (`kept_rank`).

### Rally

`RallyProofs` proves, for any players and times with `Duration + Lag + 1 < Interval`:
`TypeCorrect`, `OrdersDoNotOverlap` (`OneOrderAtATime`), `WaitsAreBounded` (`NobodyWaitsLonger`).
`OneOrderAtATime` is not inductive: that a new order meets nobody under an old one follows from
`Current`, that a player's order was given exactly an interval before his team's next one, and ends
before that.  A round, which lets a team rally at once, keeps it by ending the effects of everybody alive.

### ClassQuota

`ClassQuotaProofs` proves, for any finite sets of players and bots and any classes, limits and
settings:

* `CountersStayExact`: `Spec => []CountersExact`, that in play the counters are the populations;
* `NobodyMissing`: in the intermission too nobody is missing from them;
* `TypeCorrect`: `Spec => []TypeOK`; as the counters are natural numbers, no unsigned byte is ever
  taken below zero;
* `OffersStayFree`: `Spec => []OffersAreFree`;
* `LimitsAreRespected`: `RoomInEveryTeam /\ Spec => LimitRespected`;
* `JoinsAreBalanced`: `Spec => JoinsKeepBalance`.

The inductive invariant is `IInv == TypeOK /\ Covered /\ CountersExact`.  `CountersExact` alone is not
inductive, since it says nothing of the intermission, where counters exceed the populations: a
decrement is safe because of `Covered` (population <= counter), which every step keeps.  The
argument is the same for every operation: the lemmas show that moving one person changes a
population by what `NotifyPlayerChangedTeamClass` adds to the counter, so that the gap (`Excess`)
stays; `ForceJoin` is such a move, and `AttemptJoin` is two of them.

For the offers the invariant is the property, class by class (`PlacesAreLeft`): the places taken and
those on offer are together within the limit as long as there is an offer.  Who comes into a class
takes one offer away, who leaves adds one only if there is room.  For the limits, `PendingFree`
carries the check of `AttemptJoin` over to `FinishJoin`, between which only the bot moves; who is
moved without having asked lands in a class without limit, and `RoomInEveryTeam` is that there is one
(`mp_limit_inf_*` has the default -1, `shared/hl2mp/hl2mp_gamerules.cpp:106`).

For the balance the invariant is `RoomIsMade`: while a join is under way, the player is not on the team
yet, the bot has taken two off its lead, and the lead without the player was not negative
(`Crowded`).  The player puts one back, or two if he comes from the other team: the lead of his team is
no greater than when he asked, and that of the other team is at most one.  A join without a bot is judged by
what `Crowded` has refused (`CrowdedMeans`).

### Election

`ElectionProofs` proves, for any finite set of voters, any maps, times, thresholds and settings:

* `NeverClash`, `NobodyVotesTwice`, `RtvIsForgotten`: the invariants `NoClash`, `OneVoteEach` and
  `RtvStaysOnItsMap`;
* `TimeLimitCutsNothing`: `Spec => NotCutOff`;
* `EarlyEndsMissNobody`: `Spec => EarlyEndMissesNobody`;
* `TypeCorrect`: `Spec => []TypeOK`, with no election due after the time limit and every finished
  map choice naming a map.

The inductive invariant is `IInv == TypeOK /\ Sound(election) /\ Timely(election, clock) /\
RtvStaysOnItsMap`.  `Sound` collects what does not depend on the clock: elections of everybody run
alone, nobody has two votes, and each election is due `Margin` before the time limit.  `Timely` says
that none is overdue after a frame, which needs the two `ElectionThink`s of each frame; together they
give `NotCutOff`: in the frame that passes the limit, an election that still ran would be overdue.
The lemmas treat creating an election, finishing one (`Winner` is a map because a non-empty set of
slots has a least element), forgetting a player, and the two systems' thinks one after the other.
That nobody is missed is a count: as nobody votes twice there are as many voters as votes
(`AsManyVoters`), that is as many as the players and bots counted, so at least as many as may vote
(`EntitledAreCounted`); if all voters may vote, they are all.

### Checked by TLC only

The liveness properties `MatchEnds`, `CaptureHappens` and `FlagsComeBack`, which rest on fairness and are out of
the prover's reach; and what the four runs that expect a violation show.

## Not modelled

The repository is a whole Source engine mod, of which the logic of this game is a small part: nearly all of
its lines are SDK entities and characters, the engine's libraries, vendored code, the client's
user interface, tools.  They are either not part of what this mod decides or are geometry,
animation and input and output, where a model would say nothing about orders of events.  The models cover what the mod adds:
most of the code that decides matches, flags, scores, classes, votes and rallies.  Not modelled
of the mod itself:

* weapons, bullets, cannons, turrets, movement, stamina: continuous data and chance;
* line spawn: geometry;
* what bots decide, beyond joining and changing class: chance and navigation;
* permissions, bans, unlockables and experience: look-ups and statistics that the match does not read;
* the periodic bonus of flags, win songs, logs, messages, panels;
* settings that are changed during a map, with the exception of what votes and admins do;
* which maps are nominated.

## The plan

1. *Done:* `RoundControl` with `Match` and `Fullcap`; `CaptureFlag`; `ClassQuota`; `Election`;
   `CtfFlag` with `Custody`; `PlayerScores`; `Rally`; the theorems above.
2. *Done:* theorems for every safety property of the passing runs, with the hypotheses that the findings
   call for.
3. The periodic bonus of a held flag, and a change of `mp_flagmode`; nomination of maps.
