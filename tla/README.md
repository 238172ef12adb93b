# A verification model of bzo

bzo is a BZFlag server and browser client: a Node.js process that runs a tank
game for browsers over WebSocket (and UDP or WebTransport) and for native
BZFlag 2.4 clients over their own protocol. This directory holds TLA+ models of
the server's game rules and of the services around them, the TLC configurations
that check them on small instances, and TLAPS proofs of their main invariants
for every instance.

`PROJECT.json` is the index: the components, the runs with their properties, for
every property a plausible bug ("mutant") that breaks it, the source lines each
definition translates, the hazards the properties are for, and the theorems.

## How the server runs, and what an action is

The server is one process with one thread. A message handler, a timer callback
or a tick runs to its end before the next one starts; nothing the game rules do
awaits. So **one action of a model is one handler, one callback or one tick,
with every function it calls**: a kill that ends the match is one action, and so
is the close of a connection with the flag it drops and the team it empties.
The services do await (an answer of the list server, a WebTransport session that
opens, the worker thread that flies the bots): there an action is what runs
between two awaits, and what it read before is state of the model.

What interleaves is everything else: one player's messages with another's, all
of them with the timers that earlier ones left behind, with the game loop, with
operators' commands, and with the answers plugins give. That is where the code
is hard to test, because a timer is set in one life of a tank and fires in the
next, an id or a callsign passes to somebody else in between, and a handler that
returns half way has already changed something.

Geometry, wording, scores and the wire are abstracted: whether a shot hits,
where a dropped flag lands or how a plugin answers is a free choice, so a
property holds whatever the world looks like.

## Inventory

| Component | State | Operations | Interacts with | What is hard | What makes it correct |
|---|---|---|---|---|---|
| **Flags** (`server.js` 14150-15265, `flags.mjs`) | flag slots (type, status, owner, grabs, shots), `teamFlagTimeouts` | grab, drop, capture, theft, shots, antidote, pause drop, `/flag`, the tick's flights, timeouts and insertions | deaths, joins, leaves, team changes, pauses, plugins | every exit of a tank has to release its flag; flags follow the population of teams; timers are cleared by others | one flag per tank, on a tank that is on the field; no flag stuck without owner; team flags come and go with their teams; limited and bad flags are used up |
| **Tank life** (`server.js` 7640-8120, 16158-16348, `messages-play.cjs` 964-1238) | `alive`, `hasSpawned`, three kinds of timers, `rejoinList`, ids and the numbers held for BZFlag clients, `gameOver`, pause countdown | join, death, respawn, rejoin wait, kick, close, end and start of match | plugins that hold or kick, match clock, ids | timers outlive lives, connections and matches; ids are used again | nobody is dead for good; nobody plays between matches; a tank comes back clean; no id has two owners |
| **Polls** (`polls.cjs`, `server.js` 9435-9890) | booth, suffrage, clock, announcements, who asked when | `/poll`, `/vote`, `/veto`, clock, joins and closes | roster, bans, kills | the count is taken again until the action; votes are kept by callsign | votes of those present; a majority decides; polls end |
| **Match clock** (`server.js` 7404-7620, 9900-10030, 16980-17010, `timelimit.cjs`, `client.js` 1037) | `matchClock` (active, start, pause), countdown, `gameOver`, limit, the plugin's own limit, the clock a browser shows | `/countdown`, `/gameover`, the panel, the count, the tick, a score, `timeUpdate` | tank life, plugins, browsers | a count that runs while matches end and start; a limit that changes under a match; a browser that counts by itself | one phase; the time played is the time not paused; browsers show it; a count and a timed match end |
| **Scores and score limits** (`scoring.mjs`, `server.js` 7560-7620) | scores, limits | kill, capture, limit | match clock, tank life | a limit reached in the middle of a kill | arithmetic; the end of a match it causes is in the models of what it ends |
| **Rabbit Chase** (`server.js` 7640-7711, `teams.cjs` 540-632, `rabbittimer.cjs`) | `rabbitPlayerId`, teams of rabbit and hunters | anoint on death, pause, leave, not responding, first spawn | tank life, scores, plugin timer | the rabbit dies, pauses and leaves in any order; a timer follows a deposed rabbit | at most one rabbit, the one the server says; there is one while somebody can be |
| **Shots** (`shots.cjs`, `shots.mjs`, `server.js` 8378, 12170-12400, 15507-16050, `client.js` 14580-14840, 16480-16520) | shots in flight, slots and their reload times, lock targets; on a page the shots it draws, those it drew ahead, the ends that came early | shoot, reload, hit, teleport, expiry, lock, `shotBegin`, `shotEnd` | flags, deaths, channels, ids | a lost or overtaken end; a respawn that clears the slots; a lock or a missile that outlives its player | a slot is one weapon; what is drawn is in the air; a lock names whom it was taken on |
| **Movement checks** (`messages-play.cjs` 335-640) | last positions, cheat warnings | move, report | lag, kicks | jitter | numeric; not modelled |
| **Teams and joining** (`teams.cjs`, `messages-play.cjs`) | team of each player, `nextTeam` | automatic team, limits, `/setteam` | flags, tank life | a change asked for in one life and made in the next | limits hold; nobody is on two sides |
| **Connections and ids** (`server.js` 8012, 13293, 17349-17685, `ws-backlog.cjs`) | `players`, numbers, reserved numbers, send backlog | accept, reserve, enter, close, supersede | everything | ids are reused at once | ids distinct; a slow reader does not stall others |
| **Sessions and sign-in** (`sessions.cjs`, `server.js` 11577-11663) | sessions, page tokens, bzids | sign in, reconnect, sign in elsewhere | polls, names, admin rights | two connections of one account | the newest wins, once |
| **Bans, mutes, operator commands** (`bans.cjs`, `messages-operator.cjs`) | ban lists, mutes | `/ban`, `/kick`, `/mute` | joins | expiry | a banned player does not play |
| **Bots** (`bots.cjs`, `bot-worker.cjs`, `server.js` 17900-18460) | fill, the bots by slot, a queued reconcile, the worker and its tick | `/bot`, `/kick`, reconcile, joins and parts, the tick, the worker's death | roster, BZFlag clients' numbers, worker thread | a reconcile a turn after what called for it, whose own joins call for another; a worker that dies in a tick | at rest the fill is kept and people come first; the worker flies the bots there are |
| **List server publication** (`list-server.cjs`, `server.js` 5440-6040, 13960-14010) | the report in flight and the one behind it; the registry of keys, its file, chains of retries, challenges | report, publish, poll, challenge, retry, revoke, sweep, restart | joins and parts, remote servers, the disk | changes during a report; answers that cross; a write that fails; a crash before or during the write | one in flight, and the last change told; one key per server, on disk as in memory once a write succeeds; retries end |
| **World import and voting** (`remote-world-import.cjs`, `server.js` 4227-4700) | imports in flight, caches | fetch, convert, cache | map change | two requests for one world | one import per world |
| **UDP and WebTransport** (`udp-channel.cjs` on both sides, `webtransport.cjs`, `server.js` 16840-16960, `messages-play.cjs` 310-345) | the server's end and the page's end of each channel, tokens, `lastCt` | init, claim, offer, answer, open, close, fall back | moves, shots, the WebSocket | attempts that cross with reconnections; late, lost and reordered datagrams | one channel per player, at either end; moves never go back; both ends come to agree |
| **Native clients** (`bzflag-server.cjs`, `server.js` 13290-13670) | handshake phase, the number promised | hello, `MsgEnter`, `MsgAlive`, close | tank life, list server | the answer of the list server comes after a close; a socket closes after its player has left | a number is promised once |
| **bzfs proxy, replays, recorder** | session and room state | connect, relay, seek | network | reconnects | - |
| **Voice** (`messages-voice.cjs`, `voice.js`) | rosters, peers | signalling | roster | glare | - |
| **Lag and idle** (`lag.cjs`) | pings, timeouts | ping, pong | kicks | late pongs | - |
| **Game plugins** (`koth`, `keepaway`, `timedctf`, ...) | zone holder, timers | ticks and events | everything | timers follow players who left | the holder is a player in the zone |
| **Chat, bridges, client, autopilots, maps, web server** | - | I/O, rendering, numeric heuristics, parsers | - | - | not modelled |

The `components` of `PROJECT.json` have the same list with sources and status.

## Modules

    FlagRules        operators on flag records: addFlag, resetFlag, dropFlag, ...
      FlagGame         the flag game: one action per handler, timer, tick
        FlagHands        the abstract specification it implements
        MCFlagGame       worlds for TLC
        FlagGame_proof   custody, hands, carriers, teams, superflags
    TankLife         ids, joins, deaths, the timers that bring a tank back, matches
      TankLife_proof   nobody is forgotten, the field is in order
    Rabbit           the post of the rabbit, what clients show of it, its timer
      MCRabbit
      Rabbit_proof     one rabbit, who plays; a post not vacant without need

    Polls            the voting arbiter, its commands, its clock, the voters
      MCPolls          callsigns for TLC
    Locks            whom guided missiles are locked on, by id
      Shots            (extends Locks) slots, flights, and what a page shows
    MCPlay           polls, shots and locks, one instance each
      Play_proof       fair votes, majorities, slots and pictures, locks

    Channels         both ends of a page's UDP channel, over inits and connections
    MatchClock       the match clock, the count to a start, the browser's clock
      Stopwatch        the abstract specification it implements
    ListLink         reports to the BZFlag list: one in flight, one behind
    ListKeys         the keys of bzo's own list, with file, challenges, retries
    Bots             the fill, the roster it shares, and the worker thread
    MCServices       the five services, one instance each
      Channels_proof, MatchClock_proof, Bots_proof
      Services_proof   the lists, and the types of all five (extends the three)

`MCServices` and `MCPlay` hold components that share no state, each on an
instance of its own: a behaviour of the server is a behaviour of each with steps
of the others in between, which leave it alone. The variable `on` (`at`) says
which is followed; the others stay as they began, where none of their fair
actions is enabled. This keeps the number of configurations at one per group
without multiplying state spaces.

### FlagRules and FlagGame

State: `flags` is the array of flag slots, a record each with `type`, `status`
(`FLAG_STATUS`), `owner`, `grabs` and `shots`; a slot is known by its name, a
team for a team flag. `team` and `alive` are the players' fields, `paused` those
whose pause has taken hold, `timeouts` the keys of `teamFlagTimeouts`. A flag in
the air or on its way in or out carries no time: the tick may find any flight
over, which covers every order of landing.

Each action is a handler with what it calls: `Kill` is `killPlayer`, with
`applyGenocide`, the team killer's own death and the win that shakes a bad flag
off the killer; `Capture` is `captureFlag` (the flag goes home before the losing
team dies); `Join` is `handleJoinGame`, also of a player who comes back through
the entry dialog; `JoinKicked` the same when `bz_eAllowSpawn` kicks and it
returns half way; `Leave` the close of a connection; `UpdateFlags` the tick:
landings, then timeouts, then one insertion.

`GhostRespawn` is finding 3 as the flags see it. The death timer of a tank that
has left finds its number in use again and respawns the departed object
(`server.js:16199`); if that one had asked for another team in its last life,
`changePlayerTeam` (8364, 9018-9029) drops the flag of the newcomer, who has the
number now, and treats the team it enters as joined: `resetTeamFlags` deletes the
timeout of a team that is still empty and asks for those of its flags that are
out of the world, which `resetFlag` leaves there as the team is empty. What is
lost is the timeout: a flag that lies about abandoned, the newcomer's own drop
included, then stays in the world with no clock.
`ghosts` are the numbers under which such a timer may be left, `unclocked` the
empty teams whose clock one has stopped; `EmptyTeamFlagLeaves` and
`AbandonedFlagLeaves` except these teams and no others, and are violated without
the exception.

The constants say which server it is: `Native` are BZFlag clients, whose refused
shots are only logged and still take effect; `TeamKillerDies` is `-tk` off;
`JoinHolds`, `JoinKicks`, `OperatorFlags` and `OperatorGives` turn on behaviours
that break some of the properties (below), so that the rest is checked without
them and custody with all of them.

`FlagHands` is what remains when everything about a flag but its owner is
forgotten: hands that open at any time, and close on a flag by picking it up, by
robbing for a price, or by being given it. `HD` in FlagGame is the mapping.

### TankLife

A connection of the model is a `Player` object and is used once; its number is
its id in the map, free for the next arrival when it leaves. That difference is
the point of the module: `DeathTimer` looks an id up (`players.has(victim.id)`),
`RetryTimer` and `RejoinTimer` compare objects. `deaths` counts the timers
`applyDeath` has pending for a tank, as nothing cancels them. `BringBack` is
`bringBack`, with `spawnAllowed` asking the plugins: back, held with a retry, or
kicked. `LastKill` is the kill that reaches a score limit: `endMatch` kills the
victim before the kill itself does, so the victim dies twice with two timers.

A browser's connection is a player at once (`Connect`). A BZFlag client
(`Natives`) is told its number in the hello (`Greet`, `reserved`) and becomes a
player with it when the list server has answered for it (`Enter`), unless it
hung up meanwhile (`HangsUp`). When such a player is kicked or sends `MsgExit`
its player leaves before its socket closes; `LateCloses` are the clients for
which this is followed: the close then hands a number back that may be
somebody else's by now (see *Seen while modelling*).

### Polls

`booth` says whether the arbiter knows a poll; the votes are the sets `yes` and
`no` of callsigns, `suffraged` those who may vote, `maxVotes` the bound taken
when the poll started. `here` are the callsigns in the game; `replaced` and
`dropped` those with a second connection whose close is still to come (a page
that reconnected keeps its rights and counts as a voter; a device whose account
signed in elsewhere loses them). `age` is `elapsed()` in seconds, `asked` the
`pollers` list as an age per callsign. The parts of `tickPoll` are the actions
`TickOpen` (which closes the poll early on success), `TickFailed`,
`TickScheduled` and `TickCarried`; a closed, unsuccessful poll whose success has
been announced matches none of them, as the code then returns having done
nothing.

### Rabbit

`post` is all that `anointNewRabbit` reads and writes of the players: `rabbit`
(`rabbitPlayerId`), `team`, `wasRabbit`, and `seen`, the teams the clients show.
A handler works on it in steps, each an operator that gives the set of posts it
may leave: `Vacated` is "if this player is the rabbit, anoint", `Spawned` is
`playerSpawned`, `Told` a record broadcast, and a set is what is left of the
ranking (a score or a random number). `Join` is `handleJoinGame`, which deposes a
rabbit that observes through `killPlayer` and one that comes back through the
dialog at its end; `JoinKicked` returns before that. `EndMatch` kills the tanks
in the order of the roster, so `Handovers` are the ways the post may pass among
them first. `timed` is what rabbittimer remembers. `GhostRespawn` is finding 3 as Rabbit
Chase sees it: the departed object's record goes out as `alive` with its old team
(`server.js:7757-7761`), and a page that has a tank under that id merges the record
into it (`client.js:10153-10190`), so an observer is drawn as a hunter, or a hunter
as the rabbit, until the next record or `newRabbit` sets it right. `ghosts` are the
ids of tanks that left dead, `misspoken` those a ghost's record has shown wrong
since; `SeenAsIs` excepts these and is violated without the exception. The ghost
also fills a vacant post, as any spawn does. It has the team it left with: nobody
can ask for a team in Rabbit Chase (`isSwitchableTeam`, 9040). Alive tanks of connections
that have not joined (TankLife has them) are left out: they are no candidates.

### Shots and Locks

`Shots` follows one page's tank and what its page shows. `projectiles` are the
shots in the air, `shotSlotFreeAt` how long each slot has to reload, in ticks
that are the parts of a reload; `TimePasses` is time, `ShotsStep` the game loop.
`shotBegin` and `shotEnd` go over the WebSocket (`shotWire`, in order) or over
the channel (`shotAir`, in none, with losses remembered in `lostEnds`). On the
page `drawn` are the server's shots, `pendingLocal` what it drew when its trigger
was pulled, `earlyShotEnds` the ends that came before their beginning;
`previewing` is a look at another map, during which messages are dropped. What a
shot meets is a free choice.

In `Locks`, `seat` is the `Player` object in the place of an id and `meant` the
one a lock was taken on: that a lock "names the right player" can only be said
with both. `armed` is `canLockOn`, GM in the hand or a missile in the air, and
is known by id too.

### Channels

A channel is `<<init, kind>>`, WebTransport or a WebRTC data channel. `theirs`
is the server's end, `mine` the page's; `using`, `heard` and `lastCt` are the
fields of the player, `transport` and `pc` those of the page's module, `starting`
the inits whose `start()` is in an await. Claims (tokens in datagrams), offers,
answers, opens, closes and failures of either end are actions, and so are the
moves in `air`, which arrive in any order or not at all. A connection replaced
by a reconnection is closed by the server in its own time (`closing`).

### MatchClock and Stopwatch

Instants are kept as ages, `age` = now - startTime, `held` = now -
pauseStartedAt, so that `resumeMatch`'s push of the start is `age - held`. The
count to a start (`countdown`) is a timer of its own that runs through whatever
starts or ends a match. `shown` is the browser's clock, which counts by itself
from the last `timeUpdate`; `untold` notes that the TimeLimit plugin changed the
limit, which nobody is told of. `Stopwatch` knows a face (off, running, held) and
the time elapsed; the refinement maps a held match to `age - held`.

### ListLink and ListKeys

`ListLink` numbers the states a server could report; a request carries the
number it was built from, may be taken by the list or fail, and its answer comes
later. `ListKeys` is the designated list server's half: `row` per key, `live`
rows with a report, `saved` what the file says, `pending` a write that is
scheduled, `chain` the entry of the URL's retries, `strays` the timers that no
entry knows of, `checks` the challenges under way. `Crash` keeps the file only.
`WriteFails` is the `catch` of the write (5462): the timer is cleared before the
write and nothing sets another, so the file is left as it was, or cut short, until
something else changes (`unwritten`). A crash in the middle of the write, which
is done in place, leaves a file that does not parse: the server starts with no
keys (`CutShort`).

### Bots

`who` is what holds each slot: nobody, a BZFlag client in its handshake
(`reserved`), a person with or without a tank, a client that joined as a bot of
its own (`robot`, which `isRealPlayer` does not count), an observer, a bot, or a
bot whose join was refused. `auto` are the bots of the fill, `extra` those of
commands. `pilotKnown` says that `botFillPilot` is one of the pilots, `botsDisabled`
is `_disableBots`: without the one `addBot` refuses and the fill is given up half
way, with the other `reconcileBots` returns at once. `unasked` remembers the two
changes that ask for no reconciliation (`SetDisabled`, `NativeGivesUp`). `ReconcileBots` runs a turn after what asked for
it (`botReconcileQueued`) and its own joins and parts ask again. `flight` is a
tick's answer on its way from the worker, `piloted` the bots the worker flies.

## Runs

| Run | Instance | What it shows |
|---|---|---|
| `flag_ctf` | 3 players, 2 teams, 1 superflag slot (`G` limited, Thief) | Carriers are in play (no flag without an owner on a tank, carriers alive, a paused tank keeps no team flag); team flags follow the population of their teams, but for a clock that the death timer of a departed player stopped; the game implements `FlagHands`, and a flag changes hands without touching the ground only by a theft that costs the thief its own |
| `flag_bad` | 2 players, 1 team, a pool slot and a required slot, a bad, a limited and a Thief flag, fairness | Spent flags leave, limited flags leave with the last shot, required slots are never lost, bad flags never lie on the ground again; flights end and an abandoned team flag leaves |
| `flag_all` | 2 players, 1 team, everything on | Custody: owner and status agree, one flag per tank, carriers are in the game on a side |
| `flag_give_orphans` | violation of `NoOrphan` | finding 1 below |
| `life_all` | a browser and a BZFlag client that want the same callsign, plugins that hold, pauses, 2 timers per tank | `FieldIsOrderly`: no number has two owners, nothing alive between matches, observers have no tank and no rejoin timer; a tank comes back with no pause and no countdown of its last life |
| `life_live` | the same with kicks and late closes, without pauses, fairness | Nobody dead is forgotten; a dead tank comes back |
| `life_limbo` | violation of `LimboHasNoTank` | finding 2 |
| `life_ghost` | violation of `GoneStayGone` | finding 3 |
| `play` | polls: 3 callsigns, one of which reconnects, vote time 2, veto time 1, repeat time 1; shots: 1 slot, 2 shots, 1 prediction; locks: 2 ids, 3 seatings; fairness | Votes are of players present, nobody is crowded out, nothing is left to the next poll, a majority decides, polls end unless a voter undoes an announced success. A slot is one weapon, what a page shows is in the air, shots and pictures go. A lock is on the player it was taken on |
| `polls_stuck` | violation of `PollEnds` | finding 4 |
| `rabbit` | 3 players, `-rabbit killer`, team killers die, the plugin waits for one hunter | One rabbit, the one the server names; it plays and wears the team, the post is vacant only when nobody may hold it, clients show every team right, but for the tank of an id under which a departed tank's record went out; a spawn ends the excuse of a deposed rabbit; death deposes |
| `services` | channels: 2 inits, 2 connections, 2 moves; clock: limits 0, 1, 3; link: 3 changes, 1 periodic report; keys: 2 keys, 2 retries, 2 challenges, 3 starts; bots: 2 tanks and 1 observer in 4 slots, 4 events; fairness | One channel per player and page, moves never go back, attempts and disagreements pass; one phase of the match and the time it shows, a stopwatch, counts and timed matches end; one report in flight and the last change told; one key per server and the same in its file unless its last write failed, gone keys come back by a restart from an older file only, retries end; the worker flies the bots there are, the fill is kept, reconciling rests |

**Why the bounds are enough.** Three players are a thief, a victim and a
teammate, or a killer with two victims of a genocide; two teams are needed for
captures and moves, one more slot for superflags, two grabs for a flag that can
be dropped and grabbed again before it is spent
(`flag_bad`, `flag_all`; in `flag_ctf` flags have one grab and `G` one shot, as what is
asked there is whose hands they are in). One number is followed for death timers
of departed tanks (`MaxGhosts`): its ghosts may come back any number of times. In TankLife two connections
are enough for an id to pass from one to the other, and two pending timers cover
the double death of `LastKill`; for a number promised to one and given to
another without a late close the proof has every number of connections (with
one it takes three). In Polls the callsigns are the least number for which a
majority is not everybody; a vote time of 2 and a veto time of 1 give each
boundary comparison (`<`, `>=`, `>`) a second on both sides. In Rabbit three
players are the rabbit, its killer and a third the post may pass to instead;
under `-rabbit killer` the other two styles happen as well, whenever the killer
may not take the post; ghosts come back under one id (`MaxGhosts`). One slot is where shots of one slot meet, and with two
shots one may still be in the air, or in a message, when the next is fired;
the third seating is a newcomer under an id that a lock or a missile still
names. Two connections and two inits are a reconnection whose predecessor's
channel still lives; four of these events reach each crossing of offers, claims
and closes with moves under way. A limit of 3 leaves a second on both sides of
a limit of 1 set while the match runs. Three changes are one in flight, one
that waits and one that replaces what waits. Two keys are a registration and
its successor; two retries have a first, a last and one between. Four slots are
one more than the roster's places, for bots whose join is refused or numbers that
are held; four events are a roster that fills and one change more.

Bounds on timers, losses, moves, requests and events are constants of the
specifications and guards of their actions; ages stop at the first value past
their last comparison, which loses nothing. `services` says `CHECK_DEADLOCK
FALSE` because a service may stop: a server leaves the list, its events are used
up.

**Fairness.** FlagGame assumes that the game loop (`setInterval`, 16 ms) goes
on and that a flight or timeout that is due is handled: each tick compares the
wall clock. TankLife assumes that a timer that is set fires, that a wait runs
out, that a socket told to close closes, and that a plugin does not answer
"hold" for ever. Polls assumes that seconds pass and that `tickPoll`'s interval
goes on. Shots assumes that time passes, the game loop turns, frames are drawn,
the WebSocket delivers, and a datagram arrives or is lost. Channels assumes that
an attempt's own timeout fires, that a session offered opens or fails, and that
each end hears of the other's close. MatchClock assumes seconds, ticks and the
count's interval; ListLink that the list answers (or the request times out);
ListKeys that a challenge times out (8 s) and timers fire; Bots that a
`setTimeout(0)` runs. Nothing else is assumed: nobody has to play, vote, leave,
connect or start a match, and nothing that was lost is sent again.

## Proofs

TLAPS proves, for any players, flags, callsigns, times and settings that satisfy
the ASSUMEs of the modules:

- **FlagGame_proof, custody (`FlagTypes`, `CustodyHolds`)**: an owned flag is on
  its owner's tank, no player has two, and the owner is in the game on a side.
  The argument: every operator of FlagRules is a *release*
  (`Releases`: it may take flags off tanks and never puts one on), releases
  compose, and custody survives every release (`QuietStep`). A flag gets onto a
  tank in three places only - `Grab`, `Steal`, `FlagGive` - and there the
  taker's hands are empty (`TakeStep`). Changes of the roster need in addition
  that whoever leaves a side has released its flag (`RosterMoveStep`). The
  invariant is not inductive by itself: a grab asks for a tank that is alive,
  not for a player with a side, so `AlivePlays` (whoever has a tank is on a
  side) is the strengthening. Everything below rests on it.
- **FlagGame_proof, hands (`GameIsHands`, `FlagsAreInHands`,
  `HandoversSpendTheThief`)**: the game implements `FlagHands` when everything
  about a flag but its owner is forgotten, with `/flag give` as the abstract
  `Give`. A release opens hands (`ReleasesOpenHands`), and the three other places
  are `Take`, `Rob` and `Give`. The theft is the step to look at: spending the
  thief's flag, moving the victim's and counting the shot that did it come in one
  handler, and the last may drop what the second moved (`StealRobs`: then it is
  a release, else a robbery). Without operators that give flags, the flag paid
  with is the Thief flag itself.
- **FlagGame_proof, the life of a flag (`NoFlagIsOrphaned`, `SpentFlagsLeave`,
  `SuperflagsAreUsedUp`, `StickyFlagsAreSpent`)**: one invariant, `Sound`, of each
  flag by itself (`Coherent`): what its status, type, grabs and shots say of each
  other. Every operator of FlagRules keeps it, and an operator's commands break
  parts of it that are stated under the setting that turns them off:
  `/flag give` leaves a flag on a tank without an owner, and gives again a pool
  flag that it has just sent home and that has lost its type by that
  (`~OperatorGives`); `/flag up` empties a required slot (`~OperatorFlags`). `SpentFlagsLeave` and `StickyFlagsAreSpent` need no
  setting. The types of the world may not be named like its teams, which the
  proof found missing among the assumptions (`TypesAssumption`).
- **FlagGame_proof, carriers (`CarriersAreAlive`, `CarriersStayInPlay`)**:
  `InPlay` has the two halves under their settings. A carrier is alive unless a
  join leaves its tank dead with its flag on it (`JoinHolds`); a paused tank has
  no team flag unless a BZFlag client steals one with a shot through its pause
  (`Native`), which the server only logs. A side change keeps both because
  whoever leaves the field sheds (`SideMove`).
- **FlagGame_proof, `TeamFlagsFollow`**: `Following` is the two properties as one
  formula on a table of flags, so that it can be asked of the tables between
  the steps of a handler: after the shedding it holds with the old teams, and
  `ResetTeamFlags` and `RetireTeamFlags` bring it to the new ones in whichever
  order sides are left and taken. A plugin's kick out of a join returns between
  the two (`JoinKicks`). A ghost's change of team is one that the table of teams
  does not follow: it can only release flags (`GhostReleases`) and stop the clock of
  the team it is noted for (`GhostFollows`, `StoppedClocks`).
- **TankLife_proof, `NobodyIsForgotten` and `FieldIsHeld`**: a dead player of a
  running match has a timer that will ask for it again or is on its way out; and
  nothing is alive on the field between matches, observers have no tank and no
  rejoin timer, and no number has two owners. `NobodyForgotten` needs
  `RejoinersPlay`, because the rejoin timer does not ask whether its player
  observes by now, and all of them need that a connection not yet in the game
  has left no trace (`NewIsBlank`). The numbers need a pigeonhole: fewer are
  taken than there are connections, so `getNextPlayerNumber` finds one
  (`LowestIsFree`, by cardinalities and well-foundedness of `<`), and that what
  is reserved is what was promised (`ReservedOK`), which late closes would
  break: the theorem assumes `LateCloses = {}`.
- **TankLife_proof, `LifeTypes` and `ReturnsArePlaying`**: types hold whichever
  sockets close late, given that every number promised was promised to somebody
  (`HeldForSomebody`); and what brings a tank back clears the countdown and the
  pause of its last life.
- **TankLife_proof, `OnlyTwoDoors`**: findings 2 and 3 are all there is of their
  kind. A tank comes to life for somebody who is not in the game by the timer of
  a death, which looks up an id that somebody in the game has, or by the start of
  a match; every other way back asks for the player himself.
- **Rabbit_proof**: one rabbit, who plays (`TheRabbitIsOne`); a post that is vacant
  only while nobody may hold it (`PostIsFilled`); clients that agree
  (`ClientsAgree`), but for the ids a ghost spoke for; and no tank that begins a
  life with the mark of a lost post or dies and stays the rabbit while another
  that is alive and not paused may be it: the last to die keeps the post
  (`PostEndsWithLife`). What the clients show is argued for all ids but those that
  were shown wrong before and the one a ghost speaks for (`After`); what is shown
  wrong after the step is then among these (`Accounted`). The
  alternatives of `Picks` exclude each other, as the returns of `anointNewRabbit`
  do.
- **Play_proof, polls (`PollTypes`, `VotesStayFair`, `TheMajorityDecides`)**: the
  invariant adds to the properties that votes are of the suffraged, for one side
  each, and that there is a place for every suffraged callsign. The last is
  where counting connections for the bound and callsigns for the rights comes
  out right: the callsigns are a union, no larger than the sum.
  `TheMajorityDecides` is an action property; it needs the majority to be above
  a half, an assumption on the setting (`votePercentage`, 50.1 by default).
- **Play_proof, `ShotsStayTrue`**: a slot is one weapon because it has as much of
  its reload before it as its last shot has of its range (`ReloadsInStep`); a
  respawn, which clears the slots, takes the shots of the last life out of the
  argument (`Slotless`). What is drawn is in the air because whatever a message
  announces, and the page will draw, still flies, or its end is on the way or
  came first (`PictureInv`: `WillFly`, `ToldOfBegun`, `ShownOnce`).
  **`LocksStayTrue`**: whoever leaves takes the locks on its
  id along, and only a player who sits can be locked on (`LockInv`).
- **Play_proof, `PurgeFilters`**: the list of shots a page waits to hear of is
  oldest first through answers, purges, previews and inits (`PendingInv`), so the
  model's `Purged`, which drops the first entries of it, is the filter of
  `updateProjectiles`: exactly what is too old goes. The first young entry is found by
  well-foundedness of `<`.
- **Play_proof, `PlayTypes`**: polls, locks and shots side by side keep their
  types; those of what a page knows (`ScreenTyped`) need that every message on
  its way is of a shot there is.
- **MatchClock_proof, `ClockStaysRight` and `ClockIsStopwatch`**: a pause is
  never longer than the match it holds (`PauseFits`), and every step of the
  clock is a step of `Stopwatch` or changes neither its face nor its time.
- **Channels_proof, `ChannelStaysOne` and `MovesNeverBack`**: the server's half
  (`ServerInv`) needs that a session that lives belongs to a connection the page
  has had, the page's (`PageInv`) that its ends live only while it holds them;
  `MovesInv` says that moves are numbered, and that is all `MovesNeverBack` needs
  beside them.
- **Services_proof, `LinkStaysOrderly`, `RegistryStaysKept`, `GoneForGood`,
  `AttemptsBounded`**: `LinkInv` counts the requests on their way; `KeyInv`
  needs `OneRegistered` of memory and `OneSaved` of the file, because a restart
  makes one out of the other, of a file cut short too; `RetriesCounted` bounds the attempts of a chain,
  timers astray included.
- **Bots_proof, `WorkerAlwaysKeepsUp` and `BotsAlwaysStandIn`**: the fill is kept
  by a reconciliation because it counts again what it does (`FillInv`), given
  that the lists of bots and the slots agree (`BotsKnown`); the proof counts
  tanks, places and slots with the library's cardinality theorems.

- **`BotTypes`, `ChannelTypes`, `ServicesTypes`**: the types of each service, and
  of the five together. A step of one leaves the others as they
  are (`OneAtATime`), so the invariant of each carries over to `MCServices`. The
  counts of messages on the channel have their bounds because a move is sent once
  (`MovesInv`), and an answer is to an offer that was made (`AnswersTyped`).

A theorem with an ASSUME about a setting holds for every value of the other
constants. The settings are switches of the server or the presence of an actor;
`flag_ctf` and `flag_bad` are runs in which the hypotheses hold, and `flag_all` has
them all the other way.

**Only model-checked.** Liveness, which depends on fairness and is out of the
prover's reach: `DeadComeBack`, `PollEnds`, `FlagsSettle`, `ShotsLeave`,
`ChannelsSettle`, `ClockEnds`, `LastChangeTold`, `RetriesEnd`, `ReconcileRests`.
The violations of the four runs that expect one are TLC's. Every invariant and
every action property of a passing run has a theorem.

## Findings kept as runs

1. `/flag give force` takes a flag off its carrier and calls `grabFlag`, which
   returns early for a paused tank: the flag stays `ON_TANK` with no owner, and
   never lands or is inserted again (`server.js:10392`).
2. `startMatch` brings back whoever is dead and not observing, and does not ask
   whether the connection has joined: a connection still in its handshake gets
   a living tank, which everybody is told of under its placeholder name
   (`server.js:7519`, against `messages-play.cjs:345` and `server.js:17394`).
3. The respawn timer of a death looks its player up by id only, and ids are
   reused at once. If the player leaves and somebody else arrives in between,
   the old object is respawned and announced under the newcomer's id
   (`server.js:16199`). What follows from it is in the models of what it touches
   (`GhostRespawn` of FlagGame and Rabbit): it may drop the newcomer's flag, stop
   the clock of an abandoned team flag, and show the newcomer on the wrong team.
4. A voter who leaves during a poll's veto time takes the vote along, and the
   count is taken again at every tick. If that undoes a success which has been
   announced, the clock returns without forgetting the poll, for ever: no poll
   can be asked for until an operator vetoes (`server.js:9857`).

## Seen while modelling, not kept as runs

Flags:
- `/flag give` of the pool flag the tank already carries resets it first and
  then grabs it without a type (`server.js:10387`; the model has it, in
  `flag_all`).
- A join re-sent by a player with a rejoin wait leaves a dead tank carrying a
  flag (`messages-play.cjs:1119`; `JoinHolds`).
- A plugin's kick in the middle of a change of team leaves the old team's flag
  in the world with nobody on the team (`messages-play.cjs:1123`; `JoinKicks`).
- The shot of a theft is charged to the stolen flag (`messages-play.cjs:803`).
- The insertion schedule refills a required slot after `/flag up`
  (`server.js:15259`), which the comment at 14238 leaves to `/flag reset`.

Tank life:
- A death timer cuts short the wait of a player who rejoined after dying
  (16208 against the comment at 7799), and the first of two pending death timers
  brings the tank back early from a later death (16207).
- A kill that reaches a score limit ends the match before the death it is for
  (16250 against the comment at 16219), so the victim dies twice.
- An in-game join refused for its team still notes the rejoin wait
  (`messages-play.cjs:997`).

Connections:
- When a BZFlag client's socket closes it hands back the number it was given
  (`bzflag-server.cjs:451`), though its player may have left before: a kick and a
  `MsgExit` close the player and not the socket. If the number has been reserved
  for another client by then, whose handshake awaits the list server, a third
  arrival gets it too, and when the second enters, `players.set`
  (`server.js:17363`) replaces the third in the map. The comment at
  `server.js:8008` says the numbers are held "between its handshake, which has to
  name its id, and the player that MsgEnter creates with it". It takes three
  connections: with `Conns = {c1, c2, c3}`, `Natives = {c1, c2}`, `LateCloses =
  {c1}` TLC finds `IdsDistinct` violated in seven states. The runs kept have two
  connections, and `life_all`, which checks `IdsDistinct`, has no late closes.

Shots and locks:
- A `shotEnd` lost on the channel leaves the shot on the page's screen until the
  next init: only beams and proxied shots expire on the page (`client.js:16497`),
  and `hasGuidedShotInFlight` stays true with it. `lostEnds` excepts it.
- If a page's `shoot` is lost, the `shotBegin` of its next shot adopts the older
  prediction, and the shot has two pictures until the purge.
- The comment at `server.js:12213` says jitter cannot make an honest shot look
  early; the slot reloads from the arrival of the last shot, without tolerance
  (12353), so a late message followed by a punctual one is refused.
- `gmUpdate` has no sequence number and goes over the unordered channel: a page
  may keep a lock the server has dropped.
- A respawn clears the slots (`server.js:8378`) while shots of the last life are
  still in the air, so a tank may have more than `SHOT_MAX_ACTIVE` (6570).
- Shots name their shooter by id: one whose player left is credited to whoever
  has the id by then (`server.js:16318`), and its missile is steered by them
  (15993; `armed` has it).

Polls:
- `docs/installation.md:524` says a poll needs two votes besides its starter's;
  the starter's own vote counts towards `votesRequired` (`polls.cjs:193`,
  `server.js:9753`), so one more is enough where it is also a majority.
- The close of a connection left behind takes back the vote its player cast on
  the new one (`server.js:17622`; `Leave` has it).
- A player with the right to vote who changes callsign without leaving (the
  machine's own operator, or one who signed out) keeps a vote under the old
  name; renaming is not in the model.
- A plugin that vetoes from `bz_ePollStartEvent` leaves the rights to vote,
  granted after the event, to the next poll.

Rabbit Chase:
- `rabbittimer` reads the victim's team from a death event that is built after
  `anointNewRabbit` (`rabbittimer.cjs:63`, `server.js:16182`), so it keeps
  timing, and kills, a player who was deposed (`TimedAfter` has it). The test of
  the plugin (`scripts/test-plugins.mjs`) sends a death with the rabbit's team,
  which the server sends only for a rabbit that keeps the post.
- `teams.cjs:575` says bzo has no state like upstream's `notResponding`, which
  keeps a player from being the rabbit; it has (`server.js:14891`), and a silent
  tank is a candidate. Of two silent tanks the post goes from one to the other.
- A rabbit that joins again and is kicked by `bz_eAllowSpawn` stays the holder
  on the hunters' team until its connection closes (`messages-play.cjs:1125`);
  `HolderWearsIt` excepts it.

Match clock:
- `/gameover` of a match without a clock never tells browsers GAME OVER
  (`server.js:7604`), and a match ended by a score does not fire the event on
  which TimeLimit restores the limit (7605).
- A start from the panel leaves a running count alone (`server.js:10021`), which
  restarts the match when it comes to zero.
- TimeLimit changes the limit without a broadcast (`untold`).

List publication:
- A REMOVE at shutdown may be overtaken by an ADD in flight, or followed by one
  that waited (`server.js:13977`, 14004): the list keeps a server that left.
- A challenge answered after a goodbye lists the server again (5856).
- A challenge that passes deletes the entry of the chain and not its timer, so
  two chains may run, against the comment at 5787.
- A write of the keys that fails is logged and not tried again (`server.js:5455-5464`):
  until something else changes, a restart brings a revoked key back or loses a
  new one. `unwritten` excepts it.
- A crash during the write, which is in place and not by a rename, loses every
  registration ("starting empty", 5475), against the comment at 5446-5449: "a
  restart should not silently revoke every operator's registration".
- SIGTERM exits after 500 ms, before the write of the keys a second after a
  change (18553, 5454).

Bots:
- A bot that is kicked or banned stays in `bots` until its slot is used again and
  is never made up for (`server.js:18286`, 17912): `thrown` excepts it.
- A fill as large as `MAX_REAL_PLAYERS` leaves arrivals observer places only
  (18451, `teams.cjs:425`).
- A client that joins as a bot is no person to the fill (`isRealPlayer`, 17910): it
  is neither counted nor made way for. With four tanks, a fill of three and one
  such client all four tanks are bots and a person gets none. `PeopleFirst` is
  about the tanks such clients have left.
- `/set _disableBots` takes no bot away, and when it is set back nothing asks for a
  reconciliation until the next join or part (12684, 18303); nor does a BZFlag
  client that hangs up during its handshake and frees a slot
  (`bzflag-server.cjs:451`). `unasked` excepts both.
- `bots.pilot` of `server.json` is not checked (17880): with an unknown name the fill
  gives up at the first bot (18235, 18308).
- The exit "the bot could not connect" of `addBot` (18243) is not reached:
  `acceptConnection` seats every bot.
- Results of a tick in flight are applied to a new bot in the same slot (18166).
- Pilots that fail to load leave `botWorkerBusy` set.

Channels:
- The answer to an offer may be for a peer the page has replaced; it is given to
  the new one, which then fails (`EndsAgree` shows that it passes).
- `lastCt` orders the moves of the channel only: one that the network delays may
  be taken after a newer move that came by the WebSocket (`server.js:16857`).

## Plan

The order is by how much of the game rests on the component.

1. *Done*: flags, tank life with the numbers of BZFlag clients, polls, the
   rabbit; the match clock as a stopwatch; publication to both lists; bots;
   channels; shots and locks.
2. **A run for late closes** (three connections), and the rest of a BZFlag
   client's session: `MsgAlive` before the answer of the list server.
3. *Done*: **conditional theorems** for what depends on a setting (`NoOrphan`,
   `CarrierAlive`, `PausedKeepsNoTeamFlag`, `TeamFlagsFollowTeams`,
   `SuperflagsAreSpent`), and theorems for every other invariant and action
   property of the runs.
4. *Done*: **an abstract flag game**, `FlagHands`, and that `FlagGame` implements it.
5. **Sessions** (two connections of one account: names, rights, who is closed)
   and **teams** (limits, automatic team, `/setteam` made at the next spawn).
6. **World voting** (single flight of imports), king of the hill and keep away
   (holders who leave, die or change sides while a timer runs), voice signalling.

## Not modelled, and why

Of some 140,000 lines the map covers about 3%. Most of the rest has no state a
model checker could say anything about: the renderer, the input and the HUD,
the parsers and compilers of maps, the geometry of collisions, the translation
between bzo's messages and BZFlag's packets, text in a dozen languages, tests
and tools. Movement, lag averages, autopilots and the traces of shots are
arithmetic on real numbers; parsers, compilers and generators are pure functions
covered by fixtures; localisation, the web server and the chat bridges are I/O.
Of the browser client the match clock, the shots it draws, its UDP channel and
its picture of the rabbit are modelled; the rest follows the server.

In the modelled components the following is left out: respawn positions; the
reminders of a poll and what it is about; scores (except the losses a pause
countdown reads); the ranking of the candidates for the rabbit and the flags of
Rabbit Chase; in Shots the page's own bookkeeping of its slots (`client.js:14616`,
14770), changes of `SHOT_MAX_ACTIVE` while shots fly, reload factors of single
flags, traces, proxied shots and the page's view of locks; in ListKeys other
names of a server, the rows `/list` shows and the cap on keys; in Bots their
pilots, a fill in `server.json` above `MAX_REAL_PLAYERS` (which only the commands
check), and idling (`/bot pause`, nobody connected), which changes only what a tick
says; in FlagGame and Rabbit when exactly the timer of a departed tank fires, and
how many run under one number; in Channels candidates, relays and TURN.
