-------------------------------- MODULE Bots --------------------------------
(***************************************************************************)
(* The bots a server runs: how the fill is kept while people connect, join, *)
(* watch and leave and operators add, remove and kick, by a reconciliation  *)
(* that is put off to the next turn of the event loop and whose own joins   *)
(* and parts ask for another; and the worker thread that flies the bots,    *)
(* which is started with the first, stopped with the last, and may die.     *)
(*                                                                         *)
(* Everybody has a slot: `who' is what holds it.  A client may say as it    *)
(* joins that it is a bot ("robot"); a BZFlag client holds a number from    *)
(* its handshake to the end of its login ("reserved"); a bot whose join is  *)
(* refused keeps its slot as a connection without a tank ("mute").  Which   *)
(* bot the fill takes away, and where one goes among the free slots, is     *)
(* left open.                                                              *)
(***************************************************************************)
EXTENDS Naturals, FiniteSets

CONSTANTS
  MaxRealPlayers,   \* MAX_REAL_PLAYERS: tanks
  MaxObservers,     \* TEAM_MODE.limits.observer
  Slots,            \* ids there are for connections: a bound
  MaxEvents         \* what people and operators do altogether: a bound

MaxTotalPlayers == MaxRealPlayers + MaxObservers
Ids == 0..(Slots - 1)

ASSUME BotAssumption ==
  /\ MaxRealPlayers \in Nat \ {0} /\ MaxObservers \in Nat
  /\ Slots \in Nat /\ MaxTotalPlayers <= Slots /\ MaxEvents \in Nat

VARIABLES
  pilotsLoaded,         \* AUTOPILOT_MODULE
  pilotKnown,           \* botFillPilot is one of its pilots
  botsDisabled,         \* GAME_CONFIG.DISABLE_BOTS
  fill,                 \* botFill
  who,                  \* players, by slot
  auto, extra,         \* the keys of `bots': those of the fill, and others
  botReconcileQueued,
  botWorker,            \* it runs
  piloted,              \* the bots it flies
  botWorkerBusy,
  flight,               \* it will send results
  thrown,               \* some bot was closed by other than removeBot
  unasked,              \* something changed what the fill can do, and nothing asked
                        \* for a reconciliation since
  events

workerVars == <<botWorker, piloted, botWorkerBusy, flight>>
settingVars == <<pilotsLoaded, pilotKnown, botsDisabled>>
historyVars == <<thrown, unasked>>
botVars == <<settingVars, fill, who, auto, extra, botReconcileQueued, workerVars, historyVars, events>>

People == {"limbo", "playing", "robot", "watching"}
BotKinds == {"bot", "botWatching", "mute"}

BotTypeOK ==
  /\ pilotsLoaded \in BOOLEAN /\ pilotKnown \in BOOLEAN /\ botsDisabled \in BOOLEAN
  /\ fill \in 0..MaxRealPlayers
  /\ who \in [Ids -> {"free", "reserved"} \cup People \cup BotKinds]
  /\ auto \subseteq Ids /\ extra \subseteq Ids /\ auto \cap extra = {}
  /\ botReconcileQueued \in BOOLEAN /\ botWorker \in BOOLEAN /\ piloted \subseteq Ids
  /\ botWorkerBusy \in BOOLEAN /\ flight \in BOOLEAN
  /\ thrown \in BOOLEAN /\ unasked \in BOOLEAN /\ events \in 0..MaxEvents

BotsInit ==
  /\ pilotsLoaded = FALSE /\ pilotKnown \in BOOLEAN /\ botsDisabled \in BOOLEAN
  /\ fill \in 0..MaxRealPlayers
  /\ who = [i \in Ids |-> "free"] /\ auto = {} /\ extra = {}
  /\ botReconcileQueued = FALSE
  /\ botWorker = FALSE /\ piloted = {} /\ botWorkerBusy = FALSE /\ flight = FALSE
  /\ thrown = FALSE /\ unasked = botsDisabled /\ events = 0

Of(kinds) == {i \in Ids : who[i] \in kinds}
Bots == auto \cup extra
Free == Of({"free"})
Humans == Of({"playing"}) \ Bots             \* countRealPlayers
Tanks == Of({"playing", "robot", "bot"})
Spectators == Of({"watching", "botWatching"})
Less(a, b) == IF a > b THEN a - b ELSE 0
AtMost(a, b) == IF a < b THEN a ELSE b

Wanted_withBots == Less(fill, Cardinality(Tanks))
Wanted == Less(fill, Cardinality(Humans))    \* planBotFill
Happens == events < MaxEvents /\ events' = events + 1

-----------------------------------------------------------------------------
(* addBot and removeBot, of a set.                                          *)

(* What the joins of some new bots leave them as: tanks while there is room *)
(* for tanks, then observers, then connections without either.  The first   *)
(* bot starts the worker.                                                   *)
Added(new, kinds, queued) ==
  /\ kinds \in [new -> BotKinds]
  /\ LET count(kind) == Cardinality({i \in new : kinds[i] = kind})
         n == Cardinality(new)
         tanks == AtMost(n, Less(MaxRealPlayers, Cardinality(Tanks)))
     IN /\ count("bot") = tanks
        /\ count("botWatching") = AtMost(n - tanks, Less(MaxObservers, Cardinality(Spectators)))
        /\ botReconcileQueued' = (queued \/ count("mute") < n)
  /\ who' = [i \in Ids |-> IF i \in new THEN kinds[i] ELSE who[i]]
  /\ botWorker' = (botWorker \/ new # {})
  /\ piloted' = (IF botWorker THEN piloted ELSE {}) \cup new
  /\ botWorkerBusy' = (botWorkerBusy /\ (botWorker \/ new = {}))
  /\ flight' = (flight /\ botWorker)

(* The slots getBotPlayerNumber has to choose from. *)
Vacant == {i \in Free : i < MaxTotalPlayers}

(* A socket that is closed already says nothing; one that closes asks for a *)
(* reconciliation.  The last bot takes the worker along.                    *)
Removed(gone, queued) ==
  /\ auto' = auto \ gone /\ extra' = extra \ gone
  /\ who' = [i \in Ids |-> IF i \in gone /\ who[i] \in BotKinds THEN "free" ELSE who[i]]
  /\ botReconcileQueued' = (queued \/ \E i \in gone : who[i] \in BotKinds)
  /\ botWorker' = (botWorker /\ Bots # gone)
  /\ piloted' = (IF Bots = gone THEN {} ELSE piloted \ gone)
  /\ flight' = (flight /\ Bots # gone)
  /\ UNCHANGED botWorkerBusy

(* reconcileBots, off the event that asked for it.  It gives up filling     *)
(* where addBot refuses: there is no such pilot, or no slot.                *)
Fills ==
  /\ Cardinality(auto) < Wanted /\ pilotKnown
  /\ \E new \in SUBSET Vacant :
       /\ Cardinality(new) = AtMost(Wanted - Cardinality(auto), Cardinality(Vacant))
       /\ \E kinds \in [new -> BotKinds] : Added(new, kinds, FALSE)
       /\ auto' = auto \cup new /\ extra' = extra \ new

Thins ==
  /\ Cardinality(auto) > Wanted
  /\ \E gone \in SUBSET auto :
       /\ Cardinality(gone) = Cardinality(auto) - Wanted
       /\ Removed(gone, FALSE)

ReconcileBots ==
  /\ botReconcileQueued
  /\ \/ pilotsLoaded /\ ~botsDisabled /\ (Fills \/ Thins)
     \/ /\ \/ ~pilotsLoaded \/ botsDisabled \/ Cardinality(auto) = Wanted
           \/ Cardinality(auto) < Wanted /\ ~pilotKnown
        /\ botReconcileQueued' = FALSE
        /\ UNCHANGED <<who, auto, extra, workerVars>>
  /\ unasked' = botsDisabled
  /\ UNCHANGED <<settingVars, fill, thrown, events>>

PilotsLoad ==
  /\ ~pilotsLoaded
  /\ pilotsLoaded' = TRUE /\ botReconcileQueued' = TRUE
  /\ UNCHANGED <<pilotKnown, botsDisabled, fill, who, auto, extra, workerVars, historyVars, events>>

-----------------------------------------------------------------------------
(* People.                                                                  *)

Became(i, kind) == who' = [who EXCEPT ![i] = kind]

(* Whoever comes takes the lowest number: a browser's connection, or the    *)
(* handshake of a BZFlag client, which is a player when its login is over.  *)
Connects(kind) ==
  /\ Happens
  /\ \E i \in Free : (\A j \in Free : i <= j) /\ Became(i, kind)
  /\ UNCHANGED <<settingVars, fill, auto, extra, botReconcileQueued, workerVars, historyVars>>

PersonConnects == Connects("limbo")
NativeReserves == Connects("reserved")

(* It hangs up before: its number is free, and nothing tells the fill.      *)
NativeGivesUp(i) ==
  /\ who[i] = "reserved"
  /\ Became(i, "free") /\ unasked' = TRUE
  /\ UNCHANGED <<settingVars, fill, auto, extra, botReconcileQueued, workerVars, thrown, events>>

(* Its join is refused. *)
NativeRefused(i) ==
  /\ who[i] = "reserved"
  /\ Became(i, "limbo")
  /\ UNCHANGED <<settingVars, fill, auto, extra, botReconcileQueued, workerVars, historyVars, events>>

(* handleJoinGame: an arrival is refused by a full roster, and whoever asks *)
(* for a tank when the tanks are all taken is given a place to watch.       *)
PersonJoins(i, asked) ==
  /\ Happens
  /\ who[i] \in People \cup {"reserved"}
  /\ who[i] \in {"limbo", "reserved"} => Cardinality(Tanks \cup Spectators) < MaxTotalPlayers
  /\ LET roomToPlay == Cardinality(Tanks \ {i}) < MaxRealPlayers
         roomToWatch == Cardinality(Spectators \ {i}) < MaxObservers
     IN \/ asked # "watching" /\ roomToPlay /\ Became(i, asked)
        \/ (asked # "watching" => ~roomToPlay) /\ roomToWatch /\ Became(i, "watching")
  /\ botReconcileQueued' = TRUE
  /\ UNCHANGED <<settingVars, fill, auto, extra, workerVars, historyVars>>

PersonLeaves_ifPlaying(i) ==
  /\ who[i] \in People
  /\ Became(i, "free") /\ botReconcileQueued' = (botReconcileQueued \/ who[i] = "playing")
  /\ UNCHANGED <<settingVars, fill, auto, extra, workerVars, historyVars, events>>
PersonLeaves(i) ==
  /\ who[i] \in People
  /\ Became(i, "free") /\ botReconcileQueued' = TRUE
  /\ UNCHANGED <<settingVars, fill, auto, extra, workerVars, historyVars, events>>

-----------------------------------------------------------------------------
(* Operators.                                                               *)

(* /bot fill and the panel, with the name of a pilot or without.            *)
SetFill(n, named) ==
  /\ Happens
  /\ n # fill \/ named
  /\ n > 0 => ~botsDisabled
  /\ named => pilotsLoaded
  /\ fill' = n /\ pilotKnown' = (pilotKnown \/ named) /\ botReconcileQueued' = TRUE
  /\ UNCHANGED <<pilotsLoaded, botsDisabled, who, auto, extra, workerVars, historyVars>>

(* /set, /reset or a poll over _disableBots: the bots there are stay, and   *)
(* nothing asks for a reconciliation.                                       *)
SetDisabled ==
  /\ Happens
  /\ botsDisabled' = ~botsDisabled /\ unasked' = TRUE
  /\ UNCHANGED <<pilotsLoaded, pilotKnown, fill, who, auto, extra, botReconcileQueued,
                 workerVars, thrown>>

(* /bot add, one at a time; a pilot that is named is known.                 *)
BotAdd ==
  /\ Happens
  /\ pilotsLoaded /\ ~botsDisabled
  /\ \E i \in Vacant : /\ \E kind \in BotKinds : Added({i}, [j \in {i} |-> kind], botReconcileQueued)
                       /\ extra' = extra \cup {i} /\ auto' = auto \ {i}
  /\ UNCHANGED <<settingVars, fill, historyVars>>

(* /bot remove: one by its name, or all, which empties the fill as well. *)
BotRemove(i) ==
  /\ Happens
  /\ i \in Bots
  /\ Removed({i}, botReconcileQueued)
  /\ UNCHANGED <<settingVars, fill, historyVars>>

BotRemoveAll ==
  /\ Happens
  /\ Bots # {}
  /\ fill' = 0
  /\ Removed(Bots, botReconcileQueued \/ fill > 0)
  /\ UNCHANGED <<settingVars, historyVars>>

(* /kick, a ban, a poll or a plugin closes a bot's socket as it would a     *)
(* person's: nothing takes it out of `bots', nor out of the worker.         *)
BotThrownOut(i) ==
  /\ Happens
  /\ who[i] \in BotKinds
  /\ Became(i, "free") /\ thrown' = TRUE /\ botReconcileQueued' = TRUE
  /\ UNCHANGED <<settingVars, fill, auto, extra, workerVars, unasked>>

-----------------------------------------------------------------------------
(* The worker.                                                              *)

(* The interval: one tick in flight at a time. *)
WorkerTick ==
  /\ Bots # {} /\ botWorker /\ ~botWorkerBusy
  /\ botWorkerBusy' = TRUE /\ flight' = TRUE
  /\ UNCHANGED <<settingVars, fill, who, auto, extra, botReconcileQueued,
                 botWorker, piloted, historyVars, events>>

WorkerResults ==
  /\ flight
  /\ flight' = FALSE /\ botWorkerBusy' = FALSE
  /\ UNCHANGED <<settingVars, fill, who, auto, extra, botReconcileQueued,
                 botWorker, piloted, historyVars, events>>

WorkerExits_busy ==
  /\ botWorker
  /\ botWorker' = (Bots # {}) /\ piloted' = Bots
  /\ flight' = FALSE
  /\ UNCHANGED <<settingVars, fill, who, auto, extra, botReconcileQueued, botWorkerBusy,
                 historyVars, events>>

(* It dies: a fresh one takes the same bots, if there are any.              *)
WorkerExits ==
  /\ botWorker
  /\ botWorker' = (Bots # {}) /\ piloted' = Bots
  /\ botWorkerBusy' = (botWorkerBusy /\ Bots = {}) /\ flight' = FALSE
  /\ UNCHANGED <<settingVars, fill, who, auto, extra, botReconcileQueued, historyVars, events>>

BotsNext ==
  \/ ReconcileBots \/ PilotsLoad \/ PersonConnects \/ NativeReserves
  \/ BotAdd \/ BotRemoveAll \/ SetDisabled
  \/ WorkerTick \/ WorkerResults \/ WorkerExits
  \/ \E i \in Ids : \/ \E asked \in {"playing", "robot", "watching"} : PersonJoins(i, asked)
                    \/ NativeGivesUp(i) \/ NativeRefused(i)
                    \/ PersonLeaves(i) \/ BotRemove(i) \/ BotThrownOut(i)
  \/ \E n \in 0..MaxRealPlayers, named \in BOOLEAN : SetFill(n, named)

(* A timeout of 0 fires. *)
BotsFairness == WF_botVars(ReconcileBots)

BotsSpec == BotsInit /\ [][BotsNext]_botVars /\ BotsFairness

-----------------------------------------------------------------------------
(* Properties.                                                              *)

(* The worker runs while there are bots and flies those and no others,      *)
(* through deaths of the worker, removals and slots that are used again.    *)
PilotsMatch == botWorker = (Bots # {}) /\ piloted = Bots

(* The server never waits for a tick that nobody answers: a worker that     *)
(* dies in the middle of one does not hold the next up.                     *)
BusyIsAnswered == botWorker /\ botWorkerBusy => flight

(* The worker keeps up with its server, and the server with its worker.     *)
WorkerKeepsUp == PilotsMatch /\ BusyIsAnswered

(* Whenever no reconciliation is on its way the fill is kept: a bot for     *)
(* every place people leave, or as many as there are slots and pilots for.  *)
(* No join, part, or command of the fill forgets to ask for one.  Three     *)
(* things do: a bot that is thrown out is never made up for, bots that are  *)
(* allowed again wait for the next join or part, and so does a slot that a  *)
(* BZFlag client held and gave back.                                        *)
FillIsKept ==
  pilotsLoaded /\ ~botReconcileQueued /\ ~thrown /\ ~unasked =>
    \/ Cardinality(auto) = Wanted
    \/ Cardinality(auto) < Wanted /\ (Vacant = {} \/ ~pilotKnown)

(* Reconciling comes to rest: the joins and parts it causes itself do not   *)
(* keep it going, adding and taking away.                                   *)
ReconcileRests == <>[]~botReconcileQueued

(* People first: where the fill leaves room for a tank, so do its bots: of  *)
(* the tanks that clients which joined as bots have left, one is free for a *)
(* person who asks once a reconciliation is over, unless people have them   *)
(* all.  Those clients are neither counted nor made way for.                *)
PeopleFirst ==
  LET others == Tanks \ Of({"robot"})
  IN pilotsLoaded /\ ~botReconcileQueued /\ ~thrown /\ ~unasked /\ extra = {}
       /\ fill < MaxRealPlayers =>
     Cardinality(others) < MaxRealPlayers \/ others = Humans

(* At rest the bots stand in for the people who are not there, and for no   *)
(* others.                                                                  *)
BotsStandIn == FillIsKept /\ PeopleFirst
=============================================================================
