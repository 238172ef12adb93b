----------------------------- MODULE Bots_proof -----------------------------
(***************************************************************************)
(* The bots, for any number of slots and tanks: the worker flies the bots  *)
(* there are, and at rest the fill is kept and leaves room for people.     *)
(***************************************************************************)
EXTENDS Bots, FiniteSetTheorems, TLAPS

-----------------------------------------------------------------------------
(* The worker.                                                              *)

WorkerInv == botWorker \in BOOLEAN /\ (botWorker <=> Bots # {}) /\ piloted = Bots /\ BusyIsAnswered

\* New bots join those the worker flies, or start it.
LEMMA AddedFlies ==
  ASSUME WorkerInv, NEW new, NEW kinds, NEW queued, Added(new, kinds, queued), Bots' = Bots \cup new
  PROVE  WorkerInv'
<1>1. /\ botWorker' = (botWorker \/ new # {})
      /\ piloted' = (IF botWorker THEN piloted ELSE {}) \cup new
      /\ botWorkerBusy' = (botWorkerBusy /\ (botWorker \/ new = {}))
      /\ flight' = (flight /\ botWorker)
  BY DEF Added
<1>2. botWorker' \in BOOLEAN /\ (botWorker' <=> Bots' # {})
  BY <1>1 DEF WorkerInv
<1>3. piloted' = Bots'
  BY <1>1 DEF WorkerInv
<1>4. BusyIsAnswered'
  BY <1>1 DEF WorkerInv, BusyIsAnswered
<1>. QED  BY <1>2, <1>3, <1>4 DEF WorkerInv

\* Bots that go leave the worker the others, or take it along.
LEMMA RemovedFlies ==
  ASSUME WorkerInv, NEW gone, NEW queued, gone \subseteq Bots, Removed(gone, queued)
  PROVE  WorkerInv'
<1>1. /\ botWorker' = (botWorker /\ Bots # gone)
      /\ piloted' = IF Bots = gone THEN {} ELSE piloted \ gone
      /\ flight' = (flight /\ Bots # gone)
      /\ botWorkerBusy' = botWorkerBusy
  BY DEF Removed
<1>2. Bots' = Bots \ gone
  BY DEF Removed, Bots
<1>3. Bots' # {} <=> Bots # gone /\ Bots # {}
  BY <1>2
<1>4. botWorker' \in BOOLEAN /\ (botWorker' <=> Bots' # {})
  BY <1>1, <1>3 DEF WorkerInv
<1>5. piloted' = Bots'
  BY <1>1, <1>2 DEF WorkerInv
<1>6. BusyIsAnswered'
  BY <1>1 DEF WorkerInv, BusyIsAnswered
<1>. QED  BY <1>4, <1>5, <1>6 DEF WorkerInv

\* What people do is nothing to the worker.
LEMMA OthersFly ==
  ASSUME WorkerInv, UNCHANGED <<auto, extra, workerVars>>
  PROVE  WorkerInv'
BY DEF WorkerInv, workerVars, Bots, BusyIsAnswered

LEMMA WorkerStep == WorkerInv /\ [BotsNext]_botVars => WorkerInv'
<1>. SUFFICES ASSUME WorkerInv, [BotsNext]_botVars PROVE WorkerInv'
  OBVIOUS
<1>1. CASE ReconcileBots
  <2>1. CASE Fills
    <3>1. PICK new \in SUBSET Vacant :
            /\ \E kinds \in [new -> BotKinds] : Added(new, kinds, FALSE)
            /\ auto' = auto \cup new /\ extra' = extra \ new
      BY <2>1 DEF Fills
    <3>2. Bots' = Bots \cup new
      BY <3>1 DEF Bots
    <3>. QED  BY <3>1, <3>2, AddedFlies
  <2>2. CASE Thins
    <3>1. PICK gone \in SUBSET auto : Removed(gone, FALSE)
      BY <2>2 DEF Thins
    <3>2. gone \subseteq Bots
      BY DEF Bots
    <3>. QED  BY <3>1, <3>2, RemovedFlies
  <2>3. CASE UNCHANGED <<auto, extra, workerVars>>
    BY <2>3, OthersFly
  <2>. QED  BY <1>1, <2>1, <2>2, <2>3 DEF ReconcileBots
<1>2. CASE \/ PilotsLoad \/ PersonConnects \/ NativeReserves \/ SetDisabled
           \/ \E n \in 0..MaxRealPlayers, named \in BOOLEAN : SetFill(n, named)
  BY <1>2, OthersFly DEF PilotsLoad, PersonConnects, NativeReserves, Connects, SetDisabled, SetFill
<1>3. ASSUME NEW i \in Ids, NEW asked,
             \/ PersonJoins(i, asked) \/ PersonLeaves(i) \/ BotThrownOut(i)
             \/ NativeGivesUp(i) \/ NativeRefused(i)
      PROVE  WorkerInv'
  BY <1>3, OthersFly DEF PersonJoins, PersonLeaves, BotThrownOut, NativeGivesUp, NativeRefused
<1>4. CASE BotAdd
  <2>1. PICK i \in Vacant : /\ \E kind \in BotKinds :
                                 Added({i}, [j \in {i} |-> kind], botReconcileQueued)
                            /\ extra' = extra \cup {i} /\ auto' = auto \ {i}
    BY <1>4 DEF BotAdd
  <2>2. Bots' = Bots \cup {i}
    BY <2>1 DEF Bots
  <2>. QED  BY <2>1, <2>2, AddedFlies
<1>5. ASSUME NEW i \in Ids, BotRemove(i) PROVE WorkerInv'
  <2>1. {i} \subseteq Bots /\ Removed({i}, botReconcileQueued)
    BY <1>5 DEF BotRemove
  <2>. QED  BY <2>1, RemovedFlies
<1>6. CASE BotRemoveAll
  <2>1. Removed(Bots, botReconcileQueued \/ fill > 0)
    BY <1>6 DEF BotRemoveAll
  <2>2. auto' = {} /\ extra' = {} /\ botWorker' = FALSE /\ piloted' = {}
    BY <2>1 DEF Removed, Bots
  <2>. QED  BY <2>2 DEF WorkerInv, BusyIsAnswered, Bots
<1>7. CASE WorkerTick \/ WorkerResults
  BY <1>7 DEF WorkerTick, WorkerResults, WorkerInv, BusyIsAnswered, Bots
<1>8. CASE WorkerExits
  <2>1. /\ botWorker' = (Bots # {}) /\ piloted' = Bots /\ Bots' = Bots
        /\ botWorkerBusy' = (botWorkerBusy /\ Bots = {})
    BY <1>8 DEF WorkerExits, Bots
  <2>2. botWorker' \in BOOLEAN /\ (botWorker' <=> Bots' # {})
    BY <2>1
  <2>3. BusyIsAnswered'
    BY <2>1 DEF BusyIsAnswered
  <2>. QED  BY <2>1, <2>2, <2>3 DEF WorkerInv
<1>9. CASE UNCHANGED botVars
  BY <1>9, OthersFly DEF botVars, workerVars
<1>. QED  BY <1>1, <1>2, <1>3, <1>4, <1>5, <1>6, <1>7, <1>8, <1>9 DEF BotsNext

\* The worker runs exactly while there are bots, flies those and no others,
\* and the server never waits for a tick that nobody will answer: through
\* joins, removals and deaths of the worker (startBotWorker, stopBotWorker).
THEOREM WorkerAlwaysKeepsUp == BotsSpec => []WorkerKeepsUp
<1>1. BotsInit => WorkerInv
  BY DEF BotsInit, WorkerInv, BusyIsAnswered, Bots
<1>2. WorkerInv => WorkerKeepsUp
  <2>1. WorkerInv => botWorker = (Bots # {})
    BY DEF WorkerInv
  <2>. QED  BY <2>1 DEF WorkerInv, WorkerKeepsUp, PilotsMatch
<1>. QED  BY <1>1, <1>2, WorkerStep, PTL DEF BotsSpec

-----------------------------------------------------------------------------
(* The fill.                                                                *)

FillTypes ==
  /\ fill \in 0..MaxRealPlayers /\ auto \subseteq Ids /\ extra \subseteq Ids
  /\ who \in [Ids -> {"free", "reserved"} \cup People \cup BotKinds]
  /\ botReconcileQueued \in BOOLEAN
  /\ pilotsLoaded \in BOOLEAN /\ pilotKnown \in BOOLEAN /\ botsDisabled \in BOOLEAN
  /\ thrown \in BOOLEAN /\ unasked \in BOOLEAN

\* Until one is thrown out, the bots are the slots that hold one.
BotsKnown == ~thrown => Of(BotKinds) = Bots

FillInv == FillTypes /\ BotsKnown /\ FillIsKept

LEMMA IdSets ==
  ASSUME NEW S, S \subseteq Ids
  PROVE  IsFiniteSet(S) /\ Cardinality(S) \in Nat
<1>1. IsFiniteSet(Ids)
  BY BotAssumption, FS_Interval DEF Ids
<1>2. IsFiniteSet(S)
  BY <1>1, FS_Subset
<1>. QED  BY <1>2, FS_CardinalityType

LEMMA DisjointSizes ==
  ASSUME NEW S, NEW T, S \subseteq Ids, T \subseteq Ids, S \cap T = {}
  PROVE  Cardinality(S \cup T) = Cardinality(S) + Cardinality(T)
<1>1. IsFiniteSet(S) /\ IsFiniteSet(T) /\ Cardinality(S) \in Nat /\ Cardinality(T) \in Nat
  BY IdSets
<1>2. Cardinality(S \cup T) = Cardinality(S) + Cardinality(T) - Cardinality(S \cap T)
  BY <1>1, FS_Union
<1>. QED  BY <1>1, <1>2, FS_EmptySet

LEMMA WantedIsNat ==
  ASSUME FillTypes
  PROVE  /\ Wanted \in Nat /\ Cardinality(Humans) \in Nat /\ fill \in Nat
         /\ Wanted = Less(fill, Cardinality(Humans))
<1>1. Cardinality(Humans) \in Nat
  BY IdSets DEF Humans, Of
<1>. QED  BY <1>1, BotAssumption DEF FillTypes, Wanted, Less

\* What the places of people depend on.
LEMMA SamePeople ==
  ASSUME UNCHANGED fill,
         \A i \in Ids : (who'[i] = "playing" /\ i \notin Bots') <=> (who[i] = "playing" /\ i \notin Bots)
  PROVE  Humans' = Humans /\ Wanted' = Wanted
<1>1. Humans' = Humans
  BY DEF Humans, Of
<1>. QED  BY <1>1 DEF Wanted

\* A step that asks for a reconciliation, and knows its bots, keeps it all.
LEMMA Asked ==
  ASSUME FillTypes', BotsKnown', botReconcileQueued'
  PROVE  FillInv'
BY DEF FillInv, FillIsKept

\* The slots that bots come from are in nobody's hands.
LEMMA NewcomersAreNew ==
  ASSUME FillInv, ~thrown
  PROVE  Vacant \subseteq Ids /\ Vacant \cap Bots = {}
BY DEF FillInv, BotsKnown, Vacant, Free, Of, BotKinds

LEMMA AddedKnows ==
  ASSUME FillInv, NEW new, new \subseteq Vacant, NEW kinds, NEW queued \in BOOLEAN,
         Added(new, kinds, queued), UNCHANGED <<settingVars, fill, thrown>>, unasked' \in BOOLEAN,
         Bots' = Bots \cup new, auto' \subseteq Ids, extra' \subseteq Ids
  PROVE  FillTypes' /\ BotsKnown' /\ Wanted' = Wanted /\ Vacant' = Vacant \ new
<1>1. /\ who' = [i \in Ids |-> IF i \in new THEN kinds[i] ELSE who[i]]
      /\ kinds \in [new -> BotKinds] /\ botReconcileQueued' \in BOOLEAN
  BY DEF Added
<1>2. \A i \in new : who[i] = "free" /\ who'[i] \in BotKinds /\ i \in Ids
  BY <1>1 DEF Vacant, Free, Of
<1>3. who' \in [Ids -> {"free", "reserved"} \cup People \cup BotKinds]
  BY <1>1, <1>2 DEF FillInv, FillTypes
<1>4. FillTypes'
  BY <1>1, <1>3 DEF FillInv, FillTypes, settingVars
<1>5. \A i \in Ids \ new : who'[i] = who[i]
  BY <1>1
<1>6. Of(BotKinds)' = Of(BotKinds) \cup new
  BY <1>2, <1>5 DEF Of
<1>7. BotsKnown'
  BY <1>6 DEF FillInv, BotsKnown
<1>8. Wanted' = Wanted
  <2>1. \A i \in Ids : (who'[i] = "playing" /\ i \notin Bots') <=> (who[i] = "playing" /\ i \notin Bots)
    BY <1>2, <1>5 DEF BotKinds
  <2>. QED  BY <2>1, SamePeople
<1>9. Vacant' = Vacant \ new
  BY <1>2, <1>5 DEF Vacant, Free, Of, BotKinds
<1>. QED  BY <1>4, <1>7, <1>8, <1>9

LEMMA RemovedKnows ==
  ASSUME FillInv, NEW gone, gone \subseteq Bots, NEW queued \in BOOLEAN,
         Removed(gone, queued), UNCHANGED <<settingVars, thrown>>, unasked' \in BOOLEAN,
         fill' \in 0..MaxRealPlayers
  PROVE  /\ FillTypes' /\ BotsKnown'
         /\ ~thrown /\ fill' = fill => Wanted' = Wanted
         /\ ~thrown /\ gone # {} => botReconcileQueued'
<1>1. /\ auto' = auto \ gone /\ extra' = extra \ gone /\ Bots' = Bots \ gone
      /\ who' = [i \in Ids |-> IF i \in gone /\ who[i] \in BotKinds THEN "free" ELSE who[i]]
      /\ botReconcileQueued' = (queued \/ \E i \in gone : who[i] \in BotKinds)
  BY DEF Removed, Bots
<1>2. FillTypes'
  BY <1>1 DEF FillInv, FillTypes, settingVars
<1>3. ~thrown => \A i \in gone : i \in Ids /\ who[i] \in BotKinds
  BY DEF FillInv, BotsKnown, Of
<1>4. BotsKnown'
  BY <1>1, <1>3 DEF FillInv, BotsKnown, Of, BotKinds
<1>5. ASSUME fill' = fill, ~thrown PROVE Wanted' = Wanted
  <2>1. \A i \in Ids : (who'[i] = "playing" /\ i \notin Bots') <=> (who[i] = "playing" /\ i \notin Bots)
    BY <1>1, <1>3, <1>5 DEF BotKinds
  <2>. QED  BY <1>5, <2>1, SamePeople
<1>6. ~thrown /\ gone # {} => botReconcileQueued'
  BY <1>1, <1>3
<1>. QED  BY <1>2, <1>4, <1>5, <1>6

\* Filling up ends at the fill, or where there is no slot left.
LEMMA FillsKeeps ==
  ASSUME FillInv, Fills, UNCHANGED <<settingVars, fill, thrown>>, unasked' \in BOOLEAN
  PROVE  FillInv'
<1>1. PICK new \in SUBSET Vacant :
        /\ Cardinality(new) = AtMost(Wanted - Cardinality(auto), Cardinality(Vacant))
        /\ \E kinds \in [new -> BotKinds] : Added(new, kinds, FALSE)
        /\ auto' = auto \cup new /\ extra' = extra \ new
  BY DEF Fills
<1>2. new \subseteq Ids /\ auto \subseteq Ids /\ Vacant \subseteq Ids /\ Bots' = Bots \cup new
      /\ auto' \subseteq Ids /\ extra' \subseteq Ids
  BY <1>1 DEF Vacant, Free, Of, Bots, FillInv, FillTypes
<1>3. FillTypes' /\ BotsKnown' /\ Wanted' = Wanted /\ Vacant' = Vacant \ new
  BY <1>1, <1>2, AddedKnows
<1>4. ASSUME ~thrown
      PROVE  Cardinality(auto') = Wanted' \/ (Cardinality(auto') < Wanted' /\ Vacant' = {})
  <2>1. auto \cap new = {}
    BY <1>1, <1>4, NewcomersAreNew DEF Bots
  <2>2. Cardinality(auto') = Cardinality(auto) + Cardinality(new)
    BY <1>1, <1>2, <2>1, DisjointSizes
  <2>3. /\ Cardinality(auto) \in Nat /\ Cardinality(new) \in Nat /\ Cardinality(Vacant) \in Nat
        /\ IsFiniteSet(Vacant) /\ Wanted \in Nat /\ Cardinality(auto) < Wanted
    BY <1>2, IdSets, WantedIsNat DEF FillInv, Fills
  <2>4. CASE Cardinality(new) = Wanted - Cardinality(auto)
    BY <1>3, <2>2, <2>3, <2>4
  <2>5. CASE /\ Cardinality(new) = Cardinality(Vacant)
             /\ Cardinality(new) # Wanted - Cardinality(auto)
    <3>1. new = Vacant
      BY <1>1, <2>3, <2>5, FS_Subset
    <3>2. Cardinality(auto) + Cardinality(new) < Wanted
      BY <1>1, <2>3, <2>5 DEF AtMost
    <3>. QED  BY <1>3, <2>2, <3>1, <3>2
  <2>. QED  BY <1>1, <2>4, <2>5 DEF AtMost
<1>. QED  BY <1>3, <1>4 DEF FillInv, FillIsKept, settingVars

LEMMA ThinsKeeps ==
  ASSUME FillInv, Thins, UNCHANGED <<settingVars, fill, thrown>>, unasked' \in BOOLEAN
  PROVE  FillInv'
<1>1. PICK gone \in SUBSET auto :
        /\ Cardinality(gone) = Cardinality(auto) - Wanted
        /\ Removed(gone, FALSE)
  BY DEF Thins
<1>2. gone \subseteq Bots /\ gone \subseteq Ids /\ auto \subseteq Ids /\ auto' = auto \ gone
      /\ fill' \in 0..MaxRealPlayers
  BY <1>1 DEF Bots, FillInv, FillTypes, Removed
<1>3. FillTypes' /\ BotsKnown' /\ (~thrown => Wanted' = Wanted)
  BY <1>1, <1>2, RemovedKnows
<1>4. ASSUME ~thrown PROVE Cardinality(auto') = Wanted'
  <2>1. Cardinality((auto \ gone) \cup gone) = Cardinality(auto \ gone) + Cardinality(gone)
    BY <1>2, DisjointSizes
  <2>2. (auto \ gone) \cup gone = auto
    BY <1>1
  <2>3. Cardinality(auto \ gone) \in Nat /\ Cardinality(gone) \in Nat /\ Wanted \in Nat
    BY <1>2, IdSets, WantedIsNat DEF FillInv
  <2>4. Cardinality(auto) = Cardinality(auto \ gone) + Cardinality(gone)
    BY <2>1, <2>2
  <2>5. Cardinality(auto \ gone) = Wanted
    BY <1>1, <2>3, <2>4
  <2>. QED  BY <1>2, <1>3, <1>4, <2>5
<1>. QED  BY <1>3, <1>4 DEF FillInv, FillIsKept

\* Steps that leave bots and people as they are.
LEMMA FillStays ==
  ASSUME FillInv, UNCHANGED <<settingVars, fill, who, auto, extra, historyVars, botReconcileQueued>>
  PROVE  FillInv'
BY DEF FillInv, FillTypes, BotsKnown, FillIsKept, Of, Bots, Wanted, Humans, Vacant, Free,
   settingVars, historyVars

\* Nor does what is known to be unasked for break it.
LEMMA FillWaits ==
  ASSUME FillTypes', BotsKnown', unasked'
  PROVE  FillInv'
BY DEF FillInv, FillIsKept

\* Where a person has another place, the types stay and the bots.
LEMMA PeopleAreNoBots ==
  ASSUME FillInv, NEW i \in Ids, NEW kind \in {"free", "reserved"} \cup People,
         who[i] \in {"free", "reserved"} \cup People, Became(i, kind),
         botReconcileQueued' \in BOOLEAN, unasked' \in BOOLEAN,
         UNCHANGED <<settingVars, fill, auto, extra, thrown>>
  PROVE  FillTypes' /\ BotsKnown'
<1>1. FillTypes'
  BY DEF FillInv, FillTypes, Became, settingVars
<1>2. BotsKnown'
  BY DEF FillInv, FillTypes, Became, BotsKnown, Of, Bots, People, BotKinds
<1>. QED  BY <1>1, <1>2

\* Whoever takes a place that is neither a tank nor free leaves the fill as it
\* was, with no more slots for bots.
LEMMA ConnectionsKeep ==
  ASSUME FillInv, NEW i \in Ids, NEW kind \in {"limbo", "reserved"},
         who[i] \in {"free", "reserved"}, Became(i, kind),
         UNCHANGED <<settingVars, fill, auto, extra, historyVars, botReconcileQueued>>
  PROVE  FillInv'
<1>1. FillTypes' /\ BotsKnown'
  <2>1. kind \in {"free", "reserved"} \cup People /\ who[i] \in {"free", "reserved"} \cup People
    BY DEF People
  <2>2. botReconcileQueued' \in BOOLEAN /\ unasked' \in BOOLEAN /\ UNCHANGED thrown
    BY DEF FillInv, FillTypes, historyVars
  <2>. QED  BY <2>1, <2>2, PeopleAreNoBots
<1>2. /\ who' = [who EXCEPT ![i] = kind] /\ Bots' = Bots
      /\ who \in [Ids -> {"free", "reserved"} \cup People \cup BotKinds]
  BY DEF Became, Bots, FillInv, FillTypes
<1>3. Wanted' = Wanted
  BY <1>2, SamePeople
<1>4. Vacant' \subseteq Vacant
  BY <1>2 DEF Vacant, Free, Of
<1>. QED  BY <1>1, <1>3, <1>4 DEF FillInv, FillIsKept, settingVars, historyVars

\* Whoever joins or parts asks for a reconciliation.
LEMMA PeopleKeep ==
  ASSUME FillInv, NEW i \in Ids, NEW kind \in {"free"} \cup People,
         who[i] \in {"reserved"} \cup People, Became(i, kind), botReconcileQueued' = TRUE,
         UNCHANGED <<settingVars, fill, auto, extra, historyVars>>
  PROVE  FillInv'
<1>1. UNCHANGED thrown /\ unasked' \in BOOLEAN
  BY DEF historyVars, FillInv, FillTypes
<1>2. FillTypes' /\ BotsKnown'
  BY <1>1, PeopleAreNoBots
<1>. QED  BY <1>2, Asked

LEMMA FillStep == FillInv /\ [BotsNext]_botVars => FillInv'
<1>. SUFFICES ASSUME FillInv, [BotsNext]_botVars PROVE FillInv'
  OBVIOUS
<1>1. CASE ReconcileBots
  <2>1. unasked' \in BOOLEAN /\ UNCHANGED <<settingVars, fill, thrown>>
    BY <1>1 DEF ReconcileBots, FillInv, FillTypes
  <2>2. CASE Fills \/ Thins
    BY <2>1, <2>2, FillsKeeps, ThinsKeeps
  <2>3. CASE /\ \/ ~pilotsLoaded \/ botsDisabled \/ Cardinality(auto) = Wanted
                \/ Cardinality(auto) < Wanted /\ ~pilotKnown
             /\ botReconcileQueued' = FALSE /\ UNCHANGED <<who, auto, extra, workerVars>>
    <3>1. FillTypes' /\ BotsKnown'
      BY <2>1, <2>3 DEF FillInv, FillTypes, BotsKnown, Of, Bots, settingVars
    <3>2. Wanted' = Wanted
      BY <2>1, <2>3 DEF Wanted, Humans, Of, Bots
    <3>3. unasked' = botsDisabled
      BY <1>1 DEF ReconcileBots
    <3>. QED  BY <2>1, <2>3, <3>1, <3>2, <3>3 DEF FillInv, FillIsKept, settingVars
  <2>. QED  BY <1>1, <2>2, <2>3 DEF ReconcileBots
<1>2. CASE PilotsLoad
  BY <1>2, Asked DEF PilotsLoad, FillInv, FillTypes, BotsKnown, Of, Bots, historyVars
<1>3. ASSUME NEW n \in 0..MaxRealPlayers, NEW named \in BOOLEAN, SetFill(n, named) PROVE FillInv'
  BY <1>3, Asked DEF SetFill, FillInv, FillTypes, BotsKnown, Of, Bots, historyVars
<1>4. CASE PersonConnects \/ NativeReserves
  <2>1. PICK i \in Free, kind \in {"limbo", "reserved"} : Became(i, kind)
    BY <1>4 DEF PersonConnects, NativeReserves, Connects
  <2>2. i \in Ids /\ who[i] \in {"free", "reserved"}
    BY <2>1 DEF Free, Of
  <2>. QED  BY <1>4, <2>1, <2>2, ConnectionsKeep DEF PersonConnects, NativeReserves, Connects
<1>5. ASSUME NEW i \in Ids, NEW asked \in {"playing", "robot", "watching"}, PersonJoins(i, asked)
      PROVE  FillInv'
  <2>1. \E kind \in People : Became(i, kind)
    BY <1>5 DEF PersonJoins, People
  <2>2. /\ who[i] \in {"reserved"} \cup People /\ botReconcileQueued' = TRUE
        /\ UNCHANGED <<settingVars, fill, auto, extra, historyVars>>
    BY <1>5 DEF PersonJoins
  <2>. QED  BY <2>1, <2>2, PeopleKeep
<1>6. ASSUME NEW i \in Ids, PersonLeaves(i) PROVE FillInv'
  BY <1>6, PeopleKeep DEF PersonLeaves
<1>12. ASSUME NEW i \in Ids, NativeGivesUp(i) PROVE FillInv'
  <2>1. FillTypes' /\ BotsKnown'
    BY <1>12, PeopleAreNoBots DEF NativeGivesUp, FillInv, FillTypes
  <2>. QED  BY <1>12, <2>1, FillWaits DEF NativeGivesUp
<1>13. ASSUME NEW i \in Ids, NativeRefused(i) PROVE FillInv'
  BY <1>13, ConnectionsKeep DEF NativeRefused
<1>14. CASE SetDisabled
  BY <1>14, FillWaits DEF SetDisabled, FillInv, FillTypes, BotsKnown, Of, Bots
<1>7. CASE BotAdd
  <2>1. PICK i \in Vacant : /\ \E kind \in BotKinds :
                                 Added({i}, [j \in {i} |-> kind], botReconcileQueued)
                            /\ extra' = extra \cup {i} /\ auto' = auto \ {i}
    BY <1>7 DEF BotAdd
  <2>2. {i} \subseteq Vacant /\ i \in Ids /\ Bots' = Bots \cup {i}
        /\ auto' \subseteq Ids /\ extra' \subseteq Ids /\ UNCHANGED <<settingVars, fill, thrown, unasked>>
        /\ unasked' \in BOOLEAN
    BY <1>7, <2>1 DEF BotAdd, Vacant, Free, Of, Bots, FillInv, FillTypes, historyVars
  <2>3. FillTypes' /\ BotsKnown' /\ Wanted' = Wanted /\ Vacant' = Vacant \ {i}
    <3>1. PICK kind \in BotKinds : Added({i}, [j \in {i} |-> kind], botReconcileQueued)
      BY <2>1
    <3>2. botReconcileQueued \in BOOLEAN
      BY DEF FillInv, FillTypes
    <3>. QED  BY <2>2, <3>1, <3>2, AddedKnows
  <2>4. botReconcileQueued => botReconcileQueued'
    BY <2>1 DEF Added
  <2>5. ~thrown => auto' = auto
    BY <2>1, <2>2, NewcomersAreNew DEF Bots
  <2>. QED  BY <2>2, <2>3, <2>4, <2>5 DEF FillInv, FillIsKept, settingVars
<1>8. ASSUME NEW i \in Ids, BotRemove(i) PROVE FillInv'
  <2>1. {i} \subseteq Bots /\ Removed({i}, botReconcileQueued)
        /\ UNCHANGED <<settingVars, fill, thrown, unasked>>
    BY <1>8 DEF BotRemove, historyVars
  <2>2. FillTypes' /\ BotsKnown' /\ (~thrown => botReconcileQueued')
    BY <2>1, RemovedKnows DEF FillInv, FillTypes
  <2>. QED  BY <2>1, <2>2 DEF FillInv, FillIsKept
<1>9. CASE BotRemoveAll
  <2>1. Removed(Bots, botReconcileQueued \/ fill > 0) /\ Bots # {} /\ fill' = 0
        /\ UNCHANGED <<settingVars, thrown, unasked>>
    BY <1>9 DEF BotRemoveAll, historyVars
  <2>2. fill' \in 0..MaxRealPlayers /\ (botReconcileQueued \/ fill > 0) \in BOOLEAN /\ unasked' \in BOOLEAN
    BY <2>1, BotAssumption DEF FillInv, FillTypes
  <2>3. FillTypes' /\ BotsKnown' /\ (~thrown => botReconcileQueued')
    BY <2>1, <2>2, RemovedKnows
  <2>. QED  BY <2>1, <2>3 DEF FillInv, FillIsKept
<1>10. ASSUME NEW i \in Ids, BotThrownOut(i) PROVE FillInv'
  <2>1. FillTypes' /\ thrown' /\ botReconcileQueued'
    BY <1>10 DEF BotThrownOut, Became, FillInv, FillTypes, settingVars
  <2>. QED  BY <2>1, Asked DEF BotsKnown
<1>11. CASE WorkerTick \/ WorkerResults \/ WorkerExits \/ UNCHANGED botVars
  BY <1>11, FillStays DEF WorkerTick, WorkerResults, WorkerExits, botVars
<1>. QED  BY <1>1, <1>2, <1>3, <1>4, <1>5, <1>6, <1>7, <1>8, <1>9, <1>10, <1>11, <1>12, <1>13, <1>14
   DEF BotsNext

\* With the fill kept, there is room for people: bots have at most the tanks
\* that the fill leaves them.
LEMMA RoomForPeople ==
  ASSUME FillInv
  PROVE  PeopleFirst
<1>. DEFINE others == Tanks \ Of({"robot"})
<1>. SUFFICES ASSUME pilotsLoaded, ~botReconcileQueued, ~thrown, ~unasked, extra = {},
                     fill < MaxRealPlayers
              PROVE  Cardinality(others) < MaxRealPlayers \/ others = Humans
  BY DEF PeopleFirst
<1>1. others = Humans \cup Of({"bot"}) /\ Humans \cap Of({"bot"}) = {}
      /\ Humans \subseteq Ids /\ Of({"bot"}) \subseteq auto /\ auto \subseteq Ids
  BY DEF Tanks, Humans, Of, FillInv, FillTypes, BotsKnown, Bots, BotKinds
<1>. HIDE DEF others
<1>2. /\ Cardinality(auto) \in Nat /\ IsFiniteSet(auto)
      /\ Cardinality(Of({"bot"})) \in Nat /\ Cardinality(Of({"bot"})) <= Cardinality(auto)
  BY <1>1, IdSets, FS_Subset
<1>3. Cardinality(others) = Cardinality(Humans) + Cardinality(Of({"bot"}))
  <2>1. Of({"bot"}) \subseteq Ids
    BY <1>1
  <2>. QED  BY <1>1, <2>1, DisjointSizes
<1>4. /\ Wanted \in Nat /\ Cardinality(Humans) \in Nat /\ fill \in Nat
      /\ Wanted = Less(fill, Cardinality(Humans)) /\ Cardinality(auto) <= Wanted
  BY WantedIsNat, <1>2 DEF FillInv, FillIsKept
<1>5. CASE fill > Cardinality(Humans)
  BY <1>2, <1>3, <1>4, <1>5, BotAssumption DEF Less
<1>6. CASE ~(fill > Cardinality(Humans))
  <2>1. Cardinality(auto) = 0
    BY <1>2, <1>4, <1>6 DEF Less
  <2>2. auto = {}
    BY <1>2, <2>1, FS_EmptySet
  <2>. QED  BY <1>1, <2>2
<1>. QED  BY <1>5, <1>6

\* At rest the fill is kept, as far as there are slots and pilots, and of the
\* tanks that clients which joined as bots leave, people have those the fill
\* leaves free: no join, part or command of the fill forgets to ask for a
\* reconciliation, and none is lost on the way (reconcileBots,
\* scheduleBotReconcile).  Where nothing has asked for one (a bot thrown out,
\* bots allowed again, a number given back) the theorem claims nothing.
THEOREM BotsAlwaysStandIn == BotsSpec => []BotsStandIn
<1>1. BotsInit => FillInv
  BY DEF BotsInit, FillInv, FillTypes, BotsKnown, FillIsKept, Of, Bots, BotKinds
<1>2. FillInv => BotsStandIn
  BY RoomForPeople DEF FillInv, BotsStandIn
<1>. QED  BY <1>1, <1>2, FillStep, PTL DEF BotsSpec

-----------------------------------------------------------------------------
(* The types.                                                               *)

\* What is left of them: a bot is of the fill or not, and the flags of the
\* worker are flags.
RestTyped ==
  /\ auto \cap extra = {} /\ botWorkerBusy \in BOOLEAN /\ flight \in BOOLEAN
  /\ events \in 0..MaxEvents

LEMMA RestStep == RestTyped /\ [BotsNext]_botVars => RestTyped'
<1>. SUFFICES ASSUME RestTyped, [BotsNext]_botVars PROVE RestTyped'
  OBVIOUS
<1>1. ASSUME Happens \/ UNCHANGED events PROVE events' \in 0..MaxEvents
  BY <1>1, BotAssumption DEF Happens, RestTyped
<1>2. ASSUME UNCHANGED <<auto, extra, workerVars>>, Happens \/ UNCHANGED events PROVE RestTyped'
  BY <1>1, <1>2 DEF workerVars, RestTyped
<1>3. ASSUME NEW new, NEW kinds, NEW queued, Added(new, kinds, queued)
      PROVE  botWorkerBusy' \in BOOLEAN /\ flight' \in BOOLEAN
  BY <1>3 DEF Added
<1>4. ASSUME NEW gone, NEW queued, Removed(gone, queued), Happens \/ UNCHANGED events PROVE RestTyped'
  <2>1. auto' = auto \ gone /\ extra' = extra \ gone /\ flight' \in BOOLEAN /\ UNCHANGED botWorkerBusy
    BY <1>4 DEF Removed
  <2>. QED  BY <1>1, <1>4, <2>1 DEF RestTyped
<1>5. CASE ReconcileBots
  <2>1. CASE Fills
    <3>1. PICK new \in SUBSET Vacant : /\ \E kinds \in [new -> BotKinds] : Added(new, kinds, FALSE)
                                       /\ auto' = auto \cup new /\ extra' = extra \ new
      BY <2>1 DEF Fills
    <3>2. botWorkerBusy' \in BOOLEAN /\ flight' \in BOOLEAN
      BY <1>3, <3>1
    <3>. QED  BY <1>1, <1>5, <3>1, <3>2 DEF ReconcileBots, RestTyped
  <2>2. CASE Thins
    BY <1>4, <1>5, <2>2 DEF ReconcileBots, Thins
  <2>. QED  BY <1>2, <1>5, <2>1, <2>2 DEF ReconcileBots
<1>6. CASE BotAdd
  <2>1. PICK i \in Vacant : /\ \E kind \in BotKinds :
                                 Added({i}, [j \in {i} |-> kind], botReconcileQueued)
                            /\ extra' = extra \cup {i} /\ auto' = auto \ {i}
    BY <1>6 DEF BotAdd
  <2>2. botWorkerBusy' \in BOOLEAN /\ flight' \in BOOLEAN
    BY <1>3, <2>1
  <2>. QED  BY <1>1, <1>6, <2>1, <2>2 DEF BotAdd, RestTyped
<1>7. CASE BotRemoveAll \/ \E i \in Ids : BotRemove(i)
  BY <1>4, <1>7 DEF BotRemoveAll, BotRemove
<1>8. CASE WorkerTick \/ WorkerResults
  BY <1>8 DEF WorkerTick, WorkerResults, RestTyped
<1>9. CASE WorkerExits
  BY <1>9 DEF WorkerExits, RestTyped
<1>10. CASE \/ PilotsLoad \/ PersonConnects \/ NativeReserves \/ SetDisabled
            \/ \E n \in 0..MaxRealPlayers, named \in BOOLEAN : SetFill(n, named)
            \/ \E i \in Ids : \/ \E asked \in {"playing", "robot", "watching"} : PersonJoins(i, asked)
                              \/ PersonLeaves(i) \/ BotThrownOut(i)
                              \/ NativeGivesUp(i) \/ NativeRefused(i)
            \/ UNCHANGED botVars
  BY <1>2, <1>10 DEF PilotsLoad, PersonConnects, NativeReserves, Connects, SetDisabled, SetFill, PersonJoins,
     PersonLeaves, BotThrownOut, NativeGivesUp, NativeRefused, botVars, workerVars
<1>. QED  BY <1>5, <1>6, <1>7, <1>8, <1>9, <1>10 DEF BotsNext

BotInv == WorkerInv /\ FillInv /\ RestTyped

LEMMA BotsBegin == BotsInit => BotInv
<1>1. BotsInit => WorkerInv
  BY DEF BotsInit, WorkerInv, BusyIsAnswered, Bots
<1>2. BotsInit => FillInv
  BY DEF BotsInit, FillInv, FillTypes, BotsKnown, FillIsKept, Of, Bots, BotKinds
<1>3. ASSUME BotsInit
      PROVE  RestTyped
  <2>1. botWorkerBusy \in BOOLEAN /\ flight \in BOOLEAN
    BY <1>3 DEF BotsInit
  <2>2. events \in 0..MaxEvents
    BY <1>3, BotAssumption DEF BotsInit
  <2>3. auto \cap extra = {}
    BY <1>3 DEF BotsInit
  <2>. QED  BY <2>1, <2>2, <2>3 DEF RestTyped
<1>. QED  BY <1>1, <1>2, <1>3 DEF BotInv

LEMMA BotsGoOn == BotInv /\ [BotsNext]_botVars => BotInv'
BY WorkerStep, FillStep, RestStep DEF BotInv

LEMMA BotsTyped == BotInv => BotTypeOK
BY DEF BotInv, WorkerInv, FillInv, FillTypes, RestTyped, BotTypeOK, Bots

\* No bot is of the fill and an operator's at once, and the worker flies
\* nothing but slots there are.
THEOREM BotTypes == BotsSpec => []BotTypeOK
BY BotsBegin, BotsGoOn, BotsTyped, PTL DEF BotsSpec

=============================================================================
