------------------------------- MODULE Shots -------------------------------
(***************************************************************************)
(* Shots, from the trigger of one page to the picture they leave on its     *)
(* screen.  The server flies them; `shotBegin' and `shotEnd' go to the page *)
(* over the WebSocket, or over a channel that loses and reorders them       *)
(* (broadcastAll takes it for a short message while it is open: here either *)
(* way is possible for each).  The page draws its own shots before it hears *)
(* of them.  What a shot meets is a free choice; a tick is a part of the    *)
(* reload, after which the shot has also flown its range.                   *)
(***************************************************************************)
EXTENDS Locks, Sequences, FiniteSets

CONSTANTS
  ShotSlots,    \* SHOT_MAX_ACTIVE
  ReloadTicks,  \* getSlotReloadMs, and the life of a shell
  BeamTicks,    \* the life of a beam
  PurgeTicks,   \* the page's 2 s for an answer to its own shot
  MaxShots,     \* how many shots the server hands ids to: a bound
  MaxPending    \* how many of its own a page waits for: a bound

ASSUME ShotAssumption ==
  /\ ShotSlots \in Nat /\ ReloadTicks \in Nat \ {0} /\ BeamTicks \in 1..ReloadTicks
  /\ PurgeTicks \in Nat /\ MaxShots \in Nat /\ MaxPending \in Nat

VARIABLES
  projectiles,    \* the shots in the air
  shotSlotFreeAt, \* of the page's tank: how long each slot has to reload
  begun           \* projectileIdCounter

VARIABLES
  linked,         \* the page has had the init of its connection
  drawn,          \* the server's shots on its screen
  pendingLocal,   \* its own that it has heard nothing of, oldest first
  earlyShotEnds,
  previewing      \* it looks at another map

VARIABLES
  shoots,         \* `shoot' messages on their way
  shotWire,       \* what is on the WebSocket to the page, in order
  shotAir,        \* and on its channel, in none
  lostEnds        \* the shots whose end the channel lost

flightVars == <<projectiles, shotSlotFreeAt, begun>>
screenVars == <<linked, drawn, pendingLocal, earlyShotEnds, previewing>>
wireVars == <<shoots, shotWire, shotAir, lostEnds>>
shotVars == <<flightVars, screenVars, wireVars>>

ShotIds == 1..MaxShots
SlotNames == 1..ShotSlots

(* slot is the one of the page's tank it was fired from, while the tank has *)
(* that life; 0 is none, the code's -1.                                     *)
ShotsInAir == [id: ShotIds, beam: BOOLEAN, slot: 0..ShotSlots, age: 0..ReloadTicks]
Begins == [type: {"begin"}, id: ShotIds, mine: BOOLEAN, beam: BOOLEAN]
Ends == [type: {"end"}, id: ShotIds]

TraceTypeOK ==
  /\ projectiles \subseteq ShotsInAir /\ begun \in 0..MaxShots
  /\ shotSlotFreeAt \in [SlotNames -> 0..ReloadTicks]
  /\ linked \in BOOLEAN /\ previewing \in BOOLEAN
  /\ drawn \subseteq [id: ShotIds, beam: BOOLEAN] /\ earlyShotEnds \subseteq ShotIds
  /\ shoots \in 0..MaxShots /\ shotWire \in Seq(Begins \cup Ends)
  /\ shotAir \subseteq Begins \cup Ends /\ lostEnds \subseteq ShotIds

ShotTypeOK ==
  TraceTypeOK /\ pendingLocal \in Seq([age: 0..(PurgeTicks + 1), shown: BOOLEAN])

Loaded == [s \in SlotNames |-> 0]

ShotInit ==
  /\ projectiles = {} /\ shotSlotFreeAt = Loaded /\ begun = 0
  /\ linked = FALSE /\ drawn = {} /\ pendingLocal = <<>> /\ earlyShotEnds = {} /\ previewing = FALSE
  /\ shoots = 0 /\ shotWire = <<>> /\ shotAir = {} /\ lostEnds = {}

(* findFreeShotSlot: the lowest that has reloaded, or 0.                    *)
FreeSlot(freeAt) ==
  LET free == {s \in SlotNames : freeAt[s] = 0}
  IN IF free = {} THEN 0 ELSE CHOOSE s \in free : \A t \in free : s <= t

Occupied(freeAt, slot) ==
  [s \in SlotNames |-> IF s = slot THEN ReloadTicks ELSE freeAt[s]]

(* The order things are said in.                                            *)
Before(m, n) == (m.type = "begin" /\ n.type = "end") \/ m.id < n.id
SaidInOrder(said, s) ==
  /\ \A m \in said : \E i \in DOMAIN s : s[i] = m
  /\ \A i, j \in DOMAIN s : i < j => Before(s[i], s[j])

(* broadcastAll of what rides the channel.                                  *)
Broadcast(said) ==
  IF ~linked THEN UNCHANGED <<shotWire, shotAir>>
  ELSE \E flies \in SUBSET said :
         \E rest \in [1..Cardinality(said \ flies) -> said \ flies] :
           /\ SaidInOrder(said \ flies, rest)
           /\ shotAir' = shotAir \cup flies /\ shotWire' = shotWire \o rest

-----------------------------------------------------------------------------
(* The server.                                                              *)

Life(p) == IF p.beam THEN BeamTicks ELSE ReloadTicks
LifeIsUp(p) == p.age >= Life(p)

(* A shot begins; a beam has its whole path at once, and the tank it        *)
(* reaches ends it.                                                         *)
Fires(mine, slot) ==
  \E beam \in BOOLEAN, hit \in BOOLEAN :
    LET id == begun + 1
        begin == [type |-> "begin", id |-> id, mine |-> mine, beam |-> beam]
    IN /\ hit => beam
       /\ begun' = id
       /\ projectiles' = projectiles \cup
            (IF hit THEN {} ELSE {[id |-> id, beam |-> beam, slot |-> slot, age |-> 0]})
       /\ Broadcast({begin} \cup IF hit THEN {[type |-> "end", id |-> id]} ELSE {})

(* handleShoot.  Warning mode lets a dead tank's shot fly, and one that     *)
(* finds no slot; the muzzle or the velocity may be refused in strict mode, *)
(* and the channel may have lost the message.                               *)
TakeShoot ==
  /\ shoots > 0 /\ shoots' = shoots - 1
  /\ \/ UNCHANGED <<flightVars, shotWire, shotAir>>
     \/ LET slot == FreeSlot(shotSlotFreeAt)
        IN /\ begun < MaxShots
           /\ Fires(TRUE, slot)
           /\ shotSlotFreeAt' = Occupied(shotSlotFreeAt, slot)
  /\ UNCHANGED <<screenVars, lostEnds>>

(* Another tank's, a world weapon's or a plugin's.                          *)
OthersFire ==
  /\ begun < MaxShots /\ Fires(FALSE, 0)
  /\ UNCHANGED <<shotSlotFreeAt, screenVars, shoots, lostEnds>>

(* simulateProjectilesStep: a shell may end at anything, a beam by its      *)
(* clock only.                                                              *)
ShotsStep ==
  \E over \in SUBSET projectiles :
    /\ over # {}
    /\ \A p \in projectiles : LifeIsUp(p) => p \in over
    /\ \A p \in over : p.beam => LifeIsUp(p)
    /\ projectiles' = projectiles \ over
    /\ Broadcast({[type |-> "end", id |-> p.id] : p \in over})
    /\ UNCHANGED <<shotSlotFreeAt, begun, screenVars, shoots, lostEnds>>

Sooner(freeAt) == [s \in SlotNames |-> IF freeAt[s] = 0 THEN 0 ELSE freeAt[s] - 1]

TimePasses ==
  /\ projectiles' = {[p EXCEPT !.age = IF LifeIsUp(p) THEN p.age ELSE p.age + 1] : p \in projectiles}
  /\ shotSlotFreeAt' = Sooner(shotSlotFreeAt)
  /\ pendingLocal' = [i \in DOMAIN pendingLocal |->
       [pendingLocal[i] EXCEPT !.age = IF @ > PurgeTicks THEN @ ELSE @ + 1]]
  /\ UNCHANGED <<begun, linked, drawn, earlyShotEnds, previewing, wireVars>>

Slotless == {[p EXCEPT !.slot = 0] : p \in projectiles}

(* Player.respawn: the slots are cleared, what is in the air flies on.      *)
TankRises ==
  /\ linked /\ shotSlotFreeAt' = Loaded
  /\ projectiles' = Slotless
  /\ UNCHANGED <<begun, screenVars, wireVars>>

-----------------------------------------------------------------------------
(* The network.                                                             *)

DatagramLost(m) ==
  /\ m \in shotAir /\ shotAir' = shotAir \ {m}
  /\ lostEnds' = IF m.type = "end" THEN lostEnds \cup {m.id} ELSE lostEnds
  /\ UNCHANGED <<flightVars, screenVars, shoots, shotWire>>

(* The WebSocket closes, and the channel with it.  To the server the next   *)
(* connection is somebody else's.                                           *)
LinkDrops ==
  /\ linked /\ linked' = FALSE
  /\ shoots' = 0 /\ shotWire' = <<>> /\ shotAir' = {} /\ lostEnds' = {}
  /\ shotSlotFreeAt' = Loaded
  /\ projectiles' = Slotless
  /\ UNCHANGED <<begun, drawn, pendingLocal, earlyShotEnds, previewing>>

-----------------------------------------------------------------------------
(* The page.                                                                *)

(* receiveInit.                                                             *)
NewInit ==
  /\ ~linked /\ linked' = TRUE
  /\ drawn' = {} /\ pendingLocal' = <<>> /\ earlyShotEnds' = {} /\ previewing' = FALSE
  /\ UNCHANGED <<flightVars, wireVars>>

(* The trigger, while its own slots allow: a beam waits for its path,       *)
(* anything else is drawn at once.                                          *)
PullTrigger ==
  \E beam \in BOOLEAN :
    /\ linked /\ begun + shoots < MaxShots
    /\ beam \/ Len(pendingLocal) < MaxPending
    /\ shoots' = shoots + 1
    /\ pendingLocal' = IF beam THEN pendingLocal
                       ELSE Append(pendingLocal, [age |-> 0, shown |-> TRUE])
    /\ UNCHANGED <<flightVars, linked, drawn, earlyShotEnds, previewing>>
    /\ UNCHANGED <<shotWire, shotAir, lostEnds>>

(* The list from the first of some of its entries on.                       *)
First(entries) == CHOOSE i \in entries : \A j \in entries : i <= j
From(entries, skipped) ==
  IF entries = {} THEN <<>> ELSE SubSeq(pendingLocal, First(entries) + skipped, Len(pendingLocal))

(* What is left to answer once the oldest of its shots still shown has      *)
(* become the server's; those a preview took off the screen are passed by.  *)
Answered == From({i \in DOMAIN pendingLocal : pendingLocal[i].shown}, 1)

(* createProjectile; a preview of another map draws nothing.                *)
Draws(m) ==
  IF previewing THEN UNCHANGED <<drawn, pendingLocal>>
  ELSE /\ drawn' = drawn \cup {[id |-> m.id, beam |-> m.beam]}
       /\ pendingLocal' = IF m.mine /\ ~m.beam THEN Answered ELSE pendingLocal

ReceiveShotBegin(m) ==
  IF m.id \in earlyShotEnds
  THEN /\ earlyShotEnds' = earlyShotEnds \ {m.id}
       /\ UNCHANGED <<drawn, pendingLocal>>
  ELSE Draws(m) /\ UNCHANGED earlyShotEnds

(* Bug: as in upstream's endShot, an end without its shot is dropped.       *)
ReceiveShotEnd_forgets(m) ==
  /\ drawn' = {d \in drawn : d.id # m.id}
  /\ UNCHANGED <<pendingLocal, earlyShotEnds>>

(* An end that comes first is kept 15 s, longer than a datagram travels.    *)
ReceiveShotEnd(m) ==
  /\ earlyShotEnds' = IF \E d \in drawn : d.id = m.id THEN earlyShotEnds
                      ELSE earlyShotEnds \cup {m.id}
  /\ drawn' = {d \in drawn : d.id # m.id}
  /\ UNCHANGED pendingLocal

ReceiveShot(m) ==
  \/ m.type = "begin" /\ ReceiveShotBegin(m)
  \/ m.type = "end" /\ ReceiveShotEnd(m)

HearWire ==
  /\ shotWire # <<>> /\ shotWire' = Tail(shotWire)
  /\ ReceiveShot(Head(shotWire))
  /\ UNCHANGED <<flightVars, linked, previewing, shoots, shotAir, lostEnds>>

HearAir(m) ==
  /\ m \in shotAir /\ shotAir' = shotAir \ {m}
  /\ ReceiveShot(m)
  /\ UNCHANGED <<flightVars, linked, previewing, shoots, shotWire, lostEnds>>

(* Bug: the list is purged of the shots it still shows only.                *)
Purged_shownOnly == SelectSeq(pendingLocal, LAMBDA l : l.age <= PurgeTicks \/ ~l.shown)
(* What no answer came for goes.  Those shot first are the first in the     *)
(* list, so what stays is the list from the first young one on.             *)
Purged == From({i \in DOMAIN pendingLocal : pendingLocal[i].age <= PurgeTicks}, 0)

(* updateProjectiles.  The page ends beams by its own clock, which need not *)
(* agree with the server's; ordinary shots wait for their end.              *)
DrawFrame ==
  /\ pendingLocal' = Purged
  /\ \E faded \in SUBSET {d \in drawn : d.beam} : drawn' = drawn \ faded
  /\ UNCHANGED <<flightVars, linked, earlyShotEnds, previewing, wireVars>>

(* setMapViewerPreviewActive: every picture goes, no message is forgotten.  *)
Preview ==
  /\ linked /\ previewing' = ~previewing
  /\ IF previewing THEN UNCHANGED <<drawn, pendingLocal>>
     ELSE /\ drawn' = {}
          /\ pendingLocal' = [i \in DOMAIN pendingLocal |-> [pendingLocal[i] EXCEPT !.shown = FALSE]]
  /\ UNCHANGED <<flightVars, linked, earlyShotEnds, wireVars>>

ShotNext ==
  \/ PullTrigger \/ TakeShoot \/ OthersFire \/ ShotsStep \/ TimePasses
  \/ TankRises
  \/ \E m \in shotAir : DatagramLost(m) \/ HearAir(m)
  \/ HearWire \/ LinkDrops \/ NewInit \/ DrawFrame \/ Preview

(* Clocks go on, the game loop turns, frames are drawn, and what is sent    *)
(* arrives or is lost.                                                      *)
ShotFairness ==
  /\ WF_shotVars(TimePasses) /\ WF_shotVars(ShotsStep) /\ WF_shotVars(DrawFrame)
  /\ WF_shotVars(HearWire)
  /\ \A id \in ShotIds : WF_shotVars(\E m \in shotAir : m.id = id /\ (HearAir(m) \/ DatagramLost(m)))

ShotSpec == ShotInit /\ [][ShotNext]_shotVars /\ ShotFairness
-----------------------------------------------------------------------------
(* A slot is one weapon: no two shots of one life come out of it while the  *)
(* first is still in its range, however reloads, respawns and refusals      *)
(* follow each other.                                                       *)
OneShotASlot ==
  \A p, q \in projectiles :
    p.slot # 0 /\ p.slot = q.slot /\ p # q => LifeIsUp(p) \/ LifeIsUp(q)

EndIsComing(id) ==
  \/ [type |-> "end", id |-> id] \in shotAir
  \/ \E i \in DOMAIN shotWire : shotWire[i] = [type |-> "end", id |-> id]

(* What a linked page shows of the server's shots is in the air, or its end *)
(* is on the way or was lost: an end that overtakes its beginning leaves no *)
(* picture behind, nor does a preview, a death or an init.                  *)
DrawnShotsFly ==
  linked => \A d \in drawn :
    (\E p \in projectiles : p.id = d.id) \/ EndIsComing(d.id) \/ d.id \in lostEnds

(* Of the page's tank and of its screen.                                    *)
ShotsAreTrue == OneShotASlot /\ DrawnShotsFly

(* Nothing stays: a shot leaves the air; a picture of one the screen, unless *)
(* its end was lost or the link fails first; and what the page drew ahead   *)
(* of an answer, in the time it gives the answer.                           *)
ShotsLeave ==
  /\ \A id \in ShotIds :
       /\ (\E p \in projectiles : p.id = id) ~> (\A p \in projectiles : p.id # id)
       /\ (linked /\ \E d \in drawn : d.id = id)
            ~> ((\A d \in drawn : d.id # id) \/ id \in lostEnds \/ ~linked)
  /\ []<>(\A i \in DOMAIN pendingLocal : pendingLocal[i].age <= PurgeTicks)

=============================================================================
