----------------------------- MODULE Play_proof ------------------------------
(***************************************************************************)
(* Proofs about what MCPlay checks.  Polls, for any callsigns, times and   *)
(* majority: no voter is crowded out, no vote outlives its voter's stay,   *)
(* nothing is left to the next poll, and a majority decides.  Shots, for   *)
(* any slots, clocks and numbers of shots: a slot is one weapon, and what  *)
(* a page shows flies.  Locks, for any players: none passes to a newcomer. *)
(***************************************************************************)
EXTENDS MCPlay, FiniteSetTheorems, WellFoundedInduction, SequenceTheorems, TLAPS

\* Votes are of those who may vote, each for one side, and there is a place
\* for all of them: the last is what NobodyCrowdedOut needs.
Entitled == yes \cup no \subseteq suffraged /\ yes \cap no = {}
RoomForAll == booth => Cardinality(suffraged) <= maxVotes

IInv == TypeOK /\ Entitled /\ RoomForAll /\ VotersAreHere /\ FreshBooth

-----------------------------------------------------------------------------

\* Sets of callsigns are finite, and their sizes are numbers.
LEMMA Sizes ==
  ASSUME NEW S \in SUBSET Names
  PROVE  IsFiniteSet(S) /\ Cardinality(S) \in Nat
<1>1. IsFiniteSet(S)
  BY NamesAssumption, FS_Subset
<1>. QED  BY <1>1, FS_CardinalityType

\* Two groups have no more members than both counts together.
LEMMA UnionSize ==
  ASSUME NEW S \in SUBSET Names, NEW T \in SUBSET Names
  PROVE  Cardinality(S \cup T) <= Cardinality(S) + Cardinality(T)
<1>1. /\ IsFiniteSet(S) /\ IsFiniteSet(T) /\ S \cap T \in SUBSET Names
      /\ Cardinality(S) \in Nat /\ Cardinality(T) \in Nat /\ Cardinality(S \cap T) \in Nat
  BY Sizes
<1>2. Cardinality(S \cup T) = Cardinality(S) + Cardinality(T) - Cardinality(S \cap T)
  BY <1>1, FS_Union
<1>. QED  BY <1>1, <1>2

\* A share of at least 501 in a thousand is more than a half.
LEMMA Majority ==
  ASSUME NEW p \in 501 .. 1000, NEW total \in Nat, NEW ayes \in Nat,
         total > 0, 1000 * ayes >= p * total
  PROVE  2 * ayes > total
<1>1. p * total = 501 * total + (p - 501) * total
  BY Z3
<1>2. (p - 501) * total >= 0
  BY Z3
<1>. QED  BY <1>1, <1>2

-----------------------------------------------------------------------------

\* Forgetting a poll leaves nothing behind.
LEMMA Forgets ==
  ASSUME NEW result \in {"failed", "carried", "vetoed"}, IInv, ForgetPoll(result), UNCHANGED roster
  PROVE  IInv'
<1>1. 0 \in 0 .. MaxAge
  BY TimesAssumption DEF MaxAge
<1>2. TypeOK'
  BY <1>1 DEF IInv, ForgetPoll, roster, TypeOK
<1>. QED  BY <1>2 DEF IInv, ForgetPoll, Entitled, RoomForAll, VotersAreHere, FreshBooth

\* A new poll starts from a booth that holds nothing.
LEMMA PollKeeps ==
  ASSUME NEW n \in Names, IInv, Poll(n)
  PROVE  IInv'
<1>1. suffraged = {} /\ announced = {}
  BY DEF IInv, FreshBooth, Poll
<1>2. suffraged' = here \cup replaced /\ yes' = {n} /\ no' = {} /\ n \in here
  BY <1>1 DEF Poll
<1>3. maxVotes' \in Nat /\ Cardinality(suffraged') <= maxVotes'
  BY <1>2, UnionSize, Sizes DEF Poll, Voters, IInv, TypeOK
<1>4. TypeOK'
  BY <1>2, <1>3, TimesAssumption DEF IInv, TypeOK, Poll, roster, MaxAge, MaxAsked
<1>. QED  BY <1>1, <1>2, <1>3, <1>4
  DEF IInv, Poll, roster, Entitled, RoomForAll, VotersAreHere, FreshBooth

LEMMA VoteKeeps ==
  ASSUME NEW n \in Names, NEW inFavor \in BOOLEAN, IInv, Vote(n, inFavor)
  PROVE  IInv'
BY DEF IInv, Vote, HasSuffrage, roster, TypeOK, Entitled, RoomForAll, VotersAreHere, FreshBooth,
  MaxAge, MaxAsked

LEMMA JoinKeeps ==
  ASSUME NEW n \in Names, IInv, Join(n)
  PROVE  IInv'
BY DEF IInv, Join, ballot, TypeOK, Entitled, RoomForAll, VotersAreHere, FreshBooth, MaxAge, MaxAsked

LEMMA LeaveKeeps ==
  ASSUME NEW n \in Names, IInv, Leave(n)
  PROVE  IInv'
BY DEF IInv, Leave, RetractVote, TypeOK, Entitled, RoomForAll, VotersAreHere, FreshBooth,
  MaxAge, MaxAsked

LEMMA TickKeeps ==
  ASSUME IInv, Tick
  PROVE  IInv'
<1>1. CASE TickOpen
  BY <1>1, TimesAssumption DEF TickOpen, ClosedAge, IInv, roster, ballot, TypeOK, Entitled, RoomForAll,
    VotersAreHere, FreshBooth, MaxAge, MaxAsked
<1>2. CASE TickFailed
  BY <1>2, Forgets DEF TickFailed
<1>3. CASE TickScheduled
  BY <1>3 DEF TickScheduled, IsPollClosed, IInv, roster, ballot, TypeOK, Entitled, RoomForAll,
    VotersAreHere, FreshBooth, MaxAge, MaxAsked
<1>4. CASE TickCarried
  BY <1>4, Forgets DEF TickCarried
<1>. QED  BY <1>1, <1>2, <1>3, <1>4 DEF Tick

LEMMA SecondKeeps ==
  ASSUME IInv, Second
  PROVE  IInv'
<1>1. MaxAge \in Nat /\ MaxAsked \in Nat
  BY TimesAssumption DEF MaxAge, MaxAsked
<1>2. TypeOK'
  BY <1>1 DEF IInv, Second, Later, roster, ballot, TypeOK
<1>. QED  BY <1>2 DEF IInv, Second, roster, ballot, Entitled, RoomForAll, VotersAreHere, FreshBooth

LEMMA StepKeeps ==
  ASSUME IInv, [Next]_vars
  PROVE  IInv'
<1>1. CASE UNCHANGED vars
  BY <1>1 DEF IInv, vars, roster, ballot, TypeOK, Entitled, RoomForAll, VotersAreHere, FreshBooth,
    MaxAge, MaxAsked
<1>2. CASE \E n \in Names : Command(n) \/ Join(n) \/ Leave(n)
  <2>1. PICK n \in Names : Command(n) \/ Join(n) \/ Leave(n)
    BY <1>2
  <2>. QED  BY <2>1, PollKeeps, VoteKeeps, JoinKeeps, LeaveKeeps DEF Command
<1>3. CASE Veto
  BY <1>3, Forgets DEF Veto
<1>4. CASE Tick \/ Second
  BY <1>4, TickKeeps, SecondKeeps
<1>. QED  BY <1>1, <1>2, <1>3, <1>4 DEF Next

LEMMA InitHolds == Init => IInv
<1>1. 0 \in 0 .. MaxAge /\ MaxAsked \in 0 .. MaxAsked
  BY TimesAssumption DEF MaxAge, MaxAsked
<1>2. Init => asked \in [Names -> 0 .. MaxAsked]
  BY <1>1 DEF Init
<1>3. Init => TypeOK
  <2>. SUFFICES ASSUME Init PROVE TypeOK
    OBVIOUS
  <2>. HIDE DEF MaxAge, MaxAsked
  <2>1. {} \subseteq Names /\ {} \subseteq {"opening", "ended", "results", "closure"} /\ 0 \in Nat
    OBVIOUS
  <2>. QED  BY <1>1, <1>2, <2>1 DEF Init, TypeOK
<1>. QED  BY <1>3 DEF Init, IInv, Entitled, RoomForAll, VotersAreHere, FreshBooth

LEMMA Always == Spec => []IInv
BY InitHolds, StepKeeps, PTL DEF Spec

-----------------------------------------------------------------------------

\* The bound on the number of votes never turns away someone who may vote.
LEMMA RoomToVote ==
  ASSUME IInv
  PROVE  NobodyCrowdedOut
<1>. SUFFICES ASSUME booth, NEW n \in suffraged \ (yes \cup no)
              PROVE  Cardinality(yes \cup no) < maxVotes
  BY DEF NobodyCrowdedOut
<1>1. /\ IsFiniteSet(suffraged) /\ yes \cup no \in SUBSET suffraged /\ yes \cup no # suffraged
      /\ Cardinality(suffraged) \in Nat /\ Cardinality(yes \cup no) \in Nat
  BY Sizes DEF IInv, TypeOK, Entitled
<1>2. /\ Cardinality(yes \cup no) <= Cardinality(suffraged)
      /\ Cardinality(yes \cup no) # Cardinality(suffraged)
  BY <1>1, FS_Subset
<1>. QED  BY <1>1, <1>2 DEF IInv, TypeOK, RoomForAll

\* The state of a poll keeps its types, its times and its counts their bounds.
THEOREM PollTypes == Spec => []TypeOK
<1>1. IInv => TypeOK
  BY DEF IInv
<1>. QED  BY <1>1, Always, PTL

\* Votes are of players who are still in the game, nobody who may vote finds
\* the booth full, and an ended poll leaves neither votes, rights nor
\* announcements to the next.
THEOREM VotesStayFair == Spec => []VotesAreFair
<1>1. IInv => VotesAreFair
  BY RoomToVote DEF IInv, VotesAreFair
<1>. QED  BY <1>1, Always, PTL

\* What is carried out has the yes of more than half of those who could vote.
THEOREM TheMajorityDecides == Spec => MajorityDecides
<1>1. ASSUME IInv, TickCarried
      PROVE  2 * Cardinality(yes) > Cardinality(suffraged) /\ yes \cap no = {}
  <2>. DEFINE cast == Cardinality(yes) + Cardinality(no)
              silent == Cardinality(suffraged) - cast
              total == cast + IF silent > 0 THEN silent ELSE 0
  <2>1. Cardinality(yes) \in Nat /\ Cardinality(no) \in Nat /\ Cardinality(suffraged) \in Nat
    BY <1>1, Sizes DEF IInv, TypeOK
  <2>2. cast > 0 /\ 1000 * Cardinality(yes) >= PerMille * total
    BY <1>1 DEF TickCarried, IsPollSuccessful
  <2>3. total \in Nat /\ total > 0 /\ total >= Cardinality(suffraged)
    BY <2>1, <2>2
  <2>4. 2 * Cardinality(yes) > total
    <3>. HIDE DEF total
    <3>. QED  BY <2>1, <2>2, <2>3, Majority, MajorityAssumption
  <2>. HIDE DEF total
  <2>. QED  BY <1>1, <2>1, <2>3, <2>4 DEF IInv, Entitled
<1>2. ASSUME IInv, [Next]_vars, booth, ~booth', outcome' = "carried"
      PROVE  TickCarried
  BY <1>2 DEF Next, vars, Command, Poll, Vote, Join, Leave, Veto, ForgetPoll, Tick, TickOpen, TickFailed,
    TickScheduled, Second
<1>3. IInv /\ [Next]_vars
      => [booth /\ ~booth' /\ outcome' = "carried"
          => 2 * Cardinality(yes) > Cardinality(suffraged) /\ yes \cap no = {}]_vars
  BY <1>1, <1>2
<1>. QED  BY <1>3, Always, PTL DEF Spec, MajorityDecides

-----------------------------------------------------------------------------
(* Locks. *)

\* Who plays sits; without it a lock could be taken on an empty place.
PlayersSit == \A i \in playing : seat[i] # 0

LockInv == LockTypeOK /\ PlayersSit /\ LocksAreTrue

\* Locks taken together are true if each is an old one or is on somebody who
\* may be locked onto.
LEMMA SettingKeeps ==
  ASSUME LockInv, NEW next \in [LockIds -> LockIds \cup {NoLock}], SetLocks(next),
         \A i \in LockIds : next[i] # NoLock =>
           seat[i] # 0 /\ (next[i] = lockTargetId[i] \/ CanLockOnto(next[i])),
         UNCHANGED <<seat, seated>>, playing' \subseteq playing,
         hidden' \subseteq LockIds, armed' \subseteq LockIds
  PROVE  LockInv'
<1>1. LockTypeOK'
  BY LockAssumption DEF LockInv, LockTypeOK, SetLocks
<1>2. PlayersSit'
  BY DEF LockInv, PlayersSit
<1>3. LocksAreTrue'
  BY LockAssumption DEF LockInv, LockTypeOK, PlayersSit, LocksAreTrue, SetLocks, CanLockOnto
<1>4. QED BY <1>1, <1>2, <1>3 DEF LockInv

LEMMA LockStepKeeps ==
  ASSUME LockInv, LockNext PROVE LockInv'
<1>1. ASSUME NEW i \in LockIds, Sits(i) PROVE LockInv'
  BY <1>1, LockAssumption DEF Sits, LockInv, LockTypeOK, PlayersSit, LocksAreTrue
<1>2. ASSUME NEW i \in LockIds, TakesField(i) \/ StandsAside(i) \/ Hides(i) \/ Arms(i) PROVE LockInv'
  BY <1>2 DEF TakesField, StandsAside, Hides, Arms, LockInv, LockTypeOK, PlayersSit, LocksAreTrue
<1>3. ASSUME NEW i \in LockIds, LosesLife(i) PROVE LockInv'
  <2> DEFINE next == [lockTargetId EXCEPT ![i] = NoLock]
  <2>1. next \in [LockIds -> LockIds \cup {NoLock}] /\ \A j \in LockIds : next[j] # NoLock =>
          seat[j] # 0 /\ next[j] = lockTargetId[j]
    BY LockAssumption DEF LockInv, LockTypeOK, LocksAreTrue
  <2>2. /\ SetLocks(next) /\ UNCHANGED <<seat, seated>> /\ playing' \subseteq playing
        /\ hidden' \subseteq LockIds /\ armed' \subseteq LockIds
    BY <1>3 DEF LosesLife, LockInv, LockTypeOK
  <2>3. QED BY <2>1, <2>2, SettingKeeps
<1>4. ASSUME NEW i \in LockIds, NEW t \in LockIds \cup {NoLock}, seat[i] # 0,
             t # NoLock => CanLockOnto(t),
             SetLocks([lockTargetId EXCEPT ![i] = t]),
             UNCHANGED <<seat, seated, playing, hidden, armed>>
      PROVE  LockInv'
  <2> DEFINE next == [lockTargetId EXCEPT ![i] = t]
  <2>1. next \in [LockIds -> LockIds \cup {NoLock}] /\ \A j \in LockIds : next[j] # NoLock =>
          seat[j] # 0 /\ (next[j] = lockTargetId[j] \/ CanLockOnto(next[j]))
    BY <1>4 DEF LockInv, LockTypeOK, LocksAreTrue
  <2>2. hidden' \subseteq LockIds /\ armed' \subseteq LockIds
    BY <1>4 DEF LockInv, LockTypeOK
  <2>3. QED BY <1>4, <2>1, <2>2, SettingKeeps
<1>5. ASSUME NEW i \in LockIds, Identifies(i) PROVE LockInv'
  BY <1>4, <1>5 DEF Identifies, LockInv, PlayersSit
<1>6. ASSUME NEW i \in LockIds, NEW t \in LockIds, NamesTarget(i, t) PROVE LockInv'
  BY <1>4, <1>6 DEF NamesTarget
<1>7. CASE LocksExpire
  <2> DEFINE next == [i \in LockIds |->
                       IF i \in armed /\ lockTargetId[i] # NoLock /\ CanLockOnto(lockTargetId[i])
                       THEN lockTargetId[i] ELSE NoLock]
  <2>1. next \in [LockIds -> LockIds \cup {NoLock}] /\ \A j \in LockIds : next[j] # NoLock =>
          seat[j] # 0 /\ next[j] = lockTargetId[j]
    BY DEF LockInv, LockTypeOK, LocksAreTrue
  <2>2. /\ SetLocks(next) /\ UNCHANGED <<seat, seated, playing>>
        /\ hidden' \subseteq LockIds /\ armed' \subseteq LockIds
    BY <1>7 DEF LocksExpire, LockInv, LockTypeOK
  <2>3. QED BY <2>1, <2>2, SettingKeeps
<1>8. ASSUME NEW i \in LockIds, GivesUpSeat(i) PROVE LockInv'
  <2>1. LockTypeOK'
    BY <1>8, LockAssumption DEF GivesUpSeat, SetLocks, LockInv, LockTypeOK
  <2>2. PlayersSit' /\ LocksAreTrue'
    BY <1>8, LockAssumption DEF GivesUpSeat, SetLocks, LockInv, LockTypeOK, PlayersSit, LocksAreTrue
  <2>3. QED BY <2>1, <2>2 DEF LockInv
<1>9. QED BY <1>1, <1>2, <1>3, <1>5, <1>6, <1>7, <1>8 DEF LockNext

LEMMA LocksBegin == LockInit => LockInv
BY LockAssumption DEF LockInit, LockInv, LockTypeOK, PlayersSit, LocksAreTrue

LEMMA LocksGoOn == LockInv /\ [LockNext]_lockVars => LockInv'
<1>1. ASSUME LockInv, UNCHANGED lockVars PROVE LockInv'
  BY <1>1 DEF lockVars, LockInv, LockTypeOK, PlayersSit, LocksAreTrue
<1>. QED  BY <1>1, LockStepKeeps

\* Whatever order players come, go, die, hide and aim in, a missile is never
\* steered at somebody who was given the place of its target.
THEOREM LocksStayTrue == LockSpec => []LocksAreTrue
<1>1. LockInv => LocksAreTrue
  BY DEF LockInv
<1>. QED  BY <1>1, LocksBegin, LocksGoOn, PTL DEF LockSpec

-----------------------------------------------------------------------------
(* Slots. *)

\* A slot has as much of its reload before it as its last shot has of its range.
ReloadsInStep ==
  \A p \in projectiles : p.slot # 0 /\ ~LifeIsUp(p) => shotSlotFreeAt[p.slot] + p.age >= ReloadTicks
IdsGiven == \A p \in projectiles : p.id <= begun

FlightTypeOK ==
  projectiles \subseteq ShotsInAir /\ begun \in 0..MaxShots /\ shotSlotFreeAt \in [SlotNames -> 0..ReloadTicks]

SlotInv == FlightTypeOK /\ ReloadsInStep /\ IdsGiven /\ OneShotASlot

\* A slot that findFreeShotSlot names has reloaded.
LEMMA FreeSlotIsFree ==
  ASSUME NEW freeAt \in [SlotNames -> 0..ReloadTicks]
  PROVE  FreeSlot(freeAt) \in 0..ShotSlots /\ (FreeSlot(freeAt) # 0 => freeAt[FreeSlot(freeAt)] = 0)
<1> DEFINE free == {s \in SlotNames : freeAt[s] = 0}
<1>1. free \subseteq Nat /\ free \subseteq 1..ShotSlots
  BY ShotAssumption DEF SlotNames
<1>2. CASE free = {}
  BY <1>2, ShotAssumption DEF FreeSlot
<1>3. CASE free # {}
  <2> HIDE DEF free
  <2>1. PICK n \in free : \A m \in free : ~(<<m, n>> \in OpToRel(<, Nat))
    BY <1>1, <1>3, WFMin, NatLessThanWellFounded
  <2>2. \A m \in free : ~(m < n)
    BY <1>1, <2>1 DEF OpToRel
  <2>3. \A m \in free : n <= m
    BY <1>1, <2>2
  <2>4. FreeSlot(freeAt) \in free
    <3> DEFINE Lowest(k) == \A m \in free : k <= m
    <3>1. \E k \in free : Lowest(k)
      BY <2>3
    <3>2. FreeSlot(freeAt) = CHOOSE k \in free : Lowest(k)
      BY <1>3 DEF FreeSlot, free
    <3> HIDE DEF Lowest
    <3>3. QED BY <3>1, <3>2
  <2>5. QED BY <1>1, <2>4 DEF free
<1>4. QED BY <1>2, <1>3

LEMMA FiringKeepsSlots ==
  ASSUME SlotInv, begun < MaxShots, NEW mine \in BOOLEAN, NEW slot \in 0..ShotSlots,
         slot # 0 => shotSlotFreeAt[slot] = 0,
         Fires(mine, slot), shotSlotFreeAt' = Occupied(shotSlotFreeAt, slot)
  PROVE  SlotInv'
<1> USE ShotAssumption
<1>1. PICK beam \in BOOLEAN, hit \in BOOLEAN :
        begun' = begun + 1 /\ projectiles' = projectiles \cup
          (IF hit THEN {} ELSE {[id |-> begun + 1, beam |-> beam, slot |-> slot, age |-> 0]})
  BY DEF Fires
<1> DEFINE new == [id |-> begun + 1, beam |-> beam, slot |-> slot, age |-> 0]
<1>2. FlightTypeOK'
  BY <1>1 DEF SlotInv, FlightTypeOK, ShotsInAir, ShotIds, Occupied, SlotNames
<1>3. IdsGiven'
  BY <1>1 DEF SlotInv, FlightTypeOK, IdsGiven, ShotsInAir, ShotIds
<1>4. \A p \in projectiles : p.slot # 0 /\ p.slot = slot => LifeIsUp(p)
  BY DEF SlotInv, FlightTypeOK, ReloadsInStep, LifeIsUp, Life, ShotsInAir
<1>5. ReloadsInStep'
  <2>1. \A p \in projectiles : p.slot # 0 /\ ~LifeIsUp(p) => shotSlotFreeAt'[p.slot] + p.age >= ReloadTicks
    BY <1>4 DEF SlotInv, FlightTypeOK, ReloadsInStep, Occupied, ShotsInAir, SlotNames
  <2>2. slot # 0 => shotSlotFreeAt'[slot] + 0 >= ReloadTicks
    BY DEF Occupied, SlotNames
  <2>3. QED BY <1>1, <2>1, <2>2 DEF ReloadsInStep, LifeIsUp, Life
<1>6. OneShotASlot'
  BY <1>1, <1>4 DEF SlotInv, OneShotASlot, LifeIsUp, Life
<1>7. QED BY <1>2, <1>3, <1>5, <1>6 DEF SlotInv

LEMMA ShotStepKeepsSlots == SlotInv /\ [ShotNext]_shotVars => SlotInv'
<1> SUFFICES ASSUME SlotInv, [ShotNext]_shotVars PROVE SlotInv'
  OBVIOUS
<1> USE ShotAssumption
<1>1. ASSUME UNCHANGED <<begun, shotSlotFreeAt>>, projectiles' \subseteq projectiles PROVE SlotInv'
  BY <1>1 DEF SlotInv, FlightTypeOK, ReloadsInStep, IdsGiven, OneShotASlot, LifeIsUp, Life
<1>2. ASSUME UNCHANGED flightVars PROVE SlotInv'
  BY <1>1, <1>2 DEF flightVars
<1>3. CASE TakeShoot
  <2>1. CASE UNCHANGED flightVars
    BY <1>2, <2>1
  <2>2. CASE ~UNCHANGED flightVars
    <3> DEFINE slot == FreeSlot(shotSlotFreeAt)
    <3>1. begun < MaxShots /\ Fires(TRUE, slot) /\ shotSlotFreeAt' = Occupied(shotSlotFreeAt, slot)
      BY <1>3, <2>2 DEF TakeShoot
    <3>2. slot \in 0..ShotSlots /\ (slot # 0 => shotSlotFreeAt[slot] = 0)
      BY FreeSlotIsFree DEF SlotInv, FlightTypeOK
    <3> HIDE DEF slot
    <3>3. QED BY <3>1, <3>2, FiringKeepsSlots
  <2>3. QED BY <2>1, <2>2
<1>4. CASE OthersFire
  <2>1. shotSlotFreeAt' = Occupied(shotSlotFreeAt, 0)
    BY <1>4 DEF OthersFire, Occupied, SlotNames, SlotInv, FlightTypeOK
  <2>2. begun < MaxShots /\ Fires(FALSE, 0)
    BY <1>4 DEF OthersFire
  <2>3. 0 \in 0..ShotSlots
    OBVIOUS
  <2>4. QED BY <2>1, <2>2, <2>3, FiringKeepsSlots
<1>5. CASE ShotsStep
  BY <1>1, <1>5 DEF ShotsStep
<1>6. CASE TimePasses
  <2> DEFINE Older(p) == [p EXCEPT !.age = IF LifeIsUp(p) THEN p.age ELSE p.age + 1]
  <2>1. begun' = begun /\ projectiles' = {Older(p) : p \in projectiles} /\ shotSlotFreeAt' = Sooner(shotSlotFreeAt)
    BY <1>6 DEF TimePasses
  <2>2. \A p \in projectiles :
          /\ Older(p) \in ShotsInAir /\ Older(p).id = p.id /\ Older(p).slot = p.slot
          /\ LifeIsUp(p) => LifeIsUp(Older(p))
          /\ ~LifeIsUp(p) => Older(p).age = p.age + 1
    BY DEF SlotInv, FlightTypeOK, ShotsInAir, LifeIsUp, Life
  <2> HIDE DEF Older
  <2>3. FlightTypeOK' /\ IdsGiven'
    BY <2>1, <2>2 DEF SlotInv, FlightTypeOK, IdsGiven, Sooner, SlotNames
  <2>4. ReloadsInStep'
    BY <2>1, <2>2 DEF SlotInv, FlightTypeOK, ReloadsInStep, Sooner, SlotNames, ShotsInAir
  <2>5. OneShotASlot'
    BY <2>1, <2>2 DEF SlotInv, OneShotASlot
  <2>6. QED BY <2>3, <2>4, <2>5 DEF SlotInv
<1>7. ASSUME projectiles' = Slotless, shotSlotFreeAt' = Loaded, begun' = begun PROVE SlotInv'
  <2>1. \A p \in projectiles : [p EXCEPT !.slot = 0] \in ShotsInAir /\ [p EXCEPT !.slot = 0].id = p.id
                               /\ [p EXCEPT !.slot = 0].slot = 0
    BY DEF SlotInv, FlightTypeOK, ShotsInAir
  <2>2. projectiles' \subseteq ShotsInAir /\ \A p \in projectiles' : p.slot = 0
    BY <1>7, <2>1 DEF Slotless
  <2>3. FlightTypeOK' /\ IdsGiven'
    <3>1. shotSlotFreeAt' \in [SlotNames -> 0..ReloadTicks] /\ begun' \in 0..MaxShots
      BY <1>7 DEF Loaded, SlotInv, FlightTypeOK
    <3>2. \A q \in projectiles' : q.id <= begun'
      BY <1>7, <2>1 DEF SlotInv, IdsGiven, Slotless
    <3>3. QED BY <2>2, <3>1, <3>2 DEF FlightTypeOK, IdsGiven
  <2>4. ReloadsInStep' /\ OneShotASlot'
    BY <2>2 DEF ReloadsInStep, OneShotASlot
  <2>5. QED BY <2>3, <2>4 DEF SlotInv
<1>8. CASE TankRises
  BY <1>7, <1>8 DEF TankRises
<1>9. CASE LinkDrops
  BY <1>7, <1>9 DEF LinkDrops
<1>10. ASSUME NEW m \in shotAir, DatagramLost(m) \/ HearAir(m) PROVE SlotInv'
  BY <1>2, <1>10 DEF DatagramLost, HearAir
<1>11. CASE PullTrigger \/ HearWire \/ NewInit \/ DrawFrame \/ Preview
  BY <1>2, <1>11 DEF PullTrigger, HearWire, NewInit, DrawFrame, Preview
<1>12. CASE UNCHANGED shotVars
  BY <1>2, <1>12 DEF shotVars
<1>13. QED BY <1>3, <1>4, <1>5, <1>6, <1>8, <1>9, <1>10, <1>11, <1>12 DEF ShotNext

-----------------------------------------------------------------------------
(* Pictures. *)

OnWire(m) == \E i \in DOMAIN shotWire : shotWire[i] = m
OnTheWay(m) == m \in shotAir \/ OnWire(m)
BeginComing(id) == \E m \in Begins : OnTheWay(m) /\ m.id = id
Flies(id) == \E p \in projectiles : p.id = id
Accounted(id) == Flies(id) \/ EndIsComing(id) \/ id \in lostEnds

TrafficOK ==
  /\ shotWire \in Seq(Begins \cup Ends) /\ shotAir \subseteq Begins \cup Ends
  /\ linked \in BOOLEAN
  /\ linked \/ (shotWire = <<>> /\ shotAir = {})
  /\ drawn \subseteq [id : ShotIds, beam : BOOLEAN] /\ begun \in Nat

\* A beginning is told once, over one of the two ways.
BeginsOnce ==
  /\ \A m, n \in shotAir \cap Begins : m.id = n.id => m = n
  /\ \A m \in shotAir \cap Begins : \A i \in DOMAIN shotWire : shotWire[i] \in Begins => shotWire[i].id # m.id
  /\ \A i, j \in DOMAIN shotWire :
       shotWire[i] \in Begins /\ shotWire[j] \in Begins /\ shotWire[i].id = shotWire[j].id => i = j

\* What is told of, or shown, has been begun.
ToldOfBegun == \A id : BeginComing(id) => id <= begun
ShownBegun == linked => \A d \in drawn : d.id <= begun
\* What is shown is not told of again.
ShownOnce == linked => \A d \in drawn : ~BeginComing(d.id)
\* What will be shown has not ended, or the page has its end or will.
WillFly == \A id : BeginComing(id) => Accounted(id) \/ id \in earlyShotEnds

PictureInv ==
  TrafficOK /\ BeginsOnce /\ ToldOfBegun /\ ShownBegun /\ ShownOnce /\ WillFly /\ DrawnShotsFly

\* What broadcastAll puts on the two ways: all it is given, each once.
LEMMA Broadcasting ==
  ASSUME TrafficOK, BeginsOnce, linked, linked', NEW said \in SUBSET (Begins \cup Ends), IsFiniteSet(said),
         Broadcast(said), begun' \in Nat, UNCHANGED drawn,
         \A m, n \in said \cap Begins : m = n,
         \A m \in said \cap Begins : ~BeginComing(m.id)
  PROVE  TrafficOK' /\ BeginsOnce' /\ \A m : OnTheWay(m)' <=> OnTheWay(m) \/ m \in said
<1>0. PICK flies \in SUBSET said : \E rest \in [1..Cardinality(said \ flies) -> said \ flies] :
        /\ SaidInOrder(said \ flies, rest)
        /\ shotAir' = shotAir \cup flies /\ shotWire' = shotWire \o rest
  BY DEF Broadcast
<1>1. PICK rest \in [1..Cardinality(said \ flies) -> said \ flies] :
        /\ SaidInOrder(said \ flies, rest)
        /\ shotAir' = shotAir \cup flies /\ shotWire' = shotWire \o rest
  BY <1>0
<1> DEFINE n == Cardinality(said \ flies)
<1>2. n \in Nat
  <2>1. IsFiniteSet(said \ flies)
    BY FS_Subset
  <2>2. QED BY <2>1, FS_CardinalityType
<1> HIDE DEF n
<1>3. rest \in [1..n -> said \ flies] /\ rest \in Seq(said \ flies) /\ Len(rest) = n /\ DOMAIN rest = 1..n
  <2>1. rest \in [1..n -> said \ flies]
    BY <1>1 DEF n
  <2>2. rest \in Seq(said \ flies)
    BY <1>2, <2>1, SeqDef
  <2>3. QED BY <1>2, <2>1, <2>2
<1>4. /\ shotWire' \in Seq(Begins \cup Ends) /\ Len(shotWire') = Len(shotWire) + n
      /\ DOMAIN shotWire = 1..Len(shotWire) /\ Len(shotWire) \in Nat
      /\ DOMAIN shotWire' = 1..(Len(shotWire) + n)
      /\ \A i \in 1..Len(shotWire) : shotWire'[i] = shotWire[i]
      /\ \A i \in 1..n : shotWire'[Len(shotWire) + i] = rest[i]
  <2>1. shotWire \in Seq(Begins \cup Ends)
    BY DEF TrafficOK
  <2>2. rest \in Seq(Begins \cup Ends)
    BY <1>3, SeqMonotonic
  <2>3. /\ shotWire' \in Seq(Begins \cup Ends) /\ Len(shotWire') = Len(shotWire) + Len(rest)
        /\ \A i \in 1..(Len(shotWire) + Len(rest)) :
             shotWire'[i] = IF i <= Len(shotWire) THEN shotWire[i] ELSE rest[i - Len(shotWire)]
    BY <1>1, <2>1, <2>2, ConcatProperties
  <2>4. /\ DOMAIN shotWire = 1..Len(shotWire) /\ Len(shotWire) \in Nat
        /\ DOMAIN shotWire' = 1..Len(shotWire')
    BY <2>1, <2>3, LenProperties
  <2>5. \A i \in 1..Len(shotWire) : shotWire'[i] = shotWire[i]
    BY <1>2, <1>3, <2>3, <2>4
  <2>6. \A i \in 1..n : shotWire'[Len(shotWire) + i] = rest[i]
    <3>1. \A i \in 1..n : /\ Len(shotWire) + i \in 1..(Len(shotWire) + n) /\ ~(Len(shotWire) + i <= Len(shotWire))
                          /\ (Len(shotWire) + i) - Len(shotWire) = i
      BY <1>2, <2>4
    <3>2. QED BY <1>3, <2>3, <3>1
  <2>7. QED BY <1>3, <2>3, <2>4, <2>5, <2>6
<1>5. \A i \in DOMAIN shotWire' : i \in DOMAIN shotWire \/ \E j \in 1..n : i = Len(shotWire) + j
  <2>1. \A i \in 1..(Len(shotWire) + n) : i \in 1..Len(shotWire) \/ (i - Len(shotWire) \in 1..n /\ i = Len(shotWire) + (i - Len(shotWire)))
    BY <1>2, <1>4
  <2>2. QED BY <1>4, <2>1
<1>6. TrafficOK'
  BY <1>1, <1>4 DEF TrafficOK
<1>7. \A m : OnTheWay(m)' <=> OnTheWay(m) \/ m \in said
  <2>1. \A m : OnWire(m)' <=> OnWire(m) \/ m \in said \ flies
    <3>1. \A m \in said \ flies : \E i \in 1..n : rest[i] = m
      BY <1>1, <1>3 DEF SaidInOrder
    <3>2. \A i \in 1..n : Len(shotWire) + i \in DOMAIN shotWire'
      BY <1>2, <1>4
    <3>3. \A i \in DOMAIN shotWire : i \in DOMAIN shotWire'
      BY <1>2, <1>4
    <3>4. ASSUME NEW m, OnWire(m)' PROVE OnWire(m) \/ m \in said \ flies
      <4>1. PICK i \in DOMAIN shotWire' : shotWire'[i] = m
        BY <3>4 DEF OnWire
      <4>2. CASE i \in DOMAIN shotWire
        BY <1>4, <4>1, <4>2 DEF OnWire
      <4>3. ASSUME NEW j \in 1..n, i = Len(shotWire) + j PROVE m \in said \ flies
        BY <1>3, <1>4, <4>1, <4>3
      <4>4. QED BY <1>5, <4>2, <4>3
    <3>5. ASSUME NEW m, OnWire(m) \/ m \in said \ flies PROVE OnWire(m)'
      BY <1>4, <3>1, <3>2, <3>3, <3>5 DEF OnWire
    <3>6. QED BY <3>4, <3>5
  <2>2. QED BY <1>1, <2>1 DEF OnTheWay
<1>8. BeginsOnce'
  <2>1. \A i, j \in 1..n : rest[i] \in Begins /\ rest[j] \in Begins => i = j
    <3>1. \A i, j \in 1..n : rest[i] \in Begins /\ rest[j] \in Begins => rest[i] = rest[j]
      BY <1>3
    <3>2. \A m \in Begins : ~Before(m, m)
      BY ShotAssumption DEF Before, Begins, ShotIds
    <3>3. \A i, j \in 1..n : i < j => Before(rest[i], rest[j])
      BY <1>1, <1>3 DEF SaidInOrder
    <3>4. \A i, j \in 1..n : i < j \/ j < i \/ i = j
      OBVIOUS
    <3>5. QED BY <3>1, <3>2, <3>3, <3>4
  <2>2. \A m \in said \cap Begins : /\ \A x \in shotAir \cap Begins : x.id # m.id
                                    /\ \A i \in DOMAIN shotWire : shotWire[i] \in Begins => shotWire[i].id # m.id
    BY DEF BeginComing, OnTheWay, OnWire
  <2>3. \A x, y \in shotAir' \cap Begins : x.id = y.id => x = y
    BY <1>1, <2>2 DEF BeginsOnce
  <2>4. \A m \in shotAir' \cap Begins : \A i \in DOMAIN shotWire' :
          shotWire'[i] \in Begins => shotWire'[i].id # m.id
    <3>1. \A m \in shotAir' \cap Begins : \A i \in DOMAIN shotWire :
            shotWire[i] \in Begins => shotWire[i].id # m.id
      BY <1>1, <2>2 DEF BeginsOnce
    <3>2. \A m \in shotAir' \cap Begins : \A j \in 1..n : rest[j] \in Begins => rest[j].id # m.id
      <4>1. \A j \in 1..n : rest[j] \in said \ flies
        BY <1>3
      <4>2. \A m \in flies \cap Begins : \A x \in said \ flies : x \in Begins => x.id # m.id
        OBVIOUS
      <4>3. QED BY <1>1, <2>2, <4>1, <4>2
    <3>3. SUFFICES ASSUME NEW m \in shotAir' \cap Begins, NEW i \in DOMAIN shotWire', shotWire'[i] \in Begins
                   PROVE  shotWire'[i].id # m.id
      OBVIOUS
    <3>4. CASE i \in DOMAIN shotWire
      BY <1>4, <3>1, <3>3, <3>4
    <3>5. ASSUME NEW j \in 1..n, i = Len(shotWire) + j PROVE shotWire'[i].id # m.id
      BY <1>4, <3>2, <3>3, <3>5
    <3>6. QED BY <1>5, <3>4, <3>5
  <2>5. \A i, j \in DOMAIN shotWire' :
          shotWire'[i] \in Begins /\ shotWire'[j] \in Begins /\ shotWire'[i].id = shotWire'[j].id => i = j
    <3>1. \A i \in DOMAIN shotWire, j \in 1..n : shotWire[i] \in Begins /\ rest[j] \in Begins
            => shotWire[i].id # rest[j].id
      BY <1>3, <2>2
    <3>2. SUFFICES ASSUME NEW i \in DOMAIN shotWire', NEW j \in DOMAIN shotWire',
                          shotWire'[i] \in Begins, shotWire'[j] \in Begins, shotWire'[i].id = shotWire'[j].id
                   PROVE  i = j
      OBVIOUS
    <3>3. CASE i \in DOMAIN shotWire /\ j \in DOMAIN shotWire
      BY <1>4, <3>2, <3>3 DEF BeginsOnce
    <3>4. ASSUME NEW k \in 1..n, i = Len(shotWire) + k PROVE i = j
      <4>1. CASE j \in DOMAIN shotWire
        BY <1>4, <3>1, <3>2, <3>4, <4>1
      <4>2. ASSUME NEW l \in 1..n, j = Len(shotWire) + l PROVE i = j
        BY <1>4, <2>1, <3>2, <3>4, <4>2
      <4>3. QED BY <1>5, <4>1, <4>2
    <3>5. ASSUME NEW l \in 1..n, j = Len(shotWire) + l, i \in DOMAIN shotWire PROVE i = j
      BY <1>4, <3>1, <3>2, <3>5
    <3>6. QED BY <1>5, <3>3, <3>4, <3>5
  <2>6. QED BY <2>3, <2>4, <2>5 DEF BeginsOnce
<1>9. QED BY <1>6, <1>7, <1>8

\* Steps that say nothing to the page and take nothing from the air.
LEMMA QuietKeeps ==
  ASSUME PictureInv, UNCHANGED <<shotWire, shotAir, linked, begun, earlyShotEnds, lostEnds>>,
         drawn' \subseteq drawn, \A id : Flies(id) => Flies(id)'
  PROVE  PictureInv'
<1>1. /\ \A m : OnTheWay(m)' <=> OnTheWay(m)
      /\ \A id : EndIsComing(id)' <=> EndIsComing(id)
  BY DEF OnTheWay, OnWire, EndIsComing
<1>2. /\ \A id : BeginComing(id)' <=> BeginComing(id)
      /\ \A id : Accounted(id) => Accounted(id)'
  BY <1>1 DEF BeginComing, Accounted
<1>3. TrafficOK' /\ BeginsOnce'
  BY DEF PictureInv, TrafficOK, BeginsOnce
<1>4. ToldOfBegun' /\ ShownBegun' /\ ShownOnce' /\ WillFly'
  BY <1>2 DEF PictureInv, ToldOfBegun, ShownBegun, ShownOnce, WillFly
<1>5. DrawnShotsFly'
  BY <1>2 DEF PictureInv, DrawnShotsFly, Accounted, Flies
<1>6. QED BY <1>3, <1>4, <1>5 DEF PictureInv

LEMMA SilenceHolds ==
  ASSUME TrafficOK, ~linked PROVE \A m : ~OnTheWay(m)
  BY DEF TrafficOK, OnTheWay, OnWire

\* Steps that tell of new shots and of ends.
LEMMA SpeakingKeeps ==
  ASSUME PictureInv, NEW said \in SUBSET (Begins \cup Ends), IsFiniteSet(said), Broadcast(said),
         UNCHANGED <<linked, drawn, earlyShotEnds, lostEnds>>, begun' \in Nat, begun <= begun',
         \A m, n \in said \cap Begins : m = n,
         \A m \in said \cap Begins :
           begun < m.id /\ m.id <= begun' /\ (Flies(m.id)' \/ [type |-> "end", id |-> m.id] \in said),
         \A id : Flies(id) => Flies(id)' \/ [type |-> "end", id |-> id] \in said
  PROVE  PictureInv'
<1>1. CASE ~linked
  <2>1. TrafficOK' /\ ~linked'
    BY <1>1 DEF PictureInv, TrafficOK, Broadcast
  <2>2. \A m : ~OnTheWay(m)'
    BY <2>1, <1>1 DEF TrafficOK, OnTheWay, OnWire
  <2>3. BeginsOnce'
    BY <2>1 DEF BeginsOnce, TrafficOK
  <2>4. ToldOfBegun' /\ ShownBegun' /\ ShownOnce' /\ WillFly' /\ DrawnShotsFly'
    BY <2>1, <2>2 DEF ToldOfBegun, ShownBegun, ShownOnce, WillFly, DrawnShotsFly, BeginComing
  <2>5. QED BY <2>1, <2>3, <2>4 DEF PictureInv
<1>2. CASE linked
  <2>1. begun \in Nat /\ \A m \in Begins : m.id \in Nat
    BY ShotAssumption DEF PictureInv, TrafficOK, Begins, ShotIds
  <2>2. \A m \in said \cap Begins : ~BeginComing(m.id)
    <3>1. SUFFICES ASSUME NEW m \in said \cap Begins, BeginComing(m.id) PROVE FALSE
      OBVIOUS
    <3>2. m.id <= begun /\ begun < m.id
      BY <3>1 DEF PictureInv, ToldOfBegun
    <3>3. m.id \in Nat
      BY <2>1
    <3>4. QED BY <2>1, <3>2, <3>3
  <2>3. TrafficOK' /\ BeginsOnce' /\ \A m : OnTheWay(m)' <=> OnTheWay(m) \/ m \in said
    BY <1>2, <2>2, Broadcasting DEF PictureInv
  <2> DEFINE End(id) == [type |-> "end", id |-> id]
  <2>0. \A id : (EndIsComing(id) <=> OnTheWay(End(id))) /\ (EndIsComing(id)' <=> OnTheWay(End(id))')
    BY DEF EndIsComing, OnTheWay, OnWire
  <2> HIDE DEF End
  <2>a. /\ \A m \in said \cap Begins : Flies(m.id)' \/ End(m.id) \in said
        /\ \A id : Flies(id) => Flies(id)' \/ End(id) \in said
    BY DEF End
  <2>4. \A id : Accounted(id) => Accounted(id)'
    BY <2>0, <2>3, <2>a DEF Accounted
  <2>5. \A id : BeginComing(id)' => BeginComing(id) \/ \E m \in said \cap Begins : m.id = id
    BY <2>3 DEF BeginComing
  <2>6. ToldOfBegun'
    <3>1. ASSUME NEW id, BeginComing(id)' PROVE id <= begun'
      <4>1. CASE BeginComing(id)
        <5>1. id \in Nat /\ id <= begun
          BY <2>1, <4>1 DEF PictureInv, ToldOfBegun, BeginComing
        <5>2. QED BY <2>1, <5>1
      <4>2. QED BY <2>5, <3>1, <4>1
    <3>2. QED BY <3>1 DEF ToldOfBegun
  <2>7. WillFly'
    <3>1. \A m \in said \cap Begins : Accounted(m.id)'
      BY <2>0, <2>3, <2>a DEF Accounted
    <3>2. QED BY <2>4, <2>5, <3>1 DEF PictureInv, WillFly
  <2>8. DrawnShotsFly'
    BY <2>4 DEF PictureInv, DrawnShotsFly, Accounted, Flies
  <2>9. ShownBegun' /\ ShownOnce'
    <3>1. \A d \in drawn : d.id <= begun
      BY <1>2 DEF PictureInv, ShownBegun
    <3>0. \A d \in drawn : d.id \in Nat
      BY ShotAssumption DEF PictureInv, TrafficOK, ShotIds
    <3>2. \A d \in drawn : d.id <= begun' /\ \A m \in said \cap Begins : m.id # d.id
      <4>1. \A m \in said \cap Begins : begun < m.id /\ m.id \in Nat
        BY <2>1
      <4>2. QED BY <2>1, <3>0, <3>1, <4>1
    <3>3. ShownBegun'
      BY <3>2 DEF ShownBegun
    <3>4. ShownOnce'
      BY <1>2, <2>5, <3>2 DEF PictureInv, ShownOnce
    <3>5. QED BY <3>3, <3>4
  <2>10. QED BY <2>3, <2>6, <2>7, <2>8, <2>9 DEF PictureInv
<1>3. QED BY <1>1, <1>2

\* The page takes a message off one of the two ways, and it was the only one
\* of its shot's beginning.
LEMMA ReceivingKeeps ==
  ASSUME PictureInv, linked, NEW m \in Begins \cup Ends, OnTheWay(m), ReceiveShot(m),
         TrafficOK', BeginsOnce', UNCHANGED <<projectiles, begun, linked, lostEnds>>,
         \A x : OnTheWay(x)' => OnTheWay(x), \A x : OnTheWay(x) /\ x # m => OnTheWay(x)',
         m \in Begins => ~BeginComing(m.id)'
  PROVE  PictureInv'
<1> DEFINE End(id) == [type |-> "end", id |-> id]
<1>1. \A id : (EndIsComing(id) <=> OnTheWay(End(id))) /\ (EndIsComing(id)' <=> OnTheWay(End(id))')
  BY DEF EndIsComing, OnTheWay, OnWire
<1>2. /\ m \in Begins => \A id : End(id) # m
      /\ m \in Ends => \A id : End(id) = m => id = m.id
      /\ m \in Begins <=> m.type = "begin"
      /\ m \in Ends <=> m.type = "end"
  BY DEF Begins, Ends
<1> HIDE DEF End
<1>3. \A id : BeginComing(id)' => BeginComing(id)
  BY DEF BeginComing
<1>4. ToldOfBegun'
  BY <1>3 DEF PictureInv, ToldOfBegun
<1>5. CASE m \in Begins
  <2>1. \A id : Accounted(id) => Accounted(id)'
    BY <1>1, <1>2, <1>5 DEF Accounted, Flies
  <2>2. BeginComing(m.id)
    BY <1>5 DEF BeginComing
  <2>3. WillFly'
    <3>1. \A id : BeginComing(id)' => id # m.id
      BY <1>5
    <3>2. \A id : id # m.id /\ id \in earlyShotEnds => id \in earlyShotEnds'
      BY <1>2, <1>5 DEF ReceiveShot, ReceiveShotBegin
    <3>3. QED BY <1>3, <2>1, <3>1, <3>2 DEF PictureInv, WillFly
  <2>4. \A d \in drawn' : d \in drawn \/ (d.id = m.id /\ m.id \notin earlyShotEnds)
    BY <1>2, <1>5 DEF ReceiveShot, ReceiveShotBegin, Draws
  <2>5. ShownBegun' /\ ShownOnce'
    BY <1>3, <1>5, <2>2, <2>4 DEF PictureInv, ShownBegun, ShownOnce, ToldOfBegun
  <2>6. DrawnShotsFly'
    <3>1. m.id \notin earlyShotEnds => Accounted(m.id)
      BY <2>2 DEF PictureInv, WillFly
    <3>2. \A d \in drawn : Accounted(d.id)
      BY DEF PictureInv, DrawnShotsFly, Accounted, Flies
    <3>3. \A d \in drawn' : Accounted(d.id)'
      BY <2>1, <2>4, <3>1, <3>2
    <3>4. QED BY <3>3 DEF DrawnShotsFly, Accounted, Flies
  <2>7. QED BY <1>4, <2>3, <2>5, <2>6 DEF PictureInv
<1>6. CASE m \in Ends
  <2>1. \A id : Accounted(id) /\ id # m.id => Accounted(id)'
    BY <1>1, <1>2, <1>6 DEF Accounted, Flies
  <2>2. /\ drawn' = {d \in drawn : d.id # m.id}
        /\ earlyShotEnds' = IF \E d \in drawn : d.id = m.id THEN earlyShotEnds
                            ELSE earlyShotEnds \cup {m.id}
    BY <1>2, <1>6 DEF ReceiveShot, ReceiveShotEnd
  <2>3. WillFly'
    <3>1. BeginComing(m.id) => m.id \in earlyShotEnds'
      BY <2>2 DEF PictureInv, ShownOnce
    <3>2. earlyShotEnds \subseteq earlyShotEnds'
      BY <2>2
    <3>3. QED BY <1>3, <2>1, <3>1, <3>2 DEF PictureInv, WillFly
  <2>4. ShownBegun' /\ ShownOnce'
    BY <1>3, <2>2 DEF PictureInv, ShownBegun, ShownOnce
  <2>5. DrawnShotsFly'
    <3>1. \A d \in drawn : Accounted(d.id)
      BY DEF PictureInv, DrawnShotsFly, Accounted, Flies
    <3>2. \A d \in drawn' : Accounted(d.id)'
      BY <2>1, <2>2, <3>1
    <3>3. QED BY <3>2 DEF DrawnShotsFly, Accounted, Flies
  <2>6. QED BY <1>4, <2>3, <2>4, <2>5 DEF PictureInv
<1>7. QED BY <1>5, <1>6

\* Whatever is received leaves the screen as it is typed.
LEMMA ScreenStaysTyped ==
  ASSUME NEW m \in Begins \cup Ends, ReceiveShot(m), drawn \subseteq [id : ShotIds, beam : BOOLEAN]
  PROVE  drawn' \subseteq [id : ShotIds, beam : BOOLEAN]
<1>1. m \in Begins <=> m.type = "begin"
  BY DEF Begins, Ends
<1>2. m.type = "begin" => m.id \in ShotIds /\ m.beam \in BOOLEAN
  BY <1>1 DEF Begins
<1>3. QED BY <1>2 DEF ReceiveShot, ReceiveShotBegin, ReceiveShotEnd, Draws

LEMMA HearWireKeeps ==
  ASSUME PictureInv, HearWire PROVE PictureInv'
<1>0. PICK m : m = shotWire[1]
  OBVIOUS
<1>1. /\ shotWire \in Seq(Begins \cup Ends) /\ shotWire # <<>>
      /\ shotWire' = Tail(shotWire) /\ ReceiveShot(m)
      /\ UNCHANGED <<projectiles, begun, linked, lostEnds, shotAir>>
  <2>1. shotWire \in Seq(Begins \cup Ends) /\ shotWire # <<>>
    BY DEF HearWire, PictureInv, TrafficOK
  <2>2. Head(shotWire) = m
    BY <1>0, <2>1
  <2>3. QED BY <2>1, <2>2 DEF HearWire, flightVars
<1>2. linked
  BY <1>1 DEF PictureInv, TrafficOK
<1>3. /\ Len(shotWire) \in Nat \ {0} /\ DOMAIN shotWire = 1..Len(shotWire) /\ m \in Begins \cup Ends
      /\ shotWire' \in Seq(Begins \cup Ends) /\ DOMAIN shotWire' = 1..(Len(shotWire) - 1)
      /\ \A i \in 1..(Len(shotWire) - 1) : shotWire'[i] = shotWire[i + 1]
  <2>1. Len(shotWire) \in Nat \ {0} /\ DOMAIN shotWire = 1..Len(shotWire)
    BY <1>1, EmptySeq, LenProperties
  <2>2. Tail(shotWire) \in Seq(Begins \cup Ends) /\ Len(Tail(shotWire)) = Len(shotWire) - 1
    BY <1>1, HeadTailProperties
  <2>3. DOMAIN Tail(shotWire) = 1..(Len(shotWire) - 1)
    BY <2>2, LenProperties
  <2>4. m \in Begins \cup Ends
    BY <1>0, <1>1, <2>1, ElementOfSeq
  <2>5. \A i \in 1..(Len(shotWire) - 1) : Tail(shotWire)[i] = shotWire[i + 1]
    BY <1>1, <2>1
  <2>6. QED BY <1>1, <2>1, <2>2, <2>3, <2>4, <2>5
<1>4. \A i \in DOMAIN shotWire' : i + 1 \in DOMAIN shotWire /\ shotWire'[i] = shotWire[i + 1] /\ i + 1 # 1
  BY <1>3
<1>5. \A i \in DOMAIN shotWire : i = 1 \/ (i - 1 \in DOMAIN shotWire' /\ shotWire'[i - 1] = shotWire[i])
  <2>1. \A i \in 1..Len(shotWire) : i = 1 \/ (i - 1 \in 1..(Len(shotWire) - 1) /\ (i - 1) + 1 = i)
    BY <1>3
  <2>2. QED BY <1>3, <2>1
<1>6. 1 \in DOMAIN shotWire
  BY <1>3
<1>7. OnTheWay(m)
  BY <1>0, <1>6 DEF OnTheWay, OnWire
<1>8. /\ \A x : OnTheWay(x)' => OnTheWay(x)
      /\ \A x : OnTheWay(x) /\ x # m => OnTheWay(x)'
  BY <1>0, <1>1, <1>4, <1>5 DEF OnTheWay, OnWire
<1>9. BeginsOnce'
  <2>1. \A i, j \in DOMAIN shotWire' : i + 1 = j + 1 => i = j
    BY <1>3
  <2>2. QED BY <1>1, <1>4, <2>1 DEF PictureInv, BeginsOnce
<1>10. m \in Begins => ~BeginComing(m.id)'
  <2>1. SUFFICES ASSUME m \in Begins, NEW x \in Begins, OnTheWay(x)', x.id = m.id PROVE FALSE
    BY DEF BeginComing
  <2>2. CASE x \in shotAir
    BY <1>0, <1>6, <2>1, <2>2 DEF PictureInv, BeginsOnce
  <2>3. ASSUME NEW i \in DOMAIN shotWire', shotWire'[i] = x PROVE FALSE
    BY <1>0, <1>4, <1>6, <2>1, <2>3 DEF PictureInv, BeginsOnce
  <2>4. QED BY <1>1, <2>1, <2>2, <2>3 DEF OnTheWay, OnWire
<1>11. TrafficOK'
  <2>1. drawn' \subseteq [id : ShotIds, beam : BOOLEAN]
    BY <1>1, <1>3, ScreenStaysTyped DEF PictureInv, TrafficOK
  <2>2. QED BY <1>1, <1>2, <1>3, <2>1 DEF PictureInv, TrafficOK
<1>12. QED BY <1>1, <1>2, <1>3, <1>7, <1>8, <1>9, <1>10, <1>11, ReceivingKeeps

LEMMA HearAirKeeps ==
  ASSUME PictureInv, NEW m \in shotAir, HearAir(m) PROVE PictureInv'
<1>1. /\ shotAir' = shotAir \ {m} /\ ReceiveShot(m) /\ m \in Begins \cup Ends
      /\ UNCHANGED <<projectiles, begun, linked, lostEnds, shotWire>>
  BY DEF HearAir, PictureInv, TrafficOK, flightVars
<1>2. linked /\ OnTheWay(m)
  BY DEF PictureInv, TrafficOK, OnTheWay
<1>3. BeginsOnce'
  BY <1>1 DEF PictureInv, BeginsOnce
<1>4. /\ \A x : OnTheWay(x)' => OnTheWay(x)
      /\ \A x : OnTheWay(x) /\ x # m => OnTheWay(x)'
  BY <1>1 DEF OnTheWay, OnWire
<1>5. m \in Begins => ~BeginComing(m.id)'
  BY <1>1 DEF PictureInv, BeginsOnce, BeginComing, OnTheWay, OnWire
<1>6. TrafficOK'
  <2>1. drawn' \subseteq [id : ShotIds, beam : BOOLEAN]
    BY <1>1, ScreenStaysTyped DEF PictureInv, TrafficOK
  <2>2. QED BY <1>1, <1>2, <2>1 DEF PictureInv, TrafficOK
<1>7. QED BY <1>1, <1>2, <1>3, <1>4, <1>5, <1>6, ReceivingKeeps

\* There are no more ends to tell of than shots, however many are in the air.
LEMMA EndsAreFinite == IsFiniteSet(Ends)
<1> DEFINE f == [i \in ShotIds |-> [type |-> "end", id |-> i]]
<1>1. IsFiniteSet(ShotIds)
  BY ShotAssumption, FS_Interval DEF ShotIds
<1>2. f \in Surjection(ShotIds, Ends)
  BY DEF Surjection, Ends
<1> HIDE DEF f
<1>3. QED BY <1>1, <1>2, FS_Surjection

LEMMA FiringKeepsPictures ==
  ASSUME PictureInv, FlightTypeOK, begun < MaxShots, NEW mine \in BOOLEAN, NEW slot, Fires(mine, slot),
         UNCHANGED <<linked, drawn, earlyShotEnds, lostEnds>>
  PROVE  PictureInv'
<1>1. PICK beam \in BOOLEAN : \E hit \in BOOLEAN :
        /\ begun' = begun + 1
        /\ projectiles' = projectiles \cup
             (IF hit THEN {} ELSE {[id |-> begun + 1, beam |-> beam, slot |-> slot, age |-> 0]})
        /\ Broadcast({[type |-> "begin", id |-> begun + 1, mine |-> mine, beam |-> beam]}
             \cup IF hit THEN {[type |-> "end", id |-> begun + 1]} ELSE {})
  BY DEF Fires
<1>2. PICK hit \in BOOLEAN :
        /\ begun' = begun + 1
        /\ projectiles' = projectiles \cup
             (IF hit THEN {} ELSE {[id |-> begun + 1, beam |-> beam, slot |-> slot, age |-> 0]})
        /\ Broadcast({[type |-> "begin", id |-> begun + 1, mine |-> mine, beam |-> beam]}
             \cup IF hit THEN {[type |-> "end", id |-> begun + 1]} ELSE {})
  BY <1>1
<1>3. PICK b, e, id : id = begun + 1 /\ b = [type |-> "begin", id |-> id, mine |-> mine, beam |-> beam]
                      /\ e = [type |-> "end", id |-> id]
  OBVIOUS
<1>4. begun \in Nat /\ id \in ShotIds /\ id \in Nat /\ begun < id
  BY <1>3, ShotAssumption DEF FlightTypeOK, ShotIds
<1>5. b \in Begins /\ e \in Ends /\ e \notin Begins /\ b.id = id
  BY <1>3, <1>4 DEF Begins, Ends
<1>6. PICK said : said = {b} \cup IF hit THEN {e} ELSE {}
  OBVIOUS
<1>7. said \in SUBSET (Begins \cup Ends) /\ said \cap Begins = {b} /\ Broadcast(said)
  BY <1>2, <1>3, <1>5, <1>6
<1>8. IsFiniteSet(said)
  <2>1. IsFiniteSet({b}) /\ IsFiniteSet({e})
    BY FS_Singleton
  <2>2. IsFiniteSet({b} \cup {e})
    BY <2>1, FS_Union
  <2>3. QED BY <1>6, <2>2, FS_Subset
<1>9. ~hit => Flies(id)'
  <2>1. PICK p : p = [id |-> id, beam |-> beam, slot |-> slot, age |-> 0]
    OBVIOUS
  <2>2. ~hit => p \in projectiles'
    BY <1>2, <1>3, <2>1
  <2>3. p.id = id
    BY <2>1
  <2>4. QED BY <2>2, <2>3 DEF Flies
<1>10. \A i : Flies(i) => Flies(i)'
  BY <1>2 DEF Flies
<1>11. \A m \in said \cap Begins :
         begun < m.id /\ m.id <= begun' /\ (Flies(m.id)' \/ [type |-> "end", id |-> m.id] \in said)
  <2>1. b.id <= begun'
    BY <1>2, <1>3, <1>4, <1>5
  <2>2. Flies(b.id)' \/ [type |-> "end", id |-> b.id] \in said
    BY <1>3, <1>5, <1>6, <1>9
  <2>3. QED BY <1>4, <1>5, <1>7, <2>1, <2>2
<1>12. begun' \in Nat /\ begun <= begun'
  BY <1>2, <1>4
<1>13. QED BY <1>7, <1>8, <1>10, <1>11, <1>12, SpeakingKeeps

LEMMA EndingKeepsPictures ==
  ASSUME PictureInv, FlightTypeOK, ShotsStep PROVE PictureInv'
<1>1. PICK over \in SUBSET projectiles :
        /\ projectiles' = projectiles \ over
        /\ Broadcast({[type |-> "end", id |-> p.id] : p \in over})
  BY DEF ShotsStep
<1>2. PICK said : said = {[type |-> "end", id |-> p.id] : p \in over}
  OBVIOUS
<1>3. said \in SUBSET Ends
  BY <1>2 DEF FlightTypeOK, ShotsInAir, Ends
<1>4. IsFiniteSet(said)
  BY <1>3, EndsAreFinite, FS_Subset
<1>5. said \cap Begins = {}
  BY <1>3 DEF Begins, Ends
<1>6. \A id : Flies(id) => Flies(id)' \/ [type |-> "end", id |-> id] \in said
  BY <1>1, <1>2 DEF Flies
<1>7. begun' \in Nat /\ begun <= begun'
  BY DEF ShotsStep, PictureInv, TrafficOK
<1>8. UNCHANGED <<linked, drawn, earlyShotEnds, lostEnds>>
  BY DEF ShotsStep, screenVars
<1>9. QED BY <1>1, <1>2, <1>3, <1>4, <1>5, <1>6, <1>7, <1>8, SpeakingKeeps

LEMMA ShotStepKeepsPictures == SlotInv /\ PictureInv /\ [ShotNext]_shotVars => PictureInv'
<1> SUFFICES ASSUME SlotInv, PictureInv, [ShotNext]_shotVars PROVE PictureInv'
  OBVIOUS
<1>0. FlightTypeOK /\ projectiles \subseteq ShotsInAir
  BY DEF SlotInv, FlightTypeOK
<1>1. ASSUME UNCHANGED <<shotWire, shotAir, linked, begun, earlyShotEnds, lostEnds>>,
             drawn' \subseteq drawn, UNCHANGED projectiles
      PROVE  PictureInv'
  BY <1>1, QuietKeeps DEF Flies
<1>2. CASE TakeShoot
  <2>1. CASE UNCHANGED <<flightVars, shotWire, shotAir>>
    BY <1>1, <1>2, <2>1 DEF TakeShoot, flightVars, screenVars
  <2>2. CASE begun < MaxShots /\ Fires(TRUE, FreeSlot(shotSlotFreeAt))
    BY <1>0, <1>2, <2>2, FiringKeepsPictures DEF TakeShoot, screenVars
  <2>3. QED BY <1>2, <2>1, <2>2 DEF TakeShoot
<1>3. CASE OthersFire
  BY <1>0, <1>3, FiringKeepsPictures DEF OthersFire, screenVars
<1>4. CASE ShotsStep
  BY <1>0, <1>4, EndingKeepsPictures
<1>5. CASE TimePasses
  <2>1. projectiles' = {[p EXCEPT !.age = IF LifeIsUp(p) THEN p.age ELSE p.age + 1] : p \in projectiles}
    BY <1>5 DEF TimePasses
  <2>2. \A p \in projectiles : [p EXCEPT !.age = IF LifeIsUp(p) THEN p.age ELSE p.age + 1].id = p.id
    BY <1>0 DEF ShotsInAir
  <2>3. \A id : Flies(id) => Flies(id)'
    BY <2>1, <2>2 DEF Flies
  <2>4. QED BY <1>5, <2>3, QuietKeeps DEF TimePasses, wireVars
<1>6. ASSUME projectiles' = Slotless PROVE \A id : Flies(id) => Flies(id)'
  <2>1. \A p \in projectiles : [p EXCEPT !.slot = 0].id = p.id
    BY <1>0 DEF ShotsInAir
  <2>2. QED BY <1>6, <2>1 DEF Flies, Slotless
<1>7. CASE TankRises
  BY <1>6, <1>7, QuietKeeps DEF TankRises, screenVars, wireVars
<1>8. CASE PullTrigger \/ DrawFrame \/ Preview \/ UNCHANGED shotVars
  BY <1>1, <1>8 DEF PullTrigger, DrawFrame, Preview, shotVars, flightVars, screenVars, wireVars
<1>9. ASSUME NEW m \in shotAir, DatagramLost(m) PROVE PictureInv'
  <2>1. /\ shotAir' = shotAir \ {m} /\ lostEnds' = IF m.type = "end" THEN lostEnds \cup {m.id} ELSE lostEnds
        /\ UNCHANGED <<projectiles, begun, linked, drawn, earlyShotEnds, shotWire>>
    BY <1>9 DEF DatagramLost, flightVars, screenVars
  <2>2. \A id : BeginComing(id)' => BeginComing(id)
    BY <2>1 DEF BeginComing, OnTheWay, OnWire
  <2>3. \A id : Accounted(id) => Accounted(id)'
    <3>1. \A id : EndIsComing(id) => EndIsComing(id)' \/ m = [type |-> "end", id |-> id]
      BY <2>1 DEF EndIsComing
    <3>2. \A id : m = [type |-> "end", id |-> id] => id \in lostEnds'
      BY <2>1
    <3>3. QED BY <2>1, <3>1, <3>2 DEF Accounted, Flies
  <2>4. TrafficOK' /\ BeginsOnce'
    BY <2>1 DEF PictureInv, TrafficOK, BeginsOnce
  <2>5. ToldOfBegun' /\ ShownBegun' /\ ShownOnce' /\ WillFly'
    BY <2>1, <2>2, <2>3 DEF PictureInv, ToldOfBegun, ShownBegun, ShownOnce, WillFly
  <2>6. DrawnShotsFly'
    BY <2>1, <2>3 DEF PictureInv, DrawnShotsFly, Accounted, Flies
  <2>7. QED BY <2>4, <2>5, <2>6 DEF PictureInv
<1>10. ASSUME NEW m \in shotAir, HearAir(m) PROVE PictureInv'
  BY <1>10, HearAirKeeps
<1>11. CASE HearWire
  BY <1>11, HearWireKeeps
<1>12. ASSUME shotWire' = <<>>, shotAir' = {}, begun' = begun, linked' \in BOOLEAN,
              drawn' \subseteq drawn, ~linked' \/ drawn' = {}
       PROVE  PictureInv'
  <2>1. TrafficOK'
    BY <1>12 DEF PictureInv, TrafficOK
  <2>2. \A m : ~OnTheWay(m)'
    BY <1>12 DEF OnTheWay, OnWire
  <2>3. BeginsOnce'
    BY <1>12 DEF BeginsOnce
  <2>4. ToldOfBegun' /\ ShownBegun' /\ ShownOnce' /\ WillFly' /\ DrawnShotsFly'
    BY <1>12, <2>2 DEF ToldOfBegun, ShownBegun, ShownOnce, WillFly, DrawnShotsFly, BeginComing
  <2>5. QED BY <2>1, <2>3, <2>4 DEF PictureInv
<1>13. CASE LinkDrops
  BY <1>12, <1>13 DEF LinkDrops
<1>14. CASE NewInit
  BY <1>12, <1>14 DEF NewInit, PictureInv, TrafficOK, flightVars, wireVars
<1>15. QED BY <1>2, <1>3, <1>4, <1>5, <1>7, <1>8, <1>9, <1>10, <1>11, <1>13, <1>14 DEF ShotNext

LEMMA ShotsBegin == ShotInit => SlotInv /\ PictureInv
<1>1. ShotInit => SlotInv
  BY ShotAssumption DEF ShotInit, SlotInv, FlightTypeOK, ReloadsInStep, IdsGiven, OneShotASlot, Loaded
<1>2. ShotInit => PictureInv
  <2>1. ASSUME ShotInit PROVE TrafficOK /\ BeginsOnce
    <3>1. shotWire \in Seq(Begins \cup Ends)
      BY <2>1, EmptySeq DEF ShotInit
    <3>2. TrafficOK
      BY <2>1, <3>1 DEF ShotInit, TrafficOK
    <3>3. BeginsOnce
      BY <2>1 DEF ShotInit, BeginsOnce
    <3>4. QED BY <3>2, <3>3
  <2>2. ASSUME ShotInit PROVE \A m : ~OnTheWay(m)
    BY <2>2 DEF ShotInit, OnTheWay, OnWire
  <2>3. ASSUME ShotInit PROVE ToldOfBegun /\ ShownBegun /\ ShownOnce /\ WillFly /\ DrawnShotsFly
    BY <2>2, <2>3 DEF ShotInit, ToldOfBegun, ShownBegun, ShownOnce, WillFly, DrawnShotsFly, BeginComing
  <2>4. QED BY <2>1, <2>3 DEF PictureInv
<1>. QED  BY <1>1, <1>2

\* What a page shows is in the air, or its end is on its way or was lost with a
\* datagram: for any number of shots, in whatever order beginnings and ends
\* arrive over the two ways, through previews, drops and inits; and a slot is
\* one weapon all the while.
THEOREM ShotsStayTrue == ShotSpec => []ShotsAreTrue
<1>1. SlotInv /\ PictureInv => ShotsAreTrue
  BY DEF SlotInv, PictureInv, ShotsAreTrue
<1>. QED  BY <1>1, ShotsBegin, ShotStepKeepsSlots, ShotStepKeepsPictures, PTL DEF ShotSpec

-----------------------------------------------------------------------------
(* What a page waits for. *)

Waiting == [age : 0..(PurgeTicks + 1), shown : BOOLEAN]
PendingTyped == pendingLocal \in Seq(Waiting)
OldestFirst ==
  \A i, j \in DOMAIN pendingLocal : i < j => pendingLocal[j].age <= pendingLocal[i].age

PendingInv == PendingTyped /\ OldestFirst

LEMMA PendingAges ==
  ASSUME PendingInv
  PROVE  \A i \in DOMAIN pendingLocal : pendingLocal[i].age \in Nat
<1>1. \A i \in DOMAIN pendingLocal : pendingLocal[i] \in Waiting
  BY DEF PendingInv, PendingTyped
<1>2. \A w \in Waiting : w.age \in Nat
  BY ShotAssumption DEF Waiting
<1>. QED  BY <1>1, <1>2

\* Some numbers have a first.
LEMMA FirstIsFirst ==
  ASSUME NEW entries \in SUBSET Nat, entries # {}
  PROVE  First(entries) \in entries /\ \A j \in entries : First(entries) <= j
<1>1. PICK n \in entries : \A m \in entries : ~(<<m, n>> \in OpToRel(<, Nat))
  BY WFMin, NatLessThanWellFounded
<1>2. \A m \in entries : ~(m < n)
  BY <1>1 DEF OpToRel
<1>3. \A m \in entries : n <= m
  BY <1>2
<1>4. \E i \in entries : \A j \in entries : i <= j
  BY <1>3
<1>. QED  BY <1>4 DEF First

\* The end of a list is as the list is.
LEMMA FromKeeps ==
  ASSUME PendingInv, NEW entries \in SUBSET DOMAIN pendingLocal, NEW skipped \in {0, 1},
         pendingLocal' = From(entries, skipped)
  PROVE  PendingInv'
<1>1. CASE entries = {}
  <2>1. pendingLocal' = <<>> /\ <<>> \in Seq(Waiting)
    BY <1>1 DEF From
  <2>. QED  BY <2>1 DEF PendingInv, PendingTyped, OldestFirst
<1>2. CASE entries # {}
  <2>. DEFINE first == First(entries) + skipped
              rest == SubSeq(pendingLocal, first, Len(pendingLocal))
  <2>1. DOMAIN pendingLocal = 1..Len(pendingLocal) /\ Len(pendingLocal) \in Nat
    BY DEF PendingInv, PendingTyped
  <2>2. entries \subseteq Nat
    BY <2>1
  <2>3. First(entries) \in 1..Len(pendingLocal)
    BY <1>2, <2>1, <2>2, FirstIsFirst
  <2>4. first \in 1..(Len(pendingLocal) + 1)
    BY <2>1, <2>3
  <2>. HIDE DEF first
  <2>5. /\ rest \in Seq(Waiting) /\ DOMAIN rest = 1..(Len(pendingLocal) - first + 1)
        /\ \A i \in DOMAIN rest : rest[i] = pendingLocal[first + i - 1]
    BY <2>1, <2>4 DEF PendingInv, PendingTyped
  <2>6. \A i \in DOMAIN rest : first + i - 1 \in DOMAIN pendingLocal
    BY <2>1, <2>4, <2>5
  <2>7. \A i, j \in DOMAIN rest : i < j => first + i - 1 < first + j - 1
    BY <2>4, <2>5
  <2>8. pendingLocal' = rest
    BY <1>2 DEF From, first
  <2>. HIDE DEF rest
  <2>9. OldestFirst'
    BY <2>5, <2>6, <2>7, <2>8 DEF PendingInv, OldestFirst
  <2>. QED  BY <2>5, <2>8, <2>9 DEF PendingInv, PendingTyped
<1>. QED  BY <1>1, <1>2

LEMMA ListOf ==
  ASSUME NEW S, NEW n \in Nat, NEW f \in [1..n -> S]
  PROVE  f \in Seq(S)
OBVIOUS

\* Where each entry ages by the same clock, the order stays.
LEMMA AgingKeeps ==
  ASSUME PendingInv, TimePasses
  PROVE  PendingInv'
<1>. DEFINE older(a) == IF a > PurgeTicks THEN a ELSE a + 1
<1>1. /\ pendingLocal' = [i \in DOMAIN pendingLocal |->
            [pendingLocal[i] EXCEPT !.age = older(pendingLocal[i].age)]]
      /\ DOMAIN pendingLocal = 1..Len(pendingLocal) /\ Len(pendingLocal) \in Nat
      /\ \A i \in DOMAIN pendingLocal : pendingLocal[i] \in Waiting
  BY DEF TimePasses, PendingInv, PendingTyped
<1>2. \A a \in 0..(PurgeTicks + 1) : older(a) \in 0..(PurgeTicks + 1)
  BY ShotAssumption
<1>3. \A a, b \in 0..(PurgeTicks + 1) : a <= b => older(a) <= older(b)
  BY ShotAssumption
<1>. HIDE DEF older
<1>4. \A i \in DOMAIN pendingLocal :
        pendingLocal'[i] \in Waiting /\ pendingLocal'[i].age = older(pendingLocal[i].age)
  BY <1>1, <1>2 DEF Waiting
<1>5. pendingLocal' \in Seq(Waiting)
  <2>1. pendingLocal' \in [1..Len(pendingLocal) -> Waiting]
    BY <1>1, <1>4
  <2>. QED  BY <1>1, <2>1, ListOf
<1>6. \A i \in DOMAIN pendingLocal : pendingLocal[i].age \in 0..(PurgeTicks + 1)
  BY <1>1 DEF Waiting
<1>7. OldestFirst'
  BY <1>1, <1>3, <1>4, <1>6 DEF PendingInv, OldestFirst
<1>. QED  BY <1>5, <1>7 DEF PendingInv, PendingTyped

LEMMA NewestIsLast ==
  ASSUME PendingInv, pendingLocal' = Append(pendingLocal, [age |-> 0, shown |-> TRUE])
  PROVE  PendingInv'
<1>1. [age |-> 0, shown |-> TRUE] \in Waiting
  BY ShotAssumption DEF Waiting
<1>2. pendingLocal' \in Seq(Waiting)
  BY <1>1 DEF PendingInv, PendingTyped
<1>3. \A i \in DOMAIN pendingLocal : pendingLocal[i].age \in Nat
  BY ShotAssumption, PendingAges
<1>4. /\ DOMAIN pendingLocal = 1..Len(pendingLocal) /\ Len(pendingLocal) \in Nat
      /\ DOMAIN pendingLocal' = 1..(Len(pendingLocal) + 1)
      /\ \A i \in DOMAIN pendingLocal : pendingLocal'[i] = pendingLocal[i]
      /\ pendingLocal'[Len(pendingLocal) + 1].age = 0
  BY DEF PendingInv, PendingTyped
<1>5. OldestFirst'
  BY <1>3, <1>4 DEF PendingInv, OldestFirst
<1>. QED  BY <1>2, <1>5 DEF PendingInv, PendingTyped

LEMMA TakenOffKeeps ==
  ASSUME PendingInv,
         pendingLocal' = [i \in DOMAIN pendingLocal |-> [pendingLocal[i] EXCEPT !.shown = FALSE]]
  PROVE  PendingInv'
<1>1. /\ DOMAIN pendingLocal = 1..Len(pendingLocal) /\ Len(pendingLocal) \in Nat
      /\ \A i \in DOMAIN pendingLocal : pendingLocal[i] \in Waiting
  BY DEF PendingInv, PendingTyped
<1>2. \A i \in DOMAIN pendingLocal :
        pendingLocal'[i] \in Waiting /\ pendingLocal'[i].age = pendingLocal[i].age
  BY <1>1 DEF Waiting
<1>3. pendingLocal' \in Seq(Waiting)
  BY <1>1, <1>2
<1>4. OldestFirst'
  BY <1>1, <1>2 DEF PendingInv, OldestFirst
<1>. QED  BY <1>3, <1>4 DEF PendingInv, PendingTyped

LEMMA PendingStep == PendingInv /\ [ShotNext]_shotVars => PendingInv'
<1>. SUFFICES ASSUME PendingInv, [ShotNext]_shotVars PROVE PendingInv'
  OBVIOUS
<1>1. ASSUME UNCHANGED pendingLocal PROVE PendingInv'
  BY <1>1 DEF PendingInv, PendingTyped, OldestFirst
<1>2. ASSUME NEW m, ReceiveShot(m) PROVE PendingInv'
  <2>1. \/ UNCHANGED pendingLocal
        \/ pendingLocal' = From({i \in DOMAIN pendingLocal : pendingLocal[i].shown}, 1)
    BY <1>2 DEF ReceiveShot, ReceiveShotBegin, ReceiveShotEnd, Draws, Answered
  <2>. QED  BY <1>1, <2>1, FromKeeps
<1>3. CASE TimePasses
  BY <1>3, AgingKeeps
<1>4. CASE PullTrigger
  BY <1>1, <1>4, NewestIsLast DEF PullTrigger
<1>5. CASE HearWire \/ \E m \in shotAir : HearAir(m)
  BY <1>2, <1>5 DEF HearWire, HearAir
<1>6. CASE DrawFrame
  BY <1>6, FromKeeps DEF DrawFrame, Purged
<1>7. CASE Preview
  BY <1>1, <1>7, TakenOffKeeps DEF Preview
<1>8. CASE NewInit
  <2>1. pendingLocal' = <<>> /\ <<>> \in Seq(Waiting)
    BY <1>8 DEF NewInit
  <2>. QED  BY <2>1 DEF PendingInv, PendingTyped, OldestFirst
<1>9. CASE \/ TakeShoot \/ OthersFire \/ ShotsStep \/ TankRises \/ LinkDrops \/ UNCHANGED shotVars
           \/ \E m \in shotAir : DatagramLost(m)
  BY <1>1, <1>9 DEF TakeShoot, OthersFire, ShotsStep, TankRises, LinkDrops, DatagramLost, shotVars,
     screenVars
<1>. QED  BY <1>3, <1>4, <1>5, <1>6, <1>7, <1>8, <1>9 DEF ShotNext

LEMMA PendingBegins == ShotInit => PendingInv
<1>1. ASSUME ShotInit PROVE pendingLocal = <<>> /\ <<>> \in Seq(Waiting)
  BY <1>1 DEF ShotInit
<1>. QED  BY <1>1 DEF PendingInv, PendingTyped, OldestFirst

\* Those a page has waited for longest are the first in its list, through
\* answers, purges, previews and inits, so a purge that drops the first of them
\* drops what updateProjectiles filters out: whatever is too old, and no other.
THEOREM PurgeFilters ==
  ShotSpec => [](LET young == {i \in DOMAIN pendingLocal : pendingLocal[i].age <= PurgeTicks}
                 IN  \A i \in DOMAIN pendingLocal : i \in young <=> young # {} /\ First(young) <= i)
<1>1. ASSUME PendingInv,
             NEW young, young = {i \in DOMAIN pendingLocal : pendingLocal[i].age <= PurgeTicks},
             NEW i \in DOMAIN pendingLocal
      PROVE  i \in young <=> young # {} /\ First(young) <= i
  <2>1. /\ young \subseteq Nat /\ DOMAIN pendingLocal \subseteq Nat
        /\ \A j \in DOMAIN pendingLocal : pendingLocal[j].age \in Nat
    <3>1. DOMAIN pendingLocal \subseteq Nat
      BY <1>1 DEF PendingInv, PendingTyped
    <3>. QED  BY <1>1, <3>1, PendingAges
  <2>2. CASE young = {}
    BY <2>2
  <2>3. CASE young # {}
    <3>1. First(young) \in young /\ \A j \in young : First(young) <= j
      BY <2>1, <2>3, FirstIsFirst
    <3>2. ASSUME First(young) <= i PROVE pendingLocal[i].age <= pendingLocal[First(young)].age
      <4>1. First(young) = i \/ First(young) < i
        BY <1>1, <2>1, <3>1, <3>2
      <4>2. First(young) \in DOMAIN pendingLocal
        BY <1>1, <3>1
      <4>. QED  BY <1>1, <2>1, <4>1, <4>2 DEF PendingInv, OldestFirst
    <3>3. pendingLocal[First(young)].age <= PurgeTicks
      BY <1>1, <3>1
    <3>4. First(young) <= i => i \in young
      BY <1>1, <2>1, <3>1, <3>2, <3>3, ShotAssumption
    <3>. QED  BY <2>3, <3>1, <3>4
  <2>. QED  BY <2>2, <2>3
<1>2. PendingInv => LET young == {i \in DOMAIN pendingLocal : pendingLocal[i].age <= PurgeTicks}
                    IN  \A i \in DOMAIN pendingLocal : i \in young <=> young # {} /\ First(young) <= i
  BY <1>1
<1>. QED  BY <1>2, PendingBegins, PendingStep, PTL DEF ShotSpec

-----------------------------------------------------------------------------
(* What is left of the shots' types, and the types of all three. *)

ScreenTyped ==
  /\ previewing \in BOOLEAN /\ earlyShotEnds \subseteq ShotIds
  /\ shoots \in 0..MaxShots /\ lostEnds \subseteq ShotIds

\* What it reads.
screened == <<previewing, earlyShotEnds, shoots, lostEnds>>

\* An end that came first is one of a shot there is.
LEMMA ReceivedIsTyped ==
  ASSUME ScreenTyped, NEW m \in Begins \cup Ends, ReceiveShot(m), UNCHANGED <<previewing, shoots, lostEnds>>
  PROVE  ScreenTyped'
<1>1. m.id \in ShotIds
  BY DEF Begins, Ends
<1>2. earlyShotEnds' \subseteq ShotIds
  BY <1>1 DEF ReceiveShot, ReceiveShotBegin, ReceiveShotEnd, Draws, ScreenTyped
<1>. QED  BY <1>2 DEF ScreenTyped

LEMMA ScreenStep == SlotInv /\ PictureInv /\ ScreenTyped /\ [ShotNext]_shotVars => ScreenTyped'
<1>. SUFFICES ASSUME SlotInv, PictureInv, ScreenTyped, [ShotNext]_shotVars PROVE ScreenTyped'
  OBVIOUS
<1>0. /\ shotWire \in Seq(Begins \cup Ends) /\ shotAir \subseteq Begins \cup Ends /\ begun \in 0..MaxShots
      /\ MaxShots \in Nat
  BY ShotAssumption DEF PictureInv, TrafficOK, SlotInv, FlightTypeOK
<1>1. ASSUME UNCHANGED screened PROVE ScreenTyped'
  BY <1>1 DEF ScreenTyped, screened
<1>2. CASE TakeShoot
  BY <1>0, <1>2 DEF TakeShoot, ScreenTyped, screenVars
<1>3. CASE PullTrigger
  BY <1>0, <1>3 DEF PullTrigger, ScreenTyped
<1>4. ASSUME NEW m \in shotAir, DatagramLost(m) PROVE ScreenTyped'
  <2>1. m.type = "end" => m.id \in ShotIds
    BY <1>0 DEF Begins, Ends
  <2>. QED  BY <1>4, <2>1 DEF DatagramLost, ScreenTyped, screenVars
<1>5. ASSUME NEW m \in shotAir, HearAir(m) PROVE ScreenTyped'
  BY <1>0, <1>5, ReceivedIsTyped DEF HearAir
<1>6. CASE HearWire
  <2>1. Head(shotWire) \in Begins \cup Ends
    BY <1>0, <1>6 DEF HearWire
  <2>. QED  BY <1>6, <2>1, ReceivedIsTyped DEF HearWire
<1>7. CASE LinkDrops
  BY <1>0, <1>7 DEF LinkDrops, ScreenTyped
<1>8. CASE NewInit
  BY <1>8 DEF NewInit, ScreenTyped, wireVars
<1>9. CASE Preview
  BY <1>9 DEF Preview, ScreenTyped, wireVars
<1>10. CASE OthersFire \/ ShotsStep \/ TimePasses \/ TankRises \/ DrawFrame \/ UNCHANGED shotVars
  BY <1>1, <1>10 DEF OthersFire, ShotsStep, TimePasses, TankRises, DrawFrame, shotVars, screenVars,
     wireVars, screened
<1>. QED  BY <1>2, <1>3, <1>4, <1>5, <1>6, <1>7, <1>8, <1>9, <1>10 DEF ShotNext

PlayInv == IInv /\ LockInv /\ SlotInv /\ PictureInv /\ PendingInv /\ ScreenTyped

LEMMA PlayBegins == PlayInit => PlayInv
<1>1. ASSUME ShotInit PROVE ScreenTyped
  <2>1. previewing \in BOOLEAN
    BY <1>1 DEF ShotInit
  <2>. QED  BY <1>1, <2>1, ShotAssumption DEF ShotInit, ScreenTyped
<1>. QED  BY <1>1, InitHolds, LocksBegin, ShotsBegin, PendingBegins DEF PlayInit, PlayInv

\* A step of one of the three leaves the others as they are.
LEMMA OneIsFollowed ==
  [PlayNext]_playVars => [Next]_vars /\ [LockNext]_lockVars /\ [ShotNext]_shotVars
BY DEF PlayNext, playVars

LEMMA PlayGoesOn == PlayInv /\ [PlayNext]_playVars => PlayInv'
BY OneIsFollowed, StepKeeps, LocksGoOn, ShotStepKeepsSlots, ShotStepKeepsPictures, PendingStep, ScreenStep
   DEF PlayInv

\* Polls, shots and locks keep what their code takes them to keep: an end that
\* came before its beginning is of a shot, a lock of a player's place or
\* nobody's, and no shot has been in the air for longer than it lives.
THEOREM PlayTypes == PlaySpec => []PlayTypeOK
<1>1. SlotInv /\ PictureInv /\ PendingInv /\ ScreenTyped => ShotTypeOK
  BY DEF SlotInv, FlightTypeOK, PictureInv, TrafficOK, PendingInv, PendingTyped, Waiting, ScreenTyped,
     ShotTypeOK, TraceTypeOK
<1>2. PlayInv => PlayTypeOK
  BY <1>1 DEF PlayInv, IInv, LockInv, PlayTypeOK
<1>. QED  BY <1>2, PlayBegins, PlayGoesOn, PTL DEF PlaySpec

=============================================================================
