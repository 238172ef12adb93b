------------------------------- MODULE Locks -------------------------------
(***************************************************************************)
(* Who a guided missile is steered at.  The server keeps a lock per player  *)
(* as an id, and ids pass to newcomers: `seat' says which Player object is  *)
(* in an id's place, `meant' which one a lock was taken on.  Where a tank   *)
(* aims is a free choice.  A player's missiles are known by its id too, so  *)
(* `armed' (GM in the hand, or a missile in the air) may outlive a seat.    *)
(***************************************************************************)
EXTENDS Naturals

CONSTANTS
  LockIds,
  MaxSeated,  \* how many players are seated: a bound
  NoLock

ASSUME LockAssumption == NoLock \notin LockIds /\ MaxSeated \in Nat

VARIABLES
  seat,         \* the player in each place; 0 is nobody
  seated,       \* how many have been
  playing,      \* joined, on a side, alive and not paused
  hidden,       \* not responding, or under Stealth
  armed,        \* canLockOn
  lockTargetId,
  meant         \* the player each lock was taken on

lockVars == <<seat, seated, playing, hidden, armed, lockTargetId, meant>>

LockTypeOK ==
  /\ seat \in [LockIds -> 0..MaxSeated] /\ seated \in 0..MaxSeated
  /\ playing \subseteq LockIds /\ hidden \subseteq LockIds /\ armed \subseteq LockIds
  /\ lockTargetId \in [LockIds -> LockIds \cup {NoLock}]
  /\ meant \in [LockIds -> 0..MaxSeated]

LockInit ==
  /\ seat = [i \in LockIds |-> 0] /\ seated = 0
  /\ playing = {} /\ hidden = {} /\ armed = {}
  /\ lockTargetId = [i \in LockIds |-> NoLock]
  /\ meant = [i \in LockIds |-> 0]

CanLockOnto(i) == i \in playing \ hidden

(* setLockTarget, for each player of `next' at once.                        *)
SetLocks(next) ==
  /\ lockTargetId' = next
  /\ meant' = [i \in LockIds |-> IF next[i] = NoLock THEN 0
                                 ELSE IF next[i] = lockTargetId[i] THEN meant[i] ELSE seat[next[i]]]

Sits(i) ==
  /\ seat[i] = 0 /\ seated < MaxSeated
  /\ seat' = [seat EXCEPT ![i] = seated + 1] /\ seated' = seated + 1
  /\ UNCHANGED <<playing, hidden, armed, lockTargetId, meant>>

(* It spawns, or its pause ends.                                            *)
TakesField(i) ==
  /\ seat[i] # 0 /\ i \notin playing /\ playing' = playing \cup {i}
  /\ UNCHANGED <<seat, seated, hidden, armed, lockTargetId, meant>>

(* A pause, or the observers' side.                                         *)
StandsAside(i) ==
  /\ i \in playing /\ playing' = playing \ {i}
  /\ UNCHANGED <<seat, seated, hidden, armed, lockTargetId, meant>>

(* applyDeath; Stealth goes with the tank's flag, a missile flies on.       *)
LosesLife(i) ==
  /\ i \in playing /\ playing' = playing \ {i}
  /\ SetLocks([lockTargetId EXCEPT ![i] = NoLock])
  /\ hidden' = hidden \ {i} /\ armed' \in {armed, armed \ {i}}
  /\ UNCHANGED <<seat, seated>>

(* Flags come and go, missiles land, a tank falls silent.                   *)
Hides(i) ==
  /\ seat[i] # 0
  /\ hidden' \in {hidden \cup {i}, hidden \ {i}}
  /\ UNCHANGED <<seat, seated, playing, armed, lockTargetId, meant>>

Arms(i) ==
  /\ i \in armed \/ seat[i] # 0
  /\ armed' = IF i \in armed THEN armed \ {i} ELSE armed \cup {i}
  /\ UNCHANGED <<seat, seated, playing, hidden, lockTargetId, meant>>

(* handleIdentify: another tank in its sights, or none.                     *)
Identifies(i) ==
  /\ i \in playing
  /\ \E t \in {NoLock} \cup {j \in LockIds \ {i} : i \in armed /\ CanLockOnto(j)} :
       SetLocks([lockTargetId EXCEPT ![i] = t])
  /\ UNCHANGED <<seat, seated, playing, hidden, armed>>

(* MsgGMUpdate of a BZFlag client names the target itself.                  *)
NamesTarget(i, t) ==
  /\ seat[i] # 0
  /\ SetLocks([lockTargetId EXCEPT ![i] = IF i \in armed /\ CanLockOnto(t) THEN t ELSE NoLock])
  /\ UNCHANGED <<seat, seated, playing, hidden, armed>>

(* expireLockTargets, at each turn of the game loop.                        *)
LocksExpire ==
  /\ SetLocks([i \in LockIds |->
       IF i \in armed /\ lockTargetId[i] # NoLock /\ CanLockOnto(lockTargetId[i])
       THEN lockTargetId[i] ELSE NoLock])
  /\ UNCHANGED <<seat, seated, playing, hidden, armed>>

(* Bug: locks on a player who leaves are left to expire.                    *)
GivesUpSeat_leavesLocks(i) ==
  /\ seat[i] # 0 /\ seat' = [seat EXCEPT ![i] = 0]
  /\ playing' = playing \ {i} /\ hidden' = hidden \ {i}
  /\ armed' \in {armed, armed \ {i}}
  /\ SetLocks([lockTargetId EXCEPT ![i] = NoLock])
  /\ UNCHANGED seated

(* Its missiles may still be in the air.                                    *)
GivesUpSeat(i) ==
  /\ seat[i] # 0 /\ seat' = [seat EXCEPT ![i] = 0]
  /\ playing' = playing \ {i} /\ hidden' = hidden \ {i}
  /\ armed' \in {armed, armed \ {i}}
  /\ SetLocks([j \in LockIds |-> IF j = i \/ lockTargetId[j] = i THEN NoLock ELSE lockTargetId[j]])
  /\ UNCHANGED seated

LockNext ==
  \/ \E i \in LockIds : Sits(i) \/ TakesField(i) \/ StandsAside(i) \/ LosesLife(i)
                        \/ Hides(i) \/ Arms(i) \/ Identifies(i) \/ GivesUpSeat(i)
  \/ \E i, t \in LockIds : NamesTarget(i, t)
  \/ LocksExpire

LockSpec == LockInit /\ [][LockNext]_lockVars

-----------------------------------------------------------------------------
(* A lock is held by a player who is there, and names one who is there: the *)
(* one it was taken on, and not a newcomer who was given the same id.       *)
LocksAreTrue ==
  \A i \in LockIds : lockTargetId[i] # NoLock =>
    seat[i] # 0 /\ seat[lockTargetId[i]] # 0 /\ seat[lockTargetId[i]] = meant[i]
=============================================================================
