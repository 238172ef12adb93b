----------------------------- MODULE FlagRules -----------------------------
(***************************************************************************)
(* What can be done to a flag.  The functions of src/server.js that write  *)
(* a flag record, as operators from one table of flags to the next.  The   *)
(* handlers of FlagGame compose them, so that everything one handler does  *)
(* to the flags is one step.                                               *)
(*                                                                         *)
(* A team has one flag (createFlags), so the flag is named by its team and *)
(* the "another flag of the team is still carried" test of                 *)
(* startTeamFlagTimeoutIfAbandoned never holds.  Positions, flight times   *)
(* and the zoned mark of Phantom Zone are left out: where a flag comes     *)
(* down is one of the three answers of Landing.  An operator named X_y     *)
(* before X is X with a plausible mistake, which the properties must tell. *)
(***************************************************************************)
EXTENDS Naturals

CONSTANTS
  Players,    \* the slots of the roster
  Teams,      \* the colour teams that have a base, and so a flag each
  Pool,       \* superflag slots that draw a type from the pool
  Required,   \* superflag slots pinned to one type: +f and zone flags
  Types,      \* the superflag types of this world
  PinnedType, \* the type of each required slot
  Sticky,     \* the types only a shake sheds
  Thief,      \* the type whose beam steals
  Shield,     \* the type that saves its carrier from one shot
  ShotLimit,  \* type -> shots a flag of it carries, 0 for no limit
  MaxGrabs,   \* pickups a good superflag survives (_maxFlagGrabs)
  None        \* no owner, no type, no killer

SuperSlots == Pool \cup Required
Flags == Teams \cup SuperSlots

ASSUME SlotsAssumption ==
  /\ Teams \cap SuperSlots = {}
  /\ Pool \cap Required = {}
ASSUME TypesAssumption ==
  /\ None \notin Types \cup Teams
  /\ Types \cap Teams = {}      \* a team flag's type names its team
  /\ PinnedType \in [Required -> Types]
  /\ Sticky \subseteq Types
  /\ ShotLimit \in [Types -> Nat]
  /\ MaxGrabs \in Nat \ {0}
ASSUME OwnersAssumption == None \notin Players

Statuses == {"NO_EXIST", "ON_GROUND", "ON_TANK", "IN_AIR", "COMING", "GOING"}
Flying == {"IN_AIR", "COMING", "GOING"}

\* Where a thrown flag comes down: a spot it may rest on, a roof where
\* flagsOnBuildings forbids it to stay, or nowhere at all (open water).
Landing == {"rest", "roof", "nowhere"}

FlagRecord == [status: Statuses,
               owner: Players \cup {None},
               type: Types \cup Teams \cup {None},
               grabs: 0..MaxGrabs,
               shots: Nat]

IsSticky(r) == r.type \in Sticky
IsLimited(r) == r.type \in Types /\ ShotLimit[r.type] > 0
GrabCount_flat(y) == MaxGrabs
GrabCount(y) == IF y \in Sticky \cup {Thief} THEN 1 ELSE MaxGrabs

\* createFlagSlot, before createFlags brings it into the world
EmptySlot(f) ==
  [status |-> "NO_EXIST", owner |-> None, grabs |-> 0, shots |-> 0,
   type |-> IF f \in Teams THEN f ELSE IF f \in Required THEN PinnedType[f] ELSE None]

AddFlag(r, y) ==
  [r EXCEPT !.status = "COMING", !.owner = None, !.type = y, !.grabs = GrabCount(y)]

SendFlagDrop(r) == [r EXCEPT !.owner = None]


\* resetFlag, and zapFlag, which ends in the same state.  "empty" is the set
\* of colour teams nobody is on at the moment of the call.
ResetFlag(f, r, empty) ==
  IF f \in Teams
  THEN [SendFlagDrop(r) EXCEPT !.status = IF f \in empty THEN "NO_EXIST" ELSE "ON_GROUND"]
  ELSE IF f \in Required THEN AddFlag(SendFlagDrop(r), PinnedType[f])
  ELSE [SendFlagDrop(r) EXCEPT !.status = "NO_EXIST", !.type = None]

SendFlagUp(f, r) ==
  [SendFlagDrop(r) EXCEPT !.status = "NO_EXIST",
                          !.type = IF f \in Required THEN @ ELSE None]

GrabsLeft_unfloored(r) == r.grabs - 1

\* A limited flag that has been fired is used up by being dropped.
GrabsLeft(r) ==
  LET grabs == IF IsLimited(r) /\ r.shots > 0 THEN 0 ELSE r.grabs
  IN  IF grabs = 0 THEN 0 ELSE grabs - 1

DropFlag(f, r, landing) ==
  IF r.status # "ON_TANK" \/ r.owner = None THEN r
  ELSE IF f \in Teams THEN [SendFlagDrop(r) EXCEPT !.status = "IN_AIR"]
  ELSE IF GrabsLeft(r) = 0 \/ landing = "nowhere"
       THEN [SendFlagDrop(r) EXCEPT !.status = "GOING", !.grabs = 0]
  ELSE [SendFlagDrop(r) EXCEPT !.status = IF landing = "roof" THEN "GOING" ELSE "IN_AIR",
                               !.grabs = GrabsLeft(r)]

DropPlayerFlag(f, r, landing, empty) ==
  IF f \in SuperSlots /\ IsSticky(r) THEN ResetFlag(f, r, empty) ELSE DropFlag(f, r, landing)

GrabFlag(r, p) == [r EXCEPT !.status = "ON_TANK", !.owner = p, !.shots = 0]

\* The table of flags after every player of S has given up what it carries:
\* dropPlayerFlag, once for each.
Shed(fl, S, land, empty) ==
  [f \in Flags |-> IF fl[f].owner \in S THEN DropPlayerFlag(f, fl[f], land[f], empty)
                   ELSE fl[f]]

\* dropFlag for the flag p carries, sticky or not: a shake, or a last shot.
Throw(fl, p, land) ==
  [f \in Flags |-> IF fl[f].owner = p THEN DropFlag(f, fl[f], land[f]) ELSE fl[f]]

ResetAll(fl, S, empty) ==
  [f \in Flags |-> IF f \in S THEN ResetFlag(f, fl[f], empty) ELSE fl[f]]

\* The teams whose flag is dropped by S while nobody plays for them: each one
\* starts the clock that takes an abandoned flag out of the world.
Abandoned(fl, S, empty) == {t \in Teams : fl[t].owner \in S /\ t \in empty}

Carried(fl, p) == {f \in Flags : fl[f].owner = p}
Carries(fl, p) == Carried(fl, p) # {}
CarriesType(fl, p, y) == \E f \in SuperSlots : fl[f].owner = p /\ fl[f].type = y

\* Every way the superflags of S may come down when they are thrown.
Landings(fl, S) == [{f \in SuperSlots : fl[f].owner \in S} -> Landing]

\* resetTeamFlags: the first player on a team brings its flag back.
ResetTeamFlags(fl, t, empty) ==
  ResetAll(fl, {f \in {t} : fl[f].status = "NO_EXIST"}, empty)

\* retireTeamFlags: the last player leaving takes it out of the world, unless
\* a player of another team carries it.
RetireTeamFlags(fl, t, team, empty) ==
  ResetAll(fl, {f \in {t} \cap empty : /\ fl[f].status # "NO_EXIST"
                                       /\ fl[f].owner = None \/ team[fl[f].owner] = t}, empty)

LastShot_late(r) == r.shots = ShotLimit[r.type]
LastShot(r) == r.shots + 1 = ShotLimit[r.type]

\* countFlagShot: the last shot of a limited flag uses it up and drops it.
\* Shots from a flag without a limit are never read, and not counted here.
CountFlagShot(fl, p, land) ==
  LET fired == {f \in Carried(fl, p) : IsLimited(fl[f])}
      Fire(r) == [r EXCEPT !.shots = @ + 1]
      Last(r) == [Fire(r) EXCEPT !.grabs = 0]
  IN  [f \in Flags |->
         IF f \notin fired THEN fl[f]
         ELSE IF LastShot(fl[f]) THEN DropFlag(f, Last(fl[f]), land[f])
         ELSE Fire(fl[f])]
=============================================================================
