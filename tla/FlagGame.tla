------------------------------ MODULE FlagGame ------------------------------
(***************************************************************************)
(* Capture the flag and the superflags: who carries what, through every    *)
(* way a tank comes and goes.  One action per handler, timer or tick of    *)
(* src/server.js and src/server/messages-play.cjs; the flag functions they *)
(* call are the operators of FlagRules.                                    *)
(*                                                                         *)
(* Left out: scores, positions and geometry (where a dropped flag lands,   *)
(* whether a tank is within reach, whether a shot hits are free choices),  *)
(* the clock of the match (a respawn may be put off for ever), Rabbit      *)
(* Chase, and the wire.                                                    *)
(***************************************************************************)
EXTENDS FlagRules, FiniteSets

CONSTANTS
  Rogue, Observer,    \* the teams that are not a colour with a flag
  NoTeam,             \* not joined
  Native,             \* players whose refused shots are only logged (reportCheat)
  TeamKillerDies,     \* no -tk
  JoinHolds,          \* a join may leave its tank dead: rejoin wait, bz_eAllowSpawn
  JoinKicks,          \* bz_eAllowSpawn may kick the arrival
  OperatorFlags,      \* the /flag up of an operator, which empties slots
  OperatorGives,      \* the /flag give of an operator
  MaxGhosts           \* bound: numbers of departed tanks whose timers are followed

ASSUME TeamNamesAssumption == {Rogue, Observer, NoTeam} \cap Teams = {} /\ NoTeam # Observer
                              /\ Rogue \notin {Observer, NoTeam}
ASSUME BoundAssumption == MaxGhosts \in Nat

VARIABLES
  flags,     \* flag -> FlagRecord
  team,      \* player -> team, NoTeam while it has not joined
  alive,     \* the players with a tank on the field
  paused,    \* the players whose pause has taken hold
  timeouts,  \* teamFlagTimeouts: teams whose abandoned flag is on the clock
  ghosts,    \* numbers of tanks that died and left: a death timer is still to come
  unclocked  \* history: flags of empty teams lying about that a ghost's return
             \* has taken off the clock

vars == <<flags, team, alive, paused, timeouts, ghosts, unclocked>>

PlayTeams == Teams \cup {Rogue}
EmptyTeams(tm) == {t \in Teams : \A p \in Players : tm[p] # t}
empty == EmptyTeams(team)

\* The teams with nobody on them whose flag lies about and is on no clock.
Lying == {t \in empty : flags[t].status # "NO_EXIST" /\ flags[t].owner = None} \ timeouts
Joined(p) == team[p] # NoTeam

TypeOK ==
  /\ flags \in [Flags -> FlagRecord]
  /\ team \in [Players -> PlayTeams \cup {Observer, NoTeam}]
  /\ alive \subseteq Players
  /\ paused \subseteq Players
  /\ timeouts \subseteq Teams
  /\ ghosts \subseteq Players
  /\ unclocked \subseteq Teams

\* createFlags: the superflags are on their way down as the map opens.
Init ==
  /\ \E y \in [Pool -> Types] :
       flags = [f \in Flags |->
                  CASE f \in Teams -> EmptySlot(f)
                    [] f \in Required -> AddFlag(EmptySlot(f), PinnedType[f])
                    [] f \in Pool -> AddFlag(EmptySlot(f), y[f])]
  /\ team = [p \in Players |-> NoTeam]
  /\ alive = {} /\ paused = {} /\ timeouts = {}
  /\ ghosts = {} /\ unclocked = {}

-----------------------------------------------------------------------------
(* Taking and giving up a flag. *)

Grab_second(p, f) ==
  /\ Joined(p) /\ p \in alive \ paused
  /\ flags[f].status = "ON_GROUND"
  /\ flags' = [flags EXCEPT ![f] = GrabFlag(@, p)]
  /\ UNCHANGED <<team, alive, paused, timeouts>>

\* grabFlag with its position check: the sweep of a driving tank.
Grab(p, f) ==
  /\ Joined(p) /\ p \in alive \ paused
  /\ ~Carries(flags, p)
  /\ flags[f].status = "ON_GROUND"
  /\ flags' = [flags EXCEPT ![f] = GrabFlag(@, p)]
  /\ UNCHANGED <<team, alive, paused, timeouts>>

Drops(S, land) ==
  /\ flags' = Shed(flags, S, land, empty)
  /\ timeouts' = timeouts \cup Abandoned(flags, S, empty)

Throws(p, land) ==
  /\ flags' = Throw(flags, p, land)
  /\ timeouts' = timeouts \cup Abandoned(flags, {p}, empty)
  /\ UNCHANGED <<team, alive, paused>>

\* handleDropFlag.  A sticky flag only once its shake timeout has run.
Drop(p) ==
  /\ Joined(p) /\ p \in alive
  /\ \E land \in Landings(flags, {p}) : Throws(p, land)

\* checkAntidote: a bad flag is shed by driving onto the antidote.
Antidote(p) ==
  /\ p \in alive \ paused
  /\ \E f \in Carried(flags, p) : IsSticky(flags[f])
  /\ \E land \in Landings(flags, {p}) : Throws(p, land)

\* checkNotResponding: a tank unheard from gives its flag up.
NotResponding(p) ==
  /\ Joined(p) /\ p \in alive
  /\ \E land \in Landings(flags, {p}) : Drops({p}, land)
  /\ UNCHANGED <<team, alive, paused>>

\* setPaused(player, true), at the end of the countdown.  A team flag goes now.
Pause(p) ==
  /\ Joined(p) /\ p \in alive \ paused
  /\ paused' = paused \cup {p}
  /\ Drops({p} \cap {flags[t].owner : t \in Teams}, [f \in SuperSlots |-> "rest"])
  /\ UNCHANGED <<team, alive>>

\* The pause-drop timer: whatever else is carried goes after _pauseDropTime.
PauseDrop(p) ==
  /\ Joined(p) /\ p \in paused
  /\ \E land \in Landings(flags, {p}) : Drops({p}, land)
  /\ UNCHANGED <<team, alive, paused>>

Unpause(p) ==
  /\ p \in alive \cap paused
  /\ paused' = paused \ {p}
  /\ UNCHANGED <<flags, team, alive, timeouts>>

-----------------------------------------------------------------------------
(* Shots and deaths. *)

MayShoot(p) == p \in alive /\ (p \in paused => p \in Native)

\* handleShoot when no beam reaches a tank.
Shoot(p) ==
  /\ MayShoot(p)
  /\ \E land \in Landings(flags, {p}) : flags' = CountFlagShot(flags, p, land)
  /\ UNCHANGED <<team, alive, paused, timeouts>>

Spend_free(fl, p, answer) == fl
Spend(fl, p, answer) ==
  IF answer = "cancel" THEN fl ELSE ResetAll(fl, Carried(fl, p), empty)

\* handleShoot when a thief's beam robs v: stealFlag, with a plugin's answer
\* to bz_eFlagTransferredEvent, and then countFlagShot.
Steal(p, v, answer) ==
  LET spent == Spend(flags, p, answer)
      taken == Carried(flags, v)
      given == IF answer # "steal" THEN spent
               ELSE [f \in Flags |-> IF f \in taken
                                     THEN [spent[f] EXCEPT !.owner = p, !.status = "ON_TANK"]
                                     ELSE spent[f]]
  IN  /\ MayShoot(p) /\ CarriesType(flags, p, Thief)
      /\ v # p /\ v \in alive \ paused /\ taken # {}
      /\ \E land \in Landings(flags, {p, v}) : flags' = CountFlagShot(given, p, land)
      /\ UNCHANGED <<team, alive, paused, timeouts>>

\* applyShotVictim on a shielded tank: the flag is thrown, the life is kept.
ShieldHit(v) ==
  /\ v \in alive /\ (v \in paused => v \in Native)
  /\ CarriesType(flags, v, Shield)
  /\ \E land \in Landings(flags, {v}) : Drops({v}, land)
  /\ UNCHANGED <<team, alive, paused>>

TeamMates(p, q) == p # q /\ team[p] = team[q] /\ team[p] \in Teams

\* killPlayer, and applyGenocide when the shot was a Genocide: the victims die
\* and give up their flags, a foe's win may be the one that shakes a bad flag
\* off the killer, and a team killer dies for it.  k is None for a death that
\* is nobody's, and for a shooter that has left.
Kill(v, k, genocide, shake) ==
  LET victims == IF genocide /\ team[v] \in Teams THEN {q \in alive : team[q] = team[v]} ELSE {v}
      teamKill == k # None /\ \E q \in victims : TeamMates(k, q)
      dead == victims \cup (IF teamKill /\ TeamKillerDies THEN alive \cap {k} ELSE {})
  IN  /\ v \in alive
      /\ k # None => Joined(k)
      /\ genocide => k # None
      /\ shake => /\ k \notin victims \cup {None} /\ ~teamKill
                 /\ \E f \in Carried(flags, k) : IsSticky(flags[f])
      /\ \E land \in Landings(flags, dead \cup ({k} \ {None})) :
           /\ flags' = Shed(IF shake THEN Throw(flags, k, land) ELSE flags, dead, land, empty)
           /\ timeouts' = timeouts \cup Abandoned(flags, dead, empty)
      /\ alive' = alive \ dead
      /\ UNCHANGED <<team, paused>>

\* captureFlag.  The flag goes home first; the team that lost it dies, unless
\* a plugin lets it live.
Capture(p, killTeam) ==
  \E t \in Teams :
    LET home == ResetAll(flags, {t}, empty)
        dead == IF killTeam THEN {q \in alive : team[q] = t} ELSE {}
    IN  /\ flags[t].owner = p
        /\ p \in alive \ paused /\ team[p] \in Teams
        /\ \E land \in Landings(home, dead) :
             /\ flags' = Shed(home, dead, land, empty)
             /\ timeouts' = timeouts \cup Abandoned(home, dead, empty)
        /\ alive' = alive \ dead
        /\ UNCHANGED <<team, paused>>

EndMatch_keepsFlags ==
  /\ alive' = {}
  /\ UNCHANGED <<flags, team, paused, timeouts>>

\* endMatch: every tank on the field dies, and nobody scores.
EndMatch ==
  /\ \E land \in Landings(flags, alive) : Drops(alive, land)
  /\ alive' = {}
  /\ UNCHANGED <<team, paused>>

-----------------------------------------------------------------------------
(* Coming, going and changing sides. *)

Move_resetBeforeMove(p, t, shed, alone) ==
  LET tm == [team EXCEPT ![p] = t]
      back == IF alone /\ t \in Teams THEN ResetTeamFlags(shed, t, empty) ELSE shed
  IN  /\ team' = tm
      /\ flags' = IF team[p] \in Teams \ {t} THEN RetireTeamFlags(back, team[p], tm, EmptyTeams(tm))
                  ELSE back

\* A player moves to team t having given up its flag: the first one on a team
\* brings its flag back, the last one off a team takes its flag away.
Move(p, t, shed, alone) ==
  LET tm == [team EXCEPT ![p] = t]
      back == IF alone /\ t \in Teams THEN ResetTeamFlags(shed, t, EmptyTeams(tm)) ELSE shed
  IN  /\ team' = tm
      /\ flags' = IF team[p] \in Teams \ {t} THEN RetireTeamFlags(back, team[p], tm, EmptyTeams(tm))
                  ELSE back
Alone(p, t) == \A q \in Players \ {p} : team[q] # t

\* handleJoinGame, the first time or from the entry dialog of a player already
\* in the game.  Only a change of team gives the flag up.
Join(p, t, up) ==
  LET moving == Joined(p) /\ team[p] # t
      leavers == IF moving THEN {p} ELSE {}
  IN  /\ up => t # Observer
      /\ up \/ t = Observer \/ p \notin alive \/ JoinHolds
      /\ \E land \in Landings(flags, leavers) : Move(p, t, Shed(flags, leavers, land, empty), Alone(p, t))
      /\ timeouts' = (timeouts \cup Abandoned(flags, leavers, empty)) \ (IF Alone(p, t) THEN {t} ELSE {})
      /\ alive' = IF up THEN alive \cup {p} ELSE alive \ {p}
      /\ paused' = paused \ {p}

\* The same when bz_eAllowSpawn kicks: the handler returns half way, with the
\* new team taken and neither team's flag looked at.
JoinKicked(p, t) ==
  LET leavers == IF Joined(p) /\ team[p] # t THEN {p} ELSE {}
  IN  /\ JoinKicks /\ t # Observer
      /\ \E land \in Landings(flags, leavers) : Drops(leavers, land)
      /\ team' = [team EXCEPT ![p] = t]
      /\ alive' = alive \cup {p}
      /\ UNCHANGED paused

\* changePlayerTeam.
ChangeTeam(p, t) ==
  LET leavers == IF team[p] = t THEN {} ELSE {p}
      first == team[p] # t /\ t \in empty
  IN  /\ \E land \in Landings(flags, leavers) : Move(p, t, Shed(flags, leavers, land, empty), first)
      /\ timeouts' = (timeouts \cup Abandoned(flags, leavers, empty)) \ (IF first THEN {t} ELSE {})

\* bringBack and respawn, which takes the team asked for in the last life
\* (handleSetTeam: any playing team may have been).
Respawn(p, t) ==
  /\ team[p] \in PlayTeams /\ p \notin alive
  /\ ChangeTeam(p, t)
  /\ alive' = alive \cup {p}
  /\ paused' = paused \ {p}

\* /setteam moves a tank where it stands.
SetTeam(p, t) ==
  /\ team[p] \in PlayTeams \ {t}
  /\ ChangeTeam(p, t)
  /\ UNCHANGED <<alive, paused>>

\* The close of a connection, whatever closed it.
Leave(p) ==
  LET tm == [team EXCEPT ![p] = NoTeam]
      now == EmptyTeams(tm)
  IN  /\ Joined(p)
      /\ team' = tm
      /\ \E land \in Landings(flags, {p}) :
           flags' = IF team[p] \in Teams
                    THEN RetireTeamFlags(Shed(flags, {p}, land, now), team[p], tm, now)
                    ELSE Shed(flags, {p}, land, now)
      /\ timeouts' = timeouts \cup Abandoned(flags, {p}, now)
      /\ alive' = alive \ {p}
      /\ paused' = paused \ {p}

\* The death timer of a tank that has left, under a number that is in use
\* again: it asks whether the number is taken, not by whom, and respawns the
\* departed player.  That one's change of team, from the side it had to the
\* one it had asked for, drops the flag of the tank that has its number now
\* and stops the clock of the team nobody has joined.  Which sides they were,
\* and how many such timers run under one number, is not kept.
GhostRespawn(p, from, to) ==
  LET Arrive(fl) == IF to \in empty THEN ResetTeamFlags(fl, to, empty) ELSE fl
      Retire(fl) == IF from \in Teams THEN RetireTeamFlags(fl, from, team, empty) ELSE fl
  IN  /\ p \in ghosts /\ from # to
      /\ \E land \in Landings(flags, {p}) : flags' = Retire(Arrive(Shed(flags, {p}, land, empty)))
      /\ timeouts' = (timeouts \cup Abandoned(flags, {p}, empty)) \ ({to} \cap empty)
      /\ UNCHANGED <<team, alive, paused>>

-----------------------------------------------------------------------------
(* The tick, and the operator. *)

\* updateFlags: the flights that are over, then the team timeouts that are,
\* then the insertion schedule, which fills the first empty superflag slot.
NextSlot(fl) ==
  LET vacant == {f \in SuperSlots : fl[f].status = "NO_EXIST"}
  IN  IF vacant \cap Required # {} THEN vacant \cap Required ELSE vacant
Landed(fl, due) ==
  [f \in Flags |-> IF f \notin due THEN fl[f]
                   ELSE IF fl[f].status = "GOING" THEN ResetFlag(f, fl[f], empty)
                   ELSE [fl[f] EXCEPT !.status = "ON_GROUND"]]
Expired_carriedOnly(fl, late) ==
  ResetAll(fl, {t \in late \cap empty : fl[t].owner # None}, empty)
Expired(fl, late) ==
  ResetAll(fl, {t \in late \cap empty : fl[t].status # "NO_EXIST" /\ fl[t].owner = None}, empty)

UpdateFlags(due, late, insert) ==
  LET fl == Expired(Landed(flags, due), late)
  IN  /\ \A f \in due : flags[f].status \in Flying
      /\ late \subseteq timeouts
      /\ UNCHANGED <<team, alive, paused>>
      /\ timeouts' = timeouts \ late
      /\ IF insert /\ Pool # {} /\ NextSlot(fl) # {}
         THEN \E f \in NextSlot(fl), y \in Types :
                flags' = [fl EXCEPT ![f] = AddFlag(@, IF f \in Required THEN PinnedType[f] ELSE y)]
         ELSE flags' = fl
Airborne == {f \in Flags : flags[f].status \in Flying}
Tick == \E due \in SUBSET Airborne, late \in SUBSET timeouts, insert \in BOOLEAN :
          UpdateFlags(due, late, insert)

\* /flag reset, a reset poll, /flag take, and the plugins' bz_resetFlag(s).
ResetFlags(S) ==
  /\ flags' = ResetAll(flags, S, empty)
  /\ UNCHANGED <<team, alive, paused, timeouts>>
Free == {f \in Flags : flags[f].owner = None}

\* /flag up.
FlagUp ==
  /\ OperatorFlags
  /\ flags' = [f \in Flags |-> IF f \in Teams \/ flags[f].status = "NO_EXIST" THEN flags[f]
                               ELSE SendFlagUp(f, flags[f])]
  /\ UNCHANGED <<team, alive, paused, timeouts>>

\* /flag give: what the tank carries is thrown or sent home, the flag is taken
\* off whoever has it, and then grabFlag is called, with its guards.
FlagGive(p, f, land) ==
  LET held == Carried(flags, p)
      freed == [g \in Flags |-> IF g \notin held THEN flags[g]
                                ELSE IF g \in Teams THEN DropFlag(g, flags[g], land)
                                ELSE ResetFlag(g, flags[g], empty)]
      off == [freed EXCEPT ![f] = SendFlagDrop(@)]
  IN  /\ OperatorGives
      /\ flags[f].type # None
      /\ p \in alive /\ team[p] # Observer
      /\ flags' = IF p \in paused THEN off ELSE [off EXCEPT ![f] = GrabFlag(@, p)]
      /\ timeouts' = timeouts \cup Abandoned(flags, {p}, empty)
      /\ UNCHANGED <<team, alive, paused>>

-----------------------------------------------------------------------------
PlayerStep(p) ==
  \/ \E f \in Flags : Grab(p, f)
  \/ Drop(p) \/ Antidote(p) \/ NotResponding(p)
  \/ Pause(p) \/ PauseDrop(p) \/ Unpause(p)
  \/ Shoot(p)
  \/ \E v \in Players, answer \in {"steal", "cancel", "drop"} : Steal(p, v, answer)
  \/ ShieldHit(p)
  \/ \E k \in Players \cup {None}, genocide, shake \in BOOLEAN : Kill(p, k, genocide, shake)
  \/ \E killTeam \in BOOLEAN : Capture(p, killTeam)

RosterStep(p) ==
  \/ \E t \in PlayTeams \cup {Observer} : (\E up \in BOOLEAN : Join(p, t, up)) \/ JoinKicked(p, t)
  \/ \E t \in PlayTeams : Respawn(p, t) \/ SetTeam(p, t)
  \/ Leave(p)

ServerStep ==
  \/ EndMatch
  \/ Tick
  \/ \E S \in {Flags, Free, SuperSlots} \cup {{f} : f \in Flags} : ResetFlags(S)
  \/ FlagUp
  \/ \E p \in Players, f \in Flags, land \in Landing : FlagGive(p, f, land)

\* What a step leaves behind: a death timer under the number of p when p
\* leaves its dead tank, and the flags whose clock a ghost's return stopped.
LeftDead(p) == {p} \cap {q \in Players \ alive : team[q] \in PlayTeams /\ team'[q] = NoTeam}
Behind(left, stopped) ==
  /\ ghosts' = IF Cardinality(ghosts \cup left) <= MaxGhosts THEN ghosts \cup left ELSE ghosts
  /\ unclocked' = (unclocked \cup stopped) \cap Lying'

Next ==
  \/ \E p \in Players : (PlayerStep(p) \/ RosterStep(p)) /\ Behind(LeftDead(p), {})
  \/ ServerStep /\ Behind({}, {})
  \/ \E p \in Players, from, to \in PlayTeams : GhostRespawn(p, from, to) /\ Behind({}, {to})

\* The game loop runs for ever and measures every flight and timeout against
\* the wall clock, so a flight that is up lands and a timeout that is up fires.
Fairness ==
  /\ \A f \in Flags : WF_vars(\E due \in SUBSET Airborne, late \in SUBSET timeouts, insert \in BOOLEAN :
                                f \in due /\ UpdateFlags(due, late, insert) /\ Behind({}, {}))
  /\ \A t \in Teams : WF_vars(\E due \in SUBSET Airborne, late \in SUBSET timeouts, insert \in BOOLEAN :
                                t \in late /\ UpdateFlags(due, late, insert) /\ Behind({}, {}))
Spec == Init /\ [][Next]_vars
FairSpec == Spec /\ Fairness

-----------------------------------------------------------------------------
(* Properties. *)

\* A flag with an owner is on a tank: nothing that lands, vanishes, expires or
\* is inserted forgets to take the flag off its carrier first.
CarrierOnTank == \A f \in Flags : flags[f].owner # None => flags[f].status = "ON_TANK"

\* A flag on a tank has an owner.  One without never lands and is never
\* inserted again: nobody can ever pick it up.
NoOrphan == \A f \in Flags : flags[f].status = "ON_TANK" => flags[f].owner # None

\* No tank ever carries two flags, whoever gave, stole or dropped them;
\* getPlayerFlag reads only the first.
OneFlagEach == \A f, g \in Flags : flags[f].owner # None /\ flags[f].owner = flags[g].owner => f = g

\* A carrier is a player in the game with a side, never one who left or who
\* only watches.
CarrierPlays == \A f \in Flags : flags[f].owner # None => team[flags[f].owner] \in PlayTeams

\* Custody: through grabs, thefts, drops, captures, deaths, departures and the
\* operator's commands, every owned flag is on the one tank that owns it.
FlagCustody == CarrierOnTank /\ OneFlagEach /\ CarrierPlays

\* "the grab has to reach a tank that is on the field, or the flag would be
\* carried by nothing" (/flag give).
CarrierAlive == \A f \in Flags : flags[f].owner # None => flags[f].owner \in alive

\* "A paused tank cannot be shot, so a team flag it kept would be out of the
\* game for as long as its carrier stayed away" (setPaused).
PausedKeepsNoTeamFlag == \A t \in Teams : flags[t].owner \notin paused

\* A carried flag is in play: it can be shot loose, captured or dropped, because
\* its carrier exists, is on the field, and is not out of reach in a pause.
CarriersAreInPlay == NoOrphan /\ CarrierAlive /\ PausedKeepsNoTeamFlag

\* The flag of a team with nobody on it is gone, carried by an enemy, or on
\* the clock that takes it out of the world, unless the clock was stopped by
\* the respawn of a player who is not there.
EmptyTeamFlagLeaves == Lying \subseteq unclocked

\* A team with players has its flag in the world.
TeamFlagInWorld == \A t \in Teams \ empty : flags[t].status # "NO_EXIST"

\* Team flags follow their teams through joins, leaves and changes of side:
\* in the world while somebody plays for them, on their way out when not.
\* changePlayerTeam is the one handler that may change a clock for a player
\* not in the game.
TeamFlagsFollowTeams == EmptyTeamFlagLeaves /\ TeamFlagInWorld

\* A superflag with no grabs left is never lying where it can be grabbed.
SpentFlagLeaves ==
  \A f \in SuperSlots : flags[f].status \in {"COMING", "ON_GROUND", "IN_AIR"} => flags[f].grabs > 0

\* A limited flag leaves the tank with its last shot.
LimitedFlagHasShots ==
  \A f \in SuperSlots : flags[f].owner # None /\ IsLimited(flags[f])
                          => flags[f].shots < ShotLimit[flags[f].type]

\* "required flags mustn't just disappear" (resetFlag): short of /flag up, a
\* required slot is always somewhere in the world, holding its own type.
RequiredFlagStays ==
  \A f \in Required : flags[f].status # "NO_EXIST" /\ flags[f].type = PinnedType[f]

\* A pool slot has a type exactly while it is in the world.
TypedInWorld == \A f \in Pool : flags[f].type = None <=> flags[f].status = "NO_EXIST"

\* Superflags are used up and renewed in step: grabs, shots, type and status
\* agree whichever of them a drop, a shot, a landing or a reset changed.
SuperflagsAreSpent == SpentFlagLeaves /\ LimitedFlagHasShots /\ RequiredFlagStays /\ TypedInWorld

\* A sticky flag that has been carried never comes to lie on the ground again:
\* shaken, dropped by its carrier's death or stolen, it is spent.
StickyIsSpent ==
  [][\A f \in SuperSlots : IsSticky(flags[f]) /\ flags[f].status = "ON_TANK"
                            => flags'[f].status \notin {"IN_AIR", "ON_GROUND"}]_vars

\* A flag changes hands without touching the ground only by a theft, which
\* costs the thief the flag it stole with, or by an operator's give.
HandoverSpendsThief ==
  [][\A f \in Flags : flags[f].owner # None /\ flags'[f].owner \notin {None, flags[f].owner}
        => \E g \in SuperSlots : /\ flags[g].owner = flags'[f].owner /\ flags[g].type = Thief
                                 /\ flags'[g].owner = None]_vars

\* Through everything that can happen to a tank, the flags are what players
\* hold, one in a pair of hands: they pass from hand to hand as FlagHands says.
HD == INSTANCE FlagHands WITH
  holder <- [f \in Flags |-> flags[f].owner], Nobody <- None, MayGive <- OperatorGives

\* And in the one way hands can take from hands, a theft, what pays for it is
\* the very flag it was done with.
FlagsPassHands == HD!Spec /\ HandoverSpendsThief

\* An abandoned flag does not lie about for ever, unless a ghost's return has
\* stopped its clock.
AbandonedFlagLeaves ==
  \A t \in Teams : LET lies == /\ t \in empty \ unclocked
                               /\ flags[t].owner = None /\ flags[t].status # "NO_EXIST"
                   IN  lies ~> ~lies

\* Whatever is thrown or flown in comes down.
FlightsEnd == \A f \in Flags : flags[f].status \in Flying ~> flags[f].status \notin Flying

\* Flags come to rest: timers and flights that a game event sets aside are
\* taken up again.
FlagsSettle == AbandonedFlagLeaves /\ FlightsEnd
=============================================================================
