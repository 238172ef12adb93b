--------------------------- MODULE FlagGame_proof ---------------------------
(***************************************************************************)
(* Custody of the flags, for every roster, every world and every setting   *)
(* of the constants.  Every operator of FlagRules is a release: it takes   *)
(* flags off tanks and never puts one on.  A flag gets onto a tank in      *)
(* three places only (Grab, Steal, FlagGive), and in each of them the      *)
(* taker's hands are empty.                                                *)
(***************************************************************************)
EXTENDS FlagGame, TLAPS

\* No flag is on a tank in fl2 that was not on the same tank in fl1.
Releases(fl1, fl2) ==
  /\ fl2 \in [Flags -> FlagRecord]
  /\ \A f \in Flags : fl2[f].owner \in {None, fl1[f].owner}
  /\ \A f \in Flags : fl2[f].owner # None => fl2[f].status = "ON_TANK"

OnTank(fl) == \A f \in Flags : fl[f].owner # None => fl[f].status = "ON_TANK"
OneEach(fl) == \A f, g \in Flags : fl[f].owner # None /\ fl[f].owner = fl[g].owner => f = g

\* Whoever has a tank on the field is on a side.
AlivePlays == \A p \in alive : team[p] \in PlayTeams

\* The tables of the game, without the timers a departed tank leaves behind.
Typed ==
  /\ flags \in [Flags -> FlagRecord]
  /\ team \in [Players -> PlayTeams \cup {Observer, NoTeam}]
  /\ alive \subseteq Players /\ paused \subseteq Players /\ timeouts \subseteq Teams

Custody == Typed /\ CarrierOnTank /\ OneFlagEach /\ CarrierPlays /\ AlivePlays

-----------------------------------------------------------------------------
(* The operators on one flag. *)

\* A flag on its way into the world has a type, its grabs, and no owner.
LEMMA AddFlagReleases ==
  ASSUME NEW r \in FlagRecord, NEW y \in Types
  PROVE  /\ AddFlag(r, y) \in FlagRecord
         /\ AddFlag(r, y).owner = None
  <1>1. GrabCount(y) \in 0..MaxGrabs BY TypesAssumption DEF GrabCount
  <1>. QED BY <1>1 DEF AddFlag, FlagRecord, Statuses

\* A flag sent home is a well-formed flag nobody carries.
LEMMA ResetFlagReleases ==
  ASSUME NEW f \in Flags, NEW r \in FlagRecord, NEW e
  PROVE  /\ ResetFlag(f, r, e) \in FlagRecord
         /\ ResetFlag(f, r, e).owner = None
  <1>1. SendFlagDrop(r) \in FlagRecord /\ SendFlagDrop(r).owner = None
    BY DEF SendFlagDrop, FlagRecord
  <1>2. CASE f \in Teams BY <1>1, <1>2 DEF ResetFlag, FlagRecord, Statuses
  <1>3. CASE f \notin Teams /\ f \in Required
    <2>1. PinnedType[f] \in Types BY <1>3, TypesAssumption
    <2>. QED BY <1>1, <1>3, <2>1, AddFlagReleases DEF ResetFlag
  <1>4. CASE f \notin Teams /\ f \notin Required
    BY <1>1, <1>4 DEF ResetFlag, FlagRecord, Statuses
  <1>. QED BY <1>2, <1>3, <1>4

\* Dropping costs a grab and never leaves fewer than none.
LEMMA GrabsLeftType ==
  ASSUME NEW r \in FlagRecord
  PROVE  GrabsLeft(r) \in 0..MaxGrabs
  BY TypesAssumption DEF GrabsLeft, FlagRecord

\* A flag dropped by a tank is a well-formed flag nobody carries.
LEMMA DropFlagReleases ==
  ASSUME NEW f \in Flags, NEW r \in FlagRecord, NEW l,
         r.owner # None => r.status = "ON_TANK"
  PROVE  /\ DropFlag(f, r, l) \in FlagRecord
         /\ DropFlag(f, r, l).owner = None
  <1>1. GrabsLeft(r) \in 0..MaxGrabs BY GrabsLeftType
  <1>2. 0 \in 0..MaxGrabs BY TypesAssumption
  <1>. QED BY <1>1, <1>2, OwnersAssumption DEF DropFlag, SendFlagDrop, FlagRecord, Statuses

LEMMA DropPlayerFlagReleases ==
  ASSUME NEW f \in Flags, NEW r \in FlagRecord, NEW l, NEW e,
         r.owner # None => r.status = "ON_TANK"
  PROVE  /\ DropPlayerFlag(f, r, l, e) \in FlagRecord
         /\ DropPlayerFlag(f, r, l, e).owner = None
  BY ResetFlagReleases, DropFlagReleases DEF DropPlayerFlag

-----------------------------------------------------------------------------
(* The operators on the table of flags. *)

LEMMA ReleasesKeep ==
  ASSUME NEW fl1, NEW fl2, Releases(fl1, fl2), OneEach(fl1)
  PROVE  OnTank(fl2) /\ OneEach(fl2)
  BY DEF Releases, OnTank, OneEach

LEMMA ReleasesCompose ==
  ASSUME NEW fl1, NEW fl2, NEW fl3, Releases(fl1, fl2), Releases(fl2, fl3)
  PROVE  Releases(fl1, fl3)
  BY DEF Releases

\* Shedding leaves the players of S with nothing.
LEMMA ShedReleases ==
  ASSUME NEW fl \in [Flags -> FlagRecord], OnTank(fl), NEW S, NEW land, NEW e
  PROVE  /\ Releases(fl, Shed(fl, S, land, e))
         /\ \A f \in Flags : Shed(fl, S, land, e)[f].owner \in {None} \cup (Players \ S)
  <1>1. \A f \in Flags : fl[f] \in FlagRecord /\ (fl[f].owner # None => fl[f].status = "ON_TANK")
    BY DEF OnTank
  <1>2. \A f \in Flags : /\ DropPlayerFlag(f, fl[f], land[f], e) \in FlagRecord
                         /\ DropPlayerFlag(f, fl[f], land[f], e).owner = None
    BY <1>1, DropPlayerFlagReleases
  <1>3. \A f \in Flags : fl[f].owner \in Players \cup {None} BY <1>1 DEF FlagRecord
  <1>. QED BY <1>1, <1>2, <1>3 DEF Shed, Releases

LEMMA ThrowReleases ==
  ASSUME NEW fl \in [Flags -> FlagRecord], OnTank(fl), NEW p, NEW land
  PROVE  Releases(fl, Throw(fl, p, land))
  <1>1. \A f \in Flags : fl[f] \in FlagRecord /\ (fl[f].owner # None => fl[f].status = "ON_TANK")
    BY DEF OnTank
  <1>2. \A f \in Flags : /\ DropFlag(f, fl[f], land[f]) \in FlagRecord
                         /\ DropFlag(f, fl[f], land[f]).owner = None
    BY <1>1, DropFlagReleases
  <1>. QED BY <1>1, <1>2 DEF Throw, Releases

LEMMA ResetAllReleases ==
  ASSUME NEW fl \in [Flags -> FlagRecord], OnTank(fl), NEW S, NEW e
  PROVE  /\ Releases(fl, ResetAll(fl, S, e))
         /\ \A f \in Flags : f \in S => ResetAll(fl, S, e)[f].owner = None
  <1>1. \A f \in Flags : fl[f] \in FlagRecord /\ (fl[f].owner # None => fl[f].status = "ON_TANK")
    BY DEF OnTank
  <1>2. \A f \in Flags : /\ ResetFlag(f, fl[f], e) \in FlagRecord
                         /\ ResetFlag(f, fl[f], e).owner = None
    BY <1>1, ResetFlagReleases
  <1>. QED BY <1>1, <1>2 DEF ResetAll, Releases

LEMMA CountFlagShotReleases ==
  ASSUME NEW fl \in [Flags -> FlagRecord], OnTank(fl), NEW p, NEW land
  PROVE  Releases(fl, CountFlagShot(fl, p, land))
  <1>. DEFINE Fire(r) == [r EXCEPT !.shots = @ + 1]
              Last(r) == [Fire(r) EXCEPT !.grabs = 0]
  <1>1. \A f \in Flags : fl[f] \in FlagRecord /\ (fl[f].owner # None => fl[f].status = "ON_TANK")
    BY DEF OnTank
  <1>2. \A r \in FlagRecord : /\ Fire(r) \in FlagRecord /\ Last(r) \in FlagRecord
                              /\ Fire(r).owner = r.owner /\ Last(r).owner = r.owner
                              /\ Fire(r).status = r.status /\ Last(r).status = r.status
    <2>. SUFFICES ASSUME NEW r \in FlagRecord
                  PROVE  /\ Fire(r) \in FlagRecord /\ Last(r) \in FlagRecord
                         /\ Fire(r).owner = r.owner /\ Last(r).owner = r.owner
                         /\ Fire(r).status = r.status /\ Last(r).status = r.status
      OBVIOUS
    <2>1. Fire(r) \in FlagRecord /\ Fire(r).owner = r.owner /\ Fire(r).status = r.status
      BY DEF FlagRecord
    <2>2. \A q \in FlagRecord : /\ [q EXCEPT !.grabs = 0] \in FlagRecord
                                /\ [q EXCEPT !.grabs = 0].owner = q.owner
                                /\ [q EXCEPT !.grabs = 0].status = q.status
      BY TypesAssumption DEF FlagRecord
    <2>. HIDE DEF Fire
    <2>. QED BY <2>1, <2>2
  <1>3. \A f \in Flags : /\ DropFlag(f, Last(fl[f]), land[f]) \in FlagRecord
                         /\ DropFlag(f, Last(fl[f]), land[f]).owner = None
    <2>. HIDE DEF Fire, Last
    <2>. QED BY <1>1, <1>2, DropFlagReleases
  <1>. HIDE DEF Fire, Last
  <1>4. CountFlagShot(fl, p, land) =
          [f \in Flags |->
             IF f \notin {g \in Carried(fl, p) : IsLimited(fl[g])} THEN fl[f]
             ELSE IF LastShot(fl[f]) THEN DropFlag(f, Last(fl[f]), land[f]) ELSE Fire(fl[f])]
    BY DEF CountFlagShot, Fire, Last
  <1>. QED BY <1>1, <1>2, <1>3, <1>4 DEF Releases

\* The move of a player to a team only sends flags home.
LEMMA MoveReleases ==
  ASSUME NEW p, NEW t, NEW shed \in [Flags -> FlagRecord], OnTank(shed), NEW alone,
         Move(p, t, shed, alone)
  PROVE  Releases(shed, flags') /\ team' = [team EXCEPT ![p] = t]
  <1>. DEFINE tm == [team EXCEPT ![p] = t]
              back == IF alone /\ t \in Teams THEN ResetTeamFlags(shed, t, EmptyTeams(tm)) ELSE shed
  <1>1. Releases(shed, back) /\ back \in [Flags -> FlagRecord] /\ OnTank(back)
    <2>1. Releases(shed, shed) BY DEF Releases, OnTank, FlagRecord
    <2>2. Releases(shed, ResetTeamFlags(shed, t, EmptyTeams(tm)))
      BY ResetAllReleases DEF ResetTeamFlags
    <2>3. Releases(shed, back) BY <2>1, <2>2
    <2>. QED BY <2>3 DEF Releases, OnTank
  <1>. HIDE DEF back
  <1>2. Releases(back, RetireTeamFlags(back, team[p], tm, EmptyTeams(tm)))
    BY <1>1, ResetAllReleases DEF RetireTeamFlags
  <1>3. flags' \in {back, RetireTeamFlags(back, team[p], tm, EmptyTeams(tm))}
    BY DEF Move, back
  <1>4. Releases(shed, flags') BY <1>1, <1>2, <1>3, ReleasesCompose
  <1>. QED BY <1>4 DEF Move

-----------------------------------------------------------------------------
(* The kinds of step. *)

\* A step in which flags are only given up and nobody changes sides.
LEMMA QuietStep ==
  ASSUME Custody, Releases(flags, flags'), team' = team, alive' \subseteq alive,
         paused' \subseteq Players, timeouts' \subseteq Teams
  PROVE  Custody'
  BY DEF Custody, Typed, CarrierOnTank, OneFlagEach, CarrierPlays, AlivePlays, Releases

\* A step in which one player changes sides, empty-handed unless it plays on.
LEMMA RosterMoveStep ==
  ASSUME Custody, Releases(flags, flags'),
         NEW p \in Players, NEW t \in PlayTeams \cup {Observer, NoTeam},
         team' = [team EXCEPT ![p] = t],
         t \in PlayTeams \/ \A f \in Flags : flags'[f].owner # p,
         alive' \subseteq alive \cup {p}, p \in alive' => t \in PlayTeams,
         paused' \subseteq Players, timeouts' \subseteq Teams
  PROVE  Custody'
  <1>1. Typed' BY DEF Custody, Typed, Releases
  <1>2. CarrierOnTank' /\ OneFlagEach'
    BY DEF Custody, CarrierOnTank, OneFlagEach, Releases
  <1>3. CarrierPlays' BY DEF Custody, Typed, CarrierPlays, Releases
  <1>4. AlivePlays' BY DEF Custody, Typed, AlivePlays
  <1>. QED BY <1>1, <1>2, <1>3, <1>4 DEF Custody

\* A step in which one player with empty hands takes one flag nobody has.
LEMMA TakeStep ==
  ASSUME Custody, NEW mid, Releases(flags, mid), NEW p \in alive, NEW f \in Flags,
         mid[f].owner = None, \A g \in Flags : mid[g].owner # p,
         flags' = [mid EXCEPT ![f] = GrabFlag(@, p)],
         UNCHANGED <<team, alive, paused>>, timeouts' \subseteq Teams
  PROVE  Custody'
  <1>1. p \in Players /\ team[p] \in PlayTeams BY DEF Custody, Typed, AlivePlays
  <1>2. GrabFlag(mid[f], p) \in FlagRecord /\ GrabFlag(mid[f], p).owner = p
        /\ GrabFlag(mid[f], p).status = "ON_TANK"
    <2>1. mid[f] \in FlagRecord BY DEF Releases
    <2>. QED BY <1>1, <2>1 DEF GrabFlag, FlagRecord, Statuses
  <1>3. /\ flags' \in [Flags -> FlagRecord]
        /\ flags'[f].owner = p /\ flags'[f].status = "ON_TANK"
        /\ \A g \in Flags \ {f} : flags'[g] = mid[g]
    BY <1>2 DEF Releases
  <1>4. Typed' BY <1>3 DEF Custody, Typed
  <1>5. CarrierOnTank' BY <1>3 DEF CarrierOnTank, Releases
  <1>6. OneFlagEach' BY <1>3 DEF Custody, OneFlagEach, Releases
  <1>7. CarrierPlays' BY <1>1, <1>3 DEF Custody, CarrierPlays, Releases
  <1>8. AlivePlays' BY DEF Custody, AlivePlays, PlayTeams
  <1>. QED BY <1>4, <1>5, <1>6, <1>7, <1>8 DEF Custody

-----------------------------------------------------------------------------
(* The theorem. *)

LEMMA CustodyTable ==
  ASSUME Custody
  PROVE  flags \in [Flags -> FlagRecord] /\ OnTank(flags) /\ OneEach(flags) /\ Releases(flags, flags)
  BY DEF Custody, Typed, CarrierOnTank, OneFlagEach, OnTank, OneEach, Releases

\* The table of flags after p robbed v, before the shot is counted: p's own
\* flag is spent, and v's goes to p.
Robbed(p, v, answer, given) ==
  /\ given \in [Flags -> FlagRecord] /\ OnTank(given) /\ OneEach(given)
  /\ \A f \in Flags :
       \/ given[f] = flags[f] /\ (flags[f].owner = p => answer = "cancel")
       \/ flags[f].owner = p /\ given[f] = ResetFlag(f, flags[f], empty)
       \/ /\ answer = "steal" /\ flags[f].owner = v
          /\ given[f] = [flags[f] EXCEPT !.owner = p, !.status = "ON_TANK"]

\* A theft moves one flag and spends another, and then the shot is counted.
LEMMA StealTable ==
  ASSUME Custody, NEW p \in Players, NEW v \in Players, NEW answer, Steal(p, v, answer)
  PROVE  \E given, land : Robbed(p, v, answer, given) /\ flags' = CountFlagShot(given, p, land)
  <1>0. flags \in [Flags -> FlagRecord] /\ OnTank(flags) /\ OneEach(flags)
    BY CustodyTable
  <1>. DEFINE spent == Spend(flags, p, answer)
              taken == Carried(flags, v)
              given == IF answer # "steal" THEN spent
                       ELSE [f \in Flags |-> IF f \in taken
                                             THEN [spent[f] EXCEPT !.owner = p, !.status = "ON_TANK"]
                                             ELSE spent[f]]
  <1>1. PICK land : flags' = CountFlagShot(given, p, land) /\ v # p BY DEF Steal
  <1>2. /\ spent \in [Flags -> FlagRecord]
        /\ \A f \in Flags :
             \/ flags[f].owner = p /\ answer # "cancel" /\ spent[f] = ResetFlag(f, flags[f], empty)
                  /\ spent[f].owner = None
             \/ (flags[f].owner = p => answer = "cancel") /\ spent[f] = flags[f]
    <2>1. CASE answer = "cancel" BY <1>0, <2>1 DEF Spend
    <2>2. CASE answer # "cancel"
      <3>1. spent = [f \in Flags |-> IF f \in Carried(flags, p) THEN ResetFlag(f, flags[f], empty) ELSE flags[f]]
        BY <2>2 DEF Spend, ResetAll
      <3>2. \A f \in Flags : ResetFlag(f, flags[f], empty) \in FlagRecord
                             /\ ResetFlag(f, flags[f], empty).owner = None
        BY <1>0, ResetFlagReleases
      <3>. HIDE DEF spent
      <3>. QED BY <1>0, <2>2, <3>1, <3>2 DEF Carried
    <2>. QED BY <2>1, <2>2
  <1>. HIDE DEF spent
  <1>3. \A f \in Flags : LET s == [flags[f] EXCEPT !.owner = p, !.status = "ON_TANK"]
                         IN  s \in FlagRecord /\ s.owner = p /\ s.status = "ON_TANK"
    <2>1. \A f \in Flags : flags[f] \in FlagRecord BY <1>0
    <2>. QED BY <2>1 DEF FlagRecord, Statuses
  <1>4. \A f \in Flags :
          \/ given[f] = flags[f] /\ (flags[f].owner = p => answer = "cancel")
          \/ /\ flags[f].owner = p /\ given[f] = ResetFlag(f, flags[f], empty)
             /\ given[f].owner = None /\ given[f] \in FlagRecord
          \/ /\ answer = "steal" /\ flags[f].owner = v
             /\ given[f] = [flags[f] EXCEPT !.owner = p, !.status = "ON_TANK"]
    <2>. TAKE f \in Flags
    <2>1. CASE answer # "steal" \/ f \notin taken BY <1>2, <2>1
    <2>2. CASE answer = "steal" /\ f \in taken
      <3>1. flags[f].owner = v BY <2>2 DEF Carried
      <3>2. spent[f] = flags[f] BY <1>1, <1>2, <3>1
      <3>. QED BY <2>2, <3>1, <3>2
    <2>. QED BY <2>1, <2>2
  <1>5. given \in [Flags -> FlagRecord]
    <2>1. given = [f \in Flags |-> given[f]] BY <1>2
    <2>. HIDE DEF given
    <2>2. \A f \in Flags : given[f] \in FlagRecord BY <1>0, <1>3, <1>4
    <2>. QED BY <2>1, <2>2
  <1>. HIDE DEF given, taken
  <1>6. OnTank(given) BY <1>0, <1>3, <1>4 DEF OnTank
  <1>7. OneEach(given)
    <2>1. \A f \in Flags : \/ given[f].owner = None
                           \/ given[f].owner = flags[f].owner
                                /\ (flags[f].owner = p => answer = "cancel")
                           \/ answer = "steal" /\ flags[f].owner = v /\ given[f].owner = p
      BY <1>3, <1>4
    <2>. QED BY <1>0, <1>1, <2>1, OwnersAssumption DEF OneEach
  <1>8. Robbed(p, v, answer, given) BY <1>4, <1>5, <1>6, <1>7 DEF Robbed
  <1>. QED BY <1>1, <1>8

\* A theft gives flags to the thief and takes them from anybody.
LEMMA RobbedOwners ==
  ASSUME Custody, NEW p, NEW v, NEW answer, NEW given, Robbed(p, v, answer, given)
  PROVE  \A f \in Flags : given[f].owner \in {None, p, flags[f].owner}
  <1>1. \A f \in Flags : flags[f] \in FlagRecord BY CustodyTable
  <1>2. \A r \in FlagRecord : [r EXCEPT !.owner = p, !.status = "ON_TANK"].owner = p
    BY DEF FlagRecord
  <1>3. \A f \in Flags : ResetFlag(f, flags[f], empty).owner = None
    BY <1>1, ResetFlagReleases
  <1>. QED BY <1>1, <1>2, <1>3 DEF Robbed

LEMMA AbandonedType == \A fl, S, e : Abandoned(fl, S, e) \subseteq Teams
  BY DEF Abandoned

\* Nobody has a flag when the map opens.
LEMMA InitOwners ==
  ASSUME Init
  PROVE  flags \in [Flags -> FlagRecord] /\ \A f \in Flags : flags[f].owner = None
  <1>1. PICK y \in [Pool -> Types] :
          flags = [f \in Flags |->
                     CASE f \in Teams -> EmptySlot(f)
                       [] f \in Required -> AddFlag(EmptySlot(f), PinnedType[f])
                       [] f \in Pool -> AddFlag(EmptySlot(f), y[f])]
    BY DEF Init
  <1>2. \A f \in Flags : EmptySlot(f) \in FlagRecord /\ EmptySlot(f).owner = None
    BY SlotsAssumption, TypesAssumption DEF EmptySlot, FlagRecord, Statuses, Flags, SuperSlots
  <1>3. \A f \in Required : AddFlag(EmptySlot(f), PinnedType[f]) \in FlagRecord
                             /\ AddFlag(EmptySlot(f), PinnedType[f]).owner = None
    BY <1>2, AddFlagReleases, TypesAssumption DEF Flags, SuperSlots
  <1>4. \A f \in Pool : AddFlag(EmptySlot(f), y[f]) \in FlagRecord
                         /\ AddFlag(EmptySlot(f), y[f]).owner = None
    BY <1>2, AddFlagReleases DEF Flags, SuperSlots
  <1>5. \A f \in Flags : flags[f] \in FlagRecord /\ flags[f].owner = None
    <2>. TAKE f \in Flags
    <2>1. CASE f \in Teams BY <1>1, <1>2, <2>1, SlotsAssumption DEF SuperSlots
    <2>2. CASE f \in Required BY <1>1, <1>3, <2>2, SlotsAssumption DEF SuperSlots
    <2>3. CASE f \in Pool BY <1>1, <1>4, <2>3, SlotsAssumption DEF SuperSlots
    <2>. QED BY <2>1, <2>2, <2>3 DEF Flags, SuperSlots
  <1>. QED BY <1>1, <1>5

LEMMA InitCustody == Init => Custody
  BY InitOwners DEF Init, Custody, Typed, CarrierOnTank, OneFlagEach, CarrierPlays, AlivePlays

\* Flags are only given up, and nobody changes sides.
Quiet == /\ Releases(flags, flags')
         /\ team' = team /\ alive' \subseteq alive
         /\ paused' \subseteq Players /\ timeouts' \subseteq Teams

\* What one tank does, or has done to it, only takes flags off tanks, but for
\* a grab and a theft.
LEMMA PlayerReleases ==
  ASSUME Custody, NEW p \in Players, PlayerStep(p)
  PROVE  \/ \E f \in Flags : Grab(p, f)
         \/ \E v \in Players, answer \in {"steal", "cancel", "drop"} : Steal(p, v, answer)
         \/ Quiet
  <1>0. flags \in [Flags -> FlagRecord] /\ OnTank(flags) /\ OneEach(flags) /\ Releases(flags, flags)
    BY CustodyTable
  <1>00. paused \subseteq Players /\ alive \subseteq Players /\ timeouts \subseteq Teams
    BY DEF Custody, Typed
  <1>d. ASSUME NEW S, NEW land, Drops(S, land)
        PROVE  Releases(flags, flags') /\ timeouts' \subseteq Teams
    BY <1>0, <1>00, <1>d, ShedReleases, AbandonedType DEF Drops
  <1>t. ASSUME NEW land, Throws(p, land) PROVE Quiet
    <2>1. Releases(flags, flags') BY <1>0, <1>t, ThrowReleases DEF Throws
    <2>2. timeouts' \subseteq Teams BY <1>00, <1>t, AbandonedType DEF Throws
    <2>. QED BY <1>00, <1>t, <2>1, <2>2 DEF Throws, Quiet
  <1>1. CASE Drop(p) BY <1>1, <1>t DEF Drop
  <1>2. CASE Antidote(p) BY <1>2, <1>t DEF Antidote
  <1>3. CASE NotResponding(p) BY <1>3, <1>d, <1>00 DEF NotResponding, Quiet
  <1>4. CASE Pause(p) BY <1>4, <1>d, <1>00 DEF Pause, Quiet
  <1>5. CASE PauseDrop(p) BY <1>5, <1>d, <1>00 DEF PauseDrop, Quiet
  <1>6. CASE Unpause(p) BY <1>6, <1>0, <1>00 DEF Unpause, Releases, Quiet
  <1>7. CASE Shoot(p) BY <1>7, <1>0, <1>00, CountFlagShotReleases DEF Shoot, Quiet
  <1>8. CASE ShieldHit(p) BY <1>8, <1>d, <1>00 DEF ShieldHit, Quiet
  <1>9. ASSUME NEW k, NEW genocide, NEW shake, Kill(p, k, genocide, shake) PROVE Quiet
    <2>1. PICK dead, land :
            /\ flags' = Shed(IF shake THEN Throw(flags, k, land) ELSE flags, dead, land, empty)
            /\ timeouts' = timeouts \cup Abandoned(flags, dead, empty)
            /\ alive' = alive \ dead
      BY <1>9 DEF Kill
    <2>. DEFINE mid == IF shake THEN Throw(flags, k, land) ELSE flags
    <2>2. Releases(flags, mid) BY <1>0, ThrowReleases
    <2>3. mid \in [Flags -> FlagRecord] /\ OnTank(mid) BY <1>0, <2>2, ReleasesKeep DEF Releases
    <2>. HIDE DEF mid
    <2>4. Releases(mid, flags') BY <2>1, <2>3, ShedReleases DEF mid
    <2>5. Releases(flags, flags') BY <2>2, <2>4, ReleasesCompose
    <2>6. timeouts' \subseteq Teams BY <1>00, <2>1, AbandonedType
    <2>. QED BY <1>00, <1>9, <2>1, <2>5, <2>6 DEF Kill, Quiet
  <1>10. ASSUME NEW killTeam, Capture(p, killTeam) PROVE Quiet
    <2>0. PICK t \in Teams : \E dead, land :
            /\ flags' = Shed(ResetAll(flags, {t}, empty), dead, land, empty)
            /\ timeouts' = timeouts \cup Abandoned(ResetAll(flags, {t}, empty), dead, empty)
            /\ alive' = alive \ dead
            /\ UNCHANGED <<team, paused>>
      BY <1>10 DEF Capture
    <2>1. PICK dead, land :
            /\ flags' = Shed(ResetAll(flags, {t}, empty), dead, land, empty)
            /\ timeouts' = timeouts \cup Abandoned(ResetAll(flags, {t}, empty), dead, empty)
            /\ alive' = alive \ dead
            /\ UNCHANGED <<team, paused>>
      BY <2>0
    <2>. DEFINE home == ResetAll(flags, {t}, empty)
    <2>2. Releases(flags, home) BY <1>0, ResetAllReleases
    <2>3. home \in [Flags -> FlagRecord] /\ OnTank(home) BY <1>0, <2>2, ReleasesKeep DEF Releases
    <2>. HIDE DEF home
    <2>4. Releases(home, flags') BY <2>1, <2>3, ShedReleases DEF home
    <2>5. Releases(flags, flags') BY <2>2, <2>4, ReleasesCompose
    <2>6. timeouts' \subseteq Teams BY <1>00, <2>1, AbandonedType
    <2>. QED BY <1>00, <2>1, <2>5, <2>6 DEF Quiet
  <1>. QED BY <1>1, <1>2, <1>3, <1>4, <1>5, <1>6, <1>7, <1>8, <1>9, <1>10 DEF PlayerStep

\* What one tank does, or has done to it, keeps custody.
LEMMA PlayerCustody ==
  ASSUME Custody, NEW p \in Players, PlayerStep(p)
  PROVE  Custody'
  <1>0. flags \in [Flags -> FlagRecord] /\ OnTank(flags) /\ Releases(flags, flags)
    BY CustodyTable
  <1>00. timeouts \subseteq Teams BY DEF Custody, Typed
  <1>1. ASSUME NEW f \in Flags, Grab(p, f) PROVE Custody'
    <2>1. flags[f].owner = None BY <1>1, <1>0 DEF Grab, OnTank
    <2>2. \A g \in Flags : flags[g].owner # p BY <1>1 DEF Grab, Carries, Carried
    <2>. QED BY <1>0, <1>00, <1>1, <2>1, <2>2, TakeStep DEF Grab
  <1>2. ASSUME NEW v \in Players, NEW answer, Steal(p, v, answer) PROVE Custody'
    <2>1. PICK given, land : Robbed(p, v, answer, given) /\ flags' = CountFlagShot(given, p, land)
      BY <1>2, StealTable
    <2>2. team[p] \in PlayTeams BY <1>2 DEF Steal, MayShoot, Custody, AlivePlays
    <2>3. \A f \in Flags : given[f].owner \in {None, p, flags[f].owner} BY <2>1, RobbedOwners
    <2>4. Releases(given, flags') BY <2>1, CountFlagShotReleases DEF Robbed
    <2>5. OnTank(flags') /\ OneEach(flags') BY <2>1, <2>4, ReleasesKeep DEF Robbed
    <2>6. UNCHANGED <<team, alive, paused, timeouts>> BY <1>2 DEF Steal
    <2>7. Typed' BY <2>4, <2>6 DEF Custody, Typed, Releases
    <2>8. CarrierPlays' BY <2>2, <2>3, <2>4, <2>6 DEF Custody, CarrierPlays, Releases
    <2>9. AlivePlays' BY <2>6 DEF Custody, AlivePlays
    <2>. QED BY <2>5, <2>7, <2>8, <2>9 DEF Custody, CarrierOnTank, OneFlagEach, OnTank, OneEach
  <1>3. CASE Quiet BY <1>3, QuietStep DEF Quiet
  <1>. QED BY <1>1, <1>2, <1>3, PlayerReleases

\* The sides of a player that comes, goes or changes.
LEMMA Sides ==
  /\ NoTeam \notin PlayTeams /\ Observer \notin PlayTeams
  BY TeamNamesAssumption DEF PlayTeams

\* p changes sides, or comes or goes: it keeps a flag only if it stays on the
\* field, or if a join may leave its tank dead.
SideMove(p) ==
  LET emptyHanded == \A f \in Flags : flags'[f].owner # p
  IN  /\ Releases(flags, flags')
      /\ \E t \in PlayTeams \cup {Observer, NoTeam} :
           /\ team' = [team EXCEPT ![p] = t]
           /\ t \in PlayTeams \/ emptyHanded
           /\ p \in alive' => t \in PlayTeams
      /\ alive' \subseteq alive \cup {p} /\ alive \ {p} \subseteq alive'
      /\ p \in alive \ alive' => JoinHolds \/ emptyHanded
      /\ paused' \subseteq paused /\ timeouts' \subseteq Teams

\* What a player's coming, going or changing sides does to the flags.
LEMMA RosterMoves ==
  ASSUME Custody, NEW p \in Players, RosterStep(p)
  PROVE  SideMove(p)
  <1>0. flags \in [Flags -> FlagRecord] /\ OnTank(flags) /\ OneEach(flags) /\ Releases(flags, flags)
    BY CustodyTable
  <1>00. /\ paused \subseteq Players /\ alive \subseteq Players /\ timeouts \subseteq Teams
         /\ team \in [Players -> PlayTeams \cup {Observer, NoTeam}]
    BY DEF Custody, Typed
  <1>000. \A f \in Flags : flags[f].owner = p => team[p] \in PlayTeams
    BY OwnersAssumption DEF Custody, CarrierPlays
  \* Shedding and moving: p keeps a flag only if it stays on its side.
  <1>m. ASSUME NEW leavers \in {{}, {p}}, NEW land, NEW t \in PlayTeams \cup {Observer}, NEW alone,
               Move(p, t, Shed(flags, leavers, land, empty), alone),
               t \in PlayTeams \/ leavers = {p} \/ team[p] \notin PlayTeams
        PROVE  /\ Releases(flags, flags') /\ team' = [team EXCEPT ![p] = t]
               /\ t \in PlayTeams \/ \A f \in Flags : flags'[f].owner # p
    <2>. DEFINE shed == Shed(flags, leavers, land, empty)
    <2>1. /\ Releases(flags, shed)
          /\ \A f \in Flags : shed[f].owner \in {None} \cup (Players \ leavers)
      BY <1>0, ShedReleases
    <2>2. shed \in [Flags -> FlagRecord] /\ OnTank(shed) BY <1>0, <2>1, ReleasesKeep DEF Releases
    <2>. HIDE DEF shed
    <2>3. Releases(shed, flags') /\ team' = [team EXCEPT ![p] = t] BY <1>m, <2>2, MoveReleases DEF shed
    <2>4. Releases(flags, flags') BY <2>1, <2>3, ReleasesCompose
    <2>5. ASSUME t \notin PlayTeams, NEW f \in Flags PROVE flags'[f].owner # p
      <3>1. CASE leavers = {p} BY <2>1, <2>3, <3>1, OwnersAssumption DEF Releases
      <3>2. CASE team[p] \notin PlayTeams BY <1>000, <2>4, <3>2, OwnersAssumption DEF Releases
      <3>. QED BY <1>m, <2>5, <3>1, <3>2
    <2>. QED BY <2>3, <2>4, <2>5
  <1>1. ASSUME NEW t \in PlayTeams \cup {Observer}, NEW up \in BOOLEAN, Join(p, t, up) PROVE SideMove(p)
    <2>. DEFINE leavers == IF Joined(p) /\ team[p] # t THEN {p} ELSE {}
    <2>1. PICK land : Move(p, t, Shed(flags, leavers, land, empty), Alone(p, t))
      BY <1>1 DEF Join
    <2>2. t \in PlayTeams \/ leavers = {p} \/ team[p] \notin PlayTeams
      BY Sides DEF Joined
    <2>3. leavers \in {{}, {p}} OBVIOUS
    <2>4. /\ timeouts' \subseteq Teams /\ paused' \subseteq paused
          /\ alive' \subseteq alive \cup {p} /\ alive \ {p} \subseteq alive'
          /\ p \in alive' => t \in PlayTeams
          /\ p \in alive \ alive' => JoinHolds \/ t \notin PlayTeams
          /\ t \in PlayTeams \cup {Observer, NoTeam}
      BY <1>00, <1>1, AbandonedType, Sides DEF Join
    <2>. HIDE DEF leavers
    <2>5. /\ Releases(flags, flags') /\ team' = [team EXCEPT ![p] = t]
          /\ t \in PlayTeams \/ \A f \in Flags : flags'[f].owner # p
      BY <1>m, <2>1, <2>2, <2>3
    <2>. QED BY <2>4, <2>5 DEF SideMove
  <1>2. ASSUME NEW t \in PlayTeams \cup {Observer}, JoinKicked(p, t) PROVE SideMove(p)
    <2>1. PICK S, land : Drops(S, land) BY <1>2 DEF JoinKicked
    <2>2. Releases(flags, flags') /\ timeouts' \subseteq Teams
      BY <1>0, <1>00, <2>1, ShedReleases, AbandonedType DEF Drops
    <2>3. t \in PlayTeams BY <1>2 DEF JoinKicked
    <2>. QED BY <1>00, <1>2, <2>2, <2>3 DEF JoinKicked, SideMove
  <1>c. ASSUME NEW t \in PlayTeams, ChangeTeam(p, t)
        PROVE  Releases(flags, flags') /\ team' = [team EXCEPT ![p] = t] /\ timeouts' \subseteq Teams
    <2>. DEFINE leavers == IF team[p] = t THEN {} ELSE {p}
    <2>1. PICK land, alone : Move(p, t, Shed(flags, leavers, land, empty), alone)
      BY <1>c DEF ChangeTeam
    <2>2. leavers \in {{}, {p}} OBVIOUS
    <2>. HIDE DEF leavers
    <2>3. Releases(flags, flags') /\ team' = [team EXCEPT ![p] = t] BY <1>m, <2>1, <2>2
    <2>. QED BY <1>00, <1>c, <2>3, AbandonedType DEF ChangeTeam
  <1>3. ASSUME NEW t \in PlayTeams, Respawn(p, t) PROVE SideMove(p)
    BY <1>00, <1>3, <1>c DEF Respawn, SideMove
  <1>4. ASSUME NEW t \in PlayTeams, SetTeam(p, t) PROVE SideMove(p)
    BY <1>00, <1>4, <1>c DEF SetTeam, SideMove
  <1>5. CASE Leave(p)
    <2>. DEFINE tm == [team EXCEPT ![p] = NoTeam]
    <2>1. PICK land : flags' = IF team[p] \in Teams
                               THEN RetireTeamFlags(Shed(flags, {p}, land, EmptyTeams(tm)), team[p], tm, EmptyTeams(tm))
                               ELSE Shed(flags, {p}, land, EmptyTeams(tm))
      BY <1>5 DEF Leave
    <2>. DEFINE shed == Shed(flags, {p}, land, EmptyTeams(tm))
    <2>2. /\ Releases(flags, shed)
          /\ \A f \in Flags : shed[f].owner \in {None} \cup (Players \ {p})
      BY <1>0, ShedReleases
    <2>3. shed \in [Flags -> FlagRecord] /\ OnTank(shed) /\ Releases(shed, shed)
      BY <1>0, <2>2, ReleasesKeep DEF Releases
    <2>. HIDE DEF shed
    <2>4. Releases(shed, RetireTeamFlags(shed, team[p], tm, EmptyTeams(tm)))
      BY <2>3, ResetAllReleases DEF RetireTeamFlags
    <2>5. Releases(shed, flags') BY <2>1, <2>3, <2>4 DEF shed
    <2>6. Releases(flags, flags') BY <2>2, <2>5, ReleasesCompose
    <2>7. \A f \in Flags : flags'[f].owner # p BY <2>2, <2>5, OwnersAssumption DEF Releases
    <2>8. timeouts' \subseteq Teams BY <1>00, <1>5, AbandonedType DEF Leave
    <2>. QED BY <1>00, <1>5, <2>6, <2>7, <2>8 DEF Leave, SideMove
  <1>. QED BY <1>1, <1>2, <1>3, <1>4, <1>5 DEF RosterStep

\* A player that comes, goes or changes sides keeps custody.
LEMMA RosterCustody ==
  ASSUME Custody, NEW p \in Players, RosterStep(p)
  PROVE  Custody'
  <1>1. SideMove(p) BY RosterMoves
  <1>2. paused \subseteq Players BY DEF Custody, Typed
  <1>. QED BY <1>1, <1>2, RosterMoveStep DEF SideMove

\* Landings, expiries and insertions take nothing from a tank and give it
\* nothing.
LEMMA TickReleases ==
  ASSUME Custody, NEW due \in SUBSET Flags, NEW late, NEW insert, UpdateFlags(due, late, insert)
  PROVE  Releases(flags, flags')
  <1>0. flags \in [Flags -> FlagRecord] /\ OnTank(flags) /\ Releases(flags, flags)
    BY CustodyTable
  <1>. DEFINE landed == Landed(flags, due)
              fl == Expired(landed, late)
  <1>1. Releases(flags, landed)
    <2>1. \A f \in Flags : /\ ResetFlag(f, flags[f], empty) \in FlagRecord
                           /\ ResetFlag(f, flags[f], empty).owner = None
      BY <1>0, ResetFlagReleases
    <2>2. \A f \in due : flags[f].owner = None
      BY <1>0 DEF UpdateFlags, OnTank, Flying
    <2>3. \A f \in Flags : LET r == [flags[f] EXCEPT !.status = "ON_GROUND"]
                           IN  r \in FlagRecord /\ r.owner = flags[f].owner
      BY <1>0 DEF FlagRecord, Statuses
    <2>. QED BY <1>0, <2>1, <2>2, <2>3 DEF Landed, Releases
  <1>2. landed \in [Flags -> FlagRecord] /\ OnTank(landed) BY <1>1 DEF Releases, OnTank
  <1>. HIDE DEF landed
  <1>3. Releases(landed, fl) BY <1>2, ResetAllReleases DEF Expired
  <1>4. fl \in [Flags -> FlagRecord] /\ OnTank(fl) /\ Releases(fl, fl)
    BY <1>3 DEF Releases, OnTank
  <1>. HIDE DEF fl
  <1>5. Releases(fl, flags')
    <2>1. CASE flags' = fl BY <1>4, <2>1
    <2>2. ASSUME NEW f \in NextSlot(fl), NEW y \in Types,
                 flags' = [fl EXCEPT ![f] = AddFlag(@, IF f \in Required THEN PinnedType[f] ELSE y)]
          PROVE  Releases(fl, flags')
      <3>1. f \in Flags BY DEF NextSlot, Flags
      <3>2. fl[f] \in FlagRecord BY <1>4, <3>1
      <3>3. (IF f \in Required THEN PinnedType[f] ELSE y) \in Types BY TypesAssumption
      <3>. DEFINE in == AddFlag(fl[f], IF f \in Required THEN PinnedType[f] ELSE y)
      <3>4. in \in FlagRecord /\ in.owner = None
        BY <3>2, <3>3, AddFlagReleases
      <3>5. flags' = [fl EXCEPT ![f] = in] BY <2>2
      <3>. HIDE DEF in
      <3>. QED BY <1>4, <3>1, <3>4, <3>5 DEF Releases, OnTank
    <2>. QED BY <2>1, <2>2 DEF UpdateFlags, fl, landed
  <1>. QED BY <1>1, <1>3, <1>5, ReleasesCompose

\* /flag up leaves no superflag on a tank.
LEMMA FlagUpReleases ==
  ASSUME Custody, FlagUp
  PROVE  Releases(flags, flags')
  <1>0. flags \in [Flags -> FlagRecord] /\ Releases(flags, flags)
    BY CustodyTable
  <1>1. \A f \in Flags : SendFlagUp(f, flags[f]) \in FlagRecord /\ SendFlagUp(f, flags[f]).owner = None
    BY <1>0 DEF SendFlagUp, SendFlagDrop, FlagRecord, Statuses
  <1>. QED BY <1>0, <1>1 DEF FlagUp, Releases

\* /flag give: p's hands are emptied and f is taken off its carrier before p
\* gets it, if p can grab at all.
LEMMA GiveTable ==
  ASSUME Custody, NEW p \in Players, NEW f \in Flags, NEW land, FlagGive(p, f, land)
  PROVE  \E off : /\ Releases(flags, off) /\ off[f].owner = None /\ \A g \in Flags : off[g].owner # p
                  /\ \A g \in Flags \ {f} : flags[g].owner # p => off[g] = flags[g]
                  /\ flags' = IF p \in paused THEN off ELSE [off EXCEPT ![f] = GrabFlag(@, p)]
  <1>0. flags \in [Flags -> FlagRecord] /\ OnTank(flags) /\ Releases(flags, flags)
    BY CustodyTable
  <1>. DEFINE freed == [g \in Flags |-> IF g \notin Carried(flags, p) THEN flags[g]
                                        ELSE IF g \in Teams THEN DropFlag(g, flags[g], land)
                                        ELSE ResetFlag(g, flags[g], empty)]
              off == [freed EXCEPT ![f] = SendFlagDrop(@)]
  <1>1. Releases(flags, freed) /\ \A g \in Flags : freed[g].owner # p
    <2>1. \A g \in Flags : /\ ResetFlag(g, flags[g], empty) \in FlagRecord
                           /\ ResetFlag(g, flags[g], empty).owner = None
      BY <1>0, ResetFlagReleases
    <2>2. \A g \in Flags : /\ DropFlag(g, flags[g], land) \in FlagRecord
                           /\ DropFlag(g, flags[g], land).owner = None
      BY <1>0, DropFlagReleases DEF OnTank
    <2>. QED BY <1>0, <2>1, <2>2, OwnersAssumption DEF Releases, Carried
  <1>a. \A g \in Flags : flags[g].owner # p => freed[g] = flags[g] BY DEF Carried
  <1>. HIDE DEF freed
  <1>2. SendFlagDrop(freed[f]) \in FlagRecord /\ SendFlagDrop(freed[f]).owner = None
    BY <1>1 DEF Releases, SendFlagDrop, FlagRecord
  <1>3. Releases(flags, off) /\ off[f].owner = None /\ \A g \in Flags : off[g].owner # p
    BY <1>1, <1>2, OwnersAssumption DEF Releases
  <1>4. flags' = IF p \in paused THEN off ELSE [off EXCEPT ![f] = GrabFlag(@, p)]
    BY DEF FlagGive, freed
  <1>5. \A g \in Flags \ {f} : flags[g].owner # p => off[g] = flags[g] BY <1>1, <1>a DEF Releases
  <1>. HIDE DEF off
  <1>. QED BY <1>3, <1>4, <1>5

\* The tick and the operator.
LEMMA ServerCustody ==
  ASSUME Custody, ServerStep
  PROVE  Custody'
  <1>0. flags \in [Flags -> FlagRecord] /\ OnTank(flags) /\ OneEach(flags) /\ Releases(flags, flags)
    BY CustodyTable
  <1>00. paused \subseteq Players /\ alive \subseteq Players /\ timeouts \subseteq Teams
    BY DEF Custody, Typed
  <1>1. CASE EndMatch
    BY <1>0, <1>00, <1>1, ShedReleases, AbandonedType, QuietStep DEF EndMatch, Drops
  <1>2. ASSUME NEW due \in SUBSET Flags, NEW late \in SUBSET timeouts, NEW insert \in BOOLEAN,
               UpdateFlags(due, late, insert)
        PROVE  Custody'
    <2>1. Releases(flags, flags') BY <1>2, TickReleases
    <2>. QED BY <1>00, <1>2, <2>1, QuietStep DEF UpdateFlags
  <1>3. ASSUME NEW S, ResetFlags(S) PROVE Custody'
    BY <1>0, <1>00, <1>3, ResetAllReleases, QuietStep DEF ResetFlags
  <1>4. CASE FlagUp BY <1>00, <1>4, FlagUpReleases, QuietStep DEF FlagUp
  <1>5. ASSUME NEW p \in Players, NEW f \in Flags, NEW land, FlagGive(p, f, land) PROVE Custody'
    <2>1. PICK off :
            /\ Releases(flags, off) /\ off[f].owner = None /\ \A g \in Flags : off[g].owner # p
            /\ flags' = IF p \in paused THEN off ELSE [off EXCEPT ![f] = GrabFlag(@, p)]
      BY <1>5, GiveTable
    <2>2. p \in alive /\ timeouts' \subseteq Teams /\ UNCHANGED <<team, alive, paused>>
      BY <1>00, <1>5, AbandonedType DEF FlagGive
    <2>3. CASE p \in paused BY <1>00, <2>1, <2>2, <2>3, QuietStep
    <2>4. CASE p \notin paused BY <2>1, <2>2, <2>4, TakeStep
    <2>. QED BY <2>3, <2>4
  <1>. QED BY <1>1, <1>2, <1>3, <1>4, <1>5 DEF ServerStep, Tick, Airborne

\* The respawn of a tank that is not there takes flags off tanks, and nothing
\* more.
LEMMA GhostReleases ==
  ASSUME Custody, NEW p \in Players, NEW from, NEW to, GhostRespawn(p, from, to)
  PROVE  Quiet
  <1>0. flags \in [Flags -> FlagRecord] /\ OnTank(flags)
    BY CustodyTable
  <1>. DEFINE Arrive(fl) == IF to \in empty THEN ResetTeamFlags(fl, to, empty) ELSE fl
              Retire(fl) == IF from \in Teams THEN RetireTeamFlags(fl, from, team, empty) ELSE fl
  <1>1. PICK land : flags' = Retire(Arrive(Shed(flags, {p}, land, empty)))
    BY DEF GhostRespawn
  <1>. DEFINE shed == Shed(flags, {p}, land, empty)
              back == Arrive(shed)
  <1>2. Releases(flags, shed) BY <1>0, ShedReleases
  <1>3. shed \in [Flags -> FlagRecord] /\ OnTank(shed) BY <1>2 DEF Releases, OnTank
  <1>4. flags' = Retire(back) BY <1>1
  <1>. HIDE DEF shed
  <1>5. Releases(shed, back)
    BY <1>3, ResetAllReleases DEF ResetTeamFlags, Releases, OnTank
  <1>6. back \in [Flags -> FlagRecord] /\ OnTank(back) BY <1>5 DEF Releases, OnTank
  <1>. HIDE DEF back
  <1>7. Releases(back, flags')
    BY <1>4, <1>6, ResetAllReleases DEF RetireTeamFlags, Releases, OnTank
  <1>8. Releases(flags, flags') BY <1>2, <1>5, <1>7, ReleasesCompose
  <1>9. paused \subseteq Players /\ timeouts \subseteq Teams BY DEF Custody, Typed
  <1>. QED BY <1>8, <1>9, AbandonedType DEF GhostRespawn, Quiet

\* Custody of the flags is inductive.
LEMMA NextCustody == Custody /\ [Next]_vars => Custody'
  <1>. SUFFICES ASSUME Custody, [Next]_vars PROVE Custody' OBVIOUS
  <1>1. CASE UNCHANGED vars
    BY <1>1 DEF vars, Custody, Typed, CarrierOnTank, OneFlagEach, CarrierPlays, AlivePlays
  <1>2. ASSUME NEW p \in Players, NEW from, NEW to, GhostRespawn(p, from, to) PROVE Custody'
    BY <1>2, GhostReleases, QuietStep DEF Quiet
  <1>3. CASE Next BY <1>2, <1>3, PlayerCustody, RosterCustody, ServerCustody DEF Next
  <1>. QED BY <1>1, <1>3

\* Custody of the flags holds in every reachable state.
LEMMA CustodyAlways == Spec => []Custody
BY InitCustody, NextCustody, PTL DEF Spec

\* Whatever the players, the operator, the plugins and the clock do, the
\* variables keep their types: no handler puts a flag in a state, or a player
\* on a team, that the others do not know of.
THEOREM FlagTypes == Spec => []TypeOK
<1>. DEFINE Kept == ghosts \subseteq Players /\ unclocked \subseteq Teams
<1>1. Init => Kept BY DEF Init
<1>2. Kept /\ [Next]_vars => Kept'
  BY DEF Next, vars, Behind, LeftDead, Lying, empty, EmptyTeams
<1>3. Custody /\ Kept => TypeOK BY DEF Custody, Typed, TypeOK
<1>. QED  BY <1>1, <1>2, <1>3, CustodyAlways, PTL DEF Spec

\* Whatever the players, the operator, the plugins and the clock do, a flag
\* with an owner is on that player's tank, no player has two, and the player
\* is in the game and on a side.
THEOREM CustodyHolds == Spec => []FlagCustody
<1>1. Custody => FlagCustody
  BY DEF Custody, FlagCustody
<1>. QED  BY <1>1, CustodyAlways, PTL

-----------------------------------------------------------------------------
(* What the record of a flag says: its status, type, grabs and shots agree. *)

\* The record r can be that of flag f.  The two operator commands that break
\* a part of it are named where that part is.
Coherent(f, r) ==
  /\ ~OperatorGives /\ r.status = "ON_TANK" => r.owner # None
  /\ f \in Teams => r.type = f
  /\ f \in SuperSlots =>
       /\ r.status \in {"COMING", "ON_GROUND", "IN_AIR"} => r.grabs > 0
       /\ r.owner # None /\ IsLimited(r) => r.shots < ShotLimit[r.type]
       /\ IsSticky(r) => r.grabs <= 1
  /\ ~OperatorFlags /\ f \in Required => r.status # "NO_EXIST" /\ r.type = PinnedType[f]
  /\ ~OperatorGives /\ f \in Pool => (r.type = None <=> r.status = "NO_EXIST")

Sound(fl) == \A f \in Flags : Coherent(f, fl[f])

\* A superflag on its way out, or one that only its carrier keeps from it.
Leaving(r) == r.status \in {"GOING", "NO_EXIST", "COMING"} \/ (r.status = "ON_TANK" /\ IsSticky(r))

\* What was leaving in fl1 is still leaving in fl2.
StillLeaves(fl1, fl2) == \A f \in SuperSlots : Leaving(fl1[f]) => Leaving(fl2[f])

\* The three kinds of flag are told apart.
LEMMA Kinds ==
  /\ \A f \in Flags : f \in Teams \/ f \in Required \/ f \in Pool
  /\ \A f \in Teams : f \notin SuperSlots /\ f \notin Required /\ f \notin Pool
  /\ \A f \in SuperSlots : f \in Flags /\ f \notin Teams /\ (f \in Required <=> f \notin Pool)
  /\ \A f \in Pool : f \in SuperSlots
  /\ \A f \in Required : f \in SuperSlots
  BY SlotsAssumption DEF Flags, SuperSlots

\* The limit of a limited flag is a number of shots.
LEMMA LimitType ==
  ASSUME NEW r, IsLimited(r)
  PROVE  ShotLimit[r.type] \in Nat /\ ShotLimit[r.type] > 0
  BY TypesAssumption DEF IsLimited

\* A superflag brought into the world is coherent.
LEMMA AddFlagCoherent ==
  ASSUME NEW f \in SuperSlots, NEW r \in FlagRecord, NEW y \in Types,
         f \in Required => y = PinnedType[f]
  PROVE  Coherent(f, AddFlag(r, y)) /\ Leaving(AddFlag(r, y))
  <1>. DEFINE a == AddFlag(r, y)
  <1>1. /\ a.status = "COMING" /\ a.owner = None /\ a.type = y /\ a.grabs = GrabCount(y)
    BY DEF AddFlag, FlagRecord
  <1>2. GrabCount(y) > 0 /\ (y \in Sticky => GrabCount(y) <= 1)
    BY TypesAssumption DEF GrabCount
  <1>3. y # None BY TypesAssumption
  <1>. HIDE DEF a
  <1>4. Coherent(f, a) /\ Leaving(a)
    BY <1>1, <1>2, <1>3, Kinds DEF Coherent, Leaving, IsSticky
  <1>. QED BY <1>4 DEF a

\* A flag sent home is coherent.
LEMMA ResetFlagCoherent ==
  ASSUME NEW f \in Flags, NEW r \in FlagRecord, Coherent(f, r), NEW e
  PROVE  /\ Coherent(f, ResetFlag(f, r, e))
         /\ f \in SuperSlots => Leaving(ResetFlag(f, r, e))
  <1>1. SendFlagDrop(r) \in FlagRecord /\ SendFlagDrop(r).type = r.type
    BY DEF SendFlagDrop, FlagRecord
  <1>2. CASE f \in Teams
    BY <1>1, <1>2, Kinds DEF ResetFlag, Coherent, SendFlagDrop, FlagRecord
  <1>3. CASE f \in Required
    <2>1. PinnedType[f] \in Types /\ f \in SuperSlots BY <1>3, TypesAssumption DEF SuperSlots
    <2>. QED BY <1>1, <1>3, <2>1, Kinds, AddFlagCoherent DEF ResetFlag
  <1>4. CASE f \in Pool
    <2>. DEFINE q == [SendFlagDrop(r) EXCEPT !.status = "NO_EXIST", !.type = None]
    <2>1. q.status = "NO_EXIST" /\ q.type = None /\ q.owner = None
      BY DEF SendFlagDrop, FlagRecord
    <2>2. ResetFlag(f, r, e) = q BY <1>4, Kinds DEF ResetFlag, SuperSlots
    <2>3. ~IsSticky(q) BY <2>1, TypesAssumption DEF IsSticky
    <2>. HIDE DEF q
    <2>. QED BY <1>4, <2>1, <2>2, <2>3, Kinds DEF Coherent, Leaving, SuperSlots
  <1>. QED BY <1>2, <1>3, <1>4, Kinds

\* A thrown flag is coherent, and a sticky one that is thrown is leaving.
LEMMA DropFlagCoherent ==
  ASSUME NEW f \in Flags, NEW r \in FlagRecord, NEW l, Coherent(f, r)
  PROVE  /\ Coherent(f, DropFlag(f, r, l))
         /\ f \in SuperSlots /\ Leaving(r) => Leaving(DropFlag(f, r, l))
  <1>. DEFINE q == DropFlag(f, r, l)
  <1>1. CASE r.status # "ON_TANK" \/ r.owner = None
    BY <1>1 DEF DropFlag
  <1>2. CASE ~(r.status # "ON_TANK" \/ r.owner = None) /\ f \in Teams
    <2>1. q.type = r.type /\ q.owner = None /\ q.status = "IN_AIR"
      BY <1>2 DEF DropFlag, SendFlagDrop, FlagRecord
    <2>. HIDE DEF q
    <2>2. Coherent(f, q) BY <1>2, <2>1, Kinds DEF Coherent
    <2>. QED BY <1>2, <2>2, Kinds DEF q
  <1>3. CASE ~(r.status # "ON_TANK" \/ r.owner = None) /\ f \notin Teams
    <2>0. r.grabs \in 0..MaxGrabs /\ MaxGrabs \in Nat /\ f \in SuperSlots
      BY <1>3, TypesAssumption, Kinds DEF FlagRecord, SuperSlots
    <2>1. GrabsLeft(r) \in 0..MaxGrabs /\ GrabsLeft(r) <= r.grabs
          /\ (IsSticky(r) => GrabsLeft(r) = 0)
      BY <2>0 DEF GrabsLeft, Coherent
    <2>2. q.type = r.type /\ q.owner = None /\ q.status \in {"GOING", "IN_AIR"}
          /\ q.grabs \in 0..MaxGrabs /\ q.grabs <= GrabsLeft(r)
          /\ (q.status = "IN_AIR" => GrabsLeft(r) # 0 /\ q.grabs = GrabsLeft(r))
      <3>. DEFINE spent == [SendFlagDrop(r) EXCEPT !.status = "GOING", !.grabs = 0]
                  thrown(s) == [SendFlagDrop(r) EXCEPT !.status = s, !.grabs = GrabsLeft(r)]
      <3>1. spent.type = r.type /\ spent.owner = None /\ spent.status = "GOING" /\ spent.grabs = 0
        BY DEF SendFlagDrop, FlagRecord
      <3>2. \A s \in {"GOING", "IN_AIR"} :
              /\ thrown(s).type = r.type /\ thrown(s).owner = None
              /\ thrown(s).status = s /\ thrown(s).grabs = GrabsLeft(r)
        BY DEF SendFlagDrop, FlagRecord
      <3>3. q = spent \/ (GrabsLeft(r) # 0 /\ \E s \in {"GOING", "IN_AIR"} : q = thrown(s))
        BY <1>3 DEF DropFlag
      <3>. HIDE DEF spent, thrown, q
      <3>. QED BY <2>0, <2>1, <3>1, <3>2, <3>3
    <2>. HIDE DEF q
    <2>3. IsSticky(q) <=> IsSticky(r) BY <2>2 DEF IsSticky
    <2>4. Coherent(f, q) BY <1>3, <2>0, <2>1, <2>2, <2>3, Kinds DEF Coherent
    <2>5. Leaving(r) => Leaving(q) BY <1>3, <2>1, <2>2 DEF Leaving
    <2>. QED BY <2>4, <2>5 DEF q
  <1>. QED BY <1>1, <1>2, <1>3

\* So is one given up by a tank, thrown or sent home.
LEMMA DropPlayerFlagCoherent ==
  ASSUME NEW f \in Flags, NEW r \in FlagRecord, NEW l, NEW e, Coherent(f, r)
  PROVE  /\ Coherent(f, DropPlayerFlag(f, r, l, e))
         /\ f \in SuperSlots /\ Leaving(r) => Leaving(DropPlayerFlag(f, r, l, e))
  BY ResetFlagCoherent, DropFlagCoherent DEF DropPlayerFlag

\* A flag taken off the ground, or given by an operator, is coherent.
LEMMA GrabFlagCoherent ==
  ASSUME NEW f \in Flags, NEW r \in FlagRecord, NEW p \in Players, Coherent(f, r),
         r.status = "ON_GROUND" \/ OperatorGives
  PROVE  Coherent(f, GrabFlag(r, p))
  <1>. DEFINE g == GrabFlag(r, p)
  <1>1. /\ g.status = "ON_TANK" /\ g.owner = p /\ g.shots = 0
        /\ g.type = r.type /\ g.grabs = r.grabs
    BY DEF GrabFlag, FlagRecord
  <1>2. (IsSticky(g) <=> IsSticky(r)) /\ (IsLimited(g) => ShotLimit[g.type] > 0)
    BY <1>1, LimitType DEF IsSticky
  <1>. HIDE DEF g
  <1>3. Coherent(f, g) BY <1>1, <1>2, OwnersAssumption DEF Coherent
  <1>. QED BY <1>3 DEF g

\* A stolen flag is as coherent on the thief's tank as it was on the victim's.
LEMMA StolenCoherent ==
  ASSUME NEW f \in Flags, NEW r \in FlagRecord, NEW p \in Players, Coherent(f, r),
         r.owner # None, r.status = "ON_TANK"
  PROVE  LET s == [r EXCEPT !.owner = p, !.status = "ON_TANK"]
         IN  /\ s \in FlagRecord /\ s.owner = p /\ s.status = "ON_TANK" /\ s.type = r.type
             /\ Coherent(f, s)
             /\ Leaving(r) => Leaving(s)
  <1>. DEFINE s == [r EXCEPT !.owner = p, !.status = "ON_TANK"]
  <1>1. /\ s \in FlagRecord /\ s.status = "ON_TANK" /\ s.owner = p
        /\ s.shots = r.shots /\ s.type = r.type /\ s.grabs = r.grabs
    BY DEF FlagRecord, Statuses
  <1>2. (IsSticky(s) <=> IsSticky(r)) /\ (IsLimited(s) <=> IsLimited(r))
    BY <1>1 DEF IsSticky, IsLimited
  <1>. HIDE DEF s
  <1>3. Coherent(f, s) BY <1>1, <1>2, OwnersAssumption DEF Coherent
  <1>4. Leaving(r) => Leaving(s) BY <1>1, <1>2 DEF Leaving
  <1>. QED BY <1>1, <1>3, <1>4 DEF s

\* A shot from a limited flag that was not its last leaves it coherent; the
\* last one uses the flag up.
LEMMA FiredCoherent ==
  ASSUME NEW f \in Flags, NEW r \in FlagRecord, Coherent(f, r), IsLimited(r), r.status = "ON_TANK",
         r.owner # None, NEW l
  PROVE  LET Fire == [r EXCEPT !.shots = @ + 1]
             Last == [Fire EXCEPT !.grabs = 0]
         IN  /\ ~LastShot(r) => Coherent(f, Fire) /\ (Leaving(r) => Leaving(Fire))
             /\ Coherent(f, DropFlag(f, Last, l))
             /\ f \in SuperSlots => DropFlag(f, Last, l).status = "GOING"
  <1>. DEFINE Fire == [r EXCEPT !.shots = @ + 1]
              Last == [Fire EXCEPT !.grabs = 0]
  <1>1. /\ Fire \in FlagRecord /\ Fire.owner = r.owner /\ Fire.status = r.status
        /\ Fire.type = r.type /\ Fire.grabs = r.grabs /\ Fire.shots = r.shots + 1
    BY DEF FlagRecord
  <1>2. \A q \in FlagRecord : LET z == [q EXCEPT !.grabs = 0]
                              IN  /\ z \in FlagRecord /\ z.owner = q.owner /\ z.status = q.status
                                  /\ z.type = q.type /\ z.grabs = 0 /\ z.shots = q.shots
    BY TypesAssumption DEF FlagRecord
  <1>. HIDE DEF Fire
  <1>3. /\ Last \in FlagRecord /\ Last.owner = r.owner /\ Last.status = r.status
        /\ Last.type = r.type /\ Last.grabs = 0
    BY <1>1, <1>2
  <1>. HIDE DEF Last
  <1>4. /\ r.type \in Types /\ r.type \notin Teams /\ r.shots \in Nat
    BY TypesAssumption DEF IsLimited, FlagRecord
  <1>5. f \in SuperSlots BY <1>4, Kinds DEF Coherent, Flags
  <1>6. ASSUME ~LastShot(r) PROVE Coherent(f, Fire) /\ (Leaving(r) => Leaving(Fire))
    <2>1. r.shots < ShotLimit[r.type] BY <1>5 DEF Coherent
    <2>2. r.shots + 1 < ShotLimit[r.type] BY <1>4, <1>6, <2>1, LimitType DEF LastShot
    <2>3. (IsSticky(Fire) <=> IsSticky(r)) /\ (IsLimited(Fire) <=> IsLimited(r))
      BY <1>1 DEF IsSticky, IsLimited
    <2>. QED BY <1>1, <2>2, <2>3 DEF Coherent, Leaving
  <1>7. DropFlag(f, Last, l) = [SendFlagDrop(Last) EXCEPT !.status = "GOING", !.grabs = 0]
    <2>1. GrabsLeft(Last) = 0 BY <1>3 DEF GrabsLeft
    <2>. QED BY <1>3, <1>5, <2>1, Kinds DEF DropFlag
  <1>. DEFINE d == [SendFlagDrop(Last) EXCEPT !.status = "GOING", !.grabs = 0]
  <1>8. d.status = "GOING" /\ d.owner = None /\ d.type = r.type /\ d.grabs = 0
    BY <1>3 DEF SendFlagDrop, FlagRecord
  <1>. HIDE DEF d
  <1>9. IsSticky(d) <=> IsSticky(r) BY <1>8 DEF IsSticky
  <1>10. Coherent(f, d) BY <1>4, <1>5, <1>8, <1>9, TypesAssumption, Kinds DEF Coherent
  <1>. QED BY <1>6, <1>7, <1>8, <1>10 DEF d, Fire, Last

-----------------------------------------------------------------------------
(* The same for the table of flags. *)

LEMMA ShedSound ==
  ASSUME NEW fl \in [Flags -> FlagRecord], Sound(fl), NEW S, NEW land, NEW e
  PROVE  Sound(Shed(fl, S, land, e)) /\ StillLeaves(fl, Shed(fl, S, land, e))
  <1>1. \A f \in Flags :
          /\ Coherent(f, DropPlayerFlag(f, fl[f], land[f], e))
          /\ f \in SuperSlots /\ Leaving(fl[f]) => Leaving(DropPlayerFlag(f, fl[f], land[f], e))
    BY DropPlayerFlagCoherent DEF Sound
  <1>. QED BY <1>1, Kinds DEF Shed, Sound, StillLeaves

LEMMA ThrowSound ==
  ASSUME NEW fl \in [Flags -> FlagRecord], Sound(fl), NEW p, NEW land
  PROVE  Sound(Throw(fl, p, land)) /\ StillLeaves(fl, Throw(fl, p, land))
  <1>1. \A f \in Flags : /\ Coherent(f, DropFlag(f, fl[f], land[f]))
                         /\ f \in SuperSlots /\ Leaving(fl[f]) => Leaving(DropFlag(f, fl[f], land[f]))
    BY DropFlagCoherent DEF Sound
  <1>. QED BY <1>1, Kinds DEF Throw, Sound, StillLeaves

LEMMA ResetAllSound ==
  ASSUME NEW fl \in [Flags -> FlagRecord], Sound(fl), NEW S, NEW e
  PROVE  Sound(ResetAll(fl, S, e)) /\ StillLeaves(fl, ResetAll(fl, S, e))
  <1>1. \A f \in Flags : /\ Coherent(f, ResetFlag(f, fl[f], e))
                         /\ f \in SuperSlots => Leaving(ResetFlag(f, fl[f], e))
    BY ResetFlagCoherent DEF Sound
  <1>. QED BY <1>1, Kinds DEF ResetAll, Sound, StillLeaves

LEMMA CountFlagShotSound ==
  ASSUME NEW fl \in [Flags -> FlagRecord], OnTank(fl), Sound(fl), NEW p \in Players, NEW land
  PROVE  Sound(CountFlagShot(fl, p, land)) /\ StillLeaves(fl, CountFlagShot(fl, p, land))
  <1>. DEFINE Fire(r) == [r EXCEPT !.shots = @ + 1]
              Last(r) == [Fire(r) EXCEPT !.grabs = 0]
  <1>1. \A f \in Flags : f \in Carried(fl, p) /\ IsLimited(fl[f]) =>
          /\ ~LastShot(fl[f]) => Coherent(f, Fire(fl[f])) /\ (Leaving(fl[f]) => Leaving(Fire(fl[f])))
          /\ Coherent(f, DropFlag(f, Last(fl[f]), land[f]))
          /\ f \in SuperSlots => DropFlag(f, Last(fl[f]), land[f]).status = "GOING"
    <2>. SUFFICES ASSUME NEW f \in Flags, f \in Carried(fl, p), IsLimited(fl[f])
                  PROVE  /\ ~LastShot(fl[f]) => /\ Coherent(f, Fire(fl[f]))
                                                /\ Leaving(fl[f]) => Leaving(Fire(fl[f]))
                         /\ Coherent(f, DropFlag(f, Last(fl[f]), land[f]))
                         /\ f \in SuperSlots => DropFlag(f, Last(fl[f]), land[f]).status = "GOING"
      OBVIOUS
    <2>1. /\ fl[f] \in FlagRecord /\ Coherent(f, fl[f]) /\ fl[f].owner # None
          /\ fl[f].status = "ON_TANK"
      BY OwnersAssumption DEF Carried, OnTank, Sound
    <2>. QED BY <2>1, FiredCoherent
  <1>. HIDE DEF Fire, Last
  <1>2. CountFlagShot(fl, p, land) =
          [f \in Flags |->
             IF f \notin {g \in Carried(fl, p) : IsLimited(fl[g])} THEN fl[f]
             ELSE IF LastShot(fl[f]) THEN DropFlag(f, Last(fl[f]), land[f]) ELSE Fire(fl[f])]
    BY DEF CountFlagShot, Fire, Last
  <1>. QED BY <1>1, <1>2, Kinds DEF Sound, StillLeaves, Leaving

LEMMA MoveSound ==
  ASSUME NEW p, NEW t, NEW shed \in [Flags -> FlagRecord], OnTank(shed), Sound(shed), NEW alone,
         Move(p, t, shed, alone)
  PROVE  Sound(flags') /\ StillLeaves(shed, flags')
  <1>. DEFINE tm == [team EXCEPT ![p] = t]
              back == IF alone /\ t \in Teams THEN ResetTeamFlags(shed, t, EmptyTeams(tm)) ELSE shed
  <1>1. back \in [Flags -> FlagRecord] /\ Sound(back) /\ StillLeaves(shed, back)
    BY ResetAllReleases, ResetAllSound DEF ResetTeamFlags, Releases, StillLeaves
  <1>. HIDE DEF back
  <1>2. flags' \in {back, RetireTeamFlags(back, team[p], tm, EmptyTeams(tm))}
    BY DEF Move, back
  <1>. QED BY <1>1, <1>2, ResetAllSound DEF RetireTeamFlags, StillLeaves

-----------------------------------------------------------------------------
(* Coherence is kept by every step, and a sticky flag on a tank is leaving. *)

\* One step of StickyIsSpent.
StickyStep ==
  \A f \in SuperSlots : IsSticky(flags[f]) /\ flags[f].status = "ON_TANK"
                          => flags'[f].status \notin {"IN_AIR", "ON_GROUND"}

\* What is still leaving has not come to lie on the ground.
LEMMA StillLeavesSticky == StillLeaves(flags, flags') => StickyStep
  BY DEF StillLeaves, Leaving, StickyStep

\* Stillness, and one thing after another.
LEMMA StillLeavesCompose ==
  /\ \A fl : StillLeaves(fl, fl)
  /\ \A fl1, fl2, fl3 : StillLeaves(fl1, fl2) /\ StillLeaves(fl2, fl3) => StillLeaves(fl1, fl3)
  BY DEF StillLeaves

LEMMA InitSound == Init => Sound(flags)
  <1>. SUFFICES ASSUME Init PROVE Sound(flags) OBVIOUS
  <1>1. PICK y \in [Pool -> Types] :
          flags = [f \in Flags |->
                     CASE f \in Teams -> EmptySlot(f)
                       [] f \in Required -> AddFlag(EmptySlot(f), PinnedType[f])
                       [] f \in Pool -> AddFlag(EmptySlot(f), y[f])]
    BY DEF Init
  <1>2. \A f \in Flags : EmptySlot(f) \in FlagRecord
    BY SlotsAssumption, TypesAssumption DEF EmptySlot, FlagRecord, Statuses, Flags, SuperSlots
  <1>3. ASSUME NEW f \in Flags PROVE Coherent(f, flags[f])
    <2>1. CASE f \in Teams
      <3>1. flags[f] = EmptySlot(f) BY <1>1, <2>1, Kinds
      <3>2. EmptySlot(f).status = "NO_EXIST" /\ EmptySlot(f).type = f BY <2>1 DEF EmptySlot
      <3>. QED BY <2>1, <3>1, <3>2, Kinds DEF Coherent
    <2>2. CASE f \in Required
      <3>1. flags[f] = AddFlag(EmptySlot(f), PinnedType[f]) BY <1>1, <2>2, Kinds DEF SuperSlots
      <3>2. PinnedType[f] \in Types /\ f \in SuperSlots BY <2>2, TypesAssumption DEF SuperSlots
      <3>. QED BY <1>2, <3>1, <3>2, AddFlagCoherent
    <2>3. CASE f \in Pool
      <3>1. flags[f] = AddFlag(EmptySlot(f), y[f]) BY <1>1, <2>3, Kinds DEF SuperSlots
      <3>2. y[f] \in Types /\ f \in SuperSlots /\ f \notin Required
        BY <2>3, Kinds DEF SuperSlots
      <3>. QED BY <1>2, <3>1, <3>2, AddFlagCoherent
    <2>. QED BY <2>1, <2>2, <2>3, Kinds
  <1>. QED BY <1>3 DEF Sound

LEMMA PlayerSound ==
  ASSUME Custody, Sound(flags), NEW p \in Players, PlayerStep(p)
  PROVE  Sound(flags') /\ StillLeaves(flags, flags')
  <1>0. flags \in [Flags -> FlagRecord] /\ OnTank(flags)
    BY CustodyTable
  <1>d. ASSUME NEW S, NEW land, Drops(S, land) PROVE Sound(flags') /\ StillLeaves(flags, flags')
    BY <1>0, <1>d, ShedSound DEF Drops
  <1>t. ASSUME NEW land, Throws(p, land) PROVE Sound(flags') /\ StillLeaves(flags, flags')
    BY <1>0, <1>t, ThrowSound DEF Throws
  <1>1. ASSUME NEW f \in Flags, Grab(p, f) PROVE Sound(flags') /\ StillLeaves(flags, flags')
    <2>1. flags[f].status = "ON_GROUND" /\ flags' = [flags EXCEPT ![f] = GrabFlag(flags[f], p)]
      BY <1>1 DEF Grab
    <2>2. Coherent(f, GrabFlag(flags[f], p)) BY <1>0, <2>1, GrabFlagCoherent DEF Sound
    <2>. QED BY <1>0, <2>1, <2>2, Kinds DEF Sound, StillLeaves, Leaving
  <1>2. CASE Drop(p) BY <1>2, <1>t DEF Drop
  <1>3. CASE Antidote(p) BY <1>3, <1>t DEF Antidote
  <1>4. CASE NotResponding(p) BY <1>4, <1>d DEF NotResponding
  <1>5. CASE Pause(p) BY <1>5, <1>d DEF Pause
  <1>6. CASE PauseDrop(p) BY <1>6, <1>d DEF PauseDrop
  <1>7. CASE Unpause(p) BY <1>7, StillLeavesCompose DEF Unpause
  <1>8. CASE Shoot(p) BY <1>8, <1>0, CountFlagShotSound DEF Shoot
  <1>9. ASSUME NEW v \in Players, NEW answer, Steal(p, v, answer)
        PROVE  Sound(flags') /\ StillLeaves(flags, flags')
    <2>1. PICK given, land : Robbed(p, v, answer, given) /\ flags' = CountFlagShot(given, p, land)
      BY <1>9, StealTable
    <2>2. ASSUME NEW f \in Flags
          PROVE  /\ Coherent(f, given[f])
                 /\ f \in SuperSlots /\ Leaving(flags[f]) => Leaving(given[f])
      <3>1. /\ flags[f] \in FlagRecord /\ Coherent(f, flags[f])
            /\ flags[f].owner # None => flags[f].status = "ON_TANK"
        BY <1>0 DEF Sound, OnTank
      <3>2. CASE given[f] = flags[f] BY <3>1, <3>2
      <3>3. CASE given[f] = ResetFlag(f, flags[f], empty) BY <3>1, <3>3, ResetFlagCoherent
      <3>4. CASE flags[f].owner = v /\ given[f] = [flags[f] EXCEPT !.owner = p, !.status = "ON_TANK"]
        <4>. DEFINE r == flags[f]
        <4>1. r \in FlagRecord /\ Coherent(f, r) /\ r.owner # None /\ r.status = "ON_TANK"
          BY <3>1, <3>4, OwnersAssumption
        <4>. HIDE DEF r
        <4>2. /\ Coherent(f, [r EXCEPT !.owner = p, !.status = "ON_TANK"])
              /\ Leaving(r) => Leaving([r EXCEPT !.owner = p, !.status = "ON_TANK"])
          BY <4>1, StolenCoherent
        <4>. QED BY <3>4, <4>2 DEF r
      <3>. QED BY <2>1, <3>2, <3>3, <3>4 DEF Robbed
    <2>3. Sound(given) /\ StillLeaves(flags, given) BY <2>2, Kinds DEF Sound, StillLeaves
    <2>4. Sound(flags') /\ StillLeaves(given, flags')
      BY <2>1, <2>3, CountFlagShotSound DEF Robbed
    <2>. QED BY <2>3, <2>4, StillLeavesCompose
  <1>10. CASE ShieldHit(p) BY <1>10, <1>d DEF ShieldHit
  <1>11. ASSUME NEW k, NEW genocide, NEW shake, Kill(p, k, genocide, shake)
         PROVE  Sound(flags') /\ StillLeaves(flags, flags')
    <2>1. PICK dead, land :
            flags' = Shed(IF shake THEN Throw(flags, k, land) ELSE flags, dead, land, empty)
      BY <1>11 DEF Kill
    <2>. DEFINE mid == IF shake THEN Throw(flags, k, land) ELSE flags
    <2>2. Sound(mid) /\ StillLeaves(flags, mid) BY <1>0, ThrowSound, StillLeavesCompose
    <2>3. mid \in [Flags -> FlagRecord] BY <1>0, ThrowReleases DEF Releases
    <2>4. flags' = Shed(mid, dead, land, empty) BY <2>1
    <2>. HIDE DEF mid
    <2>. QED BY <2>2, <2>3, <2>4, ShedSound, StillLeavesCompose
  <1>12. ASSUME NEW killTeam, Capture(p, killTeam) PROVE Sound(flags') /\ StillLeaves(flags, flags')
    <2>1. PICK t \in Teams : \E dead, land :
            flags' = Shed(ResetAll(flags, {t}, empty), dead, land, empty)
      BY <1>12 DEF Capture
    <2>. DEFINE home == ResetAll(flags, {t}, empty)
    <2>2. Sound(home) /\ StillLeaves(flags, home) /\ home \in [Flags -> FlagRecord]
      BY <1>0, ResetAllSound, ResetAllReleases DEF Releases
    <2>3. PICK dead, land : flags' = Shed(home, dead, land, empty) BY <2>1
    <2>. HIDE DEF home
    <2>. QED BY <2>2, <2>3, ShedSound, StillLeavesCompose
  <1>. QED BY <1>1, <1>2, <1>3, <1>4, <1>5, <1>6, <1>7, <1>8, <1>9, <1>10, <1>11, <1>12 DEF PlayerStep

LEMMA RosterSound ==
  ASSUME Custody, Sound(flags), NEW p \in Players, RosterStep(p)
  PROVE  Sound(flags') /\ StillLeaves(flags, flags')
  <1>0. flags \in [Flags -> FlagRecord] /\ OnTank(flags)
    BY CustodyTable
  <1>m. ASSUME NEW S, NEW land, NEW t, NEW alone, Move(p, t, Shed(flags, S, land, empty), alone)
        PROVE  Sound(flags') /\ StillLeaves(flags, flags')
    <2>. DEFINE shed == Shed(flags, S, land, empty)
    <2>1. /\ Sound(shed) /\ StillLeaves(flags, shed) /\ OnTank(shed)
          /\ shed \in [Flags -> FlagRecord]
      BY <1>0, ShedSound, ShedReleases DEF Releases, OnTank
    <2>2. Move(p, t, shed, alone) BY <1>m
    <2>. HIDE DEF shed
    <2>. QED BY <2>1, <2>2, MoveSound, StillLeavesCompose
  <1>1. ASSUME NEW t, NEW up, Join(p, t, up) PROVE Sound(flags') /\ StillLeaves(flags, flags')
    BY <1>1, <1>m DEF Join
  <1>2. ASSUME NEW t, JoinKicked(p, t) PROVE Sound(flags') /\ StillLeaves(flags, flags')
    BY <1>0, <1>2, ShedSound DEF JoinKicked, Drops
  <1>3. ASSUME NEW t, ChangeTeam(p, t) PROVE Sound(flags') /\ StillLeaves(flags, flags')
    BY <1>3, <1>m DEF ChangeTeam
  <1>4. CASE Leave(p)
    <2>. DEFINE now == EmptyTeams([team EXCEPT ![p] = NoTeam])
    <2>1. PICK land :
            flags' = IF team[p] \in Teams
                     THEN RetireTeamFlags(Shed(flags, {p}, land, now), team[p],
                                          [team EXCEPT ![p] = NoTeam], now)
                     ELSE Shed(flags, {p}, land, now)
      BY <1>4 DEF Leave
    <2>. DEFINE shed == Shed(flags, {p}, land, now)
    <2>2. Sound(shed) /\ StillLeaves(flags, shed) /\ shed \in [Flags -> FlagRecord]
      BY <1>0, ShedSound, ShedReleases DEF Releases
    <2>3. flags' \in {shed, RetireTeamFlags(shed, team[p], [team EXCEPT ![p] = NoTeam], now)}
      BY <2>1
    <2>. HIDE DEF shed, now
    <2>. QED BY <2>2, <2>3, ResetAllSound, StillLeavesCompose DEF RetireTeamFlags
  <1>. QED BY <1>1, <1>2, <1>3, <1>4 DEF RosterStep, Respawn, SetTeam

LEMMA ServerSound ==
  ASSUME Custody, Sound(flags), ServerStep
  PROVE  Sound(flags') /\ StickyStep
  <1>0. flags \in [Flags -> FlagRecord] /\ OnTank(flags)
    BY CustodyTable
  <1>1. CASE EndMatch BY <1>0, <1>1, ShedSound, StillLeavesSticky DEF EndMatch, Drops
  <1>2. ASSUME NEW due \in SUBSET Flags, NEW late \in SUBSET timeouts, NEW insert \in BOOLEAN,
               UpdateFlags(due, late, insert)
        PROVE  Sound(flags') /\ StickyStep
    <2>. DEFINE landed == Landed(flags, due)
                fl == Expired(landed, late)
    <2>1. \A f \in due : flags[f].status \in Flying BY <1>2 DEF UpdateFlags
    <2>2. ASSUME NEW f \in Flags
          PROVE  /\ landed[f] \in FlagRecord
                 /\ Coherent(f, landed[f])
                 /\ flags[f].status = "ON_TANK" => landed[f] = flags[f]
      <3>1. flags[f] \in FlagRecord /\ Coherent(f, flags[f]) BY <1>0 DEF Sound
      <3>2. CASE f \notin due BY <3>1, <3>2 DEF Landed
      <3>3. CASE f \in due /\ flags[f].status = "GOING"
        BY <3>1, <3>3, ResetFlagReleases, ResetFlagCoherent DEF Landed
      <3>4. CASE f \in due /\ flags[f].status # "GOING"
        <4>. DEFINE q == [flags[f] EXCEPT !.status = "ON_GROUND"]
        <4>1. /\ q \in FlagRecord /\ q.status = "ON_GROUND" /\ q.owner = flags[f].owner
              /\ q.type = flags[f].type /\ q.grabs = flags[f].grabs /\ q.shots = flags[f].shots
          BY <3>1 DEF FlagRecord, Statuses
        <4>2. landed[f] = q BY <3>4 DEF Landed
        <4>3. (IsSticky(q) <=> IsSticky(flags[f])) /\ (IsLimited(q) <=> IsLimited(flags[f]))
          BY <4>1 DEF IsSticky, IsLimited
        <4>4. flags[f].status \in {"IN_AIR", "COMING"} BY <2>1, <3>4 DEF Flying
        <4>. HIDE DEF q
        <4>5. Coherent(f, q) BY <3>1, <4>1, <4>3, <4>4 DEF Coherent
        <4>. QED BY <4>1, <4>2, <4>4, <4>5
      <3>. QED BY <3>2, <3>3, <3>4
    <2>3. landed = [f \in Flags |-> landed[f]] BY DEF Landed
    <2>. HIDE DEF landed
    <2>4. landed \in [Flags -> FlagRecord] /\ Sound(landed) BY <2>2, <2>3 DEF Sound
    <2>5. Sound(fl) /\ \A f \in SuperSlots : fl[f] = landed[f]
      <3>1. Sound(fl) BY <2>4, ResetAllSound DEF Expired
      <3>2. \A f \in SuperSlots : fl[f] = landed[f]
        BY Kinds DEF Expired, ResetAll, empty, EmptyTeams
      <3>. QED BY <3>1, <3>2
    <2>6. fl \in [Flags -> FlagRecord]
      <3>1. \A f \in Flags : landed[f] \in FlagRecord
                             /\ ResetFlag(f, landed[f], empty) \in FlagRecord
        BY <2>4, ResetFlagReleases
      <3>. QED BY <3>1 DEF Expired, ResetAll
    <2>. HIDE DEF fl
    <2>7. \/ flags' = fl
          \/ \E f \in NextSlot(fl), y \in Types :
               flags' = [fl EXCEPT ![f] = AddFlag(@, IF f \in Required THEN PinnedType[f] ELSE y)]
      BY <1>2 DEF UpdateFlags, fl, landed
    <2>8. CASE flags' = fl
      BY <2>2, <2>5, <2>8, Kinds DEF StickyStep
    <2>9. ASSUME NEW f \in NextSlot(fl), NEW y \in Types,
                 flags' = [fl EXCEPT ![f] = AddFlag(@, IF f \in Required THEN PinnedType[f] ELSE y)]
          PROVE  Sound(flags') /\ StickyStep
      <3>. DEFINE in == AddFlag(fl[f], IF f \in Required THEN PinnedType[f] ELSE y)
      <3>1. f \in SuperSlots /\ f \in Flags BY Kinds DEF NextSlot
      <3>2. (IF f \in Required THEN PinnedType[f] ELSE y) \in Types BY TypesAssumption
      <3>3. Coherent(f, in) /\ Leaving(in) BY <2>6, <3>1, <3>2, AddFlagCoherent
      <3>4. flags' = [fl EXCEPT ![f] = in] BY <2>9
      <3>. HIDE DEF in
      <3>5. Sound(flags') BY <2>5, <2>6, <3>3, <3>4 DEF Sound
      <3>6. StickyStep BY <2>2, <2>5, <2>6, <3>3, <3>4, Kinds DEF StickyStep, Leaving
      <3>. QED BY <3>5, <3>6
    <2>. QED BY <2>7, <2>8, <2>9
  <1>3. ASSUME NEW S, ResetFlags(S) PROVE Sound(flags') /\ StickyStep
    BY <1>0, <1>3, ResetAllSound, StillLeavesSticky DEF ResetFlags
  <1>4. CASE FlagUp
    <2>1. ASSUME NEW f \in Flags
          PROVE  /\ Coherent(f, flags'[f])
                 /\ f \in SuperSlots => flags'[f].status \notin {"IN_AIR", "ON_GROUND"}
      <3>1. flags[f] \in FlagRecord /\ Coherent(f, flags[f]) BY <1>0 DEF Sound
      <3>2. CASE f \in Teams BY <1>4, <3>1, <3>2, Kinds DEF FlagUp
      <3>3. CASE f \notin Teams /\ flags[f].status = "NO_EXIST" BY <1>4, <3>1, <3>3 DEF FlagUp
      <3>4. CASE f \notin Teams /\ flags[f].status # "NO_EXIST"
        <4>. DEFINE q == SendFlagUp(f, flags[f])
        <4>1. /\ q.status = "NO_EXIST" /\ q.owner = None /\ q.grabs = flags[f].grabs
              /\ q.type = IF f \in Required THEN flags[f].type ELSE None
          BY <3>1 DEF SendFlagUp, SendFlagDrop, FlagRecord
        <4>2. flags'[f] = q /\ OperatorFlags BY <1>4, <3>4 DEF FlagUp
        <4>3. IsSticky(q) => IsSticky(flags[f]) BY <4>1, TypesAssumption DEF IsSticky
        <4>. HIDE DEF q
        <4>4. Coherent(f, q) BY <3>1, <3>4, <4>1, <4>2, <4>3, Kinds DEF Coherent
        <4>. QED BY <4>1, <4>2, <4>4
      <3>. QED BY <3>2, <3>3, <3>4
    <2>. QED BY <2>1, Kinds DEF Sound, StickyStep
  <1>5. ASSUME NEW p \in Players, NEW f \in Flags, NEW land, FlagGive(p, f, land)
        PROVE  Sound(flags') /\ StickyStep
    <2>. DEFINE freed == [g \in Flags |-> IF g \notin Carried(flags, p) THEN flags[g]
                                          ELSE IF g \in Teams THEN DropFlag(g, flags[g], land)
                                          ELSE ResetFlag(g, flags[g], empty)]
    <2>1. ASSUME NEW g \in Flags
          PROVE  /\ freed[g] \in FlagRecord /\ Coherent(g, freed[g])
                 /\ g \in SuperSlots /\ Leaving(flags[g]) => Leaving(freed[g])
      <3>1. flags[g] \in FlagRecord /\ Coherent(g, flags[g]) BY <1>0 DEF Sound
      <3>2. flags[g].owner # None => flags[g].status = "ON_TANK" BY <1>0 DEF OnTank
      <3>. QED BY <3>1, <3>2, ResetFlagReleases, ResetFlagCoherent, DropFlagReleases,
                  DropFlagCoherent, Kinds
    <2>2. OperatorGives BY <1>5 DEF FlagGive
    <2>3. freed \in [Flags -> FlagRecord] BY <2>1
    <2>. DEFINE off == SendFlagDrop(freed[f])
    <2>4. flags' \in {[freed EXCEPT ![f] = off], [freed EXCEPT ![f] = GrabFlag(off, p)]}
      <3>1. flags' = IF p \in paused THEN [freed EXCEPT ![f] = SendFlagDrop(@)]
                     ELSE [[freed EXCEPT ![f] = SendFlagDrop(@)] EXCEPT ![f] = GrabFlag(@, p)]
        BY <1>5 DEF FlagGive
      <3>. HIDE DEF freed
      <3>. QED BY <2>3, <3>1
    <2>. HIDE DEF freed
    <2>5. /\ off \in FlagRecord /\ off.owner = None /\ off.status = freed[f].status
          /\ off.type = freed[f].type /\ off.grabs = freed[f].grabs
      BY <2>1 DEF SendFlagDrop, FlagRecord
    <2>. HIDE DEF off
    <2>6. Coherent(f, off) /\ (f \in SuperSlots /\ Leaving(freed[f]) => Leaving(off))
      <3>1. IsSticky(off) <=> IsSticky(freed[f]) BY <2>5 DEF IsSticky
      <3>. QED BY <2>1, <2>2, <2>5, <3>1 DEF Coherent, Leaving
    <2>7. Coherent(f, GrabFlag(off, p)) BY <2>2, <2>5, <2>6, GrabFlagCoherent
    <2>8. GrabFlag(off, p).status = "ON_TANK" BY <2>5 DEF GrabFlag, FlagRecord
    <2>9. Sound(flags') BY <2>1, <2>3, <2>4, <2>6, <2>7 DEF Sound
    <2>10. StickyStep
      BY <2>1, <2>3, <2>4, <2>6, <2>8, Kinds DEF StickyStep, Leaving
    <2>. QED BY <2>9, <2>10
  <1>. QED BY <1>1, <1>2, <1>3, <1>4, <1>5 DEF ServerStep, Tick, Airborne

LEMMA GhostSound ==
  ASSUME Custody, Sound(flags), NEW p \in Players, NEW from, NEW to, GhostRespawn(p, from, to)
  PROVE  Sound(flags') /\ StillLeaves(flags, flags')
  <1>0. flags \in [Flags -> FlagRecord] /\ OnTank(flags)
    BY CustodyTable
  <1>. DEFINE Arrive(fl) == IF to \in empty THEN ResetTeamFlags(fl, to, empty) ELSE fl
              Retire(fl) == IF from \in Teams THEN RetireTeamFlags(fl, from, team, empty) ELSE fl
  <1>1. PICK land : flags' = Retire(Arrive(Shed(flags, {p}, land, empty)))
    BY DEF GhostRespawn
  <1>. DEFINE shed == Shed(flags, {p}, land, empty)
              back == Arrive(shed)
  <1>2. /\ Sound(shed) /\ StillLeaves(flags, shed) /\ OnTank(shed)
        /\ shed \in [Flags -> FlagRecord]
    BY <1>0, ShedSound, ShedReleases DEF Releases, OnTank
  <1>3. flags' = Retire(back) BY <1>1
  <1>. HIDE DEF shed
  <1>4. /\ Sound(back) /\ StillLeaves(shed, back) /\ back \in [Flags -> FlagRecord]
    BY <1>2, ResetAllSound, ResetAllReleases, StillLeavesCompose DEF ResetTeamFlags, Releases
  <1>. HIDE DEF back
  <1>5. Sound(flags') /\ StillLeaves(back, flags')
    BY <1>3, <1>4, ResetAllSound, StillLeavesCompose DEF RetireTeamFlags
  <1>. QED BY <1>2, <1>4, <1>5, StillLeavesCompose

LEMMA NextSound == Custody /\ Sound(flags) /\ [Next]_vars => Sound(flags)' /\ [StickyStep]_vars
  <1>. SUFFICES ASSUME Custody, Sound(flags), [Next]_vars
                PROVE  Sound(flags') /\ (vars' = vars \/ StickyStep)
    BY DEF Sound
  <1>1. CASE UNCHANGED vars BY <1>1 DEF vars
  <1>2. CASE Next
    BY <1>2, PlayerSound, RosterSound, ServerSound, GhostSound, StillLeavesSticky DEF Next
  <1>. QED BY <1>1, <1>2

\* Custody and coherence hold in every reachable state, and every step keeps
\* what is leaving from the ground.
LEMMA SoundAlways == Spec => [](Custody /\ Sound(flags)) /\ [][StickyStep]_vars
<1>1. Init => Custody /\ Sound(flags) BY InitCustody, InitSound
<1>2. Custody /\ Sound(flags) /\ [Next]_vars => (Custody /\ Sound(flags))' /\ [StickyStep]_vars
  BY NextCustody, NextSound
<1>. QED BY <1>1, <1>2, PTL DEF Spec

\* Unless operators give flags away, a flag on a tank has an owner, whoever
\* stole, shot, dropped or left: no flag is stuck where nobody can pick it up.
THEOREM NoFlagIsOrphaned ==
  ASSUME ~OperatorGives
  PROVE  Spec => []NoOrphan
<1>1. Sound(flags) => NoOrphan BY DEF Sound, Coherent, NoOrphan
<1>. QED BY <1>1, SoundAlways, PTL

\* With every command of the operator and every answer of a plugin, a superflag
\* with no grabs left is never lying where it can be grabbed, and a limited
\* flag on a tank has a shot left.
THEOREM SpentFlagsLeave == Spec => [](SpentFlagLeaves /\ LimitedFlagHasShots)
<1>1. Sound(flags) => SpentFlagLeaves /\ LimitedFlagHasShots
  BY Kinds DEF Sound, Coherent, SpentFlagLeaves, LimitedFlagHasShots
<1>. QED BY <1>1, SoundAlways, PTL

\* Unless an operator sends flags away or gives them out, the type, status,
\* grabs and shots of every superflag agree: what is used up leaves, a required
\* flag never disappears, and a pool slot has a type exactly while it is in the
\* world.
THEOREM SuperflagsAreUsedUp ==
  ASSUME ~OperatorFlags, ~OperatorGives
  PROVE  Spec => []SuperflagsAreSpent
<1>1. Sound(flags) => RequiredFlagStays
  BY Kinds DEF Sound, Coherent, RequiredFlagStays
<1>2. Sound(flags) => TypedInWorld
  BY Kinds DEF Sound, Coherent, TypedInWorld
<1>. QED BY <1>1, <1>2, SpentFlagsLeave, SoundAlways, PTL DEF SuperflagsAreSpent

\* Whoever shakes, drops, steals, resets or gives it, and however its carrier
\* ends, a sticky flag that has been carried never comes to lie on the ground.
THEOREM StickyFlagsAreSpent == Spec => StickyIsSpent
<1>1. Spec => [][StickyStep]_vars BY SoundAlways, PTL
<1>. QED BY <1>1 DEF StickyIsSpent, StickyStep

-----------------------------------------------------------------------------
(* Whoever carries a flag is on the field, and nobody in a pause has a team *)
(* flag: each where the settings do not take it away.                       *)

InPlay == (~JoinHolds => CarrierAlive) /\ (Native = {} => PausedKeepsNoTeamFlag)

\* A step in which flags are only given up, and nobody who keeps one dies or
\* pauses with a team flag.
LEMMA InPlayKept ==
  ASSUME Custody, InPlay, Releases(flags, flags'),
         \A f \in Flags : flags'[f].owner \in alive => JoinHolds \/ flags'[f].owner \in alive',
         \A t \in Teams : flags'[t].owner \in paused' => flags'[t].owner \in paused
  PROVE  InPlay'
  <1>1. None \notin paused BY OwnersAssumption DEF Custody, Typed
  <1>2. \A t \in Teams : t \in Flags BY DEF Flags
  <1>. QED BY <1>1, <1>2 DEF InPlay, CarrierAlive, PausedKeepsNoTeamFlag, Releases

\* A step in which the players of S give up what they carry and may die of it.
LEMMA ShedInPlay ==
  ASSUME Custody, InPlay, NEW fl, Releases(flags, fl), NEW S, NEW land, NEW e,
         flags' = Shed(fl, S, land, e), alive \ S \subseteq alive', paused' \subseteq paused
  PROVE  InPlay'
  <1>1. fl \in [Flags -> FlagRecord] /\ OnTank(fl)
    BY CustodyTable, ReleasesKeep DEF Releases
  <1>2. Releases(fl, flags') /\ \A f \in Flags : flags'[f].owner \in {None} \cup (Players \ S)
    BY <1>1, ShedReleases
  <1>3. Releases(flags, flags') BY <1>2, ReleasesCompose
  <1>4. None \notin alive BY OwnersAssumption DEF Custody, Typed
  <1>. QED BY <1>2, <1>3, <1>4, InPlayKept

\* A step that only gives flags up.
LEMMA ReleaseInPlay ==
  ASSUME Custody, InPlay, Releases(flags, flags'), alive' = alive, paused' \subseteq paused
  PROVE  InPlay'
  BY InPlayKept

\* A step in which p, which is on the field, comes to own a flag.
LEMMA TakeInPlay ==
  ASSUME Custody, InPlay, NEW p \in alive,
         \A f \in Flags : flags'[f].owner \in {None, p, flags[f].owner},
         Native = {} => p \notin paused,
         UNCHANGED <<alive, paused>>
  PROVE  InPlay'
  <1>1. None \notin paused BY OwnersAssumption DEF Custody, Typed
  <1>2. \A t \in Teams : t \in Flags BY DEF Flags
  <1>. QED BY <1>1, <1>2 DEF InPlay, CarrierAlive, PausedKeepsNoTeamFlag

LEMMA PlayerInPlay ==
  ASSUME Custody, InPlay, NEW p \in Players, PlayerStep(p)
  PROVE  InPlay'
  <1>0. flags \in [Flags -> FlagRecord] /\ OnTank(flags) /\ Releases(flags, flags)
    BY CustodyTable
  <1>d. ASSUME NEW S, NEW land, Drops(S, land), UNCHANGED <<alive, paused>> PROVE InPlay'
    BY <1>0, <1>d, ShedInPlay DEF Drops
  <1>t. ASSUME NEW land, Throws(p, land) PROVE InPlay'
    BY <1>0, <1>t, ThrowReleases, ReleaseInPlay DEF Throws
  <1>1. ASSUME NEW f \in Flags, Grab(p, f) PROVE InPlay'
    <2>1. GrabFlag(flags[f], p).owner = p BY <1>0 DEF GrabFlag, FlagRecord
    <2>2. flags' = [flags EXCEPT ![f] = GrabFlag(flags[f], p)] BY <1>1 DEF Grab
    <2>3. \A g \in Flags : flags'[g].owner \in {None, p, flags[g].owner} BY <1>0, <2>1, <2>2
    <2>. QED BY <1>1, <2>3, TakeInPlay DEF Grab
  <1>2. CASE Drop(p) BY <1>2, <1>t DEF Drop
  <1>3. CASE Antidote(p) BY <1>3, <1>t DEF Antidote
  <1>4. CASE NotResponding(p) BY <1>4, <1>d DEF NotResponding
  <1>5. CASE Pause(p)
    <2>. DEFINE S == {p} \cap {flags[t].owner : t \in Teams}
                land == [f \in SuperSlots |-> "rest"]
    <2>1. flags' = Shed(flags, S, land, empty) BY <1>5 DEF Pause, Drops
    <2>2. Releases(flags, flags') /\ \A f \in Flags : flags'[f].owner \in {None} \cup (Players \ S)
      BY <1>0, <2>1, ShedReleases
    <2>3. ASSUME NEW t \in Teams PROVE flags'[t].owner # p
      <3>1. flags'[t].owner \in {None, flags[t].owner} BY <2>2 DEF Releases, Flags
      <3>2. flags'[t].owner \in {None} \cup (Players \ S) BY <2>2 DEF Flags
      <3>. QED BY <3>1, <3>2, OwnersAssumption
    <2>4. alive' = alive /\ paused' = paused \cup {p} BY <1>5 DEF Pause
    <2>. QED BY <2>2, <2>3, <2>4, InPlayKept
  <1>6. CASE PauseDrop(p) BY <1>6, <1>d DEF PauseDrop
  <1>7. CASE Unpause(p) BY <1>7, <1>0, ReleaseInPlay DEF Unpause
  <1>8. CASE Shoot(p) BY <1>8, <1>0, CountFlagShotReleases, ReleaseInPlay DEF Shoot
  <1>9. ASSUME NEW v \in Players, NEW answer, Steal(p, v, answer) PROVE InPlay'
    <2>1. PICK given, land : Robbed(p, v, answer, given) /\ flags' = CountFlagShot(given, p, land)
      BY <1>9, StealTable
    <2>2. \A f \in Flags : given[f].owner \in {None, p, flags[f].owner}
      BY <2>1, RobbedOwners
    <2>3. Releases(given, flags') BY <2>1, CountFlagShotReleases DEF Robbed
    <2>4. \A f \in Flags : flags'[f].owner \in {None, p, flags[f].owner}
      BY <2>2, <2>3 DEF Releases
    <2>5. p \in alive /\ (Native = {} => p \notin paused) /\ UNCHANGED <<alive, paused>>
      BY <1>9 DEF Steal, MayShoot
    <2>. QED BY <2>4, <2>5, TakeInPlay
  <1>10. CASE ShieldHit(p) BY <1>10, <1>d DEF ShieldHit
  <1>11. ASSUME NEW k, NEW genocide, NEW shake, Kill(p, k, genocide, shake) PROVE InPlay'
    <2>1. PICK dead, land :
            /\ flags' = Shed(IF shake THEN Throw(flags, k, land) ELSE flags, dead, land, empty)
            /\ alive' = alive \ dead /\ paused' = paused
      BY <1>11 DEF Kill
    <2>2. Releases(flags, IF shake THEN Throw(flags, k, land) ELSE flags) BY <1>0, ThrowReleases
    <2>. QED BY <2>1, <2>2, ShedInPlay
  <1>12. ASSUME NEW killTeam, Capture(p, killTeam) PROVE InPlay'
    <2>1. PICK t \in Teams : \E dead, land :
            /\ flags' = Shed(ResetAll(flags, {t}, empty), dead, land, empty)
            /\ alive' = alive \ dead /\ paused' = paused
      BY <1>12 DEF Capture
    <2>2. Releases(flags, ResetAll(flags, {t}, empty)) BY <1>0, ResetAllReleases
    <2>. QED BY <2>1, <2>2, ShedInPlay
  <1>. QED BY <1>1, <1>2, <1>3, <1>4, <1>5, <1>6, <1>7, <1>8, <1>9, <1>10, <1>11, <1>12 DEF PlayerStep

LEMMA RosterInPlay ==
  ASSUME Custody, InPlay, NEW p \in Players, RosterStep(p)
  PROVE  InPlay'
  <1>1. SideMove(p) BY RosterMoves
  <1>2. \A f \in Flags : flags'[f].owner \in alive => JoinHolds \/ flags'[f].owner \in alive'
    BY <1>1 DEF SideMove
  <1>3. \A t \in Teams : flags'[t].owner \in paused' => flags'[t].owner \in paused
    BY <1>1 DEF SideMove
  <1>. QED BY <1>1, <1>2, <1>3, InPlayKept DEF SideMove

LEMMA ServerInPlay ==
  ASSUME Custody, InPlay, ServerStep
  PROVE  InPlay'
  <1>0. flags \in [Flags -> FlagRecord] /\ OnTank(flags) /\ Releases(flags, flags)
    BY CustodyTable
  <1>1. CASE EndMatch BY <1>0, <1>1, ShedInPlay DEF EndMatch, Drops
  <1>2. CASE Tick
    <2>1. Releases(flags, flags') BY <1>2, TickReleases DEF Tick, Airborne
    <2>2. UNCHANGED <<alive, paused>> BY <1>2 DEF Tick, UpdateFlags
    <2>. QED BY <2>1, <2>2, ReleaseInPlay
  <1>3. ASSUME NEW S, ResetFlags(S) PROVE InPlay'
    BY <1>0, <1>3, ResetAllReleases, ReleaseInPlay DEF ResetFlags
  <1>4. CASE FlagUp BY <1>4, FlagUpReleases, ReleaseInPlay DEF FlagUp
  <1>5. ASSUME NEW p \in Players, NEW f \in Flags, NEW land, FlagGive(p, f, land) PROVE InPlay'
    <2>1. PICK off :
            /\ Releases(flags, off) /\ off[f].owner = None /\ \A g \in Flags : off[g].owner # p
            /\ flags' = IF p \in paused THEN off ELSE [off EXCEPT ![f] = GrabFlag(@, p)]
      BY <1>5, GiveTable
    <2>2. p \in alive /\ UNCHANGED <<alive, paused>> BY <1>5 DEF FlagGive
    <2>3. CASE p \in paused BY <2>1, <2>2, <2>3, ReleaseInPlay
    <2>4. CASE p \notin paused
      <3>1. GrabFlag(off[f], p).owner = p BY <2>1 DEF Releases, GrabFlag, FlagRecord
      <3>2. flags' = [off EXCEPT ![f] = GrabFlag(off[f], p)] BY <2>1, <2>4
      <3>3. \A g \in Flags : flags'[g].owner \in {None, p, flags[g].owner}
        BY <2>1, <3>1, <3>2 DEF Releases
      <3>. QED BY <2>2, <2>4, <3>3, TakeInPlay
    <2>. QED BY <2>3, <2>4
  <1>. QED BY <1>1, <1>2, <1>3, <1>4, <1>5 DEF ServerStep

\* Carriers stay in play in every reachable state.
LEMMA InPlayAlways == Spec => []InPlay
<1>1. Init => Custody /\ InPlay
  <2>1. Init => \A f \in Flags : flags[f].owner = None
    BY InitOwners
  <2>2. Init => paused = {} BY DEF Init
  <2>3. \A t \in Teams : t \in Flags BY DEF Flags
  <2>. QED BY <2>1, <2>2, <2>3, InitCustody DEF InPlay, CarrierAlive, PausedKeepsNoTeamFlag
<1>2. Custody /\ InPlay /\ [Next]_vars => (Custody /\ InPlay)'
  <2>. SUFFICES ASSUME Custody, InPlay, [Next]_vars PROVE InPlay' BY NextCustody
  <2>1. CASE UNCHANGED vars BY <2>1 DEF vars, InPlay, CarrierAlive, PausedKeepsNoTeamFlag
  <2>2. ASSUME NEW p \in Players, NEW from, NEW to, GhostRespawn(p, from, to) PROVE InPlay'
    BY <2>2, GhostReleases, ReleaseInPlay DEF GhostRespawn, Quiet
  <2>3. CASE Next BY <2>2, <2>3, PlayerInPlay, RosterInPlay, ServerInPlay DEF Next
  <2>. QED BY <2>1, <2>3
<1>. QED BY <1>1, <1>2, PTL DEF Spec

\* Where a join brings its tank to life, a flag is always carried by a tank on
\* the field, through every death, departure and change of side.
THEOREM CarriersAreAlive ==
  ASSUME ~JoinHolds
  PROVE  Spec => []CarrierAlive
<1>1. InPlay => CarrierAlive BY DEF InPlay
<1>. QED BY <1>1, InPlayAlways, PTL

\* On a server with no operator's give, no join that leaves its tank dead and
\* no client that shoots through a pause, a carried flag can be shot loose,
\* captured or dropped: its carrier is on the field and within reach.
THEOREM CarriersStayInPlay ==
  ASSUME ~OperatorGives, ~JoinHolds, Native = {}
  PROVE  Spec => []CarriersAreInPlay
<1>1. InPlay => PausedKeepsNoTeamFlag BY DEF InPlay
<1>. QED BY <1>1, NoFlagIsOrphaned, CarriersAreAlive, InPlayAlways, PTL DEF CarriersAreInPlay

-----------------------------------------------------------------------------
(* Flags change hands by theft only.                                        *)

\* One step of HandoverSpendsThief.
HandoverStep ==
  \A f \in Flags : flags[f].owner # None /\ flags'[f].owner \notin {None, flags[f].owner}
    => \E g \in SuperSlots : /\ flags[g].owner = flags'[f].owner /\ flags[g].type = Thief
                             /\ flags'[g].owner = None

LEMMA StealHandsOver ==
  ASSUME Custody, NEW p \in Players, NEW v \in Players, NEW answer, Steal(p, v, answer)
  PROVE  HandoverStep
  <1>0. flags \in [Flags -> FlagRecord] BY CustodyTable
  <1>1. PICK given, land : Robbed(p, v, answer, given) /\ flags' = CountFlagShot(given, p, land)
    BY StealTable
  <1>2. Releases(given, flags') BY <1>1, CountFlagShotReleases DEF Robbed
  <1>3. PICK g \in SuperSlots : flags[g].owner = p /\ flags[g].type = Thief
    BY DEF Steal, CarriesType
  <1>4. ASSUME NEW f \in Flags, flags[f].owner # None, flags'[f].owner \notin {None, flags[f].owner}
        PROVE  flags'[f].owner = p /\ flags'[g].owner = None
    <2>1. given[f].owner \notin {None, flags[f].owner} /\ flags'[f].owner = given[f].owner
      BY <1>2, <1>4 DEF Releases
    <2>2. given[f].owner = p BY <1>1, <2>1, RobbedOwners
    <2>3. ResetFlag(f, flags[f], empty).owner = None /\ ResetFlag(g, flags[g], empty).owner = None
      BY <1>0, ResetFlagReleases, Kinds
    <2>4. answer = "steal" BY <1>1, <2>1, <2>3 DEF Robbed
    <2>5. v # p BY DEF Steal
    <2>6. given[g].owner = None BY <1>1, <1>3, <2>3, <2>4, <2>5, Kinds DEF Robbed
    <2>. QED BY <1>2, <2>1, <2>2, <2>6, Kinds DEF Releases
  <1>. QED BY <1>3, <1>4 DEF HandoverStep

LEMMA NextHandsOver ==
  ASSUME Custody, [Next]_vars, ~OperatorGives
  PROVE  [HandoverStep]_vars
  <1>0. flags \in [Flags -> FlagRecord] /\ OnTank(flags) BY CustodyTable
  <1>r. Releases(flags, flags') => HandoverStep BY DEF Releases, HandoverStep
  <1>1. ASSUME NEW p \in Players, PlayerStep(p) PROVE HandoverStep
    <2>1. ASSUME NEW f \in Flags, Grab(p, f) PROVE HandoverStep
      <3>1. flags[f].owner = None BY <1>0, <2>1 DEF Grab, OnTank
      <3>2. \A g \in Flags \ {f} : flags'[g] = flags[g] BY <1>0, <2>1 DEF Grab
      <3>. QED BY <3>1, <3>2 DEF HandoverStep
    <2>2. ASSUME NEW v \in Players, NEW answer, Steal(p, v, answer) PROVE HandoverStep
      BY <2>2, StealHandsOver
    <2>3. CASE Quiet BY <1>r, <2>3 DEF Quiet
    <2>. QED BY <1>1, <2>1, <2>2, <2>3, PlayerReleases
  <1>2. ASSUME NEW p \in Players, RosterStep(p) PROVE HandoverStep
    BY <1>r, <1>2, RosterMoves DEF SideMove
  <1>3. CASE ServerStep
    <2>1. CASE EndMatch BY <1>0, <1>r, <2>1, ShedReleases DEF EndMatch, Drops
    <2>2. CASE Tick BY <1>r, <2>2, TickReleases DEF Tick, Airborne
    <2>3. ASSUME NEW S, ResetFlags(S) PROVE HandoverStep
      BY <1>0, <1>r, <2>3, ResetAllReleases DEF ResetFlags
    <2>4. CASE FlagUp BY <1>r, <2>4, FlagUpReleases
    <2>. QED BY <1>3, <2>1, <2>2, <2>3, <2>4 DEF ServerStep, FlagGive
  <1>4. ASSUME NEW p \in Players, NEW from, NEW to, GhostRespawn(p, from, to) PROVE HandoverStep
    BY <1>r, <1>4, GhostReleases DEF Quiet
  <1>5. CASE UNCHANGED vars BY <1>5
  <1>. QED BY <1>1, <1>2, <1>3, <1>4, <1>5 DEF Next

\* Unless an operator gives it away, a flag goes from one tank to another only
\* by a theft that costs the thief the flag it stole with, even if that flag is
\* fired out, or the stolen one is, by the very shot that stole it.
THEOREM HandoversSpendTheThief ==
  ASSUME ~OperatorGives
  PROVE  Spec => HandoverSpendsThief
<1>1. Custody /\ [Next]_vars => [HandoverStep]_vars BY NextHandsOver
<1>2. Spec => [][HandoverStep]_vars BY <1>1, CustodyAlways, PTL DEF Spec
<1>. QED BY <1>2 DEF HandoverSpendsThief, HandoverStep

\* Counting a shot touches no flag but the shooter's.
LEMMA CountFlagShotSpares ==
  ASSUME NEW fl \in [Flags -> FlagRecord], NEW p, NEW land, NEW f \in Flags, fl[f].owner # p
  PROVE  CountFlagShot(fl, p, land)[f] = fl[f]
  BY DEF CountFlagShot, Carried

\* Whatever only takes flags off tanks opens hands.
LEMMA ReleasesOpenHands ==
  ASSUME Releases(flags, flags')
  PROVE  HD!Next
  <1>. DEFINE S == {f \in Flags : flags'[f].owner # flags[f].owner}
  <1>1. \A f \in Flags : flags'[f].owner = IF f \in S THEN None ELSE flags[f].owner
    BY DEF Releases
  <1>2. S \in SUBSET Flags OBVIOUS
  <1>. HIDE DEF S
  <1>3. [f \in Flags |-> flags[f].owner]' = [f \in Flags |-> IF f \in S THEN None ELSE flags[f].owner]
    BY <1>1
  <1>. QED BY <1>2, <1>3 DEF HD!Next, HD!Release

\* A theft is a robbery in which the thief's hands let go of what they held, or
\* hands that open.
LEMMA StealRobs ==
  ASSUME Custody, NEW p \in Players, NEW v \in Players, NEW answer, Steal(p, v, answer)
  PROVE  HD!Next
  <1>0. flags \in [Flags -> FlagRecord] /\ OneEach(flags) BY CustodyTable
  <1>1. PICK given, land : Robbed(p, v, answer, given) /\ flags' = CountFlagShot(given, p, land)
    BY StealTable
  <1>2. given \in [Flags -> FlagRecord] /\ OnTank(given) BY <1>1 DEF Robbed
  <1>3. Releases(given, flags') BY <1>1, <1>2, CountFlagShotReleases
  <1>4. v # p BY DEF Steal
  <1>5. \A f \in Flags : ResetFlag(f, flags[f], empty).owner = None
    BY <1>0, ResetFlagReleases
  <1>6. \A r \in FlagRecord : [r EXCEPT !.owner = p, !.status = "ON_TANK"].owner = p
    BY DEF FlagRecord
  <1>7. \A f \in Flags : \/ /\ given[f].owner = flags[f].owner
                            /\ flags[f].owner = p => answer = "cancel"
                         \/ flags[f].owner = p /\ given[f].owner = None
                         \/ answer = "steal" /\ flags[f].owner = v /\ given[f].owner = p
    <2>. TAKE f \in Flags
    <2>1. flags[f] \in FlagRecord BY <1>0
    <2>2. CASE given[f] = flags[f] /\ (flags[f].owner = p => answer = "cancel") BY <2>2
    <2>3. CASE flags[f].owner = p /\ given[f] = ResetFlag(f, flags[f], empty) BY <1>5, <2>3
    <2>4. CASE /\ answer = "steal" /\ flags[f].owner = v
               /\ given[f] = [flags[f] EXCEPT !.owner = p, !.status = "ON_TANK"]
      BY <1>6, <2>1, <2>4
    <2>. QED BY <1>1, <2>2, <2>3, <2>4 DEF Robbed
  <1>8. ASSUME NEW f \in Flags, flags'[f].owner = p, flags[f].owner # p PROVE HD!Next
    <2>1. given[f].owner = p BY <1>3, <1>8, OwnersAssumption DEF Releases
    <2>2. answer = "steal" /\ flags[f].owner = v BY <1>7, <1>8, <2>1, OwnersAssumption
    <2>3. \A g \in Flags \ {f} : flags[g].owner # v
      BY <1>0, <2>2, OwnersAssumption DEF OneEach
    <2>4. \A g \in Flags \ {f} : given[g].owner = IF flags[g].owner = p THEN None ELSE flags[g].owner
      BY <1>7, <2>2, <2>3
    <2>5. \A g \in Flags \ {f} : flags'[g].owner = given[g].owner
      BY <1>1, <1>2, <2>4, CountFlagShotSpares, OwnersAssumption
    <2>6. \A g \in Flags : flags'[g].owner = IF g = f THEN p
                                             ELSE IF flags[g].owner = p THEN None
                                             ELSE flags[g].owner
      BY <1>8, <2>4, <2>5
    <2>7. ~HD!Empty(p) BY DEF Steal, CarriesType, HD!Empty, Flags
    <2>8. flags[f].owner \notin {None, p} BY <1>4, <2>2, OwnersAssumption
    <2>9. HD!Rob(p, f) BY <2>6, <2>7, <2>8 DEF HD!Rob, HD!Hands
    <2>. QED BY <2>9 DEF HD!Next
  <1>9. CASE \A f \in Flags : flags'[f].owner = p => flags[f].owner = p
    <2>1. \A f \in Flags : flags'[f].owner \in {None, flags[f].owner}
      BY <1>3, <1>7, <1>9 DEF Releases
    <2>2. Releases(flags, flags') BY <1>3, <2>1 DEF Releases
    <2>. QED BY <2>2, ReleasesOpenHands
  <1>. QED BY <1>8, <1>9

\* /flag give closes the player's hands on the flag, or only opens hands.
LEMMA GiveGives ==
  ASSUME Custody, NEW p \in Players, NEW f \in Flags, NEW land, FlagGive(p, f, land)
  PROVE  HD!Next
  <1>0. flags \in [Flags -> FlagRecord] /\ OneEach(flags) BY CustodyTable
  <1>1. PICK off :
          /\ Releases(flags, off) /\ off[f].owner = None /\ \A g \in Flags : off[g].owner # p
          /\ \A g \in Flags \ {f} : flags[g].owner # p => off[g] = flags[g]
          /\ flags' = IF p \in paused THEN off ELSE [off EXCEPT ![f] = GrabFlag(@, p)]
    BY GiveTable
  <1>2. CASE p \in paused BY <1>1, <1>2, ReleasesOpenHands
  <1>3. CASE p \notin paused
    <2>1. GrabFlag(off[f], p).owner = p BY <1>1 DEF Releases, GrabFlag, FlagRecord
    <2>2. \A g \in Flags : flags'[g].owner = IF g = f THEN p
                                             ELSE IF flags[g].owner = p THEN None
                                             ELSE flags[g].owner
      BY <1>1, <1>3, <2>1 DEF Releases
    <2>3. HD!Give(p, f) BY <2>2 DEF HD!Give, HD!Hands, FlagGive
    <2>. QED BY <2>3 DEF HD!Next
  <1>. QED BY <1>2, <1>3

\* Every step of the game is a step of hands, or leaves them as they are.
LEMMA NextIsHands ==
  ASSUME Custody, [Next]_vars
  PROVE  [HD!Next]_[f \in Flags |-> flags[f].owner]
  <1>0. flags \in [Flags -> FlagRecord] /\ OnTank(flags) BY CustodyTable
  <1>1. ASSUME NEW p \in Players, PlayerStep(p) PROVE HD!Next
    <2>1. ASSUME NEW f \in Flags, Grab(p, f) PROVE HD!Next
      <3>1. flags[f].owner = None BY <1>0, <2>1 DEF Grab, OnTank
      <3>2. \A g \in Flags : flags[g].owner # p BY <2>1 DEF Grab, Carries, Carried
      <3>3. GrabFlag(flags[f], p).owner = p BY <1>0 DEF GrabFlag, FlagRecord
      <3>4. \A g \in Flags : flags'[g].owner = IF g = f THEN p ELSE flags[g].owner
        BY <1>0, <2>1, <3>3 DEF Grab
      <3>5. HD!Take(p, f) BY <3>1, <3>2, <3>4 DEF HD!Take, HD!Empty, HD!Hands
      <3>. QED BY <3>5 DEF HD!Next
    <2>2. ASSUME NEW v \in Players, NEW answer, Steal(p, v, answer) PROVE HD!Next
      BY <2>2, StealRobs
    <2>3. CASE Quiet BY <2>3, ReleasesOpenHands DEF Quiet
    <2>. QED BY <1>1, <2>1, <2>2, <2>3, PlayerReleases
  <1>2. ASSUME NEW p \in Players, RosterStep(p) PROVE HD!Next
    BY <1>2, RosterMoves, ReleasesOpenHands DEF SideMove
  <1>3. CASE ServerStep
    <2>1. CASE EndMatch BY <1>0, <2>1, ShedReleases, ReleasesOpenHands DEF EndMatch, Drops
    <2>2. CASE Tick BY <2>2, TickReleases, ReleasesOpenHands DEF Tick, Airborne
    <2>3. ASSUME NEW S, ResetFlags(S) PROVE HD!Next
      BY <1>0, <2>3, ResetAllReleases, ReleasesOpenHands DEF ResetFlags
    <2>4. CASE FlagUp BY <2>4, FlagUpReleases, ReleasesOpenHands
    <2>5. ASSUME NEW p \in Players, NEW f \in Flags, NEW land, FlagGive(p, f, land) PROVE HD!Next
      BY <2>5, GiveGives
    <2>. QED BY <1>3, <2>1, <2>2, <2>3, <2>4, <2>5 DEF ServerStep
  <1>4. ASSUME NEW p \in Players, NEW from, NEW to, GhostRespawn(p, from, to) PROVE HD!Next
    BY <1>4, GhostReleases, ReleasesOpenHands DEF Quiet
  <1>5. CASE UNCHANGED vars BY <1>5 DEF vars
  <1>. QED BY <1>1, <1>2, <1>3, <1>4, <1>5 DEF Next

\* For every roster and every setting, /flag give included: what happens to the
\* flags is what FlagHands lets happen to things in hands.  No handler, timer
\* or tick makes two flags one, one flag two, or puts one into hands that are
\* not empty.
THEOREM GameIsHands == Spec => HD!Spec
<1>1. Init => HD!Init BY InitOwners DEF HD!Init
<1>2. Custody /\ [Next]_vars => [HD!Next]_[f \in Flags |-> flags[f].owner] BY NextIsHands
<1>. QED BY <1>1, <1>2, CustodyAlways, PTL DEF Spec, HD!Spec

\* Unless an operator gives them away, flags pass from hand to hand by thefts
\* only, each paid for with the flag it was done with.
THEOREM FlagsAreInHands ==
  ASSUME ~OperatorGives
  PROVE  Spec => FlagsPassHands
BY GameIsHands, HandoversSpendTheThief, PTL DEF FlagsPassHands

-----------------------------------------------------------------------------
(* The flags of the teams follow their teams.                               *)

\* Team t's flag is where it should be, if e are the teams with nobody on them
\* and to those whose abandoned flag is on the clock.
Follows(t, fl, e, to) ==
  IF t \in e THEN fl[t].status = "NO_EXIST" \/ fl[t].owner # None \/ t \in to
  ELSE fl[t].status # "NO_EXIST"

Following(fl, e, to) == \A t \in Teams : Follows(t, fl, e, to)

LEMMA FollowingIsProperty ==
  Following(flags, empty, timeouts \cup unclocked) => TeamFlagsFollowTeams
  BY DEF Following, Follows, TeamFlagsFollowTeams, EmptyTeamFlagLeaves, TeamFlagInWorld, Lying,
         empty, EmptyTeams

\* More clocks do no harm.
LEMMA MoreClocks ==
  ASSUME NEW t, NEW fl, NEW e, NEW to, NEW to2, to \subseteq to2, Follows(t, fl, e, to)
  PROVE  Follows(t, fl, e, to2)
  BY DEF Follows

\* A team flag that is dropped flies.
LEMMA DropTeamFlag ==
  ASSUME NEW t \in Teams, NEW r \in FlagRecord, NEW l, NEW e, r.owner # None, r.status = "ON_TANK"
  PROVE  /\ DropPlayerFlag(t, r, l, e) = DropFlag(t, r, l)
         /\ DropFlag(t, r, l).owner = None /\ DropFlag(t, r, l).status = "IN_AIR"
  BY Kinds DEF DropPlayerFlag, DropFlag, SendFlagDrop, FlagRecord

\* A flag that is dropped while its team has nobody starts the team's clock.
LEMMA ShedFollows ==
  ASSUME NEW fl \in [Flags -> FlagRecord], OnTank(fl), NEW t \in Teams, NEW e, NEW to,
         Follows(t, fl, e, to), NEW S, None \notin S, NEW land, NEW e2,
         NEW to2, to \cup Abandoned(fl, S, e) \subseteq to2
  PROVE  Follows(t, Shed(fl, S, land, e2), e, to2)
  <1>1. t \in Flags BY DEF Flags
  <1>2. CASE fl[t].owner \notin S BY <1>1, <1>2 DEF Shed, Follows
  <1>3. CASE fl[t].owner \in S
    <2>1. Shed(fl, S, land, e2)[t].status = "IN_AIR" BY <1>1, <1>3, DropTeamFlag DEF Shed, OnTank
    <2>2. t \in e => t \in Abandoned(fl, S, e) BY <1>3 DEF Abandoned
    <2>. QED BY <2>1, <2>2 DEF Follows
  <1>. QED BY <1>2, <1>3

LEMMA ThrowFollows ==
  ASSUME NEW fl \in [Flags -> FlagRecord], OnTank(fl), NEW t \in Teams, NEW e, NEW to,
         Follows(t, fl, e, to), NEW p \in Players, NEW land,
         NEW to2, to \cup Abandoned(fl, {p}, e) \subseteq to2
  PROVE  Follows(t, Throw(fl, p, land), e, to2)
  <1>1. t \in Flags BY DEF Flags
  <1>2. CASE fl[t].owner # p BY <1>1, <1>2 DEF Throw, Follows
  <1>3. CASE fl[t].owner = p
    <2>1. Throw(fl, p, land)[t].status = "IN_AIR"
      BY <1>1, <1>3, DropTeamFlag, OwnersAssumption DEF Throw, OnTank
    <2>2. t \in e => t \in Abandoned(fl, {p}, e) BY <1>3 DEF Abandoned
    <2>. QED BY <2>1, <2>2 DEF Follows
  <1>. QED BY <1>2, <1>3

\* A team flag sent home is in the world exactly if its team is.
LEMMA ResetTeamFlag ==
  ASSUME NEW t \in Teams, NEW r \in FlagRecord, NEW e
  PROVE  ResetFlag(t, r, e).status = IF t \in e THEN "NO_EXIST" ELSE "ON_GROUND"
  BY DEF ResetFlag, SendFlagDrop, FlagRecord

LEMMA ResetAllFollows ==
  ASSUME NEW fl \in [Flags -> FlagRecord], NEW t \in Teams, NEW e, NEW to,
         Follows(t, fl, e, to), NEW S
  PROVE  Follows(t, ResetAll(fl, S, e), e, to)
  <1>1. t \in Flags BY DEF Flags
  <1>. QED BY <1>1, ResetTeamFlag DEF ResetAll, Follows

\* Team flags have no limit to count.
LEMMA CountFlagShotFollows ==
  ASSUME NEW fl \in [Flags -> FlagRecord], NEW t \in Teams, fl[t].type = t, NEW p, NEW land
  PROVE  CountFlagShot(fl, p, land)[t] = fl[t]
  <1>1. t \in Flags BY DEF Flags
  <1>2. ~IsLimited(fl[t]) BY TypesAssumption DEF IsLimited
  <1>. QED BY <1>1, <1>2 DEF CountFlagShot

\* The first player on a team brings its flag back and the last one off a team
\* takes its flag away, whichever way the flag goes that the player gave up.
LEMMA MoveFollows ==
  ASSUME Custody, NEW p \in Players, NEW t, NEW shed \in [Flags -> FlagRecord], NEW alone, NEW to,
         OnTank(shed), Following(shed, empty, to), t \in empty => alone, Move(p, t, shed, alone)
  PROVE  Following(flags', empty', to \ (IF alone THEN {t} ELSE {}))
  <1>. DEFINE tm == [team EXCEPT ![p] = t]
              now == EmptyTeams(tm)
              back == IF alone /\ t \in Teams THEN ResetTeamFlags(shed, t, now) ELSE shed
              to2 == to \ (IF alone THEN {t} ELSE {})
  <1>0. /\ team' = tm /\ empty' = now
        /\ flags' = IF team[p] \in Teams \ {t} THEN RetireTeamFlags(back, team[p], tm, now) ELSE back
    BY DEF Move, empty, EmptyTeams
  <1>1. DOMAIN team = Players BY DEF Custody, Typed
  <1>2. t \notin now /\ team[p] \notin empty BY <1>1 DEF empty, EmptyTeams
  <1>3. \A u \in Teams \ {t, team[p]} : u \in now <=> u \in empty
    BY <1>1 DEF empty, EmptyTeams
  <1>4. back \in [Flags -> FlagRecord]
    BY ResetAllReleases DEF ResetTeamFlags, Releases
  <1>5. \A u \in Teams : u \in Flags BY DEF Flags
  <1>6. \A u \in Teams \ {t} : back[u] = shed[u]
    BY <1>5 DEF ResetTeamFlags, ResetAll
  <1>7. t \in Teams => back[t].status # "NO_EXIST"
    <2>. HAVE t \in Teams
    <2>1. CASE alone
      <3>1. shed[t] \in FlagRecord BY <1>5
      <3>2. ResetFlag(t, shed[t], now).status = "ON_GROUND" BY <1>2, <3>1, ResetTeamFlag
      <3>. QED BY <1>5, <2>1, <3>2 DEF ResetTeamFlags, ResetAll
    <2>2. CASE ~alone BY <2>2 DEF Following, Follows
    <2>. QED BY <2>1, <2>2
  <1>. HIDE DEF back, now
  <1>8. ASSUME NEW u \in Teams PROVE Follows(u, flags', now, to2)
    <2>1. CASE u = t
      <3>1. flags'[u] = back[u]
        BY <1>0, <1>5, <2>1 DEF RetireTeamFlags, ResetAll
      <3>. QED BY <1>2, <1>7, <2>1, <3>1 DEF Follows
    <2>2. CASE u # t /\ u = team[p]
      <3>1. back[u].status # "NO_EXIST" /\ back[u] \in FlagRecord
        BY <1>2, <1>4, <1>5, <1>6, <2>2 DEF Following, Follows
      <3>2. flags' = RetireTeamFlags(back, u, tm, now) BY <1>0, <2>2
      <3>3. CASE u \notin now
        <4>1. flags'[u] = back[u] BY <1>5, <3>2, <3>3 DEF RetireTeamFlags, ResetAll
        <4>. QED BY <3>1, <3>3, <4>1 DEF Follows
      <3>4. CASE u \in now /\ (back[u].owner = None \/ tm[back[u].owner] = u)
        <4>1. flags'[u] = ResetFlag(u, back[u], now)
          BY <1>5, <3>1, <3>2, <3>4 DEF RetireTeamFlags, ResetAll
        <4>. QED BY <3>1, <3>4, <4>1, ResetTeamFlag DEF Follows
      <3>5. CASE u \in now /\ ~(back[u].owner = None \/ tm[back[u].owner] = u)
        <4>1. flags'[u] = back[u] BY <1>5, <3>2, <3>5 DEF RetireTeamFlags, ResetAll
        <4>. QED BY <3>5, <4>1 DEF Follows
      <3>. QED BY <3>3, <3>4, <3>5
    <2>3. CASE u # t /\ u # team[p]
      <3>1. flags'[u] = back[u] BY <1>0, <1>5, <2>3 DEF RetireTeamFlags, ResetAll
      <3>. QED BY <1>3, <1>6, <2>3, <3>1 DEF Following, Follows
    <2>. QED BY <2>1, <2>2, <2>3
  <1>. QED BY <1>0, <1>8 DEF Following

\* A step that leaves the sides alone leaves the same teams empty.
LEMMA SameTeams == team' = team => empty' = empty
  BY DEF empty, EmptyTeams

LEMMA PlayerFollows ==
  ASSUME Custody, Sound(flags), NEW U, Following(flags, empty, timeouts \cup U), NEW p \in Players, PlayerStep(p)
  PROVE  Following(flags', empty', timeouts' \cup U)
  <1>0. flags \in [Flags -> FlagRecord] /\ OnTank(flags) /\ OneEach(flags)
    BY CustodyTable
  <1>00. None \notin alive /\ p # None BY OwnersAssumption DEF Custody, Typed
  <1>000. \A t \in Teams : t \in Flags /\ flags[t].type = t /\ Follows(t, flags, empty, timeouts \cup U)
    BY DEF Flags, Sound, Coherent, Following
  <1>d. ASSUME NEW S, NEW land, Drops(S, land), None \notin S, team' = team
        PROVE  Following(flags', empty', timeouts' \cup U)
    BY <1>0, <1>000, <1>d, ShedFollows, SameTeams DEF Drops, Following
  <1>t. ASSUME NEW land, Throws(p, land) PROVE Following(flags', empty', timeouts' \cup U)
    BY <1>0, <1>000, <1>t, ThrowFollows, SameTeams DEF Throws, Following
  <1>1. ASSUME NEW f \in Flags, Grab(p, f) PROVE Following(flags', empty', timeouts' \cup U)
    <2>1. flags' = [flags EXCEPT ![f] = GrabFlag(flags[f], p)] /\ UNCHANGED <<team, timeouts>>
      BY <1>1 DEF Grab
    <2>2. GrabFlag(flags[f], p).owner = p /\ GrabFlag(flags[f], p).status = "ON_TANK"
      BY <1>0 DEF GrabFlag, FlagRecord
    <2>. QED BY <1>0, <1>00, <1>000, <2>1, <2>2, SameTeams DEF Following, Follows
  <1>2. CASE Drop(p) BY <1>2, <1>t DEF Drop
  <1>3. CASE Antidote(p) BY <1>3, <1>t DEF Antidote
  <1>4. CASE NotResponding(p) BY <1>00, <1>4, <1>d DEF NotResponding
  <1>5. CASE Pause(p) BY <1>00, <1>5, <1>d DEF Pause
  <1>6. CASE PauseDrop(p) BY <1>00, <1>6, <1>d DEF PauseDrop
  <1>7. CASE Unpause(p) BY <1>000, <1>7, SameTeams DEF Unpause, Following
  <1>8. CASE Shoot(p)
    BY <1>0, <1>000, <1>8, CountFlagShotFollows, SameTeams DEF Shoot, Following, Follows
  <1>9. ASSUME NEW v \in Players, NEW answer, Steal(p, v, answer)
        PROVE  Following(flags', empty', timeouts' \cup U)
    <2>1. PICK given, land : Robbed(p, v, answer, given) /\ flags' = CountFlagShot(given, p, land)
      BY <1>9, StealTable
    <2>2. PICK g \in SuperSlots : flags[g].owner = p BY <1>9 DEF Steal, CarriesType
    <2>3. UNCHANGED <<team, timeouts>> BY <1>9 DEF Steal
    <2>4. ASSUME NEW t \in Teams
          PROVE  given[t].type = t /\ Follows(t, given, empty, timeouts \cup U)
      <3>1. flags[t].owner # p BY <1>0, <1>00, <1>000, <2>2, Kinds DEF OneEach
      <3>2. CASE given[t] = flags[t] BY <1>000, <3>2 DEF Follows
      <3>3. CASE flags[t].owner = v /\ given[t] = [flags[t] EXCEPT !.owner = p, !.status = "ON_TANK"]
        <4>1. flags[t] \in FlagRecord BY <1>0, <1>000
        <4>2. given[t].type = t /\ given[t].owner = p /\ given[t].status = "ON_TANK"
          BY <1>000, <3>3, <4>1 DEF FlagRecord
        <4>. QED BY <1>00, <4>2 DEF Follows
      <3>. QED BY <1>000, <2>1, <3>1, <3>2, <3>3 DEF Robbed
    <2>5. \A t \in Teams : flags'[t] = given[t]
      <3>1. given \in [Flags -> FlagRecord] BY <2>1 DEF Robbed
      <3>. QED BY <2>1, <2>4, <3>1, CountFlagShotFollows
    <2>. QED BY <2>3, <2>4, <2>5, SameTeams DEF Following, Follows
  <1>10. CASE ShieldHit(p) BY <1>00, <1>10, <1>d DEF ShieldHit
  <1>11. ASSUME NEW k \in Players \cup {None}, NEW genocide, NEW shake, Kill(p, k, genocide, shake)
         PROVE  Following(flags', empty', timeouts' \cup U)
    <2>1. PICK dead, land :
            /\ dead \subseteq alive \cup {p}
            /\ flags' = Shed(IF shake THEN Throw(flags, k, land) ELSE flags, dead, land, empty)
            /\ timeouts' = timeouts \cup Abandoned(flags, dead, empty)
      BY <1>11 DEF Kill
    <2>. DEFINE mid == IF shake THEN Throw(flags, k, land) ELSE flags
    \* The flag that is shaken off is the only one the killer has.
    <2>2. \A t \in Teams : mid[t] = flags[t]
      <3>. SUFFICES ASSUME shake, NEW t \in Teams PROVE Throw(flags, k, land)[t] = flags[t]
        OBVIOUS
      <3>1. PICK f \in Flags : flags[f].owner = k /\ IsSticky(flags[f])
        BY <1>11 DEF Kill, Carried
      <3>2. k # None BY <1>11 DEF Kill
      <3>3. f \notin Teams BY <1>000, <3>1, TypesAssumption DEF IsSticky
      <3>4. flags[t].owner # k BY <1>0, <1>000, <3>1, <3>2, <3>3 DEF OneEach
      <3>. QED BY <1>000, <3>4 DEF Throw
    <2>3. mid \in [Flags -> FlagRecord] /\ OnTank(mid)
      BY <1>0, ThrowReleases DEF Releases, OnTank
    <2>4. None \notin dead /\ team' = team BY <1>00, <1>11, <2>1 DEF Kill
    <2>5. flags' = Shed(mid, dead, land, empty) BY <2>1
    <2>. HIDE DEF mid
    <2>6. Abandoned(mid, dead, empty) = Abandoned(flags, dead, empty) BY <2>2 DEF Abandoned
    <2>7. \A t \in Teams : Follows(t, mid, empty, timeouts \cup U) BY <1>000, <2>2 DEF Follows
    <2>8. \A t \in Teams : Follows(t, flags', empty, timeouts' \cup U)
      BY <2>1, <2>3, <2>4, <2>5, <2>6, <2>7, ShedFollows
    <2>. QED BY <2>4, <2>8, SameTeams DEF Following
  <1>12. ASSUME NEW killTeam, Capture(p, killTeam) PROVE Following(flags', empty', timeouts' \cup U)
    <2>0. PICK t \in Teams : \E dead, land :
            /\ dead \subseteq alive
            /\ flags' = Shed(ResetAll(flags, {t}, empty), dead, land, empty)
            /\ timeouts' = timeouts \cup Abandoned(ResetAll(flags, {t}, empty), dead, empty)
            /\ team' = team
      BY <1>12 DEF Capture
    <2>. DEFINE home == ResetAll(flags, {t}, empty)
    <2>1. PICK dead, land :
            /\ dead \subseteq alive
            /\ flags' = Shed(home, dead, land, empty)
            /\ timeouts' = timeouts \cup Abandoned(home, dead, empty)
            /\ team' = team
      BY <2>0
    <2>2. \A u \in Teams : Follows(u, home, empty, timeouts \cup U) BY <1>0, <1>000, ResetAllFollows
    <2>3. home \in [Flags -> FlagRecord] /\ OnTank(home)
      BY <1>0, ResetAllReleases DEF Releases, OnTank
    <2>. HIDE DEF home
    <2>4. \A u \in Teams : Follows(u, flags', empty, timeouts' \cup U)
      BY <1>00, <2>1, <2>2, <2>3, ShedFollows
    <2>. QED BY <2>1, <2>4, SameTeams DEF Following
  <1>. QED BY <1>1, <1>2, <1>3, <1>4, <1>5, <1>6, <1>7, <1>8, <1>9, <1>10, <1>11, <1>12 DEF PlayerStep

LEMMA RosterFollows ==
  ASSUME Custody, NEW U, Following(flags, empty, timeouts \cup U), NEW p \in Players, RosterStep(p), ~JoinKicks
  PROVE  Following(flags', empty', timeouts' \cup U)
  <1>0. flags \in [Flags -> FlagRecord] /\ OnTank(flags) BY CustodyTable
  <1>00. p # None /\ DOMAIN team = Players BY OwnersAssumption DEF Custody, Typed
  <1>m. ASSUME NEW t, NEW leavers \in {{}, {p}}, NEW land, NEW alone, t \in empty => alone,
               Move(p, t, Shed(flags, leavers, land, empty), alone),
               timeouts' = (timeouts \cup Abandoned(flags, leavers, empty)) \ (IF alone THEN {t} ELSE {})
        PROVE  Following(flags', empty', timeouts' \cup U)
    <2>. DEFINE shed == Shed(flags, leavers, land, empty)
                to == (timeouts \cup U) \cup Abandoned(flags, leavers, empty)
                gone == IF alone THEN {t} ELSE {}
    <2>1. shed \in [Flags -> FlagRecord] /\ OnTank(shed)
      BY <1>0, ShedReleases DEF Releases, OnTank
    <2>2. None \notin leavers BY <1>00
    <2>3. Following(shed, empty, to) BY <1>0, <2>2, ShedFollows DEF Following
    <2>4. Move(p, t, shed, alone) /\ to \ gone \subseteq timeouts' \cup U BY <1>m
    <2>. HIDE DEF shed, to
    <2>5. Following(flags', empty', to \ gone) BY <1>m, <2>1, <2>3, <2>4, MoveFollows
    <2>. HIDE DEF gone
    <2>. QED BY <2>4, <2>5, MoreClocks DEF Following
  <1>1. ASSUME NEW t, NEW up, Join(p, t, up) PROVE Following(flags', empty', timeouts' \cup U)
    <2>. DEFINE leavers == IF Joined(p) /\ team[p] # t THEN {p} ELSE {}
    <2>1. PICK land : Move(p, t, Shed(flags, leavers, land, empty), Alone(p, t))
      BY <1>1 DEF Join
    <2>2. timeouts' = (timeouts \cup Abandoned(flags, leavers, empty)) \ (IF Alone(p, t) THEN {t} ELSE {})
      BY <1>1 DEF Join
    <2>3. t \in empty => Alone(p, t) BY DEF empty, EmptyTeams, Alone
    <2>4. leavers \in {{}, {p}} OBVIOUS
    <2>. HIDE DEF leavers
    <2>. QED BY <1>m, <2>1, <2>2, <2>3, <2>4
  <1>2. ASSUME NEW t, ChangeTeam(p, t) PROVE Following(flags', empty', timeouts' \cup U)
    <2>. DEFINE leavers == IF team[p] = t THEN {} ELSE {p}
                first == team[p] # t /\ t \in empty
    <2>1. PICK land : Move(p, t, Shed(flags, leavers, land, empty), first)
      BY <1>2 DEF ChangeTeam
    <2>2. timeouts' = (timeouts \cup Abandoned(flags, leavers, empty)) \ (IF first THEN {t} ELSE {})
      BY <1>2 DEF ChangeTeam
    <2>3. t \in empty => first BY DEF empty, EmptyTeams
    <2>4. leavers \in {{}, {p}} OBVIOUS
    <2>. HIDE DEF leavers, first
    <2>. QED BY <1>m, <2>1, <2>2, <2>3, <2>4
  <1>3. CASE Leave(p)
    <2>. DEFINE tm == [team EXCEPT ![p] = NoTeam]
                now == EmptyTeams(tm)
    <2>1. PICK land : flags' = IF team[p] \in Teams
                               THEN RetireTeamFlags(Shed(flags, {p}, land, now), team[p], tm, now)
                               ELSE Shed(flags, {p}, land, now)
      BY <1>3 DEF Leave
    <2>. DEFINE shed == Shed(flags, {p}, land, now)
    <2>2. empty' = now /\ timeouts' = timeouts \cup Abandoned(flags, {p}, now)
      BY <1>3 DEF Leave, empty, EmptyTeams
    <2>3. team[p] \notin empty /\ \A u \in Teams \ {team[p]} : u \in now <=> u \in empty
      <3>1. NoTeam \notin Teams BY TeamNamesAssumption
      <3>. QED BY <1>00, <3>1 DEF empty, EmptyTeams
    <2>4. flags' = IF team[p] \in Teams THEN RetireTeamFlags(shed, team[p], tm, now) ELSE shed
      BY <2>1
    <2>5. shed \in [Flags -> FlagRecord] /\ \A u \in Teams : u \in Flags
      BY <1>0, ShedReleases DEF Releases, Flags
    <2>. HIDE DEF now
    <2>6. ASSUME NEW u \in Teams \ {team[p]} PROVE Follows(u, flags', now, timeouts' \cup U)
      <3>1. Follows(u, flags, now, timeouts \cup U) BY <2>3 DEF Following, Follows
      <3>2. Follows(u, shed, now, timeouts' \cup U) BY <1>0, <1>00, <2>2, <3>1, ShedFollows
      <3>3. flags'[u] = shed[u] BY <2>4, <2>5, <2>6 DEF RetireTeamFlags, ResetAll
      <3>. QED BY <3>2, <3>3 DEF Follows
    <2>7. ASSUME team[p] \in Teams PROVE Follows(team[p], flags', now, timeouts' \cup U)
      <3>. DEFINE u == team[p]
      <3>1. Follows(u, shed, empty, (timeouts \cup U) \cup Abandoned(flags, {p}, empty))
        BY <1>0, <1>00, <2>7, ShedFollows DEF Following
      <3>2. shed[u].status # "NO_EXIST" /\ shed[u] \in FlagRecord /\ u \in Flags
        BY <2>3, <2>5, <2>7, <3>1 DEF Follows
      <3>3. flags' = RetireTeamFlags(shed, u, tm, now) BY <2>4, <2>7
      <3>. HIDE DEF shed
      <3>4. CASE u \notin now
        <4>1. flags'[u] = shed[u] BY <3>2, <3>3, <3>4 DEF RetireTeamFlags, ResetAll
        <4>. QED BY <3>2, <3>4, <4>1 DEF Follows
      <3>5. CASE u \in now /\ (shed[u].owner = None \/ tm[shed[u].owner] = u)
        <4>1. flags'[u] = ResetFlag(u, shed[u], now)
          BY <3>2, <3>3, <3>5 DEF RetireTeamFlags, ResetAll
        <4>. QED BY <2>7, <3>2, <3>5, <4>1, ResetTeamFlag DEF Follows
      <3>6. CASE u \in now /\ ~(shed[u].owner = None \/ tm[shed[u].owner] = u)
        <4>1. flags'[u] = shed[u] BY <3>2, <3>3, <3>6 DEF RetireTeamFlags, ResetAll
        <4>. QED BY <3>6, <4>1 DEF Follows
      <3>. QED BY <3>4, <3>5, <3>6
    <2>. QED BY <2>2, <2>6, <2>7 DEF Following
  <1>. QED BY <1>1, <1>2, <1>3 DEF RosterStep, Respawn, SetTeam, JoinKicked

LEMMA ServerFollows ==
  ASSUME Custody, NEW U, Following(flags, empty, timeouts \cup U), ServerStep, ~OperatorGives
  PROVE  Following(flags', empty', timeouts' \cup U)
  <1>0. flags \in [Flags -> FlagRecord] /\ OnTank(flags) BY CustodyTable
  <1>00. None \notin alive BY OwnersAssumption DEF Custody, Typed
  <1>000. \A t \in Teams : t \in Flags /\ t \notin SuperSlots /\ Follows(t, flags, empty, timeouts \cup U)
    BY Kinds DEF Flags, Following
  <1>1. CASE EndMatch
    BY <1>0, <1>00, <1>000, <1>1, ShedFollows, SameTeams DEF EndMatch, Drops, Following
  <1>2. ASSUME NEW due \in SUBSET Flags, NEW late \in SUBSET timeouts, NEW insert \in BOOLEAN,
               UpdateFlags(due, late, insert)
        PROVE  Following(flags', empty', timeouts' \cup U)
    <2>. DEFINE landed == Landed(flags, due)
                fl == Expired(landed, late)
    <2>1. UNCHANGED team /\ timeouts' = timeouts \ late /\ \A f \in due : flags[f].status \in Flying
      BY <1>2 DEF UpdateFlags
    <2>2. ASSUME NEW t \in Teams
          PROVE  Follows(t, landed, empty, timeouts \cup U) /\ landed[t] \in FlagRecord
      <3>1. flags[t] \in FlagRecord /\ Follows(t, flags, empty, timeouts \cup U) BY <1>0, <1>000
      <3>2. flags[t].owner # None => t \notin due BY <1>0, <1>000, <2>1 DEF OnTank, Flying
      <3>3. CASE t \notin due BY <1>000, <3>1, <3>3 DEF Landed, Follows
      <3>4. CASE t \in due /\ flags[t].status = "GOING"
        <4>1. landed[t] = ResetFlag(t, flags[t], empty) BY <1>000, <3>4 DEF Landed
        <4>2. landed[t] \in FlagRecord BY <1>000, <3>1, <4>1, ResetFlagReleases
        <4>3. landed[t].status = IF t \in empty THEN "NO_EXIST" ELSE "ON_GROUND"
          BY <3>1, <4>1, ResetTeamFlag
        <4>. QED BY <4>2, <4>3 DEF Follows
      <3>5. CASE t \in due /\ flags[t].status # "GOING"
        <4>1. landed[t] = [flags[t] EXCEPT !.status = "ON_GROUND"] BY <1>000, <3>5 DEF Landed
        <4>2. landed[t] \in FlagRecord /\ landed[t].status = "ON_GROUND"
          BY <3>1, <4>1 DEF FlagRecord, Statuses
        <4>3. flags[t].status # "NO_EXIST" BY <2>1, <3>5 DEF Flying
        <4>. QED BY <3>1, <3>2, <3>5, <4>2, <4>3 DEF Follows
      <3>. QED BY <3>3, <3>4, <3>5
    <2>. HIDE DEF landed
    <2>3. ASSUME NEW t \in Teams PROVE Follows(t, fl, empty, timeouts' \cup U)
      <3>1. CASE t \in late \cap empty /\ landed[t].status # "NO_EXIST" /\ landed[t].owner = None
        <4>1. fl[t] = ResetFlag(t, landed[t], empty) BY <1>000, <3>1 DEF Expired, ResetAll
        <4>. QED BY <2>2, <3>1, <4>1, ResetTeamFlag DEF Follows
      <3>2. CASE ~(t \in late \cap empty /\ landed[t].status # "NO_EXIST" /\ landed[t].owner = None)
        <4>1. fl[t] = landed[t] BY <1>000, <3>2 DEF Expired, ResetAll
        <4>. QED BY <2>1, <2>2, <3>2, <4>1 DEF Follows
      <3>. QED BY <3>1, <3>2
    <2>4. \A t \in Teams : flags'[t] = fl[t]
      <3>1. DOMAIN fl = Flags BY DEF Expired, ResetAll
      <3>. HIDE DEF fl
      <3>2. \/ flags' = fl
            \/ \E f \in SuperSlots : \E r : flags' = [fl EXCEPT ![f] = r]
        BY <1>2 DEF UpdateFlags, NextSlot, fl, landed
      <3>. QED BY <1>000, <3>1, <3>2
    <2>. HIDE DEF fl
    <2>. QED BY <2>1, <2>3, <2>4, SameTeams DEF Following, Follows
  <1>3. ASSUME NEW S, ResetFlags(S) PROVE Following(flags', empty', timeouts' \cup U)
    BY <1>0, <1>000, <1>3, ResetAllFollows, SameTeams DEF ResetFlags, Following
  <1>4. CASE FlagUp BY <1>000, <1>4, SameTeams DEF FlagUp, Following, Follows
  <1>. QED BY <1>1, <1>2, <1>3, <1>4 DEF ServerStep, Tick, Airborne, FlagGive

\* The change of team of a player who is not there leaves team `to` alone
\* without a clock, and every other team as it was or better.
LEMMA GhostFollows ==
  ASSUME Custody, NEW U, Following(flags, empty, timeouts \cup U), NEW p \in Players,
         NEW from, NEW to, GhostRespawn(p, from, to)
  PROVE  Following(flags', empty', timeouts' \cup (U \cup {to}))
  <1>0. flags \in [Flags -> FlagRecord] /\ OnTank(flags) /\ None \notin {p}
    BY CustodyTable, OwnersAssumption
  <1>. DEFINE Arrive(fl) == IF to \in empty THEN ResetTeamFlags(fl, to, empty) ELSE fl
              Retire(fl) == IF from \in Teams THEN RetireTeamFlags(fl, from, team, empty) ELSE fl
  <1>1. PICK land : flags' = Retire(Arrive(Shed(flags, {p}, land, empty)))
    BY DEF GhostRespawn
  <1>2. empty' = empty BY SameTeams DEF GhostRespawn
  <1>. DEFINE shed == Shed(flags, {p}, land, empty)
              back == Arrive(shed)
              K == timeouts' \cup (U \cup {to})
  <1>3. shed \in [Flags -> FlagRecord] /\ \A t \in Teams : Follows(t, shed, empty, K)
    <2>1. (timeouts \cup U) \cup Abandoned(flags, {p}, empty) \subseteq K BY DEF GhostRespawn
    <2>. HIDE DEF K
    <2>. QED BY <1>0, <2>1, ShedFollows, ShedReleases DEF Following, Releases
  <1>4. flags' = Retire(back) BY <1>1
  <1>. HIDE DEF shed, K
  <1>5. back \in [Flags -> FlagRecord] /\ \A t \in Teams : Follows(t, back, empty, K)
    <2>1. CASE to \notin empty BY <1>3, <2>1
    <2>2. CASE to \in empty
      <3>1. \A f \in Flags : ResetFlag(f, shed[f], empty) \in FlagRecord BY <1>3, ResetFlagReleases
      <3>2. back = ResetAll(shed, {f \in {to} : shed[f].status = "NO_EXIST"}, empty)
        BY <2>2 DEF ResetTeamFlags
      <3>3. back \in [Flags -> FlagRecord] BY <1>3, <3>1, <3>2 DEF ResetAll
      <3>4. \A t \in Teams : Follows(t, back, empty, K)
        <4>. HIDE DEF back
        <4>. QED BY <1>3, <3>2, ResetAllFollows
      <3>. QED BY <3>3, <3>4
    <2>. QED BY <2>1, <2>2
  <1>. HIDE DEF back
  <1>6. \A t \in Teams : Follows(t, flags', empty, K)
    BY <1>4, <1>5, ResetAllFollows DEF RetireTeamFlags
  <1>. QED BY <1>2, <1>6 DEF Following, K

\* What is on no clock and lies about is remembered, if a ghost stopped the
\* clock.
LEMMA StoppedClocks ==
  ASSUME NEW stopped, Following(flags', empty', timeouts' \cup (unclocked \cup stopped)),
         unclocked' = (unclocked \cup stopped) \cap Lying'
  PROVE  Following(flags, empty, timeouts \cup unclocked)'
  BY DEF Following, Follows, Lying

\* Unless a plugin kicks a player out of its join or an operator gives flags
\* away, the flag of a team somebody plays for is in the world, and the flag of
\* a team nobody plays for is gone, carried, or on the clock that takes it out,
\* but for a clock that the death timer of a departed player has stopped.  No
\* other handler stops the clock of a flag that still lies about.
THEOREM TeamFlagsFollow ==
  ASSUME ~JoinKicks, ~OperatorGives
  PROVE  Spec => []TeamFlagsFollowTeams
<1>1. Init => Following(flags, empty, timeouts \cup unclocked)
  <2>1. ASSUME Init, NEW t \in Teams PROVE Follows(t, flags, empty, timeouts \cup unclocked)
    <3>1. t \in empty BY <2>1, TeamNamesAssumption DEF Init, empty, EmptyTeams
    <3>2. PICK y \in [Pool -> Types] :
            flags = [f \in Flags |->
                       CASE f \in Teams -> EmptySlot(f)
                         [] f \in Required -> AddFlag(EmptySlot(f), PinnedType[f])
                         [] f \in Pool -> AddFlag(EmptySlot(f), y[f])]
      BY <2>1 DEF Init
    <3>3. flags[t] = EmptySlot(t) BY <3>2, Kinds DEF Flags
    <3>. QED BY <3>1, <3>3 DEF EmptySlot, Follows
  <2>. QED BY <2>1 DEF Following
<1>2. Custody /\ Sound(flags) /\ Following(flags, empty, timeouts \cup unclocked) /\ [Next]_vars
        => Following(flags, empty, timeouts \cup unclocked)'
  <2>. SUFFICES ASSUME Custody, Sound(flags), Following(flags, empty, timeouts \cup unclocked), [Next]_vars
                PROVE  Following(flags, empty, timeouts \cup unclocked)'
    OBVIOUS
  <2>1. CASE UNCHANGED vars BY <2>1, SameTeams DEF vars, Following, Follows
  <2>2. ASSUME NEW p \in Players, PlayerStep(p) \/ RosterStep(p), NEW left, Behind(left, {})
        PROVE  Following(flags, empty, timeouts \cup unclocked)'
    <3>1. Following(flags', empty', timeouts' \cup unclocked) BY <2>2, PlayerFollows, RosterFollows
    <3>2. unclocked \cup {} = unclocked OBVIOUS
    <3>. QED BY <2>2, <3>1, <3>2, StoppedClocks DEF Behind
  <2>3. ASSUME ServerStep, Behind({}, {})
        PROVE  Following(flags, empty, timeouts \cup unclocked)'
    <3>1. Following(flags', empty', timeouts' \cup unclocked) BY <2>3, ServerFollows
    <3>2. unclocked \cup {} = unclocked OBVIOUS
    <3>. QED BY <2>3, <3>1, <3>2, StoppedClocks DEF Behind
  <2>4. ASSUME NEW p \in Players, NEW from, NEW to, GhostRespawn(p, from, to), Behind({}, {to})
        PROVE  Following(flags, empty, timeouts \cup unclocked)'
    BY <2>4, GhostFollows, StoppedClocks DEF Behind
  <2>. QED BY <2>1, <2>2, <2>3, <2>4 DEF Next
<1>3. Following(flags, empty, timeouts \cup unclocked) => TeamFlagsFollowTeams BY FollowingIsProperty
<1>. QED BY <1>1, <1>2, <1>3, SoundAlways, PTL DEF Spec

=============================================================================
