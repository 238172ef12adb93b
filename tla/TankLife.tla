------------------------------ MODULE TankLife ------------------------------
(***************************************************************************)
(* The life of a tank: joining, dying, the timers that bring it back, and  *)
(* the end and start of a match.  A connection of the model is a Player    *)
(* object of src/server.js; its number is its id in the players map, and   *)
(* is free for the next arrival once it leaves.  Timers outlive what they  *)
(* were set for: each action below that fires one makes the checks its     *)
(* callback makes, and no others.                                          *)
(*                                                                         *)
(* A BZFlag client is told its number as it says hello, and is a player    *)
(* once it has entered; until then the number is held for it.              *)
(*                                                                         *)
(* Left out: teams other than observer, flags (FlagGame), scores but the   *)
(* deaths a pause countdown reads, and bots.                               *)
(***************************************************************************)
EXTENDS Integers, FiniteSets

CONSTANTS
  Conns,       \* the connections, each used once
  Callsigns,   \* the names players ask for
  Verdicts,    \* what bz_eAllowSpawn may answer: "allow", "hold", "kick"; without
               \* "kick" nobody else kicks either
  Pausing,     \* players pause
  Natives,     \* the connections of BZFlag clients; the others are of browsers
  LateCloses,  \* the BZFlag clients whose socket closes apart from their player
  MaxTimers,   \* bound on the death timers pending for one tank
  MaxLosses    \* bound on the deaths a tank is charged with

ASSUME ConnsAssumption == IsFiniteSet(Conns)
ASSUME BoundsAssumption == MaxTimers \in Nat /\ MaxLosses \in Nat
ASSUME NativesAssumption == Natives \subseteq Conns /\ LateCloses \subseteq Natives
ASSUME VerdictsAssumption == Verdicts \subseteq {"allow", "hold", "kick"}

VARIABLES
  phase,       \* "new", "greeting" (a BZFlag client), "limbo", "joined", "gone"
  num,         \* playerNumber
  reserved,    \* reservedPlayerNumbers
  lingers,     \* BZFlag clients whose socket closes apart from their player
  name,        \* the callsign, or the number of a player who could not have it
  observing,   \* the connections on the observer team
  alive,
  spawned,     \* hasSpawned
  closing,     \* told to close by removeFromServer; its close event is to come
  deaths,      \* applyDeath's timers still pending
  retry,       \* spawnRetryTimer is set
  rejoin,      \* rejoinTimer is set
  rejoinList,  \* callsigns that left after playing and have to wait
  losses,
  countdown,   \* pauseTimer's startedLife, or None
  paused,
  gameOver

ids == <<num, reserved, lingers>>
person == <<phase, ids, name, observing, closing>>
life == <<alive, spawned>>
pause == <<countdown, paused>>
timers == <<deaths, retry, rejoin>>
vars == <<person, life, pause, timers, rejoinList, losses, gameOver>>

None == -1
players == {c \in Conns : phase[c] \in {"limbo", "joined"}}
Ids == 0 .. Cardinality(Conns)
Names == Callsigns \cup Ids

TypeOK ==
  /\ phase \in [Conns -> {"new", "greeting", "limbo", "joined", "gone"}]
  /\ num \in [Conns -> Ids] /\ reserved \subseteq Ids /\ lingers \subseteq Conns
  /\ name \in [Conns -> Names]
  /\ observing \subseteq Conns /\ alive \subseteq Conns /\ spawned \subseteq Conns
  /\ closing \subseteq Conns /\ retry \subseteq Conns /\ rejoin \subseteq Conns
  /\ paused \subseteq Conns
  /\ deaths \in [Conns -> Nat]
  /\ rejoinList \subseteq Names
  /\ losses \in [Conns -> Nat]
  /\ countdown \in [Conns -> Nat \cup {None}]
  /\ gameOver \in BOOLEAN

Init ==
  /\ phase = [c \in Conns |-> "new"]
  /\ num = [c \in Conns |-> 0] /\ reserved = {} /\ lingers = {} /\ name = [c \in Conns |-> 0]
  /\ observing = {} /\ alive = {} /\ spawned = {} /\ closing = {}
  /\ deaths = [c \in Conns |-> 0] /\ retry = {} /\ rejoin = {}
  /\ rejoinList = {} /\ losses = [c \in Conns |-> 0]
  /\ countdown = [c \in Conns |-> None] /\ paused = {}
  /\ gameOver = FALSE

-----------------------------------------------------------------------------
(* Coming back: spawnAllowed, bringBack and respawn. *)

BringBack_keepsPause(S, verdict) ==
  LET back == {c \in S : verdict[c] = "allow"}
      held == {c \in S : verdict[c] = "hold"}
  IN  /\ alive' = alive \cup back
      /\ spawned' = spawned \cup back
      /\ retry' = (retry \ S) \cup held
      /\ closing' = closing \cup {c \in S : verdict[c] = "kick"}
      /\ UNCHANGED pause

\* bringBack for each tank of S, with the answer bz_eAllowSpawn gives for it:
\* back, with its pause timers cleared; held, to be asked for again; or off.
BringBack(S, verdict) ==
  LET back == {c \in S : verdict[c] = "allow"}
      held == {c \in S : verdict[c] = "hold"}
  IN  /\ alive' = alive \cup back
      /\ spawned' = spawned \cup back
      /\ retry' = (retry \ S) \cup held
      /\ closing' = closing \cup {c \in S : verdict[c] = "kick"}
      /\ countdown' = [c \in Conns |-> IF c \in back THEN None ELSE countdown[c]]
      /\ paused' = paused \ back

\* The death timer of c: it looks c's id up, whoever has it now.
HasId(c) == \E d \in players : num[d] = num[c]
ComesBack_gameOver(c) == HasId(c) /\ c \notin observing \cup alive
ComesBack(c) == HasId(c) /\ ~gameOver /\ c \notin observing \cup alive

DeathTimer_unset(c) ==
  /\ deaths' = [deaths EXCEPT ![c] = @ - 1]
  /\ \E verdict \in [{c} -> Verdicts] : BringBack(IF ComesBack(c) THEN {c} ELSE {}, verdict)
  /\ UNCHANGED <<phase, ids, name, observing, rejoin, rejoinList, losses, gameOver>>
DeathTimer(c) ==
  /\ deaths[c] > 0
  /\ deaths' = [deaths EXCEPT ![c] = @ - 1]
  /\ \E verdict \in [{c} -> Verdicts] : BringBack(IF ComesBack(c) THEN {c} ELSE {}, verdict)
  /\ UNCHANGED <<phase, ids, name, observing, rejoin, rejoinList, losses, gameOver>>

\* The other two look the object up.
StillDead(c) == phase[c] = "joined" /\ c \notin alive /\ ~gameOver

RetryTimer(c) ==
  /\ c \in retry
  /\ IF StillDead(c) /\ c \notin observing
     THEN \E verdict \in [{c} -> Verdicts] : BringBack({c}, verdict)
     ELSE retry' = retry \ {c} /\ UNCHANGED <<life, closing, pause>>
  /\ UNCHANGED <<phase, ids, name, observing, deaths, rejoin, rejoinList, losses, gameOver>>

RejoinTimer(c) ==
  /\ c \in rejoin
  /\ name[c] \notin rejoinList
  /\ rejoin' = rejoin \ {c}
  /\ \E verdict \in [{c} -> Verdicts] : BringBack(IF StillDead(c) THEN {c} ELSE {}, verdict)
  /\ UNCHANGED <<phase, ids, name, observing, deaths, rejoinList, losses, gameOver>>

-----------------------------------------------------------------------------
(* Connections. *)

Lowest(taken) == CHOOSE n \in Ids \ taken : \A m \in Ids \ taken : n <= m

\* getNextPlayerNumber: the lowest that nobody in the game has or will have.
LowestFree == Lowest({num[c] : c \in players} \cup reserved)

\* acceptConnection, of a browser.
Connect(c) ==
  /\ phase[c] = "new" /\ c \notin Natives
  /\ phase' = [phase EXCEPT ![c] = "limbo"]
  /\ num' = [num EXCEPT ![c] = LowestFree]
  /\ UNCHANGED <<reserved, lingers, name, observing, closing, life, pause, timers, rejoinList, losses, gameOver>>

\* The hello to a BZFlag client names its number (reserveId).
Greet(c) ==
  /\ phase[c] = "new" /\ c \in Natives
  /\ phase' = [phase EXCEPT ![c] = "greeting"]
  /\ num' = [num EXCEPT ![c] = LowestFree]
  /\ reserved' = reserved \cup {LowestFree}
  /\ UNCHANGED <<lingers, name, observing, closing, life, pause, timers, rejoinList, losses, gameOver>>

\* seatNativeClient, once the list server has answered for it.  Where somebody
\* else has its number by then, which IdsDistinct is about, the model stops.
Enter(c) ==
  /\ phase[c] = "greeting" /\ \A d \in players : num[d] # num[c]
  /\ phase' = [phase EXCEPT ![c] = "limbo"]
  /\ reserved' = reserved \ {num[c]}
  /\ lingers' = lingers \cup ({c} \cap LateCloses)
  /\ UNCHANGED <<num, name, observing, closing, life, pause, timers, rejoinList, losses, gameOver>>

\* Its socket closes: the number is handed back (releaseId), and that of a
\* player who has left is by then perhaps held for somebody else.
HangsUp(c) ==
  /\ phase[c] = "greeting" \/ (phase[c] = "gone" /\ c \in lingers)
  /\ phase' = [phase EXCEPT ![c] = "gone"]
  /\ reserved' = reserved \ {num[c]} /\ lingers' = lingers \ {c}
  /\ UNCHANGED <<num, name, observing, closing, life, pause, timers, rejoinList, losses, gameOver>>

\* nameCheck: a name somebody else in the game has is not to be had.
NameFor(c, want) == IF \E d \in players \ {c} : phase[d] = "joined" /\ name[d] = want
                    THEN num[c] ELSE want

\* noteRejoinWait: on leaving, if it ever spawned.
NoteRejoinWait(c) ==
  IF c \in spawned \ observing THEN rejoinList \cup {name[c]} ELSE rejoinList

\* handleJoinGame, of an arrival or of a player who came back through the
\* entry dialog, which is upstream's leave and arrival unless all it changes
\* is whether the player observes.  A player alive who joins as an observer
\* is killed first.  A kick ends the handler there and then.
Join(c, o, want, answer) ==
  LET n == NameFor(c, want)
      again == phase[c] = "joined"
      sameName == again /\ n = name[c] /\ (c \in observing) # o
      list == IF again /\ ~sameName THEN NoteRejoinWait(c) ELSE rejoinList
      mayPlay == ~o /\ ~gameOver
      waits == mayPlay /\ n \in list
      asked == mayPlay /\ ~waits
      kicked == asked /\ answer = "kick"
      plays == asked /\ answer # "hold"
  IN  /\ c \in players
      /\ again /\ o /\ c \in alive => deaths[c] < MaxTimers
      /\ phase' = [phase EXCEPT ![c] = "joined"]
      /\ name' = [name EXCEPT ![c] = n]
      /\ observing' = IF o THEN observing \cup {c} ELSE observing \ {c}
      /\ rejoinList' = list
      /\ deaths' = IF again /\ o /\ c \in alive THEN [deaths EXCEPT ![c] = @ + 1] ELSE deaths
      /\ alive' = IF plays THEN alive \cup {c} ELSE alive \ {c}
      /\ retry' = IF ~asked THEN retry ELSE IF answer = "hold" THEN retry \cup {c} ELSE retry \ {c}
      /\ IF kicked
         THEN /\ closing' = closing \cup {c}
              /\ UNCHANGED <<spawned, rejoin, pause, losses>>
         ELSE /\ spawned' = IF plays THEN spawned \cup {c} ELSE spawned
              /\ rejoin' = IF waits THEN rejoin \cup {c} ELSE rejoin \ {c}
              /\ countdown' = [countdown EXCEPT ![c] = None]
              /\ paused' = paused \ {c}
              /\ losses' = [losses EXCEPT ![c] = 0]
              /\ UNCHANGED closing
      /\ UNCHANGED <<ids, gameOver>>

\* The same when the team asked for is not to be had: only the rejoin list
\* has been touched.
JoinRefused(c, o, want) ==
  /\ phase[c] = "joined"
  /\ NameFor(c, want) # name[c] \/ (c \in observing) = o
  /\ rejoinList' = NoteRejoinWait(c)
  /\ UNCHANGED <<person, life, pause, timers, losses, gameOver>>

\* removeFromServer: a kick, a ban, a poll, a join turned away.
Kick(c) ==
  /\ "kick" \in Verdicts /\ c \in players
  /\ closing' = closing \cup {c}
  /\ UNCHANGED <<phase, ids, name, observing, life, pause, timers, rejoinList, losses, gameOver>>

\* The close of a connection: the death timers and the retry stay set.
Leave(c) ==
  /\ c \in players
  /\ phase' = [phase EXCEPT ![c] = "gone"]
  /\ rejoinList' = IF phase[c] = "joined" THEN NoteRejoinWait(c) ELSE rejoinList
  /\ rejoin' = rejoin \ {c}
  /\ countdown' = [countdown EXCEPT ![c] = None]
  /\ UNCHANGED <<ids, name, observing, closing, life, paused, deaths, retry, losses, gameOver>>

\* rejoinWaitMs forgets a name whose _rejoinTime is up.
WaitOver(n) ==
  /\ n \in rejoinList
  /\ rejoinList' = rejoinList \ {n}
  /\ UNCHANGED <<person, life, pause, timers, losses, gameOver>>

-----------------------------------------------------------------------------
(* Deaths, and the match. *)

\* killPlayer, charged to the victim, or applyDeath alone: a capture's.
Die(c, charged) ==
  /\ c \in players \cap alive
  /\ deaths[c] < MaxTimers
  /\ charged => losses[c] < MaxLosses
  /\ alive' = alive \ {c}
  /\ deaths' = [deaths EXCEPT ![c] = @ + 1]
  /\ losses' = IF charged THEN [losses EXCEPT ![c] = @ + 1] ELSE losses
  /\ UNCHANGED <<person, spawned, pause, retry, rejoin, rejoinList, gameOver>>

EndsTheGame(dead, again) ==
  /\ ~gameOver
  /\ gameOver' = TRUE
  /\ alive' = alive \ dead
  /\ deaths' = [c \in Conns |-> deaths[c] + (IF c \in dead THEN 1 ELSE 0)
                                         + (IF c \in again THEN 1 ELSE 0)]
  /\ \A c \in Conns : deaths'[c] <= MaxTimers
  /\ UNCHANGED <<person, spawned, pause, retry, rejoin, rejoinList>>
OnField == players \cap (alive \ observing)

\* endMatch: every tank on the field dies.
EndMatch == EndsTheGame(OnField, {}) /\ UNCHANGED losses

\* killPlayer when the kill reaches a score limit: the match ends, and
\* everyone dies of it, before the victim itself is put to death.
LastKill(c) ==
  /\ c \in OnField /\ losses[c] < MaxLosses
  /\ EndsTheGame(OnField, {c})
  /\ losses' = [losses EXCEPT ![c] = @ + 1]

StartMatch_onlyLifts ==
  /\ losses' = [c \in Conns |-> IF c \in players THEN 0 ELSE losses[c]]
  /\ gameOver' = FALSE
  /\ UNCHANGED <<person, life, pause, timers, rejoinList>>

\* startMatch: whoever is dead comes back, then the hold is lifted.
StartMatch ==
  /\ \E verdict \in [players -> Verdicts] : BringBack(players \ (observing \cup alive), verdict)
  /\ losses' = [c \in Conns |-> IF c \in players THEN 0 ELSE losses[c]]
  /\ gameOver' = FALSE
  /\ UNCHANGED <<phase, ids, name, observing, deaths, rejoin, rejoinList>>

-----------------------------------------------------------------------------
(* Pausing. *)

\* requestPause: the countdown starts, is called off, or the pause ends.
RequestPause(c) ==
  /\ Pausing
  /\ c \in players \cap (alive \ observing)
  /\ IF c \in paused
     THEN paused' = paused \ {c} /\ UNCHANGED countdown
     ELSE /\ countdown' = [countdown EXCEPT ![c] = IF @ = None THEN losses[c] ELSE None]
          /\ UNCHANGED paused
  /\ UNCHANGED <<person, life, timers, rejoinList, losses, gameOver>>

\* The end of the countdown.  legal is getPauseRefusal's answer.
PauseTimer(c, legal) ==
  /\ countdown[c] # None
  /\ countdown' = [countdown EXCEPT ![c] = None]
  /\ paused' = IF HasId(c) /\ losses[c] = countdown[c] /\ c \in alive /\ legal
               THEN paused \cup {c} ELSE paused
  /\ UNCHANGED <<person, life, timers, rejoinList, losses, gameOver>>

-----------------------------------------------------------------------------
Joins(c) ==
  \E o \in BOOLEAN, want \in Callsigns :
    \/ \E answer \in Verdicts : Join(c, o, want, answer)
    \/ JoinRefused(c, o, want)
PersonStep(c) ==
  \/ Connect(c) \/ Greet(c) \/ Enter(c) \/ HangsUp(c) \/ Kick(c) \/ Leave(c)
  \/ Joins(c)
TankStep(c) ==
  \/ \E charged \in BOOLEAN : Die(c, charged)
  \/ LastKill(c)
  \/ RequestPause(c)
TimerStep(c) ==
  \/ DeathTimer(c) \/ RetryTimer(c) \/ RejoinTimer(c)
  \/ \E legal \in BOOLEAN : PauseTimer(c, legal)
MatchStep == EndMatch \/ StartMatch

Next ==
  \/ \E c \in Conns : PersonStep(c) \/ TankStep(c) \/ TimerStep(c)
  \/ \E n \in Names : WaitOver(n)
  \/ MatchStep

\* A timer that is set fires, a wait runs out, and a connection that was told
\* to close does; nobody has to play, leave, or start a match.  A retry that is
\* answered "hold" sets itself again, a step that changes nothing: fairness of
\* RetryTimer is also that a plugin does not hold a tank for ever.
Fairness ==
  /\ \A c \in Conns : /\ WF_vars(DeathTimer(c)) /\ WF_vars(RetryTimer(c)) /\ WF_vars(RejoinTimer(c))
                      /\ WF_vars(c \in closing /\ Leave(c))
  /\ \A n \in Names : WF_vars(WaitOver(n))

Spec == Init /\ [][Next]_vars
FairSpec == Spec /\ Fairness

-----------------------------------------------------------------------------
(* Properties. *)

\* No two players share an id, and none is given the one a BZFlag client was
\* promised in its hello: every timer, flag and message finds them by it.
Numbered == {c \in Conns : phase[c] \in {"greeting", "limbo", "joined"}}
IdsDistinct == \A c, d \in Numbered : num[c] = num[d] => c = d

\* Nobody is forgotten: a player who is dead while a match runs has a timer
\* that will ask for it again, or is on its way out.  Timers are consumed
\* during a game over and while observing, and cleared by joins; none of
\* that may leave a tank dead for good.
NobodyForgotten ==
  \A c \in Conns : phase[c] = "joined" /\ c \notin observing \cup alive /\ ~gameOver
                    => deaths[c] > 0 \/ c \in retry \cup rejoin \cup closing

\* "a tank that died into game over stays dead until the next /countdown"
\* (applyDeath): nothing is alive on the field between the matches.
GameOverHoldsField == gameOver => OnField = {}

\* An observer has no tank.
ObserverDead == players \cap observing \cap alive = {}

\* rejoinTimer's callback does not ask whether its player observes by now: no
\* observer ever has that timer set.
RejoinersPlay == rejoin \cap observing = {}

\* The field is in order whichever timer, join or match change comes last:
\* nobody is on it between matches or while observing, or will be put there,
\* and nobody on it is taken for somebody else.
FieldIsOrderly == IdsDistinct /\ GameOverHoldsField /\ ObserverDead /\ RejoinersPlay

\* "A tank that died and respawned inside those five seconds is a tank that
\* never asked to pause" (requestPause): a tank comes back with no countdown
\* running and playing, whichever way it comes back.
ComesBackPlaying ==
  [][\A c \in Conns : c \notin alive /\ c \in alive' /\ c \notin closing'
                      => c \notin paused' /\ countdown'[c] = None]_vars

\* A dead tank comes back, unless its player stops playing first or the
\* match ends, and unless the player never stops joining again: each join may
\* start another wait.
DeadComeBack ==
  \A c \in Conns : <>[][~Joins(c)]_vars
                    => (phase[c] = "joined" /\ c \notin observing \cup alive)
                         ~> (c \in alive \/ c \in observing \/ phase[c] = "gone" \/ gameOver)

\* What the code does not keep.

\* "players.has(victim.id)" (applyDeath) is the timer's check that its player
\* is still there: a player who has gone does not respawn.
GoneStayGone == [][\A c \in Conns : c \notin alive /\ c \in alive' => phase[c] # "gone"]_vars

\* "A connection that has not joined has no tank" (handleM), and "Nobody is
\* told about this player yet" (acceptConnection).
LimboHasNoTank == \A c \in alive : phase[c] # "limbo"
=============================================================================
