--------------------------- MODULE TankLife_proof ---------------------------
(***************************************************************************)
(* Nobody is forgotten, nobody plays between matches, an observer has no    *)
(* tank, and nobody comes back paused: for any connections, names, bounds   *)
(* and answers of the plugins.                                             *)
(***************************************************************************)
EXTENDS TankLife, FiniteSetTheorems, WellFoundedInduction, TLAPS

\* What a connection that has not arrived yet cannot have: it would bring it
\* along onto the field.
NewIsBlank == \A c \in Conns : phase[c] \in {"new", "greeting"} => c \notin alive /\ deaths[c] = 0

PhasesOK == phase \in [Conns -> {"new", "greeting", "limbo", "joined", "gone"}] /\ deaths \in [Conns -> Nat]

IInv == PhasesOK /\ NewIsBlank /\ NobodyForgotten /\ GameOverHoldsField /\ ObserverDead /\ RejoinersPlay

\* The parts of the state that the invariant reads.
watched == <<phase, observing, closing, alive, deaths, retry, rejoin, gameOver>>

\* Steps that change none of them keep it.
LEMMA Unwatched == ASSUME IInv, UNCHANGED watched PROVE IInv'
  BY DEF IInv, PhasesOK, NewIsBlank, NobodyForgotten, GameOverHoldsField, ObserverDead, RejoinersPlay, watched,
         OnField, players

\* What bringBack does to a set of tanks whose players are all told, held or
\* brought back: each is alive, waiting for the retry or on its way out, and
\* of the others nothing is lost.
LEMMA BroughtBack ==
  ASSUME NEW S, NEW verdict, \A c \in S : verdict[c] \in {"allow", "hold", "kick"},
         BringBack(S, verdict)
  PROVE  /\ \A c \in S : c \in alive' \cup retry' \cup closing'
         /\ alive \subseteq alive' /\ alive' \subseteq alive \cup S
         /\ closing \subseteq closing'
         /\ \A c \in retry : c \in retry' \/ c \in S
  BY DEF BringBack

LEMMA InitHolds == Init => IInv
  BY DEF Init, IInv, PhasesOK, NewIsBlank, NobodyForgotten, GameOverHoldsField, ObserverDead, RejoinersPlay,
         OnField, players

LEMMA PersonStepKeeps ==
  ASSUME IInv, NEW c \in Conns, PersonStep(c) PROVE IInv'
<1> USE DEF IInv, PhasesOK, NewIsBlank
<1>1. CASE Connect(c)
  BY <1>1 DEF Connect, life, pause, timers, NobodyForgotten, GameOverHoldsField, ObserverDead, RejoinersPlay, OnField, players
<1>2. CASE Greet(c)
  BY <1>2 DEF Greet, life, pause, timers, NobodyForgotten, GameOverHoldsField, ObserverDead, RejoinersPlay, OnField, players
<1>3. CASE Enter(c)
  BY <1>3 DEF Enter, life, pause, timers, NobodyForgotten, GameOverHoldsField, ObserverDead, RejoinersPlay, OnField, players
<1>4. CASE HangsUp(c)
  BY <1>4 DEF HangsUp, life, pause, timers, NobodyForgotten, GameOverHoldsField, ObserverDead, RejoinersPlay, OnField, players
<1>5. CASE Kick(c)
  BY <1>5 DEF Kick, life, pause, timers, NobodyForgotten, GameOverHoldsField, ObserverDead, RejoinersPlay, OnField, players
<1>6. CASE Leave(c)
  BY <1>6 DEF Leave, life, pause, timers, NobodyForgotten, GameOverHoldsField, ObserverDead, RejoinersPlay, OnField, players
<1>7. ASSUME NEW o \in BOOLEAN, NEW want \in Callsigns, NEW answer \in Verdicts, Join(c, o, want, answer)
      PROVE  IInv'
  <2> DEFINE n == NameFor(c, want)
             again == phase[c] = "joined"
             sameName == again /\ n = name[c] /\ (c \in observing) # o
             list == IF again /\ ~sameName THEN NoteRejoinWait(c) ELSE rejoinList
             mayPlay == ~o /\ ~gameOver
             waits == mayPlay /\ n \in list
             asked == mayPlay /\ ~waits
             kicked == asked /\ answer = "kick"
             plays == asked /\ answer # "hold"
  <2> HIDE DEF n, list
  <2>1. /\ c \in players
        /\ phase' = [phase EXCEPT ![c] = "joined"]
        /\ observing' = IF o THEN observing \cup {c} ELSE observing \ {c}
        /\ deaths' = IF again /\ o /\ c \in alive THEN [deaths EXCEPT ![c] = @ + 1] ELSE deaths
        /\ alive' = IF plays THEN alive \cup {c} ELSE alive \ {c}
        /\ retry' = IF ~asked THEN retry ELSE IF answer = "hold" THEN retry \cup {c} ELSE retry \ {c}
        /\ gameOver' = gameOver
    BY <1>7 DEF Join, n, list
  <2>2. IF kicked THEN closing' = closing \cup {c} /\ rejoin' = rejoin
        ELSE closing' = closing /\ rejoin' = IF waits THEN rejoin \cup {c} ELSE rejoin \ {c}
    BY <1>7 DEF Join, n, list
  <2>3. PhasesOK' /\ NewIsBlank'
    BY <2>1 DEF players
  <2>4. NobodyForgotten'
    BY <2>1, <2>2 DEF NobodyForgotten
  <2>5. GameOverHoldsField' /\ ObserverDead' /\ RejoinersPlay'
    BY <2>1, <2>2 DEF GameOverHoldsField, ObserverDead, RejoinersPlay, OnField, players
  <2>6. QED BY <2>3, <2>4, <2>5
<1>8. ASSUME NEW o \in BOOLEAN, NEW want \in Callsigns, JoinRefused(c, o, want)
      PROVE  IInv'
  BY <1>8, Unwatched DEF JoinRefused, person, life, timers, watched
<1>9. QED BY <1>1, <1>2, <1>3, <1>4, <1>5, <1>6, <1>7, <1>8 DEF PersonStep, Joins

LEMMA TankStepKeeps ==
  ASSUME IInv, NEW c \in Conns, TankStep(c) PROVE IInv'
<1>1. ASSUME NEW charged \in BOOLEAN, Die(c, charged) PROVE IInv'
  BY <1>1 DEF Die, person, IInv, PhasesOK, NewIsBlank, NobodyForgotten, GameOverHoldsField, ObserverDead, RejoinersPlay, OnField, players
<1>2. ASSUME NEW again \in SUBSET players, EndsTheGame(OnField, again) PROVE IInv'
  BY <1>2 DEF EndsTheGame, person, IInv, PhasesOK, NewIsBlank, NobodyForgotten, GameOverHoldsField, ObserverDead, RejoinersPlay, OnField, players
<1>3. CASE LastKill(c)
  BY <1>3, <1>2 DEF LastKill, OnField
<1>4. CASE RequestPause(c)
  BY <1>4, Unwatched DEF RequestPause, person, life, timers, watched
<1>5. QED BY <1>1, <1>3, <1>4 DEF TankStep

\* The one lemma the timers share: a timer of c is consumed, and c is brought
\* back if it passes the callback's test; a tank that fails it does not need
\* the timer.
LEMMA TimerKeeps ==
  ASSUME IInv, NEW c \in Conns, NEW S \in SUBSET {c}, NEW verdict \in [{c} -> Verdicts],
         BringBack(S, verdict),
         c \in S => phase[c] \notin {"new", "greeting"} /\ ~gameOver /\ c \notin observing,
         c \notin S => phase[c] # "joined" \/ gameOver \/ c \in observing \/ c \in alive,
         UNCHANGED <<phase, observing, gameOver>>,
         deaths' \in [Conns -> Nat],
         \A d \in Conns \ {c} : deaths'[d] = deaths[d] /\ (d \in rejoin => d \in rejoin'),
         rejoin' \subseteq rejoin,
         phase[c] \in {"new", "greeting"} => deaths'[c] = 0
  PROVE  IInv'
<1>1. /\ \A d \in S : d \in alive' \cup retry' \cup closing'
      /\ alive \subseteq alive' /\ alive' \subseteq alive \cup S
      /\ closing \subseteq closing'
      /\ \A d \in retry : d \in retry' \/ d \in S
  BY BroughtBack, VerdictsAssumption
<1>2. PhasesOK' /\ NewIsBlank'
  BY <1>1 DEF IInv, PhasesOK, NewIsBlank
<1>3. NobodyForgotten'
  BY <1>1 DEF IInv, PhasesOK, NobodyForgotten
<1>4. GameOverHoldsField' /\ ObserverDead' /\ RejoinersPlay'
  BY <1>1 DEF IInv, GameOverHoldsField, ObserverDead, RejoinersPlay, OnField, players
<1>5. QED BY <1>2, <1>3, <1>4 DEF IInv

LEMMA TimerStepKeeps ==
  ASSUME IInv, NEW c \in Conns, TimerStep(c) PROVE IInv'
<1>1. CASE DeathTimer(c)
  <2> DEFINE S == IF ComesBack(c) THEN {c} ELSE {}
  <2>1. PICK verdict \in [{c} -> Verdicts] : BringBack(S, verdict)
    BY <1>1 DEF DeathTimer
  <2>2. deaths[c] > 0 /\ deaths' = [deaths EXCEPT ![c] = @ - 1] /\ UNCHANGED <<phase, observing, gameOver, rejoin>>
    BY <1>1 DEF DeathTimer
  <2>3. deaths[c] \in Nat /\ phase[c] \notin {"new", "greeting"}
    BY <2>2 DEF IInv, PhasesOK, NewIsBlank
  <2>4. phase[c] = "joined" => HasId(c)
    BY DEF HasId, players
  <2>5. c \in S => ~gameOver /\ c \notin observing
    BY DEF ComesBack
  <2>6. c \notin S => phase[c] # "joined" \/ gameOver \/ c \in observing \/ c \in alive
    BY <2>4 DEF ComesBack
  <2>7. deaths' \in [Conns -> Nat] /\ \A d \in Conns \ {c} : deaths'[d] = deaths[d]
    BY <2>2, <2>3 DEF IInv, PhasesOK
  <2> HIDE DEF S
  <2>8. S \in SUBSET {c}
    BY DEF S
  <2>9. QED BY <2>1, <2>2, <2>3, <2>5, <2>6, <2>7, <2>8, TimerKeeps
<1>2. CASE RetryTimer(c)
  <2>1. UNCHANGED <<phase, observing, gameOver, deaths, rejoin>>
    BY <1>2 DEF RetryTimer
  <2>2. CASE StillDead(c) /\ c \notin observing
    <3>1. PICK verdict \in [{c} -> Verdicts] : BringBack({c}, verdict)
      BY <1>2, <2>2 DEF RetryTimer
    <3>2. deaths' \in [Conns -> Nat]
      BY <2>1 DEF IInv, PhasesOK
    <3>3. QED BY <2>1, <2>2, <3>1, <3>2, TimerKeeps DEF StillDead
  <2>3. CASE ~(StillDead(c) /\ c \notin observing)
    <3>1. retry' = retry \ {c} /\ UNCHANGED <<alive, closing>>
      BY <1>2, <2>3 DEF RetryTimer, life
    <3>2. QED BY <2>1, <2>3, <3>1 DEF StillDead, IInv, PhasesOK, NewIsBlank, NobodyForgotten,
                 GameOverHoldsField, ObserverDead, RejoinersPlay, OnField, players
  <2>4. QED BY <2>2, <2>3
<1>3. CASE RejoinTimer(c)
  <2> DEFINE S == IF StillDead(c) THEN {c} ELSE {}
  <2>1. PICK verdict \in [{c} -> Verdicts] : BringBack(S, verdict)
    BY <1>3 DEF RejoinTimer
  <2>2. /\ c \in rejoin /\ rejoin' = rejoin \ {c}
        /\ UNCHANGED <<phase, observing, gameOver, deaths>>
    BY <1>3 DEF RejoinTimer
  <2>3. c \notin observing
    BY <2>2 DEF IInv, RejoinersPlay
  <2>4. /\ c \in S => phase[c] \notin {"new", "greeting"} /\ ~gameOver
        /\ c \notin S => phase[c] # "joined" \/ gameOver \/ c \in alive
        /\ S \in SUBSET {c}
    BY DEF StillDead
  <2>5. deaths' \in [Conns -> Nat] /\ (phase[c] \in {"new", "greeting"} => deaths'[c] = 0)
    BY <2>2 DEF IInv, PhasesOK, NewIsBlank
  <2> HIDE DEF S
  <2>6. QED BY <2>1, <2>2, <2>3, <2>4, <2>5, TimerKeeps
<1>4. ASSUME NEW legal \in BOOLEAN, PauseTimer(c, legal) PROVE IInv'
  BY <1>4, Unwatched DEF PauseTimer, person, life, timers, watched
<1>5. QED BY <1>1, <1>2, <1>3, <1>4 DEF TimerStep

LEMMA MatchStepKeeps ==
  ASSUME IInv, MatchStep PROVE IInv'
<1>1. CASE EndMatch
  BY <1>1 DEF EndMatch, EndsTheGame, person, IInv, PhasesOK, NewIsBlank, NobodyForgotten,
     GameOverHoldsField, ObserverDead, RejoinersPlay, OnField, players
<1>2. CASE StartMatch
  <2> DEFINE S == players \ (observing \cup alive)
  <2>1. PICK verdict \in [players -> Verdicts] : BringBack(S, verdict)
    BY <1>2 DEF StartMatch
  <2>2. UNCHANGED <<phase, observing, deaths, rejoin>> /\ gameOver' = FALSE
    BY <1>2 DEF StartMatch
  <2>3. /\ \A c \in S : c \in alive' \cup retry' \cup closing'
        /\ alive \subseteq alive' /\ alive' \subseteq alive \cup S
        /\ closing \subseteq closing'
    BY <2>1, BroughtBack, VerdictsAssumption
  <2>4. PhasesOK' /\ NewIsBlank'
    BY <2>2, <2>3 DEF IInv, PhasesOK, NewIsBlank, players
  <2>5. NobodyForgotten'
    BY <2>2, <2>3 DEF NobodyForgotten, players
  <2>6. GameOverHoldsField' /\ ObserverDead' /\ RejoinersPlay'
    BY <2>2, <2>3 DEF IInv, GameOverHoldsField, ObserverDead, RejoinersPlay, players
  <2>7. QED BY <2>4, <2>5, <2>6 DEF IInv
<1>3. QED BY <1>1, <1>2 DEF MatchStep

LEMMA StepKeeps == IInv /\ [Next]_vars => IInv'
<1>1. ASSUME IInv, Next PROVE IInv'
  <2>1. ASSUME NEW n \in Names, WaitOver(n) PROVE IInv'
    BY <1>1, <2>1, Unwatched DEF WaitOver, person, life, timers, watched
  <2>2. QED BY <1>1, <2>1, PersonStepKeeps, TankStepKeeps, TimerStepKeeps, MatchStepKeeps DEF Next
<1>2. ASSUME IInv, UNCHANGED vars PROVE IInv'
  BY <1>2, Unwatched DEF vars, person, life, timers, watched
<1>3. QED BY <1>1, <1>2

\* There is always a number free, and with it a lowest: fewer numbers are taken
\* than there are connections.
LEMMA LowestIsFree ==
  ASSUME NEW S \in SUBSET Conns, NEW f \in [S -> Ids], NEW taken, taken = {f[c] : c \in S}
  PROVE  Lowest(taken) \in Ids \ taken
<1> DEFINE free == Ids \ taken
<1>1. IsFiniteSet(S) /\ Cardinality(S) <= Cardinality(Conns)
  BY ConnsAssumption, FS_Subset
<1>2. Cardinality(Conns) \in Nat
  BY ConnsAssumption, FS_CardinalityType
<1>3. IsFiniteSet(taken) /\ Cardinality(taken) <= Cardinality(S)
  <2>1. f \in Surjection(S, taken)
    BY DEF Surjection
  <2>2. QED BY <2>1, <1>1, FS_Surjection
<1>4. Cardinality(Ids) = Cardinality(Conns) + 1
  BY <1>2, FS_Interval DEF Ids
<1>5. free # {}
  <2>1. SUFFICES ASSUME Ids \in SUBSET taken PROVE FALSE
    OBVIOUS
  <2>2. Cardinality(Ids) <= Cardinality(taken)
    BY <2>1, <1>3, FS_Subset
  <2>3. Cardinality(taken) \in Nat /\ Cardinality(S) \in Nat
    BY <1>1, <1>3, FS_CardinalityType
  <2>4. QED BY <2>2, <2>3, <1>1, <1>2, <1>3, <1>4
<1>6. PICK n \in free : \A m \in free : ~(m < n)
  <2>1. free \subseteq Nat
    BY <1>2 DEF Ids
  <2> HIDE DEF free
  <2>2. PICK n \in free : \A m \in free : ~(<<m, n>> \in OpToRel(<, Nat))
    BY <2>1, <1>5, WFMin, NatLessThanWellFounded
  <2>3. QED BY <2>1, <2>2 DEF OpToRel
<1>7. \A m \in free : n <= m
  BY <1>2, <1>6 DEF Ids
<1>8. QED BY <1>6, <1>7 DEF Lowest

\* Without late closes the numbers held are those of the clients in their
\* handshake, and no two connections have the same.
ReservedOK == reserved = {num[c] : c \in {d \in Conns : phase[d] = "greeting"}} /\ lingers = {}

NumsOK == PhasesOK /\ num \in [Conns -> Ids] /\ ReservedOK /\ IdsDistinct

LEMMA TheLowestIsFree ==
  ASSUME NumsOK PROVE LowestFree \in Ids /\ \A c \in Numbered : num[c] # LowestFree
<1> DEFINE taken == {num[c] : c \in players} \cup reserved
           f == [c \in Numbered |-> num[c]]
<1>1. Numbered \in SUBSET Conns /\ f \in [Numbered -> Ids]
  BY DEF NumsOK, Numbered
<1>2. taken = {f[c] : c \in Numbered}
  BY DEF NumsOK, ReservedOK, Numbered, players
<1>3. \A c \in Numbered : num[c] \in taken
  BY <1>2
<1> HIDE DEF f
<1>4. Lowest(taken) \in Ids \ taken
  BY <1>1, <1>2, LowestIsFree
<1>5. QED BY <1>3, <1>4 DEF LowestFree

\* Numbers are given at two places only, and nobody comes back who has left.
LEMMA NumsKeep == ASSUME LateCloses = {}, NumsOK, IInv', [Next]_vars PROVE NumsOK'
<1> USE DEF NumsOK, ReservedOK, IdsDistinct, Numbered
<1> PhasesOK'
  BY DEF IInv
<1>1. ASSUME UNCHANGED <<ids, phase>> PROVE NumsOK'
  BY <1>1 DEF ids
<1>2. ASSUME NEW c \in Conns, PersonStep(c) PROVE NumsOK'
  <2>1. LowestFree \in Ids /\ \A d \in Numbered : num[d] # LowestFree
    BY TheLowestIsFree
  <2>2. CASE Connect(c)
    <3> HIDE DEF Numbered
    <3>1. /\ num' = [num EXCEPT ![c] = LowestFree] /\ UNCHANGED <<reserved, lingers>>
          /\ phase' = [phase EXCEPT ![c] = "limbo"] /\ phase[c] = "new"
      BY <2>2 DEF Connect
    <3>2. c \notin Numbered /\ Numbered' = Numbered \cup {c}
      BY <3>1 DEF Numbered, PhasesOK
    <3>3. num' \in [Conns -> Ids] /\ IdsDistinct'
      BY <2>1, <3>1, <3>2 DEF Numbered
    <3>4. ReservedOK'
      BY <3>1 DEF PhasesOK
    <3>5. QED BY <3>3, <3>4
  <2>3. CASE Greet(c)
    <3> HIDE DEF Numbered
    <3>1. /\ num' = [num EXCEPT ![c] = LowestFree] /\ UNCHANGED lingers
          /\ reserved' = reserved \cup {LowestFree}
          /\ phase' = [phase EXCEPT ![c] = "greeting"] /\ phase[c] = "new"
      BY <2>3 DEF Greet
    <3>2. c \notin Numbered /\ Numbered' = Numbered \cup {c}
      BY <3>1 DEF Numbered, PhasesOK
    <3>3. num' \in [Conns -> Ids] /\ IdsDistinct'
      BY <2>1, <3>1, <3>2 DEF Numbered
    <3>4. ReservedOK'
      BY <3>1 DEF PhasesOK
    <3>5. QED BY <3>3, <3>4
  <2>4. CASE Enter(c)
    BY <2>4 DEF Enter, PhasesOK
  <2>5. CASE HangsUp(c)
    BY <2>5 DEF HangsUp, PhasesOK
  <2>6. CASE Kick(c)
    BY <1>1, <2>6 DEF Kick
  <2>7. CASE Leave(c)
    BY <2>7 DEF Leave, ids, players, PhasesOK
  <2>8. ASSUME NEW o \in BOOLEAN, NEW want \in Callsigns, NEW answer \in Verdicts, Join(c, o, want, answer)
        PROVE  NumsOK'
    <3>1. UNCHANGED ids /\ phase' = [phase EXCEPT ![c] = "joined"] /\ c \in players
      BY <2>8 DEF Join
    <3>2. QED BY <3>1 DEF ids, players, PhasesOK
  <2>9. ASSUME NEW o \in BOOLEAN, NEW want \in Callsigns, JoinRefused(c, o, want)
        PROVE  NumsOK'
    BY <1>1, <2>9 DEF JoinRefused, person
  <2>10. QED BY <1>2, <2>2, <2>3, <2>4, <2>5, <2>6, <2>7, <2>8, <2>9 DEF PersonStep, Joins
<1>3. ASSUME NEW c \in Conns, TankStep(c) PROVE NumsOK'
  BY <1>1, <1>3 DEF TankStep, Die, LastKill, EndsTheGame, RequestPause, person
<1>4. ASSUME NEW c \in Conns, TimerStep(c) PROVE NumsOK'
  BY <1>1, <1>4 DEF TimerStep, DeathTimer, RetryTimer, RejoinTimer, PauseTimer, person
<1>5. CASE MatchStep
  BY <1>1, <1>5 DEF MatchStep, EndMatch, StartMatch, EndsTheGame, person
<1>6. ASSUME NEW n \in Names, WaitOver(n) PROVE NumsOK'
  BY <1>1, <1>6 DEF WaitOver, person
<1>7. CASE UNCHANGED vars
  BY <1>1, <1>7 DEF vars, person
<1>8. QED BY <1>2, <1>3, <1>4, <1>5, <1>6, <1>7 DEF Next

\* A player who is dead while a match runs always has a timer that will ask
\* for it again, or is being disconnected: whatever order deaths, joins,
\* refusals, kicks, timers and matches come in (applyDeath, spawnAllowed,
\* handleJoinGame, startMatch).
THEOREM NobodyIsForgotten == Spec => []NobodyForgotten
<1>1. IInv => NobodyForgotten
  BY DEF IInv
<1>2. QED BY <1>1, InitHolds, StepKeeps, PTL DEF Spec

\* Between the end of one match and the start of the next nothing is alive on
\* the field, whichever timer or join comes then; observers have no tank; and
\* no two players share an id, nor is the id of a BZFlag client in its
\* handshake given away, as long as no socket hands an id back that its player
\* has left behind.
THEOREM FieldIsHeld == ASSUME LateCloses = {} PROVE Spec => []FieldIsOrderly
<1>1. IInv /\ NumsOK => FieldIsOrderly
  BY DEF IInv, NumsOK, FieldIsOrderly
<1>2. Init => NumsOK
  BY ConnsAssumption, FS_CardinalityType, InitHolds DEF Init, IInv, NumsOK, ReservedOK, IdsDistinct, Numbered, Ids
<1>3. NumsOK /\ IInv /\ [Next]_vars => NumsOK' /\ IInv'
  BY StepKeeps, NumsKeep
<1>4. QED BY <1>1, <1>2, <1>3, InitHolds, PTL DEF Spec

-----------------------------------------------------------------------------
(* The types, and the way back of a tank. *)

\* Whoever hands back what: a number is only held for a client in its
\* handshake, so that no more numbers are taken than there are connections.
HeldForSomebody == reserved \subseteq {num[c] : c \in {d \in Conns : phase[d] = "greeting"}}

Typed == TypeOK /\ HeldForSomebody

LEMMA FreeIsAnId == ASSUME Typed PROVE LowestFree \in Ids
<1> DEFINE taken == {num[c] : c \in players} \cup reserved
           S == {c \in Conns : num[c] \in taken}
           f == [c \in S |-> num[c]]
<1>1. S \in SUBSET Conns /\ f \in [S -> Ids]
  BY DEF Typed, TypeOK
<1>2. taken = {f[c] : c \in S}
  BY DEF Typed, HeldForSomebody, players
<1> HIDE DEF taken, S, f
<1>3. Lowest(taken) \in Ids \ taken
  BY <1>1, <1>2, LowestIsFree
<1>4. QED BY <1>3 DEF LowestFree, taken

LEMMA InitTyped == Init => Typed
<1>1. 0 \in Ids
  BY ConnsAssumption, FS_CardinalityType DEF Ids
<1>2. Init => HeldForSomebody
  BY DEF Init, HeldForSomebody
<1>3. ASSUME Init PROVE TypeOK
  <2>1. /\ phase \in [Conns -> {"new", "greeting", "limbo", "joined", "gone"}]
        /\ num \in [Conns -> Ids] /\ name \in [Conns -> Names]
    BY <1>1, <1>3 DEF Init, Names
  <2>2. /\ deaths \in [Conns -> Nat] /\ losses \in [Conns -> Nat]
        /\ countdown \in [Conns -> Nat \cup {None}]
    BY <1>3 DEF Init
  <2>3. gameOver \in BOOLEAN
    BY <1>3 DEF Init
  <2>4. QED BY <1>3, <2>1, <2>2, <2>3 DEF Init, TypeOK
<1>4. QED BY <1>2, <1>3 DEF Typed

\* What a return of tanks leaves behind, whatever the answers.
LEMMA BackTyped ==
  ASSUME TypeOK, NEW S \in SUBSET Conns, NEW verdict, BringBack(S, verdict)
  PROVE  /\ alive' \subseteq Conns /\ spawned' \subseteq Conns /\ retry' \subseteq Conns
         /\ closing' \subseteq Conns /\ paused' \subseteq Conns
         /\ countdown' \in [Conns -> Nat \cup {None}]
  BY DEF TypeOK, BringBack

LEMMA NamesTyped ==
  ASSUME TypeOK, NEW c \in Conns
  PROVE  /\ \A want \in Callsigns : NameFor(c, want) \in Names
         /\ NoteRejoinWait(c) \subseteq Names
  BY DEF TypeOK, NameFor, NoteRejoinWait, Names

LEMMA JoinTyped ==
  ASSUME Typed, NEW c \in Conns, NEW o \in BOOLEAN, NEW want \in Callsigns, NEW answer \in Verdicts,
         Join(c, o, want, answer)
  PROVE  Typed'
<1> DEFINE n == NameFor(c, want)
           again == phase[c] = "joined"
           sameName == again /\ n = name[c] /\ (c \in observing) # o
           list == IF again /\ ~sameName THEN NoteRejoinWait(c) ELSE rejoinList
           mayPlay == ~o /\ ~gameOver
           waits == mayPlay /\ n \in list
           asked == mayPlay /\ ~waits
           kicked == asked /\ answer = "kick"
           plays == asked /\ answer # "hold"
<1>1. n \in Names /\ list \subseteq Names
  BY NamesTyped DEF Typed, TypeOK
<1> HIDE DEF n, list
<1>2. /\ c \in players /\ UNCHANGED <<ids, gameOver>>
      /\ phase' = [phase EXCEPT ![c] = "joined"]
      /\ name' = [name EXCEPT ![c] = n]
      /\ observing' = IF o THEN observing \cup {c} ELSE observing \ {c}
      /\ rejoinList' = list
      /\ deaths' = IF again /\ o /\ c \in alive THEN [deaths EXCEPT ![c] = @ + 1] ELSE deaths
      /\ alive' = IF plays THEN alive \cup {c} ELSE alive \ {c}
      /\ retry' = IF ~asked THEN retry ELSE IF answer = "hold" THEN retry \cup {c} ELSE retry \ {c}
  BY DEF Join, n, list
<1>3. IF kicked THEN closing' = closing \cup {c} /\ UNCHANGED <<spawned, rejoin, pause, losses>>
      ELSE /\ spawned' = IF plays THEN spawned \cup {c} ELSE spawned
           /\ rejoin' = IF waits THEN rejoin \cup {c} ELSE rejoin \ {c}
           /\ countdown' = [countdown EXCEPT ![c] = None]
           /\ paused' = paused \ {c}
           /\ losses' = [losses EXCEPT ![c] = 0]
           /\ UNCHANGED closing
  BY DEF Join, n, list
<1>4. HeldForSomebody'
  BY <1>2 DEF Typed, TypeOK, HeldForSomebody, ids, players
<1>5. TypeOK'
  <2>1. /\ phase' \in [Conns -> {"new", "greeting", "limbo", "joined", "gone"}]
        /\ name' \in [Conns -> Names] /\ rejoinList' \subseteq Names
        /\ deaths' \in [Conns -> Nat]
        /\ observing' \subseteq Conns /\ alive' \subseteq Conns /\ retry' \subseteq Conns
    BY <1>1, <1>2 DEF Typed, TypeOK
  <2>2. /\ closing' \subseteq Conns /\ spawned' \subseteq Conns /\ rejoin' \subseteq Conns /\ paused' \subseteq Conns
        /\ losses' \in [Conns -> Nat] /\ countdown' \in [Conns -> Nat \cup {None}]
    BY <1>3 DEF Typed, TypeOK, pause
  <2>3. QED BY <1>2, <2>1, <2>2 DEF Typed, TypeOK, ids
<1>6. QED BY <1>4, <1>5 DEF Typed

LEMMA PersonTyped == ASSUME Typed, NEW c \in Conns, PersonStep(c) PROVE Typed'
<1> USE DEF Typed, TypeOK, HeldForSomebody
<1>1. CASE Connect(c)
  BY <1>1, FreeIsAnId DEF Connect, life, pause, timers
<1>2. CASE Greet(c)
  BY <1>2, FreeIsAnId DEF Greet, life, pause, timers
<1>3. CASE Enter(c)
  BY <1>3 DEF Enter, life, pause, timers
<1>4. CASE HangsUp(c)
  BY <1>4 DEF HangsUp, life, pause, timers
<1>5. CASE Kick(c)
  BY <1>5 DEF Kick, ids, life, pause, timers, players
<1>6. CASE Leave(c)
  BY <1>6, NamesTyped DEF Leave, ids, life, players
<1>7. ASSUME NEW o \in BOOLEAN, NEW want \in Callsigns, JoinRefused(c, o, want) PROVE Typed'
  BY <1>7, NamesTyped DEF JoinRefused, person, ids, life, pause, timers
<1>8. QED BY <1>1, <1>2, <1>3, <1>4, <1>5, <1>6, <1>7, JoinTyped DEF PersonStep, Joins

LEMMA TankTyped == ASSUME Typed, NEW c \in Conns, TankStep(c) PROVE Typed'
<1> USE DEF Typed, TypeOK, HeldForSomebody
<1>1. ASSUME NEW charged \in BOOLEAN, Die(c, charged) PROVE Typed'
  BY <1>1 DEF Die, person, ids, pause, players
<1>2. CASE LastKill(c)
  BY <1>2 DEF LastKill, EndsTheGame, person, ids, pause
<1>3. CASE RequestPause(c)
  BY <1>3 DEF RequestPause, person, ids, life, timers, players
<1>4. QED BY <1>1, <1>2, <1>3 DEF TankStep

LEMMA TimerTyped == ASSUME Typed, NEW c \in Conns, TimerStep(c) PROVE Typed'
<1>1. CASE DeathTimer(c)
  <2> DEFINE S == IF ComesBack(c) THEN {c} ELSE {}
  <2>1. PICK verdict \in [{c} -> Verdicts] : BringBack(S, verdict)
    BY <1>1 DEF DeathTimer
  <2>2. S \in SUBSET Conns
    OBVIOUS
  <2> HIDE DEF S
  <2>3. deaths' \in [Conns -> Nat]
    BY <1>1 DEF DeathTimer, Typed, TypeOK
  <2>4. QED BY <1>1, <2>1, <2>2, <2>3, BackTyped DEF DeathTimer, Typed, TypeOK, HeldForSomebody, ids
<1>2. CASE RetryTimer(c)
  <2>1. CASE StillDead(c) /\ c \notin observing
    <3>1. PICK verdict \in [{c} -> Verdicts] : BringBack({c}, verdict)
      BY <1>2, <2>1 DEF RetryTimer
    <3>2. QED BY <1>2, <3>1, BackTyped DEF RetryTimer, Typed, TypeOK, HeldForSomebody, ids
  <2>2. CASE ~(StillDead(c) /\ c \notin observing)
    BY <1>2, <2>2 DEF RetryTimer, Typed, TypeOK, HeldForSomebody, ids, life, pause
  <2>3. QED BY <2>1, <2>2
<1>3. CASE RejoinTimer(c)
  <2> DEFINE S == IF StillDead(c) THEN {c} ELSE {}
  <2>1. PICK verdict \in [{c} -> Verdicts] : BringBack(S, verdict)
    BY <1>3 DEF RejoinTimer
  <2>2. S \in SUBSET Conns
    OBVIOUS
  <2> HIDE DEF S
  <2>3. QED BY <1>3, <2>1, <2>2, BackTyped DEF RejoinTimer, Typed, TypeOK, HeldForSomebody, ids
<1>4. ASSUME NEW legal \in BOOLEAN, PauseTimer(c, legal) PROVE Typed'
  BY <1>4 DEF PauseTimer, person, ids, life, timers, Typed, TypeOK, HeldForSomebody
<1>5. QED BY <1>1, <1>2, <1>3, <1>4 DEF TimerStep

LEMMA MatchTyped == ASSUME Typed, MatchStep PROVE Typed'
<1>1. CASE EndMatch
  BY <1>1 DEF EndMatch, EndsTheGame, person, ids, pause, Typed, TypeOK, HeldForSomebody
<1>2. CASE StartMatch
  <2> DEFINE S == players \ (observing \cup alive)
  <2>1. PICK verdict \in [players -> Verdicts] : BringBack(S, verdict)
    BY <1>2 DEF StartMatch
  <2>2. S \in SUBSET Conns
    BY DEF players
  <2> HIDE DEF S
  <2>3. losses' \in [Conns -> Nat]
    BY <1>2 DEF StartMatch, Typed, TypeOK
  <2>4. QED BY <1>2, <2>1, <2>2, <2>3, BackTyped DEF StartMatch, Typed, TypeOK, HeldForSomebody, ids
<1>3. QED BY <1>1, <1>2 DEF MatchStep

LEMMA TypedKeeps == Typed /\ [Next]_vars => Typed'
<1>1. ASSUME Typed, NEW n \in Names, WaitOver(n) PROVE Typed'
  BY <1>1 DEF WaitOver, person, ids, life, pause, timers, Typed, TypeOK, HeldForSomebody
<1>2. ASSUME Typed, UNCHANGED vars PROVE Typed'
  BY <1>2 DEF vars, person, ids, life, pause, timers, Typed, TypeOK, HeldForSomebody
<1>3. QED BY <1>1, <1>2, PersonTyped, TankTyped, TimerTyped, MatchTyped DEF Next

\* The state is always of its types, whichever sockets close late: there is a
\* number for every arrival (getNextPlayerNumber), and what a player is called
\* is a callsign or a number.
THEOREM LifeTypes == Spec => []TypeOK
<1>1. Typed => TypeOK
  BY DEF Typed
<1>2. QED BY <1>1, InitTyped, TypedKeeps, PTL DEF Spec

\* A step in which a tank comes back clears its pause timers.
Fresh == \A c \in Conns : c \notin alive /\ c \in alive' /\ c \notin closing'
                            => c \notin paused' /\ countdown'[c] = None

LEMMA BackIsFresh == ASSUME NEW S, NEW verdict, BringBack(S, verdict) PROVE Fresh
  BY DEF BringBack, Fresh

LEMMA StepIsFresh == ASSUME TypeOK, [Next]_vars PROVE Fresh
<1>1. ASSUME alive' \subseteq alive PROVE Fresh
  BY <1>1 DEF Fresh
<1>2. ASSUME NEW c \in Conns, PersonStep(c) PROVE Fresh
  <2>1. ASSUME NEW o \in BOOLEAN, NEW want \in Callsigns, NEW answer \in Verdicts, Join(c, o, want, answer)
        PROVE  Fresh
    <3>1. alive' \subseteq alive \cup {c}
      BY <2>1 DEF Join
    <3>2. c \in closing' \/ (paused' = paused \ {c} /\ countdown' = [countdown EXCEPT ![c] = None])
      BY <2>1 DEF Join
    <3>3. countdown \in [Conns -> Nat \cup {None}]
      BY DEF TypeOK
    <3>4. QED BY <3>1, <3>2, <3>3 DEF Fresh
  <2>2. QED BY <1>1, <1>2, <2>1 DEF PersonStep, Joins, Connect, Greet, Enter, HangsUp, Kick, Leave, JoinRefused, life
<1>3. ASSUME NEW c \in Conns, TankStep(c) PROVE Fresh
  BY <1>1, <1>3 DEF TankStep, Die, LastKill, EndsTheGame, RequestPause, life
<1>4. ASSUME NEW c \in Conns, TimerStep(c) PROVE Fresh
  <2>1. DeathTimer(c) \/ RejoinTimer(c) => Fresh
    BY BackIsFresh DEF DeathTimer, RejoinTimer
  <2>2. RetryTimer(c) => Fresh
    BY <1>1, BackIsFresh DEF RetryTimer, life
  <2>3. ASSUME NEW legal \in BOOLEAN, PauseTimer(c, legal) PROVE Fresh
    BY <1>1, <2>3 DEF PauseTimer, life
  <2>4. QED BY <1>4, <2>1, <2>2, <2>3 DEF TimerStep
<1>5. CASE MatchStep
  BY <1>1, <1>5, BackIsFresh DEF MatchStep, EndMatch, EndsTheGame, StartMatch
<1>6. ASSUME NEW n \in Names, WaitOver(n) PROVE Fresh
  BY <1>1, <1>6 DEF WaitOver, life
<1>7. CASE UNCHANGED vars
  BY <1>1, <1>7 DEF vars, life
<1>8. QED BY <1>2, <1>3, <1>4, <1>5, <1>6, <1>7 DEF Next

\* A tank comes back playing: with no pause countdown of an earlier life
\* running, and not paused, whether a timer, a join or the start of a match
\* brings it back (bringBack, handleJoinGame).
THEOREM ReturnsArePlaying == Spec => ComesBackPlaying
<1>1. TypeOK /\ [Next]_vars
        => [\A c \in Conns : c \notin alive /\ c \in alive' /\ c \notin closing'
                              => c \notin paused' /\ countdown'[c] = None]_vars
  BY StepIsFresh DEF Fresh
<1>2. QED BY <1>1, LifeTypes, PTL DEF Spec, ComesBackPlaying

-----------------------------------------------------------------------------
(* Where the tanks of those who never joined, or have left, come from.      *)

\* A tank comes to life for somebody who is not in the game through one of two
\* doors: the timer of a death, which finds its player by an id that somebody
\* in the game has, and the start of a match, which asks nobody whether he has
\* joined.
Door(c) ==
  \/ DeathTimer(c) /\ HasId(c)
  \/ StartMatch /\ phase[c] = "limbo"
ByTheDoors == \A c \in Conns : c \notin alive /\ c \in alive' /\ phase'[c] # "joined" => Door(c)

LEMMA StepByTheDoors == ASSUME TypeOK, [Next]_vars PROVE [ByTheDoors]_vars
<1>1. ASSUME alive' \subseteq alive PROVE ByTheDoors
  BY <1>1 DEF ByTheDoors
<1>2. ASSUME NEW c \in Conns, PersonStep(c) PROVE ByTheDoors
  <2>1. ASSUME NEW o \in BOOLEAN, NEW want \in Callsigns, NEW answer \in Verdicts, Join(c, o, want, answer)
        PROVE  ByTheDoors
    <3>1. alive' \subseteq alive \cup {c}
      BY <2>1 DEF Join
    <3>2. phase'[c] = "joined"
      BY <2>1 DEF Join, TypeOK
    <3>3. QED BY <3>1, <3>2 DEF ByTheDoors
  <2>2. QED BY <1>1, <1>2, <2>1 DEF PersonStep, Joins, Connect, Greet, Enter, HangsUp, Kick, Leave, JoinRefused, life
<1>3. ASSUME NEW c \in Conns, TankStep(c) PROVE ByTheDoors
  BY <1>1, <1>3 DEF TankStep, Die, LastKill, EndsTheGame, RequestPause, life
<1>4. ASSUME NEW c \in Conns, TimerStep(c) PROVE ByTheDoors
  <2>1. CASE DeathTimer(c)
    <3>1. alive' \subseteq alive \cup (IF ComesBack(c) THEN {c} ELSE {})
      BY <2>1 DEF DeathTimer, BringBack
    <3>2. QED BY <2>1, <3>1 DEF ByTheDoors, Door, ComesBack
  <2>2. CASE RetryTimer(c) \/ RejoinTimer(c)
    <3>1. alive' \subseteq alive \cup (IF StillDead(c) THEN {c} ELSE {}) /\ phase' = phase
      BY <2>2 DEF RetryTimer, RejoinTimer, BringBack, life
    <3>2. QED BY <3>1 DEF ByTheDoors, StillDead
  <2>3. ASSUME NEW legal \in BOOLEAN, PauseTimer(c, legal) PROVE ByTheDoors
    BY <1>1, <2>3 DEF PauseTimer, life
  <2>4. QED BY <1>4, <2>1, <2>2, <2>3 DEF TimerStep
<1>5. CASE StartMatch
  <2>1. alive' \subseteq alive \cup players /\ phase' = phase
    BY <1>5 DEF StartMatch, BringBack
  <2>2. QED BY <1>5, <2>1 DEF ByTheDoors, Door, players
<1>6. CASE EndMatch
  BY <1>1, <1>6 DEF EndMatch, EndsTheGame
<1>7. ASSUME NEW n \in Names, WaitOver(n) PROVE ByTheDoors
  BY <1>1, <1>7 DEF WaitOver, life
<1>8. QED BY <1>2, <1>3, <1>4, <1>5, <1>6, <1>7 DEF Next, MatchStep

\* Whoever has a tank without being in the game has it from one of two places
\* in the code: the callback of applyDeath's timer, which looks an id up that
\* somebody else may have by now, or startMatch, which brings back whoever is
\* connected.  Every other way back asks for the player himself.
THEOREM OnlyTwoDoors == Spec => [][ByTheDoors]_vars
<1>1. TypeOK /\ [Next]_vars => [ByTheDoors]_vars
  BY StepByTheDoors
<1>2. QED BY <1>1, LifeTypes, PTL DEF Spec

=============================================================================
