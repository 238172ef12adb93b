-------------------------- MODULE MatchClock_proof --------------------------
(***************************************************************************)
(* The match clock is a stopwatch, what is over is not running, and what a *)
(* browser shows is what is left: for any limits and any lengths of a      *)
(* match, a pause and a count.                                             *)
(***************************************************************************)
EXTENDS MatchClock, TLAPS

\* A pause is no longer than the match it is in, and its length is kept only
\* while it lasts.
PauseFits == held <= age /\ (~paused => held = 0)

IInv == ClockTypeOK /\ OnePhase /\ PauseFits /\ ShownIsLeft

-----------------------------------------------------------------------------
(* What the browser shows. *)

\* The number a browser is told is a number, or one of the two words.
LEMMA TimeLeftType ==
  ASSUME NEW hold \in BOOLEAN, NEW of \in Nat, NEW at \in Nat
  PROVE  TimeLeft(hold, of, at) \in {Null, Held} \cup Nat
  BY DEF TimeLeft

\* Limits are numbers, and the one the plugin puts back is a limit.
LEMMA LimitsType ==
  ASSUME ClockTypeOK
  PROVE  /\ limit \in Nat /\ own \in Nat /\ PutsBack \in TimeLimits
         /\ \A s \in TimeLimits : s \in Nat
         /\ Remaining \in Nat
  BY LimitsAssumption DEF ClockTypeOK, PutsBack, Remaining

LEMMA InitHolds == ClockInit => IInv
  <1>. SUFFICES ASSUME ClockInit PROVE IInv OBVIOUS
  <1>1. limit \in Nat BY LimitsAssumption DEF ClockInit
  <1>2. active \in BOOLEAN BY DEF ClockInit
  <1>3. shown \in {Null, Held} \cup Nat BY <1>1 DEF ClockInit
  <1>4. ClockTypeOK BY <1>2, <1>3 DEF ClockInit, ClockTypeOK
  <1>5. ShownIsLeft BY <1>1 DEF ClockInit, ShownIsLeft, Remaining
  <1>. QED BY <1>4, <1>5 DEF ClockInit, IInv, OnePhase, PauseFits

\* A start wipes whatever the clock was at.
LEMMA StartsHolds ==
  ASSUME IInv, Starts, countdown' \in {NoCount} \cup 0..MaxCount PROVE IInv'
  <1>1. limit \in Nat BY LimitsType DEF IInv
  <1>2. active' \in BOOLEAN BY DEF Starts
  <1>3. shown' \in {Null, Held} \cup Nat BY <1>1 DEF Starts
  <1>4. ClockTypeOK' BY <1>2, <1>3 DEF Starts, IInv, ClockTypeOK
  <1>5. ShownIsLeft' BY <1>1 DEF Starts, ShownIsLeft, Remaining
  <1>. QED BY <1>4, <1>5 DEF Starts, IInv, OnePhase, PauseFits

\* And so does an end.
LEMMA EndsHolds ==
  ASSUME IInv, NEW won \in BOOLEAN, Ends(won) PROVE IInv'
  <1>1. limit \in Nat /\ PutsBack \in TimeLimits BY LimitsType DEF IInv
  <1>2. limit' \in TimeLimits BY <1>1, Zenon DEF Ends, IInv, ClockTypeOK
  <1>3. shown' \in {Null, Held} \cup Nat BY DEF Ends, IInv, ClockTypeOK
  <1>4. ClockTypeOK' BY <1>2, <1>3 DEF Ends, Stopped, IInv, ClockTypeOK
  <1>. QED BY <1>4 DEF Ends, Stopped, IInv, OnePhase, PauseFits, ShownIsLeft

LEMMA SecondPassesHolds == ASSUME IInv, SecondPasses PROVE IInv'
  <1>1. limit \in Nat /\ limit \in TimeLimits /\ age \in Nat /\ held \in Nat
    BY LimitsType DEF IInv, ClockTypeOK
  <1>2. shown' \in {Null, Held} \cup Nat
    BY DEF SecondPasses, IInv, ClockTypeOK, Null, Held
  <1>3. ClockTypeOK' /\ OnePhase' /\ PauseFits'
    BY <1>1, <1>2 DEF SecondPasses, IInv, ClockTypeOK, OnePhase, PauseFits
  <1>4. ShownIsLeft'
    BY <1>1 DEF SecondPasses, IInv, ClockTypeOK, ShownIsLeft, Remaining, Null, Held
  <1>. QED BY <1>3, <1>4 DEF IInv

LEMMA StepHolds == IInv /\ [ClockNext]_clockVars => IInv'
  <1>. SUFFICES ASSUME IInv, [ClockNext]_clockVars PROVE IInv' OBVIOUS
  <1>0. /\ limit \in Nat /\ PutsBack \in TimeLimits /\ PutsBack \in Nat /\ Remaining \in Nat
        /\ age \in Nat /\ held \in Nat /\ \A s \in TimeLimits : s \in Nat
    BY LimitsType DEF IInv, ClockTypeOK
  <1>1. CASE PanelStart BY <1>1, StartsHolds DEF PanelStart, IInv, ClockTypeOK
  <1>2. CASE Pause
    BY <1>0, <1>2 DEF Pause, IInv, ClockTypeOK, OnePhase, PauseFits, ShownIsLeft, Remaining, Held
  <1>3. CASE Resume
    <2>1. Played \in Nat BY <1>0 DEF Played, IInv, PauseFits
    <2>2. TimeLeft(FALSE, limit, Played) \in {Null, Held} \cup Nat BY <1>0, <2>1, TimeLeftType
    <2>3. ClockTypeOK' BY <1>3, <2>1, <2>2 DEF Resume, IInv, ClockTypeOK
    <2>4. OnePhase' BY <1>3 DEF Resume, IInv, OnePhase
    <2>5. PauseFits' BY <1>3, <2>1 DEF Resume, PauseFits
    <2>6. ShownIsLeft' BY <1>0, <1>3, <2>1 DEF Resume, ShownIsLeft, Remaining, TimeLeft
    <2>. QED BY <2>3, <2>4, <2>5, <2>6 DEF IInv
  <1>4. CASE GameOver \/ ScoreReached BY <1>4, EndsHolds DEF GameOver, ScoreReached
  <1>5. CASE TickMatchClock
    <2>1. CASE Ends(FALSE) BY <2>1, EndsHolds
    <2>2. CASE ~Ends(FALSE)
      <3>1. /\ shown' = Remaining /\ untold' = FALSE
            /\ UNCHANGED <<active, paused, gameOver, age, held, limit, manual, own, countdown>>
        BY <1>5, <2>2 DEF TickMatchClock
      <3>2. ClockTypeOK' BY <1>0, <3>1 DEF IInv, ClockTypeOK
      <3>3. ShownIsLeft' BY <1>5, <3>1 DEF TickMatchClock, ShownIsLeft, Remaining
      <3>. QED BY <3>1, <3>2, <3>3 DEF IInv, OnePhase, PauseFits
    <2>. QED BY <2>1, <2>2
  <1>6. CASE SecondPasses BY <1>6, SecondPassesHolds
  <1>7. CASE CountSecond
    <2>0. countdown' \in {NoCount} \cup 0..MaxCount
      BY <1>7, ClockAssumption DEF CountSecond, NoCount, IInv, ClockTypeOK
    <2>1. CASE Starts BY <2>0, <2>1, StartsHolds
    <2>2. CASE ~Starts
      BY <1>7, <2>2, ClockAssumption
      DEF CountSecond, NoCount, IInv, ClockTypeOK, OnePhase, PauseFits, ShownIsLeft, Remaining
    <2>. QED BY <2>1, <2>2
  <1>8. CASE CancelCountdown
    BY <1>8 DEF CancelCountdown, NoCount, IInv, ClockTypeOK, OnePhase, PauseFits, ShownIsLeft, Remaining
  <1>9. CASE PluginGoes
    BY <1>0, <1>9 DEF PluginGoes, IInv, ClockTypeOK, OnePhase, PauseFits, ShownIsLeft, Remaining
  <1>10. ASSUME NEW s \in 0..MaxCount, Countdown(s) PROVE IInv'
    <2>1. CASE Starts /\ UNCHANGED countdown BY <2>1, StartsHolds DEF IInv, ClockTypeOK
    <2>2. CASE ~(Starts /\ UNCHANGED countdown)
      BY <1>10, <2>2 DEF Countdown, IInv, ClockTypeOK, OnePhase, PauseFits, ShownIsLeft, Remaining
    <2>. QED BY <2>1, <2>2
  <1>11. ASSUME NEW s \in TimeLimits, SetLimit(s) PROVE IInv'
    <2>1. TimeLeft(paused, s, age) \in {Null, Held} \cup Nat
      BY <1>0, TimeLeftType DEF IInv, ClockTypeOK
    <2>. QED BY <1>0, <1>11, <2>1
           DEF SetLimit, IInv, ClockTypeOK, OnePhase, PauseFits, ShownIsLeft, Remaining, TimeLeft
  <1>12. ASSUME NEW s \in TimeLimits, PluginSetsLimit(s) PROVE IInv'
    BY <1>12 DEF PluginSetsLimit, IInv, ClockTypeOK, OnePhase, PauseFits, ShownIsLeft
  <1>13. CASE UNCHANGED clockVars
    BY <1>13 DEF clockVars, IInv, ClockTypeOK, OnePhase, PauseFits, ShownIsLeft, Remaining
  <1>. QED BY <1>1, <1>2, <1>3, <1>4, <1>5, <1>6, <1>7, <1>8, <1>9, <1>10, <1>11, <1>12, <1>13 DEF ClockNext

LEMMA Always == ClockSpec => []IInv
  BY InitHolds, StepHolds, PTL DEF ClockSpec

-----------------------------------------------------------------------------
(* The theorems. *)

\* Whatever is done to the clock, its fields keep their types: the browser is
\* told a time, a pause or nothing (getMatchTimeLeft).
THEOREM ClockTypes == ClockSpec => []ClockTypeOK
  <1>1. IInv => ClockTypeOK BY DEF IInv
  <1>. QED BY <1>1, Always, PTL

\* What is over is not running and only what runs is held, through startMatch,
\* pauseMatch, resumeMatch, endMatch and tickMatchClock in any order; and what
\* the browser shows (getDisplayedMatchTimeLeft) is what the server has left
\* (getMatchTimeLeft), unless the plugin changed the limit untold.
THEOREM ClockStaysRight == ClockSpec => []ClockIsRight
  <1>1. IInv => ClockIsRight BY DEF IInv, ClockIsRight
  <1>. QED BY <1>1, Always, PTL

\* The clock implements the stopwatch: what it times is what is played of the
\* match, whatever pauses, limits and counts there are (resumeMatch).
THEOREM ClockIsStopwatch == ClockSpec => KeepsTime
  <1>. DEFINE face == IF ~active THEN "off" ELSE IF paused THEN "held" ELSE "running"
              elapsed == IF ~active THEN 0 ELSE IF paused THEN age - held ELSE age
  <1>1. ClockInit => SW!Init BY DEF ClockInit, SW!Init
  <1>2. ASSUME IInv, [ClockNext]_clockVars PROVE [SW!Next]_<<face, elapsed>>
    <2>0. age \in Nat /\ held \in Nat /\ paused \in BOOLEAN /\ active \in BOOLEAN
      BY <1>2 DEF IInv, ClockTypeOK
    <2>1. CASE Starts
      <3>1. face' \in {"off", "running"} /\ elapsed' = 0 BY <2>1 DEF Starts
      <3>. QED BY <3>1 DEF SW!Next, SW!Begin
    <2>2. CASE Pause
      <3>1. face = "running" /\ face' = "held" /\ elapsed' = elapsed BY <2>0, <2>2 DEF Pause
      <3>. QED BY <3>1 DEF SW!Next, SW!Hold
    <2>3. CASE Resume
      <3>1. face = "held" /\ face' = "running" /\ elapsed' = elapsed BY <2>0, <2>3 DEF Resume, Played
      <3>. QED BY <3>1 DEF SW!Next, SW!Release
    <2>4. CASE \E won \in BOOLEAN : Ends(won)
      <3>1. face' = "off" /\ elapsed' = 0 BY <2>4 DEF Ends, Stopped
      <3>. QED BY <3>1 DEF SW!Next, SW!End
    <2>5. CASE SecondPasses
      <3>1. CASE paused
        <4>1. face' = face /\ elapsed' = elapsed BY <2>0, <2>5, <3>1 DEF SecondPasses
        <4>. QED BY <4>1
      <3>2. CASE ~paused
        <4>1. face = "running" /\ face' = face /\ elapsed' = elapsed + 1
          BY <2>0, <2>5, <3>2 DEF SecondPasses
        <4>. QED BY <4>1 DEF SW!Next, SW!Second
      <3>. QED BY <3>1, <3>2
    <2>6. CASE UNCHANGED <<active, paused, age, held>> BY <2>6
    <2>. HIDE DEF face, elapsed
    <2>. QED BY <1>2, <2>1, <2>2, <2>3, <2>4, <2>5, <2>6
           DEF ClockNext, PanelStart, GameOver, ScoreReached, TickMatchClock, CountSecond, CancelCountdown,
               PluginGoes, Countdown, SetLimit, PluginSetsLimit, clockVars
  <1>3. IInv /\ [ClockNext]_clockVars => [SW!Next]_<<face, elapsed>> BY <1>2
  <1>. QED BY <1>1, <1>3, Always, PTL DEF ClockSpec, KeepsTime, SW!Spec
=============================================================================
