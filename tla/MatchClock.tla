----------------------------- MODULE MatchClock -----------------------------
(***************************************************************************)
(* The match clock: how a match is started, held, released and ended by the *)
(* operators' commands and panel, by the count to a start, by the clock     *)
(* itself and by a score, under a limit that the panel and the TimeLimit    *)
(* plugin (src/plugins/timelimit.cjs) change meanwhile; and what a browser  *)
(* that was told of it shows.                                               *)
(*                                                                         *)
(* Instants are kept as ages: `age' is now - startTime and `held' is now -  *)
(* pauseStartedAt, in whole seconds.                                        *)
(***************************************************************************)
EXTENDS Integers

CONSTANTS
  TimeLimits,   \* the limits the panel and the plugin may set; 0 is none
  MaxAge,       \* a match without a limit is followed this long: a bound
  MaxHeld,      \* a pause is followed this long: a bound
  MaxCount      \* COUNTDOWN_MAX_SECONDS

ASSUME LimitsAssumption == TimeLimits \subseteq Nat /\ 0 \in TimeLimits
ASSUME ClockAssumption == MaxAge \in Nat /\ MaxHeld \in Nat /\ MaxCount \in Nat

VARIABLES
  active, paused, gameOver, age, held,   \* matchClock
  limit,       \* GAME_CONFIG.TIME_LIMIT
  manual,      \* GAME_CONFIG.TIME_MANUAL_START
  own,         \* the plugin's saveTimeLimit
  countdown,   \* the count's `left', or NoCount
  shown,       \* the browser's clock: a number, Null or Held
  untold       \* the limit changed and nobody was told

clockVars == <<active, paused, gameOver, age, held, limit, manual, own,
               countdown, shown, untold>>

NoCount == -1
Held == -1      \* timeLeft of a match that is paused
Null == -2      \* and where there is no clock
Remaining_exact == IF age = limit THEN 0 ELSE limit - age
Remaining == IF age < limit THEN limit - age ELSE 0

ClockTypeOK ==
  /\ active \in BOOLEAN /\ paused \in BOOLEAN /\ gameOver \in BOOLEAN
  /\ age \in Nat /\ held \in Nat
  /\ limit \in TimeLimits /\ own \in TimeLimits /\ manual \in BOOLEAN
  /\ countdown \in {NoCount} \cup 0..MaxCount
  /\ shown \in {Null, Held} \cup Nat /\ untold \in BOOLEAN

(* Boot: a match server with a limit just plays, unless -timemanual. *)
ClockInit ==
  /\ limit \in TimeLimits /\ manual \in BOOLEAN /\ own = limit
  /\ active = (limit > 0 /\ ~manual)
  /\ paused = FALSE /\ gameOver = FALSE /\ age = 0 /\ held = 0
  /\ countdown = NoCount /\ untold = FALSE
  /\ shown = IF active THEN limit ELSE Null

-----------------------------------------------------------------------------
TimeLeft_unclamped(hold, of, at) == IF of = 0 THEN Null ELSE IF hold THEN Held ELSE of - at
TimeLeft_runsOn(hold, of, at) == IF of = 0 THEN Null ELSE IF at < of THEN of - at ELSE 0
(* What a broadcast `timeUpdate' leaves on the browser's scoreboard:        *)
(* getMatchTimeLeft() of a match that is on.                                *)
TimeLeft(hold, of, at) ==
  IF of = 0 THEN Null ELSE IF hold THEN Held ELSE IF at < of THEN of - at ELSE 0

(* startMatch: it asks nothing of the state it is called in. *)
Starts ==
  /\ active' = (limit > 0)
  /\ paused' = FALSE /\ gameOver' = FALSE /\ age' = 0 /\ held' = 0
  /\ shown' = IF limit > 0 THEN limit ELSE Null
  /\ untold' = FALSE
  /\ UNCHANGED <<limit, manual, own>>

(* The panel's `start'. *)
PanelStart == Starts /\ UNCHANGED countdown

Pause ==
  /\ active /\ ~gameOver /\ ~paused
  /\ paused' = TRUE /\ held' = 0 /\ shown' = Held
  /\ UNCHANGED <<active, gameOver, age, limit, manual, own, countdown, untold>>

(* startTime moves by the length of the pause. *)
Played_withPauses == age
Played == age - held

Resume ==
  /\ active /\ paused
  /\ age' = Played /\ paused' = FALSE /\ held' = 0
  /\ shown' = TimeLeft(FALSE, limit, Played)
  /\ untold' = FALSE
  /\ UNCHANGED <<active, gameOver, limit, manual, own, countdown>>

(* The plugin puts the server's own limit back; bz_setTimeLimit takes no 0. *)
PutsBack == IF own > 0 THEN own ELSE limit

Stopped == active' = FALSE /\ paused' = FALSE /\ age' = 0 /\ held' = 0

(* endMatch, by a score (`won'), the clock or an operator; only the last    *)
(* two fire bz_eGameEndEvent.  A count that runs goes on.                   *)
Ends(won) ==
  /\ ~gameOver
  /\ Stopped /\ gameOver' = TRUE
  /\ shown' = IF limit > 0 THEN 0 ELSE shown
  /\ limit' = IF won THEN limit ELSE PutsBack
  /\ untold' = FALSE
  /\ UNCHANGED <<manual, own, countdown>>

GameOver == Ends(FALSE)
ScoreReached == Ends(TRUE)

(* tickMatchClock, sixty times a second; every thirty seconds it tells.     *)
TickMatchClock ==
  /\ active /\ ~paused /\ limit > 0
  /\ \/ Remaining = 0 /\ Ends(FALSE)
     \/ /\ Remaining > 0
        /\ shown' = Remaining /\ untold' = FALSE
        /\ UNCHANGED <<active, paused, gameOver, age, held, limit, manual, own, countdown>>

(* A second goes by; the browser counts it off by itself. *)
SecondPasses ==
  /\ active
  /\ IF paused THEN held < MaxHeld ELSE age < MaxAge
  /\ age' = age + 1
  /\ held' = IF paused THEN held + 1 ELSE 0
  /\ shown' = IF shown \in {Null, Held, 0} THEN shown ELSE shown - 1
  /\ UNCHANGED <<active, paused, gameOver, limit, manual, own, countdown, untold>>

(* /countdown: at once, or after a count. *)
Countdown(seconds) ==
  /\ countdown = NoCount
  /\ ~(limit > 0 /\ active /\ ~gameOver)
  /\ IF seconds = 0 THEN Starts /\ UNCHANGED countdown
     ELSE /\ countdown' = seconds
          /\ UNCHANGED <<active, paused, gameOver, age, held, limit, manual, own, shown, untold>>

CountSecond ==
  /\ countdown # NoCount
  /\ IF countdown = 0 THEN countdown' = NoCount /\ Starts
     ELSE /\ countdown' = countdown - 1
          /\ UNCHANGED <<active, paused, gameOver, age, held, limit, manual, own, shown, untold>>

CancelCountdown ==
  /\ countdown # NoCount
  /\ countdown' = NoCount
  /\ UNCHANGED <<active, paused, gameOver, age, held, limit, manual, own, shown, untold>>

(* The panel's limit, told at once if a match is on. *)
SetLimit(seconds) ==
  /\ seconds # limit
  /\ limit' = seconds
  /\ shown' = IF active THEN TimeLeft(paused, seconds, age) ELSE shown
  /\ untold' = (untold /\ ~active)
  /\ UNCHANGED <<active, paused, gameOver, age, held, manual, own, countdown>>

(* /timelimit, and the first to join an empty server: refused while a match *)
(* or a count is on.                                                        *)
PluginSetsLimit(seconds) ==
  /\ manual /\ countdown = NoCount /\ ~active
  /\ seconds > 0
  /\ limit' = seconds
  /\ UNCHANGED <<active, paused, gameOver, age, held, manual, own, countdown, shown, untold>>

(* The plugin is turned off: Cleanup, whatever is on. *)
PluginGoes ==
  /\ limit' = PutsBack
  /\ untold' = (untold \/ (active /\ PutsBack # limit))
  /\ UNCHANGED <<active, paused, gameOver, age, held, manual, own, countdown, shown>>

ClockNext ==
  \/ PanelStart \/ Pause \/ Resume \/ GameOver \/ ScoreReached
  \/ TickMatchClock \/ SecondPasses \/ CountSecond \/ CancelCountdown \/ PluginGoes
  \/ \E s \in 0..MaxCount : Countdown(s)
  \/ \E s \in TimeLimits : SetLimit(s) \/ PluginSetsLimit(s)

(* Seconds pass, and the intervals of the game loop and of the count fire.  *)
ClockFairness ==
  /\ WF_clockVars(SecondPasses)
  /\ WF_clockVars(TickMatchClock /\ Remaining = 0)
  /\ WF_clockVars(CountSecond)

ClockSpec == ClockInit /\ [][ClockNext]_clockVars /\ ClockFairness

-----------------------------------------------------------------------------
(* Properties.                                                              *)

(* What is over is not running, and only what runs is held: endMatch,       *)
(* pauseMatch and startMatch, reached from commands, panel, count, clock    *)
(* and score in any order, leave no mixed state.                            *)
OnePhase == (gameOver => ~active /\ ~paused) /\ (paused => active)

(* The browser counts by itself between the words of the server; what it    *)
(* shows is the server's own time left through pauses, restarts and new     *)
(* limits, unless the plugin changed the limit behind its back.             *)
ShownIsLeft ==
  active /\ limit > 0 /\ ~untold => shown = IF paused THEN Held ELSE Remaining

(* What the server plays and what its browsers show are one match, in one   *)
(* phase, with one time left.                                               *)
ClockIsRight == OnePhase /\ ShownIsLeft

(* The clock is a stopwatch: pausing takes nothing off a match and adds     *)
(* nothing to it, and only a start sets it back.                            *)
SW == INSTANCE Stopwatch WITH
  face <- IF ~active THEN "off" ELSE IF paused THEN "held" ELSE "running",
  elapsed <- IF ~active THEN 0 ELSE IF paused THEN age - held ELSE age

KeepsTime == SW!Spec

(* A timed match that is played on comes to its end, unless it is started   *)
(* over for ever: tickMatchClock never misses it, whatever is done to the   *)
(* limit.                                                                   *)
TimedMatchEnds ==
  []<><<age' < age>>_clockVars \/ []<>(~active \/ paused \/ limit = 0)

(* A count comes to its end, whatever happens to matches meanwhile.         *)
CountEnds == (countdown # NoCount) ~> (countdown = NoCount)

(* What is counted down comes to zero.                                      *)
ClockEnds == TimedMatchEnds /\ CountEnds
=============================================================================
