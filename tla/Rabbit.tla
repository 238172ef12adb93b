------------------------------- MODULE Rabbit -------------------------------
(***************************************************************************)
(* Rabbit Chase: who holds the post of the rabbit, through joins, deaths,  *)
(* pauses, silence, departures and the ends of matches, what every client  *)
(* has been told of it, and the plugin that times the rabbit               *)
(* (src/plugins/rabbittimer.cjs).                                          *)
(*                                                                         *)
(* `post' is what anointNewRabbit writes; an operator that calls it gives  *)
(* the set of posts it may leave, because the ranking that decides between *)
(* candidates (a score, or a random number) is not modelled.  A player of  *)
(* the model is an id.  When a tank comes back is TankLife's; here a dead  *)
(* one may at any time, and so may one whose player has gone while its     *)
(* death timer ran.                                                        *)
(***************************************************************************)
EXTENDS Integers, FiniteSets

CONSTANTS
  Players,
  None,
  Selection,       \* RABBIT_SELECTION: "score", "killer" or "random"
  HuntersNeeded,   \* the hunters rabbittimer waits for; 3 in the source
  TeamKillerDies,  \* TEAM_KILLER_DIES
  MaxGhosts        \* bound: ids of departed tanks whose timers are followed

ASSUME NoneAssumption == None \notin Players
ASSUME SelectionAssumption == Selection \in {"score", "killer", "random"}
ASSUME HuntersAssumption == HuntersNeeded \in Nat
ASSUME BoundAssumption == MaxGhosts \in Nat

VARIABLES
  joined,
  alive,
  paused,
  silent,     \* notResponding
  kicked,     \* joins that a kick cut short; their connections will close
  gameOver,
  timed,      \* the plugin's this.rabbit, or None
  post,       \* rabbit, team, wasRabbit, and the teams the clients show
  ghosts,     \* ids of tanks that left dead: a death timer may be to come
  misspoken   \* history: ids that clients show on the team a ghost's record gave

vars == <<joined, alive, paused, silent, kicked, gameOver, timed, post, ghosts, misspoken>>

Teams == {"none", "hunter", "rabbit", "observer"}
Posts == [rabbit : Players \cup {None}, team : [Players -> Teams],
          wasRabbit : SUBSET Players, seen : [Players -> Teams]]

TypeOK ==
  /\ joined \subseteq Players
  /\ alive \subseteq joined /\ paused \subseteq joined
  /\ silent \subseteq joined /\ kicked \subseteq joined
  /\ gameOver \in BOOLEAN
  /\ timed \in Players \cup {None}
  /\ post \in Posts
  /\ ghosts \subseteq Players /\ misspoken \subseteq Players

Init ==
  /\ joined = {} /\ alive = {} /\ paused = {} /\ silent = {} /\ kicked = {}
  /\ gameOver = FALSE
  /\ timed = None
  /\ post = [rabbit |-> None, team |-> [p \in Players |-> "none"],
             wasRabbit |-> {}, seen |-> [p \in Players |-> "none"]]
  /\ ghosts = {} /\ misspoken = {}

-----------------------------------------------------------------------------
(* anointNewRabbit.  `here' are the players joined and not paused, `up' the *)
(* living.                                                                  *)

MayBeRabbit(P, here) == {p \in here : P.team[p] # "observer"}

Picks_anyone(P, here, up, killer) ==
  LET may == MayBeRabbit(P, here)
  IN  IF may # {} THEN may ELSE {None}

\* pickNewRabbit: the killer under -rabbit killer, if alive and able;
\* otherwise the best of the living but the old rabbit, or, if there is none,
\* of everyone who may hold the post, dead or the same.
Picks(P, here, up, killer) ==
  LET may == MayBeRabbit(P, here)
      good == (may \cap up) \ {P.rabbit}
  IN  IF Selection = "killer" /\ killer \in good THEN {killer}
      ELSE IF good # {} THEN good
      ELSE IF may # {} THEN may
      ELSE {None}

\* MsgNewRabbit: the clients paint one tank the rabbit, every other a hunter.
Painted(seen, r) ==
  [p \in Players |-> IF seen[p] \in {"none", "observer"} THEN seen[p]
                     ELSE IF p = r THEN "rabbit" ELSE "hunter"]

Demoted(P, r) == {p \in {P.rabbit} \ {r} : p \in Players /\ P.team[p] = "rabbit"}

Appoint_newHolders(P, r) ==
  [rabbit |-> r,
   team |-> [p \in Players |-> IF p = r /\ r # P.rabbit THEN "rabbit"
                               ELSE IF p \in Demoted(P, r) THEN "hunter" ELSE P.team[p]],
   wasRabbit |-> P.wasRabbit \cup Demoted(P, r),
   seen |-> IF r # P.rabbit THEN Painted(P.seen, r) ELSE P.seen]
Appoint_quiet(P, r) ==
  [rabbit |-> r,
   team |-> [p \in Players |-> IF p = r THEN "rabbit"
                               ELSE IF p \in Demoted(P, r) THEN "hunter" ELSE P.team[p]],
   wasRabbit |-> P.wasRabbit \cup Demoted(P, r),
   seen |-> IF r # P.rabbit THEN Painted(P.seen, r) ELSE P.seen]

\* The old rabbit becomes a hunter and is marked, the new one the rabbit, and
\* everyone is told if the holder, or the holder's team, has changed.
Appoint(P, r) ==
  [rabbit |-> r,
   team |-> [p \in Players |-> IF p = r THEN "rabbit"
                               ELSE IF p \in Demoted(P, r) THEN "hunter" ELSE P.team[p]],
   wasRabbit |-> P.wasRabbit \cup Demoted(P, r),
   seen |-> IF r # P.rabbit \/ (r \in Players /\ P.team[r] # "rabbit")
            THEN Painted(P.seen, r) ELSE P.seen]

Anoints(P, here, up, killer) == {Appoint(P, r) : r \in Picks(P, here, up, killer)}
Vacated(P, p, here, up, killer) ==
  IF P.rabbit = p THEN Anoints(P, here, up, killer) ELSE {P}

\* handleRabbitSpawn: the mark goes, and the post is filled if it is vacant.
Spawned(P, p, here, up) ==
  Vacated([P EXCEPT !.wasRabbit = @ \ {p}], None, here, up, None)

\* broadcastPlayerRecord: the clients take p's team from its record.
Told(P, p) == [P EXCEPT !.seen[p] = P.team[p]]

\* rabbittimer hears of a death after the anointing: only a rabbit that died
\* and kept the post stops its clock.
TimedAfter(P, p) == IF P.team[p] = "rabbit" THEN None ELSE timed

-----------------------------------------------------------------------------
(* Joining and leaving. *)

\* handleJoinGame up to the spawn: an arrival, or a player who came back
\* through the entry dialog; who stops playing alive is killed first.
Dies(p, k) == Vacated(post, p, joined \ paused, alive \ {p}, k)
StopsPlaying(p, observes) == observes /\ p \in alive
OnTeam(P, p, observes) ==
  [P EXCEPT !.team[p] = IF observes THEN "observer" ELSE "hunter"]

\* A join that ends with the player in the game: the tank alive, or held dead
\* by a game over, the rejoin wait or a plugin.
Join(p, observes, up) ==
  LET here == (joined \cup {p}) \ (paused \ {p})
  IN  /\ up => ~observes /\ ~gameOver
      /\ joined' = joined \cup {p}
      /\ alive' = IF up THEN alive \cup {p} ELSE alive \ {p}
      /\ paused' = paused \ {p}
      /\ silent' = silent \ {p}
      /\ \E P1 \in IF StopsPlaying(p, observes) THEN Dies(p, p) ELSE {post} :
           /\ timed' = IF StopsPlaying(p, observes) THEN TimedAfter(P1, p) ELSE timed
           /\ \E P2 \in LET P == Told(OnTeam(P1, p, observes), p)
                        IN  IF up THEN Spawned(P, p, here, alive') ELSE {P} :
              \E P3 \in Vacated(P2, p, here, alive', None) :
                post' \in Spawned(P3, p, here, alive')
      /\ UNCHANGED <<kicked, gameOver>>

\* bz_eAllowSpawn has the arrival kicked: the handler returns there and then.
JoinKicked(p) ==
  /\ ~gameOver
  /\ joined' = joined \cup {p}
  /\ alive' = alive \cup {p}
  /\ kicked' = kicked \cup {p}
  /\ post' = OnTeam(post, p, FALSE)
  /\ UNCHANGED <<paused, silent, gameOver, timed>>

Leave_keepsTank(p) ==
  /\ p \in joined
  /\ joined' = joined \ {p}
  /\ timed' = IF post.team[p] = "rabbit" THEN None ELSE timed
  /\ post' \in Vacated([post EXCEPT !.team[p] = "none", !.seen[p] = "none",
                                    !.wasRabbit = @ \ {p}],
                       p, joined' \ paused, alive, None)
  /\ UNCHANGED <<alive, paused, silent, kicked, gameOver>>

\* The close of the connection.
Leave(p) ==
  /\ p \in joined
  /\ joined' = joined \ {p} /\ alive' = alive \ {p} /\ paused' = paused \ {p}
  /\ silent' = silent \ {p} /\ kicked' = kicked \ {p}
  /\ timed' = IF post.team[p] = "rabbit" THEN None ELSE timed
  /\ post' \in Vacated([post EXCEPT !.team[p] = "none", !.seen[p] = "none",
                                    !.wasRabbit = @ \ {p}],
                       p, joined' \ paused, alive', None)
  /\ UNCHANGED gameOver

-----------------------------------------------------------------------------
(* Dying and coming back. *)

Observers == {p \in joined : post.team[p] = "observer"}

\* getKillScoreDeltas: hunter on hunter, unless the killer is a deposed rabbit
\* that has not spawned since.
IsTeamKill(k, p) ==
  /\ k \in joined \ {p}
  /\ post.team[k] = post.team[p] /\ post.team[p] # "rabbit"
  /\ k \notin post.wasRabbit

\* killPlayer by k, or by the server or the world; who kills a team mate dies
\* for it, by their own hand.
Kill(p, k) ==
  LET pays == TeamKillerDies /\ k \in alive /\ IsTeamKill(k, p)
  IN  /\ p \in alive /\ k \in joined \cup {None}
      /\ alive' = alive \ ({p} \cup (IF pays THEN {k} ELSE {}))
      /\ \E P \in Dies(p, k) :
           /\ post' \in IF pays THEN Vacated(P, k, joined \ paused, alive', k) ELSE {P}
           /\ timed' = IF pays /\ post'.team[k] = "rabbit" THEN None ELSE TimedAfter(P, p)
      /\ UNCHANGED <<joined, paused, silent, kicked, gameOver>>

\* A dead tank comes back: bringBack, respawn.
Respawn(p) ==
  /\ p \in joined \ (alive \cup Observers) /\ ~gameOver
  /\ alive' = alive \cup {p}
  /\ paused' = paused \ {p} /\ silent' = silent \ {p}
  /\ \E P \in Spawned(post, p, joined \ paused', alive') : post' = Told(P, p)
  /\ UNCHANGED <<joined, kicked, gameOver, timed>>

\* The death timer of a tank that has left, under an id that is in use again:
\* it asks whether the id is taken, not by whom, and brings the departed one
\* back.  Its record goes out with the team it had, and the clients that have
\* a tank under that id take it; it fills a vacant post as any spawn does.
\* Which team that was, and how many such timers run under one id, is not kept.
GhostRespawn(p, had) ==
  /\ p \in ghosts /\ ~gameOver
  /\ \E P \in Vacated(post, None, joined \ paused, alive, None) :
       post' = [P EXCEPT !.seen[p] = IF @ = "none" THEN "none" ELSE had]
  /\ UNCHANGED <<joined, alive, paused, silent, kicked, gameOver, timed>>

\* endMatch: the tanks on the field die one after another.  The post of a
\* rabbit among them may pass through any that are alive still, as the order
\* of the roster has it, to the last, who leaves it to anyone who may hold it.
Handovers ==
  LET rest == (MayBeRabbit(post, joined \ paused) \cap alive) \ {post.rabbit}
  IN  {post} \cup {[Appoint(post, last) EXCEPT !.wasRabbit = @ \cup (through \ {last})]
                     : last \in rest, through \in SUBSET rest}
Sweeps ==
  IF post.rabbit \in alive
  THEN UNION {{[to |-> Q, kept |-> Q.rabbit = P.rabbit]
                 : Q \in Anoints(P, joined \ paused, {}, None)} : P \in Handovers}
  ELSE {[to |-> post, kept |-> FALSE]}

EndMatch ==
  /\ ~gameOver /\ gameOver' = TRUE
  /\ alive' = {}
  /\ \E s \in Sweeps : /\ post' = s.to
                       /\ timed' = IF s.kept THEN None ELSE timed
  /\ UNCHANGED <<joined, paused, silent, kicked>>

\* killPlayer when the kill reaches the score limit: everyone dies of the end
\* of the match, and the victim once more of the kill.
LastKill(p, k) ==
  /\ ~gameOver /\ gameOver' = TRUE
  /\ p \in alive /\ k \in joined \ {p} /\ ~IsTeamKill(k, p)
  /\ alive' = {}
  /\ \E s \in Sweeps :
       /\ post' \in Vacated(s.to, p, joined \ paused, {}, k)
       /\ timed' = IF s.kept THEN None ELSE TimedAfter(post', p)
  /\ UNCHANGED <<joined, paused, silent, kicked>>

\* startMatch: the dead come back, but for those a plugin holds, and the first
\* of them fills a vacant post.
StartMatch ==
  /\ gameOver' = FALSE
  /\ \E back \in SUBSET (joined \ (alive \cup Observers)) :
       /\ alive' = alive \cup back
       /\ paused' = paused \ back /\ silent' = silent \ back
       /\ \E first \in IF back = {} THEN {None} ELSE back :
          \E P \in IF back = {} THEN {post}
                   ELSE Spawned(post, first, joined \ (paused \ {first}), alive \cup {first}) :
            post' = [P EXCEPT !.wasRabbit = @ \ back,
                              !.seen = [p \in Players |-> IF p \in back THEN P.team[p] ELSE @[p]]]
  /\ UNCHANGED <<joined, kicked, timed>>

-----------------------------------------------------------------------------
(* Pausing, and silence. *)

Unpause_fillsNothing(p) ==
  /\ p \in alive \cap paused
  /\ paused' = paused \ {p}
  /\ UNCHANGED <<joined, alive, silent, kicked, gameOver, timed, post>>

\* setPaused: a rabbit that pauses gives the post up, and a player who comes
\* back takes it if it is vacant.
Pause(p) ==
  /\ p \in alive \ paused
  /\ paused' = paused \cup {p}
  /\ post' \in Vacated(post, p, joined \ paused', alive, None)
  /\ UNCHANGED <<joined, alive, silent, kicked, gameOver, timed>>
Unpause(p) ==
  /\ p \in alive \cap paused
  /\ paused' = paused \ {p}
  /\ post' \in Vacated(post, None, joined \ paused', alive, None)
  /\ UNCHANGED <<joined, alive, silent, kicked, gameOver, timed>>

\* checkNotResponding, for one tank, and noteHeardFrom.
GoSilent(p) ==
  /\ p \in alive \ silent
  /\ silent' = silent \cup {p}
  /\ \E P \in Vacated(post, p, joined \ paused, alive, None) : post' = Told(P, p)
  /\ UNCHANGED <<joined, alive, paused, kicked, gameOver, timed>>
HeardFrom(p) ==
  /\ p \in silent
  /\ silent' = silent \ {p}
  /\ post' = Told(post, p)
  /\ UNCHANGED <<joined, alive, paused, kicked, gameOver, timed>>

-----------------------------------------------------------------------------
(* The plugin's tick. *)

Times(p) ==
  /\ timed = None
  /\ Cardinality({q \in joined : post.team[q] = "hunter"}) >= HuntersNeeded
  /\ p \in joined /\ post.team[p] = "rabbit"
  /\ timed' = p
  /\ UNCHANGED <<joined, alive, paused, silent, kicked, gameOver, post>>

\* The time is up: bz_killPlayer, by the server.
TimeUp ==
  /\ timed # None
  /\ timed' = None
  /\ IF timed \in alive
     THEN alive' = alive \ {timed} /\ post' \in Dies(timed, None)
     ELSE UNCHANGED <<alive, post>>
  /\ UNCHANGED <<joined, paused, silent, kicked, gameOver>>

-----------------------------------------------------------------------------
PlayerStep(p) ==
  \/ \E observes, up \in BOOLEAN : Join(p, observes, up)
  \/ JoinKicked(p)
  \/ \E k \in Players \cup {None} : Kill(p, k)
  \/ \E k \in Players : LastKill(p, k)
  \/ Respawn(p) \/ Pause(p) \/ Unpause(p)
  \/ GoSilent(p) \/ HeardFrom(p) \/ Times(p)
ServerStep == EndMatch \/ StartMatch \/ TimeUp

\* What a step leaves behind: the death timer of a dead tank whose player
\* leaves (a tank held dead since its join has none, and is not told apart),
\* and the ids that a ghost's record has clients show wrong.
LeftDead(p) == {p} \ (alive \cup Observers)
Misshown == {p \in joined \ kicked : post.seen[p] # post.team[p]}
Behind(left, spoken) ==
  /\ ghosts' = IF Cardinality(ghosts \cup left) <= MaxGhosts THEN ghosts \cup left ELSE ghosts
  /\ misspoken' = (misspoken \cup spoken) \cap Misshown'

Next ==
  \/ \E p \in Players : PlayerStep(p) /\ Behind({}, {})
  \/ \E p \in Players : Leave(p) /\ Behind(LeftDead(p), {})
  \/ \E p \in Players, had \in {"hunter", "rabbit"} : GhostRespawn(p, had) /\ Behind({}, {p})
  \/ ServerStep /\ Behind({}, {})

Spec == Init /\ [][Next]_vars

-----------------------------------------------------------------------------
(* Properties. *)

\* There is one rabbit: nobody is on the rabbit's team but the player the
\* server names, whoever died, paused or came back in between.
OneRabbit == \A p \in Players : post.team[p] = "rabbit" => p = post.rabbit

\* And the player it names is on that team, "also the rejoin case, where the
\* same player keeps the post but arrived back as a hunter" (anointNewRabbit);
\* a join that a kick cut short is the one that does not get there.
HolderWearsIt ==
  post.rabbit # None => post.team[post.rabbit] = "rabbit" \/ post.rabbit \in kicked

\* "A paused or observing player cannot hold it" (canBeRabbit), nor one who
\* has gone: not when it is given, and not later.
HolderPlays ==
  post.rabbit # None => /\ post.rabbit \in joined \ paused
                        /\ post.team[post.rabbit] # "observer"

\* The rabbit the server names, the one tank in its colours and the tank that
\* can be hunted are the same, however the post changed hands.
OneRabbitPlays == OneRabbit /\ HolderWearsIt /\ HolderPlays

\* "which is how a game where everybody paused recovers" (setPaused): the post
\* is vacant only while nobody may hold it.
NoVacancy == post.rabbit = None => MayBeRabbit(post, joined \ (paused \cup kicked)) = {}

\* Every client shows every tank on the team it is on, though teams change
\* hands by newRabbit and arrive in records; but for the tank of an id under
\* which the record of a departed tank went out, until it is told of again.
SeenAsIs == Misshown \subseteq misspoken

\* A deposed rabbit's shots are excused "until it spawns again"
\* (handleRabbitSpawn): no tank begins a life with its mark.
SpawnEndsExcuse ==
  [][\A p \in Players : p \notin alive /\ p \in alive' /\ p \notin kicked'
       => p \notin post'.wasRabbit]_vars

\* "Killing the rabbit is what deposes it" (applyDeath): a rabbit that dies is
\* not the rabbit any more as long as somebody alive can be.
DeathDeposes ==
  [][post.rabbit \in alive \ alive' /\ MayBeRabbit(post', alive' \ paused') # {}
       => post'.rabbit # post.rabbit]_vars

\* What goes with a life goes with it: the post, and the mark a lost post left.
OfficeEndsWithLife == SpawnEndsExcuse /\ DeathDeposes
=============================================================================
