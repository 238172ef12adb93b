---------------------------- MODULE Rabbit_proof ----------------------------
(***************************************************************************)
(* Proofs about Rabbit: one rabbit, who plays and wears the team, a post   *)
(* that is not vacant without need, and clients that show it right; for    *)
(* any number of players and each way of choosing the rabbit.              *)
(*                                                                         *)
(* A handler works on the post in steps.  Weak is what every step keeps;   *)
(* Full is what an anointing gives, and Sound what a whole handler leaves. *)
(***************************************************************************)
EXTENDS Rabbit, TLAPS

\* J are the players in the game, S those of whom the clients have heard.
Weak(P, J, S) ==
  /\ P \in Posts
  /\ \A p \in Players : P.team[p] = "rabbit" => p = P.rabbit
  /\ \A p \in Players : P.team[p] = "none" <=> p \notin J
  /\ \A p \in S : P.seen[p] = P.team[p]

Held(P, here) == P.rabbit # None => P.rabbit \in here /\ P.team[P.rabbit] # "observer"

Full(P, here) ==
  /\ Held(P, here)
  /\ P.rabbit # None => P.team[P.rabbit] = "rabbit"
  /\ P.rabbit = None => MayBeRabbit(P, here) = {}

Sound(P, here, K) ==
  /\ Held(P, here)
  /\ P.rabbit # None => P.team[P.rabbit] = "rabbit" \/ P.rabbit \in K
  /\ P.rabbit = None => MayBeRabbit(P, here \ K) = {}

\* The roster, without what departed tanks leave behind.
Typed ==
  /\ joined \subseteq Players
  /\ alive \subseteq joined /\ paused \subseteq joined
  /\ silent \subseteq joined /\ kicked \subseteq joined
  /\ gameOver \in BOOLEAN
  /\ timed \in Players \cup {None}
  /\ post \in Posts

\* The players the clients have heard of, but for those a ghost spoke for.
Heard == (joined \ kicked) \ misspoken

IInv ==
  /\ Typed
  /\ ghosts \subseteq Players /\ misspoken \subseteq Players
  /\ Weak(post, joined, Heard)
  /\ Sound(post, joined \ paused, kicked)

\* IInv after a handler, before it is known which ids are still shown wrong:
\* the clients are right about all but those they were wrong about, and W.
After(W) ==
  /\ Typed'
  /\ Weak(post', joined', (joined' \ kicked') \ W)
  /\ Sound(post', joined' \ paused', kicked')

-----------------------------------------------------------------------------
(* One anointing. *)

\* What a choice of a player in the game, or of nobody, does to the post.
LEMMA AppointKeeps ==
  ASSUME NEW P, NEW J \in SUBSET Players, NEW S \in SUBSET J, Weak(P, J, S),
         NEW r, r \in MayBeRabbit(P, J) \/ r = None,
         NEW Q, Q = Appoint(P, r)
  PROVE  /\ Weak(Q, J, S)
         /\ Q.rabbit = r
         /\ r # None => Q.team[r] = "rabbit"
         /\ \A p \in Players : Q.team[p] = "observer" <=> P.team[p] = "observer"
<1> USE NoneAssumption
<1>0. r \in J \cup {None} /\ (r # None => P.team[r] # "observer")
  BY DEF MayBeRabbit
<1>1. /\ Q.rabbit = r
      /\ Q.team = [p \in Players |-> IF p = r THEN "rabbit"
                     ELSE IF p \in Demoted(P, r) THEN "hunter" ELSE P.team[p]]
      /\ Q.wasRabbit = P.wasRabbit \cup Demoted(P, r)
      /\ Q.seen = IF r # P.rabbit \/ (r \in Players /\ P.team[r] # "rabbit")
                  THEN Painted(P.seen, r) ELSE P.seen
  BY DEF Appoint
<1>2. Demoted(P, r) \subseteq Players
  BY DEF Demoted
<1>3. Painted(P.seen, r) \in [Players -> Teams] /\ Q.seen \in [Players -> Teams]
  BY <1>1 DEF Painted, Teams, Weak, Posts
<1>4. Q \in Posts
  <2>1. Q.team \in [Players -> Teams]
    BY <1>1 DEF Weak, Posts, Teams
  <2>2. Q.wasRabbit \in SUBSET Players /\ Q.rabbit \in Players \cup {None}
    BY <1>0, <1>1, <1>2 DEF Weak, Posts
  <2>3. Q = [rabbit |-> Q.rabbit, team |-> Q.team, wasRabbit |-> Q.wasRabbit, seen |-> Q.seen]
    BY DEF Appoint
  <2> QED BY <2>1, <2>2, <2>3, <1>3 DEF Posts
<1>5. \A p \in Players : Q.team[p] = "rabbit" => p = Q.rabbit
  BY <1>0, <1>1 DEF Weak, Demoted
<1>6. \A p \in Players : Q.team[p] = "none" <=> p \notin J
  BY <1>0, <1>1 DEF Weak, Demoted
<1>7. \A p \in S : Q.seen[p] = Q.team[p]
  <2> SUFFICES ASSUME NEW p \in S PROVE Q.seen[p] = Q.team[p]
    OBVIOUS
  <2>1. p \in Players /\ P.team[p] \in {"hunter", "rabbit", "observer"} /\ P.seen[p] = P.team[p]
    BY DEF Weak, Posts, Teams
  <2>2. CASE r # P.rabbit \/ (r \in Players /\ P.team[r] # "rabbit")
    BY <2>1, <2>2, <1>0, <1>1 DEF Weak, Demoted, Painted
  <2>3. CASE ~(r # P.rabbit \/ (r \in Players /\ P.team[r] # "rabbit"))
    BY <2>1, <2>3, <1>0, <1>1 DEF Weak, Demoted
  <2> QED BY <2>2, <2>3
<1>8. \A p \in Players : Q.team[p] = "observer" <=> P.team[p] = "observer"
  BY <1>0, <1>1 DEF Weak, Demoted
<1>9. Weak(Q, J, S)
  BY <1>4, <1>5, <1>6, <1>7 DEF Weak
<1>10. r # None => Q.team[r] = "rabbit"
  BY <1>0, <1>1
<1> QED BY <1>1, <1>8, <1>9, <1>10

\* Whoever is picked may hold the post, and somebody is if anybody may.
LEMMA PicksAreAble ==
  ASSUME NEW P, NEW here, NEW up, NEW k, NEW r \in Picks(P, here, up, k)
  PROVE  \/ r \in MayBeRabbit(P, here)
         \/ r = None /\ MayBeRabbit(P, here) = {}
BY DEF Picks

LEMMA AnointsFull ==
  ASSUME NEW P, NEW J \in SUBSET Players, NEW S \in SUBSET J, Weak(P, J, S),
         NEW here \in SUBSET J, NEW up, NEW k, NEW Q \in Anoints(P, here, up, k)
  PROVE  /\ Weak(Q, J, S) /\ Full(Q, here)
         /\ MayBeRabbit(Q, here) = MayBeRabbit(P, here)
<1> USE NoneAssumption
<1>1. PICK r \in Picks(P, here, up, k) : Q = Appoint(P, r)
  BY DEF Anoints
<1>2. \/ r \in MayBeRabbit(P, here)
      \/ r = None /\ MayBeRabbit(P, here) = {}
  BY <1>1, PicksAreAble
<1>3. r \in MayBeRabbit(P, J) \/ r = None
  BY <1>2 DEF MayBeRabbit
<1>4. /\ Weak(Q, J, S) /\ Q.rabbit = r
      /\ r # None => Q.team[r] = "rabbit"
      /\ \A p \in Players : Q.team[p] = "observer" <=> P.team[p] = "observer"
  BY <1>1, <1>3, AppointKeeps
<1>5. MayBeRabbit(Q, here) = MayBeRabbit(P, here)
  BY <1>4 DEF MayBeRabbit
<1> QED BY <1>2, <1>4, <1>5 DEF Full, Held, MayBeRabbit

\* The post of p, once it is anointed anew if p holds it.
LEMMA VacatedKeeps ==
  ASSUME NEW P, NEW J \in SUBSET Players, NEW S \in SUBSET J, Weak(P, J, S),
         NEW here \in SUBSET J, NEW up, NEW k, NEW p, NEW Q \in Vacated(P, p, here, up, k)
  PROVE  /\ Weak(Q, J, S)
         /\ P.rabbit # p => Q = P
         /\ P.rabbit = p => Full(Q, here) /\ MayBeRabbit(Q, here) = MayBeRabbit(P, here)
BY AnointsFull DEF Vacated

LEMMA FullIsSound ==
  ASSUME NEW P, NEW here, NEW K, Full(P, here)
  PROVE  Sound(P, here, K)
BY DEF Full, Sound, Held, MayBeRabbit

\* A handler that anoints anew only if p holds the post leaves it sound.
LEMMA VacatedSound ==
  ASSUME NEW P, NEW J \in SUBSET Players, NEW S \in SUBSET J, Weak(P, J, S),
         NEW here \in SUBSET J, NEW up, NEW k, NEW p, NEW Q \in Vacated(P, p, here, up, k),
         NEW K, P.rabbit # p => Sound(P, here, K)
  PROVE  Weak(Q, J, S) /\ Sound(Q, here, K)
BY FullIsSound, VacatedKeeps

LEMMA SpawnedKeeps ==
  ASSUME NEW P, NEW J \in SUBSET Players, NEW S \in SUBSET J, Weak(P, J, S),
         NEW here \in SUBSET J, NEW up, NEW p, NEW Q \in Spawned(P, p, here, up)
  PROVE  /\ Weak(Q, J, S)
         /\ P.rabbit # None => Q.rabbit = P.rabbit /\ Q.team = P.team
         /\ P.rabbit = None => Full(Q, here) /\ MayBeRabbit(Q, here) = MayBeRabbit(P, here)
<1> DEFINE P1 == [P EXCEPT !.wasRabbit = @ \ {p}]
<1>1. Weak(P1, J, S) /\ P1.rabbit = P.rabbit /\ P1.team = P.team
  BY DEF Weak, Posts
<1>2. Q \in Vacated(P1, None, here, up, None)
  BY DEF Spawned
<1>3. MayBeRabbit(P1, here) = MayBeRabbit(P, here)
  BY <1>1 DEF MayBeRabbit
<1> HIDE DEF P1
<1>4. /\ Weak(Q, J, S)
      /\ P1.rabbit # None => Q = P1
      /\ P1.rabbit = None => Full(Q, here) /\ MayBeRabbit(Q, here) = MayBeRabbit(P1, here)
  BY <1>1, <1>2, VacatedKeeps
<1> QED BY <1>1, <1>3, <1>4

\* A post that is anointed anew goes to the living, and away from who held it,
\* if any other of them may have it.
LEMMA VacatedDeposes ==
  ASSUME NEW P, NEW J \in SUBSET Players, NEW S \in SUBSET J, Weak(P, J, S),
         NEW here \in SUBSET J, NEW up, NEW k, NEW p, NEW Q \in Vacated(P, p, here, up, k)
  PROVE  P.rabbit = p /\ (MayBeRabbit(P, here) \cap up) \ {p} # {}
           => Q.rabbit \in up /\ Q.rabbit # p
<1> SUFFICES ASSUME P.rabbit = p, (MayBeRabbit(P, here) \cap up) \ {p} # {}
             PROVE  Q.rabbit \in up /\ Q.rabbit # p
  OBVIOUS
<1>1. PICK r \in Picks(P, here, up, k) : Q = Appoint(P, r)
  BY DEF Vacated, Anoints
<1> DEFINE good == (MayBeRabbit(P, here) \cap up) \ {P.rabbit}
<1>2. good # {}
  OBVIOUS
<1>3. Picks(P, here, up, k) \in {{k}, good} /\ (Picks(P, here, up, k) = {k} => k \in good \/ {k} = good)
  BY <1>2 DEF Picks
<1> HIDE DEF good
<1>4. r \in good
  BY <1>1, <1>3
<1> QED BY <1>1, <1>4 DEF Appoint, good

\* Who spawns has no mark left: filling a vacant post marks nobody.
LEMMA SpawnEndsMark ==
  ASSUME NEW P, NEW J, NEW S, Weak(P, J, S),
         NEW here, NEW up, NEW p, NEW Q \in Spawned(P, p, here, up)
  PROVE  p \notin Q.wasRabbit
<1> DEFINE P1 == [P EXCEPT !.wasRabbit = @ \ {p}]
<1>1. P1.wasRabbit = P.wasRabbit \ {p}
  BY DEF Weak, Posts
<1>2. Q \in Vacated(P1, None, here, up, None)
  BY DEF Spawned
<1> HIDE DEF P1
<1>3. CASE P1.rabbit # None
  BY <1>1, <1>2, <1>3 DEF Vacated
<1>4. CASE P1.rabbit = None
  <2>1. PICK r \in Picks(P1, here, up, None) : Q = Appoint(P1, r)
    BY <1>2, <1>4 DEF Vacated, Anoints
  <2>2. Demoted(P1, r) = {}
    BY <1>4, NoneAssumption DEF Demoted
  <2> QED BY <1>1, <2>1, <2>2 DEF Appoint
<1> QED BY <1>3, <1>4

\* A vacant post goes to somebody alive, if anybody alive may have it.
LEMMA SpawnedFills ==
  ASSUME NEW P, NEW J \in SUBSET Players, NEW S \in SUBSET J, Weak(P, J, S),
         NEW here \in SUBSET J, NEW up, NEW p, NEW Q \in Spawned(P, p, here, up)
  PROVE  P.rabbit = None /\ (MayBeRabbit(P, here) \cap up) \ {None} # {} => Q.rabbit \in up
<1> DEFINE P1 == [P EXCEPT !.wasRabbit = @ \ {p}]
<1>1. Weak(P1, J, S) /\ P1.rabbit = P.rabbit /\ P1.team = P.team
  BY DEF Weak, Posts
<1>2. Q \in Vacated(P1, None, here, up, None)
  BY DEF Spawned
<1>3. MayBeRabbit(P1, here) = MayBeRabbit(P, here)
  BY <1>1 DEF MayBeRabbit
<1> HIDE DEF P1
<1>4. P1.rabbit = None /\ (MayBeRabbit(P1, here) \cap up) \ {None} # {} => Q.rabbit \in up
  BY <1>1, <1>2, VacatedDeposes
<1> QED BY <1>1, <1>3, <1>4

-----------------------------------------------------------------------------
(* The steps. *)

LEMMA Initially == Init => IInv
<1> SUFFICES ASSUME Init PROVE IInv
  OBVIOUS
<1>1. post.rabbit = None /\ post.team = [p \in Players |-> "none"]
  BY DEF Init
<1>2. post \in Posts
  BY DEF Init, Posts, Teams
<1>3. Typed /\ joined = {} /\ ghosts = {} /\ misspoken = {}
  BY <1>2 DEF Init, Typed
<1> QED BY <1>1, <1>2, <1>3, NoneAssumption DEF IInv, Heard, Weak, Sound, Held, MayBeRabbit

\* What an anointing is told of a sound post.
LEMMA Standing ==
  ASSUME IInv
  PROVE  /\ joined \in SUBSET Players /\ Heard \in SUBSET joined
         /\ (joined \ paused) \in SUBSET joined
         /\ Weak(post, joined, Heard) /\ Sound(post, joined \ paused, kicked)
BY DEF IInv, Typed, Heard

\* A handler that keeps the roster: the rest is left to the post.
LEMMA Settled ==
  ASSUME IInv, joined' = joined, kicked' = kicked, gameOver' \in BOOLEAN,
         alive' \subseteq joined, paused' \subseteq joined, silent' \subseteq joined,
         timed' \in Players \cup {None},
         Weak(post', joined, Heard), Sound(post', joined \ paused', kicked)
  PROVE  After(misspoken)
<1>1. Typed'
  BY DEF IInv, Typed, Weak
<1> QED BY <1>1 DEF After, Heard

\* A record changes nothing but what the clients show.
LEMMA ToldKeeps ==
  ASSUME NEW P, NEW J \in SUBSET Players, NEW S \in SUBSET J, Weak(P, J, S),
         NEW here, NEW K, Sound(P, here, K), NEW p \in Players
  PROVE  Weak(Told(P, p), J, S) /\ Sound(Told(P, p), here, K)
<1>1. /\ Told(P, p).rabbit = P.rabbit /\ Told(P, p).team = P.team
      /\ Told(P, p).seen = [P.seen EXCEPT ![p] = P.team[p]]
      /\ Told(P, p) \in Posts
  BY DEF Told, Weak, Posts
<1>2. Weak(Told(P, p), J, S)
  BY <1>1 DEF Weak, Posts
<1> QED BY <1>1, <1>2 DEF Sound, Held, MayBeRabbit

\* What a join leaves of the post: who is up has lost its mark, and the holder
\* who is not up has lost the post if anybody up may have it.
JoinEnds(p, observes, up) ==
  /\ up => p \notin post'.wasRabbit
  /\ ~up /\ MayBeRabbit(post', alive' \ paused') # {} => post'.rabbit # p

LEMMA JoinSound == ASSUME IInv, NEW p \in Players, NEW observes \in BOOLEAN, NEW up \in BOOLEAN,
                          Join(p, observes, up)
                   PROVE  After(misspoken) /\ JoinEnds(p, observes, up)
<1> USE NoneAssumption
<1> DEFINE here == (joined \cup {p}) \ (paused \ {p})
           S == ((joined' \ kicked') \ misspoken) \ misspoken
<1>1. /\ joined' = joined \cup {p} /\ kicked' = kicked /\ gameOver' = gameOver
      /\ paused' = paused \ {p} /\ silent' = silent \ {p}
      /\ alive' = IF up THEN alive \cup {p} ELSE alive \ {p}
      /\ up => ~observes
  BY DEF Join
<1>2. here = joined' \ paused' /\ here \in SUBSET joined' /\ S \in SUBSET joined'
      /\ joined' \in SUBSET Players /\ joined \in SUBSET Players
  BY <1>1 DEF IInv, Typed
<1>3. PICK P1 \in IF StopsPlaying(p, observes) THEN Dies(p, p) ELSE {post} :
        /\ timed' = IF StopsPlaying(p, observes) THEN TimedAfter(P1, p) ELSE timed
        /\ \E P2 \in LET P == Told(OnTeam(P1, p, observes), p)
                     IN  IF up THEN Spawned(P, p, here, alive') ELSE {P} :
           \E P3 \in Vacated(P2, p, here, alive', None) : post' \in Spawned(P3, p, here, alive')
  BY DEF Join
<1> DEFINE P == Told(OnTeam(P1, p, observes), p)
<1>4. PICK P2 \in IF up THEN Spawned(P, p, here, alive') ELSE {P} :
        \E P3 \in Vacated(P2, p, here, alive', None) : post' \in Spawned(P3, p, here, alive')
  BY <1>3
<1>5. PICK P3 \in Vacated(P2, p, here, alive', None) : post' \in Spawned(P3, p, here, alive')
  BY <1>4
<1>6. Weak(P1, joined, Heard) /\ Sound(P1, joined \ paused, kicked)
  BY <1>2, <1>3, Standing, VacatedSound DEF Dies
\* On its new team the tank need be neither rabbit nor out of the reckoning.
<1>7. /\ Weak(P, joined', S)
      /\ P.rabbit \notin {None, p} => Sound(P, here, kicked)
  <2>1. /\ P.rabbit = P1.rabbit /\ P.wasRabbit = P1.wasRabbit
        /\ P.team = [P1.team EXCEPT ![p] = IF observes THEN "observer" ELSE "hunter"]
        /\ P.seen = [P1.seen EXCEPT ![p] = P.team[p]]
    BY DEF Told, OnTeam
  <2>2. P \in Posts
    BY <1>6 DEF Told, OnTeam, Weak, Posts, Teams
  <2>3. P1.team \in [Players -> Teams] /\ P1.seen \in [Players -> Teams]
        /\ P1.rabbit \in Players \cup {None}
    BY <1>6 DEF Weak, Posts
  <2>4. Weak(P, joined', S)
    BY <2>1, <2>2, <2>3, <1>1, <1>2, <1>6 DEF Weak, Heard
  <2>5. P.rabbit \notin {None, p} => Sound(P, here, kicked)
    BY <2>1, <2>3, <1>1, <1>2, <1>6 DEF Sound, Held
  <2> QED BY <2>4, <2>5
<1> HIDE DEF P, here, S
<1>8. /\ Weak(P2, joined', S)
      /\ P2.rabbit \notin {None, p} => Sound(P2, here, kicked)
  <2>1. CASE ~up
    BY <2>1, <1>4, <1>7
  <2>2. CASE up /\ P.rabbit = None
    <3>1. Weak(P2, joined', S) /\ Full(P2, here)
      BY <2>2, <1>2, <1>4, <1>7, SpawnedKeeps
    <3> QED BY <3>1, FullIsSound
  <2>3. CASE up /\ P.rabbit # None
    <3>1. P2.rabbit = P.rabbit /\ P2.team = P.team /\ Weak(P2, joined', S)
      BY <2>3, <1>2, <1>4, <1>7, SpawnedKeeps
    <3> QED BY <3>1, <2>3, <1>7 DEF Sound, Held
  <2> QED BY <2>1, <2>2, <2>3
<1>9. /\ Weak(P3, joined', S)
      /\ P3.rabbit # None => Sound(P3, here, kicked)
  <2>1. Weak(P3, joined', S) /\ (P2.rabbit # p => P3 = P2) /\ (P2.rabbit = p => Full(P3, here))
    <3>1. Weak(P2, joined', S) /\ here \in SUBSET joined' /\ S \in SUBSET joined'
          /\ joined' \in SUBSET Players /\ P3 \in Vacated(P2, p, here, alive', None)
      BY <1>2, <1>5, <1>8
    <3>2. Weak(P3, joined', S)
      BY <3>1, VacatedKeeps
    <3>3. P2.rabbit # p => P3 = P2
      BY <3>1, VacatedKeeps
    <3>4. P2.rabbit = p => Full(P3, here)
      BY <3>1, VacatedKeeps
    <3> QED BY <3>2, <3>3, <3>4
  <2> QED BY <2>1, <1>8, FullIsSound
<1>10. Weak(post', joined', S) /\ Sound(post', here, kicked)
  <2>1. /\ Weak(post', joined', S)
        /\ P3.rabbit # None => post'.rabbit = P3.rabbit /\ post'.team = P3.team
        /\ P3.rabbit = None => Full(post', here)
    BY <1>2, <1>5, <1>9, SpawnedKeeps
  <2> QED BY <2>1, <1>9, FullIsSound DEF Sound, Held
<1>11. timed' \in Players \cup {None}
  BY <1>3 DEF IInv, Typed, TimedAfter
<1>12. Typed'
  BY <1>1, <1>10, <1>11 DEF IInv, Typed, Weak
<1>13. up => p \notin post'.wasRabbit
  BY <1>2, <1>5, <1>9, SpawnEndsMark
<1>14. ASSUME ~up, MayBeRabbit(post', alive' \ paused') # {} PROVE post'.rabbit # p
  <2>1. P2 = P /\ p \notin alive'
    BY <1>1, <1>4, <1>14
  <2>2. /\ MayBeRabbit(post', here) = MayBeRabbit(P3, here) \/ post'.team = P3.team
        /\ MayBeRabbit(P3, here) = MayBeRabbit(P2, here)
    BY <1>2, <1>5, <1>8, <1>9, SpawnedKeeps, VacatedKeeps
  <2>3. PICK q \in MayBeRabbit(P2, here) \cap alive' : q \in here /\ q # p
    BY <2>1, <2>2, <1>2, <1>12, <1>14 DEF MayBeRabbit, Typed
  <2>4. P3.rabbit # p
    <3>1. CASE P2.rabbit # p
      BY <3>1, <1>2, <1>5, <1>8, VacatedKeeps
    <3>2. CASE P2.rabbit = p
      <4>1. P2.rabbit = p /\ (MayBeRabbit(P2, here) \cap alive') \ {p} # {} => P3.rabbit # p
        BY <1>2, <1>5, <1>8, VacatedDeposes
      <4> QED BY <3>2, <4>1, <2>3
    <3> QED BY <3>1, <3>2
  <2>5. CASE P3.rabbit # None
    BY <2>4, <2>5, <1>2, <1>5, <1>9, SpawnedKeeps
  <2>6. CASE P3.rabbit = None
    <3>1. q \in MayBeRabbit(P3, here) \cap alive' /\ q # None
      BY <2>2, <2>3, <1>2
    <3>2. P3.rabbit = None /\ (MayBeRabbit(P3, here) \cap alive') \ {None} # {} => post'.rabbit \in alive'
      BY <1>2, <1>5, <1>9, SpawnedFills
    <3> QED BY <3>1, <3>2, <2>1, <2>6
  <2> QED BY <2>5, <2>6
<1> QED BY <1>1, <1>2, <1>10, <1>12, <1>13, <1>14 DEF After, S, JoinEnds

LEMMA JoinKickedSound == ASSUME IInv, NEW p \in Players, JoinKicked(p)
                         PROVE  After(misspoken)
<1> USE NoneAssumption
<1>1. /\ joined' = joined \cup {p} /\ alive' = alive \cup {p} /\ kicked' = kicked \cup {p}
      /\ post' = OnTeam(post, p, FALSE)
      /\ paused' = paused /\ silent' = silent /\ gameOver' = gameOver /\ timed' = timed
  BY DEF JoinKicked
<1>2. /\ post'.rabbit = post.rabbit /\ post'.seen = post.seen
      /\ post'.team = [post.team EXCEPT ![p] = "hunter"]
      /\ post' \in Posts
  BY <1>1 DEF OnTeam, IInv, Typed, Posts, Teams
<1>3. post.team \in [Players -> Teams] /\ post.rabbit \in Players \cup {None}
  BY DEF IInv, Typed, Posts
<1>4. Typed'
  BY <1>1, <1>2 DEF IInv, Typed
<1>5. Weak(post', joined', (joined' \ kicked') \ misspoken)
  BY <1>1, <1>2, <1>3 DEF IInv, Typed, Weak, Heard
<1>6. Sound(post', joined' \ paused', kicked')
  <2>1. Held(post', joined' \ paused')
    BY <1>1, <1>2, <1>3 DEF IInv, Sound, Held
  <2>2. post'.rabbit # None =>
          post'.team[post'.rabbit] = "rabbit" \/ post'.rabbit \in kicked'
    BY <1>1, <1>2, <1>3 DEF IInv, Sound
  <2>3. post'.rabbit = None => MayBeRabbit(post', (joined' \ paused') \ kicked') = {}
    <3>1. \A q : q \in (joined' \ paused') \ kicked' => q # p /\ q \in (joined \ paused) \ kicked
      BY <1>1
    <3>2. \A q \in joined : q # p => post'.team[q] = post.team[q]
      BY <1>2, <1>3 DEF IInv, Typed
    <3>3. post'.rabbit = None => MayBeRabbit(post, (joined \ paused) \ kicked) = {}
      BY <1>2 DEF IInv, Sound
    <3> QED BY <3>1, <3>2, <3>3 DEF MayBeRabbit
  <2> QED BY <2>1, <2>2, <2>3 DEF Sound
<1> QED BY <1>4, <1>5, <1>6 DEF After

LEMMA LeaveSound == ASSUME IInv, NEW p \in Players, Leave(p)
                    PROVE  After(misspoken)
<1> USE NoneAssumption
<1> DEFINE P == [post EXCEPT !.team[p] = "none", !.seen[p] = "none", !.wasRabbit = @ \ {p}]
           here == joined' \ paused
           S == ((joined' \ kicked') \ misspoken) \ misspoken
<1>1. /\ joined' = joined \ {p} /\ alive' = alive \ {p} /\ paused' = paused \ {p}
      /\ silent' = silent \ {p} /\ kicked' = kicked \ {p} /\ gameOver' = gameOver
      /\ timed' = IF post.team[p] = "rabbit" THEN None ELSE timed
      /\ post' \in Vacated(P, p, here, alive', None)
  BY DEF Leave
<1>2. /\ P.rabbit = post.rabbit
      /\ P.team = [post.team EXCEPT ![p] = "none"]
      /\ P.seen = [post.seen EXCEPT ![p] = "none"]
      /\ P \in Posts
  BY DEF IInv, Typed, Posts, Teams
<1>3. /\ post.team \in [Players -> Teams] /\ post.seen \in [Players -> Teams]
      /\ joined \in SUBSET Players /\ post.rabbit \in Players \cup {None}
  BY DEF IInv, Typed, Posts
<1>4. here = joined' \ paused' /\ here \in SUBSET joined' /\ S \in SUBSET joined'
      /\ joined' \in SUBSET Players
  BY <1>1, <1>3
<1> HIDE DEF P
<1>5. Weak(P, joined', S)
  BY <1>1, <1>2, <1>3 DEF IInv, Typed, Weak, Heard
<1>6. P.rabbit # p => Sound(P, here, kicked')
  <2> SUFFICES ASSUME P.rabbit # p PROVE Sound(P, here, kicked')
    OBVIOUS
  <2>1. Held(P, here)
    BY <1>1, <1>2, <1>3 DEF IInv, Sound, Held
  <2>2. P.rabbit # None => P.team[P.rabbit] = "rabbit" \/ P.rabbit \in kicked'
    BY <1>1, <1>2, <1>3 DEF IInv, Sound, Held
  <2>3. P.rabbit = None => MayBeRabbit(P, here \ kicked') = {}
    BY <1>1, <1>2, <1>3 DEF IInv, Sound, MayBeRabbit
  <2> QED BY <2>1, <2>2, <2>3 DEF Sound
<1> HIDE DEF here, S
<1>7. Weak(post', joined', S) /\ Sound(post', here, kicked')
  BY <1>1, <1>4, <1>5, <1>6, VacatedSound
<1>8. Typed'
  BY <1>1, <1>7 DEF IInv, Typed, Weak
<1> QED BY <1>4, <1>7, <1>8 DEF After, S

LEMMA KillSound == ASSUME IInv, NEW p \in Players, NEW k \in Players \cup {None}, Kill(p, k)
                   PROVE  After(misspoken)
<1> DEFINE pays == TeamKillerDies /\ k \in alive /\ IsTeamKill(k, p)
<1>1. /\ alive' = alive \ ({p} \cup (IF pays THEN {k} ELSE {}))
      /\ joined' = joined /\ paused' = paused /\ silent' = silent
      /\ kicked' = kicked /\ gameOver' = gameOver
  BY DEF Kill
<1>2. PICK P \in Dies(p, k) :
        /\ post' \in IF pays THEN Vacated(P, k, joined \ paused, alive', k) ELSE {P}
        /\ timed' = IF pays /\ post'.team[k] = "rabbit" THEN None ELSE TimedAfter(P, p)
  BY DEF Kill
<1> HIDE DEF pays
<1>3. Weak(P, joined, Heard) /\ Sound(P, joined \ paused, kicked)
  BY <1>2, Standing, VacatedSound DEF Dies
<1>4. Weak(post', joined, Heard) /\ Sound(post', joined \ paused, kicked)
  BY <1>2, <1>3, Standing, VacatedSound
<1>5. timed' \in Players \cup {None} /\ alive' \subseteq joined
  BY <1>1, <1>2 DEF TimedAfter, IInv, Typed
<1> QED BY <1>1, <1>4, <1>5, Settled DEF IInv, Typed

\* Each way through the end of a match leaves the post with somebody who may
\* hold it.
LEMMA SweepsSound ==
  ASSUME IInv, NEW s \in Sweeps
  PROVE  Weak(s.to, joined, Heard) /\ Sound(s.to, joined \ paused, kicked)
<1> USE NoneAssumption
<1>1. CASE post.rabbit \notin alive
  BY <1>1, Standing DEF Sweeps
<1>2. CASE post.rabbit \in alive
  <2>1. PICK P \in Handovers : \E Q \in Anoints(P, joined \ paused, {}, None) : s.to = Q
    BY <1>2 DEF Sweeps
  <2>2. Weak(P, joined, Heard)
    <3>1. CASE P = post
      BY <3>1, Standing
    <3>2. CASE P # post
      <4> DEFINE rest == (MayBeRabbit(post, joined \ paused) \cap alive) \ {post.rabbit}
      <4>1. PICK last \in rest, through \in SUBSET rest :
              P = [Appoint(post, last) EXCEPT !.wasRabbit = @ \cup (through \ {last})]
        BY <3>2 DEF Handovers
      <4>2. last \in MayBeRabbit(post, joined) /\ rest \subseteq Players
        BY Standing DEF MayBeRabbit
      <4>3. Weak(Appoint(post, last), joined, Heard)
        BY <4>2, Standing, AppointKeeps
      <4>4. /\ P.rabbit = Appoint(post, last).rabbit /\ P.team = Appoint(post, last).team
            /\ P.seen = Appoint(post, last).seen /\ P \in Posts
        BY <4>1, <4>2, <4>3 DEF Weak, Posts
      <4> QED BY <4>3, <4>4 DEF Weak
    <3> QED BY <3>1, <3>2
  <2>3. Weak(s.to, joined, Heard) /\ Full(s.to, joined \ paused)
    BY <2>1, <2>2, Standing, AnointsFull
  <2> QED BY <2>3, FullIsSound
<1> QED BY <1>1, <1>2

LEMMA EndMatchSound == ASSUME IInv, EndMatch
                       PROVE  After(misspoken)
<1>1. PICK s \in Sweeps : post' = s.to /\ timed' = IF s.kept THEN None ELSE timed
  BY DEF EndMatch
<1>2. Weak(post', joined, Heard) /\ Sound(post', joined \ paused, kicked)
  BY <1>1, SweepsSound
<1> QED BY <1>1, <1>2, Settled DEF EndMatch, IInv, Typed

LEMMA LastKillSound == ASSUME IInv, NEW p \in Players, NEW k \in Players, LastKill(p, k)
                       PROVE  After(misspoken)
<1>1. PICK s \in Sweeps :
        /\ post' \in Vacated(s.to, p, joined \ paused, {}, k)
        /\ timed' = IF s.kept THEN None ELSE TimedAfter(post', p)
  BY DEF LastKill
<1>2. Weak(s.to, joined, Heard) /\ Sound(s.to, joined \ paused, kicked)
  BY SweepsSound
<1>3. Weak(post', joined, Heard) /\ Sound(post', joined \ paused, kicked)
  BY <1>1, <1>2, Standing, VacatedSound
<1>4. timed' \in Players \cup {None}
  BY <1>1 DEF TimedAfter, IInv, Typed
<1> QED BY <1>3, <1>4, Settled DEF LastKill, IInv, Typed

\* Who comes back leaves a sound post: it is filled if it was vacant.
LEMMA SpawnedSound ==
  ASSUME IInv, NEW p, NEW up, NEW here \in SUBSET joined, (joined \ paused) \subseteq here,
         NEW P \in Spawned(post, p, here, up)
  PROVE  Weak(P, joined, Heard) /\ Sound(P, here, kicked)
<1>1. /\ Weak(P, joined, Heard)
      /\ post.rabbit # None => P.rabbit = post.rabbit /\ P.team = post.team
      /\ post.rabbit = None => Full(P, here)
  BY Standing, SpawnedKeeps
<1>2. CASE post.rabbit = None
  BY <1>1, <1>2, FullIsSound
<1>3. CASE post.rabbit # None
  BY <1>1, <1>3 DEF IInv, Sound, Held
<1> QED BY <1>1, <1>2, <1>3

LEMMA RespawnSound == ASSUME IInv, NEW p \in Players, Respawn(p)
                      PROVE  After(misspoken)
<1>1. /\ p \in joined /\ alive' = alive \cup {p}
      /\ paused' = paused \ {p} /\ silent' = silent \ {p}
      /\ joined' = joined /\ kicked' = kicked /\ gameOver' = gameOver /\ timed' = timed
  BY DEF Respawn
<1>2. PICK P \in Spawned(post, p, joined \ paused', alive') : post' = Told(P, p)
  BY DEF Respawn
<1>3. Weak(P, joined, Heard) /\ Sound(P, joined \ paused', kicked)
  <2>1. (joined \ paused') \in SUBSET joined /\ (joined \ paused) \subseteq (joined \ paused')
    BY <1>1
  <2> QED BY <1>2, <2>1, SpawnedSound
<1>4. Weak(post', joined, Heard) /\ Sound(post', joined \ paused', kicked)
  BY <1>2, <1>3, Standing, ToldKeeps
<1> QED BY <1>1, <1>4, Settled DEF IInv, Typed

\* A ghost's record changes what the clients show of its id, and of no other.
LEMMA GhostRespawnSound ==
  ASSUME IInv, NEW p \in Players, NEW had \in {"hunter", "rabbit"}, GhostRespawn(p, had)
  PROVE  After(misspoken \cup {p})
<1>1. /\ joined' = joined /\ alive' = alive /\ paused' = paused /\ silent' = silent
      /\ kicked' = kicked /\ gameOver' = gameOver /\ timed' = timed
  BY DEF GhostRespawn
<1>2. PICK P \in Vacated(post, None, joined \ paused, alive, None) :
        post' = [P EXCEPT !.seen[p] = IF @ = "none" THEN "none" ELSE had]
  BY DEF GhostRespawn
<1>3. Weak(P, joined, Heard) /\ Sound(P, joined \ paused, kicked)
  BY <1>2, Standing, VacatedSound
<1>4. /\ post'.rabbit = P.rabbit /\ post'.team = P.team
      /\ \A q \in Players \ {p} : post'.seen[q] = P.seen[q]
      /\ post' \in Posts
  BY <1>2, <1>3 DEF Weak, Posts, Teams
<1>5. Weak(post', joined', (joined' \ kicked') \ (misspoken \cup {p}))
  BY <1>1, <1>3, <1>4, Standing DEF Weak, Heard
<1>6. Sound(post', joined' \ paused', kicked')
  BY <1>1, <1>3, <1>4 DEF Sound, Held, MayBeRabbit
<1> QED BY <1>1, <1>4, <1>5, <1>6 DEF After, IInv, Typed

LEMMA StartMatchSound == ASSUME IInv, StartMatch
                         PROVE  After(misspoken)
<1> USE NoneAssumption
<1>1. PICK back \in SUBSET (joined \ (alive \cup Observers)) :
       /\ alive' = alive \cup back
       /\ paused' = paused \ back /\ silent' = silent \ back
       /\ \E first \in IF back = {} THEN {None} ELSE back :
          \E P \in IF back = {} THEN {post}
                   ELSE Spawned(post, first, joined \ (paused \ {first}), alive \cup {first}) :
            post' = [P EXCEPT !.wasRabbit = @ \ back,
                              !.seen = [p \in Players |-> IF p \in back THEN P.team[p] ELSE @[p]]]
  BY DEF StartMatch
<1>2. PICK first \in IF back = {} THEN {None} ELSE back :
          \E P \in IF back = {} THEN {post}
                   ELSE Spawned(post, first, joined \ (paused \ {first}), alive \cup {first}) :
            post' = [P EXCEPT !.wasRabbit = @ \ back,
                              !.seen = [p \in Players |-> IF p \in back THEN P.team[p] ELSE @[p]]]
  BY <1>1
<1>3. PICK P \in IF back = {} THEN {post}
                 ELSE Spawned(post, first, joined \ (paused \ {first}), alive \cup {first}) :
            post' = [P EXCEPT !.wasRabbit = @ \ back,
                              !.seen = [p \in Players |-> IF p \in back THEN P.team[p] ELSE @[p]]]
  BY <1>2
<1>4. joined' = joined /\ kicked' = kicked /\ gameOver' = FALSE /\ timed' = timed
  BY DEF StartMatch
<1>5. Weak(P, joined, Heard) /\ Sound(P, joined \ paused', kicked)
  <2>1. CASE back = {}
    BY <2>1, <1>1, <1>3, Standing
  <2>2. CASE back # {}
    <3> DEFINE here == joined \ (paused \ {first})
    <3>1. P \in Spawned(post, first, here, alive \cup {first}) /\ first \in back
      BY <2>2, <1>2, <1>3
    <3>2. /\ here \in SUBSET joined /\ (joined \ paused) \subseteq here
          /\ here \subseteq joined \ paused'
          /\ first \in here /\ post.team[first] # "observer"
      BY <1>1, <3>1 DEF Observers
    <3> HIDE DEF here
    <3>3. Weak(P, joined, Heard) /\ Sound(P, here, kicked)
      BY <3>1, <3>2, SpawnedSound
    <3>4. P.rabbit # None
      <4>1. /\ post.rabbit # None => P.rabbit = post.rabbit
            /\ post.rabbit = None =>
                 Full(P, here) /\ MayBeRabbit(P, here) = MayBeRabbit(post, here)
        BY <3>1, <3>2, Standing, SpawnedKeeps
      <4>2. first \in MayBeRabbit(post, here)
        BY <3>2 DEF MayBeRabbit
      <4> QED BY <4>1, <4>2 DEF Full
    <3> QED BY <3>2, <3>3, <3>4 DEF Sound, Held
  <2> QED BY <2>1, <2>2
<1>6. /\ post'.rabbit = P.rabbit /\ post'.team = P.team
      /\ post'.seen = [p \in Players |-> IF p \in back THEN P.team[p] ELSE P.seen[p]]
      /\ post' \in Posts
  BY <1>3, <1>5 DEF Weak, Posts
<1>7. Weak(post', joined, Heard)
  BY <1>5, <1>6, Standing DEF Weak
<1>8. Sound(post', joined \ paused', kicked)
  BY <1>5, <1>6 DEF Sound, Held, MayBeRabbit
<1> QED BY <1>1, <1>4, <1>7, <1>8, Settled DEF IInv, Typed

LEMMA PauseSound == ASSUME IInv, NEW p \in Players, Pause(p)
                    PROVE  After(misspoken)
<1>1. /\ p \in alive /\ paused' = paused \cup {p}
      /\ post' \in Vacated(post, p, joined \ paused', alive, None)
      /\ joined' = joined /\ alive' = alive /\ silent' = silent
      /\ kicked' = kicked /\ gameOver' = gameOver /\ timed' = timed
  BY DEF Pause
<1>2. (joined \ paused') \in SUBSET joined
  OBVIOUS
<1>3. post.rabbit # p => Sound(post, joined \ paused', kicked)
  BY <1>1, Standing DEF Sound, Held, MayBeRabbit
<1>4. Weak(post', joined, Heard) /\ Sound(post', joined \ paused', kicked)
  BY <1>1, <1>2, <1>3, Standing, VacatedSound
<1> QED BY <1>1, <1>4, Settled DEF IInv, Typed

LEMMA UnpauseSound == ASSUME IInv, NEW p \in Players, Unpause(p)
                      PROVE  After(misspoken)
<1>1. /\ p \in alive /\ paused' = paused \ {p}
      /\ post' \in Vacated(post, None, joined \ paused', alive, None)
      /\ joined' = joined /\ alive' = alive /\ silent' = silent
      /\ kicked' = kicked /\ gameOver' = gameOver /\ timed' = timed
  BY DEF Unpause
<1>2. (joined \ paused') \in SUBSET joined
  OBVIOUS
<1>3. post.rabbit # None => Sound(post, joined \ paused', kicked)
  BY <1>1, Standing DEF Sound, Held
<1>4. Weak(post', joined, Heard) /\ Sound(post', joined \ paused', kicked)
  BY <1>1, <1>2, <1>3, Standing, VacatedSound
<1> QED BY <1>1, <1>4, Settled DEF IInv, Typed

LEMMA GoSilentSound == ASSUME IInv, NEW p \in Players, GoSilent(p)
                       PROVE  After(misspoken)
<1>1. /\ p \in alive /\ silent' = silent \cup {p}
      /\ joined' = joined /\ alive' = alive /\ paused' = paused
      /\ kicked' = kicked /\ gameOver' = gameOver /\ timed' = timed
  BY DEF GoSilent
<1>2. PICK P \in Vacated(post, p, joined \ paused, alive, None) : post' = Told(P, p)
  BY DEF GoSilent
<1>3. Weak(P, joined, Heard) /\ Sound(P, joined \ paused, kicked)
  BY <1>2, Standing, VacatedSound
<1>4. Weak(post', joined, Heard) /\ Sound(post', joined \ paused, kicked)
  BY <1>2, <1>3, Standing, ToldKeeps
<1> QED BY <1>1, <1>4, Settled DEF IInv, Typed

LEMMA HeardFromSound == ASSUME IInv, NEW p \in Players, HeardFrom(p)
                        PROVE  After(misspoken)
<1>1. Weak(post', joined, Heard) /\ Sound(post', joined \ paused, kicked)
  BY Standing, ToldKeeps DEF HeardFrom
<1> QED BY <1>1, Settled DEF HeardFrom, IInv, Typed

LEMMA TimeUpSound == ASSUME IInv, TimeUp
                     PROVE  After(misspoken)
<1>1. Weak(post', joined, Heard) /\ Sound(post', joined \ paused, kicked)
  <2>1. CASE timed \in alive
    BY <2>1, Standing, VacatedSound DEF TimeUp, Dies
  <2>2. CASE timed \notin alive
    BY <2>2, Standing DEF TimeUp
  <2> QED BY <2>1, <2>2
<1> QED BY <1>1, Settled DEF TimeUp, IInv, Typed

LEMMA TimesSound == ASSUME IInv, NEW p \in Players, Times(p)
                    PROVE  After(misspoken)
BY DEF Times, IInv, Typed, After, Heard

\* After a handler, who is shown wrong and was not before is who it spoke for.
LEMMA Accounted ==
  ASSUME IInv, NEW left \in SUBSET Players, NEW spoken \in SUBSET Players,
         NEW W \in SUBSET (misspoken \cup spoken), After(W), Behind(left, spoken)
  PROVE  IInv'
<1>1. ghosts' \subseteq Players /\ misspoken' \subseteq Players
  BY DEF Behind, IInv
<1>2. ASSUME NEW p \in Heard' PROVE post'.seen[p] = post'.team[p]
  <2>1. p \in joined' \ kicked' /\ p \notin misspoken'
    BY <1>2 DEF Heard
  <2>2. CASE p \in W
    BY <2>1, <2>2 DEF Behind, Misshown
  <2>3. CASE p \notin W
    BY <2>1, <2>3 DEF After, Weak
  <2> QED BY <2>2, <2>3
<1>3. Weak(post', joined', Heard')
  BY <1>2 DEF After, Weak
<1> QED BY <1>1, <1>3 DEF After, IInv

LEMMA StepsSound == IInv /\ [Next]_vars => IInv'
<1> SUFFICES ASSUME IInv, [Next]_vars PROVE IInv'
  OBVIOUS
<1>1. ASSUME NEW p \in Players, PlayerStep(p), Behind({}, {})
      PROVE  IInv'
  <2>1. ASSUME NEW observes \in BOOLEAN, NEW up \in BOOLEAN, Join(p, observes, up)
        PROVE  After(misspoken)
    BY <2>1, JoinSound
  <2>2. ASSUME \E k \in Players \cup {None} : Kill(p, k)
        PROVE  After(misspoken)
    BY <2>2, KillSound
  <2>3. ASSUME \E k \in Players : LastKill(p, k)
        PROVE  After(misspoken)
    BY <2>3, LastKillSound
  <2>4. ASSUME JoinKicked(p) \/ Respawn(p) \/ Pause(p) \/ Unpause(p)
        PROVE  After(misspoken)
    BY <2>4, JoinKickedSound, RespawnSound, PauseSound, UnpauseSound
  <2>5. ASSUME GoSilent(p) \/ HeardFrom(p) \/ Times(p)
        PROVE  After(misspoken)
    BY <2>5, GoSilentSound, HeardFromSound, TimesSound
  <2>6. After(misspoken)
    BY <1>1, <2>1, <2>2, <2>3, <2>4, <2>5 DEF PlayerStep
  <2> QED BY <1>1, <2>6, Accounted
<1>2. ASSUME NEW p \in Players, Leave(p), Behind(LeftDead(p), {})
      PROVE  IInv'
  <2>1. LeftDead(p) \in SUBSET Players
    BY DEF LeftDead
  <2> QED BY <1>2, <2>1, LeaveSound, Accounted
<1>3. ASSUME NEW p \in Players, NEW had \in {"hunter", "rabbit"},
             GhostRespawn(p, had), Behind({}, {p})
      PROVE  IInv'
  BY <1>3, GhostRespawnSound, Accounted
<1>4. ASSUME ServerStep, Behind({}, {})
      PROVE  IInv'
  <2>1. After(misspoken)
    BY <1>4, EndMatchSound, StartMatchSound, TimeUpSound DEF ServerStep
  <2> QED BY <1>4, <2>1, Accounted
<1>5. CASE UNCHANGED vars
  BY <1>5 DEF vars, IInv, Typed, Heard
<1> QED BY <1>1, <1>2, <1>3, <1>4, <1>5 DEF Next

-----------------------------------------------------------------------------
(* The theorems. *)

\* Every reachable state is sound: the inductive invariant of the post.
THEOREM Sure == Spec => []IInv
BY Initially, StepsSound, PTL DEF Spec

\* Whatever players do, the variables keep their types.
THEOREM TypeCorrect == Spec => []TypeOK
<1>1. IInv => TypeOK
  BY DEF IInv, Typed, TypeOK
<1> QED BY <1>1, Sure, PTL

\* There is one rabbit and it is the one the server names, who is on the
\* rabbit's team unless a kick cut the join of that player short, in the game,
\* not paused and not an observer.
THEOREM TheRabbitIsOne == Spec => []OneRabbitPlays
<1>1. IInv => OneRabbit /\ HolderWearsIt
  BY DEF IInv, Weak, Sound, OneRabbit, HolderWearsIt
<1>2. IInv => HolderPlays
  BY DEF IInv, Sound, Held, HolderPlays
<1>3. IInv => OneRabbitPlays
  BY <1>1, <1>2 DEF OneRabbitPlays
<1> QED BY <1>3, Sure, PTL

\* The post is vacant only while nobody may hold it.
THEOREM PostIsFilled == Spec => []NoVacancy
<1>1. IInv => NoVacancy
  <2> SUFFICES ASSUME IInv, post.rabbit = None
               PROVE  MayBeRabbit(post, joined \ (paused \cup kicked)) = {}
    BY DEF NoVacancy
  <2>1. MayBeRabbit(post, (joined \ paused) \ kicked) = {}
    BY DEF IInv, Sound
  <2>2. (joined \ paused) \ kicked = joined \ (paused \cup kicked)
    OBVIOUS
  <2> QED BY <2>1, <2>2
<1> QED BY <1>1, Sure, PTL

\* The clients show every tank on its team, but for one that shares its id with
\* a departed tank whose record has gone out, until it is told of again.
THEOREM ClientsAgree == Spec => []SeenAsIs
<1>1. IInv => SeenAsIs
  BY DEF IInv, Heard, Weak, SeenAsIs, Misshown
<1> QED BY <1>1, Sure, PTL
-----------------------------------------------------------------------------
(* What ends with a life. *)

Excused == \A p \in Players : p \notin alive /\ p \in alive' /\ p \notin kicked' => p \notin post'.wasRabbit
Deposed == post.rabbit \in alive \ alive' /\ MayBeRabbit(post', alive' \ paused') # {}
             => post'.rabbit # post.rabbit

\* The death of one tank: the post it held has gone to somebody alive who may
\* have it, if there is anybody.
LEMMA DeathMoves ==
  ASSUME IInv, NEW p, NEW k, NEW P \in Dies(p, k)
  PROVE  /\ Weak(P, joined, Heard)
         /\ MayBeRabbit(P, joined \ paused) = MayBeRabbit(post, joined \ paused)
         /\ post.rabbit # p => P = post
         /\ post.rabbit = p /\ (MayBeRabbit(post, joined \ paused) \cap alive) \ {p} # {}
              => P.rabbit \in alive \ {p}
<1>1. P \in Vacated(post, p, joined \ paused, alive \ {p}, k)
  BY DEF Dies
<1>2. /\ Weak(P, joined, Heard)
      /\ MayBeRabbit(P, joined \ paused) = MayBeRabbit(post, joined \ paused)
      /\ post.rabbit # p => P = post
  BY <1>1, Standing, VacatedKeeps
<1>3. post.rabbit = p /\ (MayBeRabbit(post, joined \ paused) \cap (alive \ {p})) \ {p} # {}
        => P.rabbit \in alive \ {p}
  BY <1>1, Standing, VacatedDeposes
<1> QED BY <1>2, <1>3

\* A kill may take two tanks, the killer after the victim.
LEMMA KillDeposes ==
  ASSUME IInv, NEW p \in Players, NEW k \in Players \cup {None}, Kill(p, k) PROVE Deposed
<1> DEFINE pays == TeamKillerDies /\ k \in alive /\ IsTeamKill(k, p)
           here == joined \ paused
<1>1. alive' = alive \ ({p} \cup (IF pays THEN {k} ELSE {})) /\ paused' = paused
  BY DEF Kill
<1>2. PICK P \in Dies(p, k) : post' \in IF pays THEN Vacated(P, k, here, alive', k) ELSE {P}
  BY DEF Kill
<1> HIDE DEF pays
<1>3. /\ Weak(P, joined, Heard) /\ MayBeRabbit(P, here) = MayBeRabbit(post, here)
      /\ post.rabbit # p => P = post
      /\ post.rabbit = p /\ (MayBeRabbit(post, here) \cap alive) \ {p} # {} => P.rabbit \in alive \ {p}
  BY DeathMoves
<1>4. SUFFICES ASSUME post.rabbit \in alive \ alive', MayBeRabbit(post', alive' \ paused') # {}
               PROVE  post'.rabbit # post.rabbit
  BY DEF Deposed
<1>5. MayBeRabbit(post', here) = MayBeRabbit(P, here)
  BY <1>2, <1>3, Standing, VacatedKeeps
<1>6. PICK q \in here \cap alive' : q \in MayBeRabbit(P, here) /\ q \in MayBeRabbit(post, here)
  BY <1>1, <1>3, <1>4, <1>5 DEF MayBeRabbit, IInv, Typed
<1>7. CASE ~pays
  BY <1>1, <1>2, <1>3, <1>4, <1>6, <1>7
<1>8. CASE pays /\ P.rabbit = k
  <2>1. q \in MayBeRabbit(P, here) \cap alive' /\ q # k
    BY <1>1, <1>6, <1>8
  <2>2. post' \in Vacated(P, k, here, alive', k)
    BY <1>2, <1>8
  <2>3. P.rabbit = k /\ (MayBeRabbit(P, here) \cap alive') \ {k} # {}
          => post'.rabbit \in alive' /\ post'.rabbit # k
    <3>1. /\ joined \in SUBSET Players /\ Heard \in SUBSET joined
          /\ here \in SUBSET joined
      BY Standing
    <3> HIDE DEF here
    <3> QED BY <2>2, <1>3, <3>1, VacatedDeposes
  <2> QED BY <2>1, <2>3, <1>4, <1>8
<1>9. CASE pays /\ P.rabbit # k
  <2>1. post' = P
    BY <1>2, <1>3, <1>9, Standing, VacatedKeeps
  <2> QED BY <2>1, <1>1, <1>3, <1>4, <1>6, <1>9
<1> QED BY <1>7, <1>8, <1>9

LEMMA StepEndsOffice ==
  ASSUME IInv, IInv', [Next]_vars PROVE Excused /\ Deposed
<1>1. ASSUME alive \subseteq alive' PROVE Deposed
  BY <1>1 DEF Deposed
<1>2. ASSUME alive' \subseteq alive PROVE Excused
  BY <1>2 DEF Excused
<1>3. ASSUME NEW p \in Players, NEW observes \in BOOLEAN, NEW up \in BOOLEAN, Join(p, observes, up)
      PROVE  Excused /\ Deposed
  <2>1. JoinEnds(p, observes, up)
    BY <1>3, JoinSound
  <2>2. alive' = IF up THEN alive \cup {p} ELSE alive \ {p}
    BY <1>3 DEF Join
  <2> QED BY <2>1, <2>2 DEF JoinEnds, Excused, Deposed
<1>4. ASSUME NEW p \in Players, JoinKicked(p) PROVE Excused /\ Deposed
  BY <1>4 DEF JoinKicked, Excused, Deposed
<1>5. ASSUME NEW p \in Players, Leave(p) PROVE Excused /\ Deposed
  <2>1. joined' = joined \ {p} /\ alive' = alive \ {p}
    BY <1>5 DEF Leave
  <2>2. post'.rabbit # p \/ p = None
    BY <2>1 DEF IInv, Sound, Held
  <2> QED BY <2>1, <2>2, NoneAssumption DEF Excused, Deposed
<1>6. ASSUME NEW p \in Players, NEW k \in Players \cup {None}, Kill(p, k) PROVE Excused /\ Deposed
  BY <1>2, <1>6, KillDeposes DEF Kill
<1>7. ASSUME alive' = {} PROVE Excused /\ Deposed
  BY <1>7 DEF Excused, Deposed, MayBeRabbit
<1>8. ASSUME NEW p \in Players, Respawn(p) PROVE Excused /\ Deposed
  <2>1. alive' = alive \cup {p}
    BY <1>8 DEF Respawn
  <2>2. PICK P \in Spawned(post, p, joined \ paused', alive') : post' = Told(P, p)
    BY <1>8 DEF Respawn
  <2>3. Weak(P, joined, Heard) /\ p \notin P.wasRabbit
    BY <2>2, Standing, SpawnedKeeps, SpawnEndsMark
  <2>4. post'.wasRabbit = P.wasRabbit
    BY <2>2, <2>3 DEF Told, Weak, Posts
  <2> QED BY <2>1, <2>3, <2>4 DEF Excused, Deposed
<1>9. CASE StartMatch
  <2>1. PICK back \in SUBSET (joined \ (alive \cup Observers)) :
          /\ alive' = alive \cup back
          /\ \E P : /\ P \in Posts
                    /\ post' = [P EXCEPT !.wasRabbit = @ \ back,
                                         !.seen = [p \in Players |-> IF p \in back THEN P.team[p] ELSE @[p]]]
    <3>1. PICK back \in SUBSET (joined \ (alive \cup Observers)) :
            /\ alive' = alive \cup back
            /\ \E first \in IF back = {} THEN {None} ELSE back :
               \E P \in IF back = {} THEN {post}
                        ELSE Spawned(post, first, joined \ (paused \ {first}), alive \cup {first}) :
                 post' = [P EXCEPT !.wasRabbit = @ \ back,
                                   !.seen = [p \in Players |-> IF p \in back THEN P.team[p] ELSE @[p]]]
      BY <1>9 DEF StartMatch
    <3>2. PICK first \in IF back = {} THEN {None} ELSE back :
               \E P \in IF back = {} THEN {post}
                        ELSE Spawned(post, first, joined \ (paused \ {first}), alive \cup {first}) :
                 post' = [P EXCEPT !.wasRabbit = @ \ back,
                                   !.seen = [p \in Players |-> IF p \in back THEN P.team[p] ELSE @[p]]]
      BY <3>1
    <3>3. PICK P \in IF back = {} THEN {post}
                     ELSE Spawned(post, first, joined \ (paused \ {first}), alive \cup {first}) :
                 post' = [P EXCEPT !.wasRabbit = @ \ back,
                                   !.seen = [p \in Players |-> IF p \in back THEN P.team[p] ELSE @[p]]]
      BY <3>2
    <3>4. (joined \ (paused \ {first})) \in SUBSET joined
      OBVIOUS
    <3>5. Weak(P, joined, Heard)
      BY <3>3, <3>4, Standing, SpawnedKeeps
    <3> QED BY <3>1, <3>3, <3>5 DEF Weak
  <2>2. \A p \in back : p \notin post'.wasRabbit
    BY <2>1 DEF Posts
  <2> QED BY <2>1, <2>2 DEF Excused, Deposed
<1>10. CASE TimeUp
  <2>1. CASE timed \notin alive
    BY <1>10, <2>1 DEF TimeUp, Excused, Deposed
  <2>2. CASE timed \in alive
    <3>1. alive' = alive \ {timed} /\ paused' = paused /\ post' \in Dies(timed, None)
      BY <1>10, <2>2 DEF TimeUp
    <3>2. SUFFICES ASSUME post.rabbit = timed, MayBeRabbit(post', alive' \ paused) # {}
                   PROVE  post'.rabbit # timed
      BY <3>1, <1>2 DEF Deposed
    <3>3. /\ MayBeRabbit(post', joined \ paused) = MayBeRabbit(post, joined \ paused)
          /\ (MayBeRabbit(post, joined \ paused) \cap alive) \ {timed} # {} => post'.rabbit \in alive \ {timed}
      BY <3>1, <3>2, DeathMoves
    <3>4. (MayBeRabbit(post, joined \ paused) \cap alive) \ {timed} # {}
      BY <3>1, <3>2, <3>3 DEF MayBeRabbit, IInv, Typed
    <3> QED BY <3>3, <3>4
  <2> QED BY <2>1, <2>2
<1>11. ASSUME UNCHANGED alive PROVE Excused /\ Deposed
  BY <1>11 DEF Excused, Deposed
<1> QED
  <2>1. CASE EndMatch \/ \E p, k \in Players : LastKill(p, k)
    BY <1>7, <2>1 DEF EndMatch, LastKill
  <2>2. CASE \E p \in Players : Pause(p) \/ Unpause(p) \/ GoSilent(p) \/ HeardFrom(p) \/ Times(p)
    BY <1>11, <2>2 DEF Pause, Unpause, GoSilent, HeardFrom, Times
  <2>3. CASE UNCHANGED vars
    BY <1>11, <2>3 DEF vars
  <2>4. CASE \E p \in Players, had \in {"hunter", "rabbit"} : GhostRespawn(p, had)
    BY <1>11, <2>4 DEF GhostRespawn
  <2> QED BY <2>1, <2>2, <2>3, <2>4, <1>3, <1>4, <1>5, <1>6, <1>8, <1>9, <1>10
          DEF Next, PlayerStep, ServerStep

\* A life that begins has no mark of an earlier post on it, and one that ends
\* ends with it: a rabbit that dies, of a kill, of its own team kill, of the
\* plugin's clock or of its join to the observers, hands the post on as long
\* as somebody alive may have it (handleRabbitSpawn, applyDeath,
\* anointNewRabbit).
THEOREM PostEndsWithLife == Spec => OfficeEndsWithLife
<1>1. IInv /\ IInv' /\ [Next]_vars
        => [\A p \in Players : p \notin alive /\ p \in alive' /\ p \notin kicked'
              => p \notin post'.wasRabbit]_vars
  BY StepEndsOffice DEF Excused
<1>2. IInv /\ IInv' /\ [Next]_vars
        => [post.rabbit \in alive \ alive' /\ MayBeRabbit(post', alive' \ paused') # {}
              => post'.rabbit # post.rabbit]_vars
  BY StepEndsOffice DEF Deposed
<1> QED BY <1>1, <1>2, Sure, PTL DEF Spec, OfficeEndsWithLife, SpawnEndsExcuse, DeathDeposes
=============================================================================
