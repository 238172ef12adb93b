-------------------------------- MODULE Polls --------------------------------
(***************************************************************************)
(* Polls: VotingArbiter of server/polls.cjs, the commands of src/server.js *)
(* that drive it, and its clock tickPoll.  Voters are callsigns of players *)
(* who are signed in; a callsign may for a while have a second connection  *)
(* that its player has left behind: replaced (a page that reconnected) or  *)
(* dropped (the account signed in on another device).                      *)
(*                                                                         *)
(* Time passes in seconds.  Left out: what the poll is about (its action   *)
(* changes nothing here), the fifteen second reminders, the plugins' say   *)
(* in who may ask or vote, and players without the right to poll.          *)
(***************************************************************************)
EXTENDS Integers, FiniteSets

CONSTANTS
  Names,          \* the callsigns
  VoteTime, VetoTime, VoteRepeatTime,
  VotesRequired,
  PerMille,       \* votePercentage, 50.1 by default, as 501
  Reconnecting,   \* the callsigns that leave connections behind
  LateLeaves      \* a voter may leave between a success and its veto time's end

ASSUME NamesAssumption == IsFiniteSet(Names) /\ Reconnecting \subseteq Names
ASSUME TimesAssumption == {VoteTime, VetoTime, VoteRepeatTime} \subseteq Nat /\ VoteTime > 0
ASSUME MajorityAssumption == VotesRequired \in Nat /\ PerMille \in 501 .. 1000

VARIABLES
  here,        \* the callsigns in the game
  replaced,    \* those with an earlier connection whose close is to come
  dropped,     \* the same, of connections that lost their rights
  booth,       \* a poll is known
  age,         \* elapsed, counted to the end of the veto time
  yes, no,     \* who voted what
  suffraged,   \* who may vote
  maxVotes,
  announced,   \* what pollAnnounced holds
  asked,       \* time since each callsign's last poll, counted to its end
  outcome      \* of the last poll that ended

roster == <<here, replaced, dropped>>
ballot == <<yes, no, suffraged, maxVotes>>
vars == <<roster, booth, age, ballot, announced, asked, outcome>>

MaxAge == VoteTime + VetoTime + 1
MaxAsked == VoteRepeatTime + 1

TypeOK ==
  /\ here \subseteq Names /\ replaced \subseteq Names /\ dropped \subseteq Names
  /\ booth \in BOOLEAN
  /\ age \in 0 .. MaxAge
  /\ yes \subseteq Names /\ no \subseteq Names /\ suffraged \subseteq Names
  /\ maxVotes \in Nat
  /\ announced \subseteq {"opening", "ended", "results", "closure"}
  /\ asked \in [Names -> 0 .. MaxAsked]
  /\ outcome \in {"none", "failed", "carried", "vetoed"}

Init ==
  /\ here = {} /\ replaced = {} /\ dropped = {}
  /\ booth = FALSE /\ age = 0
  /\ yes = {} /\ no = {} /\ suffraged = {} /\ maxVotes = 0
  /\ announced = {}
  /\ asked = [n \in Names |-> MaxAsked]
  /\ outcome = "none"

-----------------------------------------------------------------------------
(* VotingArbiter. *)

IsPollClosed == booth /\ age >= VoteTime
IsPollExpired == booth /\ age > VoteTime + VetoTime

HasSuffrage(n) ==
  /\ booth /\ age < VoteTime
  /\ n \in suffraged \ (yes \cup no)
  /\ Cardinality(yes \cup no) < maxVotes

IsPollSuccessful_ofVotes ==
  LET cast == Cardinality(yes) + Cardinality(no)
  IN  /\ cast >= VotesRequired /\ cast > 0
      /\ 1000 * Cardinality(yes) >= PerMille * cast

\* The share is of everybody who may vote: who did not is an abstention.
IsPollSuccessful ==
  LET cast == Cardinality(yes) + Cardinality(no)
      silent == Cardinality(suffraged) - cast
  IN  /\ booth
      /\ cast >= VotesRequired /\ cast > 0
      /\ 1000 * Cardinality(yes) >= PerMille * (cast + IF silent > 0 THEN silent ELSE 0)

ForgetPoll(result) ==
  /\ booth' = FALSE /\ age' = 0
  /\ yes' = {} /\ no' = {} /\ suffraged' = {}
  /\ announced' = {}
  /\ outcome' = result
  /\ UNCHANGED <<maxVotes, asked>>

\* closePoll: a success before the time is up closes the poll at once.
ClosedAge_restarts == 0
ClosedAge_future == 0 - VoteTime
ClosedAge == VoteTime

RetractVote(n) == yes' = yes \ {n} /\ no' = no \ {n}

-----------------------------------------------------------------------------
(* The commands. *)

\* A replaced connection counts as a voter of its own until it closes.
Voters_once == Cardinality(here)
Voters == Cardinality(here) + Cardinality(replaced)

\* /poll: the players who may vote are those here now; whoever asked votes yes.
Poll(n) ==
  /\ n \in here /\ ~booth
  /\ Voters - 1 >= VotesRequired
  /\ asked[n] > VoteRepeatTime
  /\ booth' = TRUE /\ age' = 0
  /\ suffraged' = suffraged \cup here \cup replaced
  /\ maxVotes' = Voters
  /\ yes' = {n} /\ no' = {}
  /\ asked' = [asked EXCEPT ![n] = 0]
  /\ UNCHANGED <<roster, announced, outcome>>

\* /vote
Vote(n, inFavor) ==
  /\ n \in here /\ HasSuffrage(n)
  /\ yes' = IF inFavor THEN yes \cup {n} ELSE yes
  /\ no' = IF inFavor THEN no ELSE no \cup {n}
  /\ UNCHANGED <<roster, booth, age, suffraged, maxVotes, announced, asked, outcome>>

\* /veto, and a plugin's bz_pollVeto.
Veto == booth /\ ForgetPoll("vetoed") /\ UNCHANGED roster

-----------------------------------------------------------------------------
(* Coming and going. *)

Join(n) ==
  /\ \/ n \notin here /\ UNCHANGED <<replaced, dropped>>
     \/ n \in here \cap Reconnecting /\ replaced' = replaced \cup {n} /\ UNCHANGED dropped
     \/ n \in here \cap Reconnecting /\ dropped' = dropped \cup {n} /\ UNCHANGED replaced
  /\ here' = here \cup {n}
  /\ UNCHANGED <<booth, age, ballot, announced, asked, outcome>>

\* The close of a connection takes back the vote of its callsign: also when it
\* is one left behind, and the vote its player's who is still here.
Leave(n) ==
  /\ \/ n \in here /\ here' = here \ {n} /\ UNCHANGED <<replaced, dropped>>
     \/ n \in replaced /\ replaced' = replaced \ {n} /\ UNCHANGED <<here, dropped>>
     \/ n \in dropped /\ dropped' = dropped \ {n} /\ UNCHANGED <<here, replaced>>
  /\ RetractVote(n)
  /\ UNCHANGED <<booth, age, suffraged, maxVotes, announced, asked, outcome>>
  /\ LateLeaves \/ "closure" \notin announced \/ IsPollSuccessful'

-----------------------------------------------------------------------------
(* tickPoll.  A closed poll that is not successful, but was announced as a  *)
(* success, it leaves as it is.                                             *)

TickOpen ==
  /\ booth /\ ~IsPollClosed
  /\ announced' = announced \cup {"opening"}
  /\ age' = IF IsPollSuccessful THEN ClosedAge ELSE age
  /\ UNCHANGED <<roster, booth, ballot, asked, outcome>>

TickFailed ==
  /\ IsPollClosed /\ ~IsPollSuccessful
  /\ "closure" \notin announced
  /\ ForgetPoll("failed")
  /\ UNCHANGED roster

TickScheduled ==
  /\ IsPollClosed /\ IsPollSuccessful /\ ~IsPollExpired
  /\ announced' = {"opening", "ended", "results", "closure"}
  /\ UNCHANGED <<roster, booth, age, ballot, asked, outcome>>

TickCarried ==
  /\ IsPollExpired /\ IsPollSuccessful
  /\ ForgetPoll("carried")
  /\ UNCHANGED roster

Tick == TickOpen \/ TickFailed \/ TickScheduled \/ TickCarried

Later(t, last) == IF t < last THEN t + 1 ELSE last
Second ==
  /\ age' = IF booth THEN Later(age, MaxAge) ELSE age
  /\ asked' = [n \in Names |-> Later(asked[n], MaxAsked)]
  /\ UNCHANGED <<roster, booth, ballot, announced, outcome>>

-----------------------------------------------------------------------------
Command(n) == Poll(n) \/ \E inFavor \in BOOLEAN : Vote(n, inFavor)
Next ==
  \/ \E n \in Names : Command(n) \/ Join(n) \/ Leave(n)
  \/ Veto
  \/ Tick
  \/ Second

\* Time passes, and tickPoll is on an interval of a quarter of a second.
Fairness == WF_vars(Second) /\ WF_vars(Tick)

Spec == Init /\ [][Next]_vars
FairSpec == Spec /\ Fairness

-----------------------------------------------------------------------------
(* Properties. *)

\* Nobody who may vote finds the booth full: the bound on the number of
\* votes, a count of connections, is never what turns a voter away.
NobodyCrowdedOut ==
  booth => \A n \in suffraged \ (yes \cup no) : Cardinality(yes \cup no) < maxVotes

\* "A voter who leaves takes the vote with them" (retractVote): whoever's vote
\* counts is still in the game, whatever was closed, replaced or dropped.
VotersAreHere == yes \cup no \subseteq here

\* A poll leaves nothing to the next: no votes, no right to vote given to
\* someone who may have left by then, and no announcement taken for made.
FreshBooth == ~booth => yes \cup no \cup suffraged = {} /\ announced = {}

\* The vote is fair: those who may vote can, those who left do not count, and
\* every poll starts from nothing.
VotesAreFair == NobodyCrowdedOut /\ VotersAreHere /\ FreshBooth

\* What is carried out has the yes of more than half of all who could vote.
MajorityDecides ==
  [][booth /\ ~booth' /\ outcome' = "carried"
     => 2 * Cardinality(yes) > Cardinality(suffraged) /\ yes \cap no = {}]_vars

\* No poll lasts for ever: the clock announces "the result, and once the veto
\* time is over, the action" (tickPoll), and the next poll may be asked for.
PollEnds == booth ~> ~booth
=============================================================================
