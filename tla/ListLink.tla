------------------------------ MODULE ListLink ------------------------------
(***************************************************************************)
(* Publication to the BZFlag list: one request in flight, whatever is asked *)
(* for meanwhile collapsed into one more, and a server that leaves says so  *)
(* at once.                                                                *)
(*                                                                         *)
(* `state' numbers what the server would say of itself; a request carries   *)
(* the number it was built from, reaches the list or not, and returns or    *)
(* fails afterwards; a request that failed is not taken later.              *)
(***************************************************************************)
EXTENDS Naturals, FiniteSets

CONSTANTS
  MaxChanges,   \* how often the server's state changes: a bound
  MaxReAdds     \* how often the quarter of an hour passes: a bound

ASSUME ListLinkAssumption == MaxChanges \in Nat /\ MaxReAdds \in Nat

VARIABLES
  ready,      \* serverIsReady
  leaving,    \* listServerShuttingDown
  state,
  readds,     \* how many periodic reports there have been
  inFlight,   \* bzflagListInFlight
  queued,     \* bzflagListQueued is not null
  sent,       \* how many requests there have been
  requests,   \* those on their way, and whether the list has taken them
  listed,     \* what the list shows: a state, or Nothing
  failed      \* some request failed

linkVars == <<ready, leaving, state, readds, inFlight, queued, sent, requests, listed, failed>>

Nothing == MaxChanges + 1
States == 0..MaxChanges
Requests == [n : Nat, action : {"ADD", "REMOVE"}, state : States, had : BOOLEAN]

LinkTypeOK ==
  /\ ready \in BOOLEAN /\ leaving \in BOOLEAN /\ state \in States
  /\ readds \in 0..MaxReAdds
  /\ inFlight \in BOOLEAN /\ queued \in BOOLEAN /\ failed \in BOOLEAN
  /\ sent \in Nat /\ requests \subseteq Requests
  /\ listed \in States \cup {Nothing}

LinkInit ==
  /\ ready = FALSE /\ leaving = FALSE /\ state = 0 /\ readds = 0
  /\ inFlight = FALSE /\ queued = FALSE /\ sent = 0 /\ requests = {}
  /\ listed = Nothing /\ failed = FALSE

(* publishToBzflagListServer *)
Publishes(action, now, on) ==
  /\ inFlight' = TRUE /\ sent' = sent + 1
  /\ requests' = on \cup {[n |-> sent, action |-> action, state |-> now, had |-> FALSE]}

ReportToListServer_always(now) ==
  IF ready THEN Publishes("ADD", now, requests) /\ UNCHANGED queued
           ELSE UNCHANGED <<inFlight, queued, sent, requests>>
ReportToListServer_drops(now) ==
  IF ready /\ ~inFlight THEN Publishes("ADD", now, requests) /\ UNCHANGED queued
                        ELSE UNCHANGED <<inFlight, queued, sent, requests>>

ReportToListServer(now) ==
  IF ~ready THEN UNCHANGED <<inFlight, queued, sent, requests>>
  ELSE IF inFlight THEN queued' = TRUE /\ UNCHANGED <<inFlight, sent, requests>>
       ELSE Publishes("ADD", now, requests) /\ UNCHANGED queued

(* The first report, once the server can answer a check. *)
Ready ==
  /\ ~ready /\ ~leaving
  /\ ready' = TRUE
  /\ Publishes("ADD", state, requests)
  /\ UNCHANGED <<leaving, state, readds, queued, listed, failed>>

(* Somebody joins or parts. *)
Change ==
  /\ state < MaxChanges /\ ~leaving
  /\ state' = state + 1
  /\ ReportToListServer(state + 1)
  /\ UNCHANGED <<ready, leaving, readds, listed, failed>>

Periodic ==
  /\ readds < MaxReAdds /\ ~leaving
  /\ readds' = readds + 1
  /\ ReportToListServer(state)
  /\ UNCHANGED <<ready, leaving, state, listed, failed>>

(* SIGTERM: REMOVE at once, whatever is in flight. *)
Shutdown ==
  /\ ~leaving
  /\ leaving' = TRUE
  /\ Publishes("REMOVE", state, requests)
  /\ UNCHANGED <<ready, state, readds, queued, listed, failed>>

ListTakes(r) ==
  /\ ~r.had
  /\ requests' = (requests \ {r}) \cup {[r EXCEPT !.had = TRUE]}
  /\ listed' = IF r.action = "ADD" THEN r.state ELSE Nothing
  /\ UNCHANGED <<ready, leaving, state, readds, inFlight, queued, sent, failed>>

(* `finally': what was asked for meanwhile is sent, as things are now. *)
Returned(r) ==
  /\ queued' = FALSE
  /\ IF queued THEN Publishes("ADD", state, requests \ {r})
               ELSE inFlight' = FALSE /\ requests' = requests \ {r} /\ UNCHANGED sent
  /\ UNCHANGED <<ready, leaving, state, readds, listed>>

Replied(r) == r.had /\ Returned(r) /\ UNCHANGED failed
Failed(r) == Returned(r) /\ failed' = TRUE

LinkNext ==
  \/ Ready \/ Change \/ Periodic \/ Shutdown
  \/ \E r \in requests : ListTakes(r) \/ Replied(r) \/ Failed(r)

(* The list answers what it is asked. *)
LinkFairness ==
  /\ WF_linkVars(\E r \in requests : ListTakes(r))
  /\ WF_linkVars(\E r \in requests : Replied(r))

LinkSpec == LinkInit /\ [][LinkNext]_linkVars /\ LinkFairness

-----------------------------------------------------------------------------
(* Properties.                                                              *)

(* One request in flight: two ADDs are never on their way together, so the  *)
(* list cannot take the older one last; only leaving may overtake.          *)
OneRequest == ~leaving => Cardinality(requests) = (IF inFlight THEN 1 ELSE 0)

(* What waits is sent: nothing waits behind a flag nobody will clear.       *)
QueueHasRunner == queued => inFlight /\ requests # {}

(* The link is in order: what is asked for is on its way once, or waits      *)
(* behind what is.                                                          *)
LinkIsOrderly == OneRequest /\ QueueHasRunner

(* Unless a request fails or the server leaves, the list comes to show the  *)
(* server as it last was, however many changes came while a request was on  *)
(* its way.                                                                 *)
LastChangeTold == []~ready \/ <>(failed \/ leaving) \/ <>[](listed = state)
=============================================================================
