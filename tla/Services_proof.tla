--------------------------- MODULE Services_proof ---------------------------
(***************************************************************************)
(* The two lists a server is on, for any number of changes, keys, retries  *)
(* and challenges: one request is on its way to the BZFlag list at a time, *)
(* and bzo's list keeps one key for a URL, which its file knows of.  And   *)
(* the types of all the services, side by side.                            *)
(***************************************************************************)
EXTENDS MCServices, Channels_proof, MatchClock_proof, Bots_proof, FiniteSetTheorems, TLAPS

-----------------------------------------------------------------------------
(* The link to the BZFlag list.                                             *)

\* Until the server leaves, what is in flight is one request, and nothing is
\* before the first report.
Alone == ~leaving => IF inFlight THEN \E r : requests = {r} ELSE requests = {}
NothingBeforeReady == ~ready /\ ~leaving => ~inFlight

LinkInv ==
  /\ inFlight \in BOOLEAN /\ queued \in BOOLEAN
  /\ Alone /\ NothingBeforeReady /\ QueueHasRunner

\* A request starts only where none is in flight, unless the server leaves.
LEMMA PublishKeeps ==
  ASSUME NEW action, NEW now, NEW others, Publishes(action, now, others), others = {} \/ leaving'
  PROVE  Alone' /\ inFlight' /\ requests' # {}
BY DEF Publishes, Alone

LEMMA ReportKeeps ==
  ASSUME LinkInv, NEW now, ReportToListServer(now), UNCHANGED <<ready, leaving>>, ~leaving
  PROVE  LinkInv'
<1>1. CASE ~ready
  BY <1>1 DEF ReportToListServer, LinkInv, Alone, NothingBeforeReady, QueueHasRunner
<1>2. CASE ready /\ inFlight
  BY <1>2 DEF ReportToListServer, LinkInv, Alone, NothingBeforeReady, QueueHasRunner
<1>3. CASE ready /\ ~inFlight
  <2>1. Publishes("ADD", now, requests) /\ UNCHANGED queued /\ requests = {}
    BY <1>3 DEF ReportToListServer, LinkInv, Alone
  <2>2. Alone' /\ inFlight' /\ inFlight' \in BOOLEAN /\ requests' # {}
    BY <2>1, PublishKeeps DEF Publishes
  <2>. QED  BY <1>3, <2>1, <2>2 DEF LinkInv, NothingBeforeReady, QueueHasRunner
<1>. QED  BY <1>1, <1>2, <1>3

\* The request that comes back was alone, or the server leaves.
LEMMA ReturnKeeps ==
  ASSUME LinkInv, NEW r \in requests, Returned(r)
  PROVE  LinkInv'
<1>1. /\ queued' = FALSE /\ UNCHANGED <<ready, leaving>>
      /\ requests \ {r} = {} \/ leaving'
  BY DEF Returned, LinkInv, Alone
<1>2. CASE queued
  <2>1. Publishes("ADD", state, requests \ {r})
    BY <1>2 DEF Returned
  <2>2. Alone' /\ inFlight' /\ inFlight' \in BOOLEAN /\ requests' # {}
    BY <1>1, <2>1, PublishKeeps DEF Publishes
  <2>3. ready \/ leaving
    BY <1>2 DEF LinkInv, NothingBeforeReady, QueueHasRunner
  <2>. QED  BY <1>1, <2>2, <2>3 DEF LinkInv, NothingBeforeReady, QueueHasRunner
<1>3. CASE ~queued
  <2>1. inFlight' = FALSE /\ requests' = requests \ {r}
    BY <1>3 DEF Returned
  <2>. QED  BY <1>1, <2>1 DEF LinkInv, Alone, NothingBeforeReady, QueueHasRunner
<1>. QED  BY <1>2, <1>3 DEF LinkInv

LEMMA LinkStep == LinkInv /\ [LinkNext]_linkVars => LinkInv'
<1>. SUFFICES ASSUME LinkInv, [LinkNext]_linkVars PROVE LinkInv'
  OBVIOUS
<1>1. CASE Ready
  <2>1. Publishes("ADD", state, requests) /\ UNCHANGED queued /\ requests = {} /\ ready' = TRUE
    BY <1>1 DEF Ready, LinkInv, Alone, NothingBeforeReady
  <2>2. Alone' /\ inFlight' /\ inFlight' \in BOOLEAN /\ requests' # {}
    BY <2>1, PublishKeeps DEF Publishes
  <2>. QED  BY <2>1, <2>2 DEF LinkInv, NothingBeforeReady, QueueHasRunner
<1>2. CASE Change
  BY <1>2, ReportKeeps DEF Change
<1>3. CASE Periodic
  BY <1>3, ReportKeeps DEF Periodic
<1>4. CASE Shutdown
  <2>1. Publishes("REMOVE", state, requests) /\ UNCHANGED queued /\ leaving' = TRUE
    BY <1>4 DEF Shutdown
  <2>2. Alone' /\ inFlight' /\ inFlight' \in BOOLEAN /\ requests' # {}
    BY <2>1, PublishKeeps DEF Publishes
  <2>. QED  BY <2>1, <2>2 DEF LinkInv, NothingBeforeReady, QueueHasRunner
<1>5. ASSUME NEW r \in requests, ListTakes(r)
      PROVE  LinkInv'
  BY <1>5 DEF ListTakes, LinkInv, Alone, NothingBeforeReady, QueueHasRunner
<1>6. ASSUME NEW r \in requests, Replied(r) \/ Failed(r)
      PROVE  LinkInv'
  BY <1>6, ReturnKeeps DEF Replied, Failed
<1>7. CASE UNCHANGED linkVars
  BY <1>7 DEF linkVars, LinkInv, Alone, NothingBeforeReady, QueueHasRunner
<1>. QED  BY <1>1, <1>2, <1>3, <1>4, <1>5, <1>6, <1>7 DEF LinkNext

LEMMA LinkAlways == LinkSpec => []LinkInv
<1>1. LinkInit => LinkInv
  BY DEF LinkInit, LinkInv, Alone, NothingBeforeReady, QueueHasRunner
<1>. QED  BY <1>1, LinkStep, PTL DEF LinkSpec

\* Two reports are never on their way together while the server stays, so the
\* list cannot take them in the wrong order, and what waits has something to
\* wait for (publishToBzflagListServer's inFlight and queued).
THEOREM LinkStaysOrderly == LinkSpec => []LinkIsOrderly
<1>1. ASSUME LinkInv PROVE LinkIsOrderly
  <2>1. ASSUME ~leaving PROVE Cardinality(requests) = IF inFlight THEN 1 ELSE 0
    <3>1. CASE inFlight
      <4>1. PICK r : requests = {r}
        BY <1>1, <2>1, <3>1 DEF LinkInv, Alone
      <4>. QED  BY <3>1, <4>1, FS_Singleton
    <3>2. CASE ~inFlight
      BY <1>1, <2>1, <3>2, FS_EmptySet DEF LinkInv, Alone
    <3>. QED  BY <3>1, <3>2
  <2>. QED  BY <1>1, <2>1 DEF LinkInv, LinkIsOrderly, OneRequest
<1>. QED  BY <1>1, LinkAlways, PTL

-----------------------------------------------------------------------------
(* The keys of bzo's list.                                                  *)

\* One key is registered, and one is what the file would bring back.
OneRegistered == \A j, k \in Registered : j = k
OneSaved == \A j, k \in saved \ savedOld : j = k

KeyInv ==
  /\ row \in [Keys -> {"unused", "registered", "gone"}]
  /\ pending \in BOOLEAN /\ unwritten \in BOOLEAN
  /\ saved \subseteq Keys /\ old \subseteq Registered
  /\ OneRegistered /\ OneSaved /\ FileKeepsUp

\* What challenges and reports leave alone.
registry == <<row, old, file>>

\* Where the registry stays, a write that is asked for does no harm.
LEMMA RegistryStays ==
  ASSUME KeyInv, UNCHANGED registry, pending' \in BOOLEAN, pending => pending'
  PROVE  KeyInv'
BY DEF KeyInv, registry, file, OneRegistered, OneSaved, FileKeepsUp, Registered

LEMMA KeyStep == KeyInv /\ [KeyNext]_keyVars => KeyInv'
<1>. SUFFICES ASSUME KeyInv, [KeyNext]_keyVars PROVE KeyInv'
  OBVIOUS
<1>0. pending \in BOOLEAN
  BY DEF KeyInv
<1>1. CASE SweepExpired
  <2>1. /\ Registered' = Registered \ old /\ old' = {}
        /\ row' \in [Keys -> {"unused", "registered", "gone"}]
    BY <1>1 DEF SweepExpired, Gone, KeyInv, Registered
  <2>2. pending' \in BOOLEAN /\ (pending => pending') /\ UNCHANGED <<saved, savedOld, unwritten>>
    BY <1>0, <1>1 DEF SweepExpired, file
  <2>3. FileKeepsUp'
    <3>1. Registered' \ old' = Registered \ old
      BY <2>1
    <3>. QED  BY <2>2, <3>1 DEF KeyInv, FileKeepsUp
  <2>. QED  BY <2>1, <2>2, <2>3 DEF KeyInv, OneRegistered, OneSaved
<1>2. CASE Write
  BY <1>2 DEF Write, KeyInv, OneRegistered, OneSaved, FileKeepsUp, Registered
<1>13. CASE WriteFails
  BY <1>13 DEF WriteFails, CutShort, KeyInv, OneRegistered, OneSaved, FileKeepsUp, Registered
<1>3. CASE TimerFires
  BY <1>0, <1>3, RegistryStays DEF TimerFires, Retries, registry
<1>4. ASSUME NEW t \in Timers, StrayFires(t) PROVE KeyInv'
  BY <1>0, <1>4, RegistryStays DEF StrayFires, Retries, registry
<1>5. CASE Crash
  BY <1>5 DEF Crash, CutShort, KeyInv, OneRegistered, OneSaved, FileKeepsUp, Registered
<1>6. ASSUME NEW k \in Keys, RequestKey(k) PROVE KeyInv'
  BY <1>6 DEF RequestKey, UrlTaken, file, KeyInv, OneRegistered, OneSaved, FileKeepsUp, Registered
<1>7. ASSUME NEW k \in Keys, Revoke(k) PROVE KeyInv'
  BY <1>7 DEF Revoke, Gone, file, KeyInv, OneRegistered, OneSaved, FileKeepsUp, Registered
<1>8. ASSUME NEW k \in Keys, GrowsOld(k) PROVE KeyInv'
  BY <1>8 DEF GrowsOld, KeyInv, OneRegistered, OneSaved, FileKeepsUp, Registered
<1>9. ASSUME NEW k \in Keys, CheckPasses(k) PROVE KeyInv'
  BY <1>9 DEF CheckPasses, file, KeyInv, OneRegistered, OneSaved, FileKeepsUp, Registered
<1>10. ASSUME NEW k \in Keys, Poll(k) \/ CheckFails(k) PROVE KeyInv'
  BY <1>0, <1>10, RegistryStays DEF Poll, CheckFails, registry
<1>11. ASSUME NEW k \in Keys, NEW r, Report(k, r) PROVE KeyInv'
  BY <1>0, <1>11, RegistryStays DEF Report, registry
<1>12. CASE UNCHANGED keyVars
  BY <1>0, <1>12, RegistryStays DEF keyVars, registry, file
<1>. QED  BY <1>1, <1>2, <1>3, <1>4, <1>5, <1>6, <1>7, <1>8, <1>9, <1>10, <1>11, <1>12, <1>13 DEF KeyNext

LEMMA KeyAlways == KeySpec => []KeyInv
<1>1. KeyInit => KeyInv
  BY DEF KeyInit, KeyInv, OneRegistered, OneSaved, FileKeepsUp, Registered
<1>. QED  BY <1>1, KeyStep, PTL DEF KeySpec

\* One key answers for a server and the file says so, or is about to, or its
\* last write failed and nothing has changed since: through late answers,
\* sweeps, revocations, restarts and files cut short (list-server.cjs, and the
\* writes that server.js schedules).
THEOREM RegistryStaysKept == KeySpec => []RegistryIsKept
<1>1. KeyInv => RegistryIsKept
  BY DEF KeyInv, OneRegistered, FileKeepsUp, RegistryIsKept, OneKeyPerServer
<1>. QED  BY <1>1, KeyAlways, PTL

\* A key that is gone comes back only when the list server dies and finds a
\* file from before the key went, which it had not written again, or had tried
\* to and failed: no answer to a challenge, and no report, revives it.
THEOREM GoneForGood == KeySpec => GoneStaysGone
<1>1. ASSUME KeyInv, KeyNext, NEW k \in Keys, row[k] = "gone", row'[k] # "gone"
      PROVE  (pending \/ unwritten) /\ k \in saved /\ checks' = [j \in Keys |-> 0]
  <2>1. Crash
    <3>1. ASSUME NEW j \in Keys, RequestKey(j) PROVE FALSE
      BY <1>1, <3>1 DEF RequestKey, KeyInv
    <3>2. ASSUME NEW S, Gone(S) PROVE FALSE
      BY <1>1, <3>2 DEF Gone, KeyInv
    <3>3. row' # row
      BY <1>1
    <3>. QED  BY <1>1, <3>1, <3>2, <3>3 DEF KeyNext, SweepExpired, Write, WriteFails, TimerFires, StrayFires, Retries,
           Revoke, GrowsOld, Poll, CheckPasses, CheckFails, Report
  <2>2. k \in saved \ savedOld /\ k \notin Registered
    BY <1>1, <2>1 DEF Crash, CutShort, Registered, KeyInv
  <2>. QED  BY <1>1, <2>1, <2>2 DEF Crash, KeyInv, FileKeepsUp
<1>2. KeyInv /\ [KeyNext]_keyVars
      => [\A k \in Keys : row[k] = "gone" /\ row'[k] # "gone"
            => (pending \/ unwritten) /\ k \in saved /\ checks' = [j \in Keys |-> 0]]_keyVars
  BY <1>1
<1>. QED  BY <1>2, KeyAlways, PTL DEF KeySpec, GoneStaysGone

-----------------------------------------------------------------------------
(* Types, and how far a chain of retries gets.                              *)

\* A timer is set, and runs on astray, only for an attempt before the last.
RetriesCounted ==
  /\ chain \in [attempt : 0..Attempts, timer : Keys \cup {NoKey}]
  /\ strays \in [Timers -> Nat] /\ checks \in [Keys -> Nat]
  /\ chain.timer # NoKey => chain.attempt < Attempts
  /\ \A t \in Timers : strays[t] > 0 => t[2] < Attempts

\* What challenges are counted in.
retrying == <<chain, strays, checks>>

LEMMA ChallengeCounts ==
  ASSUME RetriesCounted, NEW k \in Keys, Challenges(k)
  PROVE  checks' \in [Keys -> Nat]
BY DEF RetriesCounted, Challenges

LEMMA AnswerCounts ==
  ASSUME RetriesCounted, NEW k \in Keys, Answered(k)
  PROVE  checks' \in [Keys -> Nat]
BY DEF RetriesCounted, Answered

\* A chain that is cut leaves at most its timer behind.
LEMMA AstrayCounts ==
  ASSUME RetriesCounted
  PROVE  /\ Astray \in [Timers -> Nat]
         /\ \A t \in Timers : Astray[t] > 0 => t[2] < Attempts
         /\ \A t \in Timers : Astray[t] >= strays[t]
<1>1. CASE chain.timer = NoKey
  BY <1>1 DEF RetriesCounted, Astray
<1>2. CASE chain.timer # NoKey
  <2>. DEFINE c == <<chain.timer, chain.attempt>>
  <2>1. c \in Timers /\ c[2] < Attempts
    BY <1>2 DEF RetriesCounted, Timers
  <2>2. Astray = [strays EXCEPT ![c] = @ + 1]
    BY <1>2 DEF Astray
  <2>. HIDE DEF c
  <2>. QED  BY <2>1, <2>2 DEF RetriesCounted
<1>. QED  BY <1>1, <1>2

LEMMA NoChainCounts ==
  /\ NoChain \in [attempt : 0..Attempts, timer : Keys \cup {NoKey}]
  /\ NoChain.timer = NoKey
BY ListAssumption DEF NoChain

LEMMA StartCounts ==
  ASSUME RetriesCounted, NEW k \in Keys, StartsOver(k), UNCHANGED strays
  PROVE  RetriesCounted'
BY ChallengeCounts, NoChainCounts DEF StartsOver, RetriesCounted

LEMMA FailCounts ==
  ASSUME RetriesCounted, NEW k \in Keys, CheckFails(k)
  PROVE  RetriesCounted'
<1>1. /\ Rescheduled(k) \in [attempt : 0..Attempts, timer : Keys \cup {NoKey}]
      /\ Rescheduled(k).timer # NoKey => Rescheduled(k).attempt < Attempts
  BY NoChainCounts, ListAssumption DEF Rescheduled, RetriesCounted
<1>2. chain' = Rescheduled(k) /\ strays' = strays /\ checks' \in [Keys -> Nat]
  BY AnswerCounts DEF CheckFails
<1>. QED  BY <1>1, <1>2 DEF RetriesCounted

LEMMA PassCounts ==
  ASSUME RetriesCounted, NEW k \in Keys, CheckPasses(k)
  PROVE  RetriesCounted'
<1>1. chain' = NoChain /\ strays' = Astray /\ checks' \in [Keys -> Nat]
  BY AnswerCounts DEF CheckPasses
<1>. QED  BY <1>1, NoChainCounts, AstrayCounts DEF RetriesCounted

\* One more attempt than one before the last is at most the last.
LEMMA RetryCounts ==
  ASSUME RetriesCounted, NEW k \in Keys, NEW n \in 0..Attempts, n < Attempts, Retries(k, n)
  PROVE  /\ chain' \in [attempt : 0..Attempts, timer : Keys \cup {NoKey}]
         /\ chain'.timer = NoKey /\ checks' \in [Keys -> Nat]
BY ListAssumption, ChallengeCounts DEF Retries

LEMMA TimerCounts ==
  ASSUME RetriesCounted, TimerFires
  PROVE  RetriesCounted'
<1>1. /\ chain.timer \in Keys /\ chain.attempt \in 0..Attempts /\ chain.attempt < Attempts
      /\ Retries(chain.timer, chain.attempt) /\ UNCHANGED strays
  BY DEF TimerFires, RetriesCounted
<1>. QED  BY <1>1, ListAssumption, ChallengeCounts DEF Retries, RetriesCounted

LEMMA StrayCounts ==
  ASSUME RetriesCounted, NEW t \in Timers, StrayFires(t)
  PROVE  RetriesCounted'
<1>1. strays[t] > 0 /\ Retries(t[1], t[2]) /\ strays' = [Astray EXCEPT ![t] = @ - 1]
  BY DEF StrayFires
<1>2. t[1] \in Keys /\ t[2] \in 0..Attempts /\ t[2] < Attempts
  BY <1>1 DEF Timers, RetriesCounted
<1>3. /\ chain' \in [attempt : 0..Attempts, timer : Keys \cup {NoKey}]
      /\ chain'.timer = NoKey /\ checks' \in [Keys -> Nat]
  BY <1>1, <1>2, RetryCounts
<1>4. Astray[t] \in Nat /\ strays[t] \in Nat /\ Astray[t] >= strays[t] /\ Astray[t] - 1 \in Nat
  BY <1>1, AstrayCounts DEF RetriesCounted
<1>5. /\ strays' \in [Timers -> Nat]
      /\ \A u \in Timers : strays'[u] > 0 => u[2] < Attempts
  BY <1>1, <1>2, <1>4, AstrayCounts
<1>. QED  BY <1>3, <1>5 DEF RetriesCounted

LEMMA RetryStep == RetriesCounted /\ [KeyNext]_keyVars => RetriesCounted'
<1>. SUFFICES ASSUME RetriesCounted, [KeyNext]_keyVars PROVE RetriesCounted'
  OBVIOUS
<1>1. ASSUME UNCHANGED retrying PROVE RetriesCounted'
  BY <1>1 DEF retrying, RetriesCounted
<1>2. CASE SweepExpired \/ Write \/ WriteFails \/ UNCHANGED keyVars
  BY <1>1, <1>2 DEF SweepExpired, Write, WriteFails, keyVars, retrying
<1>3. CASE Crash
  <2>1. chain' = NoChain /\ strays' = [t \in Timers |-> 0] /\ checks' = [k \in Keys |-> 0]
    BY <1>3 DEF Crash
  <2>. QED  BY <2>1, NoChainCounts DEF RetriesCounted
<1>4. CASE TimerFires \/ \E t \in Timers : StrayFires(t)
  BY <1>4, TimerCounts, StrayCounts
<1>5. ASSUME NEW k \in Keys, RequestKey(k) \/ Revoke(k) \/ GrowsOld(k)
      PROVE  RetriesCounted'
  BY <1>1, <1>5 DEF RequestKey, Revoke, GrowsOld, retrying
<1>6. ASSUME NEW k \in Keys, Poll(k) PROVE RetriesCounted'
  BY <1>6, StartCounts DEF Poll
<1>7. ASSUME NEW k \in Keys, NEW r, Report(k, r) PROVE RetriesCounted'
  BY <1>1, <1>7, StartCounts DEF Report, retrying
<1>8. ASSUME NEW k \in Keys, CheckPasses(k) \/ CheckFails(k) PROVE RetriesCounted'
  BY <1>8, PassCounts, FailCounts
<1>. QED  BY <1>2, <1>3, <1>4, <1>5, <1>6, <1>7, <1>8 DEF KeyNext

LEMMA RetriesAlwaysCounted == KeySpec => []RetriesCounted
<1>1. KeyInit => RetriesCounted
  BY NoChainCounts DEF KeyInit, RetriesCounted
<1>. QED  BY <1>1, RetryStep, PTL DEF KeySpec

\* No chain of retries, however its timers and answers cross, goes beyond the
\* delays there are (LIST_SERVER_RETRY_DELAYS_MS, scheduleListServerRetry).
THEOREM AttemptsBounded ==
  KeySpec => [](chain.attempt <= Attempts /\ \A t \in Timers : strays[t] > 0 => t[2] < Attempts)
<1>1. RetriesCounted
      => chain.attempt <= Attempts /\ \A t \in Timers : strays[t] > 0 => t[2] < Attempts
  BY ListAssumption DEF RetriesCounted
<1>. QED  BY <1>1, RetriesAlwaysCounted, PTL

-----------------------------------------------------------------------------
(* What is left of the lists' types.                                        *)

LinkRest ==
  /\ ready \in BOOLEAN /\ leaving \in BOOLEAN /\ failed \in BOOLEAN
  /\ state \in States /\ readds \in 0..MaxReAdds
  /\ sent \in Nat /\ requests \subseteq Requests /\ listed \in States \cup {Nothing}

LEMMA PublishTyped ==
  ASSUME LinkRest, NEW action \in {"ADD", "REMOVE"}, NEW now \in States,
         NEW others \in SUBSET Requests, Publishes(action, now, others)
  PROVE  sent' \in Nat /\ requests' \subseteq Requests
<1>. DEFINE r == [n |-> sent, action |-> action, state |-> now, had |-> FALSE]
<1>1. sent' \in Nat /\ requests' = others \cup {r}
  BY DEF LinkRest, Publishes
<1>2. r \in Requests
  BY DEF LinkRest, Requests
<1>. HIDE DEF r
<1>. QED  BY <1>1, <1>2

LEMMA ReportTyped ==
  ASSUME LinkRest, NEW now \in States, ReportToListServer(now)
  PROVE  sent' \in Nat /\ requests' \subseteq Requests
<1>1. CASE ready /\ ~inFlight
  BY <1>1, PublishTyped DEF ReportToListServer, LinkRest
<1>2. CASE ~ready \/ inFlight
  BY <1>2 DEF ReportToListServer, LinkRest
<1>. QED  BY <1>1, <1>2

LEMMA ReturnTyped ==
  ASSUME LinkRest, NEW r \in requests, Returned(r), failed' \in BOOLEAN
  PROVE  LinkRest'
<1>1. requests \ {r} \in SUBSET Requests /\ state \in States
  BY DEF LinkRest
<1>2. sent' \in Nat /\ requests' \subseteq Requests
  <2>1. CASE queued
    BY <1>1, <2>1, PublishTyped DEF Returned
  <2>2. CASE ~queued
    BY <1>1, <2>2 DEF Returned, LinkRest
  <2>. QED  BY <2>1, <2>2
<1>. QED  BY <1>2 DEF Returned, LinkRest

LEMMA LinkRestStep == LinkRest /\ [LinkNext]_linkVars => LinkRest'
<1>. SUFFICES ASSUME LinkRest, [LinkNext]_linkVars PROVE LinkRest'
  OBVIOUS
<1>0. requests \in SUBSET Requests /\ state \in States
  BY DEF LinkRest
<1>1. CASE Ready
  <2>1. sent' \in Nat /\ requests' \subseteq Requests
    BY <1>0, <1>1, PublishTyped DEF Ready
  <2>. QED  BY <1>1, <2>1 DEF Ready, LinkRest
<1>2. CASE Change
  <2>1. state + 1 \in States
    BY <1>2, ListLinkAssumption DEF Change, LinkRest, States
  <2>2. sent' \in Nat /\ requests' \subseteq Requests
    BY <1>2, <2>1, ReportTyped DEF Change
  <2>. QED  BY <1>2, <2>1, <2>2 DEF Change, LinkRest
<1>3. CASE Periodic
  <2>1. sent' \in Nat /\ requests' \subseteq Requests
    BY <1>0, <1>3, ReportTyped DEF Periodic
  <2>2. readds' \in 0..MaxReAdds
    BY <1>3, ListLinkAssumption DEF Periodic, LinkRest
  <2>. QED  BY <1>3, <2>1, <2>2 DEF Periodic, LinkRest
<1>4. CASE Shutdown
  <2>1. sent' \in Nat /\ requests' \subseteq Requests
    BY <1>0, <1>4, PublishTyped DEF Shutdown
  <2>. QED  BY <1>4, <2>1 DEF Shutdown, LinkRest
<1>5. ASSUME NEW r \in requests, ListTakes(r) PROVE LinkRest'
  <2>1. r \in Requests /\ [r EXCEPT !.had = TRUE] \in Requests /\ r.state \in States
    BY <1>0 DEF Requests
  <2>2. requests' \subseteq Requests /\ listed' \in States \cup {Nothing}
    BY <1>0, <1>5, <2>1 DEF ListTakes
  <2>. QED  BY <1>5, <2>2 DEF ListTakes, LinkRest
<1>6. ASSUME NEW r \in requests, Replied(r) PROVE LinkRest'
  BY <1>6, ReturnTyped DEF Replied, LinkRest
<1>7. ASSUME NEW r \in requests, Failed(r) PROVE LinkRest'
  <2>1. failed' \in BOOLEAN
    BY <1>7 DEF Failed
  <2>. QED  BY <1>7, <2>1, ReturnTyped DEF Failed
<1>8. CASE UNCHANGED linkVars
  BY <1>8 DEF linkVars, LinkRest
<1>. QED  BY <1>1, <1>2, <1>3, <1>4, <1>5, <1>6, <1>7, <1>8 DEF LinkNext

KeyRest == live \subseteq Registered /\ savedOld \subseteq saved /\ starts \in 0..MaxStarts

LEMMA KeyRestStep == KeyRest /\ KeyInv /\ [KeyNext]_keyVars => KeyRest'
<1>. SUFFICES ASSUME KeyRest, KeyInv, [KeyNext]_keyVars PROVE KeyRest'
  OBVIOUS
<1>0. starts < MaxStarts => starts + 1 \in 0..MaxStarts
  BY ListAssumption DEF KeyRest
<1>1. ASSUME UNCHANGED <<row, saved, savedOld>>, live' \subseteq Registered,
             UNCHANGED starts \/ (starts < MaxStarts /\ starts' = starts + 1)
      PROVE  KeyRest'
  BY <1>0, <1>1 DEF KeyRest, Registered
<1>2. ASSUME NEW S, Gone(S), UNCHANGED <<saved, savedOld, starts>> PROVE KeyRest'
  BY <1>2 DEF Gone, KeyRest, KeyInv, Registered
<1>3. CASE SweepExpired
  BY <1>2, <1>3 DEF SweepExpired, file
<1>4. CASE Write \/ WriteFails
  BY <1>4 DEF Write, WriteFails, CutShort, KeyRest, Registered
<1>5. CASE TimerFires \/ \E t \in Timers : StrayFires(t)
  BY <1>1, <1>5 DEF TimerFires, StrayFires, Retries, KeyRest, file
<1>6. CASE Crash
  BY <1>0, <1>6 DEF Crash, CutShort, KeyRest
<1>7. ASSUME NEW k \in Keys, RequestKey(k) PROVE KeyRest'
  BY <1>7 DEF RequestKey, KeyRest, KeyInv, Registered, file
<1>8. ASSUME NEW k \in Keys, Revoke(k) PROVE KeyRest'
  BY <1>2, <1>8 DEF Revoke, file
<1>9. ASSUME NEW k \in Keys, GrowsOld(k) PROVE KeyRest'
  BY <1>9 DEF GrowsOld, KeyRest, Registered
<1>10. ASSUME NEW k \in Keys, Poll(k) PROVE KeyRest'
  BY <1>1, <1>10 DEF Poll, StartsOver, KeyRest, file
<1>11. ASSUME NEW k \in Keys, NEW r, Report(k, r) PROVE KeyRest'
  <2>1. live' \subseteq Registered
    BY <1>11 DEF Report, KeyRest
  <2>2. UNCHANGED starts \/ (starts < MaxStarts /\ starts' = starts + 1)
    BY <1>11 DEF Report, StartsOver
  <2>. QED  BY <1>1, <1>11, <2>1, <2>2 DEF Report, file
<1>12. ASSUME NEW k \in Keys, CheckPasses(k) \/ CheckFails(k) PROVE KeyRest'
  BY <1>1, <1>12 DEF CheckPasses, CheckFails, KeyRest, file
<1>13. CASE UNCHANGED keyVars
  BY <1>1, <1>13 DEF keyVars, KeyRest
<1>. QED  BY <1>3, <1>4, <1>5, <1>6, <1>7, <1>8, <1>9, <1>10, <1>11, <1>12, <1>13 DEF KeyNext

-----------------------------------------------------------------------------
(* All of them.                                                             *)

LinksInv == LinkInv /\ LinkRest
KeysInv == KeyInv /\ RetriesCounted /\ KeyRest
ServicesInv == ChannelInv /\ IInv /\ LinksInv /\ KeysInv /\ BotInv

LEMMA LinksBegin == LinkInit => LinksInv
<1>1. LinkInit => LinkInv
  BY DEF LinkInit, LinkInv, Alone, NothingBeforeReady, QueueHasRunner
<1>2. ASSUME LinkInit PROVE LinkRest
  <2>1. 0 \in States /\ 0 \in 0..MaxReAdds
    BY ListLinkAssumption DEF States
  <2>2. ready \in BOOLEAN /\ leaving \in BOOLEAN /\ failed \in BOOLEAN
    BY <1>2 DEF LinkInit
  <2>. QED  BY <1>2, <2>1, <2>2 DEF LinkInit, LinkRest
<1>. QED  BY <1>1, <1>2 DEF LinksInv

LEMMA KeysBegin == KeyInit => KeysInv
<1>1. KeyInit => KeyInv
  BY DEF KeyInit, KeyInv, OneRegistered, OneSaved, FileKeepsUp, Registered
<1>2. KeyInit => RetriesCounted
  BY NoChainCounts DEF KeyInit, RetriesCounted
<1>3. KeyInit => KeyRest
  BY ListAssumption DEF KeyInit, KeyRest
<1>. QED  BY <1>1, <1>2, <1>3 DEF KeysInv

LEMMA ServicesBegin == Init => ServicesInv
BY ChannelsBegin, InitHolds, LinksBegin, KeysBegin, BotsBegin DEF Init, ServicesInv

\* A step of one service leaves the others as they are.
LEMMA OneAtATime ==
  [Next]_svars => /\ [ChannelNext]_channelVars /\ [ClockNext]_clockVars /\ [LinkNext]_linkVars
                  /\ [KeyNext]_keyVars /\ [BotsNext]_botVars
BY DEF Next, svars

LEMMA ServicesStep == ServicesInv /\ [Next]_svars => ServicesInv'
BY OneAtATime, ChannelsGoOn, StepHolds, LinkStep, LinkRestStep, KeyStep, RetryStep, KeyRestStep, BotsGoOn
   DEF ServicesInv, LinksInv, KeysInv

\* What each service keeps is what its code takes it for, whatever the other
\* services do meanwhile: a report is of a state the server was in, a row with
\* a report is registered, and no slot, timer or channel is of what is not
\* there (server.js, list-server.cjs, rtc-channel.cjs, bots).
THEOREM ServicesTypes == Spec => []ServicesTypeOK
<1>1. LinksInv => LinkTypeOK
  BY DEF LinksInv, LinkInv, LinkRest, LinkTypeOK
<1>2. KeysInv => KeyTypeOK
  BY DEF KeysInv, KeyInv, RetriesCounted, KeyRest, KeyTypeOK
<1>3. ServicesInv => ServicesTypeOK
  BY <1>1, <1>2, ChannelsTyped, BotsTyped DEF ServicesInv, ServicesTypeOK, IInv
<1>. QED  BY <1>3, ServicesBegin, ServicesStep, PTL DEF Spec

=============================================================================
