------------------------------ MODULE ListKeys ------------------------------
(***************************************************************************)
(* The designated list server's half of bzo's own list: the keys registered *)
(* for one instance's URL (src/server/list-server.cjs), the reports that    *)
(* instance posts, the challenges sent back to it, which take their time    *)
(* and may cross, the retries of those that fail, and a crash of the list   *)
(* server, which keeps what it had written of the keys and nothing else.    *)
(* A write may fail, and leave the file as it was or cut short: a file that *)
(* is cut short reads as no keys at all, and is modelled as that.           *)
(***************************************************************************)
EXTENDS Naturals, FiniteSets

CONSTANTS
  Keys,         \* row ids, each for one requestKey
  NoKey,
  Attempts,     \* how many retries a chain has: LIST_SERVER_RETRY_DELAYS_MS.length
  MaxChecks,    \* challenges under way for one key: a bound
  MaxStarts     \* reports and polls that start one, and crashes: a bound

ASSUME KeysAssumption == IsFiniteSet(Keys) /\ NoKey \notin Keys
ASSUME ListAssumption == Attempts \in Nat /\ MaxChecks \in Nat /\ MaxStarts \in Nat

VARIABLES
  row,       \* of each key: unused, registered or gone
  live,      \* the keys whose row has a report (`live' is not null)
  old,       \* the registered keys unconfirmed for 30 days
  saved,     \* the keys in list-server-keys.json
  savedOld,  \* those of them 30 days old by what is written there
  pending,   \* a write is scheduled (writeListServerKeysSoon)
  unwritten, \* the last write failed, of which the code keeps nothing but a log line
  chain,     \* listServerRetries of the URL: the attempt, and its timer's key
  strays,    \* timers no entry knows of, by key and attempt
  checks,    \* challenges under way for each key
  starts

keyVars == <<row, live, old, saved, savedOld, pending, unwritten, chain, strays, checks, starts>>

Timers == Keys \X (0..Attempts)
NoChain == [attempt |-> 0, timer |-> NoKey]
Registered == {k \in Keys : row[k] = "registered"}

KeyTypeOK ==
  /\ row \in [Keys -> {"unused", "registered", "gone"}]
  /\ live \subseteq Registered /\ old \subseteq Registered
  /\ saved \subseteq Keys /\ savedOld \subseteq saved
  /\ pending \in BOOLEAN /\ unwritten \in BOOLEAN
  /\ chain \in [attempt : 0..Attempts, timer : Keys \cup {NoKey}]
  /\ strays \in [Timers -> Nat] /\ checks \in [Keys -> Nat]
  /\ starts \in 0..MaxStarts

KeyInit ==
  /\ row = [k \in Keys |-> "unused"] /\ live = {} /\ old = {}
  /\ saved = {} /\ savedOld = {} /\ pending = FALSE /\ unwritten = FALSE
  /\ chain = NoChain /\ strays = [t \in Timers |-> 0]
  /\ checks = [k \in Keys |-> 0] /\ starts = 0

-----------------------------------------------------------------------------
(* The registry.                                                            *)

file == <<saved, savedOld, unwritten>>

Gone(S) ==
  /\ row' = [k \in Keys |-> IF k \in S THEN "gone" ELSE row[k]]
  /\ live' = live \ S /\ old' = old \ S

UrlTaken == Registered \ old # {}

(* POST /api/list-server/keys: one key per URL.  Looking through the rows   *)
(* drops the expired ones, and that alone writes nothing.                   *)
RequestKey(k) ==
  /\ row[k] = "unused" /\ ~UrlTaken
  /\ row' = [j \in Keys |-> IF j = k THEN "registered"
                            ELSE IF j \in old THEN "gone" ELSE row[j]]
  /\ live' = live \ old /\ old' = {}
  /\ pending' = TRUE
  /\ UNCHANGED <<file, chain, strays, checks, starts>>

Revoke_quiet(k) ==
  /\ k \in Registered
  /\ Gone({k}) /\ UNCHANGED pending
  /\ UNCHANGED <<file, chain, strays, checks, starts>>

(* DELETE /api/list-server/keys/:id *)
Revoke(k) ==
  /\ k \in Registered
  /\ Gone({k}) /\ pending' = TRUE
  /\ UNCHANGED <<file, chain, strays, checks, starts>>

(* Thirty days since it was last confirmed.                                 *)
GrowsOld(k) ==
  /\ k \in Registered
  /\ old' = old \cup {k} /\ savedOld' = savedOld \cup ({k} \cap saved)
  /\ UNCHANGED <<row, live, saved, unwritten, pending, chain, strays, checks, starts>>

(* The hourly sweep writes; a listing drops them as well and does not.      *)
SweepExpired ==
  /\ old # {}
  /\ Gone(old) /\ pending' \in BOOLEAN /\ (pending => pending')
  /\ UNCHANGED <<file, chain, strays, checks, starts>>

(* The write that was scheduled; an expired key is not written. *)
Write ==
  /\ pending
  /\ pending' = FALSE /\ unwritten' = FALSE
  /\ saved' = Registered \ old /\ savedOld' = {}
  /\ UNCHANGED <<row, live, old, chain, strays, checks, starts>>

(* writeFileSync opens the file, empties it and fills it, in place.         *)
CutShort == saved' = {} /\ savedOld' = {}

(* It throws: the timer is gone already, and only the next change sets one. *)
WriteFails ==
  /\ pending
  /\ pending' = FALSE /\ unwritten' = TRUE
  /\ CutShort \/ UNCHANGED <<saved, savedOld>>
  /\ UNCHANGED <<row, live, old, chain, strays, checks, starts>>

-----------------------------------------------------------------------------
(* Reports and challenges.                                                  *)

(* validateListServerKey, up to the answer.  One that is not a retry starts *)
(* the retries over.                                                        *)
Challenges(k) == checks[k] < MaxChecks /\ checks' = [checks EXCEPT ![k] = @ + 1]

StartsOver(k) ==
  /\ starts < MaxStarts /\ starts' = starts + 1
  /\ Challenges(k)
  /\ chain' = NoChain

(* The instance's own report: at boot or each quarter of an hour, for a     *)
(* join or a part, or as it leaves.                                         *)
Report(k, reason) ==
  /\ k \in Registered \ old
  /\ live' = IF reason = "shutdown" THEN live \ {k} ELSE live \cup {k}
  /\ pending' = (pending \/ reason \in {"boot", "shutdown"})
  /\ IF reason \in {"boot", "periodic"} THEN StartsOver(k)
     ELSE UNCHANGED <<chain, checks, starts>>
  /\ UNCHANGED <<row, old, file, strays>>

(* The daily poll, and the one after a restart. *)
Poll(k) ==
  /\ k \in Registered \ old
  /\ StartsOver(k)
  /\ UNCHANGED <<row, live, old, file, pending, strays>>

(* A timer whose entry is overwritten or deleted still runs. *)
Astray == IF chain.timer = NoKey THEN strays
          ELSE [strays EXCEPT ![<<chain.timer, chain.attempt>>] = @ + 1]

Answered(k) == checks[k] > 0 /\ checks' = [checks EXCEPT ![k] = @ - 1]

CheckPasses_revives(k) ==
  /\ Answered(k)
  /\ row' = [row EXCEPT ![k] = "registered"]
  /\ live' = live \cup {k} /\ old' = old \ {k} /\ pending' = TRUE
  /\ chain' = NoChain /\ strays' = Astray
  /\ UNCHANGED <<file, starts>>
(* The signature is right: markChecked, and the status that came with it.   *)
(* Nothing of it reaches a row that went meanwhile.                         *)
CheckPasses(k) ==
  /\ Answered(k)
  /\ IF k \in Registered
       THEN live' = live \cup {k} /\ old' = old \ {k} /\ pending' = TRUE
       ELSE UNCHANGED <<live, old, pending>>
  /\ chain' = NoChain /\ strays' = Astray
  /\ UNCHANGED <<row, file, starts>>

(* scheduleListServerRetry *)
Rescheduled(k) ==
  IF chain.timer # NoKey THEN chain
  ELSE IF chain.attempt >= Attempts THEN NoChain ELSE [chain EXCEPT !.timer = k]

CheckFails(k) ==
  /\ Answered(k)
  /\ pending' = (pending \/ k \in Registered)
  /\ chain' = Rescheduled(k)
  /\ UNCHANGED <<row, live, old, file, strays, starts>>

(* A retry's timer: the attempt after it counts one more. *)
Retries_uncounted(k, attempt) ==
  /\ Challenges(k)
  /\ chain' = [attempt |-> attempt, timer |-> NoKey]
  /\ UNCHANGED <<row, live, old, file, pending, starts>>
Retries(k, attempt) ==
  /\ Challenges(k)
  /\ chain' = [attempt |-> attempt + 1, timer |-> NoKey]
  /\ UNCHANGED <<row, live, old, file, pending, starts>>

TimerFires ==
  /\ chain.timer # NoKey
  /\ Retries(chain.timer, chain.attempt)
  /\ UNCHANGED strays

StrayFires(t) ==
  /\ strays[t] > 0
  /\ Retries(t[1], t[2])
  /\ strays' = [Astray EXCEPT ![t] = @ - 1]

(* The list server dies and comes back with what was written; in the middle *)
(* of a write, with nothing ("starting empty").                             *)
Crash ==
  /\ starts < MaxStarts /\ starts' = starts + 1
  /\ UNCHANGED <<saved, savedOld>> \/ (pending /\ CutShort)
  /\ row' = [k \in Keys |-> IF k \in saved' \ savedOld' THEN "registered"
                            ELSE IF row[k] = "unused" THEN "unused" ELSE "gone"]
  /\ live' = {} /\ old' = {}
  /\ pending' = FALSE /\ unwritten' = FALSE
  /\ chain' = NoChain /\ strays' = [t \in Timers |-> 0]
  /\ checks' = [k \in Keys |-> 0]

KeyNext ==
  \/ SweepExpired \/ Write \/ WriteFails \/ TimerFires \/ Crash
  \/ \E t \in Timers : StrayFires(t)
  \/ \E k \in Keys : \/ RequestKey(k) \/ Revoke(k) \/ GrowsOld(k) \/ Poll(k)
                     \/ CheckPasses(k) \/ CheckFails(k)
                     \/ \E r \in {"boot", "periodic", "join", "shutdown"} : Report(k, r)

(* A challenge is answered or times out after eight seconds; timers fire.   *)
KeyFairness ==
  /\ \A k \in Keys : WF_keyVars(CheckFails(k))
  /\ WF_keyVars(TimerFires)
  /\ \A t \in Timers : WF_keyVars(StrayFires(t))

KeySpec == KeyInit /\ [][KeyNext]_keyVars /\ KeyFairness

-----------------------------------------------------------------------------
(* Properties.                                                              *)

(* One key answers for a server: a late answer, a sweep or a restart that   *)
(* finds an older file never leaves two rows for one URL.                   *)
OneKeyPerServer == \A j, k \in Registered \ old : j = k

(* What the file says is what is registered, or a write is on its way, or   *)
(* the last one failed and nothing has changed since: no path forgets to    *)
(* say that something changed, and a write that succeeds makes up for all   *)
(* that failed before it.                                                   *)
FileKeepsUp == pending \/ unwritten \/ saved \ savedOld = Registered \ old

(* The registry and its file have one key for the server, or none, and the   *)
(* same, through checks, sweeps, revocations and restarts.                  *)
RegistryIsKept == OneKeyPerServer /\ FileKeepsUp

(* A key that is gone stays gone: no answer, report or sweep brings it back, *)
(* and a restart only from a file older than its going, within the second   *)
(* of its revocation or after a write that failed.                          *)
GoneStaysGone ==
  [][\A k \in Keys : row[k] = "gone" /\ row'[k] # "gone"
        => (pending \/ unwritten) /\ k \in saved /\ checks' = [j \in Keys |-> 0]]_keyVars

(* A failing server is not asked for ever: once its reports and the daily   *)
(* polls are over, the retries, crossed or astray as they may be, come to   *)
(* their end.                                                               *)
RetriesEnd ==
  <>[](/\ chain.timer = NoKey /\ strays = [t \in Timers |-> 0]
       /\ checks = [k \in Keys |-> 0])
=============================================================================
