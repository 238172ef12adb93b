------------------------------ MODULE Channels ------------------------------
(***************************************************************************)
(* The UDP channel of one page: its moves and shots off the WebSocket, over *)
(* WebTransport ("h3") where it opens and over a WebRTC data channel        *)
(* ("rtc") where it does not, through inits that come again, connections    *)
(* that are replaced, attempts that time out and datagrams that are lost or *)
(* reordered.                                                              *)
(*                                                                         *)
(* A channel <<i, kind>> is what init i led to: the page's end, `mine', and *)
(* the server's, `theirs'.  Each connection of the page is a player of its  *)
(* own to the server.  Candidates, relays and TURN are left out: a peer     *)
(* opens if it was given the answer to its own offer, and may fail anyway.  *)
(***************************************************************************)
EXTENDS Naturals, Sequences

CONSTANTS
  Inits,      \* how many inits the page may be sent: a bound
  Conns,      \* its connections, 1..n: a bound
  MaxMoves,   \* how many moves it sends on a channel: a bound
  Budget,     \* how many of these three together: a bound
  NoChannel

Chans == (1..Inits) \X {"h3", "rtc"}

ASSUME ChannelAssumption ==
  /\ Inits \in Nat \ {0} /\ Conns \in Nat \ {0} /\ MaxMoves \in Nat /\ Budget \in Nat
  /\ NoChannel \notin Chans

VARIABLES
  socket,    \* the server's end of each connection: its readyState
  using,     \* player.udpChannel of each connection
  heard,     \* player.udpChannelHeard: the channel that set it, or NoChannel
  lastCt,    \* player.udpChannelLastCt; 0 is none yet
  theirs,    \* the server's end of each channel
  owner      \* the connection whose token or offer it came by; 0 is none

VARIABLES
  conn,      \* the page's connection; 0 is none
  lastConn,  \* how many it has had
  inits,     \* how many inits it has had
  born,      \* the connection each came on; 0 is none
  starting,  \* the inits whose start() awaits WebTransport
  transport, \* the WebTransport the page holds
  pc,        \* the peer it holds
  mine,      \* the page's end of each channel
  answer,    \* the offer whose answer the peer held was given
  ct         \* its clock: the last move it sent

VARIABLES
  up,        \* offers on their way to the server, in order
  down,      \* answers on their way to the page, in order
  air        \* moves on a channel, in no order

serverVars == <<socket, using, heard, lastCt, theirs, owner>>
pageVars == <<conn, lastConn, inits, born, starting, transport, pc, mine, answer, ct>>
netVars == <<up, down, air>>
channelVars == <<serverVars, pageVars, netVars>>

H3(i) == <<i, "h3">>
Rtc(i) == <<i, "rtc">>
Sockets == {"none", "open", "closing", "closed"}
SessionStates == {"none", "new", "answered", "open", "closed"}
PageStates == {"none", "new", "trying", "open", "closed"}

ChannelTypeOK ==
  /\ socket \in [1..Conns -> Sockets]
  /\ using \in [1..Conns -> Chans \cup {NoChannel}]
  /\ heard \in [1..Conns -> Chans \cup {NoChannel}] /\ lastCt \in [1..Conns -> 0..MaxMoves]
  /\ theirs \in [Chans -> SessionStates] /\ owner \in [Chans -> 0..Conns]
  /\ conn \in 0..Conns /\ lastConn \in 0..Conns /\ inits \in 0..Inits
  /\ born \in [1..Inits -> 0..Conns]
  /\ starting \subseteq 1..Inits
  /\ transport \in Chans \cup {NoChannel} /\ pc \in Chans \cup {NoChannel}
  /\ mine \in [Chans -> PageStates] /\ answer \in Chans \cup {NoChannel}
  /\ ct \in 0..MaxMoves
  /\ up \in [1..Conns -> Seq(Chans)] /\ down \in [1..Conns -> Seq(Chans)]
  /\ air \subseteq Chans \X (1..MaxMoves)

ChannelInit ==
  /\ socket = [c \in 1..Conns |-> "none"]
  /\ using = [c \in 1..Conns |-> NoChannel]
  /\ heard = [c \in 1..Conns |-> NoChannel] /\ lastCt = [c \in 1..Conns |-> 0]
  /\ theirs = [k \in Chans |-> "none"] /\ owner = [k \in Chans |-> 0]
  /\ conn = 0 /\ lastConn = 0 /\ inits = 0 /\ starting = {}
  /\ born = [i \in 1..Inits |-> 0]
  /\ transport = NoChannel /\ pc = NoChannel
  /\ mine = [k \in Chans |-> "none"] /\ answer = NoChannel
  /\ ct = 0
  /\ up = [c \in 1..Conns |-> <<>>] /\ down = [c \in 1..Conns |-> <<>>]
  /\ air = {}

-----------------------------------------------------------------------------
(* The page.                                                                *)

Affordable == inits + lastConn + ct < Budget

PageOpen(k) == k \in Chans /\ mine[k] = "open"

(* close() of either kind: what is held is closed and let go. *)
Closed(S) == [k \in Chans |-> IF k \in S THEN "closed" ELSE mine[k]]

Connect ==
  /\ conn = 0 /\ lastConn < Conns /\ Affordable
  /\ conn' = lastConn + 1 /\ lastConn' = lastConn + 1
  /\ socket' = [socket EXCEPT ![lastConn + 1] = "open"]
  /\ UNCHANGED <<using, heard, lastCt, theirs, owner, netVars>>
  /\ UNCHANGED <<inits, born, starting, transport, pc, mine, answer, ct>>

(* rtcChannel.start: the earlier peer goes, unless it is open. *)
StartRtc(i, ends) ==
  IF PageOpen(pc) THEN mine' = ends /\ UNCHANGED <<pc, answer>>
  ELSE /\ pc' = Rtc(i) /\ answer' = NoChannel
       /\ mine' = [k \in Chans |-> IF k = pc THEN "closed"
                                   ELSE IF k = Rtc(i) THEN "new" ELSE ends[k]]

(* receiveInit, at a connection and at each new world; a page without       *)
(* WebTransport, or whose constructor throws, goes to WebRTC at once.       *)
ReceiveInit ==
  /\ conn # 0 /\ inits < Inits /\ Affordable
  /\ inits' = inits + 1
  /\ born' = [born EXCEPT ![inits + 1] = conn]
  /\ IF PageOpen(transport) \/ PageOpen(pc)
       THEN UNCHANGED <<starting, transport, pc, mine, answer>>
       ELSE \/ /\ transport' = H3(inits + 1)
               /\ starting' = starting \cup {inits + 1}
               /\ mine' = [Closed({transport}) EXCEPT ![H3(inits + 1)] = "trying"]
               /\ UNCHANGED <<pc, answer>>
            \/ /\ transport' = NoChannel
               /\ StartRtc(inits + 1, Closed({transport}))
               /\ UNCHANGED starting
  /\ UNCHANGED <<serverVars, netVars, conn, lastConn, ct>>

(* The server has answered "ok" and the session is still the page's. *)
StartTaken(i) ==
  /\ i \in starting /\ transport = H3(i) /\ mine[H3(i)] = "trying"
  /\ owner[H3(i)] # 0
  /\ starting' = starting \ {i}
  /\ mine' = [mine EXCEPT ![H3(i)] = "open"]
  /\ UNCHANGED <<serverVars, netVars, conn, lastConn, inits, born, transport, pc, answer, ct>>

(* Its awaits have a timeout of their own, whatever became of the session. *)
TimesOut_whileHeld(i) == i \in starting /\ transport = H3(i)
TimesOut(i) == i \in starting

(* Timed out, failed, or the session is no longer the page's: WebRTC, even  *)
(* when the connection that offered it has gone.                            *)
StartFails(i) ==
  /\ TimesOut(i)
  /\ starting' = starting \ {i}
  /\ transport' = IF transport = H3(i) THEN NoChannel ELSE transport
  /\ StartRtc(i, IF transport = H3(i) THEN Closed({transport}) ELSE mine)
  /\ UNCHANGED <<serverVars, netVars, conn, lastConn, inits, born, ct>>

(* createOffer has come back and the peer is still the page's; sendToServer *)
(* drops it when there is no socket.                                        *)
Offer ==
  /\ pc # NoChannel /\ mine[pc] = "new"
  /\ mine' = [mine EXCEPT ![pc] = "trying"]
  /\ up' = IF conn = 0 THEN up ELSE [up EXCEPT ![conn] = Append(@, pc)]
  /\ UNCHANGED <<serverVars, down, air>>
  /\ UNCHANGED <<conn, lastConn, inits, born, starting, transport, pc, answer, ct>>

(* rtcChannel.signal: whatever answer comes goes to the peer held now. *)
ReceiveAnswer ==
  /\ conn # 0 /\ down[conn] # <<>>
  /\ down' = [down EXCEPT ![conn] = Tail(@)]
  /\ answer' = IF pc # NoChannel /\ answer = NoChannel THEN Head(down[conn]) ELSE answer
  /\ UNCHANGED <<serverVars, conn, lastConn, inits, born, starting, transport, pc, mine, ct, up, air>>

(* The two ends of a peer that was given its own answer open, in either     *)
(* order.                                                                   *)
PeerOpens ==
  /\ pc # NoChannel /\ mine[pc] = "trying" /\ answer = pc
  /\ theirs[pc] \in {"answered", "open"}
  /\ mine' = [mine EXCEPT ![pc] = "open"]
  /\ UNCHANGED <<serverVars, netVars, conn, lastConn, inits, born, starting, transport, pc, answer, ct>>

(* Ten seconds without opening, a failed connection, or the server's end    *)
(* gone.                                                                    *)
PeerEnds ==
  /\ pc # NoChannel
  /\ pc' = NoChannel /\ answer' = NoChannel
  /\ mine' = Closed({pc})
  /\ UNCHANGED <<serverVars, netVars, conn, lastConn, inits, born, starting, transport, ct>>

TransportEnds ==
  /\ PageOpen(transport)
  /\ transport' = NoChannel
  /\ mine' = Closed({transport})
  /\ UNCHANGED <<serverVars, netVars, conn, lastConn, inits, born, starting, pc, answer, ct>>

(* ws.onclose.  A start() that awaits goes on awaiting. *)
Disconnected ==
  /\ conn # 0
  /\ conn' = 0
  /\ transport' = NoChannel /\ pc' = NoChannel /\ answer' = NoChannel
  /\ mine' = Closed({transport, pc})
  /\ down' = [down EXCEPT ![conn] = <<>>]
  /\ UNCHANGED <<serverVars, up, air, lastConn, inits, born, starting, ct>>

(* sendToServer, of a move: WebTransport where both are open. *)
SendMove ==
  /\ ct < MaxMoves /\ Affordable
  /\ PageOpen(transport) \/ PageOpen(pc)
  /\ ct' = ct + 1
  /\ air' = air \cup {<<IF PageOpen(transport) THEN transport ELSE pc, ct + 1>>}
  /\ UNCHANGED <<serverVars, up, down, conn, lastConn, inits, born, starting, transport, pc, mine, answer>>

-----------------------------------------------------------------------------
(* The server.                                                              *)

(* A session's close(): its onClose lets go of it if it is the one in use. *)
Drop(k) == [x \in Chans |-> IF x = k THEN "closed" ELSE theirs[x]]
LetGo(k) == [c \in 1..Conns |-> IF using[c] = k THEN NoChannel ELSE using[c]]

(* A channel that is put in place has not been heard. *)
Unheard(c) == [heard EXCEPT ![c] = NoChannel]

(* An offer: it opens a new peer in place of any earlier channel, unless    *)
(* another came within two seconds.                                         *)
TakeOffer(c) ==
  /\ socket[c] \in {"open", "closing"} /\ up[c] # <<>>
  /\ up' = [up EXCEPT ![c] = Tail(@)]
  /\ theirs' = [Drop(using[c]) EXCEPT ![Head(up[c])] = "new"]
  /\ owner' = [owner EXCEPT ![Head(up[c])] = c]
  /\ using' = [using EXCEPT ![c] = Head(up[c])]
  /\ heard' = Unheard(c)
  /\ UNCHANGED <<socket, lastCt, pageVars, down, air>>

OfferTooSoon(c) ==
  /\ socket[c] \in {"open", "closing"} /\ up[c] # <<>>
  /\ \E i \in 1..Inits : owner[Rtc(i)] = c
  /\ up' = [up EXCEPT ![c] = Tail(@)]
  /\ UNCHANGED <<serverVars, pageVars, down, air>>

(* answer(), which awaits; an answer is not sent on a socket that closes. *)
Answer(k) ==
  /\ theirs[k] = "new"
  /\ theirs' = [theirs EXCEPT ![k] = "answered"]
  /\ down' = IF socket[owner[k]] = "open" /\ conn = owner[k]
               THEN [down EXCEPT ![owner[k]] = Append(@, k)] ELSE down
  /\ UNCHANGED <<socket, using, heard, lastCt, owner, pageVars, up, air>>

SessionOpens(k) ==
  /\ theirs[k] = "answered" /\ pc = k /\ answer = k /\ mine[k] \in {"trying", "open"}
  /\ theirs' = [theirs EXCEPT ![k] = "open"]
  /\ UNCHANGED <<socket, using, heard, lastCt, owner, pageVars, netVars>>

(* webTransportTokens: a token lasts as long as the socket it was sent on. *)
TokenNames_forGood(i, c) == born[i] = c
TokenNames(i, c) == born[i] = c /\ socket[c] = "open"

(* claimWebTransport: the page's token, in a datagram that may be late.     *)
(* attach() puts the session in place of any other.                         *)
Claim(i, c) ==
  /\ mine[H3(i)] # "none" /\ theirs[H3(i)] = "none"
  /\ TokenNames(i, c)
  /\ theirs' = [Drop(using[c]) EXCEPT ![H3(i)] = "open"]
  /\ owner' = [owner EXCEPT ![H3(i)] = c]
  /\ using' = [using EXCEPT ![c] = H3(i)]
  /\ heard' = Unheard(c)
  /\ UNCHANGED <<socket, lastCt, pageVars, netVars>>

(* A session the page closed, that failed, or that never named its player. *)
SessionEnds(k) ==
  /\ theirs[k] # "closed" /\ (theirs[k] = "none" => k[2] = "h3" /\ mine[k] # "none")
  /\ theirs' = Drop(k)
  /\ using' = LetGo(k)
  /\ UNCHANGED <<socket, heard, lastCt, owner, pageVars, netVars>>

Newest_last(c, n) == n
Newest(c, n) == IF n > lastCt[c] THEN n ELSE lastCt[c]

(* udpChannelMessage, of a move: a closed session's is not heard, and one   *)
(* older than one taken is not taken.                                       *)
Deliver(m) ==
  /\ m \in air /\ theirs[m[1]] # "answered"
  /\ air' = air \ {m}
  /\ IF theirs[m[1]] = "open"
       THEN LET c == owner[m[1]] IN
            /\ heard' = [heard EXCEPT ![c] = IF using[c] = m[1] THEN m[1] ELSE @]
            /\ lastCt' = [lastCt EXCEPT ![c] = Newest(c, m[2])]
       ELSE UNCHANGED <<heard, lastCt>>
  /\ UNCHANGED <<socket, using, theirs, owner, pageVars, up, down>>

Lose(m) ==
  /\ m \in air
  /\ air' = air \ {m}
  /\ UNCHANGED <<serverVars, pageVars, up, down>>

(* ws.close(), a kick or the page's own close frame; then the socket's      *)
(* `close', which takes the channel and the token.                          *)
StartClosing(c) ==
  /\ socket[c] = "open"
  /\ socket' = [socket EXCEPT ![c] = "closing"]
  /\ UNCHANGED <<using, heard, lastCt, theirs, owner, pageVars, netVars>>

SocketCloses(c) ==
  /\ socket[c] \in {"open", "closing"}
  /\ socket' = [socket EXCEPT ![c] = "closed"]
  /\ theirs' = Drop(using[c])
  /\ using' = LetGo(using[c])
  /\ up' = [up EXCEPT ![c] = <<>>]
  /\ UNCHANGED <<heard, lastCt, owner, pageVars, down, air>>

-----------------------------------------------------------------------------

ChannelNext ==
  \/ Connect \/ ReceiveInit \/ ReceiveAnswer \/ Offer \/ PeerOpens \/ PeerEnds \/ TransportEnds
  \/ Disconnected \/ SendMove
  \/ \E i \in 1..Inits : \/ StartTaken(i) \/ StartFails(i)
                         \/ \E c \in 1..Conns : Claim(i, c)
  \/ \E k \in Chans : Answer(k) \/ SessionOpens(k) \/ SessionEnds(k)
  \/ \E m \in air : Deliver(m) \/ Lose(m)
  \/ \E c \in 1..Conns : TakeOffer(c) \/ OfferTooSoon(c) \/ StartClosing(c) \/ SocketCloses(c)

(* Timers and closing handshakes take their course: setTimeout fires, an    *)
(* agreed peer opens or is dropped, and each end learns that the other has  *)
(* gone (WebTransport's `closed', a peer's connection state).               *)
ChannelFairness ==
  /\ \A i \in 1..Inits : WF_channelVars(StartFails(i))
  /\ \A k \in Chans : WF_channelVars(SessionOpens(k))
  /\ WF_channelVars(pc # NoChannel /\ (mine[pc] # "open" \/ theirs[pc] = "closed") /\ PeerEnds)
  /\ WF_channelVars(transport # NoChannel /\ theirs[transport] = "closed" /\ TransportEnds)

ChannelSpec == ChannelInit /\ [][ChannelNext]_channelVars /\ ChannelFairness

-----------------------------------------------------------------------------
(* Properties.                                                              *)

Live == {"new", "answered", "open"}

(* A player has one channel: whatever order offers, claims and closings     *)
(* come in, a session that still lives is the one the server sends on       *)
(* (player.udpChannel), so none is left behind to carry moves of its own.   *)
OneChannel == \A k \in Chans : theirs[k] \in Live => using[owner[k]] = k

(* No session outlives the WebSocket it belongs to: an offer handled while  *)
(* the socket closes, or a token that comes late, leaves nothing behind.    *)
NoneOutlivesSocket ==
  \A k \in Chans : theirs[k] \in Live => socket[owner[k]] \in {"open", "closing"}

(* The scoreboard's `+' (udpChannelHeard) is about the channel in use: a    *)
(* word on an earlier one does not pass for a word on this one.             *)
HeardOnThisOne ==
  \A c \in 1..Conns : using[c] # NoChannel /\ heard[c] # NoChannel => heard[c] = using[c]

(* An attempt given up leaves nothing open on the page: every end that      *)
(* lives is the one its kind of channel holds, so close() reaches it.       *)
PageHoldsItsEnds == \A k \in Chans : mine[k] \in {"new", "trying", "open"} => k \in {transport, pc}

(* There is one channel at either end: nothing that crosses - offers and    *)
(* claims, a close and a late claim, two starts - leaves another alive.     *)
ChannelIsOne == OneChannel /\ NoneOutlivesSocket /\ HeardOnThisOne /\ PageHoldsItsEnds

(* Moves a channel delays or reorders never put the tank back among those   *)
(* it brought, not even across two channels of a player, and none is taken  *)
(* for a player whose socket has closed.                                    *)
MovesForward ==
  [][\A c \in 1..Conns : lastCt'[c] # lastCt[c]
        => lastCt'[c] > lastCt[c] /\ socket[c] # "closed"]_channelVars

(* start() always gets an answer: no attempt awaits for ever.               *)
AttemptsEnd == \A i \in 1..Inits : i \in starting ~> i \notin starting

(* The page never sends for good into a channel the server does not listen  *)
(* to: either both come to use it or the page lets go and the WebSocket     *)
(* carries its moves.                                                       *)
EndsAgree ==
  \A k \in Chans : PageOpen(k) ~> \/ ~PageOpen(k)
                                  \/ theirs[k] = "open" /\ using[owner[k]] = k

(* Every attempt and every disagreement of the two ends passes.             *)
ChannelsSettle == AttemptsEnd /\ EndsAgree
=============================================================================
