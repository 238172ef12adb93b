--------------------------- MODULE Channels_proof ---------------------------
(***************************************************************************)
(* The UDP channel, for any number of inits, connections and moves: one    *)
(* channel at either end, and moves that only go forward.                  *)
(***************************************************************************)
EXTENDS Channels, TLAPS

\* A session that lives belongs to a connection the page has had.
LiveOwned == \A k \in Chans : theirs[k] \in Live => owner[k] \in 1..Conns

ServerInv ==
  /\ theirs \in [Chans -> SessionStates] /\ owner \in [Chans -> 0..Conns]
  /\ using \in [1..Conns -> Chans \cup {NoChannel}] /\ heard \in [1..Conns -> Chans \cup {NoChannel}]
  /\ socket \in [1..Conns -> Sockets]
  /\ LiveOwned /\ OneChannel /\ NoneOutlivesSocket /\ HeardOnThisOne

PageInv ==
  /\ conn \in 0..Conns /\ lastConn \in 0..Conns /\ inits \in 0..Inits /\ starting \subseteq 1..Inits
  /\ transport \in Chans \cup {NoChannel} /\ pc \in Chans \cup {NoChannel}
  /\ mine \in [Chans -> PageStates] /\ up \in [1..Conns -> Seq(Chans)]
  /\ PageHoldsItsEnds

\* What each end of the invariant reads.
serverEnds == <<theirs, owner, using, heard, socket>>
pageEnds == <<conn, lastConn, inits, starting, transport, pc, mine, up>>

-----------------------------------------------------------------------------
(* The server.                                                              *)

LEMMA ServerStays == ASSUME ServerInv, UNCHANGED serverEnds PROVE ServerInv'
BY DEF ServerInv, serverEnds, LiveOwned, OneChannel, NoneOutlivesSocket, HeardOnThisOne

\* A session put in place closes the one that was there, so what else lives
\* is other players'.
LEMMA AttachKeeps ==
  ASSUME ServerInv, NEW k \in Chans, NEW c \in 1..Conns, NEW st \in Live,
         theirs' = [Drop(using[c]) EXCEPT ![k] = st],
         owner' = [owner EXCEPT ![k] = c], using' = [using EXCEPT ![c] = k],
         heard' = Unheard(c), UNCHANGED socket, socket[c] \in {"open", "closing"}
  PROVE  ServerInv'
<1>1. /\ theirs' \in [Chans -> SessionStates] /\ owner' \in [Chans -> 0..Conns]
      /\ using' \in [1..Conns -> Chans \cup {NoChannel}]
      /\ heard' \in [1..Conns -> Chans \cup {NoChannel}] /\ socket' \in [1..Conns -> Sockets]
  BY DEF ServerInv, Drop, Unheard, Live, SessionStates
<1>2. theirs'[k] = st /\ owner'[k] = c /\ using'[c] = k
  BY DEF ServerInv, Drop
<1>3. \A x \in Chans \ {k} : theirs'[x] \in Live
        => /\ theirs[x] \in Live /\ owner'[x] = owner[x] /\ owner[x] # c
           /\ using'[owner[x]] = using[owner[x]]
  BY DEF ServerInv, Drop, LiveOwned, OneChannel, Live
<1>4. LiveOwned' /\ OneChannel' /\ NoneOutlivesSocket'
  BY <1>2, <1>3 DEF ServerInv, LiveOwned, OneChannel, NoneOutlivesSocket
<1>5. HeardOnThisOne'
  BY DEF ServerInv, HeardOnThisOne, Unheard
<1>. QED  BY <1>1, <1>4, <1>5 DEF ServerInv

\* A session that ends is no longer in use.
LEMMA EndKeeps ==
  ASSUME ServerInv, NEW k \in Chans \cup {NoChannel}, theirs' = Drop(k), using' = LetGo(k),
         UNCHANGED <<owner, heard>>, socket' \in [1..Conns -> Sockets],
         \A c \in 1..Conns : socket'[c] = socket[c] \/ using[c] = k
  PROVE  ServerInv'
<1>1. /\ theirs' \in [Chans -> SessionStates]
      /\ using' \in [1..Conns -> Chans \cup {NoChannel}]
  BY DEF ServerInv, Drop, LetGo, SessionStates
<1>2. \A x \in Chans : theirs'[x] \in Live
        => /\ theirs[x] \in Live /\ x # k
           /\ owner[x] \in 1..Conns /\ using[owner[x]] = x /\ using'[owner[x]] = x
  BY DEF ServerInv, Drop, LetGo, LiveOwned, OneChannel, Live
<1>3. LiveOwned' /\ OneChannel' /\ NoneOutlivesSocket'
  BY <1>2 DEF ServerInv, LiveOwned, OneChannel, NoneOutlivesSocket
<1>4. HeardOnThisOne'
  BY DEF ServerInv, HeardOnThisOne, LetGo
<1>. QED  BY <1>1, <1>3, <1>4 DEF ServerInv

LEMMA ServerStep == ServerInv /\ PageInv /\ [ChannelNext]_channelVars => ServerInv'
<1>. SUFFICES ASSUME ServerInv, PageInv, [ChannelNext]_channelVars PROVE ServerInv'
  OBVIOUS
<1>1. CASE Connect
  BY <1>1 DEF Connect, ServerInv, LiveOwned, OneChannel, NoneOutlivesSocket, HeardOnThisOne, Sockets
<1>2. CASE \/ ReceiveInit \/ ReceiveAnswer \/ Offer \/ PeerOpens \/ PeerEnds \/ TransportEnds
           \/ Disconnected \/ SendMove \/ UNCHANGED channelVars
  BY <1>2, ServerStays DEF ReceiveInit, ReceiveAnswer, Offer, PeerOpens, PeerEnds, TransportEnds,
     Disconnected, SendMove, channelVars, serverVars, serverEnds
<1>3. ASSUME NEW i \in 1..Inits, StartTaken(i) \/ StartFails(i) PROVE ServerInv'
  BY <1>3, ServerStays DEF StartTaken, StartFails, serverVars, serverEnds
<1>4. ASSUME NEW i \in 1..Inits, NEW c \in 1..Conns, Claim(i, c) PROVE ServerInv'
  <2>1. H3(i) \in Chans /\ "open" \in Live
    BY DEF H3, Chans, Live
  <2>2. socket[c] \in {"open", "closing"}
    BY <1>4 DEF Claim, TokenNames
  <2>. QED  BY <1>4, <2>1, <2>2, AttachKeeps DEF Claim
<1>5. ASSUME NEW k \in Chans, Answer(k) \/ SessionOpens(k) PROVE ServerInv'
  BY <1>5 DEF Answer, SessionOpens, ServerInv, LiveOwned, OneChannel, NoneOutlivesSocket,
     HeardOnThisOne, Live, SessionStates
<1>6. ASSUME NEW k \in Chans, SessionEnds(k) PROVE ServerInv'
  BY <1>6, EndKeeps DEF SessionEnds, ServerInv
<1>7. ASSUME NEW m \in air, Deliver(m) \/ Lose(m) PROVE ServerInv'
  <2>1. UNCHANGED <<theirs, owner, using, socket>>
    BY <1>7 DEF Deliver, Lose, serverVars
  <2>2. /\ heard' \in [1..Conns -> Chans \cup {NoChannel}]
        /\ \A c \in 1..Conns : heard'[c] = heard[c] \/ heard'[c] = using[c]
    BY <1>7 DEF Deliver, Lose, serverVars, ServerInv
  <2>. QED  BY <2>1, <2>2 DEF ServerInv, LiveOwned, OneChannel, NoneOutlivesSocket, HeardOnThisOne
<1>8. ASSUME NEW c \in 1..Conns, TakeOffer(c) PROVE ServerInv'
  <2>1. Head(up[c]) \in Chans /\ "new" \in Live
    BY <1>8 DEF TakeOffer, Live, PageInv
  <2>. QED  BY <1>8, <2>1, AttachKeeps DEF TakeOffer
<1>9. ASSUME NEW c \in 1..Conns, OfferTooSoon(c) PROVE ServerInv'
  BY <1>9, ServerStays DEF OfferTooSoon, serverVars, serverEnds
<1>10. ASSUME NEW c \in 1..Conns, StartClosing(c) PROVE ServerInv'
  BY <1>10 DEF StartClosing, ServerInv, LiveOwned, OneChannel, NoneOutlivesSocket, HeardOnThisOne, Sockets
<1>11. ASSUME NEW c \in 1..Conns, SocketCloses(c) PROVE ServerInv'
  <2>1. using[c] \in Chans \cup {NoChannel} /\ socket' \in [1..Conns -> Sockets]
        /\ \A d \in 1..Conns : socket'[d] = socket[d] \/ using[d] = using[c]
    BY <1>11 DEF SocketCloses, ServerInv, Sockets
  <2>2. theirs' = Drop(using[c]) /\ using' = LetGo(using[c]) /\ UNCHANGED <<owner, heard>>
    BY <1>11 DEF SocketCloses
  <2>. QED  BY <2>1, <2>2, EndKeeps
<1>. QED  BY <1>1, <1>2, <1>3, <1>4, <1>5, <1>6, <1>7, <1>8, <1>9, <1>10, <1>11 DEF ChannelNext

-----------------------------------------------------------------------------
(* The page.                                                                *)

LEMMA PageStays == ASSUME PageInv, UNCHANGED pageEnds PROVE PageInv'
BY DEF PageInv, pageEnds, PageHoldsItsEnds

\* The kinds of channel a new init may lead to.
LEMMA Kinds == ASSUME NEW i \in 1..Inits PROVE H3(i) \in Chans /\ Rtc(i) \in Chans
BY DEF H3, Rtc, Chans

\* rtcChannel.start leaves the page with an open peer, or a new one.
LEMMA StartRtcKeeps ==
  ASSUME PageInv, NEW i \in 1..Inits, NEW ends \in [Chans -> PageStates], StartRtc(i, ends),
         transport' \in Chans \cup {NoChannel}, starting' \subseteq 1..Inits, inits' \in 0..Inits,
         UNCHANGED <<conn, lastConn, up>>,
         \A k \in Chans : ends[k] \in {"new", "trying", "open"} => k \in {transport', pc}
  PROVE  PageInv'
<1>1. CASE PageOpen(pc)
  BY <1>1 DEF StartRtc, PageInv, PageHoldsItsEnds
<1>2. CASE ~PageOpen(pc)
  <2>1. /\ pc' = Rtc(i)
        /\ mine' = [k \in Chans |-> IF k = pc THEN "closed" ELSE IF k = Rtc(i) THEN "new" ELSE ends[k]]
    BY <1>2 DEF StartRtc
  <2>2. mine' \in [Chans -> PageStates] /\ pc' \in Chans
    BY <2>1, Kinds DEF PageStates
  <2>3. PageHoldsItsEnds'
    BY <2>1 DEF PageHoldsItsEnds
  <2>. QED  BY <2>2, <2>3 DEF PageInv
<1>. QED  BY <1>1, <1>2

\* What is closed is no longer held.
LEMMA CloseKeeps ==
  ASSUME PageInv, NEW S, mine' = Closed(S),
         transport' \in {transport, NoChannel}, pc' \in {pc, NoChannel},
         transport' # transport => transport \in S, pc' # pc => pc \in S,
         conn' \in 0..Conns, UNCHANGED <<lastConn, inits, starting, up>>
  PROVE  PageInv'
<1>1. mine' \in [Chans -> PageStates]
  BY DEF PageInv, Closed, PageStates
<1>2. PageHoldsItsEnds'
  BY DEF PageInv, Closed, PageHoldsItsEnds
<1>. QED  BY <1>1, <1>2 DEF PageInv

LEMMA PageStep == PageInv /\ [ChannelNext]_channelVars => PageInv'
<1>. SUFFICES ASSUME PageInv, [ChannelNext]_channelVars PROVE PageInv'
  OBVIOUS
<1>1. CASE Connect
  BY <1>1, ChannelAssumption DEF Connect, PageInv, PageHoldsItsEnds, netVars
<1>2. CASE ReceiveInit
  <2>1. /\ inits + 1 \in 1..Inits /\ inits' = inits + 1 /\ inits' \in 0..Inits
        /\ UNCHANGED <<conn, lastConn, up>>
    BY <1>2, ChannelAssumption DEF ReceiveInit, PageInv, netVars
  <2>2. CASE PageOpen(transport) \/ PageOpen(pc)
    BY <1>2, <2>1, <2>2 DEF ReceiveInit, PageInv, PageHoldsItsEnds
  <2>3. CASE /\ transport' = H3(inits + 1) /\ starting' = starting \cup {inits + 1}
             /\ mine' = [Closed({transport}) EXCEPT ![H3(inits + 1)] = "trying"]
             /\ UNCHANGED <<pc, answer>>
    <3>1. mine' \in [Chans -> PageStates]
      BY <2>3 DEF PageInv, Closed, PageStates
    <3>2. PageHoldsItsEnds'
      BY <2>1, <2>3, Kinds DEF PageInv, Closed, PageHoldsItsEnds
    <3>. QED  BY <2>1, <2>3, <3>1, <3>2, Kinds DEF PageInv
  <2>4. CASE /\ transport' = NoChannel /\ UNCHANGED starting
             /\ StartRtc(inits + 1, Closed({transport}))
    <3>1. Closed({transport}) \in [Chans -> PageStates]
      BY DEF PageInv, Closed, PageStates
    <3>2. \A k \in Chans : Closed({transport})[k] \in {"new", "trying", "open"} => k \in {transport', pc}
      BY DEF PageInv, Closed, PageHoldsItsEnds
    <3>. QED  BY <2>1, <2>4, <3>1, <3>2, StartRtcKeeps DEF PageInv
  <2>. QED  BY <1>2, <2>2, <2>3, <2>4 DEF ReceiveInit
<1>3. CASE ReceiveAnswer \/ SendMove \/ UNCHANGED channelVars
  BY <1>3, PageStays DEF ReceiveAnswer, SendMove, channelVars, serverVars, netVars, pageVars, pageEnds
<1>4. CASE Offer
  <2>1. /\ mine' = [mine EXCEPT ![pc] = "trying"] /\ pc \in Chans
        /\ UNCHANGED <<conn, lastConn, inits, starting, transport, pc>>
    BY <1>4 DEF Offer, PageInv
  <2>2. up' \in [1..Conns -> Seq(Chans)]
    BY <1>4, <2>1 DEF Offer, PageInv
  <2>. QED  BY <2>1, <2>2 DEF PageInv, PageHoldsItsEnds, PageStates
<1>5. CASE PeerOpens
  BY <1>5 DEF PeerOpens, PageInv, PageHoldsItsEnds, PageStates, netVars
<1>6. CASE PeerEnds
  BY <1>6, CloseKeeps DEF PeerEnds, PageInv, netVars
<1>7. CASE TransportEnds
  BY <1>7, CloseKeeps DEF TransportEnds, PageInv, netVars
<1>8. CASE Disconnected
  <2>1. 0 \in 0..Conns
    BY ChannelAssumption
  <2>2. /\ mine' = Closed({transport, pc}) /\ transport' = NoChannel /\ pc' = NoChannel /\ conn' = 0
        /\ UNCHANGED <<lastConn, inits, starting, up>>
    BY <1>8 DEF Disconnected
  <2>. QED  BY <2>1, <2>2, CloseKeeps
<1>9. ASSUME NEW i \in 1..Inits, StartTaken(i) PROVE PageInv'
  BY <1>9 DEF StartTaken, PageInv, PageHoldsItsEnds, PageStates, netVars
<1>10. ASSUME NEW i \in 1..Inits, StartFails(i) PROVE PageInv'
  <2>. DEFINE ends == IF transport = H3(i) THEN Closed({transport}) ELSE mine
  <2>1. StartRtc(i, ends) /\ starting' = starting \ {i} /\ UNCHANGED <<conn, lastConn, inits, up>>
        /\ transport' = IF transport = H3(i) THEN NoChannel ELSE transport
    BY <1>10 DEF StartFails, netVars
  <2>2. ends \in [Chans -> PageStates]
    BY DEF PageInv, Closed, PageStates
  <2>3. \A k \in Chans : ends[k] \in {"new", "trying", "open"} => k \in {transport', pc}
    BY <2>1 DEF PageInv, Closed, PageHoldsItsEnds
  <2>. HIDE DEF ends
  <2>. QED  BY <2>1, <2>2, <2>3, StartRtcKeeps DEF PageInv
<1>11. ASSUME NEW i \in 1..Inits, NEW c \in 1..Conns, Claim(i, c) PROVE PageInv'
  BY <1>11, PageStays DEF Claim, pageVars, netVars, pageEnds
<1>12. ASSUME NEW k \in Chans, Answer(k) \/ SessionOpens(k) \/ SessionEnds(k) PROVE PageInv'
  BY <1>12, PageStays DEF Answer, SessionOpens, SessionEnds, pageVars, netVars, pageEnds
<1>13. ASSUME NEW m \in air, Deliver(m) \/ Lose(m) PROVE PageInv'
  BY <1>13, PageStays DEF Deliver, Lose, pageVars, pageEnds
<1>14. ASSUME NEW c \in 1..Conns, TakeOffer(c) \/ OfferTooSoon(c) \/ SocketCloses(c) PROVE PageInv'
  <2>1. UNCHANGED pageVars /\ up' \in [1..Conns -> Seq(Chans)]
    <3>1. \/ up' = [up EXCEPT ![c] = Tail(@)] /\ up[c] # <<>>
          \/ up' = [up EXCEPT ![c] = <<>>]
      BY <1>14 DEF TakeOffer, OfferTooSoon, SocketCloses
    <3>2. up[c] \in Seq(Chans) /\ up \in [1..Conns -> Seq(Chans)] /\ <<>> \in Seq(Chans)
      BY DEF PageInv
    <3>3. up[c] # <<>> => Tail(up[c]) \in Seq(Chans)
      BY <3>2
    <3>4. UNCHANGED pageVars
      BY <1>14 DEF TakeOffer, OfferTooSoon, SocketCloses
    <3>. QED  BY <3>1, <3>2, <3>3, <3>4
  <2>. QED  BY <2>1 DEF pageVars, PageInv, PageHoldsItsEnds
<1>15. ASSUME NEW c \in 1..Conns, StartClosing(c) PROVE PageInv'
  BY <1>15, PageStays DEF StartClosing, pageVars, netVars, pageEnds
<1>. QED  BY <1>1, <1>2, <1>3, <1>4, <1>5, <1>6, <1>7, <1>8, <1>9, <1>10, <1>11, <1>12, <1>13, <1>14,
          <1>15 DEF ChannelNext

-----------------------------------------------------------------------------

LEMMA EndsBegin == ChannelInit => ServerInv /\ PageInv
<1>1. ChannelInit => ServerInv
  <2>. SUFFICES ASSUME ChannelInit PROVE ServerInv
    OBVIOUS
  <2>1. /\ theirs = [k \in Chans |-> "none"] /\ owner = [k \in Chans |-> 0] /\ 0 \in 0..Conns
        /\ using = [c \in 1..Conns |-> NoChannel] /\ heard = [c \in 1..Conns |-> NoChannel]
        /\ socket = [c \in 1..Conns |-> "none"]
    BY ChannelAssumption DEF ChannelInit
  <2>2. \A k \in Chans : theirs[k] \notin Live
    BY <2>1 DEF Live
  <2>. QED  BY <2>1, <2>2 DEF ServerInv, LiveOwned, OneChannel, NoneOutlivesSocket, HeardOnThisOne,
         SessionStates, Sockets
<1>2. ChannelInit => PageInv
  BY ChannelAssumption DEF ChannelInit, PageInv, PageHoldsItsEnds, PageStates
<1>. QED  BY <1>1, <1>2

LEMMA EndsAlways == ChannelSpec => [](ServerInv /\ PageInv)
BY EndsBegin, ServerStep, PageStep, PTL DEF ChannelSpec

\* However offers, claims, answers, timeouts and closings cross, each player
\* has one session that lives, on a socket that is not closed, and the page
\* holds every end of its own that lives (attach and onClose in
\* openUdpChannel, claimWebTransport, and start and close in udp-channel.mjs).
THEOREM ChannelStaysOne == ChannelSpec => []ChannelIsOne
<1>1. ServerInv /\ PageInv => ChannelIsOne
  BY DEF ServerInv, PageInv, ChannelIsOne
<1>. QED  BY <1>1, EndsAlways, PTL

\* Moves are numbered, and what is under way or was taken has been sent.
MovesInv ==
  /\ ct \in 0..MaxMoves /\ air \subseteq Chans \X (1..MaxMoves)
  /\ lastCt \in [1..Conns -> 0..MaxMoves]

LEMMA MovesStep == MovesInv /\ PageInv /\ [ChannelNext]_channelVars => MovesInv'
<1>. SUFFICES ASSUME MovesInv, PageInv, [ChannelNext]_channelVars PROVE MovesInv'
  OBVIOUS
<1>1. ASSUME UNCHANGED <<ct, air, lastCt>> PROVE MovesInv'
  BY <1>1 DEF MovesInv
<1>2. CASE SendMove
  <2>1. (IF PageOpen(transport) THEN transport ELSE pc) \in Chans
    BY <1>2 DEF SendMove, PageOpen
  <2>2. ct + 1 \in 1..MaxMoves
    BY <1>2, ChannelAssumption DEF SendMove, MovesInv
  <2>. QED  BY <1>2, <2>1, <2>2 DEF SendMove, MovesInv, serverVars
<1>3. ASSUME NEW m \in air, Deliver(m) PROVE MovesInv'
  <2>1. m[2] \in 1..MaxMoves /\ \A c \in 1..Conns : Newest(c, m[2]) \in 0..MaxMoves
    BY ChannelAssumption DEF MovesInv, Newest
  <2>2. lastCt' \in [1..Conns -> 0..MaxMoves]
    BY <1>3, <2>1 DEF Deliver, MovesInv
  <2>. QED  BY <1>3, <2>2 DEF Deliver, MovesInv, pageVars
<1>4. ASSUME NEW m \in air, Lose(m) PROVE MovesInv'
  BY <1>4 DEF Lose, MovesInv, serverVars, pageVars
<1>5. CASE \/ Connect \/ ReceiveInit \/ ReceiveAnswer \/ Offer \/ PeerOpens \/ PeerEnds
           \/ TransportEnds \/ Disconnected \/ UNCHANGED channelVars
           \/ \E i \in 1..Inits : StartTaken(i) \/ StartFails(i)
  BY <1>1, <1>5 DEF Connect, ReceiveInit, ReceiveAnswer, Offer, PeerOpens, PeerEnds, TransportEnds,
     Disconnected, StartTaken, StartFails, channelVars, serverVars, pageVars, netVars
<1>6. CASE \/ \E i \in 1..Inits, c \in 1..Conns : Claim(i, c)
           \/ \E k \in Chans : Answer(k) \/ SessionOpens(k) \/ SessionEnds(k)
           \/ \E c \in 1..Conns : TakeOffer(c) \/ OfferTooSoon(c) \/ StartClosing(c) \/ SocketCloses(c)
  BY <1>1, <1>6 DEF Claim, Answer, SessionOpens, SessionEnds, TakeOffer, OfferTooSoon, StartClosing,
     SocketCloses, serverVars, pageVars, netVars
<1>. QED  BY <1>2, <1>3, <1>4, <1>5, <1>6 DEF ChannelNext

LEMMA MovesBegin == ChannelInit => MovesInv
BY ChannelAssumption DEF ChannelInit, MovesInv

LEMMA MovesAlways == ChannelSpec => []MovesInv
BY MovesBegin, MovesStep, EndsAlways, PTL DEF ChannelSpec

\* Datagrams that are late, lost or reordered never set a tank back, and none
\* is taken for a player whose socket has closed (udpChannelMessage).
THEOREM MovesNeverBack == ChannelSpec => MovesForward
<1>1. ASSUME ServerInv, MovesInv, ChannelNext, NEW c \in 1..Conns, lastCt'[c] # lastCt[c]
      PROVE  lastCt'[c] > lastCt[c] /\ socket[c] # "closed"
  <2>1. PICK m \in air : Deliver(m)
    BY <1>1 DEF ChannelNext, Connect, ReceiveInit, ReceiveAnswer, Offer, PeerOpens, PeerEnds,
       TransportEnds, Disconnected, SendMove, StartTaken, StartFails, Claim, Answer, SessionOpens,
       SessionEnds, Lose, TakeOffer, OfferTooSoon, StartClosing, SocketCloses, serverVars
  <2>2. /\ theirs[m[1]] = "open" /\ m[1] \in Chans
        /\ lastCt' = [lastCt EXCEPT ![owner[m[1]]] = Newest(owner[m[1]], m[2])]
    BY <1>1, <2>1 DEF Deliver, MovesInv
  <2>3. c = owner[m[1]] /\ lastCt'[c] = Newest(c, m[2])
    BY <1>1, <2>2 DEF MovesInv
  <2>4. lastCt'[c] > lastCt[c]
    BY <1>1, <2>3 DEF Newest
  <2>5. socket[c] # "closed"
    BY <1>1, <2>2, <2>3 DEF ServerInv, NoneOutlivesSocket, Live
  <2>. QED  BY <2>4, <2>5
<1>2. ServerInv /\ MovesInv /\ [ChannelNext]_channelVars
      => [\A c \in 1..Conns : lastCt'[c] # lastCt[c]
            => lastCt'[c] > lastCt[c] /\ socket[c] # "closed"]_channelVars
  BY <1>1
<1>. QED  BY <1>2, EndsAlways, MovesAlways, PTL DEF ChannelSpec, MovesForward

-----------------------------------------------------------------------------
(* Types.                                                                   *)

\* What is left of them: an answer is to an offer.
AnswersTyped ==
  /\ born \in [1..Inits -> 0..Conns] /\ answer \in Chans \cup {NoChannel}
  /\ down \in [1..Conns -> Seq(Chans)]

\* What it reads.
answered == <<born, answer, down>>

LEMMA AnswersStep == AnswersTyped /\ PageInv /\ [ChannelNext]_channelVars => AnswersTyped'
<1>. SUFFICES ASSUME AnswersTyped, PageInv, [ChannelNext]_channelVars PROVE AnswersTyped'
  OBVIOUS
<1>1. ASSUME UNCHANGED answered PROVE AnswersTyped'
  BY <1>1 DEF AnswersTyped, answered
<1>2. ASSUME UNCHANGED <<born, down>>, answer' \in {answer, NoChannel} PROVE AnswersTyped'
  BY <1>2 DEF AnswersTyped
<1>3. CASE ReceiveInit
  <2>1. born' \in [1..Inits -> 0..Conns] /\ UNCHANGED down
    BY <1>3 DEF ReceiveInit, AnswersTyped, PageInv, netVars
  <2>2. answer' \in {answer, NoChannel}
    BY <1>3 DEF ReceiveInit, StartRtc
  <2>. QED  BY <2>1, <2>2 DEF AnswersTyped
<1>4. ASSUME NEW i \in 1..Inits, StartFails(i) PROVE AnswersTyped'
  <2>1. answer' \in {answer, NoChannel}
    BY <1>4 DEF StartFails, StartRtc
  <2>. QED  BY <1>2, <1>4, <2>1 DEF StartFails, netVars
<1>5. CASE ReceiveAnswer
  <2>1. conn \in 1..Conns /\ down[conn] \in Seq(Chans) /\ down[conn] # <<>>
    BY <1>5, ChannelAssumption DEF ReceiveAnswer, AnswersTyped, PageInv
  <2>2. Head(down[conn]) \in Chans /\ Tail(down[conn]) \in Seq(Chans)
    BY <2>1
  <2>. QED  BY <1>5, <2>2 DEF ReceiveAnswer, AnswersTyped
<1>6. CASE PeerEnds
  BY <1>2, <1>6 DEF PeerEnds, netVars
<1>7. CASE Disconnected
  <2>1. <<>> \in Seq(Chans)
    OBVIOUS
  <2>. QED  BY <1>7, <2>1 DEF Disconnected, AnswersTyped
<1>8. ASSUME NEW k \in Chans, Answer(k) PROVE AnswersTyped'
  <2>1. \A c \in 1..Conns : Append(down[c], k) \in Seq(Chans)
    BY DEF AnswersTyped
  <2>2. down' \in [1..Conns -> Seq(Chans)]
    BY <1>8, <2>1 DEF Answer, AnswersTyped
  <2>. QED  BY <1>8, <2>2 DEF Answer, AnswersTyped, pageVars
<1>9. CASE \/ Connect \/ Offer \/ PeerOpens \/ TransportEnds \/ SendMove \/ UNCHANGED channelVars
           \/ \E i \in 1..Inits : StartTaken(i) \/ \E c \in 1..Conns : Claim(i, c)
  BY <1>1, <1>9 DEF Connect, Offer, PeerOpens, TransportEnds, SendMove, StartTaken, Claim, channelVars,
     pageVars, netVars, answered
<1>10. CASE \/ \E k \in Chans : SessionOpens(k) \/ SessionEnds(k)
            \/ \E m \in air : Deliver(m) \/ Lose(m)
            \/ \E c \in 1..Conns : TakeOffer(c) \/ OfferTooSoon(c) \/ StartClosing(c) \/ SocketCloses(c)
  BY <1>1, <1>10 DEF SessionOpens, SessionEnds, Deliver, Lose, TakeOffer, OfferTooSoon, StartClosing,
     SocketCloses, pageVars, netVars, answered
<1>. QED  BY <1>3, <1>4, <1>5, <1>6, <1>7, <1>8, <1>9, <1>10 DEF ChannelNext

ChannelInv == ServerInv /\ PageInv /\ MovesInv /\ AnswersTyped

LEMMA ChannelsBegin == ChannelInit => ChannelInv
<1>1. ChannelInit => AnswersTyped
  <2>. SUFFICES ASSUME ChannelInit PROVE AnswersTyped
    OBVIOUS
  <2>1. 0 \in 0..Conns /\ <<>> \in Seq(Chans)
    BY ChannelAssumption
  <2>. QED  BY <2>1 DEF ChannelInit, AnswersTyped
<1>. QED  BY <1>1, EndsBegin, MovesBegin DEF ChannelInv

LEMMA ChannelsGoOn == ChannelInv /\ [ChannelNext]_channelVars => ChannelInv'
BY ServerStep, PageStep, MovesStep, AnswersStep DEF ChannelInv

LEMMA ChannelsTyped == ChannelInv => ChannelTypeOK
BY DEF ChannelInv, ServerInv, PageInv, MovesInv, AnswersTyped, ChannelTypeOK

\* A player's channel is one there is, its owner a connection the page has
\* had, and an answer is to an offer: nothing points to what never was.
THEOREM ChannelTypes == ChannelSpec => []ChannelTypeOK
BY ChannelsBegin, ChannelsGoOn, ChannelsTyped, PTL DEF ChannelSpec

=============================================================================
