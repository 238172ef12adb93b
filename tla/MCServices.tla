----------------------------- MODULE MCServices -----------------------------
(***************************************************************************)
(* The services around the game, each on an instance of its own.  They      *)
(* share no state: a behaviour of the server is a behaviour of each with    *)
(* steps of the others in between, which leave it alone.  So one of them is *)
(* followed at a time, `on', and the others stay as they began, where none  *)
(* of their fair actions is enabled.                                        *)
(***************************************************************************)
EXTENDS Channels, MatchClock, ListLink, ListKeys, Bots

VARIABLE on

svars == <<on, channelVars, clockVars, linkVars, keyVars, botVars>>

Init ==
  /\ on \in {"channels", "clock", "link", "keys", "bots"}
  /\ ChannelInit /\ LinkInit /\ KeyInit
  /\ ClockInit /\ (on # "clock" => limit = 0 /\ ~manual)
  /\ BotsInit /\ (on # "bots" => fill = 0 /\ pilotKnown /\ ~botsDisabled)

Next ==
  /\ UNCHANGED on
  /\ \/ /\ on = "channels" /\ ChannelNext
        /\ UNCHANGED <<clockVars, linkVars, keyVars, botVars>>
     \/ /\ on = "clock" /\ ClockNext
        /\ UNCHANGED <<channelVars, linkVars, keyVars, botVars>>
     \/ /\ on = "link" /\ LinkNext
        /\ UNCHANGED <<channelVars, clockVars, keyVars, botVars>>
     \/ /\ on = "keys" /\ KeyNext
        /\ UNCHANGED <<channelVars, clockVars, linkVars, botVars>>
     \/ /\ on = "bots" /\ BotsNext
        /\ UNCHANGED <<channelVars, clockVars, linkVars, keyVars>>

Fairness ==
  ChannelFairness /\ ClockFairness /\ LinkFairness /\ KeyFairness /\ BotsFairness

Spec == Init /\ [][Next]_svars /\ Fairness

(* What each service keeps is what its code takes it for: a time is never   *)
(* negative, a pointer never to what is gone.                               *)
ServicesTypeOK == ChannelTypeOK /\ ClockTypeOK /\ LinkTypeOK /\ KeyTypeOK /\ BotTypeOK
=============================================================================
