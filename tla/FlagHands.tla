----------------------------- MODULE FlagHands -----------------------------
(***************************************************************************)
(* What the flag game promises about hands: a flag is in one pair of hands *)
(* or in nobody's, and no hands hold two.  Hands may open at any time and  *)
(* for any number of players at once.  They close on a flag in three ways: *)
(* they pick up one that nobody has, they take one from somebody and pay   *)
(* for it with the one they held, or they are given one.                   *)
(***************************************************************************)
CONSTANTS Flags, Players, Nobody, MayGive

VARIABLE holder

Empty(p) == \A f \in Flags : holder[f] # p

\* The hands of p close on f, and on nothing else.
Hands(p, f) ==
  [g \in Flags |-> IF g = f THEN p ELSE IF holder[g] = p THEN Nobody ELSE holder[g]]

Init == holder = [f \in Flags |-> Nobody]

Release(S) == holder' = [f \in Flags |-> IF f \in S THEN Nobody ELSE holder[f]]
Take(p, f) == Empty(p) /\ holder[f] = Nobody /\ holder' = Hands(p, f)
Rob(p, f) == ~Empty(p) /\ holder[f] \notin {Nobody, p} /\ holder' = Hands(p, f)
Give(p, f) == MayGive /\ holder' = Hands(p, f)

Next ==
  \/ \E S \in SUBSET Flags : Release(S)
  \/ \E p \in Players, f \in Flags : Take(p, f) \/ Rob(p, f) \/ Give(p, f)

Spec == Init /\ [][Next]_holder
=============================================================================
