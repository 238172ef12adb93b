----------------------------- MODULE Stopwatch -----------------------------
(***************************************************************************)
(* What a match clock promises: it times what is played of a match and      *)
(* nothing of the time it is held.                                          *)
(***************************************************************************)
EXTENDS Naturals

VARIABLES face, elapsed

Faces == {"off", "running", "held"}

Init == face \in {"off", "running"} /\ elapsed = 0

(* A match begins, timed or not, whatever the clock was at. *)
Begin == face' \in {"off", "running"} /\ elapsed' = 0
Second == face = "running" /\ elapsed' = elapsed + 1 /\ UNCHANGED face
Hold == face = "running" /\ face' = "held" /\ UNCHANGED elapsed
Release == face = "held" /\ face' = "running" /\ UNCHANGED elapsed
End == face' = "off" /\ elapsed' = 0

Next == Begin \/ Second \/ Hold \/ Release \/ End

Spec == Init /\ [][Next]_<<face, elapsed>>
=============================================================================
