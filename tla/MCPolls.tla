------------------------------- MODULE MCPolls -------------------------------
(* Polls for TLC, with times short enough to pass. *)
EXTENDS Polls

CONSTANTS ann, bob, cy

MCNames == {ann, bob, cy}
MCReconnecting == {ann}
=============================================================================
