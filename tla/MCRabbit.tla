------------------------------ MODULE MCRabbit ------------------------------
(* Small rosters for Rabbit. *)
EXTENDS Rabbit, TLC

CONSTANTS p1, p2, p3

Symmetry == Permutations(Players)
=============================================================================
