---------------------------- MODULE MCFlagGame ----------------------------
(* Small worlds for FlagGame: colour teams, a pool slot, a required slot;  *)
(* G is a good flag with a shot limit, B a bad one.                        *)
EXTENDS FlagGame, TLC

CONSTANTS G, B, TH, SH, GLimit

MCPinBad == [f \in Required |-> B]
MCPinTH == [f \in Required |-> TH]
MCShotLimit == [y \in Types |-> IF y = G THEN GLimit ELSE 0]
Symmetry == Permutations(Players)
===========================================================================
