------------------------------ MODULE MCPlay ------------------------------
(***************************************************************************)
(* Polls, shots and locks, each on an instance of its own, as MCServices    *)
(* has the services: `at' is the one that is followed.                      *)
(***************************************************************************)
EXTENDS MCPolls, Shots

VARIABLE at

playVars == <<at, vars, shotVars, lockVars>>

PlayInit ==
  /\ at \in {"polls", "shots", "locks"}
  /\ Init /\ ShotInit /\ LockInit

PlayNext ==
  /\ UNCHANGED at
  /\ \/ at = "polls" /\ Next /\ UNCHANGED <<shotVars, lockVars>>
     \/ at = "shots" /\ ShotNext /\ UNCHANGED <<vars, lockVars>>
     \/ at = "locks" /\ LockNext /\ UNCHANGED <<vars, shotVars>>

PlaySpec == PlayInit /\ [][PlayNext]_playVars /\ Fairness /\ ShotFairness

(* The types of all three.                                                  *)
PlayTypeOK == TypeOK /\ ShotTypeOK /\ LockTypeOK
=============================================================================
