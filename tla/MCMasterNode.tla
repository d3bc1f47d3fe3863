---------------------------- MODULE MCMasterNode ----------------------------
(***************************************************************************)
(* MasterNode with two elections, two votes for the first and one for the  *)
(* second: a first vote that opens its chain, a second that extends it and *)
(* another chain in between.                                               *)
(***************************************************************************)
EXTENDS MasterNode

CONSTANTS e1, e2, v1, v2, v3

MCElectionOf  == [v \in Votes |-> IF v = v3 THEN e2 ELSE e1]
MCOneElection == [v \in Votes |-> e1]

=============================================================================
