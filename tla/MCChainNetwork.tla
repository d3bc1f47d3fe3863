--------------------------- MODULE MCChainNetwork ---------------------------
(***************************************************************************)
(* ChainNetwork with two votes of one election (so a chain of three blocks *)
(* whose messages can overtake each other) and one worker, which follows   *)
(* every election of the run: that one, or a second one too, for an        *)
(* altered message to name.                                                *)
(***************************************************************************)
EXTENDS ChainNetwork

CONSTANTS e1, e2, v1, v2, w1

MCElectionOf == [v \in Votes |-> e1]
MCFollowed   == [w \in Workers |-> Elections]

=============================================================================
