----------------------------- MODULE MCBallots -----------------------------
(***************************************************************************)
(* Ballots with one voter.  Either the voter is granted twice, revoked     *)
(* once and casts twice, for different candidates, in an election that is  *)
(* activated and ended meanwhile; or the voter is granted once and casts   *)
(* once in one that is activated while it is also ended, paused and        *)
(* deleted, or while it is paused and edited and the chosen candidate is   *)
(* added and removed.                                                      *)
(***************************************************************************)
EXTENDS Ballots

CONSTANTS anna, x, y, z, cast1, cast2, cast3, grant1, grant2, revoke1,
          activate, end, pause, rename, delete, drop, enter

MCVoterOf  == [r \in Casts \union Grants \union Revokes |-> anna]
MCChoiceOf == [c \in Casts |-> CASE c = cast1 -> x [] c = cast2 -> y [] OTHER -> z]

MCTogether == {{cast1, cast2, grant1, grant2, revoke1, activate, end},
               {cast3, grant1, activate, end, pause, delete},
               {cast3, grant1, activate, pause, rename, enter, drop}}

Edit(s, touch) == [op |-> "patch", status |-> {s}, content |-> touch]

MCWants ==
    [r \in AdminRequests |->
        CASE r = activate -> Edit("active", FALSE)
          [] r = end      -> Edit("ended", FALSE)
          [] r = pause    -> Edit("paused", FALSE)
          [] r = rename   -> [op |-> "patch", status |-> {}, content |-> TRUE]
          [] r = delete   -> [op |-> "delete"]
          [] r = enter    -> [op |-> "add", candidate |-> z]
          [] r = drop     -> [op |-> "remove", candidate |-> z]]

=============================================================================
