--------------------------- MODULE ElectionStatus ---------------------------
(***************************************************************************)
(* The statuses of an election and the moves between them that the backend *)
(* allows (elections/utils.ts).                                            *)
(***************************************************************************)

Statuses == {"draft", "enrolling_voters", "scheduled", "active", "ended",
             "archived", "paused"}

TRANSITIONS ==
    [from \in Statuses |->
        CASE from = "draft" ->
                {"draft", "enrolling_voters", "scheduled", "active"}
          [] from = "enrolling_voters" ->
                {"enrolling_voters", "scheduled", "paused"}
          [] from = "scheduled" -> {"scheduled", "active", "paused"}
          [] from = "active"    -> {"active", "ended", "paused"}
          [] from = "ended"     -> {"ended", "archived"}
          [] OTHER              -> {from}]

=============================================================================
