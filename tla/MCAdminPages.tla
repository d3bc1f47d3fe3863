---------------------------- MODULE MCAdminPages ----------------------------
EXTENDS AdminPages

(* Three voters make a list that is loaded in three parts.                 *)
SmallCollections ==
    [k \in Pages |-> CASE k = "voters" -> {1, 2, 3}
                       [] k = "dashboard" -> {1, 2}
                       [] OTHER -> {1}]

=============================================================================
