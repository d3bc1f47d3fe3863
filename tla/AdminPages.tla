----------------------------- MODULE AdminPages -----------------------------
(***************************************************************************)
(* An administrator (or auditor) looks at one of the listing pages, or at  *)
(* the integration tab of an election.                                     *)
(***************************************************************************)
EXTENDS AdminTables, IntegrationForm

CONSTANT Screens

ASSUME ScreensKnown == Screens \subseteq {"table", "form"}

VARIABLE screen

vars == <<screen, tableVars, formVars>>

TypeOK == screen \in Screens /\ TableTypeOK /\ FormTypeOK

(* The integration tab is a tab of an election.                            *)
Init ==
    /\ screen \in Screens /\ TableInit /\ FormInit
    /\ screen = "form" => kind = "elections"

TableMoves(A) == screen = "table" /\ A /\ UNCHANGED <<screen, formVars>>
FormMoves(A)  == screen = "form" /\ A /\ UNCHANGED <<screen, tableVars>>

Next ==
    \/ TableMoves(TableAnswers) \/ TableMoves(AdminActs) \/ TableMoves(Others)
    \/ FormMoves(FormAnswers) \/ FormMoves(FormActs) \/ FormMoves(AnotherAdmin)

Spec == Init /\ [][Next]_vars

(* While requests are under way, one of them is answered or fails.         *)
FairSpec ==
    /\ Spec
    /\ WF_vars(TableMoves(TableAnswers))
    /\ WF_vars(FormMoves(FormAnswers))

(* Whatever is under way ends, and with it its spinner: a list's, a        *)
(* dialog's and the form's, although requests are aborted, overtaken or    *)
(* fail; unless the administrator clicks for ever.                         *)
AdminWaitsEnd ==
    \/ []<>(IF screen = "table" THEN NothingSpins ELSE FormRests)
    \/ []<><<FormActs \/ view' # view \/ dialog' # dialog>>_vars

=============================================================================
