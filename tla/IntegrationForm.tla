-------------------------- MODULE IntegrationForm --------------------------
(***************************************************************************)
(* The integration tab of an election in apps/admin-fe                     *)
(* (integrations/election-integration-form.tsx): it shows the election's   *)
(* integration or offers to add one, edits a draft of it, saves and        *)
(* removes it, while another administrator may do so too.                  *)
(***************************************************************************)
EXTENDS Naturals

CONSTANTS
    Configs,   \* what an integration may be set to, the empty form included
    Empty,     \* the empty form
    MaxSaves,  \* bound on the changes of the stored integration
    FormNetworkFails

ASSUME EmptyIsAConfig == Empty \in Configs
ASSUME MaxSavesIsNat == MaxSaves \in Nat

VARIABLES
    stored,   \* the integration in the database
    saves,
    mode,     \* [kind, integration, configuring]
    draft,    \* httpConfig and formFields
    saving, deleting  \* the requests under way

formVars == <<stored, saves, mode, draft, saving, deleting>>

None == "no integration"

ASSUME NoneIsNoConfig == None \notin Configs

Adding      == [kind |-> "adding", integration |-> None, configuring |-> FALSE]
LoadingForm == [Adding EXCEPT !.kind = "loading"]
Configured(integration) ==
    [kind |-> "configured", integration |-> integration, configuring |-> FALSE]

FormTypeOK ==
    /\ stored \in Configs \union {None}
    /\ saves \in 0 .. MaxSaves
    /\ mode \in [kind : {"loading", "configured", "adding", "editing"},
                 integration : Configs \union {None}, configuring : BOOLEAN]
    /\ mode.integration = None <=> mode.kind \in {"loading", "adding"}
    /\ draft \in Configs
    /\ saving \in [at : {"none", "sent", "saved", "failed"}, config : Configs]
    /\ deleting \in {"none", "sent", "removed", "failed"}

NotSaving == [at |-> "none", config |-> Empty]

FormInit ==
    /\ stored \in Configs \union {None}
    /\ saves = 0
    /\ mode = LoadingForm /\ draft = Empty
    /\ saving = NotSaving /\ deleting = "none"

backendIdle == UNCHANGED <<stored, saves>>

-----------------------------------------------------------------------------
(* A form that could not be loaded lets the administrator add an           *)
(* integration, which replaces the one there is.                           *)
FormLoaded ==
    /\ mode.kind = "loading"
    /\ \/ /\ stored # None
          /\ mode' = Configured(stored) /\ draft' = stored
       \/ /\ stored = None \/ FormNetworkFails
          /\ mode' = Adding /\ UNCHANGED draft
    /\ UNCHANGED <<saving, deleting>> /\ backendIdle

(* handleConfigure and handleBackToPicker: one type is available.          *)
handleConfigure ==
    /\ mode.kind \in {"adding", "editing"}
    /\ mode' = [mode EXCEPT !.configuring = ~@]
    /\ UNCHANGED <<draft, saving, deleting>> /\ backendIdle

(* The fields stay editable while a save is under way.                     *)
Type(config) ==
    /\ mode.configuring
    /\ draft' = config
    /\ UNCHANGED <<mode, saving, deleting>> /\ backendIdle

SaveUnguarded ==
    /\ mode.configuring /\ saving.at = "none"
    /\ saving' = [at |-> "sent", config |-> draft]
    /\ UNCHANGED <<mode, draft, deleting>> /\ backendIdle

handleSave ==
    /\ mode.configuring /\ saving.at = "none" /\ deleting = "none"
    /\ saving' = [at |-> "sent", config |-> draft]
    /\ UNCHANGED <<mode, draft, deleting>> /\ backendIdle

(* Offered on the card of a configured one and in the form of an edited    *)
(* one, where a save under way disables it.                                *)
handleDelete ==
    /\ deleting = "none"
    /\ \/ mode.kind = "configured"
       \/ mode.kind = "editing" /\ mode.configuring /\ saving.at = "none"
    /\ deleting' = "sent"
    /\ UNCHANGED <<mode, draft, saving>> /\ backendIdle

handleEdit ==
    /\ mode.kind = "configured"
    /\ mode' = [mode EXCEPT !.kind = "editing", !.configuring = TRUE]
    /\ UNCHANGED <<draft, saving, deleting>> /\ backendIdle

CancelKeepsDraft ==
    /\ mode.kind = "editing" /\ mode.configuring /\ saving.at = "none"
    /\ mode' = Configured(mode.integration)
    /\ UNCHANGED <<draft, saving, deleting>> /\ backendIdle

handleCancelEdit ==
    /\ mode.kind = "editing" /\ mode.configuring /\ saving.at = "none"
    /\ mode' = Configured(mode.integration)
    /\ draft' = mode.integration
    /\ UNCHANGED <<saving, deleting>> /\ backendIdle

-----------------------------------------------------------------------------
(* The requests: done, and the answer may be lost; or not done.            *)

Changed(value) ==
    /\ saves < MaxSaves
    /\ stored' = value /\ saves' = saves + 1

Outcomes(done) == {done} \union (IF FormNetworkFails THEN {"failed"} ELSE {})

upsertIntegration ==
    /\ saving.at = "sent"
    /\ Changed(saving.config)
    /\ \E at \in Outcomes("saved") : saving' = [saving EXCEPT !.at = at]
    /\ UNCHANGED <<mode, draft, deleting>>

(* Nothing to remove is an error (404).                                    *)
deleteIntegration ==
    /\ deleting = "sent" /\ stored # None
    /\ Changed(None)
    /\ deleting' \in Outcomes("removed")
    /\ UNCHANGED <<mode, draft, saving>>

RequestRefused ==
    /\ FormNetworkFails \/ saves = MaxSaves \/ stored = None
    /\ \/ /\ saving.at = "sent" /\ saving' = [saving EXCEPT !.at = "failed"]
          /\ UNCHANGED deleting
       \/ /\ deleting = "sent" /\ deleting' = "failed"
          /\ UNCHANGED saving
    /\ UNCHANGED <<mode, draft>> /\ backendIdle

AnotherAdmin ==
    /\ \E value \in (Configs \union {None}) \ {stored} : Changed(value)
    /\ UNCHANGED <<mode, draft, saving, deleting>>

(* The answer of a save is what was stored.                                *)
SaveAnswered ==
    /\ saving.at \in {"saved", "failed"}
    /\ saving' = NotSaving
    /\ IF saving.at = "saved"
       THEN mode' = Configured(saving.config) /\ draft' = saving.config
       ELSE UNCHANGED <<mode, draft>>
    /\ UNCHANGED deleting /\ backendIdle

RemovedStays ==
    /\ deleting \in {"removed", "failed"}
    /\ deleting' = "none"
    /\ IF deleting = "removed" THEN mode' = [mode EXCEPT !.kind = "adding"] ELSE mode' = mode
    /\ UNCHANGED <<draft, saving>> /\ backendIdle

DeleteAnswered ==
    /\ deleting \in {"removed", "failed"}
    /\ deleting' = "none"
    /\ IF deleting = "removed" THEN mode' = Adding /\ draft' = Empty
                               ELSE UNCHANGED <<mode, draft>>
    /\ UNCHANGED saving /\ backendIdle

-----------------------------------------------------------------------------
FormAnswers ==
    \/ FormLoaded \/ upsertIntegration \/ deleteIntegration \/ RequestRefused
    \/ SaveAnswered \/ DeleteAnswered

FormActs ==
    \/ handleConfigure \/ (\E config \in Configs : Type(config))
    \/ handleSave \/ handleDelete \/ handleEdit \/ handleCancelEdit

-----------------------------------------------------------------------------
(* Edit opens the form on what the card shows: whatever was typed,         *)
(* cancelled, saved or failed before has not stayed in the draft.          *)
EditStartsFromCard == mode.kind = "configured" => draft = mode.integration

(* A save and a removal are never under way at once, whichever way the     *)
(* administrator went between card, picker and form: the integration that  *)
(* is being removed is not written again by the same tab.                  *)
SaveAndRemoveExclude == saving.at = "none" \/ deleting = "none"

FormRests == mode.kind # "loading" /\ saving.at = "none" /\ deleting = "none"

=============================================================================
