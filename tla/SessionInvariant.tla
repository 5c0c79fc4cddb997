-------------------------- MODULE SessionInvariant --------------------------
(***************************************************************************)
(* The inductive invariant behind the theorems about Session.              *)
(***************************************************************************)
EXTENDS Session

\* A ledger of pending actions: identifiers issued so far, well-typed actions.
Typed(actions, next) ==
    /\ DOMAIN actions \subseteq 1..(next - 1)
    /\ actions \in [DOMAIN actions -> PendingAction]

\* Every SetCompositionText of a ledger shows the composer, which is not empty, and
\* there is one at most, and none unless the host has marked text.
UpdatesCurrent(actions, c) ==
    \A id \in DOMAIN actions : actions[id].kind = "SetCompositionText" =>
        /\ MarkedText
        /\ c.text # <<>>
        /\ actions[id].text = c.text
        /\ actions[id].offset = cursor_utf8_byte_offset(c)
        /\ \A other \in DOMAIN actions :
              actions[other].kind = "SetCompositionText" => other = id

NoRecovery(actions) == \A id \in DOMAIN actions : actions[id].recovery = {}

\* The text a recovery would bring back is as sound as the one it was saved from.
RecoverySound ==
    \A id \in DOMAIN pending_actions : \A recovery \in pending_actions[id].recovery :
        /\ CursorInText(recovery.composer)
        /\ Len(recovery.composer.text) <= MaxCompositionTextBytes

\* The fields that neither the view nor the ledger explains.
RestSound ==
    /\ state_revision \in Revision
    /\ context \in Context
    /\ input_sequence \in 0..U64Max
    /\ platform_composition_active \in BOOLEAN
    /\ reconciliation_required \in BOOLEAN
    /\ reply \in Replies

\* The view is well typed, bound to the revision and that of the composer's text.
ViewSound ==
    /\ phase \in {"Idle", "Composing", "CandidateSelecting"}
    /\ composer \in Composers
    /\ candidate_snapshot \in CandidateSnapshot
    /\ degraded_components \in SUBSET Components
    /\ SnapshotBound
    /\ CursorWithinText
    /\ CompositionWithinLimit
    /\ ViewMatchesComposition
    /\ SelectionInRange

\* The ledger is well typed; what it would bring back is sound and still fits; what
\* it has told the host of the composition is current.
LedgerSound ==
    /\ next_action_id \in ActionId
    /\ Typed(pending_actions, next_action_id)
    /\ DOMAIN resolved_actions \subseteq 1..(next_action_id - 1)
    /\ resolved_actions \in [DOMAIN resolved_actions -> Dispositions]
    /\ RecoveryFresh
    /\ RecoverySound
    /\ UpdatesCurrent(pending_actions, composer)

\* The parts need one another: a restored text has candidates by RecoverySound, a
\* commit saves a text by ViewMatchesComposition, and a restored text contradicts no
\* outstanding update by UpdatesCurrent.
IInv == RestSound /\ ViewSound /\ LedgerSound
=============================================================================
