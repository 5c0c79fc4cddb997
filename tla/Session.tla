------------------------------- MODULE Session -------------------------------
(***************************************************************************)
(* One ImeSession of core/ime-core/src/session.rs: the text being          *)
(* composed, its candidates, and the ledger of the actions the session has *)
(* asked the host to perform and the host has still to acknowledge.        *)
(*                                                                         *)
(* The host calls process_event and acknowledge_action one at a time, in   *)
(* any order and with any arguments; each call is one step.  A call that   *)
(* fails half way keeps what it had already changed, as `?` does in the    *)
(* code, so every failure is an alternative of its action that says what   *)
(* it leaves behind.  The variables are the fields of ImeSession (its      *)
(* engine, session_id and mode never change), and reply, the outcome of    *)
(* the last call.                                                          *)
(***************************************************************************)
EXTENDS Composer, Context, InputNormalizer, Functions

CONSTANTS U64Max,               \* where checked_add on a counter fails
          MaxEventTextBytes,    \* the CoreLimits
          MaxCompositionTextBytes,
          MaxOutstandingActions,
          MaxResolvedActionHistory,
          MarkedText,           \* marked_text_support is Basic
          HardwareKeySupport,   \* hardware_key_support
          Generate(_),          \* what the candidate pipeline may answer for a text
          InsertTexts,          \* the inputs of the host's calls
          CursorDeltas,
          SelectionDeltas,
          HardwareKeys,
          Contexts,
          HostDispositions

Dispositions == {"Applied", "Rejected", "Unavailable", "Superseded", "Failed"}

Components == {"Language", "Dictionary", "Candidate", "Ranking"}

\* A pipeline answer: the ranked candidate texts, or the component that failed.
Answers == [texts : Seq(Text), failed : SUBSET Components]

\* CoreLimits::validate, and the types of the inputs.
ASSUME SessionAssumption ==
    /\ U64Max \in Nat \ {0}
    /\ MaxEventTextBytes \in Nat \ {0}
    /\ MaxCompositionTextBytes \in Nat /\ MaxCompositionTextBytes >= MaxEventTextBytes
    /\ MaxOutstandingActions \in Nat \ {0}
    /\ MaxResolvedActionHistory \in Nat \ {0}
    /\ MarkedText \in BOOLEAN
    /\ HardwareKeySupport \in BOOLEAN
    /\ InsertTexts \subseteq Text
    /\ CursorDeltas \subseteq Int
    /\ SelectionDeltas \subseteq Int
    /\ \A event \in HardwareKeys : event \in HardwareKeyEvents(InsertTexts \ {<<>>})
    /\ Contexts \subseteq Context
    /\ HostDispositions \subseteq Dispositions

\* The texts a composition can be.
CompositionText == UNION {[1..n -> Byte] : n \in 0..MaxCompositionTextBytes}

\* The candidate pipeline answers every composition.
ASSUME GenerateAssumption ==
    \A text \in CompositionText :
        /\ Generate(text) # {}
        /\ \A a \in Generate(text) : a \in Answers /\ (a.failed # {} => a.texts = <<>>)

VARIABLES state_revision, phase, composer, candidate_snapshot, degraded_components,
          context, next_action_id, input_sequence, pending_actions, resolved_actions,
          platform_composition_active, reconciliation_required, reply

view   == <<phase, composer, candidate_snapshot, degraded_components>>
ledger == <<next_action_id, pending_actions, resolved_actions>>
host   == <<platform_composition_active, reconciliation_required>>
vars   == <<state_revision, view, context, input_sequence, ledger, host, reply>>

-----------------------------------------------------------------------------
(* Types.                                                                  *)

ActionId == 1..U64Max
Revision == 0..U64Max

Kinds == {"SetCompositionText", "CancelComposition", "CommitText",
          "DeleteBackward", "RequestPlatformReset"}

\* What a CommitText needs to give its text back if the host refuses it.
CommitRecovery == [composer : Composers, post_commit_revision : Revision,
                   context_epoch : Nat, input_sequence : 0..U64Max]

\* text and offset are those of SetCompositionText and CommitText; recovery is
\* an Option, the empty set or the set of its one value.
PendingAction == [kind : Kinds, text : Text, offset : Nat,
                  originating_revision : Revision,
                  recovery : SUBSET CommitRecovery]

Action(kind, text, offset, revision, recovery) ==
    [kind |-> kind, text |-> text, offset |-> offset,
     originating_revision |-> revision, recovery |-> recovery]

PlainAction(kind, revision) == Action(kind, <<>>, 0, revision, {})

\* A candidate's identifier is its position; selected_index 0 is None.
CandidateSnapshot == [revision : Revision, entries : Seq(Text), selected_index : Nat]

EmptySnapshot(revision) == [revision |-> revision, entries |-> <<>>, selected_index |-> 0]

FromRanked(revision, texts) ==
    [revision |-> revision, entries |-> texts,
     selected_index |-> IF texts = <<>> THEN 0 ELSE 1]

Replies == {"Created", "Ok", "NoOp", "PassThrough", "Unsupported",
            "Recorded", "AlreadyResolved",
            "EventTextTooLong", "CompositionTooLong", "ContextTextTooLong",
            "StaleRevision", "UnknownCandidate", "UnknownAction",
            "TooManyOutstandingActions", "CounterExhausted"}

-----------------------------------------------------------------------------
(* The action ledger.                                                      *)

OfKind(kind) == {id \in DOMAIN pending_actions : pending_actions[id].kind = kind}

CompositionUpdates == OfKind("SetCompositionText")

\* A slip: the recoveries survive the event.
Live_KeepsRecoveries == pending_actions

\* invalidate_commit_recoveries, which every event begins with.
Live == [id \in DOMAIN pending_actions |->
            [pending_actions[id] EXCEPT !.recovery = {}]]

\* A slip: a settled action stays in the ledger.
Without_Nothing(actions, ids) == actions

Without(actions, ids) == Restrict(actions, DOMAIN actions \ ids)

\* A slip: the actions just superseded still count.
Full_WithSuperseded(actions) ==
    Cardinality(DOMAIN pending_actions) >= MaxOutstandingActions

Full(actions) == Cardinality(DOMAIN actions) >= MaxOutstandingActions

\* record_resolved for each of ids: what stays is the MaxResolvedActionHistory
\* highest identifiers, the lowest being dropped whatever its age.
Kept(ids) == {i \in ids : Cardinality({j \in ids : j > i}) < MaxResolvedActionHistory}

Recorded(ids, disposition) ==
    [i \in Kept(DOMAIN resolved_actions \cup ids) |->
        IF i \in ids THEN disposition ELSE resolved_actions[i]]

\* allocate_action_with_recovery on a ledger with room (its callers have checked).
Allocate(actions, action) ==
    IF next_action_id = U64Max
    THEN /\ pending_actions' = actions
         /\ reply' = "CounterExhausted"
         /\ UNCHANGED next_action_id
    ELSE /\ pending_actions' = [id \in DOMAIN actions \cup {next_action_id} |->
                                   IF id = next_action_id THEN action ELSE actions[id]]
         /\ next_action_id' = next_action_id + 1
         /\ reply' = "Ok"

-----------------------------------------------------------------------------
(* Steps several handlers share.                                           *)

\* bump_input_sequence, the first thing process_event does.
BumpInputSequence == /\ input_sequence < U64Max
                     /\ input_sequence' = input_sequence + 1

\* A call that leaves everything but the sequence and the recoveries alone.
Answer(outcome) ==
    /\ pending_actions' = Live
    /\ reply' = outcome
    /\ UNCHANGED <<state_revision, view, context, next_action_id, resolved_actions, host>>

Exhausted == state_revision = U64Max

\* A slip: the candidates keep the revision they were made for.
Rebound_Not(snapshot, revision) == snapshot

\* rebind_revision: bump_revision keeps the candidates bound to the session.
Rebound(snapshot, revision) == [snapshot EXCEPT !.revision = revision]

\* regenerate_candidates for a composer and the revision it is bound to.
Regenerate(edited, revision) ==
    IF edited.text = <<>>
    THEN /\ phase' = "Idle"
         /\ candidate_snapshot' = EmptySnapshot(revision)
         /\ degraded_components' = {}
    ELSE \E answer \in Generate(edited.text) :
           /\ phase' = IF answer.texts = <<>> THEN "Composing" ELSE "CandidateSelecting"
           /\ candidate_snapshot' = FromRanked(revision, answer.texts)
           /\ degraded_components' = answer.failed

\* A slip: the candidates of the text that goes stay on display.
ClearComposition_KeepsCandidates(revision) ==
    /\ composer' = EmptyComposer
    /\ phase' = "Idle"
    /\ candidate_snapshot' = Rebound(candidate_snapshot, revision)
    /\ degraded_components' = {}

\* A slip: the committed text stays in the composer.
ClearComposition_KeepsText(revision) ==
    /\ UNCHANGED composer
    /\ phase' = "Idle"
    /\ candidate_snapshot' = EmptySnapshot(revision)
    /\ degraded_components' = {}

\* composer.clear, clear_candidates and the Idle phase, at a revision.
ClearComposition(revision) ==
    /\ composer' = EmptyComposer
    /\ phase' = "Idle"
    /\ candidate_snapshot' = EmptySnapshot(revision)
    /\ degraded_components' = {}

\* composition_update_action, for the composer it announces.
CompositionUpdate(edited, revision) ==
    IF edited.text = <<>>
    THEN PlainAction("CancelComposition", revision)
    ELSE Action("SetCompositionText", edited.text, cursor_utf8_byte_offset(edited),
                revision, {})

\* A slip: an edit leaves the update of the text before it outstanding.
SupersededByEdit_None == {}

\* The actions an edit supersedes: only a host with marked text is told of it.
SupersededByEdit == IF MarkedText THEN CompositionUpdates ELSE {}

\* What insert_text, backspace, delete_forward and move_composition_cursor do
\* once the edit is known to change something: prepare_composition_update_action,
\* the edit, bump_revision, regenerate_candidates, composition_update_action.
CompositionEdit(edited) ==
    LET actions == Without(Live, SupersededByEdit)
    IN  /\ resolved_actions' = Recorded(SupersededByEdit, "Superseded")
        /\ UNCHANGED <<context, host>>
        /\ IF MarkedText /\ Full(actions)
           THEN /\ pending_actions' = actions
                /\ reply' = "TooManyOutstandingActions"
                /\ UNCHANGED <<state_revision, view, next_action_id>>
           ELSE IF Exhausted
           THEN /\ composer' = edited
                /\ pending_actions' = actions
                /\ reply' = "CounterExhausted"
                /\ UNCHANGED <<state_revision, phase, candidate_snapshot,
                               degraded_components, next_action_id>>
           ELSE /\ composer' = edited
                /\ state_revision' = state_revision + 1
                /\ Regenerate(edited, state_revision + 1)
                /\ IF MarkedText
                   THEN Allocate(actions, CompositionUpdate(edited, state_revision + 1))
                   ELSE /\ pending_actions' = actions
                        /\ reply' = "Ok"
                        /\ UNCHANGED next_action_id

\* commit_text.
CommitText(text) ==
    LET actions  == Without(Live, CompositionUpdates)
        recovery == [composer |-> composer, post_commit_revision |-> state_revision + 1,
                     context_epoch |-> context.context_epoch,
                     input_sequence |-> input_sequence + 1]
    IN  /\ resolved_actions' = Recorded(CompositionUpdates, "Superseded")
        /\ UNCHANGED <<context, host>>
        /\ IF Full(actions)
           THEN /\ pending_actions' = actions
                /\ reply' = "TooManyOutstandingActions"
                /\ UNCHANGED <<state_revision, view, next_action_id>>
           ELSE IF Exhausted
           THEN /\ ClearComposition(state_revision)
                /\ pending_actions' = actions
                /\ reply' = "CounterExhausted"
                /\ UNCHANGED <<state_revision, next_action_id>>
           ELSE /\ ClearComposition(state_revision + 1)
                /\ state_revision' = state_revision + 1
                /\ Allocate(actions, Action("CommitText", text, 0, state_revision + 1,
                                            {recovery}))

HostMayHaveComposition == platform_composition_active \/ CompositionUpdates # {}

-----------------------------------------------------------------------------
(* process_logical: what each logical input does.                          *)

\* A slip: the limit is applied to the text before the insertion.
CompositionTooLong_Before(text) == Len(composer.text) >= MaxCompositionTextBytes

CompositionTooLong(text) == Len(composer.text) + Len(text) > MaxCompositionTextBytes

insert_text(text) ==
    IF text = <<>> THEN Answer("NoOp")
    ELSE IF Len(text) > MaxEventTextBytes THEN Answer("EventTextTooLong")
    ELSE IF CompositionTooLong(text) THEN Answer("CompositionTooLong")
    ELSE CompositionEdit(Inserted(composer, text))

\* The loops of backspace and delete_forward, which stop early at the end of
\* the text, up to MaxRepeat rounds.
BackspacedTimes(c, count) ==
    LET once == Backspaced(c)
    IN  IF count <= 1 \/ once.cursor_grapheme = 0 THEN once ELSE Backspaced(once)

DeletedForwardTimes(c, count) ==
    LET once == DeletedForward(c)
    IN  IF count <= 1 \/ AtEnd(once) THEN once ELSE DeletedForward(once)

\* Outside a composition the host deletes in its own text.
backspace(count) ==
    IF phase = "Idle"
    THEN /\ IF Full(Live)
            THEN /\ pending_actions' = Live
                 /\ reply' = "TooManyOutstandingActions"
                 /\ UNCHANGED next_action_id
            ELSE Allocate(Live, PlainAction("DeleteBackward", state_revision))
         /\ UNCHANGED <<state_revision, view, context, resolved_actions, host>>
    ELSE IF composer.cursor_grapheme = 0 THEN Answer("NoOp")
    ELSE CompositionEdit(BackspacedTimes(composer, count))

delete_forward(count) ==
    IF phase = "Idle" \/ AtEnd(composer) THEN Answer("NoOp")
    ELSE CompositionEdit(DeletedForwardTimes(composer, count))

move_composition_cursor(delta) ==
    IF phase = "Idle" \/ Moved(composer, delta) = composer THEN Answer("NoOp")
    ELSE CompositionEdit(Moved(composer, delta))

commit == IF phase = "Idle" THEN Answer("NoOp") ELSE CommitText(composer.text)

cancel ==
    LET actions == Without(Live, CompositionUpdates)
    IN  IF phase = "Idle" THEN Answer("NoOp")
        ELSE /\ resolved_actions' = Recorded(CompositionUpdates, "Superseded")
             /\ UNCHANGED <<context, host>>
             /\ IF HostMayHaveComposition /\ Full(actions)
                THEN /\ pending_actions' = actions
                     /\ reply' = "TooManyOutstandingActions"
                     /\ UNCHANGED <<state_revision, view, next_action_id>>
                ELSE IF Exhausted
                THEN /\ ClearComposition(state_revision)
                     /\ pending_actions' = actions
                     /\ reply' = "CounterExhausted"
                     /\ UNCHANGED <<state_revision, next_action_id>>
                ELSE /\ ClearComposition(state_revision + 1)
                     /\ state_revision' = state_revision + 1
                     /\ IF MarkedText /\ HostMayHaveComposition
                        THEN Allocate(actions, PlainAction("CancelComposition",
                                                           state_revision + 1))
                        ELSE /\ pending_actions' = actions
                             /\ reply' = "Ok"
                             /\ UNCHANGED next_action_id

-----------------------------------------------------------------------------
(* process_event, one action per event.                                    *)

InsertText(text) == BumpInputSequence /\ insert_text(text)

Backspace == BumpInputSequence /\ backspace(1)

DeleteForward == BumpInputSequence /\ delete_forward(1)

MoveCompositionCursor(delta) == BumpInputSequence /\ move_composition_cursor(delta)

Commit == BumpInputSequence /\ commit

Cancel == BumpInputSequence /\ cancel

HardwareKey(event) ==
    LET logical == IF HardwareKeySupport THEN Normalized(event, phase # "Idle")
                   ELSE PassThrough
        input   == logical.input
    IN  /\ BumpInputSequence
        /\ \/ input = "PassThrough" /\ Answer("PassThrough")
           \/ input = "InsertText" /\ insert_text(logical.text)
           \/ input = "Backspace" /\ backspace(logical.count)
           \/ input = "DeleteForward" /\ delete_forward(logical.count)
           \/ input = "MoveCompositionCursor" /\ move_composition_cursor(logical.delta)
           \/ input = "Commit" /\ commit
           \/ input = "Cancel" /\ cancel

\* A slip: any revision will do, if the candidate exists now.
SelectCandidate_AnyRevision(candidate_id, revision) ==
    /\ BumpInputSequence
    /\ IF phase # "CandidateSelecting" THEN Answer("Unsupported")
       ELSE IF candidate_id \notin DOMAIN candidate_snapshot.entries
       THEN Answer("UnknownCandidate")
       ELSE CommitText(candidate_snapshot.entries[candidate_id])

SelectCandidate(candidate_id, revision) ==
    /\ BumpInputSequence
    /\ IF revision # state_revision THEN Answer("StaleRevision")
       ELSE IF phase # "CandidateSelecting" THEN Answer("Unsupported")
       ELSE IF candidate_snapshot.revision # state_revision THEN Answer("StaleRevision")
       ELSE IF candidate_id \notin DOMAIN candidate_snapshot.entries
       THEN Answer("UnknownCandidate")
       ELSE CommitText(candidate_snapshot.entries[candidate_id])

\* A slip: the selection is not clamped.
MovedSelection_Unclamped(snapshot, delta) ==
    IF snapshot.selected_index = 0 THEN 0 ELSE snapshot.selected_index + delta

\* CandidateSnapshot::move_selection, the index clamped to the entries.
MovedSelection(snapshot, delta) ==
    LET next == snapshot.selected_index + delta
        last == Len(snapshot.entries)
    IN  IF snapshot.selected_index = 0 THEN 0
        ELSE IF next < 1 THEN 1 ELSE IF next > last THEN last ELSE next

MoveCandidateSelection(delta) ==
    LET index == MovedSelection(candidate_snapshot, delta)
    IN  /\ BumpInputSequence
        /\ IF phase # "CandidateSelecting" THEN Answer("Unsupported")
           ELSE IF index = candidate_snapshot.selected_index THEN Answer("NoOp")
           ELSE /\ pending_actions' = Live
                /\ IF Exhausted
                   THEN /\ candidate_snapshot' = [candidate_snapshot EXCEPT
                                                    !.selected_index = index]
                        /\ reply' = "CounterExhausted"
                        /\ UNCHANGED state_revision
                   ELSE /\ candidate_snapshot' =
                             Rebound([candidate_snapshot EXCEPT !.selected_index = index],
                                     state_revision + 1)
                        /\ state_revision' = state_revision + 1
                        /\ reply' = "Ok"
                /\ UNCHANGED <<phase, composer, degraded_components, context,
                               next_action_id, resolved_actions, host>>

ContextChanged(raw) ==
    LET sanitized == Sanitized(raw)
    IN  /\ BumpInputSequence
        /\ IF ~WithinLimit(sanitized) THEN Answer("ContextTextTooLong")
           ELSE IF sanitized = context THEN Answer("NoOp")
           ELSE /\ context' = sanitized
                /\ reconciliation_required' = FALSE
                /\ pending_actions' = Live
                /\ IF Exhausted
                   THEN /\ reply' = "CounterExhausted"
                        /\ UNCHANGED <<state_revision, candidate_snapshot>>
                   ELSE /\ state_revision' = state_revision + 1
                        /\ candidate_snapshot' =
                             Rebound(candidate_snapshot, state_revision + 1)
                        /\ reply' = "Ok"
                /\ UNCHANGED <<phase, composer, degraded_components, next_action_id,
                               resolved_actions, platform_composition_active>>

\* A slip: a reset that only drops the context is taken for no change.
ResetChanges_NotContext == \/ phase # "Idle"
                           \/ composer.text # <<>>
                           \/ reconciliation_required

\* Whether a reset changes what the session shows or knows.
ResetChanges == \/ phase # "Idle"
                \/ composer.text # <<>>
                \/ context # DefaultContext
                \/ reconciliation_required

\* process_reset: every outstanding action is given up, and the host is asked to
\* reset if it may still show a composition.
Reset ==
    LET revision == IF ResetChanges /\ ~Exhausted THEN state_revision + 1
                    ELSE state_revision
    IN  /\ BumpInputSequence
        /\ ClearComposition(revision)
        /\ state_revision' = revision
        /\ context' = DefaultContext
        /\ reconciliation_required' = FALSE
        /\ resolved_actions' = Recorded(DOMAIN pending_actions, "Superseded")
        /\ IF ResetChanges /\ Exhausted
           THEN /\ pending_actions' = <<>>
                /\ reply' = "CounterExhausted"
                /\ UNCHANGED next_action_id
           ELSE IF HostMayHaveComposition
           THEN Allocate(<<>>, PlainAction("RequestPlatformReset", revision))
           ELSE /\ pending_actions' = <<>>
                /\ reply' = IF ResetChanges THEN "Ok" ELSE "NoOp"
                /\ UNCHANGED next_action_id
        /\ UNCHANGED platform_composition_active

\* NextCandidatePage, PreviousCandidatePage, SwitchMode and FocusChanged.
UnsupportedEvent == BumpInputSequence /\ Answer("Unsupported")

\* Any event, once the sequence cannot be bumped any more.
InputSequenceExhausted ==
    /\ input_sequence = U64Max
    /\ reply' = "CounterExhausted"
    /\ UNCHANGED <<state_revision, view, context, input_sequence, ledger, host>>

-----------------------------------------------------------------------------
(* acknowledge_action.                                                     *)

Refusals == {"Rejected", "Unavailable", "Failed"}

CanRestoreCommit(recovery) ==
    /\ ~reconciliation_required
    /\ input_sequence = recovery.input_sequence
    /\ state_revision = recovery.post_commit_revision
    /\ context.context_epoch = recovery.context_epoch
    /\ phase = "Idle"
    /\ composer.text = <<>>

\* A slip: a commit leaves the host's composition standing.
CompositionActiveAfter_CommitKeeps(kind, disposition) ==
    IF disposition # "Applied" THEN platform_composition_active
    ELSE CASE kind = "SetCompositionText" -> TRUE
           [] kind \in {"CancelComposition", "RequestPlatformReset"} -> FALSE
           [] kind \in {"CommitText", "DeleteBackward"} -> platform_composition_active

\* update_platform_composition_state on platform_composition_active.
CompositionActiveAfter(kind, disposition) ==
    IF disposition # "Applied" THEN platform_composition_active
    ELSE CASE kind = "SetCompositionText" -> TRUE
           [] kind \in {"CancelComposition", "CommitText", "RequestPlatformReset"} -> FALSE
           [] kind = "DeleteBackward" -> platform_composition_active

\* A commit the host refused, with a recovery that still applies: the text comes
\* back.  When the revision is exhausted the action is gone and not recorded.
RestoreCommit(id, recovery, disposition) ==
    /\ pending_actions' = Without(pending_actions, {id})
    /\ IF Exhausted
       THEN /\ reply' = "CounterExhausted"
            /\ UNCHANGED <<state_revision, view, resolved_actions>>
       ELSE /\ state_revision' = state_revision + 1
            /\ composer' = recovery.composer
            /\ Regenerate(recovery.composer, state_revision + 1)
            /\ resolved_actions' = Recorded({id}, disposition)
            /\ reply' = "Recorded"
    /\ UNCHANGED <<context, input_sequence, next_action_id, host>>

\* A slip: the refusal of a commit goes unnoticed.
Resolve_Silently(id, disposition) ==
    /\ pending_actions' = Without(pending_actions, {id})
    /\ resolved_actions' = Recorded({id}, disposition)
    /\ platform_composition_active' =
         CompositionActiveAfter(pending_actions[id].kind, disposition)
    /\ reply' = "Recorded"
    /\ UNCHANGED <<state_revision, view, context, input_sequence, next_action_id,
                   reconciliation_required>>

\* Every other first acknowledgement of a pending action.
Resolve(id, disposition) ==
    LET kind == pending_actions[id].kind
    IN  /\ pending_actions' = Without(pending_actions, {id})
        /\ resolved_actions' = Recorded({id}, disposition)
        /\ platform_composition_active' = CompositionActiveAfter(kind, disposition)
        /\ reconciliation_required' =
             IF kind = "CommitText" /\ disposition \in Refusals THEN TRUE
             ELSE IF kind = "RequestPlatformReset" /\ disposition = "Applied" THEN FALSE
             ELSE reconciliation_required
        /\ reply' = "Recorded"
        /\ UNCHANGED <<state_revision, view, context, input_sequence, next_action_id>>

AcknowledgePending(id, disposition) ==
    LET pending  == pending_actions[id]
        restores == {r \in pending.recovery :
                        /\ pending.kind = "CommitText"
                        /\ disposition \in Refusals
                        /\ CanRestoreCommit(r)}
    IN  IF restores = {}
        THEN Resolve(id, disposition)
        ELSE \E recovery \in restores : RestoreCommit(id, recovery, disposition)

AcknowledgeAction(id, disposition) ==
    IF id \in DOMAIN pending_actions
    THEN AcknowledgePending(id, disposition)
    ELSE /\ reply' = IF id \in DOMAIN resolved_actions THEN "AlreadyResolved"
                     ELSE "UnknownAction"
         /\ UNCHANGED <<state_revision, view, context, input_sequence, ledger, host>>

-----------------------------------------------------------------------------
Init ==
    /\ state_revision = 0
    /\ phase = "Idle"
    /\ composer = EmptyComposer
    /\ candidate_snapshot = EmptySnapshot(0)
    /\ degraded_components = {}
    /\ context = DefaultContext
    /\ next_action_id = 1
    /\ input_sequence = 0
    /\ pending_actions = <<>>
    /\ resolved_actions = <<>>
    /\ platform_composition_active = FALSE
    /\ reconciliation_required = FALSE
    /\ reply = "Created"

\* A selection names a candidate and a revision of some result the host has seen.
ProcessEvent ==
    \/ \E text \in InsertTexts : InsertText(text)
    \/ Backspace
    \/ DeleteForward
    \/ \E delta \in CursorDeltas : MoveCompositionCursor(delta)
    \/ \E event \in HardwareKeys : HardwareKey(event)
    \/ Commit
    \/ Cancel
    \/ \E id \in 1..(Len(candidate_snapshot.entries) + 1), revision \in 0..state_revision :
          SelectCandidate(id, revision)
    \/ \E delta \in SelectionDeltas : MoveCandidateSelection(delta)
    \/ \E raw \in Contexts : ContextChanged(raw)
    \/ Reset
    \/ UnsupportedEvent
    \/ InputSequenceExhausted

Acknowledge == \E id \in ActionId, disposition \in HostDispositions :
                  AcknowledgeAction(id, disposition)

Next == ProcessEvent \/ Acknowledge

Spec == Init /\ [][Next]_vars

-----------------------------------------------------------------------------
(* Properties.                                                             *)

\* Every field has its type; identifiers in the ledger have been issued.
TypeOK ==
    /\ state_revision \in Revision
    /\ phase \in {"Idle", "Composing", "CandidateSelecting"}
    /\ composer \in Composers
    /\ candidate_snapshot \in CandidateSnapshot
    /\ degraded_components \in SUBSET Components
    /\ context \in Context
    /\ next_action_id \in ActionId
    /\ input_sequence \in 0..U64Max
    /\ DOMAIN pending_actions \subseteq 1..(next_action_id - 1)
    /\ pending_actions \in [DOMAIN pending_actions -> PendingAction]
    /\ DOMAIN resolved_actions \subseteq 1..(next_action_id - 1)
    /\ resolved_actions \in [DOMAIN resolved_actions -> Dispositions]
    /\ platform_composition_active \in BOOLEAN
    /\ reconciliation_required \in BOOLEAN
    /\ reply \in Replies

\* A recovery kept in the ledger is fit for use: it belongs to the commit issued
\* last, and since that commit there was no event, no edit and no change of context,
\* so restoring it can overwrite nothing (session.rs, can_restore_commit and
\* invalidate_commit_recoveries, which guard this twice).
RecoveryFresh ==
    \A id \in DOMAIN pending_actions : \A recovery \in pending_actions[id].recovery :
        /\ id = next_action_id - 1
        /\ pending_actions[id].kind = "CommitText"
        /\ recovery.input_sequence = input_sequence
        /\ recovery.post_commit_revision = state_revision
        /\ recovery.context_epoch = context.context_epoch
        /\ phase = "Idle" /\ composer = EmptyComposer
        /\ recovery.composer.text # <<>>

\* The candidates on display are bound to the session's revision after every call,
\* failed ones included: the second staleness check of select_candidate never fires.
SnapshotBound == candidate_snapshot.revision = state_revision

\* Phase, candidates and degraded components are those the pipeline gave for the text
\* being composed, whichever call brought that text there: an edit, a refused commit
\* that came back, or a clear.  (A call that ran out of revisions may break it.)
ViewMatchesComposition ==
    ~Exhausted =>
        IF composer.text = <<>>
        THEN /\ phase = "Idle"
             /\ candidate_snapshot.entries = <<>>
             /\ degraded_components = {}
        ELSE \E answer \in Generate(composer.text) :
             /\ phase = IF answer.texts = <<>> THEN "Composing" ELSE "CandidateSelecting"
             /\ candidate_snapshot.entries = answer.texts
             /\ degraded_components = answer.failed

\* The selection points into the candidates, and there is one exactly when there are
\* candidates (selected_candidate_id in every result).
SelectionInRange ==
    IF candidate_snapshot.entries = <<>> THEN candidate_snapshot.selected_index = 0
    ELSE candidate_snapshot.selected_index \in DOMAIN candidate_snapshot.entries

\* At most one SetCompositionText is outstanding, and it carries the text and the
\* cursor the session holds now: the host is never left to apply an older composition.
CompositionUpdateCurrent ==
    \A id \in CompositionUpdates :
        /\ CompositionUpdates = {id}
        /\ pending_actions[id].text = composer.text
        /\ pending_actions[id].offset = cursor_utf8_byte_offset(composer)

\* The cursor stays within the text, whatever joins or splits around it.
CursorWithinText == CursorInText(composer)

\* The composition never outgrows its limit, a restored commit included.
CompositionWithinLimit == Len(composer.text) <= MaxCompositionTextBytes

\* The session keeps no host text that the scope of its context or the host's
\* capabilities exclude, and none beyond the limit of the scope, whichever contexts
\* came, were refused or were reset in between.
ContextAllowed ==
    LET kept == {context.before, context.selected, context.after}
    IN  /\ context.scope \in {"Password", "Sensitive"} => kept = {0}
        /\ SurroundingText = "None" => context.before = 0
        /\ SurroundingText # "Bidirectional" => context.after = 0
        /\ ~SelectedTextRead => context.selected = 0
        /\ \A length \in kept : length <= MaxContextBytes
        /\ context.scope = "Unknown" => \A length \in kept : length <= MaxUnknownContextBytes

\* A revision stands for one view: as long as it does not move, neither do the phase,
\* the text, the candidates, the selection or the context, and it never goes back.
\* This is what makes a candidate identifier with its revision name one text.
RevisionPinsView ==
    [][/\ state_revision' >= state_revision
       /\ state_revision' = state_revision /\ reply' # "CounterExhausted" =>
             UNCHANGED <<view, context>>]_vars

Errors == {"EventTextTooLong", "CompositionTooLong", "ContextTextTooLong",
           "StaleRevision", "UnknownCandidate", "UnknownAction",
           "TooManyOutstandingActions"}

\* An acknowledgement just recorded is remembered, so that its duplicate is recognised
\* (the test action_ids_are_monotonic_and_duplicate_ack_is_idempotent).
RecordedIsRemembered ==
    [][\A id \in DOMAIN pending_actions \ DOMAIN pending_actions' :
          reply' = "Recorded" => id \in DOMAIN resolved_actions']_vars

\* A call answered with an error other than an exhausted counter changes nothing the
\* host can see: in particular it has superseded no action on the way to the error.
FailedCallIsClean ==
    [][reply' \in Errors =>
         /\ UNCHANGED <<state_revision, view, context, next_action_id,
                        resolved_actions, host>>
         /\ DOMAIN pending_actions' = DOMAIN pending_actions]_vars

\* The session's ledger keeps the promises of ActionLedger.
Ledger == INSTANCE ActionLedger WITH
            MaxOutstanding <- MaxOutstandingActions,
            MaxRemembered  <- MaxResolvedActionHistory,
            Disposition    <- Dispositions,
            next           <- next_action_id,
            outstanding    <- DOMAIN pending_actions,
            remembered     <- resolved_actions

ImplementsLedger == Ledger!LedgerSpec
=============================================================================
