------------------------------ MODULE FfiProofs ------------------------------
(***************************************************************************)
(* Behind the C ABI a session keeps all its promises, every action reaches *)
(* the caller, a selection means what its result showed, and a call that   *)
(* fails has changed nothing.                                              *)
(***************************************************************************)
EXTENDS Ffi, SessionProofs

\* The candidates on display leave room in a result for any composition.
CandidatesFit ==
    /\ Len(candidate_snapshot.entries) <= MAX_RESULT_CANDIDATES
    /\ MaxCompositionTextBytes + TextBytes(candidate_snapshot.entries)
         <= MAX_RESULT_TEXT_BYTES

\* A result of the present revision shows the candidates a selection would take, unless
\* there is nothing to select any more: a clear at the last revision keeps its number.
ResultsCurrent ==
    \A result \in results :
        /\ result.state_revision \in Nat /\ result.state_revision <= state_revision
        /\ result.state_revision = state_revision /\ phase = "CandidateSelecting"
             => result.candidates = candidate_snapshot.entries

FInv == LInv /\ JInv /\ CandidatesFit /\ ResultsCurrent /\ EveryActionDelivered

\* What a call may do to the candidates: keep them, clear them, or move on to those of
\* the text now composed, at a new revision.
DisplayKept ==
    \/ UNCHANGED phase /\ candidate_snapshot'.entries = candidate_snapshot.entries
    \/ phase' = "Idle" /\ candidate_snapshot'.entries = <<>>
    \/ /\ state_revision' # state_revision
       /\ \E answer \in Generate(composer'.text) : candidate_snapshot'.entries = answer.texts

\* What a call may issue: one action, with the text it takes off display or none.
IssueKept ==
    /\ Issued \subseteq {next_action_id}
    /\ \A id \in Issued :
         /\ reply' = "Ok"
         /\ \/ pending_actions'[id].text = <<>>
            \/ /\ composer' = EmptyComposer
               /\ candidate_snapshot'.entries = <<>>
               /\ \/ pending_actions'[id].text = composer.text
                  \/ \E i \in DOMAIN candidate_snapshot.entries :
                        pending_actions'[id].text = candidate_snapshot.entries[i]

CallKept == IInv' /\ StepKept /\ LedgerKept /\ DisplayKept /\ IssueKept

-----------------------------------------------------------------------------
(* The bytes of a result.                                                  *)

\* The places of one text.
LEMMA PlacesOfOne ==
    ASSUME NEW i, NEW n \in Nat
    PROVE  IsFiniteSet({i} \X (1..n)) /\ Cardinality({i} \X (1..n)) = n
  <1>1. IsFiniteSet({i}) /\ Cardinality({i}) = 1
    BY FS_Singleton
  <1>2. IsFiniteSet(1..n) /\ Cardinality(1..n) = n
    BY FS_Interval
  <1>3. /\ IsFiniteSet({i} \X (1..n))
        /\ Cardinality({i} \X (1..n)) = Cardinality({i}) * Cardinality(1..n)
    BY <1>1, <1>2, FS_Product
  <1>. QED
    BY <1>1, <1>2, <1>3

\* A total is a number, and no less than any of its parts.
LEMMA TextBytesFacts ==
    ASSUME NEW texts, IsFiniteSet(DOMAIN texts), \A i \in DOMAIN texts : Len(texts[i]) \in Nat
    PROVE  /\ TextBytes(texts) \in Nat
           /\ \A i \in DOMAIN texts : Len(texts[i]) <= TextBytes(texts)
  <1>. DEFINE Places(i) == {i} \X (1..Len(texts[i]))
              All == UNION {Places(i) : i \in DOMAIN texts}
  <1>1. ASSUME NEW i \in DOMAIN texts
        PROVE  IsFiniteSet(Places(i)) /\ Cardinality(Places(i)) = Len(texts[i])
    <2>1. Len(texts[i]) \in Nat
      OBVIOUS
    <2>. QED
      BY <2>1, PlacesOfOne
  <1>2. IsFiniteSet({Places(i) : i \in DOMAIN texts})
    <2>. DEFINE f == [i \in DOMAIN texts |-> Places(i)]
    <2>1. f \in Surjection(DOMAIN texts, {Places(i) : i \in DOMAIN texts})
      BY DEF Surjection
    <2>. QED
      BY <2>1, FS_Surjection
  <1>3. IsFiniteSet(All)
    BY <1>1, <1>2, FS_UNION
  <1>4. TextBytes(texts) = Cardinality(All)
    BY DEF TextBytes
  <1>5. ASSUME NEW i \in DOMAIN texts PROVE Len(texts[i]) <= TextBytes(texts)
    <2>1. Places(i) \in SUBSET All
      OBVIOUS
    <2>2. Cardinality(Places(i)) <= Cardinality(All)
      BY <2>1, <1>3, FS_Subset
    <2>. QED
      BY <1>1, <1>4, <2>2
  <1>6. TextBytes(texts) \in Nat
    BY <1>3, <1>4, FS_CardinalityType
  <1>. QED
    BY <1>5, <1>6

\* The total of no text, and of one.
LEMMA FewTextBytes ==
    ASSUME NEW texts
    PROVE  /\ DOMAIN texts = {} => TextBytes(texts) = 0
           /\ \A i : DOMAIN texts = {i} /\ Len(texts[i]) \in Nat =>
                 TextBytes(texts) = Len(texts[i])
  <1>1. ASSUME DOMAIN texts = {} PROVE TextBytes(texts) = 0
    <2>1. UNION {{i} \X (1..Len(texts[i])) : i \in DOMAIN texts} = {}
      BY <1>1
    <2>. QED
      BY <2>1, FS_EmptySet DEF TextBytes
  <1>2. ASSUME NEW i, DOMAIN texts = {i}, Len(texts[i]) \in Nat
        PROVE  TextBytes(texts) = Len(texts[i])
    <2>1. UNION {{j} \X (1..Len(texts[j])) : j \in DOMAIN texts} = {i} \X (1..Len(texts[i]))
      BY <1>2
    <2>2. Cardinality({i} \X (1..Len(texts[i]))) = Len(texts[i])
      BY <1>2, PlacesOfOne
    <2>. QED
      BY <2>1, <2>2 DEF TextBytes
  <1>. QED
    BY <1>1, <1>2

-----------------------------------------------------------------------------
(* What each call shows and issues.                                        *)

ShownAndIssued == DisplayKept /\ IssueKept

\* A call after which no action is new has issued none.
LEMMA NoIssue ==
    ASSUME DOMAIN pending_actions' \subseteq DOMAIN pending_actions
    PROVE  IssueKept
  <1>1. Issued = {}
    BY DEF Issued
  <1>. QED
    BY <1>1 DEF IssueKept

\* What remains of the ledger after a call has superseded some actions.
LEMMA RemainingIds ==
    /\ DOMAIN Live = DOMAIN pending_actions
    /\ \A ids : DOMAIN Without(Live, ids) \subseteq DOMAIN pending_actions
  BY DEF Live, Without, Restrict

\* An allocation issues the action it is given, or nothing when the counter is exhausted.
LEMMA AllocateIssues ==
    ASSUME NEW actions, DOMAIN actions \subseteq DOMAIN pending_actions, NEW action,
           Allocate(actions, action)
    PROVE  /\ Issued \subseteq {next_action_id}
           /\ \A id \in Issued : reply' = "Ok" /\ pending_actions'[id] = action
  <1>1. CASE next_action_id = U64Max
    <2>1. Issued = {}
      BY <1>1 DEF Allocate, Issued
    <2>. QED
      BY <2>1
  <1>2. CASE next_action_id # U64Max
    <2>1. /\ pending_actions' = [id \in DOMAIN actions \cup {next_action_id} |->
                                   IF id = next_action_id THEN action ELSE actions[id]]
          /\ reply' = "Ok"
      BY <1>2 DEF Allocate
    <2>2. Issued \subseteq {next_action_id}
      BY <2>1 DEF Issued
    <2>. QED
      BY <2>1, <2>2
  <1>. QED
    BY <1>1, <1>2

\* A plain action has no text.
LEMMA PlainIssue ==
    ASSUME NEW actions, DOMAIN actions \subseteq DOMAIN pending_actions, NEW kind, NEW revision,
           Allocate(actions, PlainAction(kind, revision))
    PROVE  IssueKept
  <1>1. PlainAction(kind, revision).text = <<>>
    BY DEF PlainAction, Action
  <1>2. /\ Issued \subseteq {next_action_id}
        /\ \A id \in Issued :
             reply' = "Ok" /\ pending_actions'[id] = PlainAction(kind, revision)
    BY AllocateIssues
  <1>. QED
    BY <1>1, <1>2 DEF IssueKept

\* A call that only answers.
LEMMA AnswerShown ==
    ASSUME NEW outcome, Answer(outcome)
    PROVE  ShownAndIssued
  <1>1. DisplayKept
    BY DEF Answer, view, DisplayKept
  <1>2. IssueKept
    BY NoIssue, RemainingIds DEF Answer
  <1>. QED
    BY <1>1, <1>2 DEF ShownAndIssued

\* A cleared display is empty.
LEMMA ClearedShown ==
    ASSUME NEW revision, ClearComposition(revision)
    PROVE  /\ DisplayKept
           /\ composer' = EmptyComposer /\ candidate_snapshot'.entries = <<>>
  BY DEF ClearComposition, EmptySnapshot, DisplayKept

\* New candidates are those of the new text.
LEMMA RegeneratedShown ==
    ASSUME JInv, NEW edited, composer' = edited, state_revision' = state_revision + 1,
           Regenerate(edited, state_revision + 1)
    PROVE  DisplayKept
  <1>1. state_revision' # state_revision
    BY Revisions DEF JInv
  <1>2. CASE edited.text = <<>>
    BY <1>2 DEF Regenerate, EmptySnapshot, DisplayKept
  <1>3. CASE edited.text # <<>>
    <2>1. PICK answer \in Generate(edited.text) :
            candidate_snapshot' = FromRanked(state_revision + 1, answer.texts)
      BY <1>3 DEF Regenerate
    <2>2. candidate_snapshot'.entries = answer.texts
      BY <2>1 DEF FromRanked
    <2>. QED
      BY <1>1, <2>2 DEF DisplayKept
  <1>. QED
    BY <1>2, <1>3

\* An edit issues nothing, since a host behind the C ABI has no marked text.
LEMMA CompositionEditShown ==
    ASSUME JInv, NEW edited, CompositionEdit(edited)
    PROVE  ShownAndIssued
  <1>1. /\ pending_actions' = Without(Live, SupersededByEdit)
        /\ \/ UNCHANGED <<phase, candidate_snapshot>>
           \/ /\ composer' = edited /\ state_revision' = state_revision + 1
              /\ Regenerate(edited, state_revision + 1)
    BY FfiAssumption DEF CompositionEdit, view
  <1>2. DisplayKept
    BY <1>1, RegeneratedShown DEF DisplayKept
  <1>3. IssueKept
    BY <1>1, NoIssue, RemainingIds
  <1>. QED
    BY <1>2, <1>3 DEF ShownAndIssued

\* A commit issues its text and clears the display, or does neither.
LEMMA CommitTextShown ==
    ASSUME NEW text, CommitText(text),
           \/ text = composer.text
           \/ \E i \in DOMAIN candidate_snapshot.entries : text = candidate_snapshot.entries[i]
    PROVE  /\ ShownAndIssued
           /\ \A id \in Issued : pending_actions'[id].text = text
  <1>. DEFINE actions == Without(Live, CompositionUpdates)
  <1>1. DOMAIN actions \subseteq DOMAIN pending_actions
    BY RemainingIds
  <1>2. CASE pending_actions' = actions
    <2>1. DisplayKept
      BY <1>2, ClearedShown DEF CommitText, view, DisplayKept
    <2>2. IssueKept /\ Issued = {}
      BY <1>1, <1>2, NoIssue DEF Issued
    <2>. QED
      BY <2>1, <2>2 DEF ShownAndIssued
  <1>3. CASE pending_actions' # actions
    <2>1. /\ ClearComposition(state_revision + 1)
          /\ \E recovery : Allocate(actions, Action("CommitText", text, 0, state_revision + 1,
                                                    {recovery}))
      BY <1>3 DEF CommitText
    <2>2. PICK recovery : Allocate(actions, Action("CommitText", text, 0, state_revision + 1,
                                                   {recovery}))
      BY <2>1
    <2>3. /\ Issued \subseteq {next_action_id}
          /\ \A id \in Issued : reply' = "Ok" /\ pending_actions'[id].text = text
      <3>1. Action("CommitText", text, 0, state_revision + 1, {recovery}).text = text
        BY DEF Action
      <3>. QED
        BY <1>1, <2>2, <3>1, AllocateIssues
    <2>4. /\ DisplayKept /\ composer' = EmptyComposer /\ candidate_snapshot'.entries = <<>>
      BY <2>1, ClearedShown
    <2>5. IssueKept
      BY <2>3, <2>4 DEF IssueKept
    <2>. QED
      BY <2>3, <2>4, <2>5 DEF ShownAndIssued
  <1>. QED
    BY <1>2, <1>3

\* The cancelling of a composition issues nothing either.
LEMMA CancelShown ==
    ASSUME cancel
    PROVE  ShownAndIssued
  <1>1. CASE phase = "Idle"
    BY <1>1, AnswerShown DEF cancel
  <1>2. CASE phase # "Idle"
    <2>1. /\ pending_actions' = Without(Live, CompositionUpdates)
          /\ \/ UNCHANGED view
             \/ \E revision : ClearComposition(revision)
      BY <1>2, FfiAssumption DEF cancel
    <2>2. DisplayKept
      BY <2>1, ClearedShown DEF view, DisplayKept
    <2>3. IssueKept
      BY <2>1, NoIssue, RemainingIds
    <2>. QED
      BY <2>2, <2>3 DEF ShownAndIssued
  <1>. QED
    BY <1>1, <1>2

\* The commit of the composition as it was typed.
LEMMA CommitShown ==
    ASSUME commit
    PROVE  ShownAndIssued
  BY AnswerShown, CommitTextShown DEF commit

\* The four editing inputs; in an idle session the host deletes.
LEMMA EditsShown ==
    ASSUME JInv
    PROVE  /\ \A text : insert_text(text) => ShownAndIssued
           /\ backspace(1) => ShownAndIssued
           /\ delete_forward(1) => ShownAndIssued
           /\ \A delta : move_composition_cursor(delta) => ShownAndIssued
  <1>1. ASSUME NEW text, insert_text(text) PROVE ShownAndIssued
    BY <1>1, AnswerShown, CompositionEditShown DEF insert_text
  <1>2. ASSUME backspace(1) PROVE ShownAndIssued
    <2>1. CASE phase = "Idle"
      <3>1. /\ UNCHANGED view
            /\ \/ pending_actions' = Live
               \/ Allocate(Live, PlainAction("DeleteBackward", state_revision))
        BY <1>2, <2>1 DEF backspace
      <3>2. DisplayKept
        BY <3>1 DEF view, DisplayKept
      <3>3. IssueKept
        BY <3>1, NoIssue, PlainIssue, RemainingIds
      <3>. QED
        BY <3>2, <3>3 DEF ShownAndIssued
    <2>2. CASE phase # "Idle"
      BY <1>2, <2>2, AnswerShown, CompositionEditShown DEF backspace
    <2>. QED
      BY <2>1, <2>2
  <1>3. ASSUME delete_forward(1) PROVE ShownAndIssued
    BY <1>3, AnswerShown, CompositionEditShown DEF delete_forward
  <1>4. ASSUME NEW delta, move_composition_cursor(delta) PROVE ShownAndIssued
    BY <1>4, AnswerShown, CompositionEditShown DEF move_composition_cursor
  <1>. QED
    BY <1>1, <1>2, <1>3, <1>4

\* A selection commits the candidate it names, or is refused.
LEMMA SelectCandidateShown ==
    ASSUME NEW id, NEW revision, SelectCandidate(id, revision)
    PROVE  /\ ShownAndIssued
           /\ \A new \in Issued :
                /\ revision = state_revision /\ phase = "CandidateSelecting"
                /\ id \in DOMAIN candidate_snapshot.entries
                /\ pending_actions'[new].text = candidate_snapshot.entries[id]
  <1>1. CASE \E outcome : Answer(outcome)
    <2>1. Issued = {}
      BY <1>1, RemainingIds DEF Answer, Issued
    <2>. QED
      BY <1>1, <2>1, AnswerShown
  <1>2. CASE ~\E outcome : Answer(outcome)
    <2>1. /\ revision = state_revision /\ phase = "CandidateSelecting"
          /\ id \in DOMAIN candidate_snapshot.entries
          /\ CommitText(candidate_snapshot.entries[id])
      BY <1>2 DEF SelectCandidate
    <2>. QED
      BY <2>1, CommitTextShown
  <1>. QED
    BY <1>1, <1>2

\* A movement of the selection keeps the candidates.
LEMMA MoveCandidateSelectionShown ==
    ASSUME JInv, NEW delta, MoveCandidateSelection(delta)
    PROVE  ShownAndIssued
  <1>1. CASE \E outcome : Answer(outcome)
    BY <1>1, AnswerShown
  <1>2. CASE ~\E outcome : Answer(outcome)
    <2>. DEFINE index == MovedSelection(candidate_snapshot, delta)
                moved == [candidate_snapshot EXCEPT !.selected_index = index]
    <2>1. candidate_snapshot \in CandidateSnapshot
      BY DEF JInv, IInv, ViewSound
    <2>2. moved.entries = candidate_snapshot.entries
          /\ Rebound(moved, state_revision + 1).entries = candidate_snapshot.entries
      BY <2>1 DEF CandidateSnapshot, Rebound
    <2>3. /\ pending_actions' = Live /\ UNCHANGED phase
          /\ candidate_snapshot' \in {moved, Rebound(moved, state_revision + 1)}
      BY <1>2 DEF MoveCandidateSelection
    <2>4. candidate_snapshot'.entries = candidate_snapshot.entries
      BY <2>2, <2>3
    <2>. QED
      BY <2>3, <2>4, NoIssue, RemainingIds DEF ShownAndIssued, DisplayKept
  <1>. QED
    BY <1>1, <1>2

\* A reset clears the display and may ask the host for one.
LEMMA ResetShown ==
    ASSUME Reset
    PROVE  ShownAndIssued
  <1>1. /\ \E revision : ClearComposition(revision)
        /\ \/ pending_actions' = <<>>
           \/ \E revision : Allocate(<<>>, PlainAction("RequestPlatformReset", revision))
    BY DEF Reset
  <1>2. DisplayKept
    BY <1>1, ClearedShown
  <1>3. DOMAIN <<>> = {}
    OBVIOUS
  <1>4. IssueKept
    <2>1. CASE pending_actions' = <<>>
      BY <1>3, <2>1, NoIssue
    <2>2. CASE \E revision : Allocate(<<>>, PlainAction("RequestPlatformReset", revision))
      BY <1>3, <2>2, PlainIssue
    <2>. QED
      BY <1>1, <2>1, <2>2
  <1>. QED
    BY <1>2, <1>4 DEF ShownAndIssued

\* An acknowledgement issues nothing; a text that comes back brings its own candidates.
LEMMA AcknowledgeShown ==
    ASSUME JInv, NEW id, NEW disposition, AcknowledgeAction(id, disposition)
    PROVE  ShownAndIssued
  <1>1. DOMAIN pending_actions' \subseteq DOMAIN pending_actions
    BY DEF AcknowledgeAction, AcknowledgePending, Resolve, RestoreCommit, ledger, Without,
           Restrict
  <1>2. \/ UNCHANGED view
        \/ \E recovery : RestoreCommit(id, recovery, disposition)
    BY DEF AcknowledgeAction, AcknowledgePending, Resolve
  <1>3. CASE UNCHANGED view
    BY <1>1, <1>3, NoIssue DEF view, DisplayKept, ShownAndIssued
  <1>4. ASSUME NEW recovery, RestoreCommit(id, recovery, disposition)
        PROVE  DisplayKept
    <2>1. \/ UNCHANGED view
          \/ /\ composer' = recovery.composer /\ state_revision' = state_revision + 1
             /\ Regenerate(recovery.composer, state_revision + 1)
      BY <1>4 DEF RestoreCommit
    <2>. QED
      BY <2>1, RegeneratedShown DEF view, DisplayKept
  <1>. QED
    BY <1>1, <1>2, <1>3, <1>4, NoIssue DEF ShownAndIssued

-----------------------------------------------------------------------------
(* What the ABI calls do to the session.                                   *)

\* A call that leaves the session alone.
LEMMA SessionUntouched ==
    ASSUME LInv, JInv, UNCHANGED vars
    PROVE  CallKept
  <1>1. IInv'
    BY StepSound DEF JInv
  <1>2. /\ UNCHANGED <<state_revision, view, context, next_action_id, resolved_actions, host>>
        /\ UNCHANGED <<phase, candidate_snapshot, pending_actions>>
    BY DEF vars, view, ledger, host
  <1>3. StepKept
    BY <1>2, QuietKept
  <1>4. LedgerKept
    BY <1>2, QuietLedgerKept
  <1>5. DisplayKept /\ IssueKept
    BY <1>2, NoIssue DEF DisplayKept
  <1>. QED
    BY <1>1, <1>3, <1>4, <1>5 DEF CallKept

\* Every event that parses is a call of the session, with arguments of its types.
LEMMA InputKept ==
    ASSUME LInv, JInv, NEW event, Input(event),
           event.tag = "INSERT_TEXT" => event.text.bytes \in Text, event.delta \in Int
    PROVE  CallKept
  <1>0. IInv
    BY DEF JInv
  <1>1. CASE InputSequenceExhausted
    <2>1. /\ UNCHANGED <<state_revision, view, context, next_action_id, resolved_actions, host>>
          /\ UNCHANGED <<phase, candidate_snapshot, pending_actions>>
      BY <1>1 DEF InputSequenceExhausted, view, ledger, host
    <2>2. IInv'
      BY <1>0, <1>1, NothingChangedStep DEF InputSequenceExhausted, Replies
    <2>. QED
      BY <2>1, <2>2, QuietKept, QuietLedgerKept, NoIssue DEF CallKept, DisplayKept
  <1>2. CASE event.tag = "INSERT_TEXT" /\ InsertText(event.text.bytes)
    BY <1>0, <1>2, InsertTextStep, EditsKept, EditsLedger, EditsShown
    DEF InsertText, CallKept, ShownAndIssued
  <1>3. CASE Backspace
    BY <1>0, <1>3, BackspaceStep, EditsKept, BackspaceLedger, EditsShown
    DEF Backspace, CallKept, ShownAndIssued
  <1>4. CASE DeleteForward
    BY <1>0, <1>4, DeleteForwardStep, EditsKept, EditsLedger, EditsShown
    DEF DeleteForward, CallKept, ShownAndIssued
  <1>5. CASE MoveCompositionCursor(event.delta)
    BY <1>0, <1>5, MoveCursorStep, EditsKept, EditsLedger, EditsShown
    DEF MoveCompositionCursor, CallKept, ShownAndIssued
  <1>6. CASE SelectCandidate(event.candidate_id, event.state_revision)
    BY <1>0, <1>6, SelectCandidateStep, SelectCandidateKept, SelectCandidateLedger,
       SelectCandidateShown
    DEF CallKept, ShownAndIssued
  <1>7. CASE MoveCandidateSelection(event.delta)
    BY <1>0, <1>7, MoveCandidateSelectionStep, MoveCandidateSelectionKept,
       MoveCandidateSelectionLedger, MoveCandidateSelectionShown
    DEF CallKept, ShownAndIssued
  <1>8. CASE Commit
    BY <1>0, <1>8, CommitStep, CommitKept, EditsLedger, CommitShown
    DEF Commit, CallKept, ShownAndIssued
  <1>9. CASE Cancel
    BY <1>0, <1>9, CancelStep, CancelKept, CancelLedger, CancelShown
    DEF Cancel, CallKept, ShownAndIssued
  <1>10. CASE Reset
    BY <1>0, <1>10, ResetStep, ResetKept, ResetLedger, ResetShown
    DEF CallKept, ShownAndIssued
  <1>. QED
    BY <1>1, <1>2, <1>3, <1>4, <1>5, <1>6, <1>7, <1>8, <1>9, <1>10 DEF Input

\* So is an acknowledgement.
LEMMA AcknowledgementKept ==
    ASSUME LInv, JInv, NEW id, NEW disposition \in HostDispositions,
           AcknowledgeAction(id, disposition)
    PROVE  CallKept
  <1>1. disposition \in Dispositions /\ IInv
    BY SessionAssumption DEF JInv
  <1>. QED
    BY <1>1, AcknowledgeStep, AcknowledgeKept, AcknowledgeLedger, AcknowledgeShown
    DEF CallKept, ShownAndIssued

\* The bytes of a list of texts.
LEMMA ListedTextBytes ==
    ASSUME NEW texts \in Seq(Text)
    PROVE  /\ TextBytes(texts) \in Nat
           /\ \A i \in DOMAIN texts : Len(texts[i]) \in Nat /\ Len(texts[i]) <= TextBytes(texts)
  <1>1. DOMAIN texts = 1..Len(texts) /\ Len(texts) \in Nat
    OBVIOUS
  <1>2. IsFiniteSet(DOMAIN texts)
    BY <1>1, FS_Interval
  <1>3. \A i \in DOMAIN texts : Len(texts[i]) \in Nat
    <2>1. \A i \in DOMAIN texts : texts[i] \in Seq(Byte)
      BY DEF Text
    <2>. QED
      BY <2>1
  <1>. QED
    BY <1>2, <1>3, TextBytesFacts

\* A result has room for the longest composition, and for no candidates.
LEMMA RoomForComposition == MaxCompositionTextBytes <= MAX_RESULT_TEXT_BYTES
  <1>1. <<>> \in CompositionText
    <2>1. <<>> \in [1..0 -> Byte]
      OBVIOUS
    <2>2. 0 \in 0..MaxCompositionTextBytes
      BY SessionAssumption
    <2>. QED
      BY <2>1, <2>2 DEF CompositionText
  <1>2. PICK answer \in Generate(<<>>) : answer.texts \in Seq(Text)
    BY <1>1, GenerateAssumption DEF Answers
  <1>3. MaxCompositionTextBytes + TextBytes(answer.texts) <= MAX_RESULT_TEXT_BYTES
    BY <1>1, <1>2, BudgetAssumption
  <1>4. TextBytes(answer.texts) \in Nat
    BY <1>2, ListedTextBytes
  <1>. QED
    BY <1>3, <1>4, SessionAssumption, FfiAssumption

\* No candidates fit.
LEMMA NothingFits ==
    ASSUME NEW texts, texts = <<>>
    PROVE  /\ Len(texts) <= MAX_RESULT_CANDIDATES
           /\ TextBytes(texts) = 0
           /\ MaxCompositionTextBytes + TextBytes(texts) <= MAX_RESULT_TEXT_BYTES
  <1>1. DOMAIN texts = {} /\ Len(texts) = 0
    OBVIOUS
  <1>2. TextBytes(texts) = 0
    BY <1>1, FewTextBytes
  <1>. QED
    BY <1>1, <1>2, RoomForComposition, SessionAssumption, FfiAssumption

\* The candidates still fit after any call.
LEMMA CandidatesStillFit ==
    ASSUME CallKept, CandidatesFit
    PROVE  CandidatesFit'
  <1>1. CASE candidate_snapshot'.entries = candidate_snapshot.entries
    <2>1. TextBytes(candidate_snapshot'.entries) = TextBytes(candidate_snapshot.entries)
      BY <1>1
    <2>. QED
      BY <1>1, <2>1 DEF CandidatesFit
  <1>2. CASE candidate_snapshot'.entries = <<>>
    BY <1>2, NothingFits DEF CandidatesFit
  <1>3. ASSUME NEW answer \in Generate(composer'.text),
               candidate_snapshot'.entries = answer.texts
        PROVE  CandidatesFit'
    <2>1. composer' \in Composers /\ Len(composer'.text) <= MaxCompositionTextBytes
      BY DEF CallKept, IInv, ViewSound, CompositionWithinLimit
    <2>2. composer'.text \in Seq(Byte) /\ Len(composer'.text) \in Nat
      BY <2>1 DEF Composers, Text
    <2>3. composer'.text \in [1..Len(composer'.text) -> Byte]
      BY <2>2
    <2>4. Len(composer'.text) \in 0..MaxCompositionTextBytes
      BY <2>1, <2>2, SessionAssumption
    <2>5. composer'.text \in CompositionText
      BY <2>3, <2>4 DEF CompositionText
    <2>6. PICK a : a = answer.texts
      OBVIOUS
    <2>7. Len(a) <= MAX_RESULT_CANDIDATES
          /\ MaxCompositionTextBytes + TextBytes(a) <= MAX_RESULT_TEXT_BYTES
      BY <2>5, <2>6, BudgetAssumption
    <2>. QED
      BY <1>3, <2>6, <2>7 DEF CandidatesFit
  <1>. QED
    BY <1>1, <1>2, <1>3 DEF CallKept, DisplayKept

\* A result built after a call is never over its budget.
LEMMA ResultFits ==
    ASSUME FInv, CallKept, NEW actions, actions = Issued
    PROVE  ~OverBudget(actions)'
  <1>. DEFINE texts == [id \in actions |-> pending_actions'[id].text]
  <1>1. CandidatesFit'
    BY CandidatesStillFit DEF FInv
  <1>2. /\ Len(composer'.text) \in Nat /\ Len(composer'.text) <= MaxCompositionTextBytes
        /\ Len(composer.text) \in Nat /\ Len(composer.text) <= MaxCompositionTextBytes
    <2>1. /\ composer' \in Composers /\ Len(composer'.text) <= MaxCompositionTextBytes
          /\ composer \in Composers /\ Len(composer.text) <= MaxCompositionTextBytes
      BY DEF CallKept, FInv, JInv, IInv, ViewSound, CompositionWithinLimit
    <2>2. composer'.text \in Seq(Byte) /\ composer.text \in Seq(Byte)
      BY <2>1 DEF Composers, Text
    <2>. QED
      BY <2>1, <2>2
  <1>3. candidate_snapshot.entries \in Seq(Text) /\ candidate_snapshot'.entries \in Seq(Text)
    BY DEF CallKept, FInv, JInv, IInv, ViewSound, CandidateSnapshot
  <1>4. PICK here, shown, there, after :
          /\ here = Len(composer.text) /\ shown = TextBytes(candidate_snapshot.entries)
          /\ there = Len(composer'.text) /\ after = TextBytes(candidate_snapshot'.entries)
    OBVIOUS
  <1>5. /\ shown \in Nat /\ after \in Nat
        /\ \A i \in DOMAIN candidate_snapshot.entries :
             /\ Len(candidate_snapshot.entries[i]) \in Nat
             /\ Len(candidate_snapshot.entries[i]) <= shown
    <2>1. \A t \in Seq(Text) : TextBytes(t) \in Nat /\ \A i \in DOMAIN t :
             Len(t[i]) \in Nat /\ Len(t[i]) <= TextBytes(t)
      BY ListedTextBytes
    <2>. QED
      BY <1>3, <1>4, <2>1
  <1>6. /\ MaxCompositionTextBytes + shown <= MAX_RESULT_TEXT_BYTES
        /\ MaxCompositionTextBytes + after <= MAX_RESULT_TEXT_BYTES
        /\ Len(candidate_snapshot'.entries) <= MAX_RESULT_CANDIDATES
    BY <1>1, <1>4 DEF FInv, CandidatesFit
  <1>7. /\ MaxCompositionTextBytes \in Nat
        /\ MAX_RESULT_TEXT_BYTES \in Nat
        /\ MAX_RESULT_CANDIDATES \in Nat /\ Len(candidate_snapshot'.entries) \in Nat
        /\ MAX_RESULT_ACTIONS \in Nat \ {0}
    BY <1>3, SessionAssumption, FfiAssumption
  <1>8. Cardinality(actions) <= 1 /\ Cardinality(actions) \in Nat
    <2>1. actions = {} \/ actions = {next_action_id}
      BY DEF CallKept, IssueKept
    <2>2. Cardinality({}) = 0 /\ Cardinality({next_action_id}) = 1
      BY FS_EmptySet, FS_Singleton
    <2>3. Cardinality(actions) = 0 \/ Cardinality(actions) = 1
      BY <2>1, <2>2
    <2>. QED
      BY <2>3
  <1>9. there + after + TextBytes(texts) <= MAX_RESULT_TEXT_BYTES /\ TextBytes(texts) \in Nat
    <2>1. CASE actions = {}
      <3>1. TextBytes(texts) = 0
        BY <2>1, FewTextBytes
      <3>. QED
        BY <1>2, <1>4, <1>5, <1>6, <1>7, <3>1
    <2>2. CASE actions # {}
      <3>1. PICK id : actions = {id} /\ id \in Issued
        BY <2>2 DEF CallKept, IssueKept
      <3>2. DOMAIN texts = {id} /\ texts[id] = pending_actions'[id].text
        BY <3>1
      <3>3. CASE pending_actions'[id].text = <<>>
        <4>1. Len(texts[id]) = 0
          BY <3>2, <3>3
        <4>2. TextBytes(texts) = 0
          BY <3>2, <4>1, FewTextBytes
        <4>. QED
          BY <1>2, <1>4, <1>5, <1>6, <1>7, <4>2
      <3>4. CASE pending_actions'[id].text # <<>>
        <4>1. /\ composer' = EmptyComposer /\ candidate_snapshot'.entries = <<>>
              /\ \/ texts[id] = composer.text
                 \/ \E i \in DOMAIN candidate_snapshot.entries :
                       texts[id] = candidate_snapshot.entries[i]
          BY <3>1, <3>2, <3>4 DEF CallKept, IssueKept
        <4>2. there = 0 /\ after = 0
          BY <1>4, <4>1, NothingFits DEF EmptyComposer
        <4>3. \A bytes \in Nat : bytes <= MaxCompositionTextBytes \/ bytes <= shown =>
                 bytes <= MAX_RESULT_TEXT_BYTES
          BY <1>5, <1>6, <1>7
        <4>4. Len(texts[id]) \in Nat /\ Len(texts[id]) <= MAX_RESULT_TEXT_BYTES
          <5>1. CASE texts[id] = composer.text
            BY <1>2, <4>3, <5>1
          <5>2. CASE texts[id] # composer.text
            <6>1. PICK i \in DOMAIN candidate_snapshot.entries :
                     texts[id] = candidate_snapshot.entries[i]
              BY <4>1, <5>2
            <6>2. /\ Len(candidate_snapshot.entries[i]) \in Nat
                  /\ Len(candidate_snapshot.entries[i]) <= shown
              BY <1>5
            <6>. QED
              BY <4>3, <6>1, <6>2
          <5>. QED
            BY <5>1, <5>2
        <4>5. TextBytes(texts) = Len(texts[id])
          BY <3>2, <4>4, FewTextBytes
        <4>. QED
          BY <4>2, <4>4, <4>5, <1>7
      <3>. QED
        BY <3>3, <3>4
    <2>. QED
      BY <2>1, <2>2
  <1>. QED
    <2>1. ASSUME OverBudget(actions)'
          PROVE  \/ Len(candidate_snapshot'.entries) > MAX_RESULT_CANDIDATES
                 \/ Cardinality(actions) > MAX_RESULT_ACTIONS
                 \/ there + after + TextBytes(texts) > MAX_RESULT_TEXT_BYTES
      BY <1>4, <2>1 DEF OverBudget
    <2>2. ~(there + after + TextBytes(texts) > MAX_RESULT_TEXT_BYTES)
      BY <1>2, <1>4, <1>5, <1>7, <1>9
    <2>3. ~(Cardinality(actions) > MAX_RESULT_ACTIONS)
      BY <1>7, <1>8
    <2>4. ~(Len(candidate_snapshot'.entries) > MAX_RESULT_CANDIDATES)
      BY <1>6, <1>7
    <2>. QED
      BY <2>1, <2>2, <2>3, <2>4

-----------------------------------------------------------------------------
(* The steps of the ABI.                                                   *)

\* What every call gives back: the status of what the session answered, if it was asked;
\* at most the result of the state it leaves; and every action it issued.
Returned ==
    /\ status' = StatusOf(reply') \/ UNCHANGED vars
    /\ results' \subseteq results \cup {Result'}
    /\ delivered \cup Issued \subseteq delivered'

\* A call that is not passed on to the session.
LEMMA CallerStep ==
    ASSUME FInv, NEW outcome, Caller(outcome), UNCHANGED delivered,
           results' \subseteq results \cup {Result}
    PROVE  CallKept /\ Returned
  <1>1. UNCHANGED vars
    BY DEF Caller
  <1>2. CallKept
    BY <1>1, SessionUntouched DEF FInv
  <1>3. UNCHANGED <<state_revision, candidate_snapshot, pending_actions>>
    BY <1>1 DEF vars, view, ledger
  <1>4. Result' = Result /\ Issued = {}
    BY <1>3 DEF Result, Issued
  <1>. QED
    BY <1>1, <1>2, <1>4 DEF Returned

\* An event: a result the budget had no room for would be the only way to lose an action.
LEMMA ProcessEventStepFfi ==
    ASSUME FInv, NEW event, ime_v1_session_process_event(event),
           ParseStatus(event) = "OK" =>
               /\ event.tag = "INSERT_TEXT" => event.text.bytes \in Text
               /\ event.delta \in Int
    PROVE  CallKept /\ Returned
  <1>1. CASE ParseStatus(event) # "OK"
    <2>1. Caller(ParseStatus(event)) /\ UNCHANGED <<results, delivered>>
      BY <1>1 DEF ime_v1_session_process_event
    <2>. QED
      BY <2>1, CallerStep
  <1>2. CASE ParseStatus(event) = "OK"
    <2>1. Input(event) /\ Return
      BY <1>2 DEF ime_v1_session_process_event
    <2>2. CallKept
      BY <1>2, <2>1, InputKept DEF FInv
    <2>3. CASE StatusOf(reply') # "OK"
      <3>1. status' = StatusOf(reply') /\ UNCHANGED <<results, delivered>>
        BY <2>1, <2>3 DEF Return
      <3>2. reply' # "Ok"
        BY <2>3 DEF StatusOf
      <3>3. Issued = {}
        BY <2>2, <3>2 DEF CallKept, IssueKept
      <3>. QED
        BY <2>2, <3>1, <3>3 DEF Returned
    <2>4. CASE StatusOf(reply') = "OK"
      <3>1. PICK actions \in {Issued} :
              IF OverBudget(actions)'
              THEN status' = "BUDGET_EXCEEDED" /\ UNCHANGED <<results, delivered>>
              ELSE /\ status' = "OK"
                   /\ results' = results \cup {Result'}
                   /\ delivered' = delivered \cup actions
        BY <2>1, <2>4 DEF Return
      <3>2. ~OverBudget(actions)'
        BY <2>2, <3>1, ResultFits
      <3>. QED
        BY <2>2, <2>4, <3>1, <3>2 DEF Returned
    <2>. QED
      BY <2>3, <2>4
  <1>. QED
    BY <1>1, <1>2

\* An acknowledgement issues nothing, so there is nothing to deliver.
LEMMA AckActionStep ==
    ASSUME FInv, NEW id, NEW disposition \in HostDispositions \cup {"none"},
           ime_v1_session_ack_action(id, disposition)
    PROVE  CallKept /\ Returned
  <1>1. CASE disposition \in Dispositions
    <2>1. /\ AcknowledgeAction(id, disposition) /\ status' = StatusOf(reply')
          /\ UNCHANGED <<results, delivered>>
      BY <1>1 DEF ime_v1_session_ack_action
    <2>2. disposition \in HostDispositions
      BY <1>1 DEF Dispositions
    <2>3. CallKept
      BY <2>1, <2>2, AcknowledgementKept DEF FInv
    <2>4. Issued = {}
      BY <2>1 DEF AcknowledgeAction, AcknowledgePending, Resolve, RestoreCommit, ledger, Without,
                  Restrict, Issued
    <2>. QED
      BY <2>1, <2>3, <2>4 DEF Returned
  <1>2. CASE disposition \notin Dispositions
    <2>1. Caller("INVALID_ARGUMENT") /\ UNCHANGED <<results, delivered>>
      BY <1>2 DEF ime_v1_session_ack_action
    <2>. QED
      BY <2>1, CallerStep
  <1>. QED
    BY <1>1, <1>2

\* A selection carries no text and no delta.
LEMMA SelectionTyped ==
    ASSUME NEW id, NEW revision
    PROVE  /\ Selection(id, revision).tag = "SELECT_CANDIDATE"
           /\ Selection(id, revision).delta \in Int
           /\ Selection(id, revision).candidate_id = id
           /\ Selection(id, revision).state_revision = revision
  BY DEF Selection

\* Every call of the ABI.
LEMMA FfiStep ==
    ASSUME FInv, [FfiNext]_ffiVars
    PROVE  CallKept /\ (Returned \/ UNCHANGED ffiVars)
  <1>1. CASE ime_v1_engine_create \/ ime_v1_engine_destroy \/ NullArgument
             \/ ime_v1_session_create \/ ime_v1_session_destroy
    <2>1. UNCHANGED <<results, delivered>> /\ \E outcome : Caller(outcome)
      BY <1>1 DEF ime_v1_engine_create, ime_v1_engine_destroy, ime_v1_session_create,
                  ime_v1_session_destroy, NullArgument
    <2>. QED
      BY <2>1, CallerStep
  <1>2. ASSUME NEW event \in WireEvents, ime_v1_session_process_event(event)
        PROVE  CallKept /\ Returned
    BY <1>2, WireAssumption, ProcessEventStepFfi
  <1>3. ASSUME NEW result \in results, NEW id, SelectFrom(result, id)
        PROVE  CallKept /\ Returned
    BY <1>3, SelectionTyped, ProcessEventStepFfi DEF SelectFrom
  <1>4. CASE ime_v1_session_snapshot
    <2>1. \/ Caller("BUDGET_EXCEEDED") /\ UNCHANGED <<results, delivered>>
          \/ Caller("OK") /\ results' = results \cup {Result} /\ UNCHANGED delivered
      BY <1>4 DEF ime_v1_session_snapshot
    <2>. QED
      BY <2>1, CallerStep
  <1>5. ASSUME NEW id, NEW disposition \in HostDispositions \cup {"none"},
               ime_v1_session_ack_action(id, disposition)
        PROVE  CallKept /\ Returned
    BY <1>5, AckActionStep
  <1>6. ASSUME NEW result, ime_v1_result_free(result)
        PROVE  CallKept /\ Returned
    BY <1>6, CallerStep DEF ime_v1_result_free
  <1>7. CASE UNCHANGED ffiVars
    <2>1. UNCHANGED vars
      BY <1>7 DEF ffiVars
    <2>. QED
      BY <1>7, <2>1, SessionUntouched DEF FInv
  <1>. QED
    BY <1>1, <1>2, <1>3, <1>4, <1>5, <1>6, <1>7 DEF FfiNext

-----------------------------------------------------------------------------
(* The promises of the ABI.                                                *)

\* A revision that stays is a revision whose candidates stay, or are gone.
LEMMA ResultsStayCurrent ==
    ASSUME FInv, CallKept, Returned
    PROVE  ResultsCurrent'
  <1>1. state_revision \in Nat /\ state_revision' \in Nat /\ state_revision' >= state_revision
    BY SessionAssumption DEF FInv, JInv, IInv, RestSound, CallKept, StepKept, Pinned, Revision
  <1>2. ASSUME NEW result \in results
        PROVE  /\ result.state_revision \in Nat /\ result.state_revision <= state_revision'
               /\ result.state_revision = state_revision' /\ phase' = "CandidateSelecting"
                    => result.candidates = candidate_snapshot'.entries
    <2>1. /\ result.state_revision \in Nat /\ result.state_revision <= state_revision
          /\ result.state_revision = state_revision /\ phase = "CandidateSelecting"
               => result.candidates = candidate_snapshot.entries
      BY DEF FInv, ResultsCurrent
    <2>2. ASSUME result.state_revision = state_revision', phase' = "CandidateSelecting"
          PROVE  result.candidates = candidate_snapshot'.entries
      <3>1. state_revision' = state_revision
        BY <1>1, <2>1, <2>2
      <3>2. UNCHANGED phase /\ candidate_snapshot'.entries = candidate_snapshot.entries
        BY <2>2, <3>1 DEF CallKept, DisplayKept
      <3>. QED
        BY <2>1, <2>2, <3>1, <3>2
    <2>. QED
      BY <1>1, <2>1, <2>2
  <1>3. /\ Result'.state_revision = state_revision'
        /\ Result'.candidates = candidate_snapshot'.entries
    BY DEF Result
  <1>4. results' \subseteq results \cup {Result'}
    BY DEF Returned
  <1>. QED
    BY <1>1, <1>2, <1>3, <1>4 DEF ResultsCurrent

\* The invariant is inductive.
LEMMA FfiInvariantStep ==
    ASSUME FInv, [FfiNext]_ffiVars
    PROVE  FInv'
  <1>1. CallKept
    BY FfiStep
  <1>2. LInv'
    <2>1. PICK settled, d : Settles(settled, d)
      BY <1>1 DEF CallKept, LedgerKept
    <2>2. Capacity'
      BY <2>1, CallLedger DEF FInv
    <2>. QED
      BY <1>1, <2>2 DEF CallKept, LInv
  <1>3. JInv' /\ CandidatesFit'
    BY <1>1, CandidatesStillFit DEF FInv, CallKept, StepKept, JInv
  <1>4. CASE Returned
    <2>1. EveryActionDelivered'
      <3>1. DOMAIN pending_actions \cup Issued \subseteq delivered'
        BY <1>4 DEF FInv, EveryActionDelivered, Returned
      <3>. QED
        BY <3>1 DEF EveryActionDelivered, Issued
    <2>. QED
      BY <1>1, <1>2, <1>3, <1>4, <2>1, ResultsStayCurrent DEF FInv
  <1>5. CASE UNCHANGED ffiVars
    <2>1. ResultsCurrent' /\ EveryActionDelivered'
      BY <1>5 DEF ffiVars, callerVars, vars, view, ledger, FInv, ResultsCurrent,
                  EveryActionDelivered
    <2>. QED
      BY <1>2, <1>3, <2>1 DEF FInv
  <1>. QED
    BY <1>4, <1>5, FfiStep

\* A new engine, and no session yet.
LEMMA FfiInitSound == FfiInit => FInv
  <1>. SUFFICES ASSUME FfiInit PROVE FInv
    OBVIOUS
  <1>1. Init /\ results = {} /\ pending_actions = <<>> /\ candidate_snapshot.entries = <<>>
    BY DEF FfiInit, Init, EmptySnapshot
  <1>2. LInv /\ JInv
    BY <1>1, InitLedger, InitKept
  <1>3. CandidatesFit
    BY <1>1, NothingFits DEF CandidatesFit
  <1>4. ResultsCurrent /\ EveryActionDelivered
    BY <1>1 DEF ResultsCurrent, EveryActionDelivered
  <1>. QED
    BY <1>2, <1>3, <1>4 DEF FInv

THEOREM FfiInvariantHolds == FfiSpec => []FInv
  BY FfiInitSound, FfiInvariantStep, PTL DEF FfiSpec

\* The caller is given every action the session waits for: the result of the call that
\* issues an action is never over its budget, because only a call that clears the display
\* issues one (ime_v1_session_process_event, build_owned_result).
THEOREM ActionsAlwaysDelivered == FfiSpec => []EveryActionDelivered
  <1>1. FInv => EveryActionDelivered
    BY DEF FInv
  <1>. QED
    BY <1>1, FfiInvariantHolds, PTL

\* What a selection issues is what its result showed.
LEMMA SelectionHonoured ==
    ASSUME FInv, NEW result \in results, NEW i \in DOMAIN result.candidates,
           SelectFrom(result, i), status' = "OK", NEW id \in Issued
    PROVE  pending_actions'[id].text = result.candidates[i]
  <1>. DEFINE event == Selection(i, result.state_revision)
  <1>1. ime_v1_session_process_event(event)
    BY DEF SelectFrom
  <1>2. CASE Caller(ParseStatus(event))
    BY <1>2 DEF Caller, vars, ledger, Issued
  <1>3. CASE Input(event)
    <2>1. CASE InputSequenceExhausted
      BY <2>1 DEF InputSequenceExhausted, ledger, Issued
    <2>2. CASE SelectCandidate(i, result.state_revision)
      <3>1. /\ result.state_revision = state_revision /\ phase = "CandidateSelecting"
            /\ pending_actions'[id].text = candidate_snapshot.entries[i]
        BY <2>2, SelectCandidateShown
      <3>. QED
        BY <3>1 DEF FInv, ResultsCurrent
    <2>. QED
      BY <1>3, <2>1, <2>2, SelectionTyped DEF Input
  <1>. QED
    BY <1>1, <1>2, <1>3 DEF ime_v1_session_process_event

\* A candidate chosen from a result, however old, is committed as the text the result
\* showed for it, or refused (select_candidate behind SELECT_CANDIDATE).
THEOREM SelectionsHonourResults == FfiSpec => SelectionHonoursResult
  <1>1. ASSUME FInv
        PROVE  \A result \in results : \A i \in DOMAIN result.candidates :
                  SelectFrom(result, i) /\ status' = "OK" =>
                     \A id \in Issued : pending_actions'[id].text = result.candidates[i]
    BY <1>1, SelectionHonoured
  <1>. QED
    BY <1>1, FfiInvariantHolds, PTL DEF SelectionHonoursResult

\* A status other than OK and INTERNAL_ERROR leaves nothing to see.
LEMMA FailureShowsNothing ==
    ASSUME FInv, [FfiNext]_ffiVars, status' \notin {"OK", "INTERNAL_ERROR"}
    PROVE  \/ UNCHANGED ffiVars
           \/ /\ UNCHANGED <<state_revision, view, context, host, resolved_actions>>
              /\ DOMAIN pending_actions' = DOMAIN pending_actions
  <1>1. CallKept /\ (Returned \/ UNCHANGED ffiVars)
    BY FfiStep
  <1>2. CASE UNCHANGED vars
    BY <1>2 DEF vars, ledger
  <1>3. CASE status' = StatusOf(reply')
    <2>1. reply' \in Errors
      BY <1>3 DEF StatusOf, Errors
    <2>. QED
      BY <1>1, <2>1 DEF CallKept, LedgerKept, CleanFailure
  <1>. QED
    BY <1>1, <1>2, <1>3 DEF Returned

\* A call that returns an error hands out neither a result nor an action.
LEMMA FailureHandsOutNothing ==
    ASSUME [FfiNext]_ffiVars, status' # "OK"
    PROVE  UNCHANGED <<results, delivered>>
  <1>1. CASE UNCHANGED ffiVars
    BY <1>1 DEF ffiVars, callerVars
  <1>2. ASSUME NEW event, ime_v1_session_process_event(event)
        PROVE  UNCHANGED <<results, delivered>>
    BY <1>2 DEF ime_v1_session_process_event, Return
  <1>3. CASE \/ ime_v1_engine_create \/ ime_v1_engine_destroy
             \/ ime_v1_session_create \/ ime_v1_session_destroy
             \/ ime_v1_session_snapshot \/ NullArgument
             \/ \E result \in results : ime_v1_result_free(result)
    BY <1>3 DEF ime_v1_engine_create, ime_v1_engine_destroy, ime_v1_session_create,
       ime_v1_session_destroy, ime_v1_session_snapshot, NullArgument, ime_v1_result_free,
       Caller
  <1>4. CASE \E id \in ActionId, disposition \in HostDispositions \cup {"none"} :
                ime_v1_session_ack_action(id, disposition)
    BY <1>4 DEF ime_v1_session_ack_action
  <1>. QED
    BY <1>1, <1>2, <1>3, <1>4 DEF FfiNext, SelectFrom

\* A call that returns an error hands out nothing, and unless a counter ran out it has
\* changed nothing a later snapshot would show: neither the session's own errors nor a
\* result over its budget, which never comes after a change (build_owned_result,
\* map_core_error).
THEOREM FailuresShowNothing == FfiSpec => FailedCallShowsNothing
  <1>1. FInv /\ [FfiNext]_ffiVars =>
          [/\ status' # "OK" => UNCHANGED <<results, delivered>>
           /\ status' \notin {"OK", "INTERNAL_ERROR"} =>
                 /\ UNCHANGED <<state_revision, view, context, host, resolved_actions>>
                 /\ DOMAIN pending_actions' = DOMAIN pending_actions]_ffiVars
    BY FailureShowsNothing, FailureHandsOutNothing
  <1>. QED
    BY <1>1, FfiInvariantHolds, PTL DEF FfiSpec, FailedCallShowsNothing

\* Behind the C ABI a session stays what it is: its invariant holds, a revision pins its
\* view, and its ledger is that of ActionLedger, whatever the wire events say.
THEOREM SessionBehindAbi == FfiSpec => []IInv /\ RevisionPinsView /\ ImplementsLedger
  <1>1. FInv => IInv
    BY DEF FInv, JInv
  <1>2. FInv /\ [FfiNext]_ffiVars => [Pinned]_vars /\ [Ledger!Call]_(Ledger!ledgerVars)
    <2>. SUFFICES ASSUME FInv, [FfiNext]_ffiVars
                  PROVE  Pinned /\ Ledger!Call
      OBVIOUS
    <2>1. CallKept
      BY FfiStep
    <2>2. PICK settled, d : Settles(settled, d)
      BY <2>1 DEF CallKept, LedgerKept
    <2>. QED
      BY <2>1, <2>2, CallLedger DEF CallKept, StepKept, FInv
  <1>3. FfiInit => Ledger!Start
    BY InitLedger DEF FfiInit
  <1>. QED
    BY <1>1, <1>2, <1>3, FfiInvariantHolds, PTL
    DEF FfiSpec, RevisionPinsView, Pinned, ImplementsLedger, Ledger!LedgerSpec

-----------------------------------------------------------------------------
(* Texts.                                                                  *)

\* An event that parses brings whole characters.
LEMMA ParsedUtf8 ==
    ASSUME NEW event, ParseStatus(event) = "OK", event.tag = "INSERT_TEXT",
           event.text.bytes \in Text
    PROVE  IsUtf8(event.text.bytes)
  <1>1. StringStatus(event.text) = "OK"
    BY DEF ParseStatus
  <1>2. Len(event.text.bytes) = 0 \/ IsUtf8(event.text.bytes)
    BY <1>1 DEF StringStatus
  <1>3. Len(event.text.bytes) = 0 => event.text.bytes = <<>>
    BY TextAt
  <1>. QED
    BY <1>2, <1>3, EmptyUtf8

\* The session composes it whole.
LEMMA InputUtf8 ==
    ASSUME CharInv, NEW event, Input(event), event.delta \in Int,
           event.tag = "INSERT_TEXT" =>
               event.text.bytes \in Text /\ IsUtf8(event.text.bytes),
           IInv'
    PROVE  CharInv'
  <1>1. CASE InputSequenceExhausted
    BY <1>1 DEF InputSequenceExhausted, view, ledger, CharInv, RecoveryIsUtf8
  <1>2. CASE ~InputSequenceExhausted
    <2>1. ASSUME event.tag = "INSERT_TEXT", InsertText(event.text.bytes)
          PROVE  ComposesUtf8Text
      BY <2>1, InsertUtf8 DEF InsertText
    <2>2. MoveCompositionCursor(event.delta) => ComposesUtf8Text
      BY MoveCursorUtf8 DEF MoveCompositionCursor
    <2>3. Reset => ComposesUtf8Text
      BY ResetComposes DEF CharInv, ComposesUtf8Text
    <2>4. Backspace \/ DeleteForward \/ Commit \/ Cancel => ComposesUtf8Text
      BY BackspaceUtf8, DeleteForwardUtf8, CommitEventUtf8, CancelUtf8
         DEF Backspace, DeleteForward, Commit, Cancel
    <2>5. \/ SelectCandidate(event.candidate_id, event.state_revision)
          \/ MoveCandidateSelection(event.delta)
          => ComposesUtf8Text
      BY SelectCandidateUtf8, MoveCandidateSelectionUtf8
    <2>6. ComposesUtf8Text
      BY <1>2, <2>1, <2>2, <2>3, <2>4, <2>5 DEF Input
    <2>. QED
      BY <2>6, ComposesUtf8 DEF ComposesUtf8Text
  <1>. QED
    BY <1>1, <1>2

\* An event of the caller, parsed or refused.
LEMMA ProcessEventUtf8 ==
    ASSUME CharInv, NEW event, ime_v1_session_process_event(event), IInv',
           ParseStatus(event) = "OK" =>
               /\ event.tag = "INSERT_TEXT" => event.text.bytes \in Text
               /\ event.delta \in Int
    PROVE  CharInv'
  <1>1. CASE ParseStatus(event) # "OK"
    BY <1>1 DEF ime_v1_session_process_event, Caller, vars, view, ledger, CharInv,
                RecoveryIsUtf8
  <1>2. CASE ParseStatus(event) = "OK"
    BY <1>2, ParsedUtf8, InputUtf8 DEF ime_v1_session_process_event
  <1>. QED
    BY <1>1, <1>2

\* Every call of the ABI keeps characters whole.
LEMMA FfiCharStep ==
    ASSUME FInv, CharInv, [FfiNext]_ffiVars
    PROVE  CharInv'
  <1>0. IInv'
    BY FfiStep DEF CallKept
  <1>1. UNCHANGED vars => CharInv'
    BY <1>0 DEF vars, view, ledger, CharInv, RecoveryIsUtf8
  <1>2. CASE \/ ime_v1_engine_create \/ ime_v1_engine_destroy \/ NullArgument
             \/ ime_v1_session_create \/ ime_v1_session_destroy
             \/ ime_v1_session_snapshot
             \/ \E result \in results : ime_v1_result_free(result)
             \/ UNCHANGED ffiVars
    BY <1>1, <1>2 DEF ime_v1_engine_create, ime_v1_engine_destroy, ime_v1_session_create,
       ime_v1_session_destroy, NullArgument, ime_v1_session_snapshot, ime_v1_result_free,
       Caller, ffiVars
  <1>3. ASSUME NEW event \in WireEvents, ime_v1_session_process_event(event)
        PROVE  CharInv'
    BY <1>0, <1>3, WireAssumption, ProcessEventUtf8
  <1>4. ASSUME NEW result \in results, NEW id, SelectFrom(result, id)
        PROVE  CharInv'
    BY <1>0, <1>4, SelectionTyped, ProcessEventUtf8 DEF SelectFrom
  <1>5. ASSUME NEW id, NEW disposition, ime_v1_session_ack_action(id, disposition)
        PROVE  CharInv'
    BY <1>0, <1>1, <1>5, AcknowledgeUtf8 DEF ime_v1_session_ack_action, Caller
  <1>. QED
    BY <1>2, <1>3, <1>4, <1>5 DEF FfiNext

\* Whatever bytes a caller sends, the composition behind the ABI is whole characters, and
\* its cursor is between two of them.
THEOREM CompositionBehindAbi == FfiSpec => []CompositionIsUtf8
  <1>1. FfiInit => CharInv
    BY CharStart DEF FfiInit
  <1>2. FInv /\ CharInv /\ [FfiNext]_ffiVars => CharInv'
    BY FfiCharStep
  <1>. QED
    BY <1>1, <1>2, FfiInvariantHolds, CharactersWhole, PTL DEF FfiSpec
=============================================================================
