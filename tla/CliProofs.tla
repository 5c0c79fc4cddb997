------------------------------- MODULE CliProofs -------------------------------
(***************************************************************************)
(* The command line loop is a host of its session, and what it prints and  *)
(* acknowledges is enough; and what a session on dictionaries commits was  *)
(* meant: for every limit, dictionary and line typed.                      *)
(***************************************************************************)
EXTENDS Cli, DictionarySession, SessionProofs, PipelineProofs

\* What an event achieves that the loop relies on.
EventKept ==
    /\ DOMAIN pending_actions' \subseteq DOMAIN pending_actions \/ reply' = "Ok"
    /\ DOMAIN pending_actions = {} => reply' # "TooManyOutstandingActions"
    /\ (reconciliation_required' => reconciliation_required)
    /\ Errored /\ phase' = "CandidateSelecting" =>
          /\ phase = "CandidateSelecting"
          /\ candidate_snapshot'.entries = candidate_snapshot.entries

\* The candidates a selection chooses from are those printed last.
PrintedCurrent == phase = "CandidateSelecting" => printed = candidate_snapshot.entries

\* What is outstanding was printed with autoack off, or is about to be acknowledged.
Attended == DOMAIN pending_actions \subseteq unattended \cup to_ack

\* The loop acknowledges only what was issued.
CInv == to_ack \subseteq ActionId /\ PrintedCurrent /\ Attended /\ AttendedIsHealthy

-----------------------------------------------------------------------------
(* Events.                                                                 *)

\* The lines that become an event are calls of a session.
LEMMA EventIsCall ==
    ASSUME IInv, Event
    PROVE  ProcessEvent
  <1>1. state_revision \in 0..state_revision
    BY SessionAssumption DEF IInv, RestSound, Revision
  <1>2. {-1, 1} \subseteq CursorDeltas /\ {-1, 1} \subseteq SelectionDeltas
    BY CliAssumption
  <1>3. CASE \E id \in 1..(Len(candidate_snapshot.entries) + 1) : Select(id)
    BY <1>1, <1>3 DEF ProcessEvent, Select
  <1>4. CASE \E delta \in {-1, 1} : MoveCompositionCursor(delta)
    <2>1. \E delta \in CursorDeltas : MoveCompositionCursor(delta)
      BY <1>2, <1>4
    <2>. QED
      BY <2>1 DEF ProcessEvent
  <1>5. CASE \E delta \in {-1, 1} : MoveCandidateSelection(delta)
    <2>1. \E delta \in SelectionDeltas : MoveCandidateSelection(delta)
      BY <1>2, <1>5
    <2>. QED
      BY <2>1 DEF ProcessEvent
  <1>. QED
    BY <1>3, <1>4, <1>5 DEF Event, ProcessEvent

\* Without outstanding actions the ledger is not full.
LEMMA NotFull ==
    ASSUME DOMAIN pending_actions = {}, NEW actions, DOMAIN actions \subseteq DOMAIN pending_actions
    PROVE  ~Full(actions)
  <1>1. DOMAIN actions = {} /\ Cardinality({}) = 0
    BY FS_EmptySet
  <1>. QED
    BY <1>1, SessionAssumption DEF Full

\* Taking actions out of the ledger leaves no new one.
LEMMA WithoutFewer ==
    /\ \A ids : DOMAIN Without(Live, ids) \subseteq DOMAIN pending_actions
    /\ DOMAIN Live = DOMAIN pending_actions
  BY DEF Without, Live, Restrict

\* An action is issued by a call that succeeds.
LEMMA AllocateOk ==
    ASSUME NEW actions, DOMAIN actions \subseteq DOMAIN pending_actions,
           NEW action, Allocate(actions, action)
    PROVE  /\ DOMAIN pending_actions' \subseteq DOMAIN pending_actions \/ reply' = "Ok"
           /\ reply' # "TooManyOutstandingActions"
  BY DEF Allocate

\* A call that only answers.
LEMMA AnswerEvent ==
    ASSUME NEW outcome, outcome # "TooManyOutstandingActions", Answer(outcome)
    PROVE  EventKept
  BY WithoutFewer DEF Answer, EventKept, view, host

\* An edit.
LEMMA EditEvent ==
    ASSUME NEW edited, CompositionEdit(edited)
    PROVE  EventKept
  <1>. DEFINE actions == Without(Live, SupersededByEdit)
  <1>1. DOMAIN actions \subseteq DOMAIN pending_actions
    BY WithoutFewer
  <1>. HIDE DEF actions
  <1>2. UNCHANGED host
    BY DEF CompositionEdit
  <1>3. \/ /\ Full(actions) /\ pending_actions' = actions
           /\ reply' = "TooManyOutstandingActions"
           /\ UNCHANGED view
        \/ /\ pending_actions' = actions /\ reply' = "CounterExhausted"
           /\ UNCHANGED <<phase, candidate_snapshot>>
        \/ /\ pending_actions' = actions /\ reply' = "Ok"
        \/ /\ MarkedText
    BY DEF CompositionEdit, actions
  <1>. QED
    BY <1>1, <1>2, <1>3, NotFull, CliAssumption DEF EventKept, Errored, view, host

\* commit_text.
LEMMA CommitTextEvent ==
    ASSUME NEW text, CommitText(text)
    PROVE  EventKept
  <1>. DEFINE actions == Without(Live, CompositionUpdates)
  <1>1. DOMAIN actions \subseteq DOMAIN pending_actions
    BY WithoutFewer
  <1>. HIDE DEF actions
  <1>2. UNCHANGED host
    BY DEF CommitText
  <1>3. \/ /\ Full(actions) /\ pending_actions' = actions
           /\ reply' = "TooManyOutstandingActions"
           /\ UNCHANGED view
        \/ /\ pending_actions' = actions /\ reply' = "CounterExhausted"
           /\ phase' = "Idle"
        \/ /\ phase' = "Idle" /\ \E action : Allocate(actions, action)
    BY DEF CommitText, actions, ClearComposition
  <1>. QED
    BY <1>1, <1>2, <1>3, NotFull, AllocateOk DEF EventKept, Errored, view, host

\* The cancelling of a composition, of which a host without marked text is not told.
LEMMA CancelEvent ==
    ASSUME cancel
    PROVE  EventKept
  <1>. DEFINE actions == Without(Live, CompositionUpdates)
  <1>1. DOMAIN actions \subseteq DOMAIN pending_actions
    BY WithoutFewer
  <1>2. CASE phase = "Idle"
    BY <1>2, AnswerEvent DEF cancel
  <1>3. CASE phase # "Idle"
    <2>. HIDE DEF actions
    <2>1. UNCHANGED host
      BY <1>3 DEF cancel
    <2>2. \/ /\ Full(actions) /\ pending_actions' = actions
             /\ reply' = "TooManyOutstandingActions"
             /\ UNCHANGED view
          \/ /\ pending_actions' = actions /\ reply' = "CounterExhausted"
             /\ phase' = "Idle"
          \/ /\ pending_actions' = actions /\ reply' = "Ok"
      BY <1>3, CliAssumption DEF cancel, actions, ClearComposition
    <2>. QED
      BY <1>1, <2>1, <2>2, NotFull DEF EventKept, Errored, view, host
  <1>. QED
    BY <1>2, <1>3

\* A deletion in the host's own text, or in the composition.
LEMMA BackspaceEvent ==
    ASSUME backspace(1)
    PROVE  EventKept
  <1>1. CASE phase # "Idle"
    BY <1>1, AnswerEvent, EditEvent DEF backspace
  <1>2. CASE phase = "Idle"
    <2>1. UNCHANGED view /\ UNCHANGED host
      BY <1>2 DEF backspace
    <2>2. \/ /\ Full(Live) /\ pending_actions' = Live
             /\ reply' = "TooManyOutstandingActions"
          \/ \E action : Allocate(Live, action)
      BY <1>2 DEF backspace
    <2>. QED
      BY <2>1, <2>2, NotFull, AllocateOk, WithoutFewer DEF EventKept, Errored, view, host
  <1>. QED
    BY <1>1, <1>2

\* The moving of the selection.
LEMMA SelectionEvent ==
    ASSUME candidate_snapshot \in CandidateSnapshot, NEW delta, MoveCandidateSelection(delta)
    PROVE  EventKept
  <1>1. CASE Answer("Unsupported") \/ Answer("NoOp")
    BY <1>1, AnswerEvent
  <1>2. CASE ~(Answer("Unsupported") \/ Answer("NoOp"))
    <2>1. /\ pending_actions' = Live /\ reply' \in {"CounterExhausted", "Ok"}
          /\ UNCHANGED <<phase, host>>
      BY <1>2 DEF MoveCandidateSelection
    <2>2. reply' = "CounterExhausted" =>
             \E index : candidate_snapshot' = [candidate_snapshot EXCEPT !.selected_index = index]
      BY <1>2 DEF MoveCandidateSelection
    <2>3. reply' = "CounterExhausted" =>
             candidate_snapshot'.entries = candidate_snapshot.entries
      BY <2>2 DEF CandidateSnapshot
    <2>. QED
      BY <2>1, <2>3, WithoutFewer DEF EventKept, Errored, host
  <1>. QED
    BY <1>1, <1>2

\* process_reset.
LEMMA ResetEvent ==
    ASSUME Reset
    PROVE  EventKept
  <1>1. phase' = "Idle" /\ reconciliation_required' = FALSE
    BY DEF Reset, ClearComposition
  <1>2. \/ pending_actions' = <<>> /\ reply' \in {"CounterExhausted", "Ok", "NoOp"}
        \/ \E action : Allocate(<<>>, action)
    BY DEF Reset
  <1>3. DOMAIN <<>> \subseteq DOMAIN pending_actions
    OBVIOUS
  <1>. QED
    BY <1>1, <1>2, <1>3, AllocateOk DEF EventKept

\* Every line that becomes an event.
LEMMA EventSound ==
    ASSUME IInv, Event
    PROVE  EventKept
  <1>1. CASE InputSequenceExhausted
    BY <1>1 DEF InputSequenceExhausted, EventKept, Errored, view, host, ledger
  <1>2. CASE Reset
    BY <1>2, ResetEvent
  <1>3. CASE \E delta \in {-1, 1} : MoveCandidateSelection(delta)
    BY <1>3, SelectionEvent DEF IInv, ViewSound
  <1>4. CASE \E id \in 1..(Len(candidate_snapshot.entries) + 1) : Select(id)
    BY <1>4, AnswerEvent, CommitTextEvent DEF Select, SelectCandidate
  <1>5. CASE Commit \/ Cancel \/ Backspace
    BY <1>5, AnswerEvent, CommitTextEvent, CancelEvent, BackspaceEvent
       DEF Commit, commit, Cancel, Backspace
  <1>6. CASE \E text \in InsertTexts : InsertText(text)
    BY <1>6, AnswerEvent, EditEvent DEF InsertText, insert_text
  <1>7. CASE DeleteForward \/ \E delta \in {-1, 1} : MoveCompositionCursor(delta)
    BY <1>7, AnswerEvent, EditEvent
       DEF DeleteForward, delete_forward, MoveCompositionCursor, move_composition_cursor
  <1>. QED
    BY <1>1, <1>2, <1>3, <1>4, <1>5, <1>6, <1>7 DEF Event

-----------------------------------------------------------------------------
(* Acknowledgements.                                                       *)

\* What an acknowledgement achieves that the loop relies on.
LEMMA AcknowledgementSound ==
    ASSUME NEW id, NEW disposition, AcknowledgeAction(id, disposition)
    PROVE  /\ DOMAIN pending_actions' \subseteq DOMAIN pending_actions \ {id}
           /\ reply' # "TooManyOutstandingActions"
           /\ Errored \/ disposition = "Applied" => UNCHANGED <<phase, candidate_snapshot>>
           /\ disposition = "Applied" \/ id \notin DOMAIN pending_actions =>
                 (reconciliation_required' => reconciliation_required)
  <1>1. CASE id \notin DOMAIN pending_actions
    BY <1>1 DEF AcknowledgeAction, view, ledger, host
  <1>2. CASE id \in DOMAIN pending_actions
    <2>1. DOMAIN Without(pending_actions, {id}) = DOMAIN pending_actions \ {id}
      BY DEF Without, Restrict
    <2>2. CASE Resolve(id, disposition)
      <3>1. /\ pending_actions' = Without(pending_actions, {id})
            /\ reply' = "Recorded"
            /\ UNCHANGED <<phase, candidate_snapshot>>
        BY <2>2 DEF Resolve, view
      <3>2. disposition = "Applied" =>
              (reconciliation_required' => reconciliation_required)
        BY <2>2 DEF Resolve, Refusals
      <3>. QED
        BY <1>2, <2>1, <3>1, <3>2
    <2>3. CASE /\ disposition # "Applied"
               /\ \E recovery : RestoreCommit(id, recovery, disposition)
      <3>1. pending_actions' = Without(pending_actions, {id})
        BY <2>3 DEF RestoreCommit
      <3>2. \/ reply' = "CounterExhausted" /\ UNCHANGED <<phase, candidate_snapshot>>
            \/ reply' = "Recorded"
        BY <2>3 DEF RestoreCommit, view
      <3>. QED
        BY <1>2, <2>1, <2>3, <3>1, <3>2 DEF Errored
    <2>. QED
      BY <1>2, <2>2, <2>3 DEF AcknowledgeAction, AcknowledgePending, Refusals
  <1>. QED
    BY <1>1, <1>2

-----------------------------------------------------------------------------
(* Lines.                                                                  *)

\* The loop's part of the invariant and the session's.
Inv == IInv /\ CInv

\* What a step of the loop achieves: it is a step of the session, and keeps both.
Stepped == Inv' /\ [Next]_vars

\* A line that becomes an event.
LEMMA EventLineStep ==
    ASSUME Inv, EventLine
    PROVE  Stepped
  <1>1. /\ IInv /\ PrintedCurrent /\ Attended /\ AttendedIsHealthy
        /\ Event /\ Outcome /\ to_ack = {}
    BY DEF Inv, CInv, EventLine, Prompt
  <1>2. ProcessEvent /\ EventKept
    BY <1>1, EventIsCall, EventSound
  <1>3. IInv'
    BY <1>1, <1>2, ProcessEventStep
  <1>4. DOMAIN pending_actions \subseteq unattended
    BY <1>1 DEF Attended
  <1>5. Issued \subseteq ActionId
    <2>1. /\ DOMAIN pending_actions' \subseteq 1..(next_action_id' - 1)
          /\ next_action_id' \in 1..U64Max
      BY <1>3 DEF IInv, LedgerSound, Typed, ActionId
    <2>. QED
      BY <2>1, SessionAssumption DEF Issued, ActionId
  <1>6. CASE Errored
    <2>1. to_ack' = {} /\ UNCHANGED <<printed, unattended>>
      BY <1>1, <1>6 DEF Outcome
    <2>2. DOMAIN pending_actions' \subseteq DOMAIN pending_actions
      BY <1>2, <1>6 DEF EventKept, Errored
    <2>3. PrintedCurrent'
      BY <1>1, <1>2, <1>6, <2>1 DEF PrintedCurrent, EventKept
    <2>4. Attended'
      BY <1>4, <2>1, <2>2 DEF Attended
    <2>5. AttendedIsHealthy'
      BY <1>1, <1>2, <1>4, <2>1 DEF AttendedIsHealthy, EventKept
    <2>. QED
      BY <1>2, <1>3, <2>1, <2>3, <2>4, <2>5 DEF Stepped, Inv, CInv, Next
  <1>7. CASE ~Errored
    <2>1. /\ printed' = candidate_snapshot'.entries
          /\ to_ack' = IF auto_ack THEN Issued ELSE {}
          /\ unattended' = IF auto_ack THEN unattended ELSE unattended \cup Issued
      BY <1>1, <1>7 DEF Outcome, PrintCandidates, Automatic
    <2>2. PrintedCurrent'
      BY <2>1 DEF PrintedCurrent
    <2>3. Attended'
      BY <1>4, <2>1 DEF Attended, Issued
    <2>4. AttendedIsHealthy'
      BY <1>1, <1>2, <1>4, <2>1 DEF AttendedIsHealthy, EventKept
    <2>5. to_ack' \subseteq ActionId
      BY <1>5, <2>1
    <2>. QED
      BY <1>2, <1>3, <2>2, <2>3, <2>4, <2>5 DEF Stepped, Inv, CInv, Next
  <1>. QED
    BY <1>6, <1>7

\* An acknowledgement the loop makes itself.
LEMMA AutoAcknowledgeStep ==
    ASSUME Inv, NEW id \in to_ack, AutoAcknowledge(id)
    PROVE  Stepped
  <1>1. /\ IInv /\ PrintedCurrent /\ Attended /\ AttendedIsHealthy
        /\ to_ack \subseteq ActionId
        /\ AcknowledgeAction(id, "Applied")
        /\ to_ack' = to_ack \ {id} /\ UNCHANGED <<printed, unattended>>
    BY DEF Inv, CInv, AutoAcknowledge
  <1>2. Acknowledge
    BY <1>1, CliAssumption DEF Acknowledge
  <1>3. IInv'
    BY <1>1, AcknowledgeStep DEF Dispositions
  <1>4. /\ DOMAIN pending_actions' \subseteq DOMAIN pending_actions \ {id}
        /\ reply' # "TooManyOutstandingActions"
        /\ UNCHANGED <<phase, candidate_snapshot>>
        /\ (reconciliation_required' => reconciliation_required)
    BY <1>1, AcknowledgementSound
  <1>5. PrintedCurrent' /\ Attended' /\ to_ack' \subseteq ActionId
    BY <1>1, <1>4 DEF PrintedCurrent, Attended
  <1>6. AttendedIsHealthy'
    BY <1>1, <1>4 DEF AttendedIsHealthy
  <1>. QED
    BY <1>2, <1>3, <1>5, <1>6 DEF Stepped, Inv, CInv, Next

\* An acknowledgement that is typed: the state it leads to is printed.
LEMMA AckLineStep ==
    ASSUME Inv, NEW id \in ActionId, NEW disposition \in HostDispositions,
           AckLine(id, disposition)
    PROVE  Stepped
  <1>1. /\ IInv /\ PrintedCurrent /\ Attended /\ AttendedIsHealthy /\ to_ack = {}
        /\ AcknowledgeAction(id, disposition) /\ PrintAcknowledged
        /\ UNCHANGED <<to_ack, unattended>>
    BY DEF Inv, CInv, AckLine, Prompt
  <1>2. Acknowledge
    BY <1>1 DEF Acknowledge
  <1>3. IInv'
    BY <1>1, AcknowledgeStep, SessionAssumption
  <1>4. /\ DOMAIN pending_actions' \subseteq DOMAIN pending_actions \ {id}
        /\ reply' # "TooManyOutstandingActions"
        /\ Errored => UNCHANGED <<phase, candidate_snapshot>>
        /\ id \notin DOMAIN pending_actions =>
              (reconciliation_required' => reconciliation_required)
    BY <1>1, AcknowledgementSound
  <1>5. PrintedCurrent'
    BY <1>1, <1>4 DEF PrintedCurrent, PrintAcknowledged, PrintCandidates
  <1>6. Attended'
    BY <1>1, <1>4 DEF Attended
  <1>7. AttendedIsHealthy'
    <2>. SUFFICES ASSUME unattended' = {}
                  PROVE  reply' # "TooManyOutstandingActions" /\ ~reconciliation_required'
      BY DEF AttendedIsHealthy
    <2>1. DOMAIN pending_actions = {} /\ ~reconciliation_required
      BY <1>1 DEF Attended, AttendedIsHealthy
    <2>. QED
      BY <1>4, <2>1
  <1>. QED
    BY <1>1, <1>2, <1>3, <1>5, <1>6, <1>7 DEF Stepped, Inv, CInv, Next

\* A line that calls nothing.
LEMMA QuietLineStep ==
    ASSUME Inv, UNCHANGED <<vars, to_ack, unattended>>,
           printed' \in {printed, candidate_snapshot.entries}
    PROVE  Stepped
  <1>1. /\ UNCHANGED <<state_revision, view, context, input_sequence, ledger, host>>
        /\ reply' = reply
    BY DEF vars, view, ledger, host
  <1>2. IInv'
    BY <1>1, NothingChangedStep DEF Inv, IInv, RestSound
  <1>3. CInv'
    BY <1>1 DEF Inv, CInv, PrintedCurrent, Attended, AttendedIsHealthy, view, ledger, host
  <1>. QED
    BY <1>2, <1>3 DEF Stepped, Inv

-----------------------------------------------------------------------------
(* The invariant.                                                          *)

LEMMA InitInv == CliInit => Inv
  <1>. SUFFICES ASSUME CliInit PROVE Inv
    OBVIOUS
  <1>1. IInv
    BY InitSound DEF CliInit
  <1>2. CInv
    BY DEF CliInit, Init, CInv, PrintedCurrent, Attended, AttendedIsHealthy
  <1>. QED
    BY <1>1, <1>2 DEF Inv

LEMMA NextInv == Inv /\ [CliNext]_cliVars => Stepped
  <1>. SUFFICES ASSUME Inv, [CliNext]_cliVars PROVE Stepped
    OBVIOUS
  <1>1. CASE EventLine
    BY <1>1, EventLineStep
  <1>2. CASE \E id \in to_ack : AutoAcknowledge(id)
    BY <1>2, AutoAcknowledgeStep
  <1>3. CASE \E id \in ActionId, disposition \in HostDispositions : AckLine(id, disposition)
    BY <1>3, AckLineStep
  <1>4. CASE ShowLine
    BY <1>4, QuietLineStep DEF ShowLine
  <1>5. CASE \E value \in BOOLEAN : AutoackLine(value)
    BY <1>5, QuietLineStep DEF AutoackLine
  <1>6. CASE Quit
    BY <1>6, QuietLineStep DEF Quit
  <1>7. CASE UNCHANGED cliVars
    BY <1>7, QuietLineStep DEF cliVars, loopVars
  <1>. QED
    BY <1>1, <1>2, <1>3, <1>4, <1>5, <1>6, <1>7 DEF CliNext


\* The loop is one of the hosts Session allows: whatever holds of every session,
\* SessionProofs's theorems among it, holds of the loop's.
THEOREM CliRunsSession == CliSpec => Spec
  <1>1. CliInit => Init
    BY DEF CliInit
  <1>2. Inv /\ [CliNext]_cliVars => Inv' /\ [Next]_vars
    BY NextInv DEF Stepped
  <1>. QED
    BY <1>1, <1>2, InitInv, PTL DEF CliSpec, Spec

\* At the prompt nothing is outstanding but what was printed with autoack off.
THEOREM AutoAckAlwaysSettles == CliSpec => []AutoAckSettles
  <1>1. Inv => AutoAckSettles
    BY DEF Inv, CInv, Attended, AutoAckSettles, Prompt
  <1>2. Inv /\ [CliNext]_cliVars => Inv'
    BY NextInv DEF Stepped
  <1>. QED
    BY <1>1, <1>2, InitInv, PTL DEF CliSpec

\* As long as autoack stays on, no line finds the ledger full, and none puts the
\* session and the host at odds.
THEOREM AttendedAlwaysHealthy == CliSpec => []AttendedIsHealthy
  <1>1. Inv => AttendedIsHealthy
    BY DEF Inv, CInv
  <1>2. Inv /\ [CliNext]_cliVars => Inv'
    BY NextInv DEF Stepped
  <1>. QED
    BY <1>1, <1>2, InitInv, PTL DEF CliSpec

\* What a selection issues is the commit of the candidate selected.
LEMMA SelectionIssues ==
    ASSUME NEW i, Select(i), NEW id \in Issued
    PROVE  /\ phase = "CandidateSelecting"
           /\ i \in DOMAIN candidate_snapshot.entries
           /\ pending_actions'[id].text = candidate_snapshot.entries[i]
  <1>1. id \in DOMAIN pending_actions' /\ id \notin DOMAIN pending_actions
    BY DEF Issued
  <1>2. \A outcome : ~Answer(outcome)
    BY <1>1, WithoutFewer DEF Answer
  <1>3. /\ phase = "CandidateSelecting"
        /\ i \in DOMAIN candidate_snapshot.entries
        /\ CommitText(candidate_snapshot.entries[i])
    BY <1>2 DEF Select, SelectCandidate
  <1>. DEFINE actions == Without(Live, CompositionUpdates)
              text    == candidate_snapshot.entries[i]
  <1>4. DOMAIN actions \subseteq DOMAIN pending_actions
    BY WithoutFewer
  <1>5. \E recovery, revision :
          Allocate(actions, Action("CommitText", text, 0, revision, {recovery}))
    <2>1. pending_actions' # actions
      BY <1>1, <1>4
    <2>. HIDE DEF actions, text
    <2>2. CommitText(text) => \/ pending_actions' = actions
                              \/ \E recovery, revision :
                                    Allocate(actions, Action("CommitText", text, 0, revision,
                                                             {recovery}))
      BY DEF CommitText, actions
    <2>. QED
      BY <1>3, <2>1, <2>2 DEF text
  <1>. HIDE DEF actions, text
  <1>6. PICK recovery, revision :
          Allocate(actions, Action("CommitText", text, 0, revision, {recovery}))
    BY <1>5
  <1>7. pending_actions'[id] = Action("CommitText", text, 0, revision, {recovery})
    BY <1>1, <1>4, <1>6 DEF Allocate
  <1>. QED
    BY <1>3, <1>7 DEF Action, text

\* `select <ID>` commits the candidate last printed under that number.
THEOREM SelectAlwaysCommitsPrinted == CliSpec => SelectCommitsPrinted
  <1>1. Inv /\ [CliNext]_cliVars =>
          [\A i \in 1..(Len(candidate_snapshot.entries) + 1) :
              EventLine /\ Select(i) =>
                  \A id \in Issued : i \in DOMAIN printed
                                       /\ pending_actions'[id].text = printed[i]]_cliVars
    BY SelectionIssues DEF Inv, CInv, PrintedCurrent
  <1>2. Inv /\ [CliNext]_cliVars => Inv'
    BY NextInv DEF Stepped
  <1>. QED
    BY <1>1, <1>2, InitInv, PTL DEF CliSpec, SelectCommitsPrinted

-----------------------------------------------------------------------------
(* What a session commits, of which its dictionaries know.                 *)

\* The composition, and as long as its revisions last, the candidates on display.
Committable == {composer.text}
               \cup IF Exhausted THEN {} ELSE Range(candidate_snapshot.entries)

CommitsCommittable ==
    \A id \in Issued : pending_actions'[id].kind = "CommitText" =>
        pending_actions'[id].text \in Committable

\* An action is issued where it is allocated.
LEMMA AllocateIssues ==
    ASSUME NEW actions, DOMAIN actions \subseteq DOMAIN pending_actions,
           NEW action, Allocate(actions, action)
    PROVE  \A id \in Issued : pending_actions'[id] = action
  BY DEF Allocate, Issued

\* A call that issues nothing commits nothing.
LEMMA QuietCommits ==
    ASSUME DOMAIN pending_actions' \subseteq DOMAIN pending_actions
    PROVE  CommitsCommittable
  BY DEF CommitsCommittable, Issued

LEMMA AnswerCommits ==
    ASSUME NEW outcome, Answer(outcome)
    PROVE  CommitsCommittable
  BY WithoutFewer, QuietCommits DEF Answer

\* An action that is no commit commits nothing.
LEMMA OtherCommits ==
    ASSUME NEW actions, DOMAIN actions \subseteq DOMAIN pending_actions,
           NEW action, action.kind # "CommitText", Allocate(actions, action)
    PROVE  CommitsCommittable
  BY AllocateIssues DEF CommitsCommittable

LEMMA PlainKind ==
    ASSUME NEW kind, NEW revision
    PROVE  PlainAction(kind, revision).kind = kind
  BY DEF PlainAction, Action

\* An edit announces a composition.
LEMMA EditCommits ==
    ASSUME NEW edited, CompositionEdit(edited)
    PROVE  CommitsCommittable
  <1>. DEFINE actions == Without(Live, SupersededByEdit)
              update  == CompositionUpdate(edited, state_revision + 1)
  <1>1. DOMAIN actions \subseteq DOMAIN pending_actions
    BY WithoutFewer
  <1>2. update.kind # "CommitText"
    BY DEF CompositionUpdate, PlainAction, Action
  <1>. HIDE DEF actions, update
  <1>3. pending_actions' = actions \/ Allocate(actions, update)
    BY DEF CompositionEdit, actions, update
  <1>. QED
    BY <1>1, <1>2, <1>3, QuietCommits, OtherCommits

\* commit_text commits the text it is given, and none when the revisions are exhausted.
LEMMA CommitTextCommits ==
    ASSUME NEW text, CommitText(text),
           text = composer.text \/ text \in Range(candidate_snapshot.entries)
    PROVE  CommitsCommittable
  <1>. DEFINE actions == Without(Live, CompositionUpdates)
  <1>1. DOMAIN actions \subseteq DOMAIN pending_actions
    BY WithoutFewer
  <1>. HIDE DEF actions
  <1>2. \/ pending_actions' = actions
        \/ /\ ~Exhausted
           /\ \E recovery, revision :
                 Allocate(actions, Action("CommitText", text, 0, revision, {recovery}))
    BY DEF CommitText, actions
  <1>3. ASSUME ~Exhausted, NEW recovery, NEW revision,
               Allocate(actions, Action("CommitText", text, 0, revision, {recovery}))
        PROVE  CommitsCommittable
    <2>1. \A id \in Issued : pending_actions'[id].text = text
      BY <1>1, <1>3, AllocateIssues DEF Action
    <2>. QED
      BY <1>3, <2>1 DEF CommitsCommittable, Committable
  <1>. QED
    BY <1>1, <1>2, <1>3, QuietCommits

LEMMA CommitCommits == commit => CommitsCommittable
  BY AnswerCommits, CommitTextCommits DEF commit

LEMMA CancelCommits == cancel => CommitsCommittable
  <1>. DEFINE actions == Without(Live, CompositionUpdates)
              action  == PlainAction("CancelComposition", state_revision + 1)
  <1>. SUFFICES ASSUME cancel PROVE CommitsCommittable
    OBVIOUS
  <1>1. CASE phase = "Idle"
    BY <1>1, AnswerCommits DEF cancel
  <1>2. CASE phase # "Idle"
    <2>1. DOMAIN actions \subseteq DOMAIN pending_actions
      BY WithoutFewer
    <2>2. action.kind # "CommitText"
      BY PlainKind
    <2>. HIDE DEF actions, action
    <2>3. pending_actions' = actions \/ Allocate(actions, action)
      BY <1>2 DEF cancel, actions, action
    <2>. QED
      BY <2>1, <2>2, <2>3, QuietCommits, OtherCommits
  <1>. QED
    BY <1>1, <1>2

LEMMA InsertCommits ==
    ASSUME NEW text, insert_text(text)
    PROVE  CommitsCommittable
  BY AnswerCommits, EditCommits DEF insert_text

LEMMA BackspaceCommits ==
    ASSUME NEW count, backspace(count)
    PROVE  CommitsCommittable
  <1>1. CASE phase = "Idle"
    <2>1. DOMAIN Live \subseteq DOMAIN pending_actions
      BY WithoutFewer
    <2>2. \/ pending_actions' = Live
          \/ Allocate(Live, PlainAction("DeleteBackward", state_revision))
      BY <1>1 DEF backspace
    <2>. QED
      BY <2>1, <2>2, PlainKind, QuietCommits, OtherCommits
  <1>2. CASE phase # "Idle"
    BY <1>2, AnswerCommits, EditCommits DEF backspace
  <1>. QED
    BY <1>1, <1>2

LEMMA DeleteForwardCommits ==
    ASSUME NEW count, delete_forward(count)
    PROVE  CommitsCommittable
  BY AnswerCommits, EditCommits DEF delete_forward

LEMMA MoveCursorCommits ==
    ASSUME NEW delta, move_composition_cursor(delta)
    PROVE  CommitsCommittable
  BY AnswerCommits, EditCommits DEF move_composition_cursor

\* A selection commits a candidate on display.
LEMMA SelectCommits ==
    ASSUME NEW candidate_id, NEW revision, SelectCandidate(candidate_id, revision)
    PROVE  CommitsCommittable
  <1>1. \/ \E outcome : Answer(outcome)
        \/ /\ candidate_id \in DOMAIN candidate_snapshot.entries
           /\ CommitText(candidate_snapshot.entries[candidate_id])
    BY DEF SelectCandidate
  <1>. QED
    BY <1>1, AnswerCommits, CommitTextCommits DEF Range

\* A reset gives up every action before it asks for one.
LEMMA ResetCommits == Reset => CommitsCommittable
  <1>. SUFFICES ASSUME Reset PROVE CommitsCommittable
    OBVIOUS
  <1>1. DOMAIN <<>> \subseteq DOMAIN pending_actions
    OBVIOUS
  <1>2. \/ pending_actions' = <<>>
        \/ \E revision : Allocate(<<>>, PlainAction("RequestPlatformReset", revision))
    BY DEF Reset
  <1>. QED
    BY <1>1, <1>2, PlainKind, QuietCommits, OtherCommits

\* No event commits anything else.
LEMMA EventCommits == ProcessEvent => CommitsCommittable
  <1>. SUFFICES ASSUME ProcessEvent PROVE CommitsCommittable
    OBVIOUS
  <1>1. CASE \E text \in InsertTexts : InsertText(text)
    BY <1>1, InsertCommits DEF InsertText
  <1>2. CASE Backspace
    BY <1>2, BackspaceCommits DEF Backspace
  <1>3. CASE DeleteForward
    BY <1>3, DeleteForwardCommits DEF DeleteForward
  <1>4. CASE \E delta \in CursorDeltas : MoveCompositionCursor(delta)
    BY <1>4, MoveCursorCommits DEF MoveCompositionCursor
  <1>5. CASE \E event \in HardwareKeys : HardwareKey(event)
    BY <1>5, AnswerCommits, InsertCommits, BackspaceCommits, DeleteForwardCommits,
       MoveCursorCommits, CommitCommits, CancelCommits DEF HardwareKey
  <1>6. CASE Commit
    BY <1>6, CommitCommits DEF Commit
  <1>7. CASE Cancel
    BY <1>7, CancelCommits DEF Cancel
  <1>8. CASE \E id \in 1..(Len(candidate_snapshot.entries) + 1),
                revision \in 0..state_revision : SelectCandidate(id, revision)
    BY <1>8, SelectCommits
  <1>9. CASE \E delta \in SelectionDeltas : MoveCandidateSelection(delta)
    <2>1. pending_actions' = Live
      BY <1>9 DEF MoveCandidateSelection, Answer
    <2>. QED
      BY <2>1, WithoutFewer, QuietCommits
  <1>10. CASE \E raw \in Contexts : ContextChanged(raw)
    <2>1. pending_actions' = Live
      BY <1>10 DEF ContextChanged, Answer
    <2>. QED
      BY <2>1, WithoutFewer, QuietCommits
  <1>11. CASE Reset
    BY <1>11, ResetCommits
  <1>12. CASE UnsupportedEvent
    BY <1>12, AnswerCommits DEF UnsupportedEvent
  <1>13. CASE InputSequenceExhausted
    BY <1>13, QuietCommits DEF InputSequenceExhausted, ledger
  <1>. QED
    BY <1>1, <1>2, <1>3, <1>4, <1>5, <1>6, <1>7, <1>8, <1>9, <1>10, <1>11, <1>12, <1>13
    DEF ProcessEvent

\* An acknowledgement issues nothing, the one that restores a commit included.
LEMMA AcknowledgeCommits == Acknowledge => CommitsCommittable
  <1>. SUFFICES ASSUME NEW id \in ActionId, NEW disposition \in HostDispositions,
                       AcknowledgeAction(id, disposition)
                PROVE  CommitsCommittable
    BY DEF Acknowledge
  <1>1. \/ pending_actions' = Without(pending_actions, {id})
        \/ pending_actions' = pending_actions
    BY DEF AcknowledgeAction, AcknowledgePending, RestoreCommit, Resolve, ledger
  <1>2. DOMAIN Without(pending_actions, {id}) \subseteq DOMAIN pending_actions
    BY DEF Without, Restrict
  <1>. QED
    BY <1>1, <1>2, QuietCommits

\* What a normalised text begins, the text begins in any case.
LEMMA NormalizedBegins ==
    ASSUME NEW text \in Bytes, NEW code \in Bytes, IsPrefix(normalize_input(text), code)
    PROVE  BeginsAnyCase(text, code)
  <1>1. PICK low \in Bytes : low = normalize_input(text)
    BY NormalizedBytes
  <1>2. /\ Len(text) \in Nat /\ DOMAIN text = 1..Len(text)
        /\ Len(low) \in Nat /\ DOMAIN low = 1..Len(low)
    BY BytesFacts
  <1>3. DOMAIN low = DOMAIN text
    BY <1>1 DEF normalize_input
  <1>4. Len(low) = Len(text)
    <2>1. PICK m \in Nat, n \in Nat : m = Len(low) /\ n = Len(text) /\ 1..m = 1..n
      BY <1>2, <1>3
    <2>2. \A k \in Nat : k # 0 => k \in 1..k
      OBVIOUS
    <2>3. m <= n /\ n <= m
      BY <2>1, <2>2
    <2>. QED
      BY <2>1, <2>3
  <1>5. Len(low) <= Len(code) /\ \A i \in 1..Len(low) : low[i] = code[i]
    BY <1>1, PrefixFacts
  <1>6. \A i \in DOMAIN text : SameLetter(text[i], low[i])
    BY <1>1 DEF normalize_input, SameLetter
  <1>. QED
    BY <1>2, <1>4, <1>5, <1>6 DEF BeginsAnyCase

\* What the session can commit is the composition or listed under a code it begins.
LEMMA CommittableMeant ==
    ASSUME IInv
    PROVE  Committable \subseteq {composer.text} \cup Meant(composer.text)
  <1>. SUFFICES ASSUME ~Exhausted, NEW i \in DOMAIN candidate_snapshot.entries
                PROVE  candidate_snapshot.entries[i] \in Meant(composer.text)
    BY DEF Committable, Range
  <1>1. /\ ViewMatchesComposition
        /\ composer.text \in Text /\ Len(composer.text) <= MaxCompositionTextBytes
    BY DEF IInv, ViewSound, Composers, CompositionWithinLimit
  <1>2. PICK text \in Text : text = composer.text
    BY <1>1
  <1>3. text \in CompositionText
    <2>1. Len(text) \in Nat /\ text \in [1..Len(text) -> Byte]
      BY LenProperties DEF Text
    <2>2. Len(text) \in 0..MaxCompositionTextBytes
      BY <1>1, <1>2, <2>1, SessionAssumption
    <2>. QED
      BY <2>1, <2>2 DEF CompositionText
  <1>4. text \in Bytes
    <2>1. Byte \subseteq 0..255
      BY EngineAnswers
    <2>2. Len(text) \in Nat /\ text \in [1..Len(text) -> Byte]
      BY LenProperties DEF Text
    <2>3. text = [k \in 1..Len(text) |-> text[k]] /\ \A k \in 1..Len(text) : text[k] \in 0..255
      BY <2>1, <2>2
    <2>4. [k \in 1..Len(text) |-> text[k]] \in Seq(0..255)
      BY <2>2, <2>3, IsASeq
    <2>. QED
      BY <2>3, <2>4 DEF Bytes
  <1>5. candidate_snapshot.entries = generate(TheEngine, text).texts
    <2>1. DOMAIN <<>> = {}
      OBVIOUS
    <2>2. \E answer \in Generate(text) : candidate_snapshot.entries = answer.texts
      BY <1>1, <1>2, <2>1 DEF ViewMatchesComposition
    <2>. QED
      BY <1>3, <2>2, EngineAnswers
  <1>6. TheEngine \in Pipeline
    BY EngineAnswers
  <1>7. PICK shown : shown = candidate_snapshot.entries[i]
    OBVIOUS
  <1>8. IsListed(TheEngine, normalize_input(text), shown)
    BY <1>4, <1>5, <1>6, <1>7, GeneratedListed
  <1>0. PICK n \in 1..Len(TheEngine.providers) :
           \E h \in Hits(TheEngine.providers[n].entries, normalize_input(text)) :
              TheEngine.providers[n].entries[h].text = shown
    BY <1>8 DEF IsListed
  <1>9. PICK h \in Hits(TheEngine.providers[n].entries, normalize_input(text)) :
           TheEngine.providers[n].entries[h].text = shown
    BY <1>0
  <1>10. PICK entries \in Seq(Entry) : entries = TheEngine.providers[n].entries
    <2>1. TheEngine.providers \in Seq(Provider)
      BY <1>6 DEF Pipeline
    <2>2. TheEngine.providers[n] \in Provider
      BY <2>1, ElementOfSeq
    <2>. QED
      BY <2>2 DEF Provider
  <1>11. PICK e : e = entries[h]
    OBVIOUS
  <1>12. /\ h \in DOMAIN entries /\ IsPrefix(normalize_input(text), e.input_code)
         /\ e.text = shown
    BY <1>9, <1>10, <1>11 DEF Hits
  <1>13. e \in Entry
    <2>1. h \in 1..Len(entries)
      BY <1>12, LenProperties
    <2>. QED
      BY <1>11, <2>1, ElementOfSeq
  <1>14. BeginsAnyCase(text, e.input_code)
    BY <1>4, <1>12, <1>13, NormalizedBegins DEF Entry
  <1>15. n \in DOMAIN TheEngine.providers
    <2>1. TheEngine.providers \in Seq(Provider)
      BY <1>6 DEF Pipeline
    <2>. QED
      BY <2>1, LenProperties
  <1>16. e \in Range(TheEngine.providers[n].entries)
    BY <1>10, <1>11, <1>12 DEF Range
  <1>17. shown \in Meant(text)
    BY <1>12, <1>14, <1>15, <1>16 DEF Meant
  <1>. QED
    BY <1>2, <1>7, <1>17

\* Whatever was edited, refused, restored or moved before, what a session on any
\* dictionaries commits is what was typed or is listed under a code that it begins
\* (ImeSession on CandidateEngine).
THEOREM SessionCommitsWhatWasMeant == Spec => CommittedWasMeant
  <1>1. IInv /\ [Next]_vars =>
          [\A id \in DOMAIN pending_actions' \ DOMAIN pending_actions :
              pending_actions'[id].kind = "CommitText" =>
                 pending_actions'[id].text
                    \in {composer.text} \cup Meant(composer.text)]_vars
    <2>. SUFFICES ASSUME IInv, Next
                  PROVE  \A id \in Issued : pending_actions'[id].kind = "CommitText" =>
                            pending_actions'[id].text
                               \in {composer.text} \cup Meant(composer.text)
      BY DEF Issued
    <2>1. CommitsCommittable
      BY EventCommits, AcknowledgeCommits DEF Next
    <2>. QED
      BY <2>1, CommittableMeant DEF CommitsCommittable
  <1>. QED
    BY <1>1, SessionInvariantHolds, PTL DEF Spec, CommittedWasMeant

\* So does the session of the command line, in whose run it is checked.
THEOREM CliCommitsWhatWasMeant == CliSpec => CommittedWasMeant
  BY CliRunsSession, SessionCommitsWhatWasMeant, PTL
=============================================================================
