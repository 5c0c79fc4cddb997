------------------------------ MODULE FlowProofs ------------------------------
(***************************************************************************)
(* A session, its host and the host's document: no action is lost between  *)
(* the two, a host that settles each action at once, or acknowledges in    *)
(* the order of performing, is understood, no letter is doubled, and none  *)
(* goes unannounced.                                                       *)
(***************************************************************************)
EXTENDS TextFlow, SessionProofs

\* What the host has received.
Receipt == [id : ActionId, kind : Kinds, text : Text]

Queued == {todo[i] : i \in DOMAIN todo}

HostTypes ==
    /\ todo \in Seq(Receipt)
    /\ answers \subseteq [id : ActionId, disposition : HostDispositions]
    /\ shown \in BOOLEAN

HInv == LInv /\ HostTypes /\ OutstandingIsInFlight

Issued == DOMAIN pending_actions' \ DOMAIN pending_actions

-----------------------------------------------------------------------------
(* What the host has still to do.                                          *)

\* The queue in other words.
LEMMA QueuedFacts ==
    ASSUME HostTypes
    PROVE  /\ Queued \subseteq Receipt
           /\ \A id : (\E i \in DOMAIN todo : todo[i].id = id)
                        <=> \E q \in Queued : q.id = id
  BY DEF Queued, HostTypes

\* What is received goes to the end of the queue.
LEMMA QueueGrows ==
    ASSUME HostTypes, NEW receipt, todo' = Append(todo, receipt)
    PROVE  Queued' = Queued \cup {receipt}
  <1>1. /\ DOMAIN todo = 1..Len(todo) /\ Len(todo) \in Nat
        /\ DOMAIN todo' = 1..(Len(todo) + 1)
        /\ \A i \in 1..Len(todo) : todo'[i] = todo[i]
        /\ todo'[Len(todo) + 1] = receipt
    BY DEF HostTypes
  <1>. QED
    BY <1>1 DEF Queued

\* What is performed is the front of the queue.
LEMMA QueueShrinks ==
    ASSUME HostTypes, todo # <<>>, todo' = Tail(todo)
    PROVE  /\ Queued = Queued' \cup {Head(todo)}
           /\ todo' \in Seq(Receipt) /\ Head(todo) \in Receipt
  <1>1. /\ DOMAIN todo = 1..Len(todo) /\ Len(todo) \in Nat \ {0}
        /\ Head(todo) = todo[1]
        /\ DOMAIN todo' = 1..(Len(todo) - 1)
        /\ \A i \in 1..(Len(todo) - 1) : todo'[i] = todo[i + 1]
        /\ todo' \in Seq(Receipt)
    BY DEF HostTypes
  <1>2. \A i \in DOMAIN todo : i = 1 \/ (i - 1 \in DOMAIN todo' /\ todo[i] = todo'[i - 1])
    BY <1>1
  <1>3. \A i \in DOMAIN todo' : i + 1 \in DOMAIN todo /\ todo'[i] = todo[i + 1]
    BY <1>1
  <1>4. 1 \in DOMAIN todo /\ Head(todo) \in Receipt
    BY <1>1 DEF HostTypes
  <1>5. \A q : q \in Queued => q \in Queued' \cup {Head(todo)}
    <2>. SUFFICES ASSUME NEW i \in DOMAIN todo
                  PROVE  todo[i] \in Queued' \cup {Head(todo)}
      BY DEF Queued
    <2>1. CASE i = 1
      BY <1>1, <2>1
    <2>2. CASE i # 1
      BY <1>2, <2>2 DEF Queued
    <2>. QED
      BY <2>1, <2>2
  <1>6. \A q : q \in Queued' \cup {Head(todo)} => q \in Queued
    BY <1>1, <1>3, <1>4 DEF Queued
  <1>. QED
    BY <1>1, <1>4, <1>5, <1>6

-----------------------------------------------------------------------------
(* What a call does to the ledger.                                         *)

\* An event issues at most one action, the next.
LEMMA EventIssues ==
    ASSUME LInv, ProcessEvent
    PROVE  /\ LInv'
           /\ Issued \in {{}, {next_action_id}}
           /\ \A id \in Issued : id \in ActionId /\ pending_actions'[id] \in PendingAction
  <1>1. LInv'
    BY NextLedger DEF Next
  <1>2. PICK settled, d : Settles(settled, d)
    BY ProcessEventLedger DEF LedgerKept
  <1>3. next_action_id \notin DOMAIN pending_actions
    BY LedgerFinite DEF LInv
  <1>4. Issued \in {{}, {next_action_id}}
    BY <1>2, <1>3 DEF Settles, Issued
  <1>5. /\ \A id \in DOMAIN pending_actions' : pending_actions'[id] \in PendingAction
        /\ DOMAIN pending_actions' \subseteq 1..(next_action_id' - 1)
        /\ next_action_id' \in 1..U64Max
    BY <1>1 DEF LInv, IInv, LedgerSound, Typed, ActionId
  <1>. QED
    BY <1>1, <1>4, <1>5, SessionAssumption DEF Issued, ActionId

\* An acknowledgement settles its own action and no other.
LEMMA Acknowledged ==
    ASSUME LInv, NEW id \in ActionId, NEW disposition \in HostDispositions,
           AcknowledgeAction(id, disposition)
    PROVE  /\ LInv'
           /\ DOMAIN pending_actions' = DOMAIN pending_actions \ {id}
           /\ \A other \in DOMAIN pending_actions' :
                 pending_actions'[other] = pending_actions[other]
           /\ UNCHANGED next_action_id
           /\ id \notin DOMAIN pending_actions => UNCHANGED platform_composition_active
           /\ id \in DOMAIN pending_actions =>
                 platform_composition_active' =
                   CompositionActiveAfter(pending_actions[id].kind, disposition)
           /\ disposition = "Applied" => UNCHANGED <<state_revision, input_sequence>>
  <1>1. LInv'
    BY NextLedger DEF Next, Acknowledge
  <1>2. CASE id \notin DOMAIN pending_actions
    BY <1>1, <1>2 DEF AcknowledgeAction, ledger, host
  <1>3. CASE id \in DOMAIN pending_actions
    <2>1. /\ DOMAIN Without(pending_actions, {id}) = DOMAIN pending_actions \ {id}
          /\ \A other \in DOMAIN pending_actions \ {id} :
                Without(pending_actions, {id})[other] = pending_actions[other]
      BY DEF Without, Restrict
    <2>2. CASE Resolve(id, disposition)
      BY <1>1, <1>3, <2>1, <2>2 DEF Resolve
    <2>3. CASE /\ disposition \in Refusals
               /\ \E recovery : RestoreCommit(id, recovery, disposition)
      <3>1. /\ pending_actions' = Without(pending_actions, {id})
            /\ UNCHANGED <<next_action_id, platform_composition_active>>
        BY <2>3 DEF RestoreCommit, host
      <3>2. disposition # "Applied"
        BY <2>3 DEF Refusals
      <3>. QED
        BY <1>1, <1>3, <2>1, <3>1, <3>2 DEF CompositionActiveAfter
    <2>. QED
      BY <1>3, <2>2, <2>3 DEF AcknowledgeAction, AcknowledgePending
  <1>. QED
    BY <1>2, <1>3

-----------------------------------------------------------------------------
(* Steps.                                                                  *)

\* An event, whose action the host receives.
LEMMA HostEventStep ==
    ASSUME HInv, HostEvent
    PROVE  HInv'
  <1>1. /\ LInv /\ HostTypes /\ OutstandingIsInFlight
        /\ ProcessEvent /\ Received /\ UNCHANGED <<answers, shown>>
    BY DEF HInv, HostEvent, ReceiveResult
  <1>2. /\ LInv' /\ Issued \in {{}, {next_action_id}}
        /\ \A id \in Issued : id \in ActionId /\ pending_actions'[id] \in PendingAction
    BY <1>1, EventIssues
  <1>3. CASE Issued = {}
    <2>1. UNCHANGED todo /\ DOMAIN pending_actions' \subseteq DOMAIN pending_actions
      BY <1>1, <1>3 DEF Received, Issued
    <2>. QED
      BY <1>1, <1>2, <2>1 DEF HInv, HostTypes, OutstandingIsInFlight
  <1>4. CASE Issued = {next_action_id}
    <2>. DEFINE receipt == Delivered(next_action_id)
    <2>1. todo' = Append(todo, receipt)
      <3>1. (CHOOSE id \in Issued : TRUE) = next_action_id
        BY <1>4
      <3>. QED
        BY <1>1, <1>4, <3>1 DEF Received, Issued
    <2>2. receipt \in Receipt /\ receipt.id = next_action_id
      BY <1>2, <1>4 DEF Delivered, Receipt, PendingAction
    <2>. HIDE DEF receipt
    <2>3. HostTypes'
      BY <1>1, <2>1, <2>2 DEF HostTypes
    <2>4. Queued' = Queued \cup {receipt}
      BY <1>1, <2>1, QueueGrows
    <2>5. DOMAIN pending_actions' \subseteq DOMAIN pending_actions \cup {next_action_id}
      BY <1>4 DEF Issued
    <2>6. OutstandingIsInFlight'
      <3>1. \A id \in DOMAIN pending_actions' :
              \/ \E q \in Queued' : q.id = id
              \/ \E answer \in answers' : answer.id = id
        BY <1>1, <2>2, <2>4, <2>5, QueuedFacts DEF OutstandingIsInFlight
      <3>. QED
        BY <3>1 DEF OutstandingIsInFlight, Queued
    <2>. QED
      BY <1>2, <2>3, <2>6 DEF HInv
  <1>. QED
    BY <1>2, <1>3, <1>4

\* The performing of the first action received.
LEMMA PerformStep ==
    ASSUME HInv, NEW disposition \in HostDispositions, Perform(disposition)
    PROVE  HInv'
  <1>. DEFINE answer == [id |-> Head(todo).id, disposition |-> disposition]
  <1>1. /\ LInv /\ HostTypes /\ OutstandingIsInFlight
        /\ todo # <<>> /\ todo' = Tail(todo) /\ UNCHANGED vars
        /\ answers' = answers \cup {answer}
        /\ shown' = ShownAfter(Head(todo).kind, disposition)
    BY DEF HInv, Perform
  <1>2. /\ Queued = Queued' \cup {Head(todo)}
        /\ todo' \in Seq(Receipt) /\ Head(todo) \in Receipt
    BY <1>1, QueueShrinks
  <1>3. LInv'
    BY <1>1, NextLedger
  <1>4. HostTypes'
    <2>1. answer \in [id : ActionId, disposition : HostDispositions]
      BY <1>2 DEF Receipt
    <2>2. shown' \in BOOLEAN
      BY <1>1 DEF HostTypes, ShownAfter
    <2>. QED
      BY <1>1, <1>2, <2>1, <2>2 DEF HostTypes
  <1>5. OutstandingIsInFlight'
    <2>1. \A id \in DOMAIN pending_actions' :
            \/ \E q \in Queued' : q.id = id
            \/ \E a \in answers' : a.id = id
      <3>1. pending_actions' = pending_actions
        BY <1>1 DEF vars, ledger
      <3>2. \A id \in DOMAIN pending_actions :
              (\E q \in Queued : q.id = id) \/ (\E a \in answers : a.id = id)
        BY <1>1, QueuedFacts DEF OutstandingIsInFlight
      <3>3. answer.id = Head(todo).id /\ answer \in answers'
        BY <1>1
      <3>. HIDE DEF answer
      <3>. QED
        BY <1>1, <1>2, <3>1, <3>2, <3>3
    <2>. QED
      BY <2>1 DEF OutstandingIsInFlight, Queued
  <1>. QED
    BY <1>3, <1>4, <1>5 DEF HInv

\* The arrival of an acknowledgement, which may be kept to be sent again.
LEMMA ArrivalStep ==
    ASSUME HInv, NEW answer \in answers, AcknowledgeAction(answer.id, answer.disposition),
           answers' = answers \/ answers' = answers \ {answer}, UNCHANGED <<todo, shown>>
    PROVE  HInv'
  <1>1. /\ LInv /\ HostTypes /\ OutstandingIsInFlight
        /\ answer.id \in ActionId /\ answer.disposition \in HostDispositions
    BY DEF HInv, HostTypes
  <1>2. LInv' /\ DOMAIN pending_actions' = DOMAIN pending_actions \ {answer.id}
    BY <1>1, Acknowledged
  <1>3. HostTypes'
    BY <1>1 DEF HostTypes
  <1>4. OutstandingIsInFlight'
    BY <1>1, <1>2 DEF OutstandingIsInFlight
  <1>. QED
    BY <1>2, <1>3, <1>4 DEF HInv

\* A step of neither.
LEMMA HostStutter ==
    ASSUME HInv, UNCHANGED allVars
    PROVE  HInv'
  <1>1. UNCHANGED vars /\ UNCHANGED hostVars
    BY DEF allVars
  <1>2. LInv'
    BY <1>1, NextLedger DEF HInv
  <1>. QED
    BY <1>1, <1>2 DEF HInv, HostTypes, OutstandingIsInFlight, hostVars, vars, ledger

LEMMA HostStep == HInv /\ [HostNext]_allVars => HInv'
  BY HostEventStep, PerformStep, ArrivalStep, HostStutter
     DEF HostNext, Deliver, DeliverAndRepeat, hostVars

\* A host does not change its discipline.
LEMMA DisciplineKept == [HostNext]_allVars => discipline' = discipline
  BY DEF HostNext, HostEvent, ReceiveResult, Perform, Deliver, DeliverAndRepeat, hostVars, allVars

LEMMA HostStart == HostInit => HInv
  <1>1. HostInit => HostTypes
    BY EmptySeq DEF HostInit, HostTypes
  <1>2. HostInit => OutstandingIsInFlight
    BY DEF HostInit, Init, OutstandingIsInFlight
  <1>. QED
    BY <1>1, <1>2, InitLedger DEF HostInit, HInv

\* Whatever the host does, and however late, often or out of order its acknowledgements
\* arrive, an action the session waits for is one the host has still to perform or whose
\* acknowledgement is on the way.
THEOREM OutstandingAlwaysInFlight == HostSpec => []OutstandingIsInFlight
  <1>1. HInv => OutstandingIsInFlight
    BY DEF HInv
  <1>. QED
    BY <1>1, HostStart, HostStep, PTL DEF HostSpec

-----------------------------------------------------------------------------
(* A host that settles each action before the next event.                  *)

\* Only an acknowledgement changes what the session believes of the host's text.
LEMMA BeliefKept ==
    ASSUME ProcessEvent
    PROVE  platform_composition_active' = platform_composition_active
  <1>1. \A outcome : Answer(outcome) => UNCHANGED platform_composition_active
    BY DEF Answer, host
  <1>2. \A edited : CompositionEdit(edited) => UNCHANGED platform_composition_active
    BY DEF CompositionEdit, host
  <1>3. \A text : CommitText(text) => UNCHANGED platform_composition_active
    BY DEF CommitText, host
  <1>4. cancel => UNCHANGED platform_composition_active
    BY <1>1 DEF cancel, host
  <1>5. \A count : backspace(count) => UNCHANGED platform_composition_active
    BY <1>1, <1>2 DEF backspace, host
  <1>6. \/ \E text : insert_text(text)
        \/ \E count : delete_forward(count)
        \/ \E delta : move_composition_cursor(delta)
        \/ commit
        => UNCHANGED platform_composition_active
    BY <1>1, <1>2, <1>3 DEF insert_text, delete_forward, move_composition_cursor, commit
  <1>7. \A event : HardwareKey(event) => UNCHANGED platform_composition_active
    BY <1>1, <1>4, <1>5, <1>6 DEF HardwareKey
  <1>8. \A id, revision : SelectCandidate(id, revision) => UNCHANGED platform_composition_active
    BY <1>1, <1>3 DEF SelectCandidate
  <1>9. \A delta : MoveCandidateSelection(delta) => UNCHANGED platform_composition_active
    BY <1>1 DEF MoveCandidateSelection, host
  <1>10. \A raw : ContextChanged(raw) => UNCHANGED platform_composition_active
    BY <1>1 DEF ContextChanged, host
  <1>11. Reset \/ UnsupportedEvent \/ InputSequenceExhausted
           => UNCHANGED platform_composition_active
    BY <1>1 DEF Reset, UnsupportedEvent, InputSequenceExhausted, host
  <1>. QED
    BY <1>4, <1>5, <1>6, <1>7, <1>8, <1>9, <1>10, <1>11
       DEF ProcessEvent, InsertText, Backspace, DeleteForward, MoveCompositionCursor,
           Commit, Cancel

\* One action at a time is on its way, and what becomes of it is all the session's
\* belief lacks.
InStep ==
    \/ Settled /\ (shown <=> platform_composition_active)
    \/ /\ answers = {} /\ Len(todo) = 1
       /\ todo[1].id \in DOMAIN pending_actions
       /\ pending_actions[todo[1].id].kind = todo[1].kind
       /\ shown <=> platform_composition_active
    \/ /\ todo = <<>>
       /\ \E answer \in answers :
            /\ answers = {answer}
            /\ answer.id \in DOMAIN pending_actions
            /\ shown <=> CompositionActiveAfter(pending_actions[answer.id].kind,
                                               answer.disposition)

\* An event comes when nothing is on its way, and puts at most one action there.
LEMMA HostEventInStep ==
    ASSUME HInv, InStep, Synchronous, HostEvent
    PROVE  InStep'
  <1>1. /\ LInv /\ todo = <<>> /\ answers = {}
        /\ ProcessEvent /\ Received /\ UNCHANGED <<answers, shown>>
    BY DEF HInv, HostEvent, MayCall, ReceiveResult, Settled
  <1>2. shown <=> platform_composition_active
    BY <1>1 DEF InStep, Settled
  <1>3. shown' <=> platform_composition_active'
    BY <1>1, <1>2, BeliefKept
  <1>4. CASE Issued = {}
    BY <1>1, <1>3, <1>4 DEF Received, Issued, InStep, Settled
  <1>5. CASE Issued # {}
    <2>1. PICK id \in DOMAIN pending_actions' : todo' = Append(todo, Delivered(id))
      BY <1>1, <1>5 DEF Received, Issued
    <2>2. todo' = <<Delivered(id)>>
      BY <1>1, <2>1
    <2>3. Len(todo') = 1 /\ todo'[1] = Delivered(id)
      BY <2>2
    <2>. QED
      BY <1>1, <1>3, <2>1, <2>3 DEF Delivered, InStep
  <1>. QED
    BY <1>4, <1>5

\* The host's text becomes what the session will believe.
LEMMA PerformInStep ==
    ASSUME HInv, InStep, NEW disposition \in HostDispositions, Perform(disposition)
    PROVE  InStep'
  <1>. DEFINE answer == [id |-> todo[1].id, disposition |-> disposition]
  <1>1. /\ todo \in Seq(Receipt) /\ todo # <<>> /\ UNCHANGED vars
        /\ todo' = Tail(todo) /\ Head(todo) = todo[1]
        /\ shown' = ShownAfter(todo[1].kind, disposition)
        /\ answers' = answers \cup {answer}
    BY DEF HInv, HostTypes, Perform
  <1>2. /\ answers = {} /\ Len(todo) = 1
        /\ todo[1].id \in DOMAIN pending_actions
        /\ pending_actions[todo[1].id].kind = todo[1].kind
        /\ shown <=> platform_composition_active
    BY <1>1 DEF InStep, Settled
  <1>3. todo' = <<>> /\ todo[1].kind \in Kinds
    <2>1. todo' \in Seq(Receipt) /\ Len(todo') = 0 /\ todo[1] \in Receipt
      BY <1>1, <1>2
    <2>. QED
      BY <2>1, EmptySeq DEF Receipt
  <1>4. shown' <=> CompositionActiveAfter(todo[1].kind, disposition)
    BY <1>1, <1>2, <1>3 DEF ShownAfter, CompositionActiveAfter, Kinds
  <1>5. UNCHANGED <<pending_actions, platform_composition_active>>
    BY <1>1 DEF vars, ledger, host
  <1>6. /\ answers' = {answer} /\ answer \in answers'
        /\ answer.id = todo[1].id /\ answer.disposition = disposition
    BY <1>1, <1>2
  <1>. HIDE DEF answer
  <1>7. /\ answer.id \in DOMAIN pending_actions'
        /\ pending_actions'[answer.id].kind = todo[1].kind
    BY <1>2, <1>5, <1>6
  <1>8. shown' <=> CompositionActiveAfter(pending_actions[answer.id].kind, disposition)
    BY <1>2, <1>4, <1>6
  <1>9. shown' <=> (IF disposition # "Applied" THEN platform_composition_active'
                     ELSE CASE pending_actions'[answer.id].kind = "SetCompositionText" -> TRUE
                            [] pending_actions'[answer.id].kind
                                 \in {"CancelComposition", "CommitText",
                                      "RequestPlatformReset"} -> FALSE
                            [] pending_actions'[answer.id].kind = "DeleteBackward"
                                 -> platform_composition_active')
    BY <1>5, <1>8 DEF CompositionActiveAfter
  <1>. QED
    BY <1>3, <1>6, <1>7, <1>9 DEF InStep, CompositionActiveAfter

\* With the acknowledgement the session believes what the host's text has become.
LEMMA DeliverInStep ==
    ASSUME HInv, InStep, NEW answer \in answers, Deliver(answer)
    PROVE  InStep'
  <1>1. /\ LInv /\ answer.id \in ActionId /\ answer.disposition \in HostDispositions
        /\ AcknowledgeAction(answer.id, answer.disposition)
        /\ answers' = answers \ {answer} /\ UNCHANGED <<todo, shown>>
    BY DEF HInv, HostTypes, Deliver
  <1>2. /\ todo = <<>> /\ answers = {answer}
        /\ answer.id \in DOMAIN pending_actions
        /\ shown <=> CompositionActiveAfter(pending_actions[answer.id].kind,
                                           answer.disposition)
    BY DEF InStep, Settled
  <1>3. platform_composition_active' =
          CompositionActiveAfter(pending_actions[answer.id].kind, answer.disposition)
    BY <1>1, <1>2, Acknowledged
  <1>. QED
    BY <1>1, <1>2, <1>3 DEF InStep, Settled

\* The session's belief about the text a synchronous host shows is the truth whenever
\* nothing is on its way, whatever the host refused and the session superseded before.
THEOREM SynchronousHostInStep == HostSpec => []HostInStep
  <1>1. HostInit => (Synchronous => InStep)
    BY DEF HostInit, Init, InStep, Settled
  <1>2. HInv /\ (Synchronous => InStep) /\ [HostNext]_allVars => (Synchronous => InStep)'
    <2>. SUFFICES ASSUME HInv, Synchronous => InStep, [HostNext]_allVars, Synchronous'
                  PROVE  InStep'
      OBVIOUS
    <2>. Synchronous /\ InStep
      BY DisciplineKept DEF Synchronous
    <2>1. CASE UNCHANGED allVars
      BY <2>1 DEF allVars, hostVars, vars, ledger, host, InStep, Settled,
         CompositionActiveAfter
    <2>2. CASE HostNext
      BY <2>2, HostEventInStep, PerformInStep, DeliverInStep
         DEF HostNext, DeliverAndRepeat
    <2>. QED
      BY <2>1, <2>2
  <1>3. HInv /\ (Synchronous => InStep) => HostInStep
    <2>1. HInv => shown \in BOOLEAN /\ platform_composition_active \in BOOLEAN
      BY DEF HInv, HostTypes, LInv, IInv, RestSound
    <2>. QED
      BY <2>1 DEF InStep, HostInStep, Settled
  <1>. QED
    BY <1>1, <1>2, <1>3, HostStart, HostStep, PTL DEF HostSpec

-----------------------------------------------------------------------------
(* A host that performs everything it is asked and acknowledges in order.  *)

\* What changes the marked text, of a set of actions.
Marks(S) == {a \in S : a.kind # "DeleteBackward"}

\* Whether there is marked text after the actions of S, in the order of their
\* identifiers: the last one decides.
LastShows(S, before) ==
    IF Marks(S) = {} THEN before
    ELSE \E a \in Marks(S) : /\ a.kind = "SetCompositionText"
                            /\ \A b \in Marks(S) : b.id <= a.id

Waiting == {[id |-> id, kind |-> pending_actions[id].kind] : id \in DOMAIN pending_actions}

\* Performing all that is queued leaves the text the session will believe in once all
\* it waits for has been acknowledged, although more is queued than it waits for.
Understood ==
    next_action_id < U64Max =>
        (LastShows(Queued, shown) <=> LastShows(Waiting, platform_composition_active))

\* What is queued was issued, in this order, after all that has been performed.
Ordered ==
    /\ \A i, j \in DOMAIN todo : i < j => todo[i].id < todo[j].id
    /\ \A i \in DOMAIN todo : todo[i].id < next_action_id
    /\ \A a \in answers : /\ a.id < next_action_id
                         /\ \A i \in DOMAIN todo : a.id < todo[i].id

\* A host that refuses nothing: every revision is the work of an event.
Paced == state_revision <= input_sequence

\* It has refused nothing.
AllApplied == \A a \in answers : a.disposition = "Applied"

AInv == HInv /\ Ordered /\ Understood /\ Paced /\ AllApplied

\* The first action done, the others decide.
LEMMA TakeFirst ==
    ASSUME NEW S, NEW first \in S, NEW before, NEW after,
           \A a \in S : a.id \in Int,
           \A a \in S \ {first} : first.id < a.id,
           after <=> IF first.kind = "DeleteBackward" THEN before
                     ELSE first.kind = "SetCompositionText"
    PROVE  LastShows(S \ {first}, after) <=> LastShows(S, before)
  <1>1. CASE first.kind = "DeleteBackward"
    <2>1. Marks(S \ {first}) = Marks(S)
      BY <1>1 DEF Marks
    <2>. QED
      BY <1>1, <2>1 DEF LastShows
  <1>2. CASE first.kind # "DeleteBackward"
    <2>1. Marks(S) = Marks(S \ {first}) \cup {first} /\ first \notin Marks(S \ {first})
      BY <1>2 DEF Marks
    <2>2. CASE Marks(S \ {first}) = {}
      <3>1. Marks(S) = {first} /\ first.id <= first.id
        BY <2>1, <2>2
      <3>2. LastShows(S, before) <=> first.kind = "SetCompositionText"
        BY <3>1 DEF LastShows
      <3>. QED
        BY <1>2, <2>2, <3>2 DEF LastShows
    <2>3. CASE Marks(S \ {first}) # {}
      <3>1. PICK other \in Marks(S \ {first}) : TRUE
        BY <2>3
      <3>2. \A a \in Marks(S \ {first}) : a.id \in Int /\ first.id \in Int /\ first.id < a.id
        BY DEF Marks
      <3>3. \A a \in Marks(S) : (\A b \in Marks(S) : b.id <= a.id) <=>
              a \in Marks(S \ {first}) /\ \A b \in Marks(S \ {first}) : b.id <= a.id
        <4>. SUFFICES ASSUME NEW a \in Marks(S)
                      PROVE  (\A b \in Marks(S) : b.id <= a.id) <=>
                               /\ a \in Marks(S \ {first})
                               /\ \A b \in Marks(S \ {first}) : b.id <= a.id
          OBVIOUS
        <4>1. CASE a = first
          <5>1. other \in Marks(S) /\ ~(other.id <= first.id)
            BY <2>1, <3>1, <3>2
          <5>. QED
            BY <2>1, <4>1, <5>1
        <4>2. CASE a # first
          BY <2>1, <3>2, <4>2
        <4>. QED
          BY <4>1, <4>2
      <3>. QED
        BY <2>1, <2>3, <3>3 DEF LastShows
    <2>. QED
      BY <2>2, <2>3
  <1>. QED
    BY <1>1, <1>2

\* An action put last decides, unless it is a deletion.
LEMMA PutLast ==
    ASSUME NEW S, NEW last, NEW before, last.id \in Int,
           \A a \in S : a.id \in Int /\ a.id < last.id
    PROVE  LastShows(S \cup {last}, before) <=>
             IF last.kind = "DeleteBackward" THEN LastShows(S, before)
             ELSE last.kind = "SetCompositionText"
  <1>1. CASE last.kind = "DeleteBackward"
    <2>1. Marks(S \cup {last}) = Marks(S)
      BY <1>1 DEF Marks
    <2>. QED
      BY <1>1, <2>1 DEF LastShows
  <1>2. CASE last.kind # "DeleteBackward"
    <2>1. Marks(S \cup {last}) = Marks(S) \cup {last}
      BY <1>2 DEF Marks
    <2>2. \A a \in Marks(S) : a.id \in Int /\ a.id < last.id
      BY DEF Marks
    <2>3. \A a \in Marks(S) \cup {last} :
            (\A b \in Marks(S) \cup {last} : b.id <= a.id) <=> a = last
      BY <2>2
    <2>. QED
      BY <1>2, <2>1, <2>3 DEF LastShows
  <1>. QED
    BY <1>1, <1>2

-----------------------------------------------------------------------------
(* What an event does to what the session waits for.                       *)

\* It waits for the same; or for one more, which decides unless it superseded nothing;
\* or for nothing any more, having neither seen nor asked for marked text.  (When the
\* identifiers run out it may forget without asking.)
Change ==
    \/ next_action_id' = U64Max
    \/ Issued = {} /\ Waiting' = Waiting
    \/ \E superseded :
          /\ Issued = {next_action_id}
          /\ Waiting' = (Waiting \ superseded)
                          \cup {[id |-> next_action_id,
                                 kind |-> pending_actions'[next_action_id].kind]}
          /\ pending_actions'[next_action_id].kind = "DeleteBackward" => superseded = {}
    \/ /\ Issued = {} /\ Waiting' = {}
       /\ ~platform_composition_active /\ CompositionUpdates = {}

Effect == state_revision' <= state_revision + 1 /\ Change

\* What is left of the ledger is waited for as before.
LEMMA WaitingKept ==
    ASSUME LInv, NEW ids, pending_actions' = Without(Live, ids),
           DOMAIN pending_actions' = DOMAIN pending_actions
    PROVE  Change
  <1>1. \A id \in DOMAIN pending_actions : pending_actions'[id].kind = pending_actions[id].kind
    <2>1. \A id \in DOMAIN pending_actions : pending_actions'[id] = Live[id]
      BY DEF Without, Restrict
    <2>2. \A id \in DOMAIN pending_actions : Live[id].kind = pending_actions[id].kind
      BY LiveFacts DEF LInv, IInv, LedgerSound
    <2>. QED
      BY <2>1, <2>2
  <1>2. Waiting' = Waiting
    BY <1>1 DEF Waiting
  <1>. QED
    BY <1>2 DEF Change, Issued

\* A call that only answers.
LEMMA AnswerChange ==
    ASSUME LInv, NEW outcome, Answer(outcome)
    PROVE  Effect
  <1>1. DOMAIN Live = DOMAIN pending_actions /\ Live = Without(Live, {})
    BY DEF Live, Without, Restrict
  <1>2. Change
    BY <1>1, WaitingKept DEF Answer
  <1>3. state_revision' = state_revision /\ state_revision \in Int
    BY SessionAssumption DEF Answer, LInv, IInv, RestSound, Revision
  <1>. QED
    BY <1>2, <1>3 DEF Effect

\* An action issued in the place of others.
LEMMA AllocateChange ==
    ASSUME LInv, NEW ids, NEW action, Allocate(Without(Live, ids), action),
           action.kind = "DeleteBackward" => ids = {}
    PROVE  Change
  <1>. DEFINE actions == Without(Live, ids)
              superseded == {[id |-> id, kind |-> pending_actions[id].kind]
                               : id \in DOMAIN pending_actions \cap ids}
              issued == [id |-> next_action_id, kind |-> action.kind]
  <1>1. /\ DOMAIN actions = DOMAIN pending_actions \ ids
        /\ \A id \in DOMAIN actions : actions[id].kind = pending_actions[id].kind
    <2>1. \A id \in DOMAIN actions : actions[id] = Live[id]
      BY DEF Without, Restrict
    <2>2. \A id \in DOMAIN pending_actions : Live[id].kind = pending_actions[id].kind
      BY LiveFacts DEF LInv, IInv, LedgerSound
    <2>. QED
      BY <2>1, <2>2, LiveWithout
  <1>2. next_action_id \notin DOMAIN pending_actions
    BY LedgerFinite DEF LInv
  <1>3. CASE next_action_id = U64Max
    BY <1>3 DEF Allocate, Change
  <1>4. CASE next_action_id # U64Max
    <2>1. pending_actions' = [id \in DOMAIN actions \cup {next_action_id} |->
                                IF id = next_action_id THEN action ELSE actions[id]]
      BY <1>4 DEF Allocate
    <2>2. /\ DOMAIN pending_actions' = (DOMAIN pending_actions \ ids) \cup {next_action_id}
          /\ pending_actions'[next_action_id] = action
          /\ \A id \in DOMAIN pending_actions \ ids :
               pending_actions'[id].kind = pending_actions[id].kind
      BY <1>1, <1>2, <2>1
    <2>. HIDE DEF actions
    <2>3. Issued = {next_action_id}
      BY <1>2, <2>2 DEF Issued
    <2>4. Waiting' = (Waiting \ superseded) \cup {issued}
      <3>1. \A w \in Waiting' : w \in (Waiting \ superseded) \cup {issued}
        <4>. SUFFICES ASSUME NEW id \in DOMAIN pending_actions'
                      PROVE  [id |-> id, kind |-> pending_actions'[id].kind]
                               \in (Waiting \ superseded) \cup {issued}
          BY DEF Waiting
        <4>1. CASE id = next_action_id
          BY <2>2, <4>1
        <4>2. CASE id # next_action_id
          <5>1. id \in DOMAIN pending_actions /\ id \notin ids
            BY <2>2, <4>2
          <5>2. [id |-> id, kind |-> pending_actions[id].kind] \in Waiting
            BY <5>1 DEF Waiting
          <5>3. [id |-> id, kind |-> pending_actions[id].kind] \notin superseded
            BY <5>1
          <5>. QED
            BY <2>2, <5>1, <5>2, <5>3
        <4>. QED
          BY <4>1, <4>2
      <3>2. \A w \in Waiting \ superseded : w \in Waiting'
        <4>. SUFFICES ASSUME NEW id \in DOMAIN pending_actions,
                             [id |-> id, kind |-> pending_actions[id].kind] \notin superseded
                      PROVE  [id |-> id, kind |-> pending_actions[id].kind] \in Waiting'
          BY DEF Waiting
        <4>1. id \notin ids
          OBVIOUS
        <4>. QED
          BY <2>2, <4>1 DEF Waiting
      <3>3. issued \in Waiting'
        BY <2>2 DEF Waiting
      <3>. QED
        BY <3>1, <3>2, <3>3
    <2>5. action.kind = "DeleteBackward" => superseded = {}
      OBVIOUS
    <2>. HIDE DEF superseded
    <2>. QED
      BY <2>2, <2>3, <2>4, <2>5 DEF Change
  <1>. QED
    BY <1>3, <1>4

\* An edit: what it supersedes it replaces.
LEMMA EditChange ==
    ASSUME LInv, ~Exhausted, NEW edited, CompositionEdit(edited)
    PROVE  Effect
  <1>. DEFINE actions == Without(Live, SupersededByEdit)
              update  == CompositionUpdate(edited, state_revision + 1)
  <1>1. SupersededByEdit \in SUBSET DOMAIN pending_actions /\ state_revision \in Int
    BY EditSupersedes, SessionAssumption DEF LInv, IInv, RestSound, Revision
  <1>2. CASE MarkedText /\ Full(actions)
    <2>1. pending_actions' = actions /\ state_revision' = state_revision
      BY <1>2 DEF CompositionEdit
    <2>2. DOMAIN pending_actions' = DOMAIN pending_actions
      BY <1>1, <1>2, <2>1, FullIsQuiet
    <2>. QED
      BY <1>1, <2>1, <2>2, WaitingKept DEF Effect
  <1>3. CASE MarkedText /\ ~Full(actions)
    <2>1. state_revision' = state_revision + 1 /\ Allocate(actions, update)
      BY <1>3 DEF CompositionEdit
    <2>2. update.kind # "DeleteBackward"
      BY DEF CompositionUpdate, PlainAction, Action
    <2>3. Change
      BY <2>1, <2>2, AllocateChange
    <2>. QED
      BY <1>1, <2>1, <2>3 DEF Effect
  <1>4. CASE ~MarkedText
    <2>1. state_revision' = state_revision + 1 /\ pending_actions' = actions
      BY <1>4 DEF CompositionEdit
    <2>2. DOMAIN pending_actions' = DOMAIN pending_actions
      BY <1>4, <2>1, LiveWithout DEF SupersededByEdit
    <2>. QED
      BY <1>1, <2>1, <2>2, WaitingKept DEF Effect
  <1>. QED
    BY <1>2, <1>3, <1>4

\* A commit: it ends whatever marked text there was.
LEMMA CommitChange ==
    ASSUME LInv, ~Exhausted, NEW text, CommitText(text)
    PROVE  Effect
  <1>. DEFINE actions == Without(Live, CompositionUpdates)
  <1>1. CompositionUpdates \in SUBSET DOMAIN pending_actions /\ state_revision \in Int
    BY Updates, SessionAssumption DEF LInv, IInv, RestSound, Revision
  <1>2. CASE Full(actions)
    <2>1. pending_actions' = actions /\ state_revision' = state_revision
      BY <1>2 DEF CommitText
    <2>2. DOMAIN pending_actions' = DOMAIN pending_actions
      BY <1>1, <1>2, <2>1, FullIsQuiet
    <2>. QED
      BY <1>1, <2>1, <2>2, WaitingKept DEF Effect
  <1>3. CASE ~Full(actions)
    <2>1. PICK recovery, revision :
            /\ state_revision' = state_revision + 1
            /\ Allocate(actions, Action("CommitText", text, 0, revision, {recovery}))
      BY <1>3 DEF CommitText
    <2>2. Change
      BY <2>1, AllocateChange DEF Action
    <2>. QED
      BY <1>1, <2>1, <2>2 DEF Effect
  <1>. QED
    BY <1>2, <1>3

\* The cancelling of a composition: the host is told of it unless it has no marked text.
LEMMA CancelChange ==
    ASSUME LInv, ~Exhausted, cancel
    PROVE  Effect
  <1>. DEFINE actions == Without(Live, CompositionUpdates)
  <1>1. CompositionUpdates \in SUBSET DOMAIN pending_actions /\ state_revision \in Int
    BY Updates, SessionAssumption DEF LInv, IInv, RestSound, Revision
  <1>2. CASE phase = "Idle"
    BY <1>2, AnswerChange DEF cancel
  <1>3. CASE phase # "Idle" /\ HostMayHaveComposition /\ Full(actions)
    <2>1. pending_actions' = actions /\ state_revision' = state_revision
      BY <1>3 DEF cancel
    <2>2. DOMAIN pending_actions' = DOMAIN pending_actions
      BY <1>1, <1>3, <2>1, FullIsQuiet
    <2>. QED
      BY <1>1, <2>1, <2>2, WaitingKept DEF Effect
  <1>4. CASE /\ phase # "Idle" /\ ~(HostMayHaveComposition /\ Full(actions))
             /\ MarkedText /\ HostMayHaveComposition
    <2>1. /\ state_revision' = state_revision + 1
          /\ Allocate(actions, PlainAction("CancelComposition", state_revision + 1))
      BY <1>4 DEF cancel
    <2>2. Change
      BY <2>1, AllocateChange DEF PlainAction, Action
    <2>. QED
      BY <1>1, <2>1, <2>2 DEF Effect
  <1>5. CASE /\ phase # "Idle" /\ ~(HostMayHaveComposition /\ Full(actions))
             /\ ~(MarkedText /\ HostMayHaveComposition)
    <2>1. state_revision' = state_revision + 1 /\ pending_actions' = actions
      BY <1>5 DEF cancel
    <2>2. CompositionUpdates = {}
      BY <1>5 DEF HostMayHaveComposition, CompositionUpdates, OfKind, LInv, IInv,
         LedgerSound, UpdatesCurrent
    <2>3. DOMAIN pending_actions' = DOMAIN pending_actions
      BY <2>1, <2>2, LiveWithout
    <2>. QED
      BY <1>1, <2>1, <2>3, WaitingKept DEF Effect
  <1>. QED
    BY <1>2, <1>3, <1>4, <1>5

\* A deletion.
LEMMA BackspaceChange ==
    ASSUME LInv, ~Exhausted, NEW count, backspace(count)
    PROVE  Effect
  <1>1. CASE phase # "Idle"
    BY <1>1, AnswerChange, EditChange DEF backspace
  <1>2. CASE phase = "Idle"
    <2>1. state_revision' = state_revision /\ state_revision \in Int
      BY <1>2, SessionAssumption DEF backspace, LInv, IInv, RestSound, Revision
    <2>2. Live = Without(Live, {}) /\ DOMAIN Live = DOMAIN pending_actions
      BY DEF Live, Without, Restrict
    <2>3. \/ pending_actions' = Live
          \/ Allocate(Live, PlainAction("DeleteBackward", state_revision))
      BY <1>2 DEF backspace
    <2>4. Change
      BY <2>2, <2>3, WaitingKept, AllocateChange
    <2>. QED
      BY <2>1, <2>4 DEF Effect
  <1>. QED
    BY <1>1, <1>2

\* An event that changes neither the ledger nor the text.
LEMMA LiveChange ==
    ASSUME LInv, pending_actions' = Live,
           state_revision' \in {state_revision, state_revision + 1}
    PROVE  Effect
  <1>1. DOMAIN Live = DOMAIN pending_actions /\ Live = Without(Live, {})
    BY DEF Live, Without, Restrict
  <1>2. Change
    BY <1>1, WaitingKept
  <1>3. state_revision \in Int
    BY SessionAssumption DEF LInv, IInv, RestSound, Revision
  <1>. QED
    BY <1>2, <1>3 DEF Effect

\* process_reset: everything is superseded, for a reset or for nothing.
LEMMA ResetChange ==
    ASSUME LInv, ~Exhausted, Reset
    PROVE  Effect
  <1>1. state_revision' <= state_revision + 1
    BY SessionAssumption DEF Reset, LInv, IInv, RestSound, Revision
  <1>2. CASE HostMayHaveComposition
    <2>1. PICK revision : Allocate(<<>>, PlainAction("RequestPlatformReset", revision))
      BY <1>2 DEF Reset
    <2>2. <<>> = Without(Live, DOMAIN pending_actions)
      <3>1. DOMAIN Without(Live, DOMAIN pending_actions) = {}
        BY LiveWithout
      <3>2. Without(Live, DOMAIN pending_actions) = [x \in {} |-> Live[x]]
        BY LiveWithout DEF Without, Restrict, Live
      <3>. QED
        BY <3>2
    <2>3. Change
      BY <2>1, <2>2, AllocateChange DEF PlainAction, Action
    <2>. QED
      BY <1>1, <2>3 DEF Effect
  <1>3. CASE ~HostMayHaveComposition
    <2>1. pending_actions' = <<>>
      BY <1>3 DEF Reset
    <2>2. Issued = {} /\ Waiting' = {}
      BY <2>1 DEF Issued, Waiting
    <2>. QED
      BY <1>1, <1>3, <2>2 DEF Effect, Change, HostMayHaveComposition
  <1>. QED
    BY <1>2, <1>3

\* Every event.
LEMMA EventChange ==
    ASSUME LInv, Paced, ProcessEvent
    PROVE  Change /\ Paced'
  <1>0. state_revision \in Int /\ input_sequence \in Int /\ U64Max \in Int
    BY SessionAssumption DEF LInv, IInv, RestSound, Revision
  <1>1. CASE InputSequenceExhausted
    <2>1. UNCHANGED <<pending_actions, state_revision, input_sequence>>
      BY <1>1 DEF InputSequenceExhausted, ledger
    <2>. QED
      BY <2>1 DEF Change, Issued, Waiting, Paced
  <1>2. CASE BumpInputSequence /\ (~Exhausted => Effect)
    <2>1. state_revision' \in Int
      BY EventIssues, SessionAssumption DEF LInv, IInv, RestSound, Revision
    <2>2. ~Exhausted
      BY <1>0, <1>2 DEF BumpInputSequence, Paced, Exhausted
    <2>3. state_revision' <= state_revision + 1 /\ Change
      BY <1>2, <2>2 DEF Effect
    <2>4. Paced'
      BY <1>0, <1>2, <2>1, <2>3 DEF BumpInputSequence, Paced
    <2>. QED
      BY <2>3, <2>4
  <1>3. BumpInputSequence \/ InputSequenceExhausted
    BY DEF ProcessEvent, InsertText, Backspace, DeleteForward, MoveCompositionCursor,
       HardwareKey, Commit, Cancel, SelectCandidate, MoveCandidateSelection,
       ContextChanged, Reset, UnsupportedEvent
  <1>4. ASSUME ~Exhausted, ~InputSequenceExhausted PROVE Effect
    <2>1. \A text : insert_text(text) => Effect
      BY <1>4, AnswerChange, EditChange DEF insert_text
    <2>2. \A count : delete_forward(count) => Effect
      BY <1>4, AnswerChange, EditChange DEF delete_forward
    <2>3. \A delta : move_composition_cursor(delta) => Effect
      BY <1>4, AnswerChange, EditChange DEF move_composition_cursor
    <2>4. commit => Effect
      BY <1>4, AnswerChange, CommitChange DEF commit
    <2>5. \A event : HardwareKey(event) => Effect
      BY <1>4, <2>1, <2>2, <2>3, <2>4, AnswerChange, BackspaceChange, CancelChange
         DEF HardwareKey
    <2>6. \A id, revision : SelectCandidate(id, revision) => Effect
      BY <1>4, AnswerChange, CommitChange DEF SelectCandidate
    <2>7. \A delta : MoveCandidateSelection(delta) => Effect
      BY AnswerChange, LiveChange DEF MoveCandidateSelection
    <2>8. \A raw : ContextChanged(raw) => Effect
      BY AnswerChange, LiveChange DEF ContextChanged
    <2>9. UnsupportedEvent => Effect
      BY AnswerChange DEF UnsupportedEvent
    <2>. QED
      BY <1>4, <2>1, <2>2, <2>3, <2>4, <2>5, <2>6, <2>7, <2>8, <2>9, BackspaceChange,
         CancelChange, ResetChange
         DEF ProcessEvent, InsertText, Backspace, DeleteForward, MoveCompositionCursor,
             Commit, Cancel
  <1>. QED
    BY <1>1, <1>2, <1>3, <1>4

-----------------------------------------------------------------------------
(* Steps of a host that acknowledges in order.                             *)

\* Types of what the order is about.
LEMMA OrderTypes ==
    ASSUME HInv
    PROVE  /\ next_action_id \in Int
           /\ \A i \in DOMAIN todo : todo[i] \in Receipt /\ todo[i].id \in Int
           /\ \A a \in answers : a.id \in Int
           /\ \A w \in Waiting : w.id \in Int /\ w.id < next_action_id
  <1>1. next_action_id \in Nat /\ DOMAIN pending_actions \subseteq 1..(next_action_id - 1)
    BY LedgerFinite DEF HInv, LInv
  <1>2. \A w \in Waiting : w.id \in DOMAIN pending_actions
    BY DEF Waiting
  <1>3. \A i \in DOMAIN todo : todo[i] \in Receipt /\ todo[i].id \in ActionId
    <2>1. \A i \in DOMAIN todo : todo[i] \in Receipt
      BY DEF HInv, HostTypes
    <2>. QED
      BY <2>1 DEF Receipt
  <1>4. \A a \in answers : a.id \in ActionId
    BY DEF HInv, HostTypes
  <1>. QED
    BY <1>1, <1>2, <1>3, <1>4, SessionAssumption DEF ActionId

\* An event brings one action at most, the next.
LEMMA EventReceived ==
    ASSUME HInv, HostEvent
    PROVE  /\ next_action_id \in Int /\ next_action_id' \in Int
           /\ next_action_id <= next_action_id'
           /\ \/ Issued = {} /\ UNCHANGED todo
              \/ /\ Issued = {next_action_id} /\ next_action_id < next_action_id'
                 /\ todo' = Append(todo, Delivered(next_action_id))
  <1>1. LInv /\ ProcessEvent /\ Received
    BY DEF HInv, HostEvent, ReceiveResult
  <1>2. PICK settled, d : Settles(settled, d)
    BY <1>1, ProcessEventLedger DEF LedgerKept
  <1>3. next_action_id \in Int
    BY OrderTypes
  <1>4. /\ next_action_id' \in Int /\ next_action_id <= next_action_id'
        /\ Issued # {} => Issued = {next_action_id} /\ next_action_id < next_action_id'
    BY <1>2, <1>3 DEF Settles, Issued
  <1>5. CASE Issued = {}
    BY <1>1, <1>3, <1>4, <1>5 DEF Received, Issued
  <1>6. CASE Issued # {}
    <2>1. (CHOOSE id \in Issued : TRUE) = next_action_id
      BY <1>4, <1>6
    <2>. QED
      BY <1>1, <1>3, <1>4, <1>6, <2>1 DEF Received, Issued
  <1>. QED
    BY <1>5, <1>6

\* What an event brings goes behind all that was issued before.
LEMMA EventOrdered ==
    ASSUME HInv, Ordered, HostEvent
    PROVE  Ordered'
  <1>. DEFINE receipt == Delivered(next_action_id)
  <1>1. /\ next_action_id \in Int /\ next_action_id' \in Int
        /\ next_action_id <= next_action_id' /\ UNCHANGED answers
    BY EventReceived DEF HostEvent, ReceiveResult
  <1>2. CASE UNCHANGED todo
    BY <1>1, <1>2, OrderTypes DEF Ordered
  <1>3. CASE next_action_id < next_action_id' /\ todo' = Append(todo, receipt)
    <2>1. receipt.id = next_action_id
      BY DEF Delivered
    <2>. HIDE DEF receipt
    <2>2. /\ Len(todo) \in Nat /\ DOMAIN todo = 1..Len(todo)
          /\ DOMAIN todo' = 1..(Len(todo) + 1)
          /\ \A i \in 1..Len(todo) : todo'[i] = todo[i]
          /\ todo'[Len(todo) + 1] = receipt
      BY <1>3 DEF HInv, HostTypes
    <2>3. \A i \in DOMAIN todo' : i \in DOMAIN todo \/ (i = Len(todo) + 1 /\ todo'[i] = receipt)
      BY <2>2
    <2>4. \A i \in DOMAIN todo' : todo'[i].id \in Int /\ todo'[i].id < next_action_id'
      BY <1>1, <1>3, <2>1, <2>2, <2>3, OrderTypes DEF Ordered
    <2>5. \A i, j \in DOMAIN todo' : i < j => todo'[i].id < todo'[j].id
      BY <1>1, <2>1, <2>2, <2>3, OrderTypes DEF Ordered
    <2>6. \A a \in answers' : /\ a.id < next_action_id'
                              /\ \A i \in DOMAIN todo' : a.id < todo'[i].id
      BY <1>1, <1>3, <2>1, <2>2, <2>3, OrderTypes DEF Ordered
    <2>. QED
      BY <2>4, <2>5, <2>6 DEF Ordered
  <1>. QED
    BY <1>2, <1>3, EventReceived

\* What is performed was issued before all that is left.
LEMMA PerformOrdered ==
    ASSUME HInv, Ordered, NEW disposition, Perform(disposition)
    PROVE  /\ Ordered'
           /\ Head(todo) = todo[1] /\ 1 \in DOMAIN todo /\ Head(todo) \in Receipt
           /\ Head(todo).id \in Int
           /\ \A i \in DOMAIN todo' : /\ i + 1 \in DOMAIN todo /\ todo'[i] = todo[i + 1]
                                      /\ todo'[i].id \in Int /\ Head(todo).id < todo'[i].id
           /\ \A a \in answers : a.id \in Int /\ a.id < Head(todo).id
  <1>. DEFINE first == Head(todo)
  <1>1. /\ HostTypes /\ UNCHANGED next_action_id
        /\ todo # <<>> /\ todo' = Tail(todo)
        /\ answers' = answers \cup {[id |-> first.id, disposition |-> disposition]}
    BY DEF HInv, Perform, vars, ledger
  <1>2. /\ DOMAIN todo = 1..Len(todo) /\ Len(todo) \in Nat \ {0}
        /\ first = todo[1]
        /\ DOMAIN todo' = 1..(Len(todo) - 1)
        /\ \A i \in DOMAIN todo' : i + 1 \in DOMAIN todo /\ todo'[i] = todo[i + 1]
    BY <1>1 DEF HostTypes
  <1>. HIDE DEF first
  <1>3. /\ first.id \in Int /\ first.id < next_action_id /\ first \in Receipt
        /\ \A i \in DOMAIN todo' : todo'[i].id \in Int /\ first.id < todo'[i].id
    BY <1>1, <1>2, OrderTypes DEF Ordered
  <1>4. 1 \in DOMAIN todo /\ \A a \in answers : a.id \in Int /\ a.id < first.id
    BY <1>2, OrderTypes DEF Ordered
  <1>5. Ordered'
    BY <1>1, <1>2, <1>3, OrderTypes DEF Ordered
  <1>. QED
    BY <1>2, <1>3, <1>4, <1>5 DEF first

\* An event.
LEMMA HostEventUnderstood ==
    ASSUME AInv, HostEvent
    PROVE  Ordered' /\ Understood' /\ Paced' /\ AllApplied'
  <1>1. /\ HInv /\ LInv /\ HostTypes /\ Ordered /\ Understood /\ Paced
        /\ ProcessEvent /\ Received /\ UNCHANGED <<answers, shown>>
    BY DEF AInv, HInv, HostEvent, ReceiveResult
  <1>0. AllApplied'
    BY <1>1 DEF AInv, AllApplied
  <1>2. Change /\ Paced'
    BY <1>1, EventChange
  <1>3. /\ next_action_id \in Int /\ next_action_id' \in Int
        /\ next_action_id <= next_action_id'
        /\ Issued # {} => /\ Issued = {next_action_id} /\ next_action_id < next_action_id'
                         /\ todo' = Append(todo, Delivered(next_action_id))
    BY <1>1, EventReceived
  <1>4. UNCHANGED platform_composition_active
    BY <1>1, BeliefKept
  <1>5. CASE Issued = {}
    <2>1. UNCHANGED todo
      BY <1>1, <1>5 DEF Received, Issued
    <2>2. Ordered'
      BY <1>1, EventOrdered
    <2>3. LastShows(Queued, shown)' <=> LastShows(Queued, shown)
      BY <1>1, <2>1 DEF Queued, LastShows, Marks
    <2>4. ASSUME Waiting' = Waiting PROVE Understood'
      <3>1. LastShows(Waiting, platform_composition_active)'
              <=> LastShows(Waiting, platform_composition_active)
        BY <1>4, <2>4 DEF LastShows, Marks
      <3>. QED
        BY <1>1, <1>3, <2>3, <3>1, SessionAssumption DEF Understood
    <2>5. ASSUME Waiting' = {}, ~platform_composition_active, CompositionUpdates = {}
          PROVE  Understood'
      <3>1. \A w \in Waiting : w.kind # "SetCompositionText"
        BY <2>5 DEF Waiting, CompositionUpdates, OfKind
      <3>2. ~LastShows(Waiting, platform_composition_active)
        BY <2>5, <3>1 DEF LastShows, Marks
      <3>3. ~LastShows(Waiting, platform_composition_active)'
        BY <1>4, <2>5 DEF LastShows, Marks
      <3>. QED
        BY <1>1, <1>3, <2>3, <3>2, <3>3, SessionAssumption DEF Understood
    <2>6. ASSUME next_action_id' = U64Max PROVE Understood'
      BY <2>6, SessionAssumption DEF Understood
    <2>7. \/ next_action_id' = U64Max
          \/ Waiting' = Waiting
          \/ Waiting' = {} /\ ~platform_composition_active /\ CompositionUpdates = {}
      <3>1. Issued # {next_action_id}
        BY <1>5
      <3>. QED
        BY <1>2, <3>1 DEF Change
    <2>8. Understood'
      BY <2>4, <2>5, <2>6, <2>7
    <2>. QED
      BY <1>0, <1>2, <2>2, <2>8
  <1>6. CASE Issued # {}
    <2>. DEFINE receipt == Delivered(next_action_id)
    <2>1. todo' = Append(todo, receipt)
      BY <1>3, <1>6
    <2>2. /\ receipt.id = next_action_id
          /\ receipt.kind = pending_actions'[next_action_id].kind
      BY DEF Delivered
    <2>. HIDE DEF receipt
    <2>3. Ordered'
      BY <1>1, EventOrdered
    <2>4. ASSUME next_action_id' < U64Max PROVE Understood'
      <3>1. PICK superseded :
              /\ Waiting' = (Waiting \ superseded)
                              \cup {[id |-> next_action_id, kind |-> receipt.kind]}
              /\ receipt.kind = "DeleteBackward" => superseded = {}
        <4>1. next_action_id' # U64Max
          BY <1>3, <2>4, SessionAssumption
        <4>. QED
          BY <1>2, <1>6, <2>2, <4>1 DEF Change
      <3>. DEFINE issued == [id |-> next_action_id, kind |-> receipt.kind]
      <3>2. Queued' = Queued \cup {receipt}
        BY <1>1, <2>1, QueueGrows
      <3>3. \A q \in Queued : q.id \in Int /\ q.id < receipt.id
        BY <1>1, <2>2, OrderTypes DEF Queued, Ordered
      <3>4. LastShows(Queued', shown) <=>
              IF receipt.kind = "DeleteBackward" THEN LastShows(Queued, shown)
              ELSE receipt.kind = "SetCompositionText"
        BY <1>3, <2>2, <3>2, <3>3, PutLast
      <3>5. \A w \in Waiting \ superseded : w.id \in Int /\ w.id < issued.id
        BY <1>1, OrderTypes
      <3>6. LastShows(Waiting', platform_composition_active) <=>
              IF issued.kind = "DeleteBackward"
              THEN LastShows(Waiting \ superseded, platform_composition_active)
              ELSE issued.kind = "SetCompositionText"
        <4>1. issued.id \in Int
          BY <1>3
        <4>. HIDE DEF issued
        <4>2. LastShows((Waiting \ superseded) \cup {issued}, platform_composition_active) <=>
                IF issued.kind = "DeleteBackward"
                THEN LastShows(Waiting \ superseded, platform_composition_active)
                ELSE issued.kind = "SetCompositionText"
          BY <3>5, <4>1, PutLast
        <4>. QED
          BY <3>1, <4>2 DEF issued
      <3>7. receipt.kind = "DeleteBackward" =>
              (LastShows(Queued, shown)
                 <=> LastShows(Waiting \ superseded, platform_composition_active))
        <4>1. next_action_id < U64Max
          BY <1>3, <2>4, SessionAssumption
        <4>2. superseded = {} => Waiting \ superseded = Waiting
          OBVIOUS
        <4>. QED
          BY <1>1, <3>1, <4>1, <4>2 DEF Understood
      <3>8. LastShows(Queued', shown) <=> LastShows(Waiting', platform_composition_active)
        BY <3>4, <3>6, <3>7
      <3>9. LastShows(Queued, shown)' <=> LastShows(Waiting, platform_composition_active)'
        BY <1>1, <1>4, <3>8 DEF LastShows, Marks
      <3>. QED
        BY <3>9 DEF Understood
    <2>. QED
      BY <1>0, <1>2, <2>3, <2>4 DEF Understood
  <1>. QED
    BY <1>5, <1>6

\* The first of what is queued is performed.
LEMMA PerformUnderstood ==
    ASSUME AInv, PerformsAll,
           NEW disposition \in HostDispositions, Perform(disposition)
    PROVE  Ordered' /\ Understood' /\ Paced' /\ AllApplied'
  <1>. DEFINE first == Head(todo)
  <1>1. /\ HInv /\ HostTypes /\ Ordered /\ Understood /\ Paced /\ UNCHANGED vars
        /\ todo # <<>> /\ todo' = Tail(todo) /\ disposition = "Applied"
        /\ answers' = answers \cup {[id |-> first.id, disposition |-> disposition]}
        /\ shown' = ShownAfter(first.kind, disposition)
    BY DEF AInv, HInv, Perform
  <1>2. /\ Queued = Queued' \cup {first} /\ first \in Receipt
    BY <1>1, QueueShrinks
  <1>4. UNCHANGED <<next_action_id, pending_actions, platform_composition_active,
                    state_revision, input_sequence>>
    BY <1>1 DEF vars, ledger, host
  <1>. HIDE DEF first
  <1>5. /\ first.id \in Int /\ first.id < next_action_id
        /\ \A i \in DOMAIN todo' : todo'[i].id \in Int /\ first.id < todo'[i].id
    <2>1. first \in Queued
      BY <1>2
    <2>. QED
      BY <1>1, <2>1, PerformOrdered, OrderTypes DEF Ordered, Queued, first
  <1>6. Ordered'
    BY <1>1, PerformOrdered
  <1>7. Queued' = Queued \ {first} /\ first \in Queued
    <2>1. \A q \in Queued' : q.id \in Int /\ first.id < q.id
      BY <1>5 DEF Queued
    <2>2. first \notin Queued'
      BY <1>5, <2>1
    <2>. QED
      BY <1>2, <2>2
  <1>8. LastShows(Queued', shown') <=> LastShows(Queued, shown)
    <2>1. \A q \in Queued : q.id \in Int
      BY <1>1, OrderTypes DEF Queued
    <2>2. \A q \in Queued \ {first} : first.id < q.id
      <3>1. \A q \in Queued' : first.id < q.id
        BY <1>5 DEF Queued
      <3>. QED
        BY <1>7, <3>1
    <2>3. shown' <=> IF first.kind = "DeleteBackward" THEN shown
                     ELSE first.kind = "SetCompositionText"
      BY <1>1 DEF ShownAfter
    <2>. HIDE DEF Queued
    <2>4. LastShows(Queued \ {first}, shown') <=> LastShows(Queued, shown)
      BY <1>7, <2>1, <2>2, <2>3, TakeFirst
    <2>. QED
      BY <1>7, <2>4
  <1>9. Understood'
    <2>1. Waiting' = Waiting
      BY <1>4 DEF Waiting
    <2>2. LastShows(Waiting, platform_composition_active)'
            <=> LastShows(Waiting, platform_composition_active)
      BY <1>4, <2>1 DEF LastShows, Marks
    <2>3. LastShows(Queued, shown)' <=> LastShows(Queued', shown')
      BY DEF LastShows, Marks
    <2>. QED
      BY <1>1, <1>4, <1>8, <2>2, <2>3 DEF Understood
  <1>. QED
    BY <1>1, <1>4, <1>6, <1>9 DEF Paced, AInv, AllApplied

\* The acknowledgement of the first action not yet acknowledged arrives.
LEMMA ArrivalUnderstood ==
    ASSUME AInv, InOrder, PerformsAll, NEW answer \in answers,
           MayArrive(answer), AcknowledgeAction(answer.id, answer.disposition),
           answers' = answers \/ answers' = answers \ {answer}, UNCHANGED <<todo, shown>>
    PROVE  Ordered' /\ Understood' /\ Paced' /\ AllApplied'
  <1>. DEFINE id == answer.id
              first == [id |-> id, kind |-> pending_actions[id].kind]
  <1>1. /\ HInv /\ LInv /\ HostTypes /\ OutstandingIsInFlight
        /\ Ordered /\ Understood /\ Paced
        /\ id \in ActionId /\ answer.disposition \in HostDispositions
        /\ answer.disposition = "Applied"
    BY DEF AInv, HInv, HostTypes, AllApplied
  <1>2. /\ DOMAIN pending_actions' = DOMAIN pending_actions \ {id}
        /\ \A other \in DOMAIN pending_actions' :
              pending_actions'[other] = pending_actions[other]
        /\ UNCHANGED <<next_action_id, state_revision, input_sequence>>
        /\ id \notin DOMAIN pending_actions => UNCHANGED platform_composition_active
        /\ id \in DOMAIN pending_actions =>
              platform_composition_active' =
                CompositionActiveAfter(pending_actions[id].kind, "Applied")
    BY <1>1, Acknowledged
  <1>3. Ordered' /\ Paced'
    BY <1>1, <1>2 DEF Ordered, Paced
  <1>4. LastShows(Queued, shown)' <=> LastShows(Queued, shown)
    BY DEF Queued, LastShows, Marks
  <1>5. LastShows(Waiting', platform_composition_active')
          <=> LastShows(Waiting, platform_composition_active)
    <2>1. CASE id \notin DOMAIN pending_actions
      <3>1. Waiting' = Waiting
        BY <1>2, <2>1 DEF Waiting
      <3>. QED
        BY <1>2, <2>1, <3>1
    <2>2. CASE id \in DOMAIN pending_actions
      <3>1. Waiting' = Waiting \ {first} /\ first \in Waiting
        BY <1>2, <2>2 DEF Waiting
      <3>2. \A w \in Waiting : w.id \in Int
        BY <1>1, OrderTypes
      <3>3. \A w \in Waiting \ {first} : first.id < w.id
        <4>. SUFFICES ASSUME NEW other \in DOMAIN pending_actions, other # id
                      PROVE  id < other
          BY DEF Waiting
        <4>1. \/ \E i \in DOMAIN todo : todo[i].id = other
              \/ \E a \in answers : a.id = other
          BY <1>1 DEF OutstandingIsInFlight
        <4>2. \A i \in DOMAIN todo : id < todo[i].id
          BY <1>1 DEF Ordered
        <4>3. \A a \in answers : id <= a.id /\ a.id \in Int /\ id \in Int
          BY <1>1, OrderTypes DEF MayArrive
        <4>. QED
          BY <4>1, <4>2, <4>3
      <3>4. pending_actions[id].kind \in Kinds
        BY <1>1, <2>2 DEF LInv, IInv, LedgerSound, Typed, PendingAction
      <3>5. platform_composition_active' <=>
              IF first.kind = "DeleteBackward" THEN platform_composition_active
              ELSE first.kind = "SetCompositionText"
        <4>1. platform_composition_active' =
                CompositionActiveAfter(pending_actions[id].kind, "Applied")
          BY <1>2, <2>2
        <4>. QED
          BY <3>4, <4>1 DEF CompositionActiveAfter, Kinds
      <3>. HIDE DEF first
      <3>. QED
        BY <3>1, <3>2, <3>3, <3>5, TakeFirst
    <2>. QED
      BY <2>1, <2>2
  <1>6. LastShows(Waiting, platform_composition_active)'
          <=> LastShows(Waiting', platform_composition_active')
    BY DEF LastShows, Marks
  <1>. QED
    BY <1>1, <1>2, <1>3, <1>4, <1>5, <1>6 DEF Understood, AInv, AllApplied

\* A host that performs everything, and acknowledges in the order of performing, is
\* understood whenever nothing is on its way, however far it fell behind in between and
\* although the session ignores the acknowledgements of what it superseded.
THEOREM InOrderHostUnderstood == HostSpec => []HostUnderstood
  <1>. DEFINE Orderly == InOrder /\ PerformsAll
  <1>1. HostInit => AInv
    <2>. SUFFICES ASSUME HostInit PROVE AInv
      OBVIOUS
    <2>1. HInv
      BY HostStart
    <2>2. /\ Ordered /\ Paced /\ AllApplied
      BY DEF HostInit, Init, Ordered, Paced, AllApplied
    <2>3. Queued = {} /\ Waiting = {}
      BY DEF HostInit, Init, Queued, Waiting
    <2>4. Understood
      BY <2>3 DEF HostInit, Init, Understood, LastShows, Marks
    <2>. QED
      BY <2>1, <2>2, <2>4 DEF AInv
  <1>2. (Orderly => AInv) /\ [HostNext]_allVars => (Orderly => AInv)'
    <2>. SUFFICES ASSUME Orderly => AInv, [HostNext]_allVars, Orderly' PROVE AInv'
      OBVIOUS
    <2>. AInv /\ InOrder /\ PerformsAll
      BY DisciplineKept DEF InOrder, PerformsAll
    <2>1. HInv'
      BY HostStep DEF AInv
    <2>2. CASE UNCHANGED allVars
      <3>1. Ordered' /\ Understood' /\ Paced' /\ AllApplied'
        BY <2>2 DEF allVars, hostVars, vars, ledger, host, AInv, Ordered, Understood, Paced,
           Queued, Waiting, LastShows, Marks, AllApplied
      <3>. QED
        BY <2>1, <3>1 DEF AInv
    <2>3. CASE HostNext
      <3>1. Ordered' /\ Understood' /\ Paced' /\ AllApplied'
        BY <2>3, HostEventUnderstood, PerformUnderstood, ArrivalUnderstood
           DEF HostNext, Deliver, DeliverAndRepeat, hostVars
      <3>. QED
        BY <2>1, <3>1 DEF AInv
    <2>. QED
      BY <2>2, <2>3
  <1>3. (Orderly => AInv) => HostUnderstood
    <2>. SUFFICES ASSUME AInv, Settled, next_action_id < U64Max
                  PROVE  shown = platform_composition_active
      BY DEF HostUnderstood
    <2>1. Queued = {}
      BY DEF Queued, Settled
    <2>2. Waiting = {}
      BY DEF Waiting, Settled, AInv, HInv, OutstandingIsInFlight
    <2>3. shown <=> platform_composition_active
      BY <2>1, <2>2 DEF AInv, Understood, LastShows, Marks
    <2>4. shown \in BOOLEAN /\ platform_composition_active \in BOOLEAN
      BY DEF AInv, HInv, HostTypes, LInv, IInv, RestSound
    <2>. QED
      BY <2>3, <2>4
  <1>. QED
    BY <1>1, <1>2, <1>3, PTL DEF HostSpec

-----------------------------------------------------------------------------
(* The invariant of a session, its host and the document.                  *)

\* The places that hold letters but the composition.
Elsewhere == {<<"document", 0, document>>}
             \cup {<<"underway", action.id, action.text>> : action \in Underway}
             \cup {<<"refused", id, pending_actions[id].text>> : id \in Refused}

\* What is still to be performed is what the session issued.
Matched ==
    \A i \in DOMAIN todo : todo[i].id \in DOMAIN pending_actions =>
        /\ todo[i].kind = pending_actions[todo[i].id].kind
        /\ todo[i].text = pending_actions[todo[i].id].text

\* An action is performed once, and so answered once.
OneAnswer == \A a, b \in answers : a.id = b.id => a = b

\* A commit that may still come back to the session.
MayReturn(id) == (\E i \in DOMAIN todo : todo[i].id = id) \/ id \in Refused

\* What such a commit would bring back is nowhere but where the commit is.
RecoveryApart ==
    \A id \in DOMAIN pending_actions : \A recovery \in pending_actions[id].recovery :
        MayReturn(id) =>
            /\ IsInjective(recovery.composer.text)
            /\ \A place \in Elsewhere : place[2] # id =>
                  Letters(place[3]) \cap Letters(recovery.composer.text) = {}

FlowInv == /\ HInv /\ Ordered /\ Matched /\ OneAnswer
           /\ document \in Text
           /\ NoLetterTwice /\ RecoveryApart

-----------------------------------------------------------------------------
(* Letters in texts.                                                       *)

\* A text is a function of its positions.
LEMMA TextFacts ==
    ASSUME NEW text \in Text
    PROVE  /\ Len(text) \in Nat /\ DOMAIN text = 1..Len(text)
           /\ \A i \in DOMAIN text : text[i] \in Letters(text)
           /\ \A x \in Letters(text) : \E i \in DOMAIN text : text[i] = x
  BY DEF Text, Letters, Range

\* Nothing has no letters.
LEMMA NoLetters == <<>> \in Text /\ Letters(<<>>) = {} /\ IsInjective(<<>>)
  <1>1. <<>> \in Text /\ DOMAIN <<>> = {}
    BY EmptySeq DEF Text
  <1>. QED
    BY <1>1 DEF Letters, Range, IsInjective

\* The letters of a splice are those of the text that stay, and those inserted.
LEMMA SpliceAt ==
    ASSUME NEW text \in Text, NEW inserted \in Text,
           NEW start \in 0..Len(text), NEW end \in start..Len(text)
    PROVE  LET whole == Splice(text, start, end, inserted)
           IN  /\ DOMAIN whole = 1..(start + Len(inserted) + (Len(text) - end))
               /\ \A i \in 1..start : whole[i] = text[i]
               /\ \A i \in 1..Len(inserted) : whole[start + i] = inserted[i]
               /\ \A i \in 1..(Len(text) - end) :
                     whole[start + Len(inserted) + i] = text[end + i]
  <1>. DEFINE left  == SubSeq(text, 1, start)
              right == SubSeq(text, end + 1, Len(text))
  <1>1. /\ Len(text) \in Nat /\ Len(inserted) \in Nat
        /\ start \in Nat /\ end \in Nat /\ start <= end /\ end <= Len(text)
    BY TextFacts
  <1>2. /\ left \in Text /\ Len(left) = start
        /\ \A i \in 1..start : left[i] = text[i]
    BY <1>1 DEF Text
  <1>3. /\ right \in Text /\ Len(right) = Len(text) - end
        /\ \A i \in 1..(Len(text) - end) : right[i] = text[end + i]
    BY <1>1 DEF Text
  <1>. HIDE DEF left, right
  <1>. DEFINE first == left \o inserted
  <1>4. /\ first \in Text /\ Len(first) = start + Len(inserted)
        /\ \A i \in 1..start : first[i] = left[i]
        /\ \A i \in 1..Len(inserted) : first[start + i] = inserted[i]
    BY <1>2, JoinedAt
  <1>. HIDE DEF first
  <1>5. /\ DOMAIN (first \o right) = 1..(start + Len(inserted) + (Len(text) - end))
        /\ \A i \in 1..(start + Len(inserted)) : (first \o right)[i] = first[i]
        /\ \A i \in 1..(Len(text) - end) :
              (first \o right)[start + Len(inserted) + i] = right[i]
    <2>1. /\ DOMAIN (first \o right) = 1..(Len(first) + Len(right))
          /\ \A i \in 1..Len(first) : (first \o right)[i] = first[i]
          /\ \A i \in 1..Len(right) : (first \o right)[Len(first) + i] = right[i]
      BY <1>3, <1>4, JoinedAt
    <2>. QED
      BY <1>3, <1>4, <2>1
  <1>6. \A i \in 1..start : (first \o right)[i] = text[i]
    BY <1>1, <1>2, <1>4, <1>5
  <1>7. \A i \in 1..Len(inserted) : (first \o right)[start + i] = inserted[i]
    BY <1>1, <1>4, <1>5
  <1>8. \A i \in 1..(Len(text) - end) :
           (first \o right)[start + Len(inserted) + i] = text[end + i]
    BY <1>3, <1>5
  <1>. QED
    BY <1>5, <1>6, <1>7, <1>8 DEF Splice, first, left, right

\* A splice takes its letters from the two texts, and doubles none.
LEMMA SpliceLetters ==
    ASSUME NEW text \in Text, NEW inserted \in Text,
           NEW start \in 0..Len(text), NEW end \in start..Len(text)
    PROVE  LET whole == Splice(text, start, end, inserted)
           IN  /\ Letters(whole) \subseteq Letters(text) \cup Letters(inserted)
               /\ /\ IsInjective(text) /\ IsInjective(inserted)
                  /\ Letters(text) \cap Letters(inserted) = {}
                  => IsInjective(whole)
               /\ start = end => Letters(text) \subseteq Letters(whole)
  <1>. DEFINE whole == Splice(text, start, end, inserted)
              skip  == start + Len(inserted)
              rest  == Len(text) - end
  <1>1. /\ Len(text) \in Nat /\ Len(inserted) \in Nat /\ skip \in Nat /\ rest \in Nat
        /\ start \in Nat /\ end \in Nat /\ start <= end /\ end <= Len(text)
        /\ DOMAIN text = 1..Len(text) /\ DOMAIN inserted = 1..Len(inserted)
    BY TextFacts
  <1>2. /\ DOMAIN whole = 1..(skip + rest)
        /\ \A i \in 1..start : whole[i] = text[i]
        /\ \A i \in 1..Len(inserted) : whole[start + i] = inserted[i]
        /\ \A i \in 1..rest : whole[skip + i] = text[end + i]
    BY SpliceAt
  <1>. HIDE DEF whole
  \* Where a position of the whole comes from.
  <1>3. ASSUME NEW i \in DOMAIN whole
        PROVE  \/ i \in 1..start /\ i \in DOMAIN text /\ whole[i] = text[i]
               \/ /\ i > start /\ i <= skip
                  /\ i - start \in DOMAIN inserted /\ whole[i] = inserted[i - start]
               \/ /\ i > skip /\ (i - skip) + end \in DOMAIN text
                  /\ whole[i] = text[(i - skip) + end]
    <2>1. CASE i \in 1..start
      BY <1>1, <1>2, <2>1
    <2>2. CASE i > start /\ i <= skip
      <3>1. i - start \in 1..Len(inserted) /\ start + (i - start) = i
        BY <1>1, <1>2, <2>2
      <3>. QED
        BY <1>1, <1>2, <2>2, <3>1
    <2>3. CASE i > skip
      <3>0. i \in Int /\ i <= skip + rest
        BY <1>1, <1>2
      <3>1. /\ i - skip \in 1..rest /\ skip + (i - skip) = i
            /\ (i - skip) + end = end + (i - skip)
            /\ (i - skip) + end \in 1..Len(text)
        BY <1>1, <2>3, <3>0
      <3>. QED
        BY <1>1, <1>2, <2>3, <3>1
    <2>. QED
      BY <1>1, <1>2, <2>1, <2>2, <2>3
  <1>4. Letters(whole) \subseteq Letters(text) \cup Letters(inserted)
    BY <1>3 DEF Letters, Range
  <1>5. ASSUME IsInjective(text), IsInjective(inserted),
               Letters(text) \cap Letters(inserted) = {}
        PROVE  IsInjective(whole)
    <2>. SUFFICES ASSUME NEW i \in DOMAIN whole, NEW j \in DOMAIN whole, whole[i] = whole[j]
                  PROVE  i = j
      BY DEF IsInjective
    <2>1. i \in Int /\ j \in Int
      BY <1>2
    <2>2. \A k \in DOMAIN text, l \in DOMAIN inserted : text[k] # inserted[l]
      BY <1>5, TextFacts
    <2>3. \A k, l \in DOMAIN text : text[k] = text[l] => k = l
      BY <1>5 DEF IsInjective
    <2>4. \A k, l \in DOMAIN inserted : inserted[k] = inserted[l] => k = l
      BY <1>5 DEF IsInjective
    <2>. DEFINE From(k) ==
           \/ k \in 1..start /\ k \in DOMAIN text /\ whole[k] = text[k]
           \/ /\ k > start /\ k <= skip
              /\ k - start \in DOMAIN inserted /\ whole[k] = inserted[k - start]
           \/ /\ k > skip /\ (k - skip) + end \in DOMAIN text
              /\ whole[k] = text[(k - skip) + end]
    <2>5. From(i) /\ From(j)
      BY <1>3
    <2>. HIDE DEF whole, skip
    <2>6. CASE i > start /\ i <= skip
      <3>1. i - start \in DOMAIN inserted /\ whole[i] = inserted[i - start]
        BY <1>1, <2>1, <2>5, <2>6
      <3>2. j - start \in DOMAIN inserted /\ whole[j] = inserted[j - start]
        BY <2>2, <2>5, <3>1
      <3>3. i - start = j - start
        BY <2>4, <3>1, <3>2
      <3>. QED
        BY <1>1, <2>1, <3>3
    <2>7. CASE i \in 1..start
      <3>1. i \in DOMAIN text /\ whole[i] = text[i]
        BY <1>1, <2>1, <2>5, <2>7 DEF skip
      <3>2. \/ j \in DOMAIN text /\ whole[j] = text[j]
            \/ j > skip /\ (j - skip) + end \in DOMAIN text /\ whole[j] = text[(j - skip) + end]
        BY <2>2, <2>5, <3>1
      <3>3. j \in DOMAIN text /\ whole[j] = text[j] => i = j
        BY <2>3, <3>1
      <3>4. j > skip /\ (j - skip) + end \in DOMAIN text /\ whole[j] = text[(j - skip) + end]
              => i = (j - skip) + end
        BY <2>3, <3>1
      <3>. QED
        BY <1>1, <2>1, <2>7, <3>2, <3>3, <3>4
    <2>8. CASE i > skip
      <3>1. (i - skip) + end \in DOMAIN text /\ whole[i] = text[(i - skip) + end]
        BY <1>1, <2>1, <2>5, <2>8 DEF skip
      <3>2. \/ j \in 1..start /\ j \in DOMAIN text /\ whole[j] = text[j]
            \/ (j - skip) + end \in DOMAIN text /\ whole[j] = text[(j - skip) + end]
        BY <2>2, <2>5, <3>1
      <3>3. j \in 1..start /\ j \in DOMAIN text /\ whole[j] = text[j] => (i - skip) + end = j
        BY <2>3, <3>1
      <3>4. (j - skip) + end \in DOMAIN text /\ whole[j] = text[(j - skip) + end]
              => (i - skip) + end = (j - skip) + end
        BY <2>3, <3>1
      <3>. QED
        BY <1>1, <2>1, <2>8, <3>2, <3>3, <3>4
    <2>. QED
      BY <1>1, <2>1, <2>5, <2>6, <2>7, <2>8
  <1>6. ASSUME start = end
        PROVE  Letters(text) \subseteq Letters(whole)
    <2>. SUFFICES ASSUME NEW k \in DOMAIN text
                  PROVE  \E i \in DOMAIN whole : whole[i] = text[k]
      BY DEF Letters, Range
    <2>1. CASE k <= start
      <3>1. k \in 1..start
        BY <1>1, <2>1
      <3>. QED
        BY <1>2, <3>1
    <2>2. CASE k > start
      <3>1. k - end \in 1..rest /\ end + (k - end) = k /\ skip + (k - end) \in 1..(skip + rest)
        BY <1>1, <1>6, <2>2
      <3>. QED
        BY <1>2, <3>1
    <2>. QED
      BY <1>1, <2>1, <2>2
  <1>. QED
    BY <1>4, <1>5, <1>6 DEF whole

\* Two texts joined.
LEMMA JoinedLetters ==
    ASSUME NEW text \in Text, NEW more \in Text
    PROVE  /\ text \o more \in Text
           /\ Letters(text \o more) = Letters(text) \cup Letters(more)
           /\ IsInjective(text) /\ IsInjective(more) /\ Letters(text) \cap Letters(more) = {}
                => IsInjective(text \o more)
  <1>. DEFINE whole == text \o more
  <1>1. /\ Len(text) \in Nat /\ Len(more) \in Nat /\ whole \in Text
        /\ DOMAIN text = 1..Len(text) /\ DOMAIN more = 1..Len(more)
        /\ DOMAIN whole = 1..(Len(text) + Len(more))
        /\ \A i \in 1..Len(text) : whole[i] = text[i]
        /\ \A i \in 1..Len(more) : whole[Len(text) + i] = more[i]
    BY JoinedAt, TextFacts
  <1>. HIDE DEF whole
  <1>2. \A i \in DOMAIN whole :
           \/ i \in DOMAIN text /\ whole[i] = text[i]
           \/ i - Len(text) \in DOMAIN more /\ whole[i] = more[i - Len(text)]
    <2>. SUFFICES ASSUME NEW i \in DOMAIN whole, i \notin DOMAIN text
                  PROVE  i - Len(text) \in DOMAIN more /\ whole[i] = more[i - Len(text)]
      BY <1>1
    <2>1. i - Len(text) \in 1..Len(more) /\ Len(text) + (i - Len(text)) = i
      BY <1>1
    <2>. QED
      BY <1>1, <2>1
  <1>3. Letters(whole) \subseteq Letters(text) \cup Letters(more)
    BY <1>2 DEF Letters, Range
  <1>4. Letters(text) \subseteq Letters(whole)
    <2>1. \A i \in DOMAIN text : i \in DOMAIN whole /\ whole[i] = text[i]
      BY <1>1
    <2>. QED
      BY <2>1 DEF Letters, Range
  <1>5. Letters(more) \subseteq Letters(whole)
    <2>1. \A i \in DOMAIN more : Len(text) + i \in DOMAIN whole /\ whole[Len(text) + i] = more[i]
      BY <1>1
    <2>. QED
      BY <2>1 DEF Letters, Range
  <1>6. ASSUME IsInjective(text), IsInjective(more), Letters(text) \cap Letters(more) = {}
        PROVE  IsInjective(whole)
    <2>. SUFFICES ASSUME NEW i \in DOMAIN whole, NEW j \in DOMAIN whole, whole[i] = whole[j]
                  PROVE  i = j
      BY DEF IsInjective
    <2>1. i \in Int /\ j \in Int
      BY <1>1
    <2>2. \A k \in DOMAIN text, l \in DOMAIN more : text[k] # more[l]
      BY <1>6, TextFacts
    <2>3. /\ \A k, l \in DOMAIN text : text[k] = text[l] => k = l
          /\ \A k, l \in DOMAIN more : more[k] = more[l] => k = l
      BY <1>6 DEF IsInjective
    <2>4. i = j \/ i - Len(text) = j - Len(text)
      BY <1>2, <2>2, <2>3
    <2>. QED
      BY <1>1, <2>1, <2>4
  <1>. QED
    BY <1>1, <1>3, <1>4, <1>5, <1>6 DEF whole

\* A text without its last letter.
LEMMA FrontLetters ==
    ASSUME NEW text \in Text, text # <<>>
    PROVE  /\ Front(text) \in Text
           /\ Letters(Front(text)) \subseteq Letters(text)
           /\ IsInjective(text) => IsInjective(Front(text))
  <1>1. Len(text) \in Nat /\ Len(text) # 0
    BY TextFacts, EmptySeq DEF Text
  <1>2. /\ Front(text) \in Text /\ DOMAIN Front(text) = 1..(Len(text) - 1)
        /\ \A i \in 1..(Len(text) - 1) : Front(text)[i] = text[i]
    BY <1>1 DEF Front, Text
  <1>3. \A i \in DOMAIN Front(text) : i \in DOMAIN text /\ Front(text)[i] = text[i]
    BY <1>1, <1>2, TextFacts
  <1>. QED
    BY <1>2, <1>3 DEF Letters, Range, IsInjective

-----------------------------------------------------------------------------
(* Letters in places.                                                      *)

\* The composition is one of the places.
LEMMA PlacesSplit == Places = {<<"composition", 0, composer.text>>} \cup Elsewhere
  BY DEF Places, Elsewhere

LEMMA FewerPlaces ==
    ASSUME NEW S, NoneTwice(S), NEW T, T \subseteq S
    PROVE  NoneTwice(T)
  BY DEF NoneTwice

LEMMA OnePlaceMore ==
    ASSUME NEW S, NoneTwice(S), NEW place, IsInjective(place[3]),
           \A s \in S : Letters(s[3]) \cap Letters(place[3]) = {}
    PROVE  NoneTwice(S \cup {place})
  BY DEF NoneTwice

\* No letter is twice if it is not twice elsewhere nor in the composition.
Apart == /\ NoneTwice(Elsewhere)
         /\ IsInjective(composer.text)
         /\ \A place \in Elsewhere : Letters(place[3]) \cap Letters(composer.text) = {}

LEMMA TwiceNowhere == NoLetterTwice <=> Apart
  <1>. DEFINE here == <<"composition", 0, composer.text>>
  <1>1. here \notin Elsewhere /\ here[3] = composer.text
    BY DEF Elsewhere
  <1>2. Places = Elsewhere \cup {here}
    BY PlacesSplit
  <1>. HIDE DEF here
  <1>3. NoneTwice(Elsewhere \cup {here}) <=>
            /\ NoneTwice(Elsewhere)
            /\ IsInjective(here[3])
            /\ \A place \in Elsewhere : Letters(place[3]) \cap Letters(here[3]) = {}
    BY <1>1 DEF NoneTwice
  <1>. QED
    BY <1>1, <1>2, <1>3 DEF NoLetterTwice, Apart

LEMMA TwiceNowhereNext == NoLetterTwice' <=> Apart'
  BY TwiceNowhere, PTL

\* The composition taken away, or moved to a place that was not there.
LEMMA ClearedNowhere ==
    ASSUME NoneTwice(Elsewhere)', composer' = EmptyComposer
    PROVE  NoLetterTwice'
  <1>1. composer'.text = <<>>
    BY DEF EmptyComposer
  <1>2. /\ IsInjective(composer'.text)
        /\ \A place \in Elsewhere' : Letters(place[3]) \cap Letters(composer'.text) = {}
    BY <1>1, NoLetters
  <1>. QED
    BY <1>2, TwiceNowhereNext DEF Apart

-----------------------------------------------------------------------------
(* What an event does to the letters.                                      *)

\* The actions outstanding before are as they were, but for their recoveries.
KeptActions ==
    \A id \in DOMAIN pending_actions' : id # next_action_id =>
        /\ id \in DOMAIN pending_actions
        /\ pending_actions'[id].kind = pending_actions[id].kind
        /\ pending_actions'[id].text = pending_actions[id].text
        /\ pending_actions'[id].recovery \subseteq pending_actions[id].recovery

CommitsStay == OfKind("CommitText") \subseteq DOMAIN pending_actions'

NoCommit ==
    next_action_id \in DOMAIN pending_actions' =>
        /\ pending_actions'[next_action_id].kind # "CommitText"
        /\ pending_actions'[next_action_id].recovery = {}

Exhausts == state_revision' = U64Max \/ next_action_id' = U64Max

\* The composition changes, by what the user brings in or takes away.
Edits ==
    /\ NoCommit
    /\ IsInjective(composer.text) => IsInjective(composer'.text)
    /\ \E fresh : /\ fresh \cap Present = {}
                  /\ Letters(composer'.text) \subseteq Letters(composer.text) \cup fresh
    /\ Removal \/ Exhausts \/ Letters(composer.text) \subseteq Letters(composer'.text)

\* The composition leaves the session in a commit, which can bring it back.
Commits(text) ==
    /\ composer' = EmptyComposer
    /\ next_action_id \in DOMAIN pending_actions'
    /\ pending_actions'[next_action_id].kind = "CommitText"
    /\ pending_actions'[next_action_id].text = text
    /\ \A recovery \in pending_actions'[next_action_id].recovery : recovery.composer = composer

\* The texts that may be committed: the composed one, or a candidate the user chooses.
Choosable ==
    {composer.text} \cup
    {candidate_snapshot.entries[id] : id \in
       {id \in DOMAIN candidate_snapshot.entries :
          LET chosen == candidate_snapshot.entries[id]
          IN  /\ IsInjective(chosen)
              /\ Letters(chosen) \cap (Present \ Letters(composer.text)) = {}}}

FlowEffect ==
    /\ KeptActions
    /\ Removal \/ CommitsStay
    /\ Edits \/ \E text \in Choosable : Commits(text)

\* Invalidating recoveries and superseding keeps what stays.
LEMMA LiveKept ==
    ASSUME LInv, NEW ids
    PROVE  LET actions == Without(Live, ids)
           IN  /\ DOMAIN actions = DOMAIN pending_actions \ ids
               /\ next_action_id \notin DOMAIN pending_actions
               /\ \A id \in DOMAIN actions :
                     /\ actions[id].kind = pending_actions[id].kind
                     /\ actions[id].text = pending_actions[id].text
                     /\ actions[id].recovery = {}
  <1>1. /\ DOMAIN Without(Live, ids) = DOMAIN pending_actions \ ids
        /\ \A id \in DOMAIN pending_actions \ ids : Without(Live, ids)[id] = Live[id]
    BY LiveWithout DEF Without, Restrict
  <1>2. /\ NoRecovery(Live) /\ DOMAIN Live = DOMAIN pending_actions
        /\ \A id \in DOMAIN pending_actions :
             /\ Live[id].kind = pending_actions[id].kind
             /\ Live[id].text = pending_actions[id].text
    BY LiveFacts DEF LInv, IInv, LedgerSound
  <1>3. next_action_id \notin DOMAIN pending_actions
    BY LedgerFinite DEF LInv
  <1>. QED
    BY <1>1, <1>2, <1>3 DEF NoRecovery

\* A call that issues nothing.
LEMMA NothingSent ==
    ASSUME LInv, NEW ids, pending_actions' = Without(Live, ids)
    PROVE  /\ KeptActions /\ NoCommit
           /\ ids \cap OfKind("CommitText") = {} => CommitsStay
  <1>. DEFINE actions == Without(Live, ids)
  <1>0. /\ DOMAIN actions = DOMAIN pending_actions \ ids
        /\ next_action_id \notin DOMAIN pending_actions
        /\ \A id \in DOMAIN actions :
              /\ actions[id].kind = pending_actions[id].kind
              /\ actions[id].text = pending_actions[id].text
              /\ actions[id].recovery = {}
    BY LiveKept
  <1>. HIDE DEF actions
  <1>1. /\ DOMAIN pending_actions' = DOMAIN pending_actions \ ids
        /\ next_action_id \notin DOMAIN pending_actions
        /\ \A id \in DOMAIN pending_actions' :
              /\ pending_actions'[id].kind = pending_actions[id].kind
              /\ pending_actions'[id].text = pending_actions[id].text
              /\ pending_actions'[id].recovery = {}
    BY <1>0 DEF actions
  <1>. QED
    BY <1>1 DEF KeptActions, NoCommit, CommitsStay, OfKind

\* A call that issues an action, if an identifier is left.
LEMMA ActionSent ==
    ASSUME LInv, NEW ids, NEW action, Allocate(Without(Live, ids), action)
    PROVE  /\ KeptActions
           /\ ids \cap OfKind("CommitText") = {} => CommitsStay
           /\ \/ next_action_id' = U64Max /\ NoCommit
              \/ /\ next_action_id \in DOMAIN pending_actions'
                 /\ pending_actions'[next_action_id] = action
  <1>. DEFINE actions == Without(Live, ids)
  <1>1. CASE next_action_id = U64Max
    BY <1>1, NothingSent DEF Allocate
  <1>2. CASE next_action_id # U64Max
    <2>1. pending_actions' = [id \in DOMAIN actions \cup {next_action_id} |->
                                IF id = next_action_id THEN action ELSE actions[id]]
      BY <1>2 DEF Allocate
    <2>2. /\ DOMAIN actions = DOMAIN pending_actions \ ids
          /\ next_action_id \notin DOMAIN pending_actions
          /\ \A id \in DOMAIN actions :
                /\ actions[id].kind = pending_actions[id].kind
                /\ actions[id].text = pending_actions[id].text
                /\ actions[id].recovery = {}
      BY LiveKept
    <2>. HIDE DEF actions
    <2>3. /\ DOMAIN pending_actions' = (DOMAIN pending_actions \ ids) \cup {next_action_id}
          /\ pending_actions'[next_action_id] = action
          /\ \A id \in DOMAIN actions : pending_actions'[id] = actions[id]
      BY <2>1, <2>2
    <2>. QED
      BY <2>2, <2>3 DEF KeptActions, CommitsStay, OfKind
  <1>. QED
    BY <1>1, <1>2

\* A composition with no new letter.
LEMMA NothingFresh ==
    ASSUME Letters(composer'.text) \subseteq Letters(composer.text)
    PROVE  \E fresh : /\ fresh \cap Present = {}
                     /\ Letters(composer'.text) \subseteq Letters(composer.text) \cup fresh
  <1>1. {} \cap Present = {} /\ Letters(composer'.text) \subseteq Letters(composer.text) \cup {}
    OBVIOUS
  <1>. QED
    BY <1>1

\* A call that leaves the composition alone.
LEMMA SameComposition ==
    ASSUME KeptActions, CommitsStay, NoCommit, composer'.text = composer.text
    PROVE  FlowEffect
  BY NothingFresh DEF Edits, FlowEffect

\* An event that only answers.
LEMMA AnswerFlow ==
    ASSUME LInv, NEW outcome, Answer(outcome)
    PROVE  FlowEffect
  <1>1. Live = Without(Live, {}) /\ composer' = composer
    BY DEF Live, Without, Restrict, Answer, view
  <1>2. KeptActions /\ NoCommit /\ CommitsStay
    BY <1>1, NothingSent DEF Answer
  <1>. QED
    BY <1>1, <1>2, SameComposition

\* An edit announces its composition, which is no commit.
LEMMA EditFlow ==
    ASSUME LInv, NEW edited, CompositionEdit(edited)
    PROVE  /\ KeptActions /\ CommitsStay /\ NoCommit
           /\ composer' \in {composer, edited}
  <1>. DEFINE actions == Without(Live, SupersededByEdit)
              update  == CompositionUpdate(edited, state_revision + 1)
  <1>1. SupersededByEdit \cap OfKind("CommitText") = {}
    BY DEF SupersededByEdit, CompositionUpdates, OfKind
  <1>2. composer' \in {composer, edited}
    BY DEF CompositionEdit, view
  <1>3. CASE pending_actions' = actions
    BY <1>1, <1>2, <1>3, NothingSent
  <1>4. CASE Allocate(actions, update)
    <2>1. update.kind # "CommitText" /\ update.recovery = {}
      BY DEF CompositionUpdate, PlainAction, Action
    <2>. HIDE DEF update
    <2>. QED
      BY <1>1, <1>2, <1>4, <2>1, ActionSent DEF NoCommit
  <1>. QED
    BY <1>3, <1>4 DEF CompositionEdit

\* A commit, unless it finds no room or a counter exhausted.
LEMMA CommitFlow ==
    ASSUME LInv, NEW text \in Choosable, CommitText(text)
    PROVE  FlowEffect
  <1>. DEFINE actions  == Without(Live, CompositionUpdates)
              recovery == [composer |-> composer, post_commit_revision |-> state_revision + 1,
                           context_epoch |-> context.context_epoch,
                           input_sequence |-> input_sequence + 1]
              action   == Action("CommitText", text, 0, state_revision + 1, {recovery})
  <1>1. CompositionUpdates \cap OfKind("CommitText") = {}
    BY DEF CompositionUpdates, OfKind
  <1>2. EmptyComposer.text = <<>>
    BY DEF EmptyComposer
  <1>3. CASE pending_actions' = actions /\ composer' = composer
    <2>1. KeptActions /\ NoCommit /\ CommitsStay
      BY <1>1, <1>3, NothingSent
    <2>. QED
      BY <1>3, <2>1, SameComposition
  <1>4. CASE pending_actions' = actions /\ composer' = EmptyComposer /\ Exhausts
    <2>1. KeptActions /\ NoCommit /\ CommitsStay
      BY <1>1, <1>4, NothingSent
    <2>. QED
      BY <1>2, <1>4, <2>1, NoLetters DEF Edits, FlowEffect
  <1>5. CASE Allocate(actions, action) /\ composer' = EmptyComposer
    <2>1. /\ action.kind = "CommitText" /\ action.text = text
          /\ \A r \in action.recovery : r.composer = composer
      BY DEF Action
    <2>. HIDE DEF action
    <2>2. /\ KeptActions /\ CommitsStay
          /\ \/ next_action_id' = U64Max /\ NoCommit
             \/ /\ next_action_id \in DOMAIN pending_actions'
                /\ pending_actions'[next_action_id] = action
      BY <1>1, <1>5, ActionSent
    <2>3. CASE next_action_id' = U64Max /\ NoCommit
      BY <1>2, <1>5, <2>2, <2>3, NoLetters DEF Edits, FlowEffect, Exhausts
    <2>4. CASE /\ next_action_id \in DOMAIN pending_actions'
               /\ pending_actions'[next_action_id] = action
      BY <1>5, <2>1, <2>2, <2>4 DEF Commits, FlowEffect
    <2>. QED
      BY <2>2, <2>3, <2>4
  <1>. QED
    BY <1>3, <1>4, <1>5 DEF CommitText, ClearComposition, Exhausted, Exhausts, view

\* A composition some letters were taken from.
LEMMA RemovalFlow ==
    ASSUME LInv, Removal, NEW edited, CompositionEdit(edited),
           Letters(edited.text) \subseteq Letters(composer.text),
           IsInjective(composer.text) => IsInjective(edited.text)
    PROVE  FlowEffect
  <1>1. /\ KeptActions /\ CommitsStay /\ NoCommit
        /\ composer' \in {composer, edited}
    BY EditFlow
  <1>2. CASE composer' = edited
    <2>1. Edits
      BY <1>1, <1>2, NothingFresh DEF Edits
    <2>. QED
      BY <1>1, <2>1 DEF FlowEffect
  <1>. QED
    BY <1>1, <1>2, SameComposition

\* The letters left by the two removals.
LEMMA RemovedLetters ==
    ASSUME NEW c \in Composers, CursorInText(c)
    PROVE  /\ Letters(Backspaced(c).text) \subseteq Letters(c.text)
           /\ IsInjective(c.text) => IsInjective(Backspaced(c).text)
           /\ Letters(DeletedForward(c).text) \subseteq Letters(c.text)
           /\ IsInjective(c.text) => IsInjective(DeletedForward(c).text)
  <1>. DEFINE before == byte_offset_for_grapheme(c.text, c.cursor_grapheme - 1)
              at     == byte_offset_for_grapheme(c.text, c.cursor_grapheme)
              after  == byte_offset_for_grapheme(c.text, c.cursor_grapheme + 1)
  <1>1. c.text \in Text /\ c.cursor_grapheme \in Int /\ Len(c.text) \in Nat
    BY TextFacts DEF Composers
  <1>2. /\ before \in 0..Len(c.text) /\ at \in 0..Len(c.text) /\ after \in 0..Len(c.text)
        /\ before <= at /\ at <= after
    <2>. DEFINE k == c.cursor_grapheme
    <2>1. /\ k - 1 \in Int /\ k \in Int /\ k + 1 \in Int
          /\ k - 1 <= k /\ k <= k + 1
      BY <1>1
    <2>. HIDE DEF k
    <2>2. /\ byte_offset_for_grapheme(c.text, k - 1) \in 0..Len(c.text)
          /\ byte_offset_for_grapheme(c.text, k) \in 0..Len(c.text)
          /\ byte_offset_for_grapheme(c.text, k + 1) \in 0..Len(c.text)
      BY <1>1, <2>1, OffsetInText
    <2>3. /\ byte_offset_for_grapheme(c.text, k - 1) <= byte_offset_for_grapheme(c.text, k)
          /\ byte_offset_for_grapheme(c.text, k) <= byte_offset_for_grapheme(c.text, k + 1)
      BY <1>1, <2>1, OffsetMonotonic
    <2>. QED
      BY <2>2, <2>3 DEF k
  <1>. HIDE DEF before, at, after
  <1>3. at \in before..Len(c.text) /\ after \in at..Len(c.text)
    BY <1>1, <1>2
  <1>4. \A start \in 0..Len(c.text) : \A end \in start..Len(c.text) :
          /\ Letters(Splice(c.text, start, end, <<>>)) \subseteq Letters(c.text)
          /\ IsInjective(c.text) => IsInjective(Splice(c.text, start, end, <<>>))
    BY <1>1, SpliceLetters, NoLetters
  <1>5. Backspaced(c).text \in {c.text, Splice(c.text, before, at, <<>>)}
    BY DEF Backspaced, Placed, cursor_utf8_byte_offset, before, at
  <1>6. DeletedForward(c).text \in {c.text, Splice(c.text, at, after, <<>>)}
    BY DEF DeletedForward, Placed, cursor_utf8_byte_offset, at, after
  <1>. QED
    BY <1>2, <1>3, <1>4, <1>5, <1>6

\* Typing puts letters in that were nowhere.
LEMMA TypeFlow ==
    ASSUME LInv, NEW text \in InsertTexts, Type(text)
    PROVE  FlowEffect
  <1>. DEFINE edited == Inserted(composer, text)
              at     == cursor_utf8_byte_offset(composer)
  <1>1. /\ IsInjective(text) /\ Letters(text) \cap Present = {} /\ insert_text(text)
        /\ text \in Text
    BY SessionAssumption DEF Type, InsertText
  <1>2. CASE \E outcome : Answer(outcome)
    BY <1>2, AnswerFlow
  <1>3. CASE CompositionEdit(edited)
    <2>1. composer.text \in Text /\ composer.cursor_grapheme \in Int
      BY ComposerSound DEF LInv, Composers
    <2>2. at \in 0..Len(composer.text) /\ Len(composer.text) \in Nat
      BY <2>1, OffsetInText, TextFacts DEF cursor_utf8_byte_offset
    <2>3. edited.text = Splice(composer.text, at, at, text)
      BY DEF Inserted, Placed
    <2>. HIDE DEF at, edited
    <2>4. at \in at..Len(composer.text)
      BY <2>2
    <2>5. Letters(composer.text) \subseteq Present
      <3>1. <<"composition", 0, composer.text>> \in Places
        BY PlacesSplit
      <3>. QED
        BY <3>1 DEF Present
    <2>6. /\ Letters(edited.text) \subseteq Letters(composer.text) \cup Letters(text)
          /\ Letters(composer.text) \subseteq Letters(edited.text)
          /\ IsInjective(composer.text) => IsInjective(edited.text)
      BY <1>1, <2>1, <2>2, <2>3, <2>4, <2>5, SpliceLetters
    <2>7. /\ KeptActions /\ CommitsStay /\ NoCommit
          /\ composer' \in {composer, edited}
      BY <1>3, EditFlow DEF edited
    <2>8. CASE composer' = edited
      <3>1. Edits
        BY <1>1, <2>6, <2>7, <2>8 DEF Edits
      <3>. QED
        BY <2>7, <3>1 DEF FlowEffect
    <2>. QED
      BY <2>7, <2>8, SameComposition
  <1>. QED
    BY <1>1, <1>2, <1>3 DEF insert_text

LEMMA BackspaceFlow ==
    ASSUME LInv, Backspace
    PROVE  FlowEffect
  <1>1. Removal /\ backspace(1)
    BY DEF Removal, Backspace
  <1>2. CASE /\ pending_actions' = Live \/ Allocate(Live, PlainAction("DeleteBackward", state_revision))
             /\ UNCHANGED view
    <2>. DEFINE action == PlainAction("DeleteBackward", state_revision)
    <2>1. Live = Without(Live, {}) /\ composer' = composer
      BY <1>2 DEF Live, Without, Restrict, view
    <2>2. action.kind # "CommitText" /\ action.recovery = {}
      BY DEF PlainAction, Action
    <2>. HIDE DEF action
    <2>3. KeptActions /\ CommitsStay /\ NoCommit
      <3>1. CASE pending_actions' = Live
        BY <2>1, <3>1, NothingSent
      <3>2. CASE Allocate(Live, action)
        BY <2>1, <2>2, <3>2, ActionSent DEF NoCommit
      <3>. QED
        BY <1>2, <3>1, <3>2 DEF action
    <2>. QED
      BY <2>1, <2>3, SameComposition
  <1>3. CASE \E outcome : Answer(outcome)
    BY <1>3, AnswerFlow
  <1>4. CASE CompositionEdit(Backspaced(composer))
    BY <1>1, <1>4, RemovalFlow, RemovedLetters, ComposerSound DEF LInv
  <1>. QED
    BY <1>1, <1>2, <1>3, <1>4 DEF backspace, BackspacedTimes

LEMMA DeleteForwardFlow ==
    ASSUME LInv, DeleteForward
    PROVE  FlowEffect
  <1>1. Removal /\ delete_forward(1)
    BY DEF Removal, DeleteForward
  <1>2. CASE \E outcome : Answer(outcome)
    BY <1>2, AnswerFlow
  <1>3. CASE CompositionEdit(DeletedForward(composer))
    BY <1>1, <1>3, RemovalFlow, RemovedLetters, ComposerSound DEF LInv
  <1>. QED
    BY <1>1, <1>2, <1>3 DEF delete_forward, DeletedForwardTimes

\* The composition dropped with the user's consent.
LEMMA DroppedFlow ==
    ASSUME Removal, KeptActions, NoCommit, composer' = EmptyComposer
    PROVE  FlowEffect
  <1>1. composer'.text = <<>>
    BY DEF EmptyComposer
  <1>. QED
    BY <1>1, NothingFresh, NoLetters DEF Edits, FlowEffect

LEMMA CancelFlow ==
    ASSUME LInv, Cancel
    PROVE  FlowEffect
  <1>. DEFINE actions == Without(Live, CompositionUpdates)
              action  == PlainAction("CancelComposition", state_revision + 1)
  <1>1. Removal /\ cancel
    BY DEF Removal, Cancel
  <1>2. CASE Answer("NoOp")
    BY <1>2, AnswerFlow
  <1>3. CASE /\ pending_actions' = actions \/ Allocate(actions, action)
             /\ composer' \in {composer, EmptyComposer}
    <2>1. action.kind # "CommitText" /\ action.recovery = {}
      BY DEF PlainAction, Action
    <2>2. CompositionUpdates \cap OfKind("CommitText") = {}
      BY DEF CompositionUpdates, OfKind
    <2>. HIDE DEF action
    <2>3. KeptActions /\ CommitsStay /\ NoCommit
      <3>1. CASE pending_actions' = actions
        BY <2>2, <3>1, NothingSent
      <3>2. CASE Allocate(actions, action)
        BY <2>1, <2>2, <3>2, ActionSent DEF NoCommit
      <3>. QED
        BY <1>3, <3>1, <3>2
    <2>. QED
      BY <1>1, <1>3, <2>3, SameComposition, DroppedFlow
  <1>. QED
    BY <1>1, <1>2, <1>3 DEF cancel, ClearComposition, view

LEMMA ResetFlow ==
    ASSUME LInv, Reset
    PROVE  FlowEffect
  <1>1. Removal /\ composer' = EmptyComposer
    BY DEF Removal, Reset, ClearComposition
  <1>2. next_action_id \notin DOMAIN pending_actions /\ DOMAIN <<>> = {}
    BY LedgerFinite DEF LInv
  <1>3. CASE pending_actions' = <<>>
    <2>1. KeptActions /\ NoCommit
      BY <1>2, <1>3 DEF KeptActions, NoCommit
    <2>. QED
      BY <1>1, <2>1, DroppedFlow
  <1>4. CASE \E revision : Allocate(<<>>, PlainAction("RequestPlatformReset", revision))
    <2>. PICK revision : Allocate(<<>>, PlainAction("RequestPlatformReset", revision))
      BY <1>4
    <2>. DEFINE action == PlainAction("RequestPlatformReset", revision)
    <2>1. action.kind # "CommitText" /\ action.recovery = {}
      BY DEF PlainAction, Action
    <2>2. \/ pending_actions' = <<>>
          \/ pending_actions' = [id \in DOMAIN <<>> \cup {next_action_id} |->
                                    IF id = next_action_id THEN action ELSE <<>>[id]]
      BY DEF Allocate
    <2>. HIDE DEF action
    <2>3. CASE DOMAIN pending_actions' = {next_action_id} /\ pending_actions'[next_action_id] = action
      <3>1. KeptActions /\ NoCommit
        BY <2>1, <2>3 DEF KeptActions, NoCommit
      <3>. QED
        BY <1>1, <3>1, DroppedFlow
    <2>. QED
      BY <1>2, <1>3, <2>2, <2>3
  <1>. QED
    BY <1>3, <1>4 DEF Reset

\* A change of context leaves the composition alone.
LEMMA ContextFlow ==
    ASSUME LInv, NEW raw, ContextChanged(raw)
    PROVE  FlowEffect
  <1>1. CASE \E outcome : Answer(outcome)
    BY <1>1, AnswerFlow
  <1>2. CASE pending_actions' = Live /\ UNCHANGED composer
    <2>1. Live = Without(Live, {})
      BY DEF Live, Without, Restrict
    <2>2. KeptActions /\ CommitsStay /\ NoCommit
      BY <1>2, <2>1, NothingSent
    <2>. QED
      BY <1>2, <2>2, SameComposition
  <1>. QED
    BY <1>1, <1>2 DEF ContextChanged

\* Every event.
LEMMA EventFlow ==
    ASSUME LInv, FlowEvent
    PROVE  FlowEffect
  <1>1. composer.text \in Choosable
    BY DEF Choosable
  <1>2. CASE Commit
    BY <1>1, <1>2, AnswerFlow, CommitFlow DEF Commit, commit
  <1>3. ASSUME NEW id \in DOMAIN candidate_snapshot.entries, Choose(id)
        PROVE  FlowEffect
    <2>1. candidate_snapshot.entries[id] \in Choosable
      BY <1>3 DEF Choose, Choosable
    <2>2. \/ \E outcome : Answer(outcome)
          \/ CommitText(candidate_snapshot.entries[id])
      BY <1>3 DEF Choose, SelectCandidate
    <2>. QED
      BY <2>1, <2>2, AnswerFlow, CommitFlow
  <1>4. CASE InputSequenceExhausted
    <2>1. UNCHANGED <<pending_actions, composer>> /\ next_action_id \notin DOMAIN pending_actions
      BY <1>4, LedgerFinite DEF InputSequenceExhausted, ledger, view, LInv
    <2>2. KeptActions /\ CommitsStay /\ NoCommit
      BY <2>1 DEF KeptActions, CommitsStay, NoCommit, OfKind
    <2>. QED
      BY <2>1, <2>2, SameComposition
  <1>. QED
    BY <1>2, <1>3, <1>4, TypeFlow, BackspaceFlow, DeleteForwardFlow, CancelFlow, ResetFlow,
       ContextFlow DEF FlowEvent, Removal

-----------------------------------------------------------------------------
(* Events.                                                                 *)

\* The events of a user are events of a host.
LEMMA FlowEventIsHostEvent ==
    ASSUME HInv, FlowEvent
    PROVE  HostEvent /\ UNCHANGED document
  <1>1. /\ state_revision \in 0..state_revision
        /\ \A id \in DOMAIN candidate_snapshot.entries :
              id \in 1..(Len(candidate_snapshot.entries) + 1)
    <2>1. state_revision \in Nat /\ candidate_snapshot \in CandidateSnapshot
      BY SessionAssumption DEF HInv, LInv, IInv, RestSound, ViewSound, Revision
    <2>. DEFINE entries == candidate_snapshot.entries
    <2>2. entries \in Seq(Text)
      BY <2>1 DEF CandidateSnapshot
    <2>. HIDE DEF entries
    <2>3. Len(entries) \in Nat /\ DOMAIN entries = 1..Len(entries)
      BY <2>2
    <2>4. \A id \in DOMAIN entries : id \in 1..(Len(entries) + 1)
      BY <2>3
    <2>. QED
      BY <2>1, <2>4 DEF entries
  <1>2. ProcessEvent
    BY <1>1 DEF FlowEvent, Type, Choose, Removal, ProcessEvent
  <1>. QED
    BY <1>2 DEF FlowEvent, HostEvent

\* The queue in the words of Functions.
LEMMA QueuedRange ==
    /\ Underway = {q \in Queued : q.kind = "CommitText"}
    /\ Underway' = {q \in Queued' : q.kind = "CommitText"}
  BY DEF Queued, Range, Underway

\* What a commit adds to the places, and an edit does not.
LEMMA EventPlaces ==
    ASSUME FlowInv, FlowEvent
    PROVE  /\ KeptActions /\ NoCommit => Elsewhere' \subseteq Elsewhere
           /\ KeptActions /\ NoCommit /\ CommitsStay => Elsewhere' = Elsewhere
           /\ \A text : KeptActions /\ Commits(text) =>
                 Elsewhere' \subseteq Elsewhere \cup {<<"underway", next_action_id, text>>}
           /\ \A text : KeptActions /\ CommitsStay /\ Commits(text) =>
                 Elsewhere' = Elsewhere \cup {<<"underway", next_action_id, text>>}
           /\ KeptActions => \A id \in DOMAIN pending_actions : MayReturn(id)' => MayReturn(id)
  <1>1. /\ HInv /\ HostTypes /\ Ordered /\ HostEvent
        /\ UNCHANGED <<document, answers>>
    BY FlowEventIsHostEvent DEF FlowInv, HInv, HostEvent, ReceiveResult
  <1>. DEFINE receipt == Delivered(next_action_id)
  <1>2. \/ next_action_id \notin DOMAIN pending_actions' /\ UNCHANGED todo
        \/ /\ next_action_id \in DOMAIN pending_actions'
           /\ todo' = Append(todo, receipt)
    <2>1. next_action_id \notin DOMAIN pending_actions
      BY <1>1, LedgerFinite DEF HInv, LInv
    <2>. QED
      BY <1>1, <2>1, EventReceived DEF Issued
  <1>3. /\ receipt.id = next_action_id
        /\ receipt.kind = pending_actions'[next_action_id].kind
        /\ receipt.text = pending_actions'[next_action_id].text
    BY DEF Delivered
  <1>. HIDE DEF receipt
  <1>4. /\ next_action_id \notin DOMAIN pending_actions' => Queued' = Queued
        /\ next_action_id \in DOMAIN pending_actions' => Queued' = Queued \cup {receipt}
    <2>1. CASE UNCHANGED todo /\ next_action_id \notin DOMAIN pending_actions'
      BY <2>1 DEF Queued
    <2>2. CASE todo' = Append(todo, receipt) /\ next_action_id \in DOMAIN pending_actions'
      BY <1>1, <2>2, QueueGrows
    <2>. QED
      BY <1>2, <2>1, <2>2
  <1>5. /\ NoCommit => Underway' = Underway
        /\ \A text : Commits(text) => /\ Underway' = Underway \cup {receipt}
                                      /\ receipt.id = next_action_id /\ receipt.text = text
    BY <1>3, <1>4, QueuedRange DEF NoCommit, Commits
  <1>6. ASSUME KeptActions
        PROVE  /\ Refused' \subseteq Refused
               /\ \A id \in Refused' : pending_actions'[id].text = pending_actions[id].text
               /\ CommitsStay => Refused' = Refused
    <2>1. \A id : (\E answer \in answers : answer.id = id) => id # next_action_id
      BY <1>1, OrderTypes DEF Ordered
    <2>. QED
      BY <1>1, <1>6, <2>1 DEF KeptActions, CommitsStay, Refused, OfKind
  <1>7. /\ KeptActions /\ NoCommit => Elsewhere' \subseteq Elsewhere
        /\ KeptActions /\ NoCommit /\ CommitsStay => Elsewhere' = Elsewhere
    BY <1>1, <1>5, <1>6 DEF Elsewhere
  <1>8. ASSUME NEW text, KeptActions, Commits(text)
        PROVE  /\ Elsewhere' \subseteq Elsewhere \cup {<<"underway", next_action_id, text>>}
               /\ CommitsStay =>
                    Elsewhere' = Elsewhere \cup {<<"underway", next_action_id, text>>}
    BY <1>1, <1>5, <1>6, <1>8 DEF Elsewhere
  <1>9. ASSUME KeptActions, NEW id \in DOMAIN pending_actions, MayReturn(id)'
        PROVE  MayReturn(id)
    <2>1. id # next_action_id
      BY <1>1, LedgerFinite DEF HInv, LInv
    <2>2. (\E q \in Queued' : q.id = id) \/ id \in Refused'
      BY <1>9 DEF MayReturn, Queued
    <2>3. (\E q \in Queued : q.id = id) \/ id \in Refused
      BY <1>3, <1>4, <1>6, <1>9, <2>1, <2>2
    <2>. QED
      BY <2>3 DEF MayReturn, Queued
  <1>. QED
    BY <1>7, <1>8, <1>9

\* The places of letters are all there is.
LEMMA HereAndElsewhere ==
    /\ Letters(composer.text) \subseteq Present
    /\ \A place \in Elsewhere : Letters(place[3]) \subseteq Present
    /\ Present = Letters(composer.text) \cup UNION {Letters(place[3]) : place \in Elsewhere}
  <1>. DEFINE here == <<"composition", 0, composer.text>>
  <1>1. Places = {here} \cup Elsewhere /\ here[3] = composer.text
    BY PlacesSplit
  <1>. HIDE DEF here
  <1>2. \A x : x \in Present <=> \E place \in Places : x \in Letters(place[3])
    BY DEF Present
  <1>. QED
    BY <1>1, <1>2

\* The match of queue and ledger, for what is queued.
LEMMA MatchedQueued ==
    /\ Matched <=> \A q \in Queued : q.id \in DOMAIN pending_actions =>
                      /\ q.kind = pending_actions[q.id].kind
                      /\ q.text = pending_actions[q.id].text
    /\ Matched' <=> \A q \in Queued' : q.id \in DOMAIN pending_actions' =>
                      /\ q.kind = pending_actions'[q.id].kind
                      /\ q.text = pending_actions'[q.id].text
  BY DEF Matched, Queued

LEMMA EventMatched ==
    ASSUME FlowInv, FlowEvent
    PROVE  Matched'
  <1>1. /\ HInv /\ HostTypes /\ Ordered /\ Matched /\ HostEvent /\ KeptActions
    BY FlowEventIsHostEvent, EventFlow DEF FlowInv, HInv, FlowEffect
  <1>. DEFINE receipt == Delivered(next_action_id)
  <1>2. \A q \in Queued : q.id # next_action_id
    BY <1>1, OrderTypes DEF Ordered, Queued
  <1>3. UNCHANGED todo \/ todo' = Append(todo, receipt)
    BY <1>1, EventReceived
  <1>4. /\ receipt.id = next_action_id
        /\ receipt.kind = pending_actions'[next_action_id].kind
        /\ receipt.text = pending_actions'[next_action_id].text
    BY DEF Delivered
  <1>. HIDE DEF receipt
  <1>5. Queued' \subseteq Queued \cup {receipt}
    <2>1. CASE UNCHANGED todo
      BY <2>1 DEF Queued
    <2>2. CASE todo' = Append(todo, receipt)
      BY <1>1, <2>2, QueueGrows
    <2>. QED
      BY <1>3, <2>1, <2>2
  <1>. SUFFICES ASSUME NEW q \in Queued', q.id \in DOMAIN pending_actions'
                PROVE  /\ q.kind = pending_actions'[q.id].kind
                       /\ q.text = pending_actions'[q.id].text
    BY MatchedQueued
  <1>6. CASE q \in Queued
    BY <1>1, <1>2, <1>6, MatchedQueued DEF KeptActions
  <1>. QED
    BY <1>4, <1>5, <1>6

\* An edit moves no letter, brings in new ones or drops some.
LEMMA EditApart ==
    ASSUME FlowInv, FlowEvent, KeptActions, Edits
    PROVE  NoLetterTwice' /\ RecoveryApart'
  <1>1. Apart /\ RecoveryApart /\ HInv
    BY TwiceNowhere DEF FlowInv
  <1>2. Elsewhere' \subseteq Elsewhere
    BY EventPlaces DEF Edits
  <1>3. NoLetterTwice'
    <2>1. PICK fresh : /\ fresh \cap Present = {}
                       /\ Letters(composer'.text) \subseteq Letters(composer.text) \cup fresh
      BY DEF Edits
    <2>2. NoneTwice(Elsewhere')
      BY <1>1, <1>2, FewerPlaces DEF Apart
    <2>3. IsInjective(composer'.text)
      BY <1>1 DEF Apart, Edits
    <2>4. \A place \in Elsewhere' : Letters(place[3]) \cap Letters(composer'.text) = {}
      BY <1>1, <1>2, <2>1, HereAndElsewhere DEF Apart
    <2>5. Apart'
      BY <2>2, <2>3, <2>4 DEF Apart, NoneTwice
    <2>. QED
      BY <2>5, TwiceNowhereNext
  <1>4. RecoveryApart'
    <2>. SUFFICES ASSUME NEW id \in DOMAIN pending_actions',
                         NEW recovery \in pending_actions'[id].recovery, MayReturn(id)'
                  PROVE  /\ IsInjective(recovery.composer.text)
                         /\ \A place \in Elsewhere' : place[2] # id =>
                               Letters(place[3]) \cap Letters(recovery.composer.text) = {}
      BY DEF RecoveryApart
    <2>1. id # next_action_id
      BY DEF Edits, NoCommit
    <2>2. id \in DOMAIN pending_actions /\ recovery \in pending_actions[id].recovery
      BY <2>1 DEF KeptActions
    <2>3. MayReturn(id)
      BY <2>2, EventPlaces
    <2>. QED
      BY <1>1, <1>2, <2>2, <2>3 DEF RecoveryApart
  <1>. QED
    BY <1>3, <1>4

\* A commit moves the letters of the composition, or brings in those of the candidate;
\* what it could bring back is nowhere else.
LEMMA CommitApart ==
    ASSUME FlowInv, FlowEvent, KeptActions, NEW text \in Choosable, Commits(text)
    PROVE  NoLetterTwice' /\ RecoveryApart'
  <1>. DEFINE moved == <<"underway", next_action_id, text>>
  <1>1. Apart /\ RecoveryApart /\ HInv
    BY TwiceNowhere DEF FlowInv
  <1>2. Elsewhere' \subseteq Elsewhere \cup {moved}
    BY EventPlaces
  <1>3. IsInjective(text)
    BY <1>1 DEF Choosable, Apart
  <1>4. \A place \in Elsewhere : Letters(place[3]) \cap Letters(text) = {}
    <2>1. text = composer.text \/ Letters(text) \cap (Present \ Letters(composer.text)) = {}
      BY DEF Choosable
    <2>. QED
      BY <1>1, <2>1, HereAndElsewhere DEF Apart
  <1>5. moved[3] = text /\ moved[2] = next_action_id
    OBVIOUS
  <1>. HIDE DEF moved
  <1>6. NoLetterTwice'
    <2>1. NoneTwice(Elsewhere \cup {moved})
      BY <1>1, <1>3, <1>4, <1>5, OnePlaceMore DEF Apart
    <2>2. NoneTwice(Elsewhere')
      BY <1>2, <2>1, FewerPlaces
    <2>3. NoneTwice(Elsewhere)'
      BY <2>2 DEF NoneTwice
    <2>. QED
      BY <2>3, ClearedNowhere DEF Commits
  <1>7. RecoveryApart'
    <2>. SUFFICES ASSUME NEW id \in DOMAIN pending_actions',
                         NEW recovery \in pending_actions'[id].recovery
                  PROVE  /\ IsInjective(recovery.composer.text)
                         /\ \A place \in Elsewhere' : place[2] # id =>
                               Letters(place[3]) \cap Letters(recovery.composer.text) = {}
      BY DEF RecoveryApart
    <2>1. id = next_action_id
      <3>1. /\ RecoveryFresh' /\ next_action_id' \in Int /\ next_action_id \in Int
            /\ DOMAIN pending_actions' \subseteq 1..(next_action_id' - 1)
            /\ next_action_id' = next_action_id \/ next_action_id' = next_action_id + 1
        <4>1. LInv' /\ HostEvent /\ LInv
          BY <1>1, FlowEventIsHostEvent, EventIssues DEF HInv, HostEvent
        <4>2. PICK settled, d : Settles(settled, d)
          BY <4>1, ProcessEventLedger DEF HostEvent, LedgerKept
        <4>3. next_action_id \in Int
          BY <1>1, OrderTypes
        <4>. QED
          BY <4>1, <4>2, <4>3 DEF LInv, IInv, LedgerSound, Typed, Settles
      <3>2. id = next_action_id' - 1
        BY <3>1 DEF RecoveryFresh
      <3>3. next_action_id \in 1..(next_action_id' - 1)
        BY <3>1 DEF Commits
      <3>4. next_action_id' = next_action_id + 1
        <4>. DEFINE n == next_action_id
                    m == next_action_id'
        <4>1. m \in Int /\ n \in Int /\ n \in 1..(m - 1) /\ (m = n \/ m = n + 1)
          BY <3>1, <3>3
        <4>. HIDE DEF n, m
        <4>2. m = n + 1
          BY <4>1
        <4>. QED
          BY <4>2 DEF n, m
      <3>. QED
        BY <3>1, <3>2, <3>4
    <2>2. recovery.composer = composer
      BY <2>1 DEF Commits
    <2>. QED
      BY <1>1, <1>2, <1>5, <2>1, <2>2 DEF Apart
  <1>. QED
    BY <1>6, <1>7

\* An event.
LEMMA EventKeepsLetters ==
    ASSUME FlowInv, FlowEvent
    PROVE  FlowInv'
  <1>1. /\ HInv /\ Ordered /\ HostEvent /\ FlowEffect
        /\ UNCHANGED <<answers, document>>
    BY FlowEventIsHostEvent, EventFlow DEF FlowInv, HInv, HostEvent, ReceiveResult
  <1>2. HInv' /\ Ordered' /\ Matched'
    BY <1>1, HostEventStep, EventOrdered, EventMatched
  <1>3. OneAnswer' /\ document' \in Text
    BY <1>1 DEF FlowInv, OneAnswer
  <1>4. NoLetterTwice' /\ RecoveryApart'
    BY <1>1, EditApart, CommitApart DEF FlowEffect
  <1>. QED
    BY <1>2, <1>3, <1>4 DEF FlowInv

-----------------------------------------------------------------------------
(* What a host does.                                                       *)

Gathered(places) == UNION {Letters(place[3]) : place \in places}

\* The letters of some places go to one, which may be one of them.
Moves(from, to) ==
    /\ from \subseteq Elsewhere
    /\ Elsewhere' \subseteq (Elsewhere \ from) \cup {to}
    /\ IsInjective(to[3])
    /\ Letters(to[3]) \subseteq Gathered(from)
    /\ \A place \in from : place[2] = to[2] \/ ~MayReturn(place[2])'
    /\ \/ TakenAway
       \/ /\ Elsewhere' = (Elsewhere \ from) \cup {to}
          /\ Letters(to[3]) = Gathered(from)

\* Moving letters doubles none.
LEMMA MovesApart ==
    ASSUME FlowInv, NEW from, NEW to, Moves(from, to),
           \A id \in DOMAIN pending_actions : MayReturn(id)' => MayReturn(id),
           UNCHANGED <<composer, pending_actions>>
    PROVE  NoLetterTwice' /\ RecoveryApart'
  <1>1. Apart /\ RecoveryApart
    BY TwiceNowhere DEF FlowInv
  <1>2. \A x \in Letters(to[3]) : \E place \in from : place \in Elsewhere /\ x \in Letters(place[3])
    BY DEF Moves, Gathered
  <1>3. NoLetterTwice'
    <2>1. NoneTwice(Elsewhere \ from)
      BY <1>1, FewerPlaces DEF Apart
    <2>2. \A place \in Elsewhere \ from : Letters(place[3]) \cap Letters(to[3]) = {}
      BY <1>1, <1>2 DEF Apart, NoneTwice
    <2>3. NoneTwice((Elsewhere \ from) \cup {to})
      BY <2>1, <2>2, OnePlaceMore DEF Moves
    <2>4. NoneTwice(Elsewhere')
      BY <2>3, FewerPlaces DEF Moves
    <2>5. \A place \in Elsewhere' : Letters(place[3]) \cap Letters(composer.text) = {}
      BY <1>1, <1>2 DEF Apart, Moves
    <2>6. Apart'
      BY <1>1, <2>4, <2>5 DEF Apart, NoneTwice
    <2>. QED
      BY <2>6, TwiceNowhereNext
  <1>4. RecoveryApart'
    <2>. SUFFICES ASSUME NEW id \in DOMAIN pending_actions,
                         NEW recovery \in pending_actions[id].recovery, MayReturn(id)'
                  PROVE  /\ IsInjective(recovery.composer.text)
                         /\ \A place \in Elsewhere' : place[2] # id =>
                               Letters(place[3]) \cap Letters(recovery.composer.text) = {}
      BY DEF RecoveryApart
    <2>1. /\ IsInjective(recovery.composer.text)
          /\ \A place \in Elsewhere : place[2] # id =>
                Letters(place[3]) \cap Letters(recovery.composer.text) = {}
      BY <1>1 DEF RecoveryApart
    <2>2. ASSUME to[2] # id
          PROVE  Letters(to[3]) \cap Letters(recovery.composer.text) = {}
      <3>1. \A place \in from : place[2] # id
        BY <2>2 DEF Moves
      <3>. QED
        BY <1>2, <2>1, <3>1
    <2>. QED
      BY <2>1, <2>2 DEF Moves
  <1>. QED
    BY <1>3, <1>4

\* What performing the first action received does to queue and answers.
LEMMA PerformFacts ==
    ASSUME FlowInv, NEW disposition \in HostDispositions, FlowPerform(disposition)
    PROVE  LET first == Head(todo)
           IN  /\ HInv' /\ Ordered' /\ Matched' /\ OneAnswer'
               /\ first \in Queued /\ first \in Receipt /\ first.id \notin Refused
               /\ Queued = Queued' \cup {first} /\ \A q \in Queued' : q.id # first.id
               /\ \A id \in Refused' : id \in Refused \/ (id = first.id /\ disposition \in Refusals)
               /\ Refused \subseteq Refused'
               /\ disposition \in Refusals /\ first.id \in OfKind("CommitText")
                    => first.id \in Refused'
               /\ \A id \in DOMAIN pending_actions : MayReturn(id)' => MayReturn(id)
  <1>. DEFINE first == Head(todo)
              answer == [id |-> first.id, disposition |-> disposition]
  <1>1. /\ HInv /\ HostTypes /\ Ordered /\ Matched /\ OneAnswer /\ Perform(disposition)
        /\ todo # <<>> /\ todo' = Tail(todo) /\ answers' = answers \cup {answer}
        /\ UNCHANGED <<pending_actions, next_action_id>>
    BY DEF FlowInv, HInv, FlowPerform, Perform, vars, ledger
  <1>2. HInv'
    BY <1>1, PerformStep
  <1>3. Queued = Queued' \cup {first} /\ first \in Queued /\ first \in Receipt
    BY <1>1, QueueShrinks
  <1>4. /\ Ordered' /\ first.id \in Int
        /\ \A i \in DOMAIN todo' : todo'[i].id \in Int /\ first.id < todo'[i].id
        /\ \A a \in answers : a.id \in Int /\ a.id < first.id
    BY <1>1, PerformOrdered
  <1>. HIDE DEF first
  <1>5. /\ \A q \in Queued' : q.id # first.id
        /\ \A a \in answers : a.id # first.id
    <2>1. \A q \in Queued' : q.id \in Int /\ first.id < q.id
      BY <1>4 DEF Queued
    <2>. QED
      BY <1>4, <2>1
  <1>6. OneAnswer'
    BY <1>1, <1>5 DEF OneAnswer
  <1>7. Matched'
    BY <1>1, <1>3, MatchedQueued
  <1>8. /\ first.id \notin Refused
        /\ \A id \in Refused' : id \in Refused \/ (id = first.id /\ disposition \in Refusals)
        /\ Refused \subseteq Refused'
        /\ disposition \in Refusals /\ first.id \in OfKind("CommitText") => first.id \in Refused'
    <2>1. answer.id = first.id /\ answer.disposition = disposition
      OBVIOUS
    <2>. HIDE DEF answer
    <2>2. OfKind("CommitText")' = OfKind("CommitText")
      BY <1>1 DEF OfKind
    <2>3. /\ \A a \in answers' : a \in answers \/ a = answer
          /\ answer \in answers' /\ answers \subseteq answers'
      BY <1>1
    <2>4. first.id \notin Refused
      BY <1>5 DEF Refused
    <2>5. Refused \subseteq Refused'
      BY <2>2, <2>3 DEF Refused
    <2>6. \A id \in Refused' : id \in Refused \/ (id = first.id /\ disposition \in Refusals)
      BY <2>1, <2>2, <2>3 DEF Refused
    <2>7. disposition \in Refusals /\ first.id \in OfKind("CommitText") => first.id \in Refused'
      BY <2>1, <2>2, <2>3 DEF Refused
    <2>. QED
      BY <2>4, <2>5, <2>6, <2>7
  <1>9. \A id \in DOMAIN pending_actions : MayReturn(id)' => MayReturn(id)
    <2>1. \A id : (\E i \in DOMAIN todo' : todo'[i].id = id) => \E q \in Queued' : q.id = id
      BY DEF Queued
    <2>2. \A id : (\E q \in Queued : q.id = id) => \E i \in DOMAIN todo : todo[i].id = id
      BY DEF Queued
    <2>. QED
      BY <1>3, <1>8, <2>1, <2>2 DEF MayReturn
  <1>. QED
    BY <1>2, <1>3, <1>4, <1>5, <1>6, <1>7, <1>8, <1>9 DEF first

\* A commit performed: its letters go into the document.
LEMMA AppliedMoves ==
    ASSUME FlowInv, FlowPerform("Applied"), "Applied" \in HostDispositions,
           Head(todo).kind = "CommitText"
    PROVE  /\ document' \in Text
           /\ \E from, to : Moves(from, to)
  <1>. DEFINE first == Head(todo)
              written == <<"document", 0, document>>
              sent    == <<"underway", first.id, first.text>>
              to      == <<"document", 0, document \o first.text>>
  <1>1. /\ first \in Queued /\ first \in Receipt /\ first.id \notin Refused
        /\ Queued = Queued' \cup {first} /\ \A q \in Queued' : q.id # first.id
        /\ Refused' = Refused
    BY PerformFacts DEF Refusals
  <1>2. /\ UNCHANGED pending_actions /\ document' = document \o first.text
        /\ document \in Text /\ first.text \in Text /\ Apart
    BY <1>1, TwiceNowhere DEF FlowInv, FlowPerform, Perform, vars, ledger, DocumentAfter, Receipt
  <1>. HIDE DEF first
  <1>3. first.kind = "CommitText"
    BY DEF first
  <1>4. /\ Underway = Underway' \cup {first} /\ first \notin Underway'
        /\ \A action \in Underway' : action.id # first.id
    BY <1>1, <1>3, QueuedRange
  <1>5. /\ written \in Elsewhere /\ sent \in Elsewhere /\ written # sent
        /\ Elsewhere' = (Elsewhere \ {written, sent}) \cup {to}
    BY <1>1, <1>2, <1>4 DEF Elsewhere
  <1>6. /\ document' \in Text /\ IsInjective(document \o first.text)
        /\ Letters(document \o first.text) = Letters(document) \cup Letters(first.text)
    <2>1. /\ IsInjective(document) /\ IsInjective(first.text)
          /\ Letters(document) \cap Letters(first.text) = {}
      <3>1. written[3] = document /\ sent[3] = first.text
        OBVIOUS
      <3>. QED
        BY <1>2, <1>5, <3>1 DEF Apart, NoneTwice
    <2>. QED
      BY <1>2, <2>1, JoinedLetters
  <1>7. first.id \notin Refused' /\ \A i \in DOMAIN todo' : todo'[i].id # first.id
    <2>1. \A i \in DOMAIN todo' : todo'[i] \in Queued'
      BY DEF Queued
    <2>. QED
      BY <1>1, <2>1
  <1>8. /\ written[2] = to[2] /\ sent[2] = first.id
        /\ written[3] = document /\ sent[3] = first.text /\ to[3] = document \o first.text
    OBVIOUS
  <1>. HIDE DEF written, sent, to
  <1>9. Gathered({written, sent}) = Letters(document) \cup Letters(first.text)
    BY <1>8 DEF Gathered
  <1>10. \A place \in {written, sent} : place[2] = to[2] \/ ~MayReturn(place[2])'
    BY <1>7, <1>8 DEF MayReturn
  <1>11. Moves({written, sent}, to)
    BY <1>5, <1>6, <1>8, <1>9, <1>10 DEF Moves
  <1>. QED
    BY <1>6, <1>11

\* A commit not performed: it is refused, or nobody waits for it any more, or its host
\* says that another text took its place.
LEMMA RefusedMoves ==
    ASSUME FlowInv, NEW disposition \in HostDispositions, FlowPerform(disposition),
           disposition # "Applied", Head(todo).kind = "CommitText"
    PROVE  \E from, to : Moves(from, to)
  <1>. DEFINE first == Head(todo)
              sent  == <<"underway", first.id, first.text>>
              to    == <<"refused", first.id, first.text>>
  <1>1. /\ first \in Queued /\ first \in Receipt /\ first.id \notin Refused
        /\ Queued = Queued' \cup {first} /\ \A q \in Queued' : q.id # first.id
        /\ \A id \in Refused' : id \in Refused \/ (id = first.id /\ disposition \in Refusals)
        /\ Refused \subseteq Refused'
        /\ disposition \in Refusals /\ first.id \in OfKind("CommitText") => first.id \in Refused'
    BY PerformFacts
  <1>2. /\ UNCHANGED pending_actions /\ document' = document /\ Apart /\ Matched
        /\ todo # <<>> /\ todo' = Tail(todo)
        /\ [id |-> first.id, disposition |-> disposition] \in answers'
    BY TwiceNowhere DEF FlowInv, FlowPerform, Perform, vars, ledger, DocumentAfter
  <1>0. disposition \in Refusals \/ disposition = "Superseded"
    BY SessionAssumption DEF Refusals, Dispositions
  <1>10. TakenAway \/ (disposition \in Refusals /\ first.id \in DOMAIN pending_actions)
    BY <1>0, <1>2 DEF TakenAway
  <1>. HIDE DEF first
  <1>3. first.kind = "CommitText"
    BY DEF first
  <1>4. /\ Underway = Underway' \cup {first} /\ first \notin Underway'
        /\ \A action \in Underway' : action.id # first.id
    BY <1>1, <1>3, QueuedRange
  <1>5. first.id \in DOMAIN pending_actions =>
          pending_actions[first.id].kind = "CommitText" /\ pending_actions[first.id].text = first.text
    BY <1>1, <1>2, <1>3, MatchedQueued
  <1>6. /\ sent \in Elsewhere
        /\ Elsewhere' \subseteq (Elsewhere \ {sent}) \cup {to}
        /\ disposition \in Refusals /\ first.id \in DOMAIN pending_actions
              => Elsewhere' = (Elsewhere \ {sent}) \cup {to}
    <2>1. sent \in Elsewhere
      BY <1>4 DEF Elsewhere
    <2>2. \A id \in Refused' : id \in DOMAIN pending_actions
      BY <1>2 DEF Refused, OfKind
    <2>3. Elsewhere' \subseteq (Elsewhere \ {sent}) \cup {to}
      BY <1>1, <1>2, <1>4, <1>5, <2>2 DEF Elsewhere
    <2>4. ASSUME disposition \in Refusals, first.id \in DOMAIN pending_actions
          PROVE  (Elsewhere \ {sent}) \cup {to} \subseteq Elsewhere'
      <3>1. first.id \in Refused'
        BY <1>1, <1>5, <2>4 DEF OfKind
      <3>. QED
        BY <1>1, <1>2, <1>4, <1>5, <2>4, <3>1 DEF Elsewhere
    <2>. QED
      BY <2>1, <2>3, <2>4
  <1>7. sent[2] = to[2] /\ sent[3] = first.text /\ to[3] = first.text
    OBVIOUS
  <1>. HIDE DEF sent, to
  <1>8. IsInjective(first.text)
    BY <1>2, <1>6, <1>7 DEF Apart, NoneTwice
  <1>9. Gathered({sent}) = Letters(first.text)
    BY <1>7 DEF Gathered
  <1>11. Moves({sent}, to)
    BY <1>6, <1>7, <1>8, <1>9, <1>10 DEF Moves
  <1>. QED
    BY <1>11

\* Any other action changes the document alone, by a letter.
LEMMA OtherMoves ==
    ASSUME FlowInv, NEW disposition \in HostDispositions, FlowPerform(disposition),
           Head(todo).kind # "CommitText"
    PROVE  /\ document' \in Text
           /\ \E from, to : Moves(from, to)
  <1>. DEFINE first == Head(todo)
              written == <<"document", 0, document>>
              to      == <<"document", 0, document'>>
  <1>1. /\ first \in Queued /\ first \in Receipt
        /\ Queued = Queued' \cup {first} /\ Refused \subseteq Refused'
        /\ \A id \in Refused' : id \in Refused \/ (id = first.id /\ disposition \in Refusals)
    BY PerformFacts
  <1>2. /\ UNCHANGED pending_actions /\ document \in Text /\ Apart /\ Matched
        /\ todo # <<>> /\ todo' = Tail(todo)
        /\ \/ document' = document
           \/ first.kind = "DeleteBackward" /\ document # <<>> /\ document' = Front(document)
    BY TwiceNowhere DEF FlowInv, FlowPerform, Perform, vars, ledger, DocumentAfter
  <1>3. document' = document \/ TakenAway
    BY <1>2 DEF TakenAway
  <1>. HIDE DEF first
  <1>4. first.kind # "CommitText"
    BY DEF first
  <1>5. Underway' = Underway
    BY <1>1, <1>4, QueuedRange
  <1>6. Refused' = Refused
    <2>1. \A id \in Refused' : id \in OfKind("CommitText")
      BY <1>2 DEF Refused, OfKind
    <2>2. first.id \notin OfKind("CommitText")
      BY <1>1, <1>2, <1>4, MatchedQueued DEF OfKind
    <2>. QED
      BY <1>1, <2>1, <2>2
  <1>7. written \in Elsewhere /\ Elsewhere' = (Elsewhere \ {written}) \cup {to}
    BY <1>2, <1>5, <1>6 DEF Elsewhere
  <1>8. IsInjective(document)
    BY <1>2, <1>7 DEF Apart, NoneTwice
  <1>9. /\ document' \in Text /\ IsInjective(document')
        /\ Letters(document') \subseteq Letters(document)
    BY <1>2, <1>8, FrontLetters
  <1>10. written[2] = to[2] /\ written[3] = document /\ to[3] = document'
    OBVIOUS
  <1>. HIDE DEF written, to
  <1>11. Gathered({written}) = Letters(document)
    BY <1>10 DEF Gathered
  <1>12. Moves({written}, to)
    BY <1>3, <1>7, <1>9, <1>10, <1>11 DEF Moves
  <1>. QED
    BY <1>9, <1>12

\* A host performs.
LEMMA PerformKeepsLetters ==
    ASSUME FlowInv, NEW disposition \in HostDispositions, FlowPerform(disposition)
    PROVE  FlowInv' /\ \E from, to : Moves(from, to)
  <1>1. /\ HInv' /\ Ordered' /\ Matched' /\ OneAnswer'
        /\ \A id \in DOMAIN pending_actions : MayReturn(id)' => MayReturn(id)
    BY PerformFacts
  <1>2. /\ UNCHANGED <<pending_actions, composer>> /\ document \in Text
        /\ document' = DocumentAfter(Head(todo), disposition)
    BY DEF FlowInv, FlowPerform, Perform, vars, ledger, view
  <1>3. document' \in Text /\ \E from, to : Moves(from, to)
    <2>1. CASE Head(todo).kind # "CommitText"
      BY <2>1, OtherMoves
    <2>2. CASE Head(todo).kind = "CommitText" /\ disposition = "Applied"
      BY <2>2, AppliedMoves
    <2>3. CASE Head(todo).kind = "CommitText" /\ disposition # "Applied"
      BY <1>2, <2>3, RefusedMoves DEF DocumentAfter
    <2>. QED
      BY <2>1, <2>2, <2>3
  <1>4. NoLetterTwice' /\ RecoveryApart'
    BY <1>1, <1>2, <1>3, MovesApart
  <1>. QED
    BY <1>1, <1>3, <1>4 DEF FlowInv
-----------------------------------------------------------------------------
(* An acknowledgement arrives.                                             *)

Arrives(answer) ==
    /\ AcknowledgeAction(answer.id, answer.disposition)
    /\ answers' = answers \/ answers' = answers \ {answer}
    /\ UNCHANGED <<todo, shown, document>>

\* The session has a refused commit back.
Restored(id) ==
    /\ id \in Refused /\ composer.text = <<>>
    /\ \E recovery \in pending_actions[id].recovery :
          composer'.text = recovery.composer.text

\* What an acknowledgement settles is nowhere any more but where the session restores it.
LEMMA ArrivalFacts ==
    ASSUME FlowInv, NEW answer \in answers, Arrives(answer)
    PROVE  /\ HInv' /\ Ordered' /\ Matched' /\ OneAnswer'
           /\ DOMAIN pending_actions' = DOMAIN pending_actions \ {answer.id}
           /\ \A id \in DOMAIN pending_actions' : pending_actions'[id] = pending_actions[id]
           /\ next_action_id' = next_action_id /\ answer.id \in ActionId
           /\ Underway' = Underway /\ Refused' = Refused \ {answer.id}
  <1>1. /\ HInv /\ LInv /\ HostTypes /\ Ordered /\ Matched /\ OneAnswer
        /\ answer.id \in ActionId /\ answer.disposition \in HostDispositions
        /\ AcknowledgeAction(answer.id, answer.disposition)
        /\ answers' = answers \/ answers' = answers \ {answer}
        /\ UNCHANGED <<todo, shown, document>>
    BY DEF FlowInv, HInv, HostTypes, Arrives
  <1>2. /\ DOMAIN pending_actions' = DOMAIN pending_actions \ {answer.id}
        /\ \A id \in DOMAIN pending_actions' : pending_actions'[id] = pending_actions[id]
        /\ next_action_id' = next_action_id
    BY <1>1, Acknowledged
  <1>3. HInv'
    BY <1>1, ArrivalStep
  <1>4. Ordered' /\ Matched' /\ OneAnswer'
    BY <1>1, <1>2 DEF Ordered, Matched, OneAnswer
  <1>5. Underway' = Underway
    BY <1>1 DEF Underway
  <1>6. Refused' = Refused \ {answer.id}
    <2>1. OfKind("CommitText")' = OfKind("CommitText") \ {answer.id}
      BY <1>2 DEF OfKind
    <2>2. \A id : id # answer.id =>
            \A a : a.id = id => (a \in answers' <=> a \in answers)
      BY <1>1
    <2>. QED
      BY <2>1, <2>2 DEF Refused
  <1>. QED
    BY <1>1, <1>2, <1>3, <1>4, <1>5, <1>6

\* The places that are left.
LEMMA ArrivalPlaces ==
    ASSUME FlowInv, NEW answer \in answers, Arrives(answer)
    PROVE  /\ Elsewhere' \subseteq Elsewhere
           /\ answer.id \notin Refused => Elsewhere' = Elsewhere
           /\ \A place \in Elsewhere' : answer.id \in Refused => place[2] # answer.id
           /\ \A place \in Elsewhere \ Elsewhere' :
                 place[3] = pending_actions[answer.id].text
           /\ \A id \in DOMAIN pending_actions : MayReturn(id)' => MayReturn(id)
  <1>1. /\ DOMAIN pending_actions' = DOMAIN pending_actions \ {answer.id}
        /\ \A id \in DOMAIN pending_actions' : pending_actions'[id] = pending_actions[id]
        /\ Underway' = Underway /\ Refused' = Refused \ {answer.id}
        /\ answer.id \in ActionId
        /\ UNCHANGED <<todo, document>>
    BY ArrivalFacts DEF Arrives
  <1>2. \A id \in Refused' : id \in DOMAIN pending_actions'
    BY DEF Refused, OfKind
  <1>3. Elsewhere' = {<<"document", 0, document>>}
                     \cup {<<"underway", action.id, action.text>> : action \in Underway}
                     \cup {<<"refused", id, pending_actions[id].text>> : id \in Refused \ {answer.id}}
    BY <1>1, <1>2 DEF Elsewhere
  <1>4. \A action \in Underway : action.id # answer.id
    <2>1. \A i \in DOMAIN todo : answer.id < todo[i].id
      BY DEF FlowInv, Ordered
    <2>2. HInv /\ Ordered /\ \A q \in Queued : q.id \in Int /\ answer.id \in Int
      BY OrderTypes DEF FlowInv, Queued
    <2>. QED
      BY <2>1, <2>2, QueuedRange DEF Queued
  <1>5. answer.id # 0
    BY <1>1 DEF ActionId
  <1>6. \A place \in Elsewhere' : place[2] # answer.id
    BY <1>3, <1>4, <1>5
  <1>7. \A place \in Elsewhere \ Elsewhere' : place[3] = pending_actions[answer.id].text
    BY <1>3 DEF Elsewhere
  <1>8. /\ Elsewhere' \subseteq Elsewhere
        /\ answer.id \notin Refused => Elsewhere' = Elsewhere
    BY <1>3 DEF Elsewhere
  <1>9. \A id \in DOMAIN pending_actions : MayReturn(id)' => MayReturn(id)
    BY <1>1 DEF MayReturn
  <1>. QED
    BY <1>6, <1>7, <1>8, <1>9

\* The session restores what was refused, or leaves the composition as it is.
LEMMA ArrivalEffect ==
    ASSUME FlowInv, NEW answer \in answers, Arrives(answer)
    PROVE  \/ Restored(answer.id)
           \/ /\ composer' = composer
              /\ answer.id \in Refused => reconciliation_required' \/ state_revision' = U64Max
  <1>. DEFINE id          == answer.id
              disposition == answer.disposition
  <1>1. AcknowledgeAction(id, disposition) /\ OneAnswer /\ LInv
    BY DEF Arrives, FlowInv, HInv
  <1>2. CASE id \notin DOMAIN pending_actions
    BY <1>1, <1>2 DEF AcknowledgeAction, view, Refused, OfKind
  <1>3. ASSUME id \in DOMAIN pending_actions, Resolve(id, disposition)
        PROVE  composer' = composer /\ (id \in Refused => reconciliation_required')
    <2>1. id \in Refused => pending_actions[id].kind = "CommitText" /\ disposition \in Refusals
      BY <1>1 DEF Refused, OfKind, OneAnswer
    <2>. QED
      BY <1>3, <2>1 DEF Resolve, view
  <1>4. ASSUME id \in DOMAIN pending_actions, pending_actions[id].kind = "CommitText",
               disposition \in Refusals, NEW recovery \in pending_actions[id].recovery,
               CanRestoreCommit(recovery), RestoreCommit(id, recovery, disposition)
        PROVE  \/ Restored(id)
               \/ composer' = composer /\ state_revision' = U64Max
    <2>1. id \in Refused /\ composer.text = <<>>
      BY <1>4 DEF Refused, OfKind, CanRestoreCommit
    <2>2. CASE Exhausted
      BY <1>4, <2>2 DEF RestoreCommit, Exhausted, view
    <2>3. CASE ~Exhausted
      BY <1>4, <2>1, <2>3 DEF RestoreCommit, Restored
    <2>. QED
      BY <2>2, <2>3
  <1>. HIDE DEF id, disposition
  <1>5. CASE id \in DOMAIN pending_actions
    <2>1. \/ Resolve(id, disposition)
          \/ \E recovery \in pending_actions[id].recovery :
                /\ pending_actions[id].kind = "CommitText" /\ disposition \in Refusals
                /\ CanRestoreCommit(recovery) /\ RestoreCommit(id, recovery, disposition)
      BY <1>1, <1>5 DEF AcknowledgeAction, AcknowledgePending
    <2>. QED
      BY <1>3, <1>4, <1>5, <2>1 DEF id, disposition
  <1>. QED
    BY <1>2, <1>5 DEF id

\* No letter is doubled.
LEMMA ArrivalKeepsLetters ==
    ASSUME FlowInv, NEW answer \in answers, Arrives(answer)
    PROVE  FlowInv'
  <1>1. /\ HInv' /\ Ordered' /\ Matched' /\ OneAnswer' /\ document' \in Text
        /\ DOMAIN pending_actions' = DOMAIN pending_actions \ {answer.id}
        /\ \A id \in DOMAIN pending_actions' : pending_actions'[id] = pending_actions[id]
    BY ArrivalFacts DEF FlowInv, Arrives
  <1>2. /\ Elsewhere' \subseteq Elsewhere
        /\ \A place \in Elsewhere' : answer.id \in Refused => place[2] # answer.id
        /\ \A id \in DOMAIN pending_actions : MayReturn(id)' => MayReturn(id)
    BY ArrivalPlaces
  <1>3. Apart /\ RecoveryApart
    BY TwiceNowhere DEF FlowInv
  <1>4. RecoveryApart'
    BY <1>1, <1>2, <1>3 DEF RecoveryApart
  <1>5. NoneTwice(Elsewhere')
    BY <1>2, <1>3, FewerPlaces DEF Apart
  <1>6. /\ IsInjective(composer'.text)
        /\ \A place \in Elsewhere' : Letters(place[3]) \cap Letters(composer'.text) = {}
    <2>1. CASE composer' = composer
      BY <1>2, <1>3, <2>1 DEF Apart
    <2>2. CASE Restored(answer.id)
      <3>1. PICK recovery \in pending_actions[answer.id].recovery :
              composer'.text = recovery.composer.text
        BY <2>2 DEF Restored
      <3>2. answer.id \in DOMAIN pending_actions /\ MayReturn(answer.id) /\ answer.id \in Refused
        BY <2>2 DEF Restored, MayReturn, Refused, OfKind
      <3>. QED
        BY <1>2, <1>3, <3>1, <3>2 DEF RecoveryApart
    <2>. QED
      BY <2>1, <2>2, ArrivalEffect
  <1>7. Apart'
    BY <1>5, <1>6 DEF Apart, NoneTwice
  <1>. QED
    BY <1>1, <1>4, <1>7, TwiceNowhereNext DEF FlowInv

-----------------------------------------------------------------------------
(* The invariant holds.                                                    *)

LEMMA FlowStart == FlowInit => FlowInv
  <1>. SUFFICES ASSUME FlowInit PROVE FlowInv
    OBVIOUS
  <1>1. /\ HInv /\ todo = <<>> /\ answers = {} /\ document = <<>>
        /\ composer = EmptyComposer /\ pending_actions = <<>>
    BY HostStart DEF FlowInit, HostInit, Init
  <1>2. DOMAIN todo = {} /\ DOMAIN pending_actions = {}
    BY <1>1
  <1>3. Ordered /\ Matched /\ OneAnswer /\ RecoveryApart
    BY <1>1, <1>2 DEF Ordered, Matched, OneAnswer, RecoveryApart
  <1>4. Elsewhere = {<<"document", 0, <<>>>>}
    BY <1>1, <1>2 DEF Elsewhere, Underway, Refused, OfKind, Range
  <1>5. Apart
    BY <1>1, <1>4, NoLetters DEF Apart, NoneTwice, EmptyComposer
  <1>. QED
    BY <1>1, <1>3, <1>5, NoLetters, TwiceNowhere DEF FlowInv

LEMMA FlowStutter ==
    ASSUME FlowInv, UNCHANGED flowVars
    PROVE  FlowInv'
  <1>1. HInv' /\ UNCHANGED <<allVars, document>>
    BY HostStutter DEF FlowInv, flowVars
  <1>2. UNCHANGED <<todo, answers, pending_actions, next_action_id, composer, document>>
    BY <1>1 DEF allVars, vars, hostVars, ledger, view
  <1>3. Underway' = Underway /\ Refused' = Refused
    BY <1>2 DEF Underway, Refused, OfKind
  <1>4. Elsewhere' = Elsewhere
    BY <1>2, <1>3 DEF Elsewhere
  <1>5. Apart' <=> Apart
    BY <1>2, <1>4 DEF Apart, NoneTwice
  <1>6. Ordered' /\ Matched' /\ OneAnswer' /\ document' \in Text
    BY <1>2 DEF FlowInv, Ordered, Matched, OneAnswer
  <1>7. RecoveryApart'
    <2>1. \A id : MayReturn(id)' => MayReturn(id)
      BY <1>2, <1>3 DEF MayReturn
    <2>. QED
      BY <1>2, <1>4, <2>1 DEF FlowInv, RecoveryApart
  <1>. QED
    BY <1>1, <1>5, <1>6, <1>7, TwiceNowhere, TwiceNowhereNext DEF FlowInv

LEMMA FlowArrivals ==
    ASSUME NEW answer \in answers, Deliver(answer) \/ DeliverAndRepeat(answer), UNCHANGED document
    PROVE  Arrives(answer)
  BY DEF Deliver, DeliverAndRepeat, hostVars, Arrives

LEMMA FlowStep == FlowInv /\ [FlowNext]_flowVars => FlowInv'
  BY EventKeepsLetters, PerformKeepsLetters, FlowArrivals, ArrivalKeepsLetters, FlowStutter
     DEF FlowNext

\* Whatever the host refuses, and however late, often or out of order it acknowledges, a
\* letter the user typed once is never in two places nor twice in one: of any letters,
\* under any limits, with any candidates and hosts of any discipline.
THEOREM LettersNeverDoubled == FlowSpec => []NoLetterTwice
  <1>1. FlowInv => NoLetterTwice
    BY DEF FlowInv
  <1>. QED
    BY <1>1, FlowStart, FlowStep, PTL DEF FlowSpec
-----------------------------------------------------------------------------
(* No letter is lost.                                                      *)

\* What a refused commit would bring back is what was committed.
RecoverySpells ==
    state_revision < U64Max =>
        \A id \in DOMAIN pending_actions : \A recovery \in pending_actions[id].recovery :
            Letters(recovery.composer.text) = Letters(pending_actions[id].text)

SpellInv == FlowInv /\ JInv /\ RecoverySpells

\* What NoLetterLost says of one step.
LetterKept ==
    state_revision' < U64Max /\ next_action_id' < U64Max =>
        Present \subseteq Present' \/ reconciliation_required' \/ TakenAway

\* Any of the texts that may be committed has the letters of the composition.
LEMMA ChoosableSpells ==
    ASSUME IInv, CandidatesSpell, state_revision < U64Max, NEW text \in Choosable
    PROVE  Letters(text) = Letters(composer.text)
  <1>. DEFINE entries == candidate_snapshot.entries
  <1>1. /\ ViewMatchesComposition /\ ~Exhausted
        /\ composer.text \in Text /\ Len(composer.text) <= MaxCompositionTextBytes
    BY SessionAssumption
       DEF IInv, RestSound, ViewSound, Revision, Exhausted, Composers, CompositionWithinLimit
  <1>2. composer.text \in CompositionText
    <2>1. Len(composer.text) \in Nat /\ composer.text \in [1..Len(composer.text) -> Byte]
      BY <1>1, LenProperties DEF Text
    <2>. DEFINE n == Len(composer.text)
    <2>2. n \in 0..MaxCompositionTextBytes
      BY <1>1, <2>1, SessionAssumption
    <2>. QED
      BY <2>1, <2>2 DEF CompositionText
  <1>3. entries = <<>> \/ \E answer \in Generate(composer.text) : entries = answer.texts
    BY <1>1 DEF ViewMatchesComposition
  <1>4. \A id \in DOMAIN entries : Letters(entries[id]) = Letters(composer.text)
    <2>1. DOMAIN <<>> = {}
      OBVIOUS
    <2>. QED
      BY <1>2, <1>3, <2>1 DEF CandidatesSpell
  <1>. QED
    BY <1>4 DEF Choosable

\* A revision never goes back.
LEMMA FlowRevisions ==
    ASSUME JInv, [FlowNext]_flowVars, HInv
    PROVE  /\ JInv' /\ state_revision \in Int /\ state_revision' \in Int
           /\ state_revision <= state_revision'
  <1>1. [Next]_vars
    <2>1. ASSUME FlowEvent PROVE Next
      BY <2>1, FlowEventIsHostEvent DEF HostEvent, Next
    <2>2. ASSUME NEW disposition, FlowPerform(disposition) PROVE UNCHANGED vars
      BY <2>2 DEF FlowPerform, Perform
    <2>3. ASSUME NEW answer \in answers, Deliver(answer) \/ DeliverAndRepeat(answer) PROVE Next
      BY <2>3 DEF Deliver, DeliverAndRepeat, Next, Acknowledge, HInv, HostTypes
    <2>4. ASSUME UNCHANGED flowVars PROVE UNCHANGED vars
      BY <2>4 DEF flowVars, allVars
    <2>. QED
      BY <2>1, <2>2, <2>3, <2>4 DEF FlowNext
  <1>2. JInv' /\ (Pinned \/ UNCHANGED vars)
    BY <1>1, NextKept
  <1>3. state_revision \in Int /\ state_revision' \in Int
    BY <1>2, SessionAssumption DEF JInv, IInv, RestSound, Revision
  <1>. QED
    BY <1>2, <1>3 DEF Pinned, vars

\* What could come back is still what was committed.
LEMMA SpellStep ==
    ASSUME SpellInv, CandidatesSpell, [FlowNext]_flowVars
    PROVE  SpellInv'
  <1>1. /\ FlowInv' /\ FlowInv /\ HInv /\ LInv /\ IInv /\ JInv' /\ RecoverySpells
        /\ state_revision \in Int /\ state_revision' \in Int
        /\ state_revision <= state_revision' /\ U64Max \in Int
    BY FlowStep, FlowRevisions, SessionAssumption DEF SpellInv, FlowInv, HInv, LInv
  <1>2. SUFFICES ASSUME state_revision' < U64Max,
                        NEW id \in DOMAIN pending_actions',
                        NEW recovery \in pending_actions'[id].recovery
                 PROVE  Letters(recovery.composer.text) = Letters(pending_actions'[id].text)
    BY <1>1 DEF SpellInv, RecoverySpells
  <1>3. state_revision < U64Max
    BY <1>1, <1>2
  <1>4. ASSUME id \in DOMAIN pending_actions, recovery \in pending_actions[id].recovery,
               pending_actions'[id].text = pending_actions[id].text
        PROVE  Letters(recovery.composer.text) = Letters(pending_actions'[id].text)
    BY <1>1, <1>3, <1>4 DEF RecoverySpells
  <1>5. CASE FlowEvent
    <2>1. FlowEffect
      BY <1>1, <1>5, EventFlow
    <2>2. CASE id # next_action_id
      BY <1>4, <2>1, <2>2 DEF FlowEffect, KeptActions
    <2>3. CASE id = next_action_id
      <3>1. ~NoCommit
        BY <1>2, <2>3 DEF NoCommit
      <3>2. PICK text \in Choosable : Commits(text)
        BY <2>1, <3>1 DEF FlowEffect, Edits
      <3>3. Letters(text) = Letters(composer.text)
        BY <1>1, <1>3, ChoosableSpells
      <3>. QED
        BY <2>3, <3>2, <3>3 DEF Commits
    <2>. QED
      BY <2>2, <2>3
  <1>6. CASE \E disposition \in HostDispositions : FlowPerform(disposition)
    BY <1>4, <1>6 DEF FlowPerform, Perform, vars, ledger
  <1>7. ASSUME NEW answer \in answers, Arrives(answer)
        PROVE  Letters(recovery.composer.text) = Letters(pending_actions'[id].text)
    BY <1>1, <1>4, <1>7, ArrivalFacts
  <1>8. CASE UNCHANGED flowVars
    BY <1>4, <1>8 DEF flowVars, allVars, vars, ledger
  <1>. QED
    BY <1>5, <1>6, <1>7, <1>8, FlowArrivals DEF FlowNext

LEMMA HereAndElsewhereNext ==
    Present' = Letters(composer'.text) \cup UNION {Letters(place[3]) : place \in Elsewhere'}
  <1>1. (Present = Letters(composer.text) \cup UNION {Letters(place[3]) : place \in Elsewhere})'
    BY HereAndElsewhere, PTL
  <1>. QED
    BY <1>1

\* An event drops no letter unless the user says so.
LEMMA EventKeepsPresent ==
    ASSUME SpellInv, CandidatesSpell, FlowEvent, JInv'
    PROVE  LetterKept
  <1>. SUFFICES ASSUME state_revision' < U64Max, next_action_id' < U64Max, ~Removal
                PROVE  Present \subseteq Present'
    BY DEF LetterKept, TakenAway
  <1>1. /\ FlowInv /\ HInv /\ LInv /\ IInv /\ JInv /\ FlowEffect /\ U64Max \in Int
        /\ state_revision <= state_revision' /\ state_revision \in Int /\ state_revision' \in Int
    <2>1. [FlowNext]_flowVars
      BY DEF FlowNext
    <2>. QED
      BY <2>1, EventFlow, FlowRevisions, SessionAssumption DEF SpellInv, FlowInv, HInv, LInv
  <1>2. ~Exhausts /\ state_revision < U64Max
    BY <1>1 DEF Exhausts
  <1>3. KeptActions /\ CommitsStay /\ (Edits \/ \E text \in Choosable : Commits(text))
    BY <1>1 DEF FlowEffect
  <1>4. CASE Edits
    <2>1. Letters(composer.text) \subseteq Letters(composer'.text) /\ Elsewhere' = Elsewhere
      BY <1>1, <1>2, <1>3, <1>4, EventPlaces DEF Edits
    <2>. QED
      BY <2>1, HereAndElsewhere, HereAndElsewhereNext
  <1>5. ASSUME NEW text \in Choosable, Commits(text)
        PROVE  Present \subseteq Present'
    <2>. DEFINE moved == <<"underway", next_action_id, text>>
    <2>1. Letters(text) = Letters(composer.text)
      BY <1>1, <1>2, ChoosableSpells
    <2>2. Elsewhere' = Elsewhere \cup {moved}
      BY <1>1, <1>3, <1>5, EventPlaces
    <2>3. moved[3] = text
      OBVIOUS
    <2>. HIDE DEF moved
    <2>4. Letters(text) \subseteq Present'
      BY <2>2, <2>3, HereAndElsewhereNext
    <2>. QED
      BY <2>1, <2>2, <2>4, HereAndElsewhere, HereAndElsewhereNext
  <1>. QED
    BY <1>3, <1>4, <1>5

\* The host drops none but those the session gave up or another text replaced.
LEMMA PerformKeepsPresent ==
    ASSUME FlowInv, NEW disposition \in HostDispositions, FlowPerform(disposition)
    PROVE  LetterKept
  <1>1. PICK from, to : Moves(from, to)
    BY PerformKeepsLetters
  <1>2. CASE TakenAway
    BY <1>2 DEF LetterKept
  <1>3. CASE Elsewhere' = (Elsewhere \ from) \cup {to} /\ Letters(to[3]) = Gathered(from)
    <2>1. composer' = composer
      BY DEF FlowPerform, Perform, vars, view
    <2>2. Gathered(from) \subseteq Present'
      BY <1>3, HereAndElsewhereNext
    <2>3. \A place \in Elsewhere : Letters(place[3]) \subseteq Present'
      <3>1. \A place \in Elsewhere \ from : Letters(place[3]) \subseteq Present'
        BY <1>3, HereAndElsewhereNext
      <3>2. \A place \in from : Letters(place[3]) \subseteq Present'
        BY <2>2 DEF Gathered
      <3>. QED
        BY <3>1, <3>2
    <2>4. Letters(composer.text) \subseteq Present'
      BY <2>1, HereAndElsewhereNext
    <2>. QED
      BY <2>3, <2>4, HereAndElsewhere DEF LetterKept
  <1>. QED
    BY <1>1, <1>2, <1>3 DEF Moves

\* An arrival does not turn the revision back.
LEMMA ArrivalRevision ==
    ASSUME FlowInv, JInv, NEW answer \in answers, Arrives(answer), state_revision' < U64Max
    PROVE  state_revision < U64Max
  <1>1. Next /\ HInv
    BY DEF Arrives, FlowInv, HInv, HostTypes, Next, Acknowledge
  <1>2. JInv' /\ (Pinned \/ UNCHANGED vars)
    BY <1>1, NextKept
  <1>3. state_revision \in Int /\ state_revision' \in Int /\ U64Max \in Int
    BY <1>2, SessionAssumption DEF JInv, IInv, RestSound, Revision
  <1>. QED
    BY <1>2, <1>3 DEF Pinned, vars

\* The session drops none without asking for reconciliation.
LEMMA ArrivalKeepsPresent ==
    ASSUME SpellInv, NEW answer \in answers, Arrives(answer), JInv'
    PROVE  LetterKept
  <1>. SUFFICES ASSUME state_revision' < U64Max, ~reconciliation_required'
                PROVE  Present \subseteq Present'
    BY DEF LetterKept
  <1>1. /\ FlowInv /\ RecoverySpells /\ U64Max \in Int
    BY SessionAssumption DEF SpellInv
  <1>2. /\ answer.id \notin Refused => Elsewhere' = Elsewhere
        /\ \A place \in Elsewhere \ Elsewhere' :
              place[3] = pending_actions[answer.id].text
    BY <1>1, ArrivalPlaces
  <1>3. CASE composer' = composer /\ answer.id \notin Refused
    BY <1>2, <1>3, HereAndElsewhere, HereAndElsewhereNext
  <1>4. CASE Restored(answer.id)
    <2>1. PICK recovery \in pending_actions[answer.id].recovery :
            composer'.text = recovery.composer.text
      BY <1>4 DEF Restored
    <2>2. state_revision < U64Max /\ answer.id \in DOMAIN pending_actions
      BY <1>1, <1>4, ArrivalRevision DEF SpellInv, Restored, Refused, OfKind
    <2>3. Letters(composer'.text) = Letters(pending_actions[answer.id].text)
      BY <1>1, <2>1, <2>2 DEF RecoverySpells
    <2>4. Letters(composer.text) = {}
      BY <1>4, NoLetters DEF Restored
    <2>5. \A place \in Elsewhere : Letters(place[3]) \subseteq Present'
      BY <1>2, <2>3, HereAndElsewhereNext
    <2>. QED
      BY <2>4, <2>5, HereAndElsewhere
  <1>. QED
    BY <1>1, <1>3, <1>4, ArrivalEffect

\* A letter goes only when the user takes it away, when the host says that another text
\* took its place, or when the session asks for reconciliation: for candidates that write
\* the letters composed, and for all limits and hosts of any discipline.  (A candidate of
\* other letters takes the place of those composed, because the user chose it.)
THEOREM LettersNeverLost ==
    ASSUME CandidatesSpell
    PROVE  FlowSpec => NoLetterLost
  <1>1. SpellInv /\ [FlowNext]_flowVars => SpellInv'
    BY SpellStep
  <1>2. FlowInit => SpellInv
    <2>1. FlowInit => pending_actions = <<>> /\ DOMAIN <<>> = {}
      BY DEF FlowInit, HostInit, Init
    <2>2. FlowInit => RecoverySpells
      BY <2>1 DEF RecoverySpells
    <2>. QED
      BY <2>2, FlowStart, InitKept DEF SpellInv, FlowInit, HostInit
  <1>3. SpellInv /\ [FlowNext]_flowVars => [LetterKept]_flowVars
    <2>. SUFFICES ASSUME SpellInv, FlowNext PROVE LetterKept
      OBVIOUS
    <2>1. JInv'
      BY FlowRevisions DEF SpellInv, FlowInv
    <2>. QED
      BY <2>1, EventKeepsPresent, PerformKeepsPresent, ArrivalKeepsPresent, FlowArrivals
         DEF FlowNext, SpellInv
  <1>. QED
    BY <1>1, <1>2, <1>3, PTL DEF FlowSpec, NoLetterLost, LetterKept
=============================================================================
