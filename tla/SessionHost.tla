----------------------------- MODULE SessionHost -----------------------------
(***************************************************************************)
(* A Session together with the host that drives it.  The host receives the *)
(* actions of each result in order, performs them one by one in its own    *)
(* text system, and acknowledges each with what became of it               *)
(* (docs/ffi.md, "Event and action flow").  Nothing obliges the host to    *)
(* acknowledge before the next event, nor in the order of performing, nor  *)
(* only once.                                                              *)
(*                                                                         *)
(* Hosts differ in their discipline.  A synchronous one performs and       *)
(* acknowledges every action of a result before the next event, as         *)
(* apps/cli/src/main.rs does with autoack on.  One that acknowledges in    *)
(* order may fall behind, but its acknowledgements arrive in the order of  *)
(* performing.  One that performs all has nothing to refuse.               *)
(***************************************************************************)
EXTENDS Session

CONSTANT Disciplines   \* those a host may have

ASSUME HostAssumption ==
    Disciplines \subseteq [synchronous : BOOLEAN, in_order : BOOLEAN, performs_all : BOOLEAN]

VARIABLES todo,      \* actions received and not performed, in order
          answers,   \* acknowledgements on their way to the session
          shown,     \* whether the host displays marked composition text
          discipline

hostVars == <<todo, answers, shown, discipline>>
allVars  == <<vars, hostVars>>

Synchronous == discipline.synchronous
InOrder     == discipline.in_order
PerformsAll == discipline.performs_all

Delivered(id) == [id |-> id, kind |-> pending_actions'[id].kind,
                  text |-> pending_actions'[id].text]

\* A result carries the action issued by its call, if any.
Received ==
    LET issued == DOMAIN pending_actions' \ DOMAIN pending_actions
    IN  todo' = IF issued = {} THEN todo
                ELSE Append(todo, Delivered(CHOOSE id \in issued : TRUE))

Settled == todo = <<>> /\ answers = {}

ReceiveResult == Received /\ UNCHANGED <<answers, shown, discipline>>

MayCall == Synchronous => Settled

HostEvent == MayCall /\ ProcessEvent /\ ReceiveResult

\* What performing an action does to the marked text the host displays.
ShownAfter(kind, disposition) ==
    IF disposition # "Applied" \/ kind = "DeleteBackward" THEN shown
    ELSE kind = "SetCompositionText"

Perform(disposition) ==
    /\ todo # <<>>
    /\ PerformsAll => disposition = "Applied"
    /\ shown' = ShownAfter(Head(todo).kind, disposition)
    /\ answers' = answers \cup {[id |-> Head(todo).id, disposition |-> disposition]}
    /\ todo' = Tail(todo)
    /\ UNCHANGED <<vars, discipline>>

\* Actions are performed in the order of their identifiers.
MayArrive(answer) == InOrder => \A other \in answers : answer.id <= other.id

\* An acknowledgement arrives; the host may send it again later.
Deliver(answer) ==
    /\ MayArrive(answer)
    /\ AcknowledgeAction(answer.id, answer.disposition)
    /\ answers' = answers \ {answer}
    /\ UNCHANGED <<todo, shown, discipline>>

DeliverAndRepeat(answer) ==
    /\ ~Synchronous /\ MayArrive(answer)
    /\ AcknowledgeAction(answer.id, answer.disposition)
    /\ UNCHANGED hostVars

HostInit ==
    /\ Init
    /\ todo = <<>> /\ answers = {} /\ shown = FALSE
    /\ discipline \in Disciplines

HostNext ==
    \/ HostEvent
    \/ \E disposition \in HostDispositions : Perform(disposition)
    \/ \E answer \in answers : Deliver(answer)
    \/ \E answer \in answers : DeliverAndRepeat(answer)

HostSpec == HostInit /\ [][HostNext]_allVars

\* The host performs what it received, and each of its acknowledgements arrives.
AnswerArrives(id) == \E answer \in answers : answer.id = id /\ Deliver(answer)

FairHostSpec ==
    /\ HostSpec
    /\ WF_allVars(\E disposition \in HostDispositions : Perform(disposition))
    /\ \A id \in ActionId : WF_allVars(AnswerArrives(id))

-----------------------------------------------------------------------------
(* Properties.                                                             *)

\* With a synchronous host, the session's belief about the marked text is the truth
\* whenever nothing is in flight, whatever was refused in between: the two places that
\* decide whether to issue CancelComposition or RequestPlatformReset can trust it.
HostInStep == Synchronous /\ Settled => shown = platform_composition_active

\* A host that falls behind, but performs everything it is asked and acknowledges in
\* order, is understood too once all has arrived, although the acknowledgements of the
\* compositions an edit superseded are ignored (update_platform_composition_state is not
\* reached for them): the one not superseded comes last.  (An edit that supersedes a
\* composition and then runs out of identifiers may break it.)
HostUnderstood ==
    InOrder /\ PerformsAll /\ Settled /\ next_action_id < U64Max =>
        shown = platform_composition_active

\* No action is lost between the two: what the session waits for is still to be
\* performed or its acknowledgement is on the way.
OutstandingIsInFlight ==
    \A id \in DOMAIN pending_actions :
        \/ \E i \in DOMAIN todo : todo[i].id = id
        \/ \E answer \in answers : answer.id = id

\* Every action asked of the host is settled in the end, superseded or acknowledged,
\* however late, repeated or out of order the acknowledgements are.
EveryActionSettles ==
    \A id \in ActionId : (id \in DOMAIN pending_actions) ~> (id \notin DOMAIN pending_actions)

\* The test acknowledged_platform_composition_is_cancelled_explicitly: when the host
\* shows a composition it has acknowledged, Cancel asks it to take the composition down.
AcknowledgedCompositionIsCancelled ==
    [][Settled /\ shown /\ phase # "Idle" /\ Cancel /\ reply' = "Ok" =>
          \E id \in DOMAIN pending_actions' :
              pending_actions'[id].kind = "CancelComposition"]_allVars
=============================================================================
