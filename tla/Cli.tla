---------------------------------- MODULE Cli ----------------------------------
(***************************************************************************)
(* The read-eval-print loop of apps/cli/src/main.rs around one session:    *)
(* what it has printed of the candidates, and whom it leaves to            *)
(* acknowledge the actions.  A line is read only at the prompt, when the   *)
(* actions of the line before have been acknowledged.  Lines the loop      *)
(* answers with a usage message do nothing and are left out.               *)
(***************************************************************************)
EXTENDS Session

\* EngineConfig::default, and the arguments the lines have.
ASSUME CliAssumption ==
    /\ ~MarkedText /\ ~HardwareKeySupport
    /\ {-1, 1} \subseteq CursorDeltas \cap SelectionDeltas
    /\ "Applied" \in HostDispositions

VARIABLES running,
          auto_ack,
          to_ack,      \* actions of the last result still to be acknowledged
          printed,     \* the candidates printed last
          unattended   \* history: actions printed while autoack was off

loopVars == <<running, auto_ack, to_ack, printed, unattended>>
cliVars  == <<vars, loopVars>>

Prompt == running /\ to_ack = {}

\* process_event or acknowledge_action returned an Err.
Errored == reply' \in {"EventTextTooLong", "CompositionTooLong", "ContextTextTooLong",
                       "StaleRevision", "UnknownCandidate", "UnknownAction",
                       "TooManyOutstandingActions", "CounterExhausted"}

\* The actions in the result of a call.
Issued == DOMAIN pending_actions' \ DOMAIN pending_actions

\* A slip: only an action with a text is acknowledged.
Automatic_TextOnly == {id \in Issued : pending_actions'[id].text # <<>>}

\* The actions acknowledge_actions is given.
Automatic == Issued

\* print_candidates, of the state the session has after the call.
PrintCandidates == printed' = candidate_snapshot'.entries

\* What main does with the outcome of process_event.
Outcome ==
    /\ IF Errored
       THEN to_ack' = {} /\ UNCHANGED <<printed, unattended>>
       ELSE /\ PrintCandidates
            /\ to_ack' = IF auto_ack THEN Automatic ELSE {}
            /\ unattended' = IF auto_ack THEN unattended ELSE unattended \cup Issued
    /\ UNCHANGED <<running, auto_ack>>

\* select <ID>: whatever was printed, at the revision the session has now.
Select(candidate_id) == SelectCandidate(candidate_id, state_revision)

\* The lines that become an event.
Event ==
    \/ \E text \in InsertTexts : InsertText(text)
    \/ Backspace
    \/ DeleteForward
    \/ \E delta \in {-1, 1} : MoveCompositionCursor(delta)
    \/ Commit
    \/ Cancel
    \/ Reset
    \/ \E delta \in {-1, 1} : MoveCandidateSelection(delta)
    \/ \E id \in 1..(Len(candidate_snapshot.entries) + 1) : Select(id)
    \/ InputSequenceExhausted

EventLine == Prompt /\ Event /\ Outcome

\* acknowledge_actions: the next action of the result, its text taken as inserted.
AutoAcknowledge(id) ==
    /\ running /\ \A other \in to_ack : id <= other
    /\ AcknowledgeAction(id, "Applied")
    /\ to_ack' = to_ack \ {id}
    /\ UNCHANGED <<running, auto_ack, printed, unattended>>

\* A slip: the state an acknowledgement leads to is not printed.
PrintAcknowledged_Not == UNCHANGED printed

\* acknowledge_one prints the state unless the session refuses.
PrintAcknowledged == IF Errored THEN UNCHANGED printed ELSE PrintCandidates

AckLine(id, disposition) ==
    /\ Prompt
    /\ AcknowledgeAction(id, disposition)
    /\ PrintAcknowledged
    /\ UNCHANGED <<running, auto_ack, to_ack, unattended>>

\* The lines state and candidates.
ShowLine ==
    /\ Prompt
    /\ printed' = candidate_snapshot.entries
    /\ UNCHANGED <<vars, running, auto_ack, to_ack, unattended>>

AutoackLine(value) ==
    /\ Prompt
    /\ auto_ack' = value
    /\ UNCHANGED <<vars, running, to_ack, printed, unattended>>

\* quit, or the end of the input: the session goes with what it waits for.
Quit ==
    /\ Prompt
    /\ running' = FALSE
    /\ UNCHANGED <<vars, auto_ack, to_ack, printed, unattended>>

CliInit ==
    /\ Init
    /\ running = TRUE /\ auto_ack = TRUE
    /\ to_ack = {} /\ printed = <<>> /\ unattended = {}

CliNext ==
    \/ EventLine
    \/ \E id \in to_ack : AutoAcknowledge(id)
    \/ \E id \in ActionId, disposition \in HostDispositions : AckLine(id, disposition)
    \/ ShowLine
    \/ \E value \in BOOLEAN : AutoackLine(value)
    \/ Quit

CliSpec == CliInit /\ [][CliNext]_cliVars

-----------------------------------------------------------------------------
(* Properties.                                                             *)

\* The number in `select <ID>` means the candidate last printed under it, although the
\* loop sends the session's own revision and so disarms the staleness check of
\* select_candidate: every call that changes the candidates without an error prints
\* them, an acknowledgement that brings a refused commit back included.
SelectCommitsPrinted ==
    [][\A i \in 1..(Len(candidate_snapshot.entries) + 1) :
          EventLine /\ Select(i) =>
              \A id \in Issued : i \in DOMAIN printed
                                   /\ pending_actions'[id].text = printed[i]]_cliVars

\* At the prompt the session waits only for actions that were printed while autoack
\* was off: turning it on again settles none of them, and none issued under autoack
\* is left behind (acknowledge_actions).
AutoAckSettles == Prompt => DOMAIN pending_actions \subseteq unattended

\* With autoack never turned off the ledger is never full and the session and the
\* host never disagree, whatever is typed.
AttendedIsHealthy ==
    unattended = {} => reply # "TooManyOutstandingActions" /\ ~reconciliation_required
=============================================================================
