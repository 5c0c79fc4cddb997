-------------------------------- MODULE TextFlow --------------------------------
(***************************************************************************)
(* What becomes of the letters a user types: a session and its host, with  *)
(* the host's document.  A host that answers Applied has put the text of a *)
(* CommitText into the document, or taken the last letter out of it for a  *)
(* DeleteBackward; a host that answers anything else has not.  The user    *)
(* types a letter only while it is nowhere, and chooses a candidate only   *)
(* when its letters are composed now or nowhere, so that a letter seen     *)
(* twice was doubled by the program.                                       *)
(***************************************************************************)
EXTENDS SessionHost, SequencesExt

VARIABLE document

flowVars == <<allVars, document>>

-----------------------------------------------------------------------------
(* Where letters are.                                                      *)

\* The commits the host has still to perform.
Underway == {action \in Range(todo) : action.kind = "CommitText"}

\* The outstanding commits whose refusal is on its way to the session.
Refused == {id \in OfKind("CommitText") :
              \E answer \in answers : answer.id = id /\ answer.disposition \in Refusals}

\* The texts that hold letters, by place.
Places == {<<"composition", 0, composer.text>>, <<"document", 0, document>>}
          \cup {<<"underway", action.id, action.text>> : action \in Underway}
          \cup {<<"refused", id, pending_actions[id].text>> : id \in Refused}

Letters(text) == Range(text)

Present == UNION {Letters(place[3]) : place \in Places}

\* No letter is twice in a text, nor in two texts.
NoneTwice(places) ==
    /\ \A place \in places : IsInjective(place[3])
    /\ \A one, other \in places : one # other => Letters(one[3]) \cap Letters(other[3]) = {}

-----------------------------------------------------------------------------
(* Steps.                                                                  *)

\* The user brings only new letters in, by typing or by a candidate with letters of its own.
Type(text) == /\ IsInjective(text) /\ Letters(text) \cap Present = {}
              /\ InsertText(text)

Choose(id) ==
    LET chosen == candidate_snapshot.entries[id]
    IN  /\ IsInjective(chosen)
        /\ Letters(chosen) \cap (Present \ Letters(composer.text)) = {}
        /\ SelectCandidate(id, state_revision)

\* The events that take text away because the user says so.
Removal == Backspace \/ DeleteForward \/ Cancel \/ Reset

FlowEvent ==
    /\ MayCall
    /\ \/ \E text \in InsertTexts : Type(text)
       \/ Removal
       \/ Commit
       \/ \E id \in DOMAIN candidate_snapshot.entries : Choose(id)
       \/ \E raw \in Contexts : ContextChanged(raw)
       \/ InputSequenceExhausted
    /\ ReceiveResult
    /\ UNCHANGED document

DocumentAfter(action, disposition) ==
    IF disposition # "Applied" THEN document
    ELSE IF action.kind = "CommitText" THEN document \o action.text
    ELSE IF action.kind = "DeleteBackward" /\ document # <<>> THEN Front(document)
    ELSE document

FlowPerform(disposition) ==
    /\ Perform(disposition)
    /\ document' = DocumentAfter(Head(todo), disposition)

FlowInit == HostInit /\ document = <<>>

FlowNext ==
    \/ FlowEvent
    \/ \E disposition \in HostDispositions : FlowPerform(disposition)
    \/ /\ \E answer \in answers : Deliver(answer) \/ DeliverAndRepeat(answer)
       /\ UNCHANGED document

FlowSpec == FlowInit /\ [][FlowNext]_flowVars

-----------------------------------------------------------------------------
(* Properties.                                                             *)

\* A letter typed once is never in two places, nor twice in one: a commit the host has
\* performed is not restored, a commit under way is not still composed, and one that was
\* refused is given back once, whatever acknowledgements are late or repeated.
NoLetterTwice == NoneTwice(Places)

\* What is taken away: by the user from the composition or all of it, from the document,
\* or, with a reset, a commit the host then fails to perform; and by a host that answers
\* that another text took the place of its commit.
TakenAway ==
    \/ Removal
    \/ /\ todo # <<>> /\ todo' = Tail(todo)
       /\ \/ Head(todo).kind = "DeleteBackward"
          \/ Head(todo).id \notin DOMAIN pending_actions
          \/ [id |-> Head(todo).id, disposition |-> "Superseded"] \in answers'

\* Candidates that write the letters composed, and no others.
CandidatesSpell ==
    \A text \in CompositionText : \A answer \in Generate(text) :
        \A i \in DOMAIN answer.texts : Letters(answer.texts[i]) = Letters(text)

\* A letter goes only when the user takes it away, or when the session says that it and
\* the host no longer agree (reconciliation_required): no refusal, failed lookup, stale
\* selection, full ledger or change of context loses one.  (A counter that runs out may,
\* and a candidate that writes the composed letters otherwise does.)
NoLetterLost ==
    [][state_revision' < U64Max /\ next_action_id' < U64Max =>
          Present \subseteq Present' \/ reconciliation_required' \/ TakenAway]_flowVars
=============================================================================
