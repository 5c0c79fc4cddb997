--------------------------------- MODULE Ffi ---------------------------------
(***************************************************************************)
(* The C ABI of core/ime-ffi/src/lib.rs: one caller that creates an        *)
(* engine and a session from it, sends wire events, keeps the results it   *)
(* is given until it frees them, and acknowledges actions.  (Sessions      *)
(* share nothing that changes, so one stands for all.)                     *)
(*                                                                         *)
(* The caller keeps the contract of docs/ffi.md on handles: it uses and    *)
(* destroys none that is not live.  Everything else it may get wrong: null *)
(* arguments, sizes, versions, tags, strings, identifiers, revisions.      *)
(* Every call but the version query returns a status.                      *)
(***************************************************************************)
EXTENDS Session, Utf8

CONSTANTS MAX_FFI_INPUT_BYTES,
          MAX_RESULT_TEXT_BYTES,
          MAX_RESULT_CANDIDATES,
          MAX_RESULT_ACTIONS,
          WireEvents,   \* the events the caller sends, besides selecting from a result
          MaxResults    \* bound: results held at a time

ASSUME FfiAssumption ==
    /\ {MAX_FFI_INPUT_BYTES, MAX_RESULT_TEXT_BYTES,
        MAX_RESULT_CANDIDATES, MAX_RESULT_ACTIONS} \subseteq Nat \ {0}
    /\ MaxResults \in Nat \ {0}
    /\ ~MarkedText /\ ~HardwareKeySupport   \* EngineConfig::default

\* The bytes of some texts, each at its place.
TextBytes(texts) == Cardinality(UNION {{i} \X (1..Len(texts[i])) : i \in DOMAIN texts})

\* The limits of EngineConfig::default and the entries of reference_dictionary leave
\* room in a result: 16 KiB of composition and the candidates any text can have are
\* less than 64 KiB, and the candidates fewer than 64.
ASSUME BudgetAssumption ==
    \A text \in CompositionText : \A answer \in Generate(text) :
        /\ Len(answer.texts) <= MAX_RESULT_CANDIDATES
        /\ MaxCompositionTextBytes + TextBytes(answer.texts) <= MAX_RESULT_TEXT_BYTES

VARIABLES engine,     \* the caller's engine handle: "null" or "live"
          session,    \* its session handle: "null", "live" or "destroyed"
          results,    \* the results it has not freed
          delivered,  \* history: the actions it was given
          status      \* what the last call returned

callerVars == <<engine, session, results, delivered, status>>
ffiVars == <<vars, callerVars>>

Statuses == {"OK", "INVALID_ARGUMENT", "NULL_POINTER", "INVALID_UTF8", "UNSUPPORTED",
             "STALE_REVISION", "BUDGET_EXCEEDED", "INTERNAL_ERROR",
             "UNKNOWN_CANDIDATE", "UNKNOWN_ACTION", "UNSUPPORTED_ABI_VERSION"}

\* map_core_error on what the session answered.
StatusOf(answer) ==
    IF answer \in {"EventTextTooLong", "CompositionTooLong", "ContextTextTooLong",
                   "TooManyOutstandingActions"} THEN "BUDGET_EXCEEDED"
    ELSE IF answer = "UnknownAction"    THEN "UNKNOWN_ACTION"
    ELSE IF answer = "StaleRevision"    THEN "STALE_REVISION"
    ELSE IF answer = "UnknownCandidate" THEN "UNKNOWN_CANDIDATE"
    ELSE IF answer = "CounterExhausted" THEN "INTERNAL_ERROR"
    ELSE "OK"

-----------------------------------------------------------------------------
(* Wire events.                                                            *)

Tags == {"INSERT_TEXT", "BACKSPACE", "DELETE_FORWARD", "MOVE_COMPOSITION_CURSOR",
         "SELECT_CANDIDATE", "MOVE_CANDIDATE_SELECTION", "COMMIT", "CANCEL", "RESET"}

IME_ABI_VERSION == 65536
HeaderSize == 8
EventSize  == 48

Major(version) == version \div 65536
Minor(version) == version % 65536

\* validate_abi_version and minimum_input_event_size: 1.0 is the only version known.
VersionSupported(version) ==
    /\ Major(version) = Major(IME_ABI_VERSION)
    /\ Minor(version) <= Minor(IME_ABI_VERSION)

\* A slip: the bytes are taken for a String unchecked.
StringStatus_Unchecked(string) ==
    IF Len(string.bytes) = 0 THEN "OK"
    ELSE IF string.null THEN "NULL_POINTER"
    ELSE IF Len(string.bytes) > MAX_FFI_INPUT_BYTES THEN "BUDGET_EXCEEDED"
    ELSE "OK"

\* read_input_string.  A view is its bytes, and whether the pointer is null.
StringStatus(string) ==
    IF Len(string.bytes) = 0 THEN "OK"
    ELSE IF string.null THEN "NULL_POINTER"
    ELSE IF Len(string.bytes) > MAX_FFI_INPUT_BYTES THEN "BUDGET_EXCEEDED"
    ELSE IF ~IsUtf8(string.bytes) THEN "INVALID_UTF8"
    ELSE "OK"

\* parse_input_event: the first check that fails, in the order of the code.
ParseStatus(event) ==
    IF event.struct_size < HeaderSize THEN "INVALID_ARGUMENT"
    ELSE IF ~VersionSupported(event.abi_version) THEN "UNSUPPORTED_ABI_VERSION"
    ELSE IF event.struct_size < EventSize THEN "INVALID_ARGUMENT"
    ELSE IF event.tag \notin Tags THEN "UNSUPPORTED"
    ELSE IF event.tag = "INSERT_TEXT" THEN StringStatus(event.text) ELSE "OK"

\* What the session is given for an event that parses.
Input(event) ==
    IF input_sequence = U64Max THEN InputSequenceExhausted
    ELSE \/ event.tag = "INSERT_TEXT" /\ InsertText(event.text.bytes)
         \/ event.tag = "BACKSPACE" /\ Backspace
         \/ event.tag = "DELETE_FORWARD" /\ DeleteForward
         \/ event.tag = "MOVE_COMPOSITION_CURSOR" /\ MoveCompositionCursor(event.delta)
         \/ event.tag = "SELECT_CANDIDATE"
               /\ SelectCandidate(event.candidate_id, event.state_revision)
         \/ event.tag = "MOVE_CANDIDATE_SELECTION" /\ MoveCandidateSelection(event.delta)
         \/ event.tag = "COMMIT" /\ Commit
         \/ event.tag = "CANCEL" /\ Cancel
         \/ event.tag = "RESET" /\ Reset

\* An event that parses has a text of bytes, and a delta.
ASSUME WireAssumption ==
    \A event \in WireEvents : ParseStatus(event) = "OK" =>
        /\ event.tag = "INSERT_TEXT" => event.text.bytes \in Text
        /\ event.delta \in Int

NoText == [bytes |-> <<>>, null |-> TRUE]

Selection(candidate_id, revision) ==
    [struct_size |-> EventSize, abi_version |-> IME_ABI_VERSION,
     tag |-> "SELECT_CANDIDATE", text |-> NoText, delta |-> 0,
     candidate_id |-> candidate_id, state_revision |-> revision]

-----------------------------------------------------------------------------
(* Results.                                                                *)

\* What of a result the caller can come back with; delivered keeps its actions.
Result == [state_revision |-> state_revision, candidates |-> candidate_snapshot.entries]

\* A slip: the budget is that of a single text.
OverBudget_OneText(actions) ==
    Len(composer.text) + TextBytes(candidate_snapshot.entries)
        + TextBytes([id \in actions |-> pending_actions[id].text])
            > MaxCompositionTextBytes

\* The bounds of build_owned_result.
OverBudget(actions) ==
    \/ Len(candidate_snapshot.entries) > MAX_RESULT_CANDIDATES
    \/ Cardinality(actions) > MAX_RESULT_ACTIONS
    \/ Len(composer.text) + TextBytes(candidate_snapshot.entries)
         + TextBytes([id \in actions |-> pending_actions[id].text])
            > MAX_RESULT_TEXT_BYTES

\* A slip: a result that shows no change has no actions either.
Issued_WithChange ==
    IF state_revision' = state_revision THEN {}
    ELSE DOMAIN pending_actions' \ DOMAIN pending_actions

\* The actions a call puts into its result.
Issued == DOMAIN pending_actions' \ DOMAIN pending_actions

Room == Cardinality(results) < MaxResults

\* Every call but those on the session leaves the session alone.
Caller(outcome) == status' = outcome /\ UNCHANGED vars

\* The end of process_event: the result is built after the session has changed.
Return ==
    IF StatusOf(reply') # "OK"
    THEN status' = StatusOf(reply') /\ UNCHANGED <<results, delivered>>
    ELSE \E actions \in {Issued} :
         IF OverBudget(actions)'
         THEN status' = "BUDGET_EXCEEDED" /\ UNCHANGED <<results, delivered>>
         ELSE /\ status' = "OK"
              /\ results' = results \cup {Result'}
              /\ delivered' = delivered \cup actions

-----------------------------------------------------------------------------
(* The entry points.                                                       *)

ime_v1_engine_create ==
    /\ engine = "null" /\ engine' = "live"
    /\ Caller("OK")
    /\ UNCHANGED <<session, results, delivered>>

\* The session keeps what it needs of the engine.
ime_v1_engine_destroy ==
    /\ engine = "live" /\ engine' = "null"
    /\ Caller("OK")
    /\ UNCHANGED <<session, results, delivered>>

\* Init describes the new session, which nothing can have touched.
ime_v1_session_create ==
    /\ engine = "live"
    /\ session = "null" /\ session' = "live"
    /\ Caller("OK")
    /\ UNCHANGED <<engine, results, delivered>>

ime_v1_session_destroy ==
    /\ session = "live" /\ session' = "destroyed"
    /\ Caller("OK")
    /\ UNCHANGED <<engine, results, delivered>>

ime_v1_session_process_event(event) ==
    /\ session = "live" /\ Room
    /\ IF ParseStatus(event) # "OK"
       THEN Caller(ParseStatus(event)) /\ UNCHANGED <<results, delivered>>
       ELSE Input(event) /\ Return
    /\ UNCHANGED <<engine, session>>

ime_v1_session_snapshot ==
    /\ session = "live" /\ Room
    /\ IF OverBudget({})
       THEN Caller("BUDGET_EXCEEDED") /\ UNCHANGED results
       ELSE Caller("OK") /\ results' = results \cup {Result}
    /\ UNCHANGED <<engine, session, delivered>>

ime_v1_session_ack_action(id, disposition) ==
    /\ session = "live"
    /\ IF disposition \in Dispositions
       THEN AcknowledgeAction(id, disposition) /\ status' = StatusOf(reply')
       ELSE Caller("INVALID_ARGUMENT")
    /\ UNCHANGED <<engine, session, results, delivered>>

ime_v1_result_free(result) ==
    /\ results' = results \ {result}
    /\ Caller("OK")
    /\ UNCHANGED <<engine, session, delivered>>

\* A null argument: an out slot, an event, a session or the engine of a new session.
NullArgument ==
    /\ Caller("NULL_POINTER")
    /\ UNCHANGED <<engine, session, results, delivered>>

FfiInit ==
    /\ Init
    /\ engine = "null" /\ session = "null"
    /\ results = {} /\ delivered = {}
    /\ status = "OK"

\* A selection as docs/ffi.md asks for it: a candidate and the revision of a result,
\* however long it has been held.
SelectFrom(result, candidate_id) ==
    ime_v1_session_process_event(Selection(candidate_id, result.state_revision))

FfiNext ==
    \/ ime_v1_engine_create
    \/ ime_v1_engine_destroy
    \/ ime_v1_session_create
    \/ ime_v1_session_destroy
    \/ \E event \in WireEvents : ime_v1_session_process_event(event)
    \/ \E result \in results : \E id \in 1..(Len(result.candidates) + 1) :
          SelectFrom(result, id)
    \/ ime_v1_session_snapshot
    \/ \E id \in ActionId, disposition \in HostDispositions \cup {"none"} :
          ime_v1_session_ack_action(id, disposition)
    \/ \E result \in results : ime_v1_result_free(result)
    \/ NullArgument

FfiSpec == FfiInit /\ [][FfiNext]_ffiVars

-----------------------------------------------------------------------------
(* Properties.                                                             *)

\* The caller learns of every action the session waits for: process_event changes the
\* session before it builds the result, and a result that were refused for its size
\* would take its action with it.
EveryActionDelivered == DOMAIN pending_actions \subseteq delivered

\* A candidate chosen from a result, at any later time, is committed as the text that
\* result showed for it, or the call is refused: no edit, movement, restored commit or
\* reset in between makes the identifier and the revision name another text.
SelectionHonoursResult ==
    [][\A result \in results : \A i \in DOMAIN result.candidates :
          SelectFrom(result, i) /\ status' = "OK" =>
              \A id \in Issued : pending_actions'[id].text = result.candidates[i]]_ffiVars

\* A call that returns a status other than OK hands out no result and no action, "rather
\* than producing a partial result" (docs/ffi.md, Results and ownership).  Unless the status
\* is INTERNAL_ERROR, of a counter that ran out half way, it has also changed nothing a
\* later snapshot would show, and settled or issued no action.
FailedCallShowsNothing ==
    [][/\ status' # "OK" => UNCHANGED <<results, delivered>>
       /\ status' \notin {"OK", "INTERNAL_ERROR"} =>
             /\ UNCHANGED <<state_revision, view, context, host, resolved_actions>>
             /\ DOMAIN pending_actions' = DOMAIN pending_actions]_ffiVars

\* "unknown or already-resolved IDs return `IME_STATUS_UNKNOWN_ACTION`" (docs/ffi.md,
\* Event and action flow).
SettledIsUnknown ==
    [][\A id \in ActionId \ DOMAIN pending_actions, disposition \in HostDispositions :
          ime_v1_session_ack_action(id, disposition) => status' = "UNKNOWN_ACTION"]_ffiVars
=============================================================================
