------------------------------- MODULE Engine -------------------------------
(***************************************************************************)
(* Creation of engines and of sessions from several threads at once        *)
(* (core/ime-core/src/engine.rs).  Identifiers come from two process-wide  *)
(* atomic counters through next_monotonic_id, whose fetch_update is a load *)
(* followed by compare-and-exchange until one succeeds; a weak exchange    *)
(* may also fail for no reason.  An engine is shared by cloning, so any    *)
(* thread may create a session once there is one.                          *)
(***************************************************************************)
EXTENDS Integers

CONSTANTS Threads,
          U64Max   \* where checked_add on a counter fails

ASSUME EngineAssumption == U64Max \in Nat \ {0}

Counters == {"engine_id", "session_id"}

VARIABLES counter,  \* NEXT_ENGINE_ID and NEXT_SESSION_ID
          asked,    \* the counter a thread is in next_monotonic_id for, or "none"
          current,  \* the value that thread has seen
          given,    \* the identifiers each thread has been given, by counter
          failed    \* the last error of each thread, or "none"

vars == <<counter, asked, current, given, failed>>

Ids(name) == UNION {given[name][t] : t \in Threads}

\* fetch_update begins: the load.
Ask(t, name) ==
    /\ asked[t] = "none"
    /\ asked' = [asked EXCEPT ![t] = name]
    /\ current' = [current EXCEPT ![t] = counter[name]]
    /\ failed' = [failed EXCEPT ![t] = "none"]
    /\ UNCHANGED <<counter, given>>

\* with_candidate_pipeline: the limits are validated before an identifier is taken.
new_engine(t) == Ask(t, "engine_id")

new_engine_invalid(t) ==
    /\ asked[t] = "none"
    /\ failed' = [failed EXCEPT ![t] = "InvalidConfig"]
    /\ UNCHANGED <<counter, asked, current, given>>

new_session(t) == Ids("engine_id") # {} /\ Ask(t, "session_id")

\* A slip: the new value is stored whatever the counter holds.
Unmoved_Unchecked(t) == TRUE

\* Nobody has taken an identifier since this thread looked.
Unmoved(t) == counter[asked[t]] = current[t]

\* A slip: the addition is not checked.
NoSuccessor_Unchecked(t) == FALSE

\* checked_add has nothing above the largest value.
NoSuccessor(t) == current[t] = U64Max

Exchange(t) ==
    LET name == asked[t]
    IN  /\ name # "none" /\ ~NoSuccessor(t)
        /\ Unmoved(t)
        /\ counter' = [counter EXCEPT ![name] = current[t] + 1]
        /\ given' = [given EXCEPT ![name][t] = @ \cup {current[t]}]
        /\ asked' = [asked EXCEPT ![t] = "none"]
        /\ UNCHANGED <<current, failed>>

\* A slip: the loop tries again with the value it loaded first.
ExchangeFails_Stale(t) ==
    /\ asked[t] # "none" /\ ~NoSuccessor(t)
    /\ UNCHANGED vars

\* The exchange fails and brings the value it found.
ExchangeFails(t) ==
    /\ asked[t] # "none" /\ ~NoSuccessor(t)
    /\ current' = [current EXCEPT ![t] = counter[asked[t]]]
    /\ UNCHANGED <<counter, asked, given, failed>>

\* The counter stays where it is.
CounterExhausted(t) ==
    /\ asked[t] # "none" /\ NoSuccessor(t)
    /\ asked' = [asked EXCEPT ![t] = "none"]
    /\ failed' = [failed EXCEPT ![t] = "CounterExhausted"]
    /\ UNCHANGED <<counter, current, given>>

Init ==
    /\ counter = [name \in Counters |-> 1]
    /\ asked = [t \in Threads |-> "none"]
    /\ current = [t \in Threads |-> 1]
    /\ given = [name \in Counters |-> [t \in Threads |-> {}]]
    /\ failed = [t \in Threads |-> "none"]

Next == \E t \in Threads :
    \/ new_engine(t) \/ new_engine_invalid(t) \/ new_session(t)
    \/ Exchange(t) \/ ExchangeFails(t) \/ CounterExhausted(t)

Spec == Init /\ [][Next]_vars

\* A thread in the loop keeps running, and its exchange does not fail for no reason
\* for ever.  Nobody has to ask.
FairSpec ==
    /\ Spec
    /\ \A t \in Threads : WF_vars(Exchange(t))
                         /\ WF_vars(ExchangeFails(t))
                         /\ WF_vars(CounterExhausted(t))

-----------------------------------------------------------------------------
(* Properties.                                                             *)

TypeOK ==
    /\ counter \in [Counters -> 1..U64Max]
    /\ asked \in [Threads -> Counters \cup {"none"}]
    /\ current \in [Threads -> 1..U64Max]
    /\ given \in [Counters -> [Threads -> SUBSET (1..U64Max)]]
    /\ failed \in [Threads -> {"none", "InvalidConfig", "CounterExhausted"}]

\* Every identifier given is below the counter, and every one below it was given: no
\* engine or session shares its identifier and none is lost to a refused configuration,
\* a lost race or an exhausted counter.
GivenBelowCounter == \A name \in Counters : Ids(name) = 1..(counter[name] - 1)

\* next_monotonic_id is lock-free: a thread that asks is answered, or others have been
\* given identifiers since; it never spins alone, nor while nobody gets anywhere.
WaitsOnlyForWinners ==
    \A t \in Threads, name \in Counters, id \in 1..U64Max :
        (asked[t] = name /\ counter[name] = id) ~> (asked[t] # name \/ counter[name] > id)

\* Engines and sessions are numbered as IdSource promises.
EngineIds  == INSTANCE IdSource WITH given <- given["engine_id"], MaxId <- U64Max
SessionIds == INSTANCE IdSource WITH given <- given["session_id"], MaxId <- U64Max

ImplementsIdSource == EngineIds!IdSourceSpec /\ SessionIds!IdSourceSpec
=============================================================================
