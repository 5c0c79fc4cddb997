----------------------------- MODULE EngineProofs -----------------------------
(***************************************************************************)
(* Identifiers of engines and sessions are never shared, for any number of *)
(* threads and any interleaving of their loads and exchanges.              *)
(***************************************************************************)
EXTENDS Engine, TLAPS

IInv == TypeOK /\ GivenBelowCounter

\* The step that gives an identifier gives the counter's own value: what a thread saw
\* earlier is used only while nobody has moved the counter since.
LEMMA ExchangeSound ==
  ASSUME IInv, NEW t \in Threads, Exchange(t)
  PROVE  IInv'
<1>1. PICK name \in Counters, id \in 1..(U64Max - 1) :
      /\ counter[name] = id
      /\ counter' = [counter EXCEPT ![name] = id + 1]
      /\ given' = [given EXCEPT ![name][t] = @ \cup {id}]
      /\ asked' = [asked EXCEPT ![t] = "none"]
      /\ UNCHANGED <<current, failed>>
  <2>1. asked[t] \in Counters /\ current[t] \in 1..(U64Max - 1)
    BY EngineAssumption DEF IInv, TypeOK, Exchange, NoSuccessor
  <2>2. counter[asked[t]] = current[t]
    BY DEF Exchange, Unmoved
  <2>3. /\ counter' = [counter EXCEPT ![asked[t]] = current[t] + 1]
        /\ given' = [given EXCEPT ![asked[t]][t] = @ \cup {current[t]}]
        /\ asked' = [asked EXCEPT ![t] = "none"]
        /\ UNCHANGED <<current, failed>>
    BY DEF Exchange
  <2> QED BY <2>1, <2>2, <2>3
<1>2. TypeOK'
  <2>1. counter' \in [Counters -> 1..U64Max]
    BY <1>1, EngineAssumption DEF IInv, TypeOK
  <2>2. given' \in [Counters -> [Threads -> SUBSET (1..U64Max)]]
    BY <1>1, EngineAssumption DEF IInv, TypeOK
  <2>3. asked' \in [Threads -> Counters \cup {"none"}]
    BY <1>1 DEF IInv, TypeOK
  <2> QED BY <1>1, <2>1, <2>2, <2>3 DEF IInv, TypeOK
<1>3. GivenBelowCounter'
  <2> SUFFICES ASSUME NEW other \in Counters
               PROVE  Ids(other)' = 1..(counter'[other] - 1)
    BY DEF GivenBelowCounter
  <2>1. CASE other # name
    <3>1. given'[other] = given[other] /\ counter'[other] = counter[other]
      BY <1>1, <2>1 DEF IInv, TypeOK
    <3> QED BY <3>1 DEF IInv, GivenBelowCounter, Ids
  <2>2. CASE other = name
    <3>1. /\ given'[name][t] = given[name][t] \cup {id}
          /\ \A u \in Threads : u # t => given'[name][u] = given[name][u]
      BY <1>1 DEF IInv, TypeOK
    <3>2. Ids(name)' = Ids(name) \cup {id}
      <4>1. ASSUME NEW i PROVE i \in Ids(name)' <=> i \in Ids(name) \/ i = id
        <5>1. i \in Ids(name)' <=> \E u \in Threads : i \in given'[name][u]
          BY DEF Ids
        <5>2. i \in Ids(name) <=> \E u \in Threads : i \in given[name][u]
          BY DEF Ids
        <5> QED BY <3>1, <5>1, <5>2
      <4> QED BY <4>1
    <3>3. Ids(name) = 1..(id - 1)
      BY <1>1 DEF IInv, GivenBelowCounter
    <3>4. counter'[name] = id + 1
      BY <1>1 DEF IInv, TypeOK
    <3>5. (1..(id - 1)) \cup {id} = 1..((id + 1) - 1)
      BY <1>1, EngineAssumption
    <3>6. Ids(other)' = Ids(name)'
      BY <2>2
    <3> QED BY <2>2, <3>2, <3>3, <3>4, <3>5, <3>6
  <2> QED BY <2>1, <2>2
<1> QED BY <1>2, <1>3 DEF IInv

\* Every other step leaves the counters and what was given alone.
LEMMA QuietSound ==
  ASSUME IInv, NEW t \in Threads,
         \/ new_engine(t) \/ new_engine_invalid(t) \/ new_session(t)
         \/ ExchangeFails(t) \/ CounterExhausted(t)
  PROVE  IInv' /\ UNCHANGED <<counter, given>>
<1>1. UNCHANGED <<counter, given>>
  BY DEF new_engine, new_engine_invalid, new_session, Ask, ExchangeFails, CounterExhausted
<1>2. GivenBelowCounter'
  BY <1>1 DEF IInv, GivenBelowCounter, Ids
<1>3. ASSUME NEW name \in Counters, Ask(t, name) PROVE TypeOK'
  BY <1>3 DEF IInv, TypeOK, Ask
<1>4. ASSUME new_engine(t) PROVE TypeOK'
  BY <1>3, <1>4 DEF new_engine, Counters
<1>4a. ASSUME new_session(t) PROVE TypeOK'
  BY <1>3, <1>4a DEF new_session, Counters
<1>5. ASSUME new_engine_invalid(t) PROVE TypeOK'
  BY <1>5 DEF new_engine_invalid, IInv, TypeOK
<1>6. ASSUME ExchangeFails(t) PROVE TypeOK'
  BY <1>6 DEF ExchangeFails, IInv, TypeOK
<1>7. ASSUME CounterExhausted(t) PROVE TypeOK'
  BY <1>7 DEF CounterExhausted, IInv, TypeOK
<1> QED BY <1>1, <1>2, <1>4, <1>4a, <1>5, <1>6, <1>7 DEF IInv

\* A new process is sound.
LEMMA InitSound == Init => IInv
<1> SUFFICES ASSUME Init PROVE IInv
  OBVIOUS
<1>1. TypeOK
  BY EngineAssumption DEF Init, TypeOK, Counters
<1>2. \A name \in Counters : Ids(name) = 1..(counter[name] - 1)
  BY DEF Init, Ids
<1> QED BY <1>1, <1>2 DEF IInv, GivenBelowCounter

\* The invariant is inductive.
LEMMA StepSound == IInv /\ [Next]_vars => IInv'
<1>1. CASE UNCHANGED vars
  BY <1>1 DEF vars, IInv, TypeOK, GivenBelowCounter, Ids
<1>2. CASE Next
  BY <1>2, ExchangeSound, QuietSound DEF Next
<1> QED BY <1>1, <1>2

\* The counters and the identifiers given keep their types.
THEOREM TypeCorrect == Spec => []TypeOK
<1>1. IInv => TypeOK
  BY DEF IInv
<1> QED BY InitSound, StepSound, <1>1, PTL DEF Spec

\* No identifier is skipped or given twice, whatever the threads do.
THEOREM GivenAlwaysBelowCounter == Spec => []GivenBelowCounter
<1>1. IInv => GivenBelowCounter
  BY DEF IInv
<1> QED BY InitSound, StepSound, <1>1, PTL DEF Spec

\* A step of the engines gives an identifier of one counter above all before, or none.
LEMMA GivesInOrder ==
  ASSUME IInv, [Next]_vars, NEW name \in Counters
  PROVE  \/ UNCHANGED given[name]
         \/ \E t \in Threads, id \in 1..U64Max :
               /\ \A u \in Threads : \A earlier \in given[name][u] : earlier < id
               /\ given[name]' = [given[name] EXCEPT ![t] = @ \cup {id}]
<1>1. CASE UNCHANGED given
  BY <1>1
<1>2. ASSUME NEW t \in Threads, Exchange(t)
      PROVE  \/ UNCHANGED given[name]
             \/ \E u \in Threads, id \in 1..U64Max :
                   /\ \A v \in Threads : \A earlier \in given[name][v] : earlier < id
                   /\ given[name]' = [given[name] EXCEPT ![u] = @ \cup {id}]
  <2> DEFINE id == current[t]
  <2>1. /\ asked[t] \in Counters /\ id \in 1..U64Max /\ counter[asked[t]] = id
        /\ given' = [given EXCEPT ![asked[t]][t] = @ \cup {id}]
    BY <1>2, EngineAssumption DEF IInv, TypeOK, Exchange, Unmoved
  <2>2. CASE asked[t] # name
    BY <2>1, <2>2 DEF IInv, TypeOK
  <2>3. CASE asked[t] = name
    <3>1. given[name]' = [given[name] EXCEPT ![t] = @ \cup {id}]
      BY <2>1, <2>3 DEF IInv, TypeOK
    <3>2. \A v \in Threads : given[name][v] \subseteq 1..(id - 1)
      BY <2>1, <2>3 DEF IInv, GivenBelowCounter, Ids
    <3>3. \A v \in Threads : \A earlier \in given[name][v] : earlier < id
      BY <2>1, <3>2
    <3> QED BY <2>1, <3>1, <3>3
  <2> QED BY <2>2, <2>3
<1>3. CASE UNCHANGED vars
  BY <1>1, <1>3 DEF vars
<1>4. CASE Next
  BY <1>1, <1>2, <1>4, QuietSound DEF Next
<1> QED BY <1>3, <1>4

\* Engines and sessions are numbered as IdSource promises: the loads and exchanges of
\* any number of threads act as one source that gives identifiers in order.
THEOREM IdsImplemented == Spec => ImplementsIdSource
<1>1. Init => EngineIds!NothingGiven /\ SessionIds!NothingGiven
  BY DEF Init, Counters, EngineIds!NothingGiven, SessionIds!NothingGiven
<1>2. IInv /\ [Next]_vars =>
         /\ [\E t \in Threads, id \in 1..U64Max : EngineIds!Give(t, id)]_(given["engine_id"])
         /\ [\E t \in Threads, id \in 1..U64Max : SessionIds!Give(t, id)]_(given["session_id"])
  <2> SUFFICES ASSUME IInv, [Next]_vars
               PROVE  /\ [\E t \in Threads, id \in 1..U64Max :
                             EngineIds!Give(t, id)]_(given["engine_id"])
                      /\ [\E t \in Threads, id \in 1..U64Max :
                             SessionIds!Give(t, id)]_(given["session_id"])
    OBVIOUS
  <2>1. {"engine_id", "session_id"} = Counters
    BY DEF Counters
  <2> QED BY <2>1, GivesInOrder DEF EngineIds!Give, SessionIds!Give
<1> QED BY InitSound, StepSound, <1>1, <1>2, PTL
    DEF Spec, ImplementsIdSource, EngineIds!IdSourceSpec, SessionIds!IdSourceSpec
=============================================================================
