------------------------------ MODULE IdSource ------------------------------
(***************************************************************************)
(* What the identifiers of engines and sessions promise, whoever asks and  *)
(* however many at once: each is larger than all that were given before,   *)
(* so none is given twice (core/ime-core/src/engine.rs).                   *)
(***************************************************************************)
EXTENDS Naturals

CONSTANTS Threads, MaxId

VARIABLE given   \* the identifiers each thread has been given

NothingGiven == given = [t \in Threads |-> {}]

Give(t, id) ==
    /\ \A u \in Threads : \A earlier \in given[u] : earlier < id
    /\ given' = [given EXCEPT ![t] = @ \cup {id}]

IdSourceSpec == NothingGiven /\ [][\E t \in Threads, id \in 1..MaxId : Give(t, id)]_given
=============================================================================
