---------------------------- MODULE ActionLedger ----------------------------
(***************************************************************************)
(* What a session promises about the actions it asks of its host, seen     *)
(* from outside (core/ime-core/src/session.rs): identifiers are issued one *)
(* at a time, in order and never again; an issued action is outstanding    *)
(* until it is settled, once, and is never outstanding afterwards; the     *)
(* disposition it was settled with never changes while it is remembered;   *)
(* neither the outstanding actions nor the memory grow beyond their limit. *)
(* Which settled actions are remembered is not promised here.              *)
(***************************************************************************)
EXTENDS Naturals, FiniteSets

CONSTANTS MaxOutstanding, MaxRemembered, Disposition

VARIABLES next,         \* the identifier the next action will get
          outstanding,  \* identifiers issued and not settled
          remembered    \* the dispositions still known, by identifier

ledgerVars == <<next, outstanding, remembered>>

Start == next = 1 /\ outstanding = {} /\ remembered = <<>>

\* The promise itself: a call settles some outstanding actions, all with one
\* disposition, forgets some it had settled, and issues at most one.
Call ==
    \E settled \in SUBSET outstanding, issued \in {{}, {next}}, d \in Disposition :
        /\ next' = next + Cardinality(issued)
        /\ outstanding' = (outstanding \ settled) \cup issued
        /\ DOMAIN remembered' \subseteq DOMAIN remembered \cup settled
        /\ remembered' = [i \in DOMAIN remembered' |->
                             IF i \in settled THEN d ELSE remembered[i]]
        /\ Cardinality(outstanding') <= MaxOutstanding
        /\ Cardinality(DOMAIN remembered') <= MaxRemembered

LedgerSpec == Start /\ [][Call]_ledgerVars
=============================================================================
