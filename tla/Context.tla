------------------------------- MODULE Context -------------------------------
(***************************************************************************)
(* ContextSnapshot::sanitized of core/ime-core/src/types.rs: what a        *)
(* session keeps of the host text around the cursor.                       *)
(*                                                                         *)
(* The three texts are abstracted to their byte lengths.  The truncation   *)
(* flags and the document identity are only ever compared, so they are one *)
(* opaque field, origin.                                                   *)
(***************************************************************************)
EXTENDS Naturals

CONSTANTS MaxContextBytes,         \* max_context_text_bytes
          MaxUnknownContextBytes,  \* max_unknown_context_text_bytes
          SurroundingText,         \* "None", "BeforeCursor" or "Bidirectional"
          SelectedTextRead         \* selected_text_read_support

\* CoreLimits::validate on the context limits.
ASSUME ContextAssumption ==
    /\ MaxContextBytes \in Nat
    /\ MaxUnknownContextBytes \in 0..MaxContextBytes
    /\ SurroundingText \in {"None", "BeforeCursor", "Bidirectional"}
    /\ SelectedTextRead \in BOOLEAN

Scopes == {"Normal", "Search", "Email", "Url", "Number", "Phone",
           "Password", "Sensitive", "Unknown"}

Origins == {"none", "document"}

Context == [before : Nat, selected : Nat, after : Nat,
            scope : Scopes, context_epoch : Nat, origin : Origins]

DefaultContext ==
    [before |-> 0, selected |-> 0, after |-> 0,
     scope |-> "Unknown", context_epoch |-> 0, origin |-> "none"]

ContextLimit(scope) ==
    CASE scope \in {"Password", "Sensitive"} -> 0
      [] scope = "Unknown"                   -> MaxUnknownContextBytes
      [] OTHER                               -> MaxContextBytes

\* A slip: a text is dropped for its scope, whatever the host can read.
Sanitized_ScopeOnly(c) ==
    IF ContextLimit(c.scope) > 0 THEN c
    ELSE [c EXCEPT !.before = 0, !.selected = 0, !.after = 0]

\* The context with every text dropped that the scope or the host's
\* capabilities do not allow.
Sanitized(c) ==
    LET readable == ContextLimit(c.scope) > 0
    IN  [c EXCEPT
           !.before   = IF readable /\ SurroundingText # "None" THEN @ ELSE 0,
           !.after    = IF readable /\ SurroundingText = "Bidirectional" THEN @ ELSE 0,
           !.selected = IF readable /\ SelectedTextRead THEN @ ELSE 0]

\* The three texts, each within its limit (validate_context_field).
WithinLimit(c) == \A length \in {c.before, c.selected, c.after} :
                      length <= ContextLimit(c.scope)
=============================================================================
