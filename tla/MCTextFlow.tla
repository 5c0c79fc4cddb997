------------------------------- MODULE MCTextFlow -------------------------------
(***************************************************************************)
(* A small instance of TextFlow: two letters, one typed at a time.  A      *)
(* lookup finds the text itself, or fails.                                 *)
(***************************************************************************)
EXTENDS TextFlow

MCByte == {"a", "b"}
MCBreak(text, i) == TRUE
MCGenerate(text) == {[texts |-> <<text>>, failed |-> {}],
                     [texts |-> <<>>, failed |-> {"Dictionary"}]}
MCInsertTexts == {<<"a">>, <<"b">>}
MCContexts == {[before |-> 0, selected |-> 0, after |-> 0, scope |-> "Normal",
                context_epoch |-> 1, origin |-> "none"]}
AnyOrder == {[synchronous |-> FALSE, in_order |-> FALSE, performs_all |-> FALSE]}

ASSUME MCAssumption == CandidatesSpell
=============================================================================
