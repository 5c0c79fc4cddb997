----------------------------- MODULE MCSession -----------------------------
(***************************************************************************)
(* Small instances of Session for TLC.  Texts are made of a letter, the    *)
(* one byte "a", and a combining mark, the two bytes "m" "n", which joins  *)
(* the cluster before it: so a cluster is not a byte, and an insertion or  *)
(* a removal can change the clusters next to it.                           *)
(***************************************************************************)
EXTENDS SessionInvariant, Utf8

Letter == <<"a">>
Mark   == <<"m", "n">>

MCByte == {"a", "m", "n"}

MCWidth(byte) == CASE byte = "a" -> 1 [] byte = "m" -> 2 [] byte = "n" -> 0

MCBreak(text, i) == text[i + 1] = "a"

\* One letter has two candidates, and its lookup may fail; two letters have
\* one; other texts have none.
MCGenerate(text) ==
    CASE text = Letter ->
           {[texts |-> <<Letter \o Letter, Mark>>, failed |-> {}],
            [texts |-> <<>>, failed |-> {"Dictionary"}]}
      [] text = Letter \o Letter -> {[texts |-> <<Letter>>, failed |-> {}]}
      [] OTHER -> {[texts |-> <<>>, failed |-> {}]}

MCInsertTexts == {<<>>, Letter, Mark, Letter \o Mark, Letter \o Letter \o Letter \o Letter}

MCDeltas == {-1, 0, 1}

MCContexts ==
    {[before |-> b, selected |-> 1, after |-> 1, scope |-> s,
      context_epoch |-> 1, origin |-> "none"]
       : b \in {1, 2}, s \in {"Normal", "Password"}}

OneHardwareKey == {[key |-> [character |-> Letter], down |-> TRUE,
                    command_modifier |-> FALSE, repeat_count |-> 1]}

\* Every key once or twice; the guards on key-up and modifiers.
MCHardwareKeys ==
    {event \in HardwareKeyEvents({Letter}) :
        /\ event.down /\ ~event.command_modifier => event.repeat_count > 0
        /\ ~event.down \/ event.command_modifier =>
              event.repeat_count = 0 /\ event.key = [character |-> Letter]}
=============================================================================
