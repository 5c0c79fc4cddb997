--------------------------------- MODULE MCCli ---------------------------------
(***************************************************************************)
(* The command line loop on an engine with a small dictionary in the shape *)
(* of the reference dictionary: one code that extends another, a text      *)
(* under two codes, a code of its own; typed in small and capital letters. *)
(***************************************************************************)
EXTENDS Cli, DictionarySession

a == 97
b == 98

MCByte == {65, a, b, 120, 121, 122}
MCBreak(text, i) == TRUE

E(lexeme, code, text, frequency) ==
    [lexeme_id |-> lexeme, input_code |-> code, text |-> text, base_frequency |-> frequency]

MCEngine ==
    [language_fails |-> FALSE,
     providers |-> <<[entries |-> <<E(1, <<a>>, <<120>>, 10), E(2, <<a>>, <<121>>, 3),
                                    E(3, <<a, b>>, <<121>>, 30), E(4, <<b>>, <<122>>, 20)>>,
                      fails |-> FALSE]>>,
     max_generated_candidates |-> 4, max_visible_candidates |-> 3]

MCGenerate(text) == {generate(MCEngine, text)}

MCInsertTexts == {<<>>, <<65>>, <<a>>, <<b>>, <<a, a, a>>}
MCDeltas == {-1, 1}
=============================================================================
