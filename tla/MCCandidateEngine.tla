-------------------------- MODULE MCCandidateEngine --------------------------
(***************************************************************************)
(* Small engines for TLC: up to two providers with up to two entries each, *)
(* or one with three.  The entries share codes, texts and prefixes, and    *)
(* their frequencies lie on both sides of what a score counts.             *)
(***************************************************************************)
EXTENDS CandidateEngine

E(lexeme, code, text, frequency) ==
    [lexeme_id |-> lexeme, input_code |-> code, text |-> text, base_frequency |-> frequency]

a == 97
b == 98

Pool == {E(1, <<a>>, <<120>>, 1),
         E(2, <<a>>, <<121>>, 1),
         E(3, <<a>>, <<121>>, 2),
         E(4, <<a, a>>, <<120>>, 2),
         E(4, <<a, b>>, <<120>>, 2),
         E(8, <<a, a>>, <<122>>, 2),
         E(5, <<a, b>>, <<121>>, 1500000),
         E(6, <<a, b>>, <<122>>, 3000000),
         E(7, <<b>>, <<120>>, 5)}

UpTo(n) == UNION {[1..k -> Pool] : k \in 0..n}

Works(entries) == [entries |-> entries, fails |-> FALSE]
Fails == [entries |-> <<>>, fails |-> TRUE]

Providers ==
    {<<Works(es)>> : es \in UpTo(3)}
    \cup {<<Works(es), Works(fs)>> : es \in UpTo(2), fs \in UpTo(1)}
    \cup {<<Works(es), Works(fs)>> : es \in UpTo(1), fs \in UpTo(2)}
    \cup {<<Works(es), Fails>> : es \in UpTo(1)}
    \cup {<<Fails, Works(es)>> : es \in UpTo(1)}
    \cup {<<>>}

Limits == {<<4, 2>>, <<3, 3>>, <<2, 1>>, <<1, 1>>}

MCPipelines ==
    {[language_fails |-> FALSE, providers |-> providers,
      max_generated_candidates |-> limits[1], max_visible_candidates |-> limits[2]]
        : providers \in Providers, limits \in Limits}
    \cup {[language_fails |-> TRUE, providers |-> <<>>,
           max_generated_candidates |-> 1, max_visible_candidates |-> 1]}

MCCompositions == {<<>>, <<a>>, <<65>>, <<a, b>>, <<b>>, <<b, b>>}
=============================================================================
