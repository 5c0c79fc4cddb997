-------------------------- MODULE CandidatePipeline --------------------------
(***************************************************************************)
(* How a composition becomes candidates: CandidateEngine::generate of      *)
(* core/ime-core/src/candidate/mod.rs, the dictionary provider, the        *)
(* in-memory dictionary and the reference language it calls.               *)
(*                                                                         *)
(* A pipeline is a record of what ImeEngine::with_candidate_pipeline is    *)
(* given: a language that may refuse its input, providers in order, each   *)
(* with the entries its dictionary was built from or one that fails, and   *)
(* the two limits.                                                         *)
(***************************************************************************)
EXTENDS Ranking, SequencesExt

Entry == [lexeme_id : Nat, input_code : Bytes, text : Bytes, base_frequency : Nat]

Provider == [entries : Seq(Entry), fails : BOOLEAN]

\* CoreLimits::validate on the candidate limits.
Pipeline == {p \in [language_fails : BOOLEAN, providers : Seq(Provider),
                    max_generated_candidates : Nat \ {0},
                    max_visible_candidates : Nat \ {0}] :
                p.max_visible_candidates <= p.max_generated_candidates}

-----------------------------------------------------------------------------
(* ReferenceLanguageEngine.                                                *)

IsUppercase(byte) == byte \in 65..90

normalize_input(composition) ==
    [i \in DOMAIN composition |->
        IF IsUppercase(composition[i]) THEN composition[i] + 32 ELSE composition[i]]

-----------------------------------------------------------------------------
(* InMemoryDictionary.                                                     *)

\* A slip: the entries of one code stay in the order they came.
EntryPrecedes_CodeOnly(left, right) ==
    CompareBytes(left.input_code, right.input_code) < 0

\* The order of the codes, and under one code that of its sorted entries.
EntryPrecedes(left, right) ==
    IsLess(<<CompareBytes(left.input_code, right.input_code),
             Compare(left.lexeme_id, right.lexeme_id),
             CompareBytes(left.text, right.text),
             Compare(right.base_frequency, left.base_frequency)>>)

\* sort_by is stable.
Dictionary(entries) ==
    LET Place(i) == Cardinality({j \in DOMAIN entries :
                        \/ EntryPrecedes(entries[j], entries[i])
                        \/ j <= i /\ ~EntryPrecedes(entries[i], entries[j])})
    IN  [n \in DOMAIN entries |->
            entries[CHOOSE i \in DOMAIN entries : Place(i) = n]]

Smaller(m, n) == IF m < n THEN m ELSE n

\* A slip: a lookup begins with the first code.
Below_Nothing(sorted, code) == 0

\* How many sorted entries have a lower code, where a range or a code starts.
Below(sorted, code) ==
    Cardinality({i \in DOMAIN sorted : CompareBytes(sorted[i].input_code, code) < 0})

\* A slip: the lookup does not stop where the prefix does.
lookup_prefix_ToTheEnd(entries, prefix, limit) ==
    LET sorted == Dictionary(entries)
        below  == Below(sorted, prefix)
    IN  IF prefix = <<>> THEN <<>>
        ELSE SubSeq(sorted, below + 1, below + Smaller(Len(sorted) - below, limit))

\* The codes from the prefix on, up to the first that does not start with it.
lookup_prefix(entries, prefix, limit) ==
    LET sorted   == Dictionary(entries)
        below    == Below(sorted, prefix)
        matching == {i \in DOMAIN sorted :
                        /\ i > below
                        /\ \A j \in (below + 1)..i : IsPrefix(prefix, sorted[j].input_code)}
    IN  IF prefix = <<>> THEN <<>>
        ELSE SubSeq(sorted, below + 1, below + Smaller(Cardinality(matching), limit))

\* The entries of one code.  Nothing but tests calls it yet.
lookup_exact(entries, code, limit) ==
    LET sorted == Dictionary(entries)
        below  == Below(sorted, code)
        found  == {i \in DOMAIN sorted : sorted[i].input_code = code}
    IN  IF code = <<>> THEN <<>>
        ELSE SubSeq(sorted, below + 1, below + Smaller(Cardinality(found), limit))

-----------------------------------------------------------------------------
(* DictionaryCandidateProvider and CandidateEngine.                        *)

Proposed(entry, code) ==
    [lexeme_id |-> entry.lexeme_id, text |-> entry.text,
     input_code |-> entry.input_code, base_frequency |-> entry.base_frequency,
     match_kind |-> IF entry.input_code = code THEN "Exact" ELSE "Prefix"]

\* What one provider proposes, at most limit of them.
ProviderGenerate(provider, code, limit) ==
    LET found == lookup_prefix(provider.entries, code, limit)
    IN  [i \in DOMAIN found |-> Proposed(found[i], code)]

\* One turn of the loop over the providers.  After a failure nothing is asked any
\* more, nor when the proposals have reached their limit.
Ask(pipeline, code, collected, provider) ==
    LET remaining == pipeline.max_generated_candidates - Len(collected.proposals)
    IN  IF collected.failed # {} \/ remaining <= 0 THEN collected
        ELSE IF provider.fails THEN [collected EXCEPT !.failed = {"Dictionary"}]
        ELSE [collected EXCEPT !.proposals =
                 @ \o ProviderGenerate(provider, code, remaining)]

Collected(pipeline, code) ==
    LET after[n \in 0..Len(pipeline.providers)] ==
            IF n = 0 THEN [proposals |-> <<>>, failed |-> {}]
            ELSE Ask(pipeline, code, after[n - 1], pipeline.providers[n])
    IN  after[Len(pipeline.providers)]

\* One turn of the loop over the proposals.  CandidateIdentity is the text.
Merged(merged, incoming) ==
    LET existing == {p \in merged : p.text = incoming.text}
    IN  (merged \ existing)
            \cup IF existing = {} THEN {incoming}
                 ELSE {merge_proposal(p, incoming) : p \in existing}

\* One proposal for each text.
deduplicate(proposals) ==
    LET after[n \in 0..Len(proposals)] ==
            IF n = 0 THEN {} ELSE Merged(after[n - 1], proposals[n])
    IN  after[Len(proposals)]

\* What a session learns: the candidate texts, or the component that failed.
generate(pipeline, composition) ==
    IF composition = <<>> THEN [texts |-> <<>>, failed |-> {}]
    ELSE IF pipeline.language_fails THEN [texts |-> <<>>, failed |-> {"Language"}]
    ELSE LET collected == Collected(pipeline, normalize_input(composition))
             ranked == rank(deduplicate(collected.proposals),
                            pipeline.max_visible_candidates)
         IN  IF collected.failed # {}
             THEN [texts |-> <<>>, failed |-> collected.failed]
             ELSE [texts |-> [i \in DOMAIN ranked |-> ranked[i].text], failed |-> {}]
=============================================================================
