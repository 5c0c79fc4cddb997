--------------------------- MODULE CandidateEngine ---------------------------
(***************************************************************************)
(* An engine's pipeline, fixed when the engine is created, asked again for *)
(* every composition a session reaches (regenerate_candidates of           *)
(* core/ime-core/src/session.rs).  The properties compare the candidates   *)
(* with what the dictionaries hold, without the loop over the providers,   *)
(* the merging of duplicates or the scores.                                *)
(***************************************************************************)
EXTENDS CandidatePipeline

CONSTANTS Pipelines,     \* the engines that may be created
          Compositions   \* the texts that may be composed

ASSUME EngineAssumption == Pipelines \subseteq Pipeline /\ Compositions \subseteq Bytes

VARIABLES pipeline, composition, candidates

engineVars == <<pipeline, composition, candidates>>

Init ==
    /\ pipeline \in Pipelines
    /\ composition = <<>>
    /\ candidates = generate(pipeline, <<>>)

regenerate_candidates(text) ==
    /\ composition' = text
    /\ candidates' = generate(pipeline, text)
    /\ UNCHANGED pipeline

Next == \E text \in Compositions : regenerate_candidates(text)

Spec == Init /\ [][Next]_engineVars

-----------------------------------------------------------------------------
(* What the dictionaries hold for the composition.                         *)

Code == normalize_input(composition)

\* The entries of some providers that match, each with its place.
Matches(providers) ==
    UNION {{<<n, i>> : i \in {j \in DOMAIN pipeline.providers[n].entries :
                                 IsPrefix(Code, pipeline.providers[n].entries[j].input_code)}}
              : n \in providers}

At(place) == pipeline.providers[place[1]].entries[place[2]]

Matching == {At(place) : place \in Matches(DOMAIN pipeline.providers)}

Offers(text) == {e \in Matching : e.text = text}

Texts == {e.text : e \in Matching}

IsExact(text) == \E e \in Offers(text) : e.input_code = Code

Frequency(text) ==
    CHOOSE f \in {e.base_frequency : e \in Offers(text)} :
        \A e \in Offers(text) : e.base_frequency <= f

\* Where a text is listed when no code of its is the composition: its most frequent
\* entry, of those the lowest lexeme, the earliest dictionary, the lowest code.
Listing(text) ==
    LET frequent == {p \in Matches(DOMAIN pipeline.providers) :
                        At(p).text = text /\ At(p).base_frequency = Frequency(text)}
        lowest   == {p \in frequent : \A o \in frequent : At(p).lexeme_id <= At(o).lexeme_id}
        earliest == {p \in lowest : \A o \in lowest : p[1] <= o[1]}
    IN  CHOOSE p \in earliest :
            \A o \in earliest : CompareBytes(At(p).input_code, At(o).input_code) <= 0

ListedCode(text) == IF IsExact(text) THEN Code ELSE At(Listing(text)).input_code

\* Whether a text belongs before another on display.
Better(s, t) ==
    \/ IsExact(s) /\ ~IsExact(t)
    \/ /\ IsExact(s) = IsExact(t)
       /\ \/ Frequency(s) > Frequency(t)
          \/ /\ Frequency(s) = Frequency(t)
             /\ \/ CompareBytes(ListedCode(s), ListedCode(t)) < 0
                \/ ListedCode(s) = ListedCode(t) /\ CompareBytes(s, t) < 0

Working == /\ ~pipeline.language_fails
           /\ \A n \in DOMAIN pipeline.providers : ~pipeline.providers[n].fails

Everything == Cardinality(Matches(DOMAIN pipeline.providers))
                 <= pipeline.max_generated_candidates

\* A provider, and a pipeline, whose dictionaries were given their entries the other
\* way round.
Backwards(provider) == [provider EXCEPT !.entries = Reverse(@)]

Turned(p) == [p EXCEPT !.providers = [n \in DOMAIN @ |-> Backwards(@[n])]]

Visible == {candidates.texts[i] : i \in DOMAIN candidates.texts}

-----------------------------------------------------------------------------
(* Properties.                                                             *)

\* When every match can be looked at, the candidates are the best texts of all the
\* dictionaries in order, each once, placed by whether any of its codes is the composition,
\* then by its highest frequency, whichever duplicate arrived first.  The order of the
\* providers shows in the next tie only, between the codes the texts are listed under: if
\* dictionaries list a text under different codes with that frequency and the same lowest
\* lexeme, the code of the earliest places it (Listing).
BestInOrder ==
    Working /\ Everything /\ composition # <<>> =>
        /\ Visible \subseteq Texts
        /\ \A i, j \in DOMAIN candidates.texts :
              i < j => Better(candidates.texts[i], candidates.texts[j])
        /\ \A text \in Texts \ Visible :
              /\ Len(candidates.texts) = pipeline.max_visible_candidates
              /\ \A shown \in Visible : Better(shown, text)

\* Whatever the limits cut, a text that only extends the composition is never shown
\* while an exact match of the first dictionary is not: lookup_prefix is cut in code
\* order, and no frequency outweighs an exact match.
ExactNotCrowdedOut ==
    Working /\ Len(pipeline.providers) > 0 /\ composition # <<>> =>
        LET exact == {At(place).text : place \in {p \in Matches({1}) : At(p).input_code = Code}}
        IN  (\E text \in Visible : ~IsExact(text)) => exact \subseteq Visible

\* When no provider fails, a match in any dictionary gives a candidate, however small the
\* limits.  One failure discards what the other providers found (collect_proposals), so
\* nothing is promised then.
SomeMatchSomeCandidate ==
    Working /\ composition # <<>> /\ Matching # {} => candidates.texts # <<>>

\* "Builds an immutable dictionary with a stable record order" (InMemoryDictionary::new):
\* giving a dictionary its entries the other way round never shows, not even in what the
\* limits cut.
InsertionOrderHidden == generate(Turned(pipeline), composition) = candidates

\* The two lookups of a dictionary agree under every limit: what lookup_exact finds comes
\* first in what lookup_prefix finds, in the same order, and the limit cuts no exact match
\* before a longer code.
LookupsAgree ==
    \A n \in DOMAIN pipeline.providers, limit \in 0..pipeline.max_generated_candidates :
        LET entries == pipeline.providers[n].entries
            exact   == lookup_exact(entries, Code, limit)
            found   == lookup_prefix(entries, Code, limit)
        IN  /\ IsPrefix(exact, found)
            /\ \A i \in DOMAIN found : found[i].input_code = Code => i \in DOMAIN exact
=============================================================================
