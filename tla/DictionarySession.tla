-------------------------- MODULE DictionarySession --------------------------
(***************************************************************************)
(* A Session whose candidates come from the dictionaries of its engine:    *)
(* the composition of Session and CandidatePipeline, as                    *)
(* ImeEngine::with_reference_dictionary puts them together.                *)
(***************************************************************************)
EXTENDS Session, CandidatePipeline

CONSTANT TheEngine   \* the pipeline of the engine the session was created from

\* What the session assumes of its candidates is what the pipeline gives.
ASSUME EngineAnswers ==
    /\ TheEngine \in Pipeline
    /\ Byte \subseteq 0..255
    /\ \A text \in CompositionText : Generate(text) = {generate(TheEngine, text)}

\* ASCII letters count as equal whatever their case.
SameLetter(x, y) == x = y \/ (IsUppercase(x) /\ y = x + 32)

BeginsAnyCase(text, code) ==
    /\ Len(text) <= Len(code)
    /\ \A i \in DOMAIN text : SameLetter(text[i], code[i])

\* The texts whose code starts with what was typed.
Meant(text) ==
    {e.text : e \in {f \in UNION {Range(TheEngine.providers[n].entries)
                                    : n \in DOMAIN TheEngine.providers} :
                        BeginsAnyCase(text, f.input_code)}}

\* What is committed is what was typed, or a text the dictionaries list under a code
\* that begins with it: whatever was edited, refused, restored or moved before, no
\* candidate of another composition is ever committed.
CommittedWasMeant ==
    [][\A id \in DOMAIN pending_actions' \ DOMAIN pending_actions :
          pending_actions'[id].kind = "CommitText" =>
             pending_actions'[id].text \in {composer.text} \cup Meant(composer.text)]_vars
=============================================================================
