------------------------------- MODULE Ranking -------------------------------
(***************************************************************************)
(* RankingEngine of core/ime-core/src/ranking/mod.rs, and the choice       *)
(* between proposals of one text of core/ime-core/src/candidate/mod.rs.    *)
(*                                                                         *)
(* A proposal is what a dictionary entry becomes once it is known how its  *)
(* code matches the composition.  Texts and codes are sequences of byte    *)
(* values, compared byte by byte as Rust compares strings.                 *)
(***************************************************************************)
EXTENDS Integers, Sequences, FiniteSets

Bytes == Seq(0..255)

\* There is one source, SystemDictionary, so a proposal does not name it.
Proposal == [lexeme_id : Nat, text : Bytes, input_code : Bytes,
             base_frequency : Nat, match_kind : {"Prefix", "Exact"}]

-----------------------------------------------------------------------------
(* Orders: a comparison is negative, zero or positive.                     *)

Compare(m, n) == m - n

CompareBytes(s, t) ==
    IF s = t THEN 0
    ELSE IF \E n \in 0..Len(s) :
               /\ n < Len(t)
               /\ \A i \in 1..n : s[i] = t[i]
               /\ n = Len(s) \/ s[n + 1] < t[n + 1]
         THEN -1 ELSE 1

\* Ordering::then_with, and is_lt of what comes out.
IsLess(comparisons) ==
    \E i \in DOMAIN comparisons :
        comparisons[i] < 0 /\ \A j \in 1..(i - 1) : comparisons[j] = 0

KindOrder(p) == IF p.match_kind = "Exact" THEN 1 ELSE 0

-----------------------------------------------------------------------------
(* Proposals of one text.                                                  *)

\* An exact match, then a higher frequency, then a lower lexeme.
canonical_precedes(left, right) ==
    IsLess(<<Compare(KindOrder(right), KindOrder(left)),
             Compare(right.base_frequency, left.base_frequency),
             Compare(left.lexeme_id, right.lexeme_id)>>)

Larger(m, n) == IF m > n THEN m ELSE n

\* A slip: the frequencies of duplicates add up.
merge_proposal_Sum(existing, incoming) ==
    [IF canonical_precedes(incoming, existing) THEN incoming ELSE existing
        EXCEPT !.base_frequency = existing.base_frequency + incoming.base_frequency]

merge_proposal(existing, incoming) ==
    [IF canonical_precedes(incoming, existing) THEN incoming ELSE existing
        EXCEPT !.base_frequency = Larger(existing.base_frequency, incoming.base_frequency)]

-----------------------------------------------------------------------------
(* Ranking.                                                                *)

EXACT_MATCH_BONUS   == 2000000
MAX_FREQUENCY_SCORE == 1000000
SystemDictionaryPriority == 100

\* A slip: the frequency counts in full.
score_Unclamped(p) ==
    (IF p.match_kind = "Exact" THEN EXACT_MATCH_BONUS ELSE 0)
        + p.base_frequency + SystemDictionaryPriority

score(p) ==
    (IF p.match_kind = "Exact" THEN EXACT_MATCH_BONUS ELSE 0)
        + (IF p.base_frequency > MAX_FREQUENCY_SCORE THEN MAX_FREQUENCY_SCORE
           ELSE p.base_frequency)
        + SystemDictionaryPriority

\* compare_ranked is Less: left is ranked before right.
compare_ranked(left, right) ==
    IsLess(<<Compare(score(right), score(left)),
             Compare(KindOrder(right), KindOrder(left)),
             Compare(right.base_frequency, left.base_frequency),
             CompareBytes(left.input_code, right.input_code),
             CompareBytes(left.text, right.text),
             Compare(left.lexeme_id, right.lexeme_id)>>)

\* Proposals of different texts, in rank order, and no more than top_k of them.
rank(proposals, top_k) ==
    LET Before(p) == Cardinality({q \in proposals : compare_ranked(q, p)})
        count     == Cardinality(proposals)
    IN  [i \in 1..(IF count < top_k THEN count ELSE top_k) |->
            CHOOSE p \in proposals : Before(p) = i - 1]
=============================================================================
