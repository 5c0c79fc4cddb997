----------------------- MODULE CandidateEngineProofs ------------------------
(***************************************************************************)
(* What the candidates of an engine are, for any dictionaries, providers,  *)
(* limits and composition.                                                 *)
(***************************************************************************)
EXTENDS CandidateEngine, PipelineProofs

-----------------------------------------------------------------------------
(* Where the matches of the providers lie.                                 *)

\* The matches of one provider are the hits in its entries.
LEMMA MatchesOfOne ==
    ASSUME NEW n
    PROVE  /\ Matches({n}) = {<<n, h>> : h \in Hits(pipeline.providers[n].entries, Code)}
           /\ \A h : At(<<n, h>>) = pipeline.providers[n].entries[h]
  BY DEF Matches, Hits, At

\* The matches of one provider and the hits of its dictionary.
LEMMA MatchesInOne ==
    ASSUME NEW n
    PROVE  /\ \A h \in Hits(pipeline.providers[n].entries, Code) : <<n, h>> \in Matches({n})
           /\ \A m \in Matches({n}) :
                 /\ m[1] = n /\ m[2] \in Hits(pipeline.providers[n].entries, Code)
                 /\ At(m) = pipeline.providers[n].entries[m[2]]
  <1>. DEFINE H == Hits(pipeline.providers[n].entries, Code)
  <1>1. Matches({n}) = {<<n, h>> : h \in H}
    BY MatchesOfOne
  <1>. HIDE DEF H
  <1>2. ASSUME NEW m \in Matches({n})
        PROVE  m[1] = n /\ m[2] \in H /\ At(m) = pipeline.providers[n].entries[m[2]]
    <2>1. PICK h \in H : m = <<n, h>>
      BY <1>1
    <2>2. m[1] = n /\ m[2] = h
      BY <2>1
    <2>. QED
      BY <2>2 DEF At
  <1>3. \A h \in H : <<n, h>> \in Matches({n})
    BY <1>1
  <1>. QED
    BY <1>2, <1>3 DEF H

\* The matches of several providers are those of each.
LEMMA MatchesOfAll ==
    ASSUME NEW S, NEW T
    PROVE  /\ Matches(S \cup T) = Matches(S) \cup Matches(T)
           /\ \A m : m \in Matches(S) <=> \E n \in S : m \in Matches({n})
           /\ \A m \in Matches(S) : m[1] \in S
  BY DEF Matches

\* A match is an entry.
LEMMA MatchIsEntry ==
    ASSUME pipeline \in Pipeline, NEW S \in SUBSET (1..Len(pipeline.providers)),
           NEW m \in Matches(S)
    PROVE  /\ m[1] \in S /\ m[2] \in Hits(pipeline.providers[m[1]].entries, Code)
           /\ m = <<m[1], m[2]>> /\ m \in Matches({m[1]})
           /\ At(m) = pipeline.providers[m[1]].entries[m[2]] /\ At(m) \in Entry
           /\ IsPrefix(Code, At(m).input_code)
  <1>0. PICK n \in S : m \in Matches({n})
    BY MatchesOfAll
  <1>1. PICK h \in Hits(pipeline.providers[n].entries, Code) : m = <<n, h>>
    BY <1>0, MatchesOfOne
  <1>2. m[1] = n /\ m[2] = h /\ m \in Matches({n})
    BY <1>1, MatchesOfOne
  <1>3. pipeline.providers[n].entries \in Seq(Entry)
    <2>1. pipeline.providers \in Seq(Provider)
      BY DEF Pipeline
    <2>2. pipeline.providers[n] \in Provider
      BY <2>1, ElementOfSeq
    <2>. QED
      BY <2>2 DEF Provider
  <1>4. /\ h \in 1..Len(pipeline.providers[n].entries)
        /\ IsPrefix(Code, pipeline.providers[n].entries[h].input_code)
    BY <1>3, LenProperties DEF Hits
  <1>5. pipeline.providers[n].entries[h] \in Entry
    BY <1>3, <1>4, ElementOfSeq
  <1>. QED
    BY <1>1, <1>2, <1>4, <1>5 DEF At

\* The matches of one more provider add to those of the first n.
LEMMA MatchesCount ==
    ASSUME NEW n \in Nat, IsFiniteSet(Matches(1..n)),
           NEW hits, hits = Hits(pipeline.providers[n + 1].entries, Code), IsFiniteSet(hits)
    PROVE  /\ IsFiniteSet(Matches(1..(n + 1)))
           /\ Matches(1..(n + 1)) = Matches(1..n) \cup Matches({n + 1})
           /\ Cardinality(Matches(1..(n + 1)))
                 = Cardinality(Matches(1..n)) + Cardinality(hits)
  <1>1. Matches(1..(n + 1)) = Matches(1..n) \cup Matches({n + 1})
    <2>1. PICK S : S = 1..n
      OBVIOUS
    <2>2. 1..(n + 1) = S \cup {n + 1}
      BY <2>1
    <2>3. Matches(S \cup {n + 1}) = Matches(S) \cup Matches({n + 1})
      BY MatchesOfAll
    <2>. QED
      BY <2>1, <2>2, <2>3, Zenon
  <1>2. IsFiniteSet(Matches({n + 1})) /\ Cardinality(Matches({n + 1})) = Cardinality(hits)
    <2>. DEFINE T == Matches({n + 1})
                f == [h \in hits |-> <<n + 1, h>>]
    <2>1. T = {<<n + 1, h>> : h \in hits}
      BY MatchesOfOne
    <2>2. /\ f \in [hits -> T] /\ \A g, h \in hits : f[g] = f[h] => g = h
          /\ \A t \in T : \E h \in hits : f[h] = t
      BY <2>1
    <2>. HIDE DEF T, f
    <2>3. f \in Bijection(hits, T)
      BY <2>2 DEF Bijection, Injection, Surjection, IsInjective
    <2>4. IsFiniteSet(T) /\ Cardinality(T) = Cardinality(hits)
      BY <2>3, FS_Bijection DEF ExistsBijection
    <2>. QED
      BY <2>4 DEF T
  <1>3. Matches(1..n) \cap Matches({n + 1}) = {}
    <2>1. n + 1 \notin 1..n
      OBVIOUS
    <2>. QED
      BY <2>1, MatchesOfAll
  <1>4. Cardinality({}) = 0
    BY FS_EmptySet
  <1>. DEFINE A == Matches(1..n)
              B == Matches({n + 1})
  <1>5. /\ IsFiniteSet(A \cup B)
        /\ Cardinality(A \cup B) = Cardinality(A) + Cardinality(B) - Cardinality(A \cap B)
    BY <1>2, FS_Union
  <1>6. Cardinality(A) \in Nat /\ Cardinality(B) \in Nat
    BY <1>2, FS_CardinalityType
  <1>7. Cardinality(A \cap B) = 0
    BY <1>3, <1>4, Zenon
  <1>. HIDE DEF A, B
  <1>8. Cardinality(A \cup B) = Cardinality(A) + Cardinality(B)
    BY <1>5, <1>6, <1>7
  <1>. QED
    BY <1>1, <1>2, <1>5, <1>8, Zenon DEF A, B

-----------------------------------------------------------------------------
(* What the loop over the providers collects when none fails.              *)

\* The proposals of the first n providers: matches, provider by provider and in the order
\* of their codes, as many as there may be; from[i] is the provider of proposal i.
FromMatches(ps, from) ==
    \A i \in 1..Len(ps) : \E m \in Matches({from[i]}) : ps[i] = Proposed(At(m), Code)

InTurn(ps, from) ==
    \A i, j \in 1..Len(ps) : i < j =>
        /\ from[i] <= from[j]
        /\ from[i] = from[j] => ~Lower(ps[j].input_code, ps[i].input_code)

Complete(ps, from, n) ==
    \A m \in Matches(1..n) : \E i \in 1..Len(ps) : from[i] = m[1] /\ ps[i] = Proposed(At(m), Code)

\* An exact match of the first provider is among the proposals, or only such matches are.
ExactFirst(ps) ==
    \A m \in Matches({1}) : At(m).input_code = Code =>
        \/ \E i \in 1..Len(ps) : ps[i] = Proposed(At(m), Code)
        \/ /\ Len(ps) = pipeline.max_generated_candidates
           /\ \A i \in 1..Len(ps) : ps[i].match_kind = "Exact"

Gathered(n, ps, from) ==
    /\ ps \in Seq(Proposal) /\ from \in [1..Len(ps) -> 1..n] /\ IsFiniteSet(Matches(1..n))
    /\ Len(ps) = Smaller(Cardinality(Matches(1..n)), pipeline.max_generated_candidates)
    /\ FromMatches(ps, from) /\ InTurn(ps, from)
    /\ Cardinality(Matches(1..n)) <= pipeline.max_generated_candidates => Complete(ps, from, n)
    /\ n > 0 => ExactFirst(ps)

\* Nothing has been gathered from no provider.
LEMMA GatheredNothing ==
    ASSUME pipeline \in Pipeline, NEW from, from = [i \in 1..0 |-> 1]
    PROVE  Gathered(0, <<>>, from)
  <1>1. Matches(1..0) = {}
    BY DEF Matches
  <1>2. IsFiniteSet({}) /\ Cardinality({}) = 0
    BY FS_EmptySet
  <1>3. <<>> \in Seq(Proposal) /\ Len(<<>>) = 0 /\ 1..0 = {}
    OBVIOUS
  <1>4. from \in [1..0 -> 1..0]
    BY <1>3
  <1>5. pipeline.max_generated_candidates \in Nat \ {0}
    BY DEF Pipeline
  <1>6. 0 = Smaller(0, pipeline.max_generated_candidates)
    BY <1>5 DEF Smaller
  <1>7. FromMatches(<<>>, from) /\ InTurn(<<>>, from) /\ Complete(<<>>, from, 0)
    BY <1>1, <1>3 DEF FromMatches, InTurn, Complete
  <1>8. /\ from \in [1..Len(<<>>) -> 1..0]
        /\ IsFiniteSet(Matches(1..0))
        /\ Len(<<>>) = Smaller(Cardinality(Matches(1..0)), pipeline.max_generated_candidates)
    BY <1>1, <1>2, <1>3, <1>4, <1>6
  <1>9. ~(0 > 0)
    OBVIOUS
  <1>. QED
    BY <1>3, <1>7, <1>8, <1>9, Zenon DEF Gathered

\* What follows some proposals when entries have been found.
Continues(qs, ps, found) ==
    /\ qs \in Seq(Proposal) /\ Len(qs) = Len(ps) + Len(found)
    /\ \A i \in 1..Len(ps) : qs[i] = ps[i]
    /\ \A i \in 1..Len(found) : qs[Len(ps) + i] = Proposed(found[i], Code)

\* What is found is appended.
LEMMA ContinuesAppended ==
    ASSUME NEW ps \in Seq(Proposal), NEW found \in Seq(Entry), NEW generated \in Seq(Proposal),
           Len(generated) = Len(found),
           \A i \in 1..Len(found) : generated[i] = Proposed(found[i], Code)
    PROVE  Continues(ps \o generated, ps, found)
  <1>1. PICK L, k, qs : L = Len(ps) /\ k = Len(generated) /\ qs = ps \o generated
    OBVIOUS
  <1>2. L \in Nat /\ k \in Nat
    BY <1>1, LenProperties
  <1>3. /\ ps \o generated \in Seq(Proposal)
        /\ Len(ps \o generated) = Len(ps) + Len(generated)
        /\ \A i \in 1..(Len(ps) + Len(generated)) : (ps \o generated)[i] =
              IF i <= Len(ps) THEN ps[i] ELSE generated[i - Len(ps)]
    BY ConcatProperties, ZenonT(40)
  <1>4. /\ qs \in Seq(Proposal) /\ Len(qs) = L + k
        /\ \A i \in 1..(L + k) : qs[i] = IF i <= L THEN ps[i] ELSE generated[i - L]
    BY <1>1, <1>3
  <1>5. \A i \in 1..L : qs[i] = ps[i]
    <2>1. \A i \in 1..L : i \in 1..(L + k) /\ i <= L
      BY <1>2
    <2>. QED
      BY <1>4, <2>1
  <1>6. ASSUME NEW i \in 1..k
        PROVE  qs[L + i] = Proposed(found[i], Code)
    <2>1. L + i \in 1..(L + k) /\ ~(L + i <= L) /\ (L + i) - L = i
      BY <1>2
    <2>2. qs[L + i] = generated[i]
      BY <1>4, <2>1
    <2>. QED
      BY <1>1, <2>2
  <1>. QED
    BY <1>1, <1>4, <1>5, <1>6 DEF Continues

\* One more provider is asked.
LEMMA GatherMore ==
    ASSUME pipeline \in Pipeline, composition \in Bytes, Code # <<>>,
           NEW n \in Nat, n + 1 <= Len(pipeline.providers),
           NEW ps, NEW from, Gathered(n, ps, from), NEW L, L = Len(ps),
           NEW limit \in Nat, limit = pipeline.max_generated_candidates - L, limit > 0,
           NEW found, found = lookup_prefix(pipeline.providers[n + 1].entries, Code, limit),
           NEW qs, Continues(qs, ps, found)
    PROVE  \E to : Gathered(n + 1, qs, to)
  <1>k. PICK k : k = Len(found)
    OBVIOUS
  <1>q. /\ qs \in Seq(Proposal) /\ Len(qs) = L + k /\ \A i \in 1..L : qs[i] = ps[i]
        /\ \A i \in 1..k : qs[L + i] = Proposed(found[i], Code)
    BY <1>k DEF Continues
  <1>. DEFINE max == pipeline.max_generated_candidates
              to  == [i \in 1..(L + k) |-> IF i <= L THEN from[i] ELSE n + 1]
  <1>1. PICK entries, hits : /\ entries = pipeline.providers[n + 1].entries
                             /\ hits = Hits(entries, Code)
    OBVIOUS
  <1>2. entries \in Seq(Entry) /\ Code \in Bytes /\ max \in Nat
    <2>1. pipeline.providers \in Seq(Provider) /\ max \in Nat
      BY DEF Pipeline
    <2>2. n + 1 \in 1..Len(pipeline.providers)
      BY <2>1, LenProperties
    <2>3. pipeline.providers[n + 1] \in Provider
      BY <2>1, <2>2, ElementOfSeq
    <2>. QED
      BY <1>1, <2>1, <2>3, NormalizedBytes DEF Provider, Code
  <1>3. found = lookup_prefix(entries, Code, limit)
    BY <1>1
  <1>. HIDE DEF max
  <1>4. /\ found \in Seq(Entry)
        /\ IsFiniteSet(hits) /\ Cardinality(hits) \in Nat
        /\ k = Smaller(Cardinality(hits), limit)
        /\ \A i \in 1..k : \E h \in hits : found[i] = entries[h]
        /\ \A i, j \in 1..k :
              i < j => ~Lower(found[j].input_code, found[i].input_code)
        /\ Cardinality(hits) <= limit =>
              \A h \in hits : \E i \in 1..k : found[i] = entries[h]
        /\ \A h \in hits : entries[h].input_code = Code =>
              \/ \E i \in 1..k : found[i] = entries[h]
              \/ k = limit /\ \A i \in 1..k : found[i].input_code = Code
    <2>1. LooksUp(entries, Code, limit, found)
      BY <1>2, <1>3, PrefixLookup
    <2>. QED
      BY <1>k, <1>1, <2>1, ZenonT(40) DEF LooksUp
  <1>5. /\ ps \in Seq(Proposal) /\ from \in [1..L -> 1..n] /\ L \in Nat /\ k \in Nat
        /\ IsFiniteSet(Matches(1..n)) /\ L = Smaller(Cardinality(Matches(1..n)), max)
        /\ FromMatches(ps, from) /\ InTurn(ps, from)
        /\ Cardinality(Matches(1..n)) <= max => Complete(ps, from, n)
        /\ n > 0 => ExactFirst(ps)
    <2>1. k \in Nat
      BY <1>k, <1>4, LenProperties
    <2>. QED
      BY <2>1, LenProperties DEF Gathered, max
  <1>6. /\ IsFiniteSet(Matches(1..(n + 1)))
        /\ Matches(1..(n + 1)) = Matches(1..n) \cup Matches({n + 1})
        /\ Cardinality(Matches(1..(n + 1))) = Cardinality(Matches(1..n)) + Cardinality(hits)
    <2>1. hits = Hits(pipeline.providers[n + 1].entries, Code)
      BY <1>1
    <2>. QED
      BY <1>4, <1>5, <2>1, MatchesCount
  <1>7. Cardinality(Matches(1..n)) \in Nat /\ L = Cardinality(Matches(1..n)) /\ limit = max - L
    <2>1. Cardinality(Matches(1..n)) \in Nat
      BY <1>5, FS_CardinalityType
    <2>2. limit = max - L
      BY DEF max
    <2>. QED
      BY <1>2, <1>5, <2>1, <2>2 DEF Smaller
  <1>8. L + k = Smaller(Cardinality(Matches(1..(n + 1))), max)
    <2>1. PICK a, b : a = Cardinality(Matches(1..(n + 1))) /\ b = Cardinality(hits)
      OBVIOUS
    <2>2. a = L + b /\ b \in Nat /\ k = Smaller(b, limit)
      BY <1>4, <1>6, <1>7, <2>1
    <2>3. L + k = Smaller(a, max)
      BY <1>2, <1>5, <1>7, <2>2 DEF Smaller
    <2>. QED
      BY <2>1, <2>3
  <1>9. \A i \in 1..(L + k) : i \in 1..L \/ \E j \in 1..k : i = L + j
    <2>1. \A i \in 1..(L + k) : i \in 1..L \/ (i - L \in 1..k /\ i = L + (i - L))
      BY <1>5
    <2>. QED
      BY <2>1
  <1>10. /\ to \in [1..(L + k) -> 1..(n + 1)]
         /\ \A i \in 1..(L + k) : to[i] = IF i <= L THEN from[i] ELSE n + 1
    BY <1>5
  <1>. HIDE DEF to
  <1>11. ASSUME NEW i \in 1..k
         PROVE  /\ L + i \in 1..(L + k) /\ to[L + i] = n + 1
                /\ qs[L + i] = Proposed(found[i], Code)
                /\ qs[L + i].input_code = found[i].input_code
                /\ found[i].input_code = Code => qs[L + i].match_kind = "Exact"
    <2>1. found[i] \in Entry /\ qs[L + i] = Proposed(found[i], Code)
      BY <1>k, <1>4, <1>q, ElementOfSeq
    <2>2. L + i \in 1..(L + k) /\ to[L + i] = n + 1
      BY <1>5, <1>10
    <2>. QED
      BY <2>1, <2>2, ProposedIsProposal
  <1>12. ASSUME NEW i \in 1..L
         PROVE  i \in 1..(L + k) /\ to[i] = from[i] /\ qs[i] = ps[i] /\ from[i] \in 1..n
    <2>1. i \in 1..(L + k) /\ i <= L
      BY <1>5
    <2>2. from[i] \in 1..n
      BY <1>5
    <2>. QED
      BY <1>10, <1>q, <2>1, <2>2
  <1>13. \A h \in hits : <<n + 1, h>> \in Matches({n + 1}) /\ At(<<n + 1, h>>) = entries[h]
    <2>1. /\ \A h \in Hits(pipeline.providers[n + 1].entries, Code) :
                <<n + 1, h>> \in Matches({n + 1})
          /\ \A h : At(<<n + 1, h>>) = pipeline.providers[n + 1].entries[h]
      BY MatchesInOne, MatchesOfOne
    <2>. QED
      BY <1>1, <2>1
  <1>14. \A m \in Matches({n + 1}) : m[1] = n + 1 /\ m[2] \in hits /\ At(m) = entries[m[2]]
    <2>1. \A m \in Matches({n + 1}) :
             /\ m[1] = n + 1 /\ m[2] \in Hits(pipeline.providers[n + 1].entries, Code)
             /\ At(m) = pipeline.providers[n + 1].entries[m[2]]
      BY MatchesInOne
    <2>. QED
      BY <1>1, <2>1
  <1>15. FromMatches(qs, to)
    <2>. SUFFICES ASSUME NEW i \in 1..(L + k)
                  PROVE  \E m \in Matches({to[i]}) : qs[i] = Proposed(At(m), Code)
      BY <1>q DEF FromMatches
    <2>1. CASE i \in 1..L
      <3>1. PICK m \in Matches({from[i]}) : ps[i] = Proposed(At(m), Code)
        BY <1>5, <2>1 DEF FromMatches
      <3>2. to[i] = from[i] /\ qs[i] = ps[i]
        BY <1>12, <2>1
      <3>. QED
        BY <3>1, <3>2
    <2>2. CASE \E u \in 1..k : i = L + u
      <3>1. PICK u \in 1..k : i = L + u
        BY <2>2
      <3>2. PICK h \in hits : found[u] = entries[h]
        BY <1>4
      <3>3. to[i] = n + 1 /\ qs[i] = Proposed(entries[h], Code)
        BY <1>11, <3>1, <3>2
      <3>4. <<n + 1, h>> \in Matches({to[i]}) /\ qs[i] = Proposed(At(<<n + 1, h>>), Code)
        BY <1>13, <3>3
      <3>. QED
        BY <3>4
    <2>. QED
      BY <1>9, <2>1, <2>2
  <1>16. InTurn(qs, to)
    <2>. SUFFICES ASSUME NEW i \in 1..(L + k), NEW j \in 1..(L + k), i < j
                  PROVE  /\ to[i] <= to[j]
                         /\ to[i] = to[j] => ~Lower(qs[j].input_code, qs[i].input_code)
      BY <1>q DEF InTurn
    <2>1. CASE j \in 1..L
      <3>1. i \in 1..L
        BY <1>5, <2>1
      <3>. QED
        BY <1>5, <1>12, <2>1, <3>1 DEF InTurn
    <2>2. CASE \E v \in 1..k : j = L + v
      <3>1. PICK v \in 1..k : j = L + v
        BY <2>2
      <3>2. to[j] = n + 1 /\ qs[j].input_code = found[v].input_code
        BY <1>11, <3>1
      <3>3. CASE i \in 1..L
        <4>1. to[i] \in 1..n
          BY <1>12, <3>3
        <4>. QED
          BY <3>2, <4>1
      <3>4. CASE \E u \in 1..k : i = L + u
        <4>1. PICK u \in 1..k : i = L + u
          BY <3>4
        <4>2. to[i] = n + 1 /\ qs[i].input_code = found[u].input_code
          BY <1>11, <4>1
        <4>3. u < v
          BY <1>5, <3>1, <4>1
        <4>4. ~Lower(found[v].input_code, found[u].input_code)
          BY <1>4, <4>3
        <4>. QED
          BY <3>2, <4>2, <4>4
      <3>. QED
        BY <1>9, <3>3, <3>4
    <2>. QED
      BY <1>9, <2>1, <2>2
  <1>17. ASSUME Cardinality(Matches(1..(n + 1))) <= max
         PROVE  Complete(qs, to, n + 1)
    <2>. SUFFICES ASSUME NEW m \in Matches(1..(n + 1))
                  PROVE  \E i \in 1..(L + k) : to[i] = m[1] /\ qs[i] = Proposed(At(m), Code)
      BY <1>q DEF Complete
    <2>1. Cardinality(hits) <= limit /\ Cardinality(Matches(1..n)) <= max
      BY <1>2, <1>4, <1>6, <1>7, <1>17
    <2>2. CASE m \in Matches(1..n)
      <3>1. PICK i \in 1..L : from[i] = m[1] /\ ps[i] = Proposed(At(m), Code)
        BY <1>5, <2>1, <2>2 DEF Complete
      <3>. QED
        BY <1>12, <3>1
    <2>3. CASE m \in Matches({n + 1})
      <3>1. m[1] = n + 1 /\ m[2] \in hits /\ At(m) = entries[m[2]]
        BY <1>14, <2>3
      <3>2. PICK i \in 1..k : found[i] = entries[m[2]]
        BY <1>4, <2>1, <3>1
      <3>. QED
        BY <1>11, <3>1, <3>2
    <2>. QED
      BY <1>6, <2>2, <2>3
  <1>18. ExactFirst(qs)
    <2>. SUFFICES ASSUME NEW m \in Matches({1}), At(m).input_code = Code
                  PROVE  \/ \E i \in 1..(L + k) : qs[i] = Proposed(At(m), Code)
                         \/ /\ L + k = max
                            /\ \A i \in 1..(L + k) : qs[i].match_kind = "Exact"
      BY <1>q DEF ExactFirst, max
    <2>1. CASE n > 0
      <3>1. PICK i \in 1..L : ps[i] = Proposed(At(m), Code)
        <4>1. L # max
          BY <1>2, <1>5, <1>7
        <4>2. L = Len(ps)
          OBVIOUS
        <4>. QED
          BY <1>5, <2>1, <4>1, <4>2 DEF ExactFirst, max
      <3>. QED
        BY <1>12, <3>1
    <2>2. CASE n = 0
      <3>1. m[2] \in hits /\ At(m) = entries[m[2]]
        BY <1>14, <2>2
      <3>2. L = 0
        <4>1. Matches(1..0) = {}
          BY DEF Matches
        <4>. QED
          BY <1>7, <2>2, <4>1, FS_EmptySet
      <3>3. CASE \E i \in 1..k : found[i] = entries[m[2]]
        <4>1. PICK i \in 1..k : found[i] = entries[m[2]]
          BY <3>3
        <4>2. L + i \in 1..(L + k) /\ qs[L + i] = Proposed(At(m), Code)
          BY <1>11, <3>1, <4>1
        <4>. QED
          BY <4>2
      <3>4. CASE k = limit /\ \A i \in 1..k : found[i].input_code = Code
        <4>1. \A i \in 1..(L + k) : i \in 1..k /\ L + i = i
          BY <1>5, <3>2
        <4>2. \A i \in 1..(L + k) : qs[i].match_kind = "Exact"
          BY <1>11, <3>4, <4>1
        <4>3. L + k = max
          BY <1>2, <1>5, <1>7, <3>2, <3>4
        <4>. QED
          BY <4>2, <4>3
      <3>. QED
        BY <1>4, <3>1, <3>3, <3>4
    <2>. QED
      BY <2>1, <2>2
  <1>. QED
    BY <1>6, <1>8, <1>10, <1>15, <1>16, <1>17, <1>18, <1>q DEF Gathered, max

\* There is room for no more.
LEMMA GatherNoMore ==
    ASSUME pipeline \in Pipeline, NEW n \in Nat, n + 1 <= Len(pipeline.providers),
           NEW ps, NEW from, Gathered(n, ps, from),
           Len(ps) >= pipeline.max_generated_candidates
    PROVE  \E to : Gathered(n + 1, ps, to)
  <1>. DEFINE max == pipeline.max_generated_candidates
  <1>1. PICK entries, hits : /\ entries = pipeline.providers[n + 1].entries
                             /\ hits = Hits(entries, Code)
    OBVIOUS
  <1>2. entries \in Seq(Entry) /\ max \in Nat /\ max > 0
    <2>1. pipeline.providers \in Seq(Provider) /\ max \in Nat /\ max > 0
      BY DEF Pipeline
    <2>2. n + 1 \in 1..Len(pipeline.providers)
      BY <2>1, LenProperties
    <2>3. pipeline.providers[n + 1] \in Provider
      BY <2>1, <2>2, ElementOfSeq
    <2>. QED
      BY <1>1, <2>1, <2>3 DEF Provider
  <1>. HIDE DEF max
  <1>3. PICK L : L = Len(ps)
    OBVIOUS
  <1>4. /\ ps \in Seq(Proposal) /\ from \in [1..L -> 1..n] /\ L \in Nat /\ L >= max
        /\ IsFiniteSet(Matches(1..n)) /\ L = Smaller(Cardinality(Matches(1..n)), max)
        /\ FromMatches(ps, from) /\ InTurn(ps, from)
        /\ Cardinality(Matches(1..n)) <= max => Complete(ps, from, n)
        /\ n > 0 => ExactFirst(ps)
    BY <1>3, LenProperties DEF Gathered, max
  <1>5. IsFiniteSet(hits) /\ Cardinality(hits) \in Nat
    <2>1. DOMAIN entries = 1..Len(entries) /\ Len(entries) \in Nat
      BY <1>2, LenProperties
    <2>2. IsFiniteSet(DOMAIN entries) /\ hits \in SUBSET DOMAIN entries
      BY <1>1, <2>1, Positions DEF Hits
    <2>. QED
      BY <2>2, FS_Subset, FS_CardinalityType
  <1>6. /\ IsFiniteSet(Matches(1..(n + 1)))
        /\ Matches(1..(n + 1)) = Matches(1..n) \cup Matches({n + 1})
        /\ Cardinality(Matches(1..(n + 1))) = Cardinality(Matches(1..n)) + Cardinality(hits)
    BY <1>1, <1>4, <1>5, MatchesCount
  <1>7. PICK a, b, c : /\ a \in Nat /\ a = Cardinality(Matches(1..n))
                       /\ b \in Nat /\ b = Cardinality(hits)
                       /\ c = Cardinality(Matches(1..(n + 1)))
    BY <1>4, <1>5, FS_CardinalityType
  <1>8. c = a + b /\ a >= max /\ L = max /\ L = Smaller(c, max)
    BY <1>2, <1>4, <1>6, <1>7 DEF Smaller
  <1>9. from \in [1..L -> 1..(n + 1)]
    <2>1. \A i \in 1..L : from[i] \in 1..(n + 1)
      BY <1>4
    <2>. QED
      BY <1>4, <2>1
  <1>10. ASSUME c <= max
         PROVE  Complete(ps, from, n + 1)
    <2>1. b = 0 /\ a <= max
      BY <1>2, <1>7, <1>8, <1>10
    <2>2. hits = {}
      BY <1>5, <1>7, <2>1, FS_EmptySet
    <2>3. Matches({n + 1}) = {}
      BY <1>1, <2>2, MatchesInOne
    <2>4. Matches(1..(n + 1)) = Matches(1..n)
      BY <1>6, <2>3
    <2>. QED
      BY <1>4, <1>7, <2>1, <2>4 DEF Complete
  <1>11. ExactFirst(ps)
    <2>1. n > 0
      <3>. SUFFICES ASSUME n = 0 PROVE FALSE
        OBVIOUS
      <3>1. Matches(1..0) = {}
        BY DEF Matches
      <3>2. a = 0
        BY <1>7, <3>1, FS_EmptySet
      <3>3. a >= max /\ max > 0 /\ max \in Nat
        BY <1>2, <1>8, Zenon
      <3>. QED
        BY <3>2, <3>3
    <2>. QED
      BY <1>4, <2>1
  <1>12. Gathered(n + 1, ps, from)
    BY <1>3, <1>4, <1>6, <1>7, <1>8, <1>9, <1>10, <1>11 DEF Gathered, max
  <1>. QED
    BY <1>12

\* A turn of the loop, of any kind, goes on gathering.
LEMMA GatherStep ==
    ASSUME pipeline \in Pipeline, composition \in Bytes, Code # <<>>,
           NEW n \in Nat, n + 1 <= Len(pipeline.providers),
           ~pipeline.providers[n + 1].fails,
           NEW c \in Collection, c.failed = {}, NEW from, Gathered(n, c.proposals, from),
           NEW d, d = Ask(pipeline, Code, c, pipeline.providers[n + 1])
    PROVE  d.failed = {} /\ \E to : Gathered(n + 1, d.proposals, to)
  <1>1. PICK ps, L, remaining :
           /\ ps = c.proposals /\ L = Len(ps)
           /\ remaining = pipeline.max_generated_candidates - L
    OBVIOUS
  <1>2. /\ ps \in Seq(Proposal) /\ L \in Nat /\ remaining \in Int
        /\ pipeline.max_generated_candidates \in Nat
    <2>1. ps \in Seq(Proposal)
      BY <1>1 DEF Collection
    <2>2. pipeline.max_generated_candidates \in Nat
      BY DEF Pipeline
    <2>. QED
      BY <1>1, <2>1, <2>2, LenProperties
  <1>3. pipeline.providers[n + 1] \in Provider
    <2>1. pipeline.providers \in Seq(Provider)
      BY DEF Pipeline
    <2>2. n + 1 \in 1..Len(pipeline.providers)
      BY <2>1, LenProperties
    <2>. QED
      BY <2>1, <2>2, ElementOfSeq
  <1>4. CASE remaining <= 0
    <2>1. d = c
      BY <1>1, <1>4 DEF Ask
    <2>2. Len(ps) >= pipeline.max_generated_candidates
      BY <1>1, <1>2, <1>4
    <2>3. \E to : Gathered(n + 1, ps, to)
      BY <1>1, <2>2, GatherNoMore
    <2>. QED
      BY <1>1, <2>1, <2>3
  <1>5. CASE ~(remaining <= 0)
    <2>1. PICK limit \in Nat : limit = remaining /\ limit > 0
      BY <1>2, <1>5
    <2>2. PICK found, generated :
             /\ found = lookup_prefix(pipeline.providers[n + 1].entries, Code, limit)
             /\ generated = ProviderGenerate(pipeline.providers[n + 1], Code, limit)
      OBVIOUS
    <2>3. Code \in Bytes
      BY NormalizedBytes DEF Code
    <2>4. /\ generated \in Seq(Proposal) /\ Len(generated) = Len(found)
          /\ found \in Seq(Entry)
          /\ \A i \in 1..Len(found) : generated[i] = Proposed(found[i], Code)
      BY <1>3, <2>2, <2>3, ProvidersPropose
    <2>5. PICK qs : qs = ps \o generated
      OBVIOUS
    <2>6. d = [c EXCEPT !.proposals = qs]
      BY <1>1, <1>5, <2>1, <2>2, <2>5 DEF Ask
    <2>7. Continues(qs, ps, found)
      BY <1>2, <2>4, <2>5, ContinuesAppended
    <2>8. Gathered(n, ps, from) /\ L = Len(ps)
      BY <1>1
    <2>9. limit = pipeline.max_generated_candidates - L /\ limit > 0
      BY <1>1, <2>1
    <2>11. \E to : Gathered(n + 1, qs, to)
      BY <2>2, <2>7, <2>8, <2>9, GatherMore
    <2>12. d.failed = {} /\ d.proposals = qs
      BY <2>6 DEF Collection
    <2>. QED
      BY <2>11, <2>12
  <1>. QED
    BY <1>4, <1>5

\* All the providers have been asked.
LEMMA GatheredAll ==
    ASSUME pipeline \in Pipeline, composition \in Bytes, Code # <<>>,
           \A n \in DOMAIN pipeline.providers : ~pipeline.providers[n].fails,
           NEW N, N = Len(pipeline.providers), NEW c, c = Collected(pipeline, Code)
    PROVE  N \in Nat /\ c.failed = {} /\ \E from : Gathered(N, c.proposals, from)
  <1>1. Code \in Bytes
    BY NormalizedBytes DEF Code
  <1>2. N \in Nat /\ DOMAIN pipeline.providers = 1..N
    <2>1. pipeline.providers \in Seq(Provider)
      BY DEF Pipeline
    <2>. QED
      BY <2>1, LenProperties
  <1>3. PICK f \in [0..N -> Collection] :
           /\ f[0] = [proposals |-> <<>>, failed |-> {}]
           /\ \A n \in 1..N : f[n] = Ask(pipeline, Code, f[n - 1], pipeline.providers[n])
           /\ Collected(pipeline, Code) = f[N]
    BY <1>1, CollectedSteps
  <1>. DEFINE Good(n) == f[n].failed = {} /\ \E from : Gathered(n, f[n].proposals, from)
              S == {n \in Nat : n <= N => Good(n)}
  <1>4. 0 \in S
    <2>1. \E from : Gathered(0, <<>>, from)
      BY GatheredNothing
    <2>2. f[0].failed = {} /\ f[0].proposals = <<>>
      BY <1>3
    <2>. QED
      BY <2>1, <2>2
  <1>5. ASSUME NEW n \in Nat, n \in S
        PROVE  n + 1 \in S
    <2>. SUFFICES ASSUME n + 1 <= N PROVE Good(n + 1)
      OBVIOUS
    <2>1. n + 1 \in 1..N /\ (n + 1) - 1 = n /\ n <= N /\ n \in 0..N
      BY <1>2
    <2>2. /\ f[n] \in Collection /\ f[n].failed = {}
          /\ \E from : Gathered(n, f[n].proposals, from)
      BY <1>3, <1>5, <2>1
    <2>3. f[n + 1] = Ask(pipeline, Code, f[n], pipeline.providers[n + 1])
      BY <1>3, <2>1
    <2>4. ~pipeline.providers[n + 1].fails /\ n + 1 <= Len(pipeline.providers)
      BY <1>2, <2>1
    <2>5. PICK from : Gathered(n, f[n].proposals, from)
      BY <2>2
    <2>. QED
      BY <2>2, <2>3, <2>4, <2>5, GatherStep
  <1>6. N \in S
    <2>. HIDE DEF S
    <2>. QED
      BY <1>2, <1>4, <1>5, NatInduct
  <1>. QED
    BY <1>2, <1>3, <1>6

-----------------------------------------------------------------------------
(* What a working engine shows.                                            *)

\* How the candidates come about: proposals, one of each text, ranked.
Shows(ps, from, M, ranked, n) ==
    /\ Gathered(Len(pipeline.providers), ps, from)
    /\ OneOfEach(ps, Len(ps), M)
    /\ Ranked(M, pipeline.max_visible_candidates, ranked, n)
    /\ candidates.texts = [i \in 1..n |-> ranked[i].text]

\* When everything works, what is shown comes from what was gathered.
LEMMA WorkingShows ==
    ASSUME pipeline \in Pipeline, composition \in Bytes, composition # <<>>, Working,
           candidates = generate(pipeline, composition)
    PROVE  \E ps, from, M, ranked, n : Shows(ps, from, M, ranked, n)
  <1>1. Code # <<>>
    BY NormalizedBytes DEF Code
  <1>2. /\ ~pipeline.language_fails
        /\ \A n \in DOMAIN pipeline.providers : ~pipeline.providers[n].fails
    BY DEF Working
  <1>3. PICK c : c = Collected(pipeline, Code)
    OBVIOUS
  <1>4. PICK from : c.failed = {} /\ Gathered(Len(pipeline.providers), c.proposals, from)
    BY <1>1, <1>2, <1>3, GatheredAll
  <1>5. PICK ps, M : ps = c.proposals /\ M = deduplicate(ps)
    OBVIOUS
  <1>6. OneOfEach(ps, Len(ps), M)
    <2>1. ps \in Seq(Proposal)
      BY <1>4, <1>5 DEF Gathered
    <2>. QED
      BY <1>5, <2>1, Deduplicated
  <1>7. PICK ranked : ranked = rank(M, pipeline.max_visible_candidates)
    OBVIOUS
  <1>8. PICK n : Ranked(M, pipeline.max_visible_candidates, ranked, n)
    <2>1. pipeline.max_visible_candidates \in Nat
      BY DEF Pipeline
    <2>2. M \in SUBSET Proposal /\ IsFiniteSet(M) /\ \A m, o \in M : m.text = o.text => m = o
      BY <1>6 DEF OneOfEach
    <2>. QED
      BY <1>7, <2>1, <2>2, RankFacts
  <1>9. candidates.texts = [i \in 1..n |-> ranked[i].text]
    <2>1. candidates = [texts |-> [i \in DOMAIN ranked |-> ranked[i].text], failed |-> {}]
      BY <1>2, <1>3, <1>4, <1>5, <1>7 DEF generate, Code
    <2>2. DOMAIN ranked = 1..n
      BY <1>8 DEF Ranked
    <2>. QED
      BY <2>1, <2>2
  <1>. QED
    BY <1>4, <1>5, <1>6, <1>8, <1>9 DEF Shows

\* What it takes to know of the parts.
LEMMA ShowsFacts ==
    ASSUME pipeline \in Pipeline, NEW ps, NEW from, NEW M, NEW ranked, NEW n,
           Shows(ps, from, M, ranked, n), NEW N, N = Len(pipeline.providers)
    PROVE  /\ N \in Nat /\ DOMAIN pipeline.providers = 1..N
           /\ ps \in Seq(Proposal) /\ Len(ps) \in Nat
           /\ \A i \in 1..Len(ps) : ps[i] \in Proposal /\ from[i] \in 1..N
           /\ M \in SUBSET Proposal /\ n \in Nat
           /\ Len(candidates.texts) = n /\ DOMAIN candidates.texts = 1..n
           /\ \A i \in 1..n : candidates.texts[i] = ranked[i].text /\ ranked[i] \in M
           /\ Visible = {ranked[i].text : i \in 1..n}
  <1>1. N \in Nat /\ DOMAIN pipeline.providers = 1..N
    <2>1. pipeline.providers \in Seq(Provider)
      BY DEF Pipeline
    <2>. QED
      BY <2>1, LenProperties
  <1>2. ps \in Seq(Proposal) /\ from \in [1..Len(ps) -> 1..N]
    BY DEF Shows, Gathered
  <1>3. Len(ps) \in Nat /\ \A i \in 1..Len(ps) : ps[i] \in Proposal /\ from[i] \in 1..N
    BY <1>2, LenProperties, ElementOfSeq
  <1>4. M \in SUBSET Proposal
    BY DEF Shows, OneOfEach
  <1>5. n \in Nat /\ \A i \in 1..n : ranked[i] \in M
    BY DEF Shows, Ranked
  <1>6. candidates.texts = [i \in 1..n |-> ranked[i].text]
    BY DEF Shows
  <1>7. DOMAIN candidates.texts = 1..n /\ Len(candidates.texts) = n
    BY <1>5, <1>6
  <1>8. Visible = {ranked[i].text : i \in 1..n}
    BY <1>6, <1>7 DEF Visible
  <1>. QED
    BY <1>1, <1>2, <1>3, <1>4, <1>5, <1>6, <1>7, <1>8

\* A match leaves no display empty.
LEMMA SomeMatchShown ==
    ASSUME pipeline \in Pipeline, composition \in Bytes,
           candidates = generate(pipeline, composition)
    PROVE  SomeMatchSomeCandidate
  <1>. SUFFICES ASSUME Working, composition # <<>>, Matching # {}
                PROVE  candidates.texts # <<>>
    BY DEF SomeMatchSomeCandidate
  <1>1. PICK ps, from, M, ranked, n : Shows(ps, from, M, ranked, n)
    BY WorkingShows
  <1>2. PICK N : N = Len(pipeline.providers)
    OBVIOUS
  <1>3. /\ N \in Nat /\ DOMAIN pipeline.providers = 1..N /\ ps \in Seq(Proposal)
        /\ Len(ps) \in Nat /\ n \in Nat /\ Len(candidates.texts) = n
    BY <1>1, <1>2, ShowsFacts
  <1>4. /\ IsFiniteSet(Matches(1..N)) /\ Matches(1..N) # {}
        /\ Len(ps) = Smaller(Cardinality(Matches(1..N)), pipeline.max_generated_candidates)
    BY <1>1, <1>2, <1>3 DEF Shows, Gathered, Matching
  <1>5. Len(ps) # 0
    <2>1. Cardinality(Matches(1..N)) \in Nat /\ Cardinality(Matches(1..N)) # 0
      BY <1>4, FS_EmptySet, FS_CardinalityType
    <2>2. pipeline.max_generated_candidates \in Nat \ {0}
      BY DEF Pipeline
    <2>. QED
      BY <1>4, <2>1, <2>2 DEF Smaller
  <1>6. M # {} /\ IsFiniteSet(M)
    <2>1. 1 \in 1..Len(ps)
      BY <1>3, <1>5
    <2>. QED
      BY <1>1, <2>1 DEF Shows, OneOfEach
  <1>7. n # 0
    <2>1. Cardinality(M) \in Nat /\ Cardinality(M) # 0
      BY <1>6, FS_EmptySet, FS_CardinalityType
    <2>2. pipeline.max_visible_candidates \in Nat \ {0}
      BY DEF Pipeline
    <2>3. n = Cardinality(M) \/ n = pipeline.max_visible_candidates
      BY <1>1 DEF Shows, Ranked
    <2>. QED
      BY <2>1, <2>2, <2>3
  <1>. QED
    BY <1>3, <1>7

\* A proposal is of a match, and is exact when the code of that match is the composition.
LEMMA ProposalOfMatch ==
    ASSUME pipeline \in Pipeline, NEW ps, NEW from, NEW M, NEW ranked, NEW n,
           Shows(ps, from, M, ranked, n), NEW i \in 1..Len(ps)
    PROVE  \E m \in Matches(DOMAIN pipeline.providers) :
              /\ m[1] = from[i] /\ m[1] \in DOMAIN pipeline.providers
              /\ ps[i] = Proposed(At(m), Code) /\ At(m) \in Entry /\ At(m) \in Matching
              /\ ps[i].text = At(m).text /\ ps[i].input_code = At(m).input_code
              /\ ps[i].lexeme_id = At(m).lexeme_id
              /\ ps[i].base_frequency = At(m).base_frequency
              /\ ps[i].match_kind = "Exact" <=> At(m).input_code = Code
  <1>1. PICK N : N = Len(pipeline.providers)
    OBVIOUS
  <1>2. N \in Nat /\ DOMAIN pipeline.providers = 1..N /\ from[i] \in 1..N
    BY <1>1, ShowsFacts
  <1>3. PICK m \in Matches({from[i]}) : ps[i] = Proposed(At(m), Code)
    BY DEF Shows, Gathered, FromMatches
  <1>4. {from[i]} \in SUBSET (1..Len(pipeline.providers))
    BY <1>1, <1>2
  <1>5. m[1] = from[i] /\ At(m) \in Entry
    BY <1>3, <1>4, MatchIsEntry
  <1>6. m \in Matches(DOMAIN pipeline.providers)
    BY <1>2, <1>3, MatchesOfAll
  <1>7. At(m) \in Matching
    BY <1>6 DEF Matching
  <1>. QED
    BY <1>2, <1>3, <1>5, <1>6, <1>7, ProposedIsProposal

\* Only exact matches are shown before an exact match is left out.
LEMMA ExactShownFirst ==
    ASSUME pipeline \in Pipeline, composition \in Bytes,
           candidates = generate(pipeline, composition)
    PROVE  ExactNotCrowdedOut
  <1>. SUFFICES ASSUME Working, Len(pipeline.providers) > 0, composition # <<>>,
                       NEW s \in Visible, ~IsExact(s),
                       NEW p \in Matches({1}), At(p).input_code = Code
                PROVE  At(p).text \in Visible
    BY DEF ExactNotCrowdedOut
  <1>1. PICK ps, from, M, ranked, n : Shows(ps, from, M, ranked, n)
    BY WorkingShows
  <1>2. PICK N : N = Len(pipeline.providers)
    OBVIOUS
  <1>3. /\ N \in Nat /\ DOMAIN pipeline.providers = 1..N /\ M \in SUBSET Proposal
        /\ \A i \in 1..n : ranked[i] \in M
        /\ Visible = {ranked[i].text : i \in 1..n}
    BY <1>1, <1>2, ShowsFacts
  <1>4. PICK k \in 1..n : s = ranked[k].text
    BY <1>3
  <1>5. PICK m \in M : m = ranked[k] /\ m \in Proposal /\ Represents(ps, Len(ps), m)
    BY <1>1, <1>3 DEF Shows, OneOfEach
  <1>6. PICK i \in 1..Len(ps) : ps[i].text = s /\ ps[i].match_kind = m.match_kind
    BY <1>4, <1>5 DEF Represents
  <1>7. ps[i].match_kind # "Exact"
    BY <1>1, <1>6, ProposalOfMatch DEF IsExact, Offers
  <1>8. At(p) \in Entry
    <2>1. {1} \in SUBSET (1..Len(pipeline.providers))
      BY <1>2, <1>3
    <2>. QED
      BY <2>1, MatchIsEntry
  <1>9. PICK j \in 1..Len(ps) : ps[j] = Proposed(At(p), Code)
    <2>1. ExactFirst(ps)
      BY <1>1, <1>2, <1>3 DEF Shows, Gathered
    <2>. QED
      BY <1>7, <2>1 DEF ExactFirst
  <1>10. ps[j].text = At(p).text /\ ps[j].match_kind = "Exact"
    BY <1>8, <1>9, ProposedIsProposal
  <1>11. PICK o \in M : o.text = At(p).text
    BY <1>1, <1>10 DEF Shows, OneOfEach
  <1>12. o \in Proposal /\ o.match_kind = "Exact"
    <2>1. Represents(ps, Len(ps), o)
      BY <1>1 DEF Shows, OneOfEach
    <2>. QED
      BY <1>3, <1>10, <1>11, <2>1 DEF Represents
  <1>13. ~compare_ranked(m, o)
    <2>1. KindOrder(m) = 0 /\ KindOrder(o) = 1
      BY <1>6, <1>7, <1>12 DEF KindOrder
    <2>. QED
      BY <1>5, <1>12, <2>1, RankedKeys
  <1>14. \E l \in 1..n : ranked[l] = o
    BY <1>1, <1>5, <1>13 DEF Shows, Ranked
  <1>. QED
    BY <1>3, <1>11, <1>14

\* When nothing is cut, what is shown of a text is what its entries say.
LEMMA OffersProposed ==
    ASSUME pipeline \in Pipeline, NEW ps, NEW from, NEW M, NEW ranked, NEW n,
           Shows(ps, from, M, ranked, n), Complete(ps, from, Len(pipeline.providers)),
           NEW m \in Matches(DOMAIN pipeline.providers)
    PROVE  \E i \in 1..Len(ps) :
              /\ m[1] = from[i] /\ ps[i] = Proposed(At(m), Code) /\ At(m) \in Entry
              /\ ps[i].text = At(m).text /\ ps[i].input_code = At(m).input_code
              /\ ps[i].lexeme_id = At(m).lexeme_id
              /\ ps[i].base_frequency = At(m).base_frequency
              /\ ps[i].match_kind = "Exact" <=> At(m).input_code = Code
  <1>1. PICK N : N = Len(pipeline.providers)
    OBVIOUS
  <1>2. N \in Nat /\ DOMAIN pipeline.providers = 1..N
    BY <1>1, ShowsFacts
  <1>3. PICK i \in 1..Len(ps) : from[i] = m[1] /\ ps[i] = Proposed(At(m), Code)
    BY <1>1, <1>2 DEF Complete
  <1>4. At(m) \in Entry
    <2>1. DOMAIN pipeline.providers \in SUBSET (1..Len(pipeline.providers))
      BY <1>1, <1>2
    <2>. QED
      BY <2>1, MatchIsEntry
  <1>. QED
    BY <1>3, <1>4, ProposedIsProposal

\* What represents a text has its frequency and its kind of match.
LEMMA ShownFrequency ==
    ASSUME pipeline \in Pipeline, NEW ps, NEW from, NEW M, NEW ranked, NEW n,
           Shows(ps, from, M, ranked, n), Complete(ps, from, Len(pipeline.providers)),
           NEW m \in M
    PROVE  /\ m.text \in Texts
           /\ IsExact(m.text) <=> m.match_kind = "Exact"
           /\ Frequency(m.text) = m.base_frequency
  <1>1. m \in Proposal /\ Represents(ps, Len(ps), m)
    BY DEF Shows, OneOfEach
  <1>2. \A e \in Offers(m.text) :
           \E i \in 1..Len(ps) : /\ ps[i].text = m.text /\ ps[i].base_frequency = e.base_frequency
                                 /\ ps[i].match_kind = "Exact" <=> e.input_code = Code
    BY OffersProposed DEF Offers, Matching
  <1>3. \A i \in 1..Len(ps) : ps[i].text = m.text =>
           \E e \in Offers(m.text) : /\ ps[i].base_frequency = e.base_frequency
                                     /\ ps[i].match_kind = "Exact" <=> e.input_code = Code
    BY ProposalOfMatch DEF Offers
  <1>4. m.match_kind \in {"Prefix", "Exact"} /\ m.base_frequency \in Nat
    BY <1>1 DEF Proposal
  <1>5. PICK i \in 1..Len(ps) : ps[i].text = m.text /\ ps[i].match_kind = m.match_kind
    BY <1>1 DEF Represents
  <1>6. m.text \in Texts
    BY <1>3, <1>5 DEF Texts, Offers
  <1>7. IsExact(m.text) <=> m.match_kind = "Exact"
    <2>1. ASSUME IsExact(m.text) PROVE m.match_kind = "Exact"
      BY <1>1, <1>2, <2>1 DEF IsExact, Represents
    <2>2. ASSUME m.match_kind = "Exact" PROVE IsExact(m.text)
      BY <1>3, <1>5, <2>2 DEF IsExact
    <2>. QED
      BY <2>1, <2>2
  <1>8. Frequency(m.text) = m.base_frequency
    <2>. DEFINE F == {e.base_frequency : e \in Offers(m.text)}
                f == CHOOSE f \in F : \A e \in Offers(m.text) : e.base_frequency <= f
    <2>1. m.base_frequency \in F
      <3>1. PICK j \in 1..Len(ps) : ps[j].text = m.text /\ ps[j].base_frequency = m.base_frequency
        BY <1>1 DEF Represents
      <3>. QED
        BY <1>3, <3>1
    <2>2. \A e \in Offers(m.text) : e.base_frequency <= m.base_frequency
      BY <1>1, <1>2 DEF Represents
    <2>3. f \in F /\ \A e \in Offers(m.text) : e.base_frequency <= f
      BY <2>1, <2>2
    <2>4. PICK d \in Offers(m.text) : f = d.base_frequency
      BY <2>3
    <2>5. f <= m.base_frequency /\ m.base_frequency <= f
      BY <2>1, <2>2, <2>3, <2>4
    <2>6. f \in Int
      <3>1. PICK p \in Matches(DOMAIN pipeline.providers) : d = At(p)
        BY DEF Offers, Matching
      <3>2. d \in Entry
        BY <3>1, OffersProposed
      <3>3. d.base_frequency \in Nat
        BY <3>2 DEF Entry
      <3>. HIDE DEF f
      <3>. QED
        BY <2>4, <3>3
    <2>7. Frequency(m.text) = f
      BY DEF Frequency
    <2>. HIDE DEF f
    <2>. QED
      BY <1>4, <2>5, <2>6, <2>7
  <1>. QED
    BY <1>6, <1>7, <1>8

\* It also has the code the text is listed under.
LEMMA ShownCode ==
    ASSUME pipeline \in Pipeline, composition \in Bytes,
           NEW ps, NEW from, NEW M, NEW ranked, NEW n,
           Shows(ps, from, M, ranked, n), Complete(ps, from, Len(pipeline.providers)),
           NEW m \in M
    PROVE  ListedCode(m.text) = m.input_code
  <1>1. m \in Proposal /\ Represents(ps, Len(ps), m)
    BY DEF Shows, OneOfEach
  <1>2. /\ IsExact(m.text) <=> m.match_kind = "Exact"
        /\ Frequency(m.text) = m.base_frequency
    BY ShownFrequency
  <1>3. CASE m.match_kind = "Exact"
    <2>1. PICK i \in 1..Len(ps) : /\ ps[i].match_kind = m.match_kind
                                  /\ ps[i].input_code = m.input_code
      BY <1>1 DEF Represents
    <2>2. ps[i].input_code = Code
      BY <1>3, <2>1, ProposalOfMatch
    <2>. QED
      BY <1>2, <1>3, <2>1, <2>2 DEF ListedCode
  <1>4. CASE m.match_kind # "Exact"
    <2>. DEFINE text     == m.text
                All      == Matches(DOMAIN pipeline.providers)
                frequent == {p \in All : At(p).text = text
                                           /\ At(p).base_frequency = Frequency(text)}
                lowest   == {p \in frequent :
                                \A o \in frequent : At(p).lexeme_id <= At(o).lexeme_id}
                earliest == {p \in lowest : \A o \in lowest : p[1] <= o[1]}
                Least(p) == \A o \in earliest :
                               CompareBytes(At(p).input_code, At(o).input_code) <= 0
    <2>1. m.match_kind = "Prefix"
      BY <1>1, <1>4 DEF Proposal
    <2>2. PICK i \in 1..Len(ps) :
             /\ ps[i] = m
             /\ \A j \in 1..Len(ps) :
                   ps[j].text = m.text /\ ps[j].base_frequency = m.base_frequency =>
                      \/ ps[j].lexeme_id > m.lexeme_id
                      \/ ps[j].lexeme_id = m.lexeme_id /\ i <= j
      BY <1>1, <2>1 DEF Represents
    <2>3. PICK q \in All : /\ q[1] = from[i] /\ At(q) \in Entry
                           /\ m.text = At(q).text /\ m.input_code = At(q).input_code
                           /\ m.lexeme_id = At(q).lexeme_id
                           /\ m.base_frequency = At(q).base_frequency
      BY <2>2, ProposalOfMatch
    <2>4. q \in frequent
      BY <1>2, <2>3
    \* Every other of them stands for a proposal behind.
    <2>5. ASSUME NEW o \in frequent
          PROVE  /\ At(o) \in Entry /\ At(q).lexeme_id <= At(o).lexeme_id
                 /\ At(o).lexeme_id <= At(q).lexeme_id =>
                       /\ q[1] <= o[1]
                       /\ o[1] <= q[1] => ~Lower(At(o).input_code, At(q).input_code)
      <3>1. PICK j \in 1..Len(ps) :
               /\ o[1] = from[j] /\ At(o) \in Entry
               /\ ps[j].text = m.text /\ ps[j].input_code = At(o).input_code
               /\ ps[j].lexeme_id = At(o).lexeme_id /\ ps[j].base_frequency = m.base_frequency
        BY <1>2, <2>5, OffersProposed
      <3>2. ps[j].lexeme_id > m.lexeme_id \/ (ps[j].lexeme_id = m.lexeme_id /\ i <= j)
        BY <2>2, <3>1
      <3>3. At(o).lexeme_id \in Int /\ At(q).lexeme_id \in Int
        BY <2>3, <3>1 DEF Entry
      <3>4. At(q).lexeme_id <= At(o).lexeme_id
        BY <2>3, <3>1, <3>2, <3>3
      <3>5. ASSUME At(o).lexeme_id <= At(q).lexeme_id
            PROVE  /\ q[1] <= o[1]
                   /\ o[1] <= q[1] => ~Lower(At(o).input_code, At(q).input_code)
        <4>1. i <= j
          BY <2>3, <3>1, <3>2, <3>3, <3>5
        <4>2. q[1] \in Nat /\ o[1] \in Nat
          BY <2>3, <3>1, ShowsFacts
        <4>3. CASE i = j
          <5>1. At(o).input_code = At(q).input_code /\ At(o).input_code \in Bytes
            BY <2>2, <2>3, <3>1, <4>3 DEF Entry
          <5>. QED
            BY <2>3, <3>1, <4>2, <4>3, <5>1, LowerDiffers
        <4>4. CASE i < j
          <5>1. /\ from[i] <= from[j]
                /\ from[i] = from[j] => ~Lower(ps[j].input_code, ps[i].input_code)
            BY <4>4 DEF Shows, Gathered, InTurn
          <5>. QED
            BY <2>2, <2>3, <3>1, <4>2, <5>1
        <4>. QED
          BY <4>1, <4>3, <4>4
      <3>. QED
        BY <3>1, <3>4, <3>5
    <2>6. q \in lowest
      BY <2>4, <2>5
    <2>7. q \in earliest
      BY <2>5, <2>6
    <2>8. ASSUME NEW o \in earliest
          PROVE  /\ At(o).input_code \in Bytes /\ At(q).input_code \in Bytes
                 /\ CompareBytes(At(q).input_code, At(o).input_code) <= 0
      <3>1. o \in frequent /\ At(o).lexeme_id <= At(q).lexeme_id /\ o[1] <= q[1]
        BY <2>4, <2>6, <2>8
      <3>2. At(o) \in Entry /\ ~Lower(At(o).input_code, At(q).input_code)
        BY <2>5, <3>1
      <3>3. At(o).input_code \in Bytes /\ At(q).input_code \in Bytes
        BY <2>3, <3>2 DEF Entry
      <3>4. CompareBytes(At(q).input_code, At(o).input_code) \in {-1, 0, 1}
        BY <3>3, Comparison
      <3>. QED
        BY <3>2, <3>3, <3>4, Comparison
    <2>9. PICK l : l = CHOOSE p \in earliest : Least(p)
      OBVIOUS
    <2>10. l \in earliest /\ Least(l)
      BY <2>7, <2>8, <2>9
    <2>11. At(l).input_code = At(q).input_code
      <3>1. CompareBytes(At(l).input_code, At(q).input_code) <= 0
        BY <2>7, <2>10
      <3>2. /\ At(l).input_code \in Bytes /\ At(q).input_code \in Bytes
            /\ CompareBytes(At(q).input_code, At(l).input_code) <= 0
        BY <2>8, <2>10
      <3>3. PICK x \in Bytes, y \in Bytes : x = At(l).input_code /\ y = At(q).input_code
        BY <3>2
      <3>4. ~(CompareBytes(x, y) > 0) /\ ~(CompareBytes(y, x) > 0)
        BY <3>1, <3>2, <3>3, Comparison
      <3>5. ~Lower(x, y) /\ ~Lower(y, x)
        BY <3>4, Comparison
      <3>. QED
        BY <3>3, <3>5, LowerTotal
    <2>12. Listing(text) = l
      BY <2>9 DEF Listing
    <2>. QED
      BY <1>2, <2>1, <2>3, <2>11, <2>12 DEF ListedCode
  <1>. QED
    BY <1>3, <1>4

\* What is shown is the best.
LEMMA BestShown ==
    ASSUME pipeline \in Pipeline, composition \in Bytes,
           candidates = generate(pipeline, composition)
    PROVE  BestInOrder
  <1>. SUFFICES ASSUME Working, Everything, composition # <<>>
                PROVE  /\ Visible \subseteq Texts
                       /\ \A i, j \in DOMAIN candidates.texts :
                             i < j => Better(candidates.texts[i], candidates.texts[j])
                       /\ \A text \in Texts \ Visible :
                             /\ Len(candidates.texts) = pipeline.max_visible_candidates
                             /\ \A shown \in Visible : Better(shown, text)
    BY DEF BestInOrder
  <1>1. PICK ps, from, M, ranked, n : Shows(ps, from, M, ranked, n)
    BY WorkingShows
  <1>2. PICK N : N = Len(pipeline.providers)
    OBVIOUS
  <1>3. /\ N \in Nat /\ DOMAIN pipeline.providers = 1..N /\ M \in SUBSET Proposal
        /\ Len(candidates.texts) = n /\ DOMAIN candidates.texts = 1..n
        /\ \A i \in 1..n : candidates.texts[i] = ranked[i].text /\ ranked[i] \in M
        /\ Visible = {ranked[i].text : i \in 1..n}
    BY <1>1, <1>2, ShowsFacts
  <1>4. Complete(ps, from, N)
    BY <1>1, <1>2, <1>3 DEF Everything, Shows, Gathered
  <1>5. \A m \in M : /\ m.text \in Texts
                     /\ IsExact(m.text) <=> m.match_kind = "Exact"
                     /\ Frequency(m.text) = m.base_frequency
                     /\ ListedCode(m.text) = m.input_code
    BY <1>1, <1>2, <1>4, ShownFrequency, ShownCode
  \* Among proposals of different texts, the order of display is what Better says.
  <1>6. ASSUME NEW m \in M, NEW o \in M, compare_ranked(m, o)
        PROVE  Better(m.text, o.text)
    <2>1. m \in Proposal /\ o \in Proposal
      BY <1>3
    <2>2. /\ m.text \in Bytes /\ o.text \in Bytes
          /\ m.input_code \in Bytes /\ o.input_code \in Bytes
          /\ m.base_frequency \in Int /\ o.base_frequency \in Int
          /\ m.match_kind \in {"Prefix", "Exact"} /\ o.match_kind \in {"Prefix", "Exact"}
      BY <2>1 DEF Proposal
    <2>3. m # o
      BY <1>6, <2>1, RankedOrder
    <2>4. m.text # o.text
      BY <1>1, <2>3 DEF Shows, OneOfEach
    <2>5. /\ KindOrder(m) > KindOrder(o) <=> IsExact(m.text) /\ ~IsExact(o.text)
          /\ KindOrder(m) = KindOrder(o) <=> (IsExact(m.text) <=> IsExact(o.text))
      BY <1>5, <2>2 DEF KindOrder
    <2>6. /\ Lower(m.input_code, o.input_code)
                <=> CompareBytes(m.input_code, o.input_code) < 0
          /\ Lower(m.text, o.text) <=> CompareBytes(m.text, o.text) < 0
      BY <2>2, Comparison
    <2>7. \/ KindOrder(m) > KindOrder(o)
          \/ /\ KindOrder(m) = KindOrder(o)
             /\ \/ m.base_frequency > o.base_frequency
                \/ /\ m.base_frequency = o.base_frequency
                   /\ \/ Lower(m.input_code, o.input_code)
                      \/ m.input_code = o.input_code /\ Lower(m.text, o.text)
      BY <1>6, <2>1, <2>4, RankedKeys
    <2>8. IsExact(m.text) \in BOOLEAN /\ IsExact(o.text) \in BOOLEAN
      BY DEF IsExact
    <2>9. /\ Frequency(m.text) = m.base_frequency /\ Frequency(o.text) = o.base_frequency
          /\ ListedCode(m.text) = m.input_code /\ ListedCode(o.text) = o.input_code
      BY <1>5
    <2>. QED
      BY <2>5, <2>6, <2>7, <2>8, <2>9 DEF Better
  <1>7. Visible \subseteq Texts
    BY <1>3, <1>5
  <1>8. ASSUME NEW i \in 1..n, NEW j \in 1..n, i < j
        PROVE  Better(candidates.texts[i], candidates.texts[j])
    <2>1. compare_ranked(ranked[i], ranked[j])
      BY <1>1, <1>8 DEF Shows, Ranked
    <2>. QED
      BY <1>3, <1>6, <2>1
  <1>9. ASSUME NEW text \in Texts \ Visible
        PROVE  /\ n = pipeline.max_visible_candidates
               /\ \A shown \in Visible : Better(shown, text)
    <2>1. PICK p \in Matches(DOMAIN pipeline.providers) : At(p).text = text
      BY DEF Texts, Matching
    <2>2. PICK i \in 1..Len(ps) : ps[i].text = text
      BY <1>1, <1>2, <1>4, <2>1, OffersProposed
    <2>3. PICK m \in M : m.text = text
      BY <1>1, <2>2 DEF Shows, OneOfEach
    <2>4. ~\E k \in 1..n : ranked[k] = m
      BY <1>3, <1>9, <2>3
    <2>5. /\ n = pipeline.max_visible_candidates
          /\ \A k \in 1..n : compare_ranked(ranked[k], m)
      BY <1>1, <2>4 DEF Shows, Ranked
    <2>6. \A k \in 1..n : Better(ranked[k].text, text)
      BY <1>3, <1>6, <2>3, <2>5
    <2>. QED
      BY <1>3, <2>5, <2>6
  <1>. QED
    BY <1>3, <1>7, <1>8, <1>9

-----------------------------------------------------------------------------
(* The order of the entries.                                               *)

\* A dictionary built from its entries in reverse is the same dictionary.
LEMMA ReversedEntries ==
    ASSUME NEW entries \in Seq(Entry)
    PROVE  Reverse(entries) \in Seq(Entry) /\ Dictionary(Reverse(entries)) = Dictionary(entries)
  <1>1. PICK n : n = Len(entries)
    OBVIOUS
  <1>2. n \in Nat /\ \A i \in 1..n : entries[i] \in Entry
    BY <1>1, LenProperties, ElementOfSeq
  <1>. DEFINE f == [k \in 1..n |-> n - k + 1]
              others == [k \in 1..n |-> entries[n - k + 1]]
  <1>3. others = Reverse(entries)
    BY <1>1 DEF Reverse
  <1>4. \A k \in 1..n : n - k + 1 \in 1..n
    BY <1>2
  <1>5. \A k \in 1..n : entries[n - k + 1] \in Entry
    BY <1>2, <1>4
  <1>6. others \in Seq(Entry)
    BY <1>2, <1>5, IsASeq
  <1>7. Len(others) = n
    BY <1>2
  <1>8. f \in Rearrangements(n)
    <2>1. f \in [1..n -> 1..n]
      BY <1>4
    <2>2. \A i, j \in 1..n : f[i] = f[j] => i = j
      BY <1>2
    <2>3. \A k \in 1..n : n - k + 1 \in 1..n /\ f[n - k + 1] = k
      BY <1>2
    <2>. QED
      BY <2>1, <2>2, <2>3 DEF Rearrangements
  <1>9. \A k \in 1..n : others[k] = entries[f[k]]
    OBVIOUS
  <1>. HIDE DEF others, f
  <1>10. Dictionary(others) = Dictionary(entries)
    BY <1>1, <1>6, <1>7, <1>8, <1>9, OrderHidden
  <1>. QED
    BY <1>3, <1>6, <1>10

\* A pipeline turned round differs only in the order of its entries.
LEMMA TurnedFacts ==
    ASSUME NEW p \in Pipeline, NEW q, q = Turned(p), NEW N, N = Len(p.providers)
    PROVE  /\ q \in Pipeline /\ q.language_fails = p.language_fails
           /\ q.max_generated_candidates = p.max_generated_candidates
           /\ q.max_visible_candidates = p.max_visible_candidates
           /\ N \in Nat /\ Len(q.providers) = N
           /\ \A n \in 1..N : /\ p.providers[n] \in Provider /\ q.providers[n] \in Provider
                              /\ q.providers[n].fails = p.providers[n].fails
                              /\ q.providers[n].entries = Reverse(p.providers[n].entries)
  <1>1. p.providers \in Seq(Provider)
    BY DEF Pipeline
  <1>2. N \in Nat /\ DOMAIN p.providers = 1..N /\ \A n \in 1..N : p.providers[n] \in Provider
    BY <1>1, LenProperties, ElementOfSeq
  <1>. DEFINE turned(n) == Backwards(p.providers[n])
              providers == [n \in 1..N |-> turned(n)]
  <1>3. q = [p EXCEPT !.providers = providers]
    BY <1>2, Zenon DEF Turned
  <1>4. ASSUME NEW n \in 1..N
        PROVE  /\ turned(n) \in Provider /\ turned(n).fails = p.providers[n].fails
               /\ turned(n).entries = Reverse(p.providers[n].entries)
    <2>1. p.providers[n] \in Provider /\ p.providers[n].entries \in Seq(Entry)
      BY <1>2 DEF Provider
    <2>2. Reverse(p.providers[n].entries) \in Seq(Entry)
      BY <2>1, ReversedEntries
    <2>. QED
      BY <2>1, <2>2 DEF Provider, Backwards
  <1>5. providers \in Seq(Provider) /\ Len(providers) = N
    <2>1. \A n \in 1..N : turned(n) \in Provider
      BY <1>4
    <2>. HIDE DEF turned
    <2>2. providers \in Seq(Provider)
      BY <1>2, <2>1, IsASeq
    <2>. QED
      BY <1>2, <2>2
  <1>6. \A n \in 1..N : providers[n] = turned(n)
    OBVIOUS
  <1>. HIDE DEF turned, providers
  <1>7. /\ q \in Pipeline /\ q.language_fails = p.language_fails
        /\ q.max_generated_candidates = p.max_generated_candidates
        /\ q.max_visible_candidates = p.max_visible_candidates
        /\ q.providers = providers
    BY <1>3, <1>5 DEF Pipeline
  <1>. QED
    BY <1>2, <1>4, <1>5, <1>6, <1>7

\* What the loop over the providers collects does not depend on the order of the entries.
LEMMA TurnedCollected ==
    ASSUME NEW p \in Pipeline, NEW q, q = Turned(p), NEW code \in Bytes, code # <<>>
    PROVE  Collected(q, code) = Collected(p, code)
  <1>1. PICK N : N = Len(p.providers)
    OBVIOUS
  <1>2. /\ q \in Pipeline /\ N \in Nat /\ Len(q.providers) = N
        /\ q.max_generated_candidates = p.max_generated_candidates
        /\ \A n \in 1..N : /\ p.providers[n] \in Provider /\ q.providers[n] \in Provider
                           /\ q.providers[n].fails = p.providers[n].fails
                           /\ q.providers[n].entries = Reverse(p.providers[n].entries)
    BY <1>1, TurnedFacts
  <1>3. PICK f \in [0..N -> Collection] :
           /\ f[0] = [proposals |-> <<>>, failed |-> {}]
           /\ \A n \in 1..N : f[n] = Ask(p, code, f[n - 1], p.providers[n])
           /\ Collected(p, code) = f[N]
    BY <1>1, CollectedSteps
  <1>4. PICK g \in [0..N -> Collection] :
           /\ g[0] = [proposals |-> <<>>, failed |-> {}]
           /\ \A n \in 1..N : g[n] = Ask(q, code, g[n - 1], q.providers[n])
           /\ Collected(q, code) = g[N]
    <2>1. q \in Pipeline /\ N = Len(q.providers)
      BY <1>2
    <2>. QED
      BY <2>1, CollectedSteps
  <1>5. ASSUME NEW n \in 1..N, NEW c
        PROVE  Ask(q, code, c, q.providers[n]) = Ask(p, code, c, p.providers[n])
    <2>1. PICK r, s : r = p.providers[n] /\ s = q.providers[n]
      OBVIOUS
    <2>2. /\ r \in Provider /\ s.fails = r.fails /\ s.entries = Reverse(r.entries)
      BY <1>2, <2>1
    <2>3. r.entries \in Seq(Entry)
      BY <2>2 DEF Provider
    <2>4. Dictionary(s.entries) = Dictionary(r.entries)
      BY <2>2, <2>3, ReversedEntries
    <2>5. ASSUME NEW limit
          PROVE  ProviderGenerate(s, code, limit) = ProviderGenerate(r, code, limit)
      <3>1. lookup_prefix(s.entries, code, limit) = lookup_prefix(r.entries, code, limit)
        BY <2>4, Zenon DEF lookup_prefix
      <3>. QED
        BY <3>1, Zenon DEF ProviderGenerate
    <2>6. Ask(q, code, c, s) = Ask(p, code, c, r)
      BY <1>2, <2>2, <2>5, Zenon DEF Ask
    <2>. QED
      BY <2>1, <2>6
  <1>. DEFINE S == {n \in Nat : n <= N => g[n] = f[n]}
  <1>6. 0 \in S
    BY <1>3, <1>4
  <1>7. ASSUME NEW n \in Nat, n \in S
        PROVE  n + 1 \in S
    <2>. SUFFICES ASSUME n + 1 <= N
                  PROVE  g[n + 1] = f[n + 1]
      OBVIOUS
    <2>1. n + 1 \in 1..N /\ (n + 1) - 1 = n /\ g[n] = f[n]
      BY <1>2, <1>7
    <2>2. f[n + 1] = Ask(p, code, f[n], p.providers[n + 1])
      BY <1>3, <2>1
    <2>3. g[n + 1] = Ask(q, code, g[n], q.providers[n + 1])
      BY <1>4, <2>1
    <2>4. Ask(q, code, g[n], q.providers[n + 1]) = Ask(p, code, g[n], p.providers[n + 1])
      BY <1>5, <2>1
    <2>. QED
      BY <2>1, <2>2, <2>3, <2>4
  <1>8. Nat \subseteq S
    <2>. HIDE DEF S
    <2>. QED
      BY <1>6, <1>7, NatInduct
  <1>9. g[N] = f[N]
    BY <1>2, <1>8
  <1>. QED
    BY <1>3, <1>4, <1>9

\* Nor what is shown.
LEMMA TurnedSame ==
    ASSUME pipeline \in Pipeline, composition \in Bytes,
           candidates = generate(pipeline, composition)
    PROVE  InsertionOrderHidden
  <1>1. PICK q : q = Turned(pipeline)
    OBVIOUS
  <1>2. /\ q.language_fails = pipeline.language_fails
        /\ q.max_visible_candidates = pipeline.max_visible_candidates
    BY <1>1, TurnedFacts
  <1>3. generate(q, composition) = generate(pipeline, composition)
    <2>1. CASE composition = <<>>
      BY <2>1, Zenon DEF generate
    <2>2. CASE composition # <<>>
      <3>1. PICK code : code = normalize_input(composition)
        OBVIOUS
      <3>2. code \in Bytes /\ code # <<>>
        BY <2>2, <3>1, NormalizedBytes
      <3>3. Collected(q, code) = Collected(pipeline, code)
        BY <1>1, <3>2, TurnedCollected
      <3>. QED
        BY <1>2, <2>2, <3>1, <3>3, Zenon DEF generate
    <2>. QED
      BY <2>1, <2>2
  <1>. QED
    BY <1>1, <1>3, Zenon DEF InsertionOrderHidden

\* The lookups of every dictionary agree.
LEMMA EveryLookupAgrees ==
    ASSUME pipeline \in Pipeline, composition \in Bytes
    PROVE  LookupsAgree
  <1>1. Code \in Bytes
    BY NormalizedBytes DEF Code
  <1>2. pipeline.providers \in Seq(Provider) /\ pipeline.max_generated_candidates \in Nat
    BY DEF Pipeline
  <1>3. ASSUME NEW n \in DOMAIN pipeline.providers,
               NEW limit \in 0..pipeline.max_generated_candidates
        PROVE  LET entries == pipeline.providers[n].entries
                   exact   == lookup_exact(entries, Code, limit)
                   found   == lookup_prefix(entries, Code, limit)
               IN  /\ IsPrefix(exact, found)
                   /\ \A i \in DOMAIN found : found[i].input_code = Code => i \in DOMAIN exact
    <2>1. pipeline.providers[n] \in Provider
      <3>1. DOMAIN pipeline.providers = 1..Len(pipeline.providers)
        BY <1>2, LenProperties
      <3>. QED
        BY <1>2, <3>1, ElementOfSeq
    <2>2. pipeline.providers[n].entries \in Seq(Entry) /\ limit \in Nat
      BY <1>2, <2>1 DEF Provider
    <2>3. PICK entries, exact, found :
             /\ entries = pipeline.providers[n].entries
             /\ exact = lookup_exact(entries, Code, limit)
             /\ found = lookup_prefix(entries, Code, limit)
      OBVIOUS
    <2>4. /\ IsPrefix(exact, found)
          /\ \A i \in DOMAIN found : found[i].input_code = Code => i \in DOMAIN exact
      BY <1>1, <2>2, <2>3, Agreement
    <2>. QED
      BY <2>3, <2>4, Zenon
  <1>. QED
    BY <1>3, Zenon DEF LookupsAgree

-----------------------------------------------------------------------------
(* Every state an engine reaches.                                          *)

\* What is composed and shown belongs together, and to a pipeline that could be made.
PipelineInv == /\ pipeline \in Pipeline
               /\ composition \in Bytes
               /\ candidates = generate(pipeline, composition)

\* Every call of regenerate_candidates keeps the invariant.
LEMMA PipelineInductive == Spec => []PipelineInv
  <1>1. Init => PipelineInv
    <2>1. <<>> \in Bytes
      BY DEF Bytes
    <2>. QED
      BY <2>1, EngineAssumption, Zenon DEF Init, PipelineInv
  <1>2. PipelineInv /\ [Next]_engineVars => PipelineInv'
    <2>. SUFFICES ASSUME PipelineInv, [Next]_engineVars
                  PROVE  PipelineInv'
      OBVIOUS
    <2>1. CASE Next
      <3>1. PICK text \in Compositions : regenerate_candidates(text)
        BY <2>1, Zenon DEF Next
      <3>2. /\ pipeline' = pipeline /\ composition' = text
            /\ candidates' = generate(pipeline, text)
        BY <3>1, Zenon DEF regenerate_candidates
      <3>3. text \in Bytes
        BY EngineAssumption
      <3>. QED
        BY <3>2, <3>3, Zenon DEF PipelineInv
    <2>2. CASE UNCHANGED engineVars
      <3>1. pipeline' = pipeline /\ composition' = composition /\ candidates' = candidates
        BY <2>2, Zenon DEF engineVars
      <3>. QED
        BY <3>1, Zenon DEF PipelineInv
    <2>. QED
      BY <2>1, <2>2
  <1>. QED
    BY <1>1, <1>2, PTL DEF Spec

\* When everything works and every match can be looked at, the candidates are the best
\* texts of all the dictionaries in order, each once and at its highest frequency, for
\* any dictionaries; Listing says where the order of the providers decides (collect_proposals,
\* deduplicate, rank).
THEOREM CandidatesInOrder == Spec => []BestInOrder
  <1>1. PipelineInv => BestInOrder
    BY BestShown, Zenon DEF PipelineInv
  <1>. QED
    BY <1>1, PipelineInductive, PTL

\* Whatever the limits cut, no text that only extends the composition is shown while an
\* exact match of the first dictionary is not (lookup_prefix, score, compare_ranked).
THEOREM ExactMatchesFirst == Spec => []ExactNotCrowdedOut
  <1>1. PipelineInv => ExactNotCrowdedOut
    BY ExactShownFirst, Zenon DEF PipelineInv
  <1>. QED
    BY <1>1, PipelineInductive, PTL

\* When no provider fails, a match in any dictionary gives a candidate, however small the
\* limits and wherever in the dictionary it stands (lookup_prefix, generate).
THEOREM MatchesGiveCandidates == Spec => []SomeMatchSomeCandidate
  <1>1. PipelineInv => SomeMatchSomeCandidate
    BY SomeMatchShown, Zenon DEF PipelineInv
  <1>. QED
    BY <1>1, PipelineInductive, PTL

\* Giving a dictionary its entries the other way round never shows, not even in what the
\* limits cut (InMemoryDictionary::new).
THEOREM StableRecordOrder == Spec => []InsertionOrderHidden
  <1>1. PipelineInv => InsertionOrderHidden
    BY TurnedSame, Zenon DEF PipelineInv
  <1>. QED
    BY <1>1, PipelineInductive, PTL

\* lookup_exact and lookup_prefix agree in every dictionary, for every code and limit.
THEOREM OneDictionaryTwoLookups == Spec => []LookupsAgree
  <1>1. PipelineInv => LookupsAgree
    BY EveryLookupAgrees, Zenon DEF PipelineInv
  <1>. QED
    BY <1>1, PipelineInductive, PTL
=============================================================================
