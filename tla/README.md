# Verification of the input-method core

TLA+ modules that model the input-method core of this repository (`core/ime-core`, its
C ABI `core/ime-ffi`, and the loop of `apps/cli` that drives it), TLC configurations that
check them on small instances, and TLAPS proofs of what holds for every instance.
Paths below are relative to the repository. `PROJECT.json` names, for every definition,
the lines it stands for.

## 1. Inventory

| component | state | operations | correct when |
|---|---|---|---|
| **Composer** `composer/mod.rs` | UTF-8 text, cursor counted in grapheme clusters | insert, backspace, delete forward, move, clear, snapshot and restore | the cursor stays in the text although an edit joins or splits the clusters around it; no character is cut |
| **Context** `types.rs` | host text around the cursor, scope, epoch, origin | `UpdateContext`: limit, sanitise, store | no text of a password field or of a direction the host cannot read is kept |
| **Input normaliser** `input/` | none | hardware key to event, with repeats | a repeated or released key does what the same soft events do |
| **Session** `session.rs` | revision, phase, composer, candidates, context, the ledger, the belief about the host's marked text | `process_event` (ten events), `acknowledge_action` | candidates belong to the text; a revision stands for one view; a refused commit is restored only where it overwrites nothing; an error changes nothing |
| **Action ledger** in `session.rs` | next identifier, outstanding actions, a bounded history of settled ones | issue, supersede, settle, repeat | identifiers grow; an action is settled once; capacities hold |
| **Host** outside the repository | actions to perform, acknowledgements under way, marked text on display, the document | perform, acknowledge, acknowledge again | what the session believes of the host is true; every action is settled; no letter is doubled or lost |
| **Candidate pipeline** `candidate/` | none | ask the providers in turn, deduplicate, rank | the best matches in order, whatever the limits and the duplicates |
| **Ranking** `ranking/` | none | score, compare, cut | a strict order in which an exact match comes first |
| **Dictionary** `dictionary/` | entries by code | build, `lookup_prefix`, `lookup_exact` | the order of insertion does not show; the two lookups agree |
| **Language** `language/` | none | normalise, parse, identity of a text | case does not matter |
| **Engine** `engine.rs` | two process-wide atomic counters | create an engine, create a session | no identifier is given twice, from any thread; a thread waits only for others that are served |
| **C ABI** `ime-ffi/src/lib.rs` | handles, results owned by the caller, the allocations behind both | create, destroy, process event, snapshot, acknowledge, free | every action reaches the caller; a held result keeps its meaning and its memory; a refused call hands out nothing; nothing leaks |
| **CLI** `apps/cli` | a session, the `autoack` switch, what it has printed | a line becomes a call; actions are acknowledged at once or by a line | a selection commits what was printed; `autoack` settles all and only what it issued |

How they interact. A host calls a session through the C ABI or, in the CLI, directly.
An event edits the composer; the session then asks the pipeline of its engine for
candidates, moves its revision, and may issue one action: show the composition, take it
down, commit a text, delete backward, reset. The action travels to the host in the result
and stays outstanding until the host acknowledges it, in a call of its own, at any later
time. An acknowledgement that refuses a commit may bring the text back. Engines are shared
between threads; a session is not.

What is hard:

* an acknowledgement may come late, twice, in another order, or after its action was
  superseded, and the session decides from it what the host displays;
* `?` leaves a handler half way: every error has to be placed before the first change, and
  the exhaustion of a counter cannot be;
* a candidate identifier is only a position: that it names the text the user saw rests on
  the revision moving with every change;
* clusters are not bytes nor characters, and the cursor is kept in clusters;
* limits cut before ranking, duplicates are merged pairwise;
* the C ABI builds its result after the session has changed, and may then refuse it;
* the fields of `OwnedResult` that keep a result's texts alive are read by nothing, and a C
  caller uses its pointer variables again without clearing them;
* the CLI answers the staleness check of `select_candidate` with the session's own revision,
  so that a number means what was printed rests on when it prints.

`PROJECT.json` lists these as hazards, each at the line where it bites.

## 2. Modules

| module | models |
|---|---|
| `Composer` | text as a sequence of bytes; where clusters end is the constant operator `Break(text, i)`, so the clusters of a text are the caller's to choose and an edit can change those beside it |
| `Context` | a context as lengths of text and a scope; `Sanitized`, `ContextLimit`, the limits |
| `InputNormalizer` | hardware keys and what they become |
| `Session` | the state machine: one action per event and the acknowledgement, all error paths included. `reply` is the outcome of the last call. What the pipeline answers for a text is the constant `Generate(text)`, a set, so a lookup may fail |
| `ActionLedger` | the abstract promise of the ledger; `Session` implements it by `Ledger` |
| `Utf8` | characters: `IsUtf8(text)`, `IsCharBoundary(text, i)`, for the constant `Width(byte)`, the length a first byte announces |
| `SessionInvariant`, `SessionProofs` | the inductive invariant, and the proofs about `Composer` and `Session`, states and steps, and about the ledger and `ActionLedger` |
| `SessionHost` | a session composed with a host of one of several disciplines: `todo`, `answers`, `shown`, `discipline` |
| `TextFlow`, `FlowProofs` | `SessionHost` with a document: where each letter typed is; and the proofs about both |
| `Cli`, `CliProofs` | the loop of `apps/cli` around a session, and the proofs |
| `Ranking` | scores and orders |
| `CandidatePipeline` | dictionaries, providers, the loop over them, deduplication: `generate` |
| `CandidateEngine` | an engine asked for compositions; its properties say what the candidates should be without the loop, the merging or the scores |
| `PipelineProofs` | lemmas about `Ranking` and `CandidatePipeline`: orders, sorts, lookups, loops |
| `CandidateEngineProofs` | the proofs about `CandidateEngine` |
| `DictionarySession` | `Session` composed with `CandidatePipeline`: `Generate(text)` is what `generate` gives, an assumption TLC evaluates; `CliProofs` proves its property |
| `Engine`, `IdSource`, `EngineProofs` | identifiers from atomic counters, the abstract source they implement, and the proofs |
| `Ffi`, `FfiProofs` | the C ABI around `Session`: requests, results, statuses; and the proofs |
| `FfiOwnership`, `FfiOwnershipProofs` | the C ABI's memory: allocations, handles, owned results, the caller's pointer variables; and the proofs |
| `MC...` | small instances for TLC |

Correspondence. Each field of `ImeSession` is a variable of `Session` with its name. Each
variant of `InputEvent` is an action (`InsertText`, `Backspace`, ..., `Reset`,
`HardwareKey`, `ContextChanged`); what several handlers call is an operator with the
name of the function (`CompositionEdit`, `CommitText`, `ClearComposition`,
`RestoreCommit`). An action is a whole call: it ends with the candidates regenerated and
the result returned. An `Err` is an alternative of its action that says what has already
changed. A definition whose name ends in `_Something` beside one without it, under the
comment "A slip", is a plausible mistake in that place; it takes no part in any
specification and serves to show that a property notices the mistake.

In `Engine`, a thread inside `next_monotonic_id` has loaded a value and tries to exchange
it; an exchange may fail because another thread was first, or for no reason.

In `Ffi`, `results` are the results the caller has not freed and `delivered` the actions it
has been given. The checks of `parse_input_event` are in their order; a string is its bytes, and
`StringStatus` decides whether they are UTF-8. A caller keeps the
contract of `docs/ffi.md`: live pointers, each handle destroyed once, one call on a
session at a time.

In `FfiOwnership`, `heap` maps each live block to what it contains: the length, the views
(pointer and length) a wire structure or array holds, the shared inner a handle retains and,
for an inner, its strong count. `Buffers` are what `build_owned_result` allocates, and only
those moved into `OwnedResult` (`OwnedFields`) are live when it returns. `Refuse` is
`prepare_out` followed by any status but OK, a panic caught by `ffi_boundary` included.
`slots` are the caller's variables, reused without being cleared; `due` are those whose
content it has still to release, which it does once for each call whatever the status.

In `Cli`, `to_ack` is what `acknowledge_actions` has still to do; a line is read only when
it is empty. `printed` is what `print_candidates` showed last: after an event that is not an
error, an `ack` that is not refused, and `state` or `candidates`, but not after an automatic
acknowledgement. `unattended` is a history of the actions printed while `autoack` was off.

In `SessionHost`, the host performs actions in the order in which results bring them and
acknowledges each with a disposition. Its `discipline` is chosen at the start and kept:
`synchronous` settles everything before the next event, as the CLI does with `autoack`;
`in_order` may fall behind, but its acknowledgements arrive in order; `performs_all` never
refuses. In `TextFlow` the user types a letter only while it is nowhere, and chooses
a candidate only if its letters are composed or nowhere, so a letter in two
places was doubled by the program; `Refused` are the outstanding commits whose refusal is
on the way back.

## 3. Runs

| run | bounds | shows |
|---|---|---|
| `session_marked` | counters to 5, texts to 3 bytes of a letter and a two-byte mark, 2 outstanding, 2 remembered; marked text, hardware keys, contexts with and without password scope | types, fresh recoveries, bound snapshots, view and text in agreement, selection, current updates, limits, no host text kept that scope, capability or limit excludes, cursor in the text and never inside a character, no character cut; revisions pin views, failed calls are clean, and `Session` implements `ActionLedger` |
| `session_history` | the same with plain text | **violation** of `RecordedIsRemembered`, see 5 |
| `host` | counters to 4; three hosts: one synchronous, one orderly, one that refuses, repeats and reorders | the belief about marked text is true of the first two (`HostInStep`, `HostUnderstood`); with all three nothing outstanding is lost and every action is settled |
| `host_reordered` | counters to 5, a host that performs all and reorders | **violation** of `AcknowledgedCompositionIsCancelled`, see 5 |
| `host_failed` | counters to 5, a host in order that may refuse | **violation** of `AcknowledgedCompositionIsCancelled`, see 5 |
| `text_flow` | counters to 6, two letters, any order of acknowledgements, refusals, failing lookups, a change of context | no letter is in two places, and none goes unannounced |
| `cli` | counters to 5, four dictionary entries typed in both cases, texts too long and empty, acknowledgements by hand with three dispositions | selections commit what was printed; what is committed was typed or is listed under what was typed; `autoack` |
| `candidate_engine` | up to three entries in up to two providers from a pool of nine, four pairs of limits, six compositions | the candidates are the best in order; exact matches are not crowded out; while no provider fails a match is never lost; the order of insertion is hidden; the two lookups agree |
| `engine_ids` | three threads, counters to 3 | identifiers: none shared, none lost, in order; a thread waits only while others are served |
| `ffi` | counters to 4, two results held, malformed events of every kind, a budget in the proportion of 64 KiB to 16 KiB | every action delivered; a selection means what the held result showed; bytes that are not UTF-8 never reach the composition; a refused call hands out no result and no action, and unless a counter ran out it changes nothing |
| `ffi_settled` | the same | **violation** of `SettledIsUnknown`, see 5 |
| `ffi_ownership` | five allocations, one engine, two sessions and two results at a time, three shapes of result | held results are readable, every release is right, the shared inner is retained, nothing leaks |

Every call either answers or the counters run out, after which each event is answered
`CounterExhausted` and each acknowledgement still has an effect, so no run deadlocks but
`cli`, where `quit` ends the program.

The bounds. `U64Max` stands for 2^64-1 and bounds the revision, the input sequence and the
action identifiers together: it is small enough for every exhaustion path to be taken, and
large enough for a composition to be typed, committed, refused, restored and typed on.
Two outstanding actions are the least that tell "one is outstanding" from "full"; a history
of two evicts. A letter and a combining mark are the least alphabet in which a cluster is
not a byte and an edit changes its neighbours. `MaxRepeat` (`InputNormalizer`) is 2: a
repeated key is a key pressed again. `MaxResults` in `Ffi` is 2: one result held while
others come. Three threads are enough for two to race while a third has finished.
The entries of `candidate_engine` share codes, texts and lexeme order, one code extends
another, and frequencies lie on both sides of the largest a score counts.
`CommittedWasMeant` needs a session that selects among candidates of one code that extends
another, which the dictionary of `cli` has. In `ffi_ownership` an allocation's name is used
again once it is free, so a pointer that was kept too long points to something else; the
names are interchangeable (`SYMMETRY`), which no property tells apart. Its shapes are
candidates while composing, a deletion, whose action has no text, and a commit with a degraded
component: every kind of buffer, present and absent. Two letters suffice in `text_flow`: one to be committed and refused while the
other is composed. `host` stops at 4, where a composition is shown, superseded and committed;
that what it shows of marked text holds beyond is proved.

Every property of every passing run is violated when one mapped definition is replaced by
its slip; `PROJECT.json` lists which.

### Fairness

Two runs need it. In `host`, `FairHostSpec` assumes that the host keeps performing what it
was given and that each acknowledgement, once sent, arrives: `docs/ffi.md` obliges the host
to this ("The host must perform each returned `ImeAction` and acknowledge it"). It is
weak fairness, for each identifier by itself, and assumes nothing about order, nor that
acknowledgements are not repeated. Nothing is assumed of the user, who may never type again.
In `engine_ids`, `FairSpec` assumes of each thread that is inside `next_monotonic_id` that it
is scheduled, and so that an exchange does not fail for no reason for ever: without the
latter, which the atomic's weak exchange permits in principle, nothing could be promised.
`WaitsOnlyForWinners` promises no thread its turn, only that it waits while others get theirs.

## 4. Proofs

| theorem | for every |
|---|---|
| `SessionProofs`: `InsertedSound`, `BackspacedSound`, `DeletedForwardSound`, `MovedSound` | text and clusters |
| `SessionProofs`: `TypeCorrect`, `RecoveriesAreFresh`, `SnapshotAlwaysBound`, `ViewAlwaysMatches`, `SelectionAlwaysInRange`, `CursorAlwaysWithinText`, `CompositionAlwaysWithinLimit`, `UpdateAlwaysCurrent` | limit, capability, alphabet, clusters, pipeline and input |
| `SessionProofs`: `ContextAlwaysAllowed`, `RevisionAlwaysPinsView` | the same |
| `SessionProofs`: `CompositionAlwaysUtf8` | the same, and length of characters |
| `SessionProofs`: `FailuresAreClean`, `LedgerImplemented` | limit, capability, alphabet, clusters, pipeline and input |
| `EngineProofs`: `TypeCorrect`, `GivenAlwaysBelowCounter`, `IdsImplemented` | set of threads and counter width |
| `FlowProofs`: `OutstandingAlwaysInFlight`, `SynchronousHostInStep`, `InOrderHostUnderstood` | limit, pipeline, input and set of disciplines |
| `FlowProofs`: `LettersNeverDoubled` | alphabet, clusters, limit, pipeline, input and discipline |
| `FlowProofs`: `LettersNeverLost` | the same, when candidates write the letters composed |
| `CliProofs`: `CliRunsSession`, `AutoAckAlwaysSettles`, `AttendedAlwaysHealthy`, `SelectAlwaysCommitsPrinted` | limit, pipeline and line typed |
| `CliProofs`: `SessionCommitsWhatWasMeant`, `CliCommitsWhatWasMeant` | dictionary, number of providers, limit, host or line typed |
| `FfiProofs`: `SessionBehindAbi`, `CompositionBehindAbi`, `ActionsAlwaysDelivered`, `SelectionsHonourResults`, `FailuresShowNothing` | event a caller can send, result it holds, limit and pipeline that leave room in a result |
| `CandidateEngineProofs`: `CandidatesInOrder`, `ExactMatchesFirst`, `MatchesGiveCandidates`, `StableRecordOrder`, `OneDictionaryTwoLookups` | dictionary, number of providers, pair of limits and composition |
| `FfiOwnershipProofs`: `ReleaseAlwaysSafe`, `InnerAlwaysRetained`, `ResultsAlwaysReadable`, `NothingEverLeaks` | number of slots and allocations, and size of every part of a result |

**Session.** The invariant is `IInv` of `SessionInvariant`: `RestSound /\ ViewSound /\
LedgerSound`. None of the properties is inductive alone, and they need one another:

* a refused commit puts a saved text back, so the saved text itself must have a sound
  cursor and fit the limit (`RecoverySound`), or `CursorWithinText`,
  `CompositionWithinLimit` and `ViewMatchesComposition` would be lost at the restoration;
* a recovery holds a text that is not empty only because `ViewMatchesComposition` says that
  an idle session is one with no text, and `commit` asks for the phase;
* a restored text makes no outstanding `SetCompositionText` out of date only because such an
  update always shows the present text, which in the state before was empty
  (`UpdatesCurrent`);
* `RecoveryFresh` is kept because every event but the ones that find their counter exhausted
  drops the recoveries (`Live`), and an acknowledgement that clears or restores does too.

There is one lemma for each operator that changes the ledger or the view (`AllocateFacts`,
`LiveFacts`, `SettledLedger`, `RegenerateSound`, `ClearSound`), one for each action, and
`StepSound` puts them together. The cursor lemmas, in the first section, rest
only on the cardinality of the ends of clusters and on `Seq`, not on what a cluster is.

**Steps.** `RevisionPinsView` needs one fact more than `IInv`: an idle session shows nothing
even after a counter ran out (`IdleIsClear`), without which a `Reset` that finds nothing to
change could clear something. `StepKept` is what each call is shown to achieve.

**Characters.** `CharInv` adds to `IInv` that the composition and every text a refused commit
may bring back are whole characters (`RecoveryIsUtf8`: restored texts are not checked again).
`OffsetAtBoundary` is why an edit cuts none: the bytes of the first clusters are an initial
segment of the text (`LaterCluster`), which ends where a cluster does, and clusters are whole
characters. A splice between two boundaries then keeps characters whole because both halves
and what is put between them are (`Utf8Cut`, `Utf8Joined`). Each event composes nothing, what
was composed or such an edit of it, and can bring back only what was composed (`Composes`).

**Ledger.** `LInv` adds `Capacity` to `IInv`: both memories within their limits, and no action
in both. `KeptBounded` shows that the history has no more than its limit, by numbering what
it keeps. `FullIsQuiet` is the reason why a refused call is clean: as the ledger never holds
more than its limit, it can be full without the superseded actions only if there are none.
`LedgerKept` is what each call is shown to achieve; it says which actions the call settles, and
the refinement of `ActionLedger` follows with that witness.

**Engine.** `IInv` adds to `TypeOK` and `GivenBelowCounter` that a thread has seen a value
the counter has had, so a successful exchange gives the one identifier that comes next.
`IdsImplemented` is the refinement: each exchange is a `Give` of `IdSource`, and every
other step leaves the identifiers alone.

**Host.** `HInv` adds to `LInv` that the queue and the answers are of their types, and
`OutstandingIsInFlight`, which is inductive with them: an event brings what it issues to the
end of the queue (`EventIssues`), and an acknowledgement taken off the way settles its own
action. For a synchronous host nothing is queued when an event comes, so one
action is in flight at most; `InStep` says what the session will believe once it has arrived.
For an orderly host that performs all, `AInv` says that the queue and the answers are in the
order of their identifiers (`Ordered`), that what the host will display when the queue is done
is what the session will believe when all it waits for has arrived (`Understood`), the last
composition shown being still waited for (`LastShows`), that the revision has not moved more
often than events have come (`Paced`: so it cannot run out in the middle of a call before the
events do), and that every answer is `Applied` (`AllApplied`). `Understood` is claimed only
while identifiers are left: an edit that supersedes a composition and then finds none for its
successor leaves the session with nothing to wait for.

**Letters.** `FlowInv` adds to `HInv` that identifiers are in order in the queue, that what is
queued is what the ledger says (`Matched`), that an action is answered once (`OneAnswer`), and
`RecoveryApart`: while a commit can still be refused, the letters it would bring back are
nowhere but where that commit is. `NoLetterTwice` is not inductive without it, since a refusal
gives back a text the places do not hold; `RecoveryApart` in turn needs that a letter is brought
in only while it is nowhere. An event is described by what it does to letters (`FlowEffect`:
edit, commit, removal or nothing), a host's step by where a text goes (`MovesApart`).
`LettersNeverLost` needs besides that a recovery holds the letters of its commit
(`RecoverySpells`), hence its hypothesis `CandidatesSpell`, which `MCTextFlow` meets: a candidate
in other letters replaces those composed, because the user chose it.

**C ABI.** `FInv` adds to the session's invariants that the candidates on display leave room in
a result for any composition (`CandidatesFit`), that a held result of the present revision shows
the present candidates (`ResultsCurrent`), and `EveryActionDelivered`. That an action always fits
rests on the order of a commit: without marked text only a call that takes the display down
issues an action with text (`IssueKept`), so its text replaces the composition or a candidate in
the budget. `ResultsCurrent` is claimed only while there is something to select: with the
revisions exhausted a clear keeps its number. `CompositionBehindAbi` follows from `CharInv` and
`ParsedUtf8`, whatever bytes `WireEvents` holds.

`FailuresShowNothing` has two parts. `FailureHandsOutNothing` reads it off the entry points that
a status other than `OK` comes without a result and without an action; `FailureShowsNothing`
takes from `CallKept` that the session's own errors change nothing a snapshot shows, and from
`Returned` that no result is over its budget after a change. `INTERNAL_ERROR`, of a counter that ran out
half way, is exempt from the second part alone.

**CLI.** Every line is a call of `Session` or none (`CliRunsSession`), so `IInv` holds in the
loop. `CInv` adds `PrintedCurrent` (in the phase that allows a selection, the candidates are
those printed last), `Attended` (what is outstanding was printed with `autoack` off or is in
`to_ack`) and `AttendedIsHealthy`. `PrintedCurrent` would not be inductive with automatic
acknowledgements of refusals, after which nothing is printed; they are all `Applied`.

`CommittedWasMeant` joins the session to the pipeline. A call issues no commit but of the
composition or, with revisions left, of a candidate on display (`CommitsCommittable`, one lemma
for each operator that issues actions). `ViewMatchesComposition`, of `IInv`, says that those
candidates are the pipeline's for the present text, a restored one included, and
`GeneratedListed` that the pipeline's texts are listed under a code the normalised text begins:
a lookup finds nothing else (`LooksUp`), the loop over the providers adds nothing else
(`AskListed`), and merging and ranking make no text up (`OneOfEach`, `Ranked`). With the
revisions exhausted a session may show the candidates of another text, but can then commit
none of them: `commit_text` clears and fails. The property holds of every host, so of the
loop: none of its lemmas uses `CliAssumption`.

**Candidates.** `PipelineInv` says only that what is shown is what `generate` gives for what is
composed; the work is in what `generate` gives. `NatInduct` is induction for a set of numbers,
from the least number outside it; with `Recursion`, which shows that a recursive definition
over the first numbers has a solution, it opens the loop over the providers (`CollectedSteps`)
and the loop over the proposals (`DeduplicateSteps`). The argument goes with the data:

* the orders: `Lower` is a strict total order of byte strings, found at the first byte
  that differs; `EntryPrecedes` and `compare_ranked` are then strict orders (`EntryOrder`,
  `RankedOrder`), and `Ranks` numbers a finite ordered set without gaps, so that the sorts of
  `Dictionary` and `rank` put every element in one place (`DictionarySorts`, `RankFacts`);
* a dictionary: entries that compare as equal are equal, so its order of insertion is hidden
  (`OrderHidden`); the codes a prefix begins lie together and begin with the prefix itself
  (`Ranges`), because what lies between a prefix and a code it begins starts with it too
  (`BetweenPrefixes`). `LooksUp` is what a lookup promises;
* the loop: `Gathered` is its invariant. As many matches have been collected as there are, or as
  the limit allows; they come in the order of providers and codes; an exact match of
  the first provider is missing only if nothing but exact matches fills the limit;
* merging: `Represents` is its invariant. A text's proposal has the greatest
  frequency, is exact if any is, and is otherwise the first among the most frequent with
  the lowest lexeme. It holds although `merge_proposal` raises the frequency of what it keeps;
* ranking: a score orders exact matches before the others, since no counted frequency reaches
  the bonus, and orders frequencies weakly; `compare_ranked` decides between equal scores.

`BestInOrder` is an order of texts, and independent of the order of the providers but for one
tie: when dictionaries list a text that no code of its makes exact under different codes, with the
same highest frequency and the same lowest lexeme, the earliest of them gives the code
(`Listing`), which places the text among those of equal frequency. With "x" listed under "aa" in one
provider and under "ab" in another as the same lexeme, and "z" under "aa" in the first, all of
one frequency, "a" gives x, z; with the
providers exchanged, z, x. No text of the repository promises otherwise: the order of the providers
is configuration. `SomeMatchSomeCandidate` needs every provider to work, because one failure
discards what the others found. `InsertionOrderHidden` compares a dictionary with its
reversal, which for two entries is every order.

**Memory.** `OInv` adds to `ReleaseIsSafe` that the strong count of an inner is the number of
handles held on it and is never nought while it lives (`Counted`), that the live blocks of a
held result are exactly those `build_owned_result` made for one shape, with what it put into
them (`Whole`), and that every live block has somebody who answers for it (`Rooted`). That a
result is whole is kept because names of allocations are fresh and a release touches only its
own (`ResultsApart`); `Extended` and `Shrunk` say so once for all creations and all releases.
`ResultsStayReadable` and `NothingLeaks` then are facts about the shape alone.

Assumptions: `SessionAssumption` (`CoreLimits::validate` and the types of the inputs),
`CharacterAssumption` (events carry strings, and clusters are whole characters, as Unicode has it),
`GenerateAssumption` (the pipeline answers, and a failed one gives no candidates, as
`regenerate_candidates` does), `ContextAssumption`, `EngineAssumption`, `HostAssumption` (what a discipline is),
`EngineAnswers` (the session's candidates are those of `generate`, for one pipeline),
`FfiAssumption` and `BudgetAssumption` (`EngineConfig::default`, and that 16 KiB of composition
with the candidates of `reference_dictionary` are less than 64 KiB and 64 candidates),
`WireAssumption` (an event that parses carries bytes and a number),
`CliAssumption` (`EngineConfig::default` and the arguments of the lines) and
`OwnershipAssumption` (finitely many caller variables, each of one kind, and what a result may
hold). TLC evaluates each in its runs.

**Only model-checked.** Liveness (`EveryActionSettles`, `WaitsOnlyForWinners`), which is out
of the prover's reach. Every other property of a passing run is stated by a theorem.

## 5. Findings

1. **A late acknowledgement is forgotten by the call that records it** (`session.rs:619`,
   run `session_history`). `record_resolved` evicts the lowest identifier, not the oldest
   record. With the history full of later actions, recording an earlier one removes it at
   once; acknowledging it again is then `UnknownAction`, where a duplicate is meant to be
   safe.
2. **Acknowledgements out of order leave the session wrong about the host's marked text**
   (`session.rs:668`, run `host_reordered`). The last acknowledgement to arrive decides.
   When a `CancelComposition` is acknowledged after the `SetCompositionText` that followed
   it, `Cancel` no longer asks the host to take the composition down.
   The run `host` shows, and `SynchronousHostInStep` proves, that a host that settles each
   action before the next event is safe.
3. **A composition superseded while it was shown is forgotten** (`session.rs:171`, run
   `host_failed`). `acknowledge_action` answers `AlreadyResolved` for a superseded action and
   does not look at what the host did with it. When the update that replaces it then fails,
   the host still shows the first and the session believes it shows nothing, although every
   acknowledgement came in order. `InOrderHostUnderstood` proves that a host that also
   performs everything is safe.
4. **An already-resolved action is answered `IME_STATUS_OK` by the C ABI**
   (`ime-ffi/src/lib.rs:338`, run `ffi_settled`), while `docs/ffi.md:117` promises
   `IME_STATUS_UNKNOWN_ACTION`.

## 6. Not modelled

Memory layout and alignment, and callers that break the contract of `docs/ffi.md`: the models
start from one that keeps it, and a panic is checked for where it could arise
(`CompositionIsUtf8`, `CursorWithinText`). The ranges of the bytes inside a UTF-8 character, of
which only the number counts. The content of host text (only its length), the
wording of errors, the CLI's spelling of commands and layout of output, `ime.h` and the smoke
tests, which state layouts and repeat calls the models make. Which clusters Unicode makes of a
text is a constant. Memory exhaustion is not modelled.

## 7. What comes next

`LettersNeverDoubled` for the loop of the CLI, whose host is synchronous.
