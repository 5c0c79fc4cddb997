---------------------------- MODULE SessionProofs ----------------------------
(***************************************************************************)
(* IInv is an inductive invariant of Session, and so its parts hold in     *)
(* every state of every instance; and what no call on a session ever does. *)
(***************************************************************************)
EXTENDS SessionInvariant, Utf8, FiniteSetTheorems, SequenceTheorems, TLAPS

-----------------------------------------------------------------------------
(* What the editing operators of Composer return, for every text and every *)
(* division of texts into clusters.                                        *)

\* The first n positions are n in number.
LEMMA PositionsFinite ==
    ASSUME NEW n \in Nat
    PROVE  IsFiniteSet(1..n) /\ Cardinality(1..n) = n
  <1>1. 1 \in Int /\ n \in Int
    OBVIOUS
  <1>2. IsFiniteSet(1..n) /\ Cardinality(1..n) = IF 1 > n THEN 0 ELSE n - 1 + 1
    BY <1>1, FS_Interval, Zenon
  <1>3. n = IF 1 > n THEN 0 ELSE n - 1 + 1
    OBVIOUS
  <1>. QED
    BY <1>2, <1>3

\* The ends of the clusters are byte positions: finitely many.
LEMMA EndsFinite ==
    ASSUME NEW text \in Text
    PROVE  /\ Len(text) \in Nat
           /\ Ends(text) \subseteq 1..Len(text)
           /\ IsFiniteSet(Ends(text))
           /\ grapheme_count(text) \in Nat
  <1>1. Len(text) \in Nat
    BY LenProperties DEF Text
  <1>2. IsFiniteSet(1..Len(text))
    BY <1>1, PositionsFinite
  <1>3. Ends(text) \in SUBSET (1..Len(text))
    BY DEF Ends
  <1>4. IsFiniteSet(Ends(text))
    BY <1>2, <1>3, FS_Subset
  <1>. QED
    BY <1>1, <1>3, <1>4, FS_CardinalityType DEF grapheme_count

\* A byte's cluster is one of the text's clusters.
LEMMA ClusterOfByte ==
    ASSUME NEW text \in Text, NEW i \in 1..Len(text)
    PROVE  ClusterOf(text, i) \in 1..grapheme_count(text)
  <1>. DEFINE Before == {e \in Ends(text) : e < i}
  <1>1. /\ Len(text) \in Nat /\ Ends(text) \subseteq 1..Len(text)
        /\ IsFiniteSet(Ends(text)) /\ grapheme_count(text) \in Nat
    BY EndsFinite
  <1>2. Len(text) \in Ends(text)
    BY <1>1 DEF Ends
  <1>3. /\ IsFiniteSet(Ends(text) \ {Len(text)})
        /\ Cardinality(Ends(text) \ {Len(text)}) = grapheme_count(text) - 1
    BY <1>1, <1>2, FS_RemoveElement DEF grapheme_count
  <1>4. Before \in SUBSET (Ends(text) \ {Len(text)})
    BY <1>1
  <1>5. /\ Cardinality(Before) \in Nat
        /\ Cardinality(Before) <= grapheme_count(text) - 1
    BY <1>3, <1>4, FS_Subset, FS_CardinalityType
  <1>. QED
    BY <1>1, <1>5 DEF ClusterOf

\* A cursor, whatever its value, stands at a byte offset of the text.
LEMMA OffsetInText ==
    ASSUME NEW text \in Text, NEW index \in Int
    PROVE  byte_offset_for_grapheme(text, index) \in 0..Len(text)
  <1>. DEFINE Covered == {i \in 1..Len(text) : ClusterOf(text, i) <= index}
  <1>1. Len(text) \in Nat
    BY EndsFinite
  <1>2. IsFiniteSet(1..Len(text)) /\ Cardinality(1..Len(text)) = Len(text)
    BY <1>1, PositionsFinite
  <1>3. Covered \in SUBSET (1..Len(text))
    OBVIOUS
  <1>4. Cardinality(Covered) \in Nat /\ Cardinality(Covered) <= Len(text)
    BY <1>2, <1>3, FS_Subset, FS_CardinalityType
  <1>. QED
    BY <1>1, <1>4 DEF byte_offset_for_grapheme

\* More clusters cover at least as many bytes.
LEMMA OffsetMonotonic ==
    ASSUME NEW text \in Text, NEW low \in Int, NEW high \in Int, low <= high
    PROVE  byte_offset_for_grapheme(text, low) <= byte_offset_for_grapheme(text, high)
  <1>. DEFINE Covered(index) == {i \in 1..Len(text) : ClusterOf(text, i) <= index}
  <1>1. IsFiniteSet(1..Len(text))
    BY EndsFinite, PositionsFinite
  <1>2. IsFiniteSet(Covered(high))
    BY <1>1, FS_Subset
  <1>3. \A i \in 1..Len(text) : ClusterOf(text, i) \in Int
    BY ClusterOfByte, EndsFinite
  <1>4. Covered(low) \in SUBSET Covered(high)
    BY <1>3
  <1>5. Cardinality(Covered(low)) <= Cardinality(Covered(high))
    BY <1>2, <1>4, FS_Subset
  <1>. QED
    BY <1>5 DEF byte_offset_for_grapheme

\* The cursor computed from a byte offset stays within the text.
LEMMA CursorAfterByte ==
    ASSUME NEW text \in Text, NEW target \in Nat
    PROVE  grapheme_cursor_after_byte(text, target) \in 0..grapheme_count(text)
  <1>1. Len(text) \in Nat /\ grapheme_count(text) \in Nat
    BY EndsFinite
  <1>2. CASE target \in 1..Len(text)
    BY <1>1, <1>2, ClusterOfByte DEF grapheme_cursor_after_byte
  <1>3. CASE target \notin 1..Len(text)
    BY <1>1, <1>3 DEF grapheme_cursor_after_byte
  <1>. QED
    BY <1>2, <1>3

\* A splice is a text, as much longer as what it puts in exceeds what it takes out.
LEMMA SpliceText ==
    ASSUME NEW text \in Text, NEW inserted \in Text,
           NEW start \in 0..Len(text), NEW end \in start..Len(text)
    PROVE  /\ Splice(text, start, end, inserted) \in Text
           /\ Len(Splice(text, start, end, inserted)) =
                Len(text) - (end - start) + Len(inserted)
  <1>. DEFINE left == SubSeq(text, 1, start)
              right == SubSeq(text, end + 1, Len(text))
  <1>1. Len(text) \in Nat /\ Len(inserted) \in Nat
    BY EndsFinite
  <1>2. left \in Text /\ Len(left) = start
    BY <1>1, SubSeqProperties DEF Text
  <1>3. right \in Text /\ Len(right) = Len(text) - end
    BY <1>1, SubSeqProperties DEF Text
  <1>. DEFINE both  == left \o inserted
              whole == both \o right
  <1>4. Splice(text, start, end, inserted) = whole
    BY DEF Splice
  <1>. HIDE DEF left, right
  <1>5. both \in Text /\ Len(both) = start + Len(inserted)
    BY <1>2, ConcatProperties DEF Text
  <1>. HIDE DEF both
  <1>6. whole \in Text /\ Len(whole) = Len(both) + Len(right)
    BY <1>3, <1>5, ConcatProperties DEF Text
  <1>. HIDE DEF whole
  <1>7. start \in Nat /\ end \in Nat
    BY <1>1
  <1>. QED
    BY <1>1, <1>3, <1>4, <1>5, <1>6, <1>7

\* Wherever a text's cursor is placed from a byte offset, it is a sound composer.
LEMMA PlacedSound ==
    ASSUME NEW text \in Text, NEW target \in Nat
    PROVE  /\ Placed(text, target) \in Composers
           /\ CursorInText(Placed(text, target))
           /\ Placed(text, target).text = text
  BY CursorAfterByte, EndsFinite DEF Placed, Composers, CursorInText

\* Inserting keeps the composer sound and adds exactly the bytes inserted.
THEOREM InsertedSound ==
    ASSUME NEW c \in Composers, NEW inserted \in Text
    PROVE  /\ Inserted(c, inserted) \in Composers
           /\ CursorInText(Inserted(c, inserted))
           /\ Len(Inserted(c, inserted).text) = Len(c.text) + Len(inserted)
  <1>. DEFINE at == cursor_utf8_byte_offset(c)
  <1>1. c.text \in Text /\ c.cursor_grapheme \in Int
    BY DEF Composers
  <1>2. at \in 0..Len(c.text)
    BY <1>1, OffsetInText DEF cursor_utf8_byte_offset
  <1>3. Len(c.text) \in Nat /\ Len(inserted) \in Nat
    BY <1>1, EndsFinite
  <1>4. at \in at..Len(c.text) /\ at + Len(inserted) \in Nat
    BY <1>2, <1>3
  <1>5. Inserted(c, inserted) = Placed(Splice(c.text, at, at, inserted), at + Len(inserted))
    BY DEF Inserted
  <1>. HIDE DEF at
  <1>6. /\ Splice(c.text, at, at, inserted) \in Text
        /\ Len(Splice(c.text, at, at, inserted)) = Len(c.text) - (at - at) + Len(inserted)
    BY <1>1, <1>2, <1>4, SpliceText
  <1>. QED
    BY <1>2, <1>3, <1>4, <1>5, <1>6, PlacedSound

\* Removing the bytes between two offsets keeps the composer sound.
LEMMA RemovedSound ==
    ASSUME NEW text \in Text, NEW start \in 0..Len(text), NEW end \in start..Len(text)
    PROVE  LET removed == Placed(Splice(text, start, end, <<>>), start)
           IN  /\ removed \in Composers
               /\ CursorInText(removed)
               /\ Len(removed.text) = Len(text) - (end - start)
  <1>1. <<>> \in Text /\ Len(<<>>) = 0 /\ Len(text) \in Nat
    BY EmptySeq, EndsFinite DEF Text
  <1>2. /\ Splice(text, start, end, <<>>) \in Text
        /\ Len(Splice(text, start, end, <<>>)) = Len(text) - (end - start) + Len(<<>>)
    BY <1>1, SpliceText
  <1>. QED
    BY <1>1, <1>2, PlacedSound

\* Removing the cluster before the cursor keeps the composer sound and its text no longer.
THEOREM BackspacedSound ==
    ASSUME NEW c \in Composers, CursorInText(c)
    PROVE  /\ Backspaced(c) \in Composers
           /\ CursorInText(Backspaced(c))
           /\ Len(Backspaced(c).text) <= Len(c.text)
  <1>. DEFINE start == byte_offset_for_grapheme(c.text, c.cursor_grapheme - 1)
              end   == cursor_utf8_byte_offset(c)
  <1>1. c.text \in Text /\ c.cursor_grapheme \in Nat /\ Len(c.text) \in Nat
    BY EndsFinite DEF Composers
  <1>2. /\ c.cursor_grapheme - 1 \in Int /\ c.cursor_grapheme \in Int
        /\ c.cursor_grapheme - 1 <= c.cursor_grapheme
        /\ start = byte_offset_for_grapheme(c.text, c.cursor_grapheme - 1)
        /\ end = byte_offset_for_grapheme(c.text, c.cursor_grapheme)
    BY <1>1 DEF cursor_utf8_byte_offset
  <1>. HIDE DEF start, end
  <1>3. start \in 0..Len(c.text) /\ end \in 0..Len(c.text) /\ start <= end
    <2>1. start \in 0..Len(c.text)
      BY <1>1, <1>2, OffsetInText
    <2>2. end \in 0..Len(c.text)
      BY <1>1, <1>2, OffsetInText
    <2>3. start <= end
      BY <1>1, <1>2, OffsetMonotonic
    <2>. QED
      BY <2>1, <2>2, <2>3
  <1>4. CASE c.cursor_grapheme = 0
    BY <1>1, <1>4 DEF Backspaced
  <1>5. CASE c.cursor_grapheme # 0
    <2>1. Backspaced(c) = Placed(Splice(c.text, start, end, <<>>), start)
      BY <1>5 DEF start, end, Backspaced
    <2>2. end \in start..Len(c.text)
      BY <1>1, <1>3
    <2>. QED
      BY <1>1, <1>3, <2>1, <2>2, RemovedSound
  <1>. QED
    BY <1>4, <1>5

\* Removing the cluster after the cursor keeps the composer sound and its text no longer.
THEOREM DeletedForwardSound ==
    ASSUME NEW c \in Composers, CursorInText(c)
    PROVE  /\ DeletedForward(c) \in Composers
           /\ CursorInText(DeletedForward(c))
           /\ Len(DeletedForward(c).text) <= Len(c.text)
  <1>. DEFINE start == cursor_utf8_byte_offset(c)
              end   == byte_offset_for_grapheme(c.text, c.cursor_grapheme + 1)
  <1>1. c.text \in Text /\ c.cursor_grapheme \in Nat /\ Len(c.text) \in Nat
    BY EndsFinite DEF Composers
  <1>2. /\ c.cursor_grapheme \in Int /\ c.cursor_grapheme + 1 \in Int
        /\ c.cursor_grapheme <= c.cursor_grapheme + 1
        /\ start = byte_offset_for_grapheme(c.text, c.cursor_grapheme)
        /\ end = byte_offset_for_grapheme(c.text, c.cursor_grapheme + 1)
    BY <1>1 DEF cursor_utf8_byte_offset
  <1>. HIDE DEF start, end
  <1>3. start \in 0..Len(c.text) /\ end \in 0..Len(c.text) /\ start <= end
    <2>1. start \in 0..Len(c.text)
      BY <1>1, <1>2, OffsetInText
    <2>2. end \in 0..Len(c.text)
      BY <1>1, <1>2, OffsetInText
    <2>3. start <= end
      BY <1>1, <1>2, OffsetMonotonic
    <2>. QED
      BY <2>1, <2>2, <2>3
  <1>4. CASE AtEnd(c)
    BY <1>1, <1>4 DEF DeletedForward
  <1>5. CASE ~AtEnd(c)
    <2>1. DeletedForward(c) = Placed(Splice(c.text, start, end, <<>>), start)
      BY <1>5 DEF start, end, DeletedForward
    <2>2. end \in start..Len(c.text)
      BY <1>1, <1>3
    <2>. QED
      BY <1>1, <1>3, <2>1, <2>2, RemovedSound
  <1>. QED
    BY <1>4, <1>5

\* Moving keeps the composer sound and its text.
THEOREM MovedSound ==
    ASSUME NEW c \in Composers, NEW delta \in Int
    PROVE  /\ Moved(c, delta) \in Composers
           /\ CursorInText(Moved(c, delta))
           /\ Moved(c, delta).text = c.text
  <1>1. c.text \in Text /\ c.cursor_grapheme \in Nat /\ grapheme_count(c.text) \in Nat
    BY EndsFinite DEF Composers
  <1>. QED
    BY <1>1 DEF Moved, Composers, CursorInText

-----------------------------------------------------------------------------
(* Ledgers.                                                                *)

\* What remains of a ledger without some actions is still a ledger.
LEMMA WithoutTyped ==
    ASSUME NEW actions, NEW next, Typed(actions, next), NEW ids
    PROVE  /\ Typed(Without(actions, ids), next)
           /\ DOMAIN Without(actions, ids) = DOMAIN actions \ ids
           /\ \A id \in DOMAIN actions \ ids : Without(actions, ids)[id] = actions[id]
  BY DEF Typed, Without, Restrict

\* Invalidating the recoveries keeps everything else of the actions.
LEMMA LiveFacts ==
    ASSUME Typed(pending_actions, next_action_id)
    PROVE  /\ Typed(Live, next_action_id)
           /\ NoRecovery(Live)
           /\ DOMAIN Live = DOMAIN pending_actions
           /\ \A id \in DOMAIN pending_actions :
                /\ Live[id].kind = pending_actions[id].kind
                /\ Live[id].text = pending_actions[id].text
                /\ Live[id].offset = pending_actions[id].offset
  <1>1. \A id \in DOMAIN pending_actions : pending_actions[id] \in PendingAction
    BY DEF Typed
  <1>2. \A id \in DOMAIN pending_actions :
          LET action == [pending_actions[id] EXCEPT !.recovery = {}]
          IN  /\ action \in PendingAction /\ action.recovery = {}
              /\ action.kind = pending_actions[id].kind
              /\ action.text = pending_actions[id].text
              /\ action.offset = pending_actions[id].offset
    BY <1>1 DEF PendingAction
  <1>. QED
    BY <1>2 DEF Live, Typed, NoRecovery

\* The dispositions remembered after some actions are settled are dispositions of
\* actions issued.
LEMMA RecordedTyped ==
    ASSUME NEW next, NEW ids \in SUBSET (1..(next - 1)), NEW disposition \in Dispositions,
           DOMAIN resolved_actions \subseteq 1..(next - 1),
           resolved_actions \in [DOMAIN resolved_actions -> Dispositions]
    PROVE  /\ DOMAIN Recorded(ids, disposition) \subseteq 1..(next - 1)
           /\ Recorded(ids, disposition)
                \in [DOMAIN Recorded(ids, disposition) -> Dispositions]
  BY DEF Recorded, Kept

\* Allocating keeps the ledger a ledger; what it issues is the action given, and the
\* only one that can carry a recovery.
LEMMA AllocateFacts ==
    ASSUME NEW actions, Typed(actions, next_action_id), NoRecovery(actions),
           next_action_id \in ActionId,
           NEW action \in PendingAction, NEW c, UpdatesCurrent(actions, c),
           action.kind = "SetCompositionText" =>
             /\ MarkedText
             /\ c.text # <<>> /\ action.text = c.text
             /\ action.offset = cursor_utf8_byte_offset(c)
             /\ \A id \in DOMAIN actions : actions[id].kind # "SetCompositionText",
           Allocate(actions, action)
    PROVE  /\ next_action_id' \in ActionId
           /\ Typed(pending_actions', next_action_id')
           /\ next_action_id <= next_action_id'
           /\ UpdatesCurrent(pending_actions', c)
           /\ reply' \in Replies
           /\ \A id \in DOMAIN pending_actions' : pending_actions'[id].recovery # {} =>
                /\ id = next_action_id' - 1
                /\ pending_actions'[id] = action
  <1>1. U64Max \in Nat /\ next_action_id \in 1..U64Max
    BY SessionAssumption DEF ActionId
  <1>2. CASE next_action_id = U64Max
    BY <1>1, <1>2 DEF Allocate, ActionId, NoRecovery, Replies
  <1>3. CASE next_action_id # U64Max
    <2>0. next_action_id + 1 \in 1..U64Max /\ (next_action_id + 1) - 1 = next_action_id
      BY <1>1, <1>3
    <2>1. /\ next_action_id' = next_action_id + 1
          /\ reply' = "Ok"
          /\ pending_actions' = [id \in DOMAIN actions \cup {next_action_id} |->
                                   IF id = next_action_id THEN action ELSE actions[id]]
      BY <1>3 DEF Allocate
    <2>2. DOMAIN actions \subseteq 1..(next_action_id - 1)
      BY DEF Typed
    <2>3. next_action_id \notin DOMAIN actions
      BY <1>1, <2>2
    <2>4. /\ DOMAIN pending_actions' = DOMAIN actions \cup {next_action_id}
          /\ pending_actions'[next_action_id] = action
          /\ \A id \in DOMAIN actions : pending_actions'[id] = actions[id]
      BY <2>1, <2>3
    <2>5. Typed(pending_actions', next_action_id')
      <3>1. DOMAIN pending_actions' \subseteq 1..(next_action_id' - 1)
        BY <1>1, <2>1, <2>2, <2>4
      <3>2. \A id \in DOMAIN pending_actions' : pending_actions'[id] \in PendingAction
        BY <2>4 DEF Typed
      <3>. QED
        BY <2>1, <3>1, <3>2 DEF Typed
    <2>6. UpdatesCurrent(pending_actions', c)
      BY <2>3, <2>4 DEF UpdatesCurrent
    <2>7. \A id \in DOMAIN pending_actions' : pending_actions'[id].recovery # {} =>
                id = next_action_id' - 1 /\ pending_actions'[id] = action
      <3>1. next_action_id' - 1 = next_action_id
        BY <2>0, <2>1
      <3>. QED
        BY <2>4, <3>1 DEF NoRecovery
    <2>8. next_action_id' \in ActionId /\ next_action_id <= next_action_id'
      BY <1>1, <2>0, <2>1 DEF ActionId
    <2>. QED
      BY <2>1, <2>5, <2>6, <2>7, <2>8 DEF Replies
  <1>. QED
    BY <1>2, <1>3

-----------------------------------------------------------------------------
(* Views.                                                                  *)

\* A composition within its limit is one the pipeline answers.
LEMMA GenerateFacts ==
    ASSUME NEW text \in Text, Len(text) <= MaxCompositionTextBytes
    PROVE  \A answer \in Generate(text) :
             /\ answer.texts \in Seq(Text)
             /\ answer.failed \in SUBSET Components
             /\ answer.failed # {} => answer.texts = <<>>
  <1>1. Len(text) \in Nat /\ text \in [1..Len(text) -> Byte]
    BY LenProperties DEF Text
  <1>2. Len(text) \in 0..MaxCompositionTextBytes
    BY <1>1, SessionAssumption
  <1>3. text \in CompositionText
    BY <1>1, <1>2 DEF CompositionText
  <1>. QED
    BY <1>3, GenerateAssumption DEF Answers

\* Fresh candidates are well typed, bound to their revision and rightly selected.
LEMMA FromRankedFacts ==
    ASSUME NEW revision \in Revision, NEW texts \in Seq(Text)
    PROVE  /\ FromRanked(revision, texts) \in CandidateSnapshot
           /\ FromRanked(revision, texts).revision = revision
           /\ FromRanked(revision, texts).entries = texts
           /\ IF texts = <<>> THEN FromRanked(revision, texts).selected_index = 0
              ELSE FromRanked(revision, texts).selected_index \in DOMAIN texts
  <1>1. Len(texts) \in Nat /\ DOMAIN texts = 1..Len(texts)
    BY LenProperties
  <1>2. texts # <<>> => 1 \in DOMAIN texts
    BY <1>1, EmptySeq
  <1>. QED
    BY <1>2 DEF FromRanked, CandidateSnapshot

\* Regenerating for a sound composer gives a sound view.
LEMMA RegenerateSound ==
    ASSUME NEW edited \in Composers, CursorInText(edited),
           Len(edited.text) <= MaxCompositionTextBytes,
           NEW revision \in Revision,
           composer' = edited, state_revision' = revision,
           Regenerate(edited, revision)
    PROVE  ViewSound'
  <1>1. edited.text \in Text /\ <<>> \in Seq(Text) /\ DOMAIN <<>> = {}
    BY EmptySeq DEF Composers
  <1>2. /\ composer' \in Composers /\ CursorWithinText' /\ CompositionWithinLimit'
    BY DEF CursorWithinText, CompositionWithinLimit, CursorInText, grapheme_count, Ends
  <1>3. CASE edited.text = <<>>
    <2>1. EmptySnapshot(revision) \in CandidateSnapshot
      BY <1>1 DEF EmptySnapshot, CandidateSnapshot
    <2>. QED
      BY <1>2, <1>3, <2>1 DEF ViewSound, Regenerate, EmptySnapshot, SnapshotBound,
         ViewMatchesComposition, SelectionInRange
  <1>4. CASE edited.text # <<>>
    <2>1. PICK answer \in Generate(edited.text) :
            /\ phase' = IF answer.texts = <<>> THEN "Composing" ELSE "CandidateSelecting"
            /\ candidate_snapshot' = FromRanked(revision, answer.texts)
            /\ degraded_components' = answer.failed
      BY <1>4 DEF Regenerate
    <2>2. answer.texts \in Seq(Text) /\ answer.failed \in SUBSET Components
      BY <1>1, GenerateFacts
    <2>3. /\ candidate_snapshot' \in CandidateSnapshot
          /\ candidate_snapshot'.revision = revision
          /\ candidate_snapshot'.entries = answer.texts
          /\ SelectionInRange'
      BY <2>1, <2>2, FromRankedFacts DEF SelectionInRange
    <2>4. ViewMatchesComposition'
      BY <1>4, <2>1, <2>3 DEF ViewMatchesComposition
    <2>. QED
      BY <1>2, <2>1, <2>2, <2>3, <2>4 DEF ViewSound, SnapshotBound
  <1>. QED
    BY <1>3, <1>4

\* Clearing the composition gives a sound view.
LEMMA ClearSound ==
    ASSUME NEW revision \in Revision, state_revision' = revision,
           ClearComposition(revision)
    PROVE  ViewSound' /\ composer' = EmptyComposer /\ phase' = "Idle"
  <1>1. /\ <<>> \in Text /\ <<>> \in Seq(Text) /\ Len(<<>>) = 0
    BY EmptySeq DEF Text
  <1>2. EmptyComposer \in Composers /\ EmptySnapshot(revision) \in CandidateSnapshot
    BY <1>1 DEF EmptyComposer, EmptySnapshot, Composers, CandidateSnapshot
  <1>3. grapheme_count(<<>>) \in Nat
    BY <1>1, EndsFinite
  <1>4. CursorInText(EmptyComposer)
    BY <1>3 DEF CursorInText, EmptyComposer
  <1>. QED
    BY <1>1, <1>2, <1>4, SessionAssumption DEF ClearComposition, ViewSound, SnapshotBound,
       CursorWithinText, CompositionWithinLimit, ViewMatchesComposition, SelectionInRange,
       EmptyComposer, EmptySnapshot

-----------------------------------------------------------------------------
(* Steps.                                                                  *)

\* A step that only moves the cursor of the sequence keeps the view sound.
LEMMA ViewUnchanged ==
    ASSUME ViewSound, UNCHANGED <<state_revision, view>>
    PROVE  ViewSound'
  BY DEF ViewSound, view, SnapshotBound, CursorWithinText, CompositionWithinLimit,
         ViewMatchesComposition, SelectionInRange, Exhausted

\* A ledger without recoveries is sound as soon as its types and updates are.
LEMMA QuietLedger ==
    ASSUME next_action_id' \in ActionId,
           Typed(pending_actions', next_action_id'),
           DOMAIN resolved_actions' \subseteq 1..(next_action_id' - 1),
           resolved_actions' \in [DOMAIN resolved_actions' -> Dispositions],
           NoRecovery(pending_actions'),
           UpdatesCurrent(pending_actions', composer')
    PROVE  LedgerSound'
  BY DEF LedgerSound, NoRecovery, RecoveryFresh, RecoverySound

\* Settling pending actions keeps the history typed.
LEMMA HistoryTyped ==
    ASSUME LedgerSound, NEW ids \in SUBSET DOMAIN pending_actions,
           NEW disposition \in Dispositions,
           next_action_id' \in ActionId, next_action_id <= next_action_id',
           resolved_actions' = Recorded(ids, disposition)
    PROVE  /\ DOMAIN resolved_actions' \subseteq 1..(next_action_id' - 1)
           /\ resolved_actions' \in [DOMAIN resolved_actions' -> Dispositions]
  <1>1. next_action_id \in Int /\ next_action_id' \in Int
    BY SessionAssumption DEF LedgerSound, ActionId
  <1>2. ids \in SUBSET (1..(next_action_id - 1))
    BY DEF LedgerSound, Typed
  <1>3. /\ DOMAIN resolved_actions' \subseteq 1..(next_action_id - 1)
        /\ resolved_actions' \in [DOMAIN resolved_actions' -> Dispositions]
    BY <1>2, RecordedTyped DEF LedgerSound
  <1>. QED
    BY <1>1, <1>3

\* The ledger every event starts from.
LEMMA LiveSound ==
    ASSUME LedgerSound
    PROVE  /\ Typed(Live, next_action_id)
           /\ NoRecovery(Live)
           /\ UpdatesCurrent(Live, composer)
           /\ DOMAIN Live = DOMAIN pending_actions
           /\ \A id \in DOMAIN Live : Live[id].kind = pending_actions[id].kind
  <1>1. Typed(pending_actions, next_action_id) /\ UpdatesCurrent(pending_actions, composer)
    BY DEF LedgerSound
  <1>. QED
    BY <1>1, LiveFacts DEF UpdatesCurrent

\* The sequence stays in its type.
LEMMA SequenceBumped ==
    ASSUME RestSound, BumpInputSequence
    PROVE  input_sequence' \in 0..U64Max
  BY SessionAssumption DEF RestSound, BumpInputSequence

\* An event that only answers keeps the invariant.
LEMMA AnswerStep ==
    ASSUME IInv, BumpInputSequence, NEW outcome \in Replies, Answer(outcome)
    PROVE  IInv'
  <1>1. RestSound'
    BY SequenceBumped DEF IInv, RestSound, Answer, host
  <1>2. ViewSound'
    BY ViewUnchanged DEF IInv, Answer
  <1>3. LedgerSound'
    BY LiveSound, QuietLedger DEF IInv, LedgerSound, Answer, view
  <1>. QED
    BY <1>1, <1>2, <1>3 DEF IInv

\* What is left of the live ledger once the composition updates are superseded.
LEMMA SupersededLedger ==
    ASSUME LedgerSound, NEW ids \in SUBSET DOMAIN pending_actions, CompositionUpdates \subseteq ids
    PROVE  /\ Typed(Without(Live, ids), next_action_id)
           /\ NoRecovery(Without(Live, ids))
           /\ \A id \in DOMAIN Without(Live, ids) :
                Without(Live, ids)[id].kind # "SetCompositionText"
           /\ \A c : UpdatesCurrent(Without(Live, ids), c)
  <1>1. /\ Typed(Without(Live, ids), next_action_id)
        /\ DOMAIN Without(Live, ids) = DOMAIN pending_actions \ ids
        /\ \A id \in DOMAIN pending_actions \ ids : Without(Live, ids)[id] = Live[id]
    <2>1. Typed(Live, next_action_id) /\ DOMAIN Live = DOMAIN pending_actions
      BY LiveSound
    <2>. QED
      BY <2>1, WithoutTyped
  <1>2. NoRecovery(Without(Live, ids))
    BY <1>1, LiveSound DEF NoRecovery
  <1>3. \A id \in DOMAIN Without(Live, ids) :
          Without(Live, ids)[id].kind # "SetCompositionText"
    BY <1>1, LiveSound DEF CompositionUpdates, OfKind
  <1>. QED
    BY <1>1, <1>2, <1>3 DEF UpdatesCurrent

\* Without marked text an edit has nothing to supersede.
LEMMA EditSupersedes ==
    ASSUME LedgerSound
    PROVE  /\ SupersededByEdit \in SUBSET DOMAIN pending_actions
           /\ CompositionUpdates \subseteq SupersededByEdit
  BY DEF LedgerSound, UpdatesCurrent, SupersededByEdit, CompositionUpdates, OfKind

\* The update an edit announces is well typed and shows the edited text.
LEMMA CompositionUpdateFacts ==
    ASSUME NEW edited \in Composers, NEW revision \in Revision, MarkedText
    PROVE  LET action == CompositionUpdate(edited, revision)
           IN  /\ action \in PendingAction
               /\ action.recovery = {}
               /\ action.kind = "SetCompositionText" =>
                    /\ MarkedText
                    /\ edited.text # <<>> /\ action.text = edited.text
                    /\ action.offset = cursor_utf8_byte_offset(edited)
  <1>1. edited.text \in Text /\ edited.cursor_grapheme \in Nat /\ <<>> \in Text
    BY EmptySeq DEF Composers, Text
  <1>2. cursor_utf8_byte_offset(edited) \in Nat
    <2>1. edited.cursor_grapheme \in Int
      BY <1>1
    <2>2. cursor_utf8_byte_offset(edited) \in 0..Len(edited.text)
      BY <1>1, <2>1, OffsetInText DEF cursor_utf8_byte_offset
    <2>. QED
      BY <1>1, <2>2, EndsFinite
  <1>. QED
    BY <1>1, <1>2 DEF CompositionUpdate, PlainAction, Action, PendingAction, Kinds

\* An edit whose outcome is a sound composer keeps the invariant.
LEMMA CompositionEditStep ==
    ASSUME IInv, BumpInputSequence, NEW edited \in Composers, CursorInText(edited),
           Len(edited.text) <= MaxCompositionTextBytes, CompositionEdit(edited)
    PROVE  IInv'
  <1>. DEFINE actions == Without(Live, SupersededByEdit)
  <1>0. RestSound /\ ViewSound /\ LedgerSound /\ U64Max \in Nat /\ next_action_id \in Int
    BY SessionAssumption DEF IInv, LedgerSound, ActionId
  <1>1. /\ Typed(actions, next_action_id)
        /\ NoRecovery(actions)
        /\ \A id \in DOMAIN actions : actions[id].kind # "SetCompositionText"
        /\ \A c : UpdatesCurrent(actions, c)
    BY <1>0, EditSupersedes, SupersededLedger
  <1>2. /\ resolved_actions' = Recorded(SupersededByEdit, "Superseded")
        /\ UNCHANGED <<context, host>>
    BY DEF CompositionEdit
  <1>3. ASSUME next_action_id' = next_action_id, pending_actions' = actions
        PROVE  LedgerSound'
    <2>1. /\ DOMAIN resolved_actions' \subseteq 1..(next_action_id' - 1)
          /\ resolved_actions' \in [DOMAIN resolved_actions' -> Dispositions]
      BY <1>0, <1>2, <1>3, EditSupersedes, HistoryTyped DEF LedgerSound, Dispositions
    <2>. QED
      BY <1>0, <1>1, <1>3, <2>1, QuietLedger DEF LedgerSound
  <1>4. ASSUME reply' \in Replies, state_revision' \in Revision
        PROVE  RestSound'
    BY <1>0, <1>2, <1>4, SequenceBumped DEF RestSound, host
  <1>5. CASE MarkedText /\ Full(actions)
    <2>1. /\ UNCHANGED <<state_revision, view, next_action_id>>
          /\ pending_actions' = actions /\ reply' = "TooManyOutstandingActions"
      BY <1>5 DEF CompositionEdit
    <2>. QED
      BY <1>0, <1>3, <1>4, <2>1, ViewUnchanged DEF IInv, RestSound, Replies
  <1>6. CASE ~(MarkedText /\ Full(actions)) /\ Exhausted
    <2>1. /\ composer' = edited
          /\ UNCHANGED <<state_revision, phase, candidate_snapshot,
                         degraded_components, next_action_id>>
          /\ pending_actions' = actions /\ reply' = "CounterExhausted"
      BY <1>6 DEF CompositionEdit
    <2>2. ViewSound'
      BY <1>0, <1>6, <2>1 DEF ViewSound, SnapshotBound, CursorWithinText, CursorInText,
         CompositionWithinLimit, ViewMatchesComposition, SelectionInRange, Exhausted,
         grapheme_count, Ends
    <2>. QED
      BY <1>0, <1>3, <1>4, <2>1, <2>2 DEF IInv, RestSound, Replies
  <1>7. CASE ~(MarkedText /\ Full(actions)) /\ ~Exhausted
    <2>1. /\ composer' = edited
          /\ state_revision' = state_revision + 1
          /\ Regenerate(edited, state_revision + 1)
          /\ IF MarkedText
             THEN Allocate(actions, CompositionUpdate(edited, state_revision + 1))
             ELSE /\ pending_actions' = actions
                  /\ reply' = "Ok"
                  /\ UNCHANGED next_action_id
      BY <1>7 DEF CompositionEdit
    <2>2. state_revision + 1 \in Revision
      BY <1>0, <1>7 DEF RestSound, Revision, Exhausted
    <2>3. ViewSound'
      BY <2>1, <2>2, RegenerateSound
    <2>4. CASE ~MarkedText
      BY <1>3, <1>4, <2>1, <2>2, <2>3, <2>4 DEF IInv, Replies
    <2>5. CASE MarkedText
      <3>. DEFINE update == CompositionUpdate(edited, state_revision + 1)
      <3>1. /\ update \in PendingAction
            /\ update.recovery = {}
            /\ update.kind = "SetCompositionText" =>
                 /\ MarkedText
                 /\ edited.text # <<>> /\ update.text = edited.text
                 /\ update.offset = cursor_utf8_byte_offset(edited)
        BY <2>2, <2>5, CompositionUpdateFacts
      <3>2. next_action_id \in ActionId /\ UpdatesCurrent(actions, edited)
        BY <1>0, <1>1 DEF LedgerSound
      <3>3. Allocate(actions, update)
        BY <2>1, <2>5
      <3>. HIDE DEF actions, update
      <3>4. /\ next_action_id' \in ActionId
            /\ Typed(pending_actions', next_action_id')
            /\ next_action_id <= next_action_id'
            /\ UpdatesCurrent(pending_actions', edited)
            /\ reply' \in Replies
            /\ \A id \in DOMAIN pending_actions' : pending_actions'[id].recovery # {} =>
                 pending_actions'[id] = update
        BY <1>1, <3>1, <3>2, <3>3, AllocateFacts
      <3>5. NoRecovery(pending_actions')
        BY <3>1, <3>4 DEF NoRecovery
      <3>6. /\ DOMAIN resolved_actions' \subseteq 1..(next_action_id' - 1)
            /\ resolved_actions' \in [DOMAIN resolved_actions' -> Dispositions]
        BY <1>0, <1>2, <3>4, EditSupersedes, HistoryTyped DEF Dispositions
      <3>7. LedgerSound'
        BY <2>1, <3>4, <3>5, <3>6, QuietLedger
      <3>. QED
        BY <1>4, <2>1, <2>2, <2>3, <3>4, <3>7 DEF IInv
    <2>. QED
      BY <2>4, <2>5
  <1>. QED
    BY <1>5, <1>6, <1>7

\* A step that keeps some of the actions, without their recoveries, and issues none.
LEMMA NothingIssued ==
    ASSUME LedgerSound, NEW actions, Typed(actions, next_action_id), NoRecovery(actions),
           UpdatesCurrent(actions, composer'),
           NEW ids \in SUBSET DOMAIN pending_actions, NEW disposition \in Dispositions,
           \/ resolved_actions' = Recorded(ids, disposition)
           \/ UNCHANGED resolved_actions,
           pending_actions' = actions, UNCHANGED next_action_id
    PROVE  LedgerSound'
  <1>1. next_action_id \in ActionId /\ next_action_id \in Int
    BY SessionAssumption DEF LedgerSound, ActionId
  <1>2. next_action_id <= next_action_id' /\ next_action_id' \in ActionId
    BY <1>1
  <1>3. /\ DOMAIN resolved_actions' \subseteq 1..(next_action_id' - 1)
        /\ resolved_actions' \in [DOMAIN resolved_actions' -> Dispositions]
    <2>1. CASE resolved_actions' = Recorded(ids, disposition)
      BY <1>2, <2>1, HistoryTyped
    <2>2. CASE UNCHANGED resolved_actions
      BY <2>2 DEF LedgerSound
    <2>. QED
      BY <2>1, <2>2
  <1>. QED
    BY <1>2, <1>3, QuietLedger

\* A step that keeps some of the actions, without their recoveries, and issues one
\* that carries no text.
LEMMA PlainIssued ==
    ASSUME LedgerSound, NEW actions, Typed(actions, next_action_id), NoRecovery(actions),
           UpdatesCurrent(actions, composer'),
           NEW ids \in SUBSET DOMAIN pending_actions,
           \/ resolved_actions' = Recorded(ids, "Superseded")
           \/ UNCHANGED resolved_actions,
           NEW kind \in Kinds \ {"SetCompositionText"}, NEW revision \in Revision,
           Allocate(actions, PlainAction(kind, revision))
    PROVE  LedgerSound' /\ reply' \in Replies
  <1>. DEFINE action == PlainAction(kind, revision)
              c == composer'
  <1>1. next_action_id \in ActionId /\ next_action_id \in Int /\ <<>> \in Text
    BY SessionAssumption, EmptySeq DEF LedgerSound, ActionId, Text
  <1>2. /\ action \in PendingAction
        /\ action.recovery = {} /\ action.kind # "SetCompositionText"
    BY <1>1 DEF PlainAction, Action, PendingAction
  <1>3. UpdatesCurrent(actions, c) /\ Allocate(actions, action)
    OBVIOUS
  <1>4. c = composer'
    OBVIOUS
  <1>. HIDE DEF action, c
  <1>5. /\ next_action_id' \in ActionId
        /\ Typed(pending_actions', next_action_id')
        /\ next_action_id <= next_action_id'
        /\ UpdatesCurrent(pending_actions', c)
        /\ reply' \in Replies
        /\ \A id \in DOMAIN pending_actions' : pending_actions'[id].recovery # {} =>
             pending_actions'[id] = action
    BY <1>1, <1>2, <1>3, AllocateFacts
  <1>6. NoRecovery(pending_actions')
    BY <1>2, <1>5 DEF NoRecovery
  <1>7. /\ DOMAIN resolved_actions' \subseteq 1..(next_action_id' - 1)
        /\ resolved_actions' \in [DOMAIN resolved_actions' -> Dispositions]
    <2>1. CASE resolved_actions' = Recorded(ids, "Superseded")
      BY <1>5, <2>1, HistoryTyped DEF Dispositions
    <2>2. CASE UNCHANGED resolved_actions
      <3>1. next_action_id' \in Int
        BY <1>5, SessionAssumption DEF ActionId
      <3>2. 1..(next_action_id - 1) \subseteq 1..(next_action_id' - 1)
        BY <1>1, <1>5, <3>1
      <3>. QED
        BY <2>2, <3>2 DEF LedgerSound
    <2>. QED
      BY <2>1, <2>2
  <1>. QED
    BY <1>4, <1>5, <1>6, <1>7, QuietLedger

\* The fields of RestSound that most events leave alone.
LEMMA RestKept ==
    ASSUME RestSound, BumpInputSequence, UNCHANGED <<context, host>>,
           state_revision' \in Revision, reply' \in Replies
    PROVE  RestSound'
  BY SequenceBumped DEF RestSound, host

\* A commit keeps the invariant: the recovery it saves is the sound composer it clears.
LEMMA CommitTextStep ==
    ASSUME IInv, BumpInputSequence, phase # "Idle", NEW text \in Text, CommitText(text)
    PROVE  IInv'
  <1>. DEFINE actions  == Without(Live, CompositionUpdates)
              recovery == [composer |-> composer,
                           post_commit_revision |-> state_revision + 1,
                           context_epoch |-> context.context_epoch,
                           input_sequence |-> input_sequence + 1]
              action   == Action("CommitText", text, 0, state_revision + 1, {recovery})
  <1>0. /\ RestSound /\ ViewSound /\ LedgerSound /\ U64Max \in Nat
        /\ next_action_id \in ActionId /\ next_action_id \in Int
        /\ CompositionUpdates \in SUBSET DOMAIN pending_actions
        /\ "Superseded" \in Dispositions
    BY SessionAssumption
    DEF IInv, LedgerSound, ActionId, CompositionUpdates, OfKind, Dispositions
  <1>1. /\ Typed(actions, next_action_id)
        /\ NoRecovery(actions)
        /\ \A id \in DOMAIN actions : actions[id].kind # "SetCompositionText"
        /\ \A c : UpdatesCurrent(actions, c)
    BY <1>0, SupersededLedger
  <1>2. /\ resolved_actions' = Recorded(CompositionUpdates, "Superseded")
        /\ UNCHANGED <<context, host>>
    BY DEF CommitText
  <1>3. CASE Full(actions)
    <2>1. /\ UNCHANGED <<state_revision, view, next_action_id>>
          /\ pending_actions' = actions /\ reply' = "TooManyOutstandingActions"
      BY <1>3 DEF CommitText
    <2>2. LedgerSound'
      BY <1>0, <1>1, <1>2, <2>1, NothingIssued
    <2>. QED
      BY <1>0, <1>2, <2>1, <2>2, RestKept, ViewUnchanged DEF IInv, RestSound, Replies
  <1>4. CASE ~Full(actions) /\ Exhausted
    <2>1. /\ ClearComposition(state_revision)
          /\ UNCHANGED <<state_revision, next_action_id>>
          /\ pending_actions' = actions /\ reply' = "CounterExhausted"
      BY <1>4 DEF CommitText
    <2>2. LedgerSound'
      BY <1>0, <1>1, <1>2, <2>1, NothingIssued
    <2>. QED
      BY <1>0, <1>2, <2>1, <2>2, RestKept, ClearSound DEF IInv, RestSound, Replies
  <1>5. CASE ~Full(actions) /\ ~Exhausted
    <2>1. /\ ClearComposition(state_revision + 1)
          /\ state_revision' = state_revision + 1
          /\ Allocate(actions, action)
      BY <1>5 DEF CommitText
    <2>2. /\ state_revision + 1 \in Revision
          /\ input_sequence' = input_sequence + 1 /\ input_sequence' \in 0..U64Max
          /\ context.context_epoch \in Nat
      <3>1. state_revision + 1 \in Revision
        BY <1>0, <1>5 DEF RestSound, Revision, Exhausted
      <3>. QED
        BY <1>0, <3>1, SequenceBumped DEF BumpInputSequence, RestSound, Context
    <2>3. /\ ViewSound' /\ composer' = EmptyComposer /\ phase' = "Idle"
      BY <2>1, <2>2, ClearSound
    <2>4. /\ composer \in Composers /\ composer.text # <<>>
          /\ CursorInText(composer) /\ Len(composer.text) <= MaxCompositionTextBytes
      BY <1>0, <1>5 DEF ViewSound, ViewMatchesComposition, CursorWithinText,
         CompositionWithinLimit
    <2>5. recovery \in CommitRecovery
      BY <2>2, <2>4 DEF CommitRecovery
    <2>6. action \in PendingAction /\ action.kind = "CommitText" /\ action.recovery = {recovery}
      BY <2>2, <2>5 DEF Action, PendingAction, Kinds
    <2>. DEFINE c == composer'
    <2>7. UpdatesCurrent(actions, c) /\ c = composer'
      BY <1>1
    <2>. HIDE DEF actions, action, c
    <2>8. /\ next_action_id' \in ActionId
          /\ Typed(pending_actions', next_action_id')
          /\ next_action_id <= next_action_id'
          /\ UpdatesCurrent(pending_actions', c)
          /\ reply' \in Replies
          /\ \A id \in DOMAIN pending_actions' : pending_actions'[id].recovery # {} =>
               /\ id = next_action_id' - 1
               /\ pending_actions'[id] = action
      BY <1>0, <1>1, <2>1, <2>6, <2>7, AllocateFacts
    <2>9. \A id \in DOMAIN pending_actions' : \A r \in pending_actions'[id].recovery :
            id = next_action_id' - 1 /\ pending_actions'[id].kind = "CommitText" /\ r = recovery
      BY <2>6, <2>8
    <2>10. RecoveryFresh'
      BY <1>2, <2>1, <2>2, <2>3, <2>4, <2>9 DEF RecoveryFresh
    <2>11. RecoverySound'
      <3>1. /\ CursorInText(recovery.composer)
            /\ Len(recovery.composer.text) <= MaxCompositionTextBytes
        BY <2>4
      <3>. HIDE DEF recovery
      <3>. QED
        BY <2>9, <3>1 DEF RecoverySound
    <2>12. /\ DOMAIN resolved_actions' \subseteq 1..(next_action_id' - 1)
           /\ resolved_actions' \in [DOMAIN resolved_actions' -> Dispositions]
      BY <1>0, <1>2, <2>8, HistoryTyped
    <2>13. LedgerSound'
      BY <2>7, <2>8, <2>10, <2>11, <2>12 DEF LedgerSound
    <2>. QED
      BY <1>0, <1>2, <2>1, <2>2, <2>3, <2>8, <2>13, RestKept DEF IInv
  <1>. QED
    BY <1>3, <1>4, <1>5

-----------------------------------------------------------------------------
(* Handlers.                                                               *)

\* What the handlers need to know of the composer.
LEMMA ComposerSound ==
    ASSUME IInv
    PROVE  /\ composer \in Composers /\ CursorInText(composer)
           /\ composer.text \in Text /\ Len(composer.text) \in Nat
           /\ Len(composer.text) <= MaxCompositionTextBytes
  <1>1. composer \in Composers /\ CursorInText(composer)
        /\ Len(composer.text) <= MaxCompositionTextBytes
    BY DEF IInv, ViewSound, CursorWithinText, CompositionWithinLimit
  <1>2. composer.text \in Text
    BY <1>1 DEF Composers
  <1>. QED
    BY <1>1, <1>2, EndsFinite

\* insert_text: what it inserts has been checked against both limits.
LEMMA InsertTextStep ==
    ASSUME IInv, BumpInputSequence, NEW text \in Text, insert_text(text)
    PROVE  IInv'
  <1>. DEFINE edited == Inserted(composer, text)
  <1>1. CASE text = <<>> \/ Len(text) > MaxEventTextBytes \/ CompositionTooLong(text)
    <2>1. \E outcome \in {"NoOp", "EventTextTooLong", "CompositionTooLong"} : Answer(outcome)
      BY <1>1 DEF insert_text
    <2>. QED
      BY <2>1, AnswerStep DEF Replies
  <1>2. CASE ~(text = <<>> \/ Len(text) > MaxEventTextBytes \/ CompositionTooLong(text))
    <2>1. CompositionEdit(edited)
      BY <1>2 DEF insert_text
    <2>2. /\ edited \in Composers /\ CursorInText(edited)
          /\ Len(edited.text) = Len(composer.text) + Len(text)
      BY ComposerSound, InsertedSound
    <2>3. Len(edited.text) <= MaxCompositionTextBytes
      <3>1. Len(composer.text) \in Nat /\ Len(text) \in Nat /\ MaxCompositionTextBytes \in Nat
        BY ComposerSound, EndsFinite, SessionAssumption
      <3>. QED
        BY <1>2, <2>2, <3>1 DEF CompositionTooLong
    <2>. HIDE DEF edited
    <2>. QED
      BY <2>1, <2>2, <2>3, CompositionEditStep
  <1>. QED
    BY <1>1, <1>2

\* backspace, at the end of the text, within it, or with nothing before the cursor.
LEMMA BackspaceStep ==
    ASSUME IInv, BumpInputSequence, NEW count, backspace(count)
    PROVE  IInv'
  <1>1. CASE phase = "Idle"
    <2>1. /\ UNCHANGED <<state_revision, view, context, resolved_actions, host>>
          /\ \/ /\ pending_actions' = Live /\ UNCHANGED next_action_id
                /\ reply' = "TooManyOutstandingActions"
             \/ Allocate(Live, PlainAction("DeleteBackward", state_revision))
      BY <1>1 DEF backspace
    <2>2. RestSound /\ ViewSound /\ LedgerSound /\ state_revision \in Revision
      BY DEF IInv, RestSound
    <2>3. /\ Typed(Live, next_action_id) /\ NoRecovery(Live)
          /\ UpdatesCurrent(Live, composer')
          /\ "DeleteBackward" \in Kinds \ {"SetCompositionText"}
          /\ {} \in SUBSET DOMAIN pending_actions /\ "Failed" \in Dispositions
      BY <2>1, <2>2, LiveSound DEF view, Kinds, Dispositions
    <2>4. LedgerSound' /\ reply' \in Replies
      <3>1. CASE pending_actions' = Live /\ UNCHANGED next_action_id
                   /\ reply' = "TooManyOutstandingActions"
        BY <2>1, <2>2, <2>3, <3>1, NothingIssued DEF Replies
      <3>2. CASE Allocate(Live, PlainAction("DeleteBackward", state_revision))
        BY <2>1, <2>2, <2>3, <3>2, PlainIssued
      <3>. QED
        BY <2>1, <3>1, <3>2
    <2>5. RestSound'
      BY <2>1, <2>2, <2>4, RestKept
    <2>. QED
      BY <2>1, <2>2, <2>4, <2>5, ViewUnchanged DEF IInv
  <1>2. CASE phase # "Idle" /\ composer.cursor_grapheme = 0
    BY <1>2, AnswerStep DEF backspace, Replies
  <1>3. CASE phase # "Idle" /\ composer.cursor_grapheme # 0
    <2>. DEFINE once   == Backspaced(composer)
                twice  == Backspaced(once)
                edited == BackspacedTimes(composer, count)
    <2>1. /\ once \in Composers /\ CursorInText(once)
          /\ Len(once.text) <= Len(composer.text)
      BY ComposerSound, BackspacedSound
    <2>2. /\ twice \in Composers /\ CursorInText(twice)
          /\ Len(twice.text) <= Len(once.text)
      BY <2>1, BackspacedSound
    <2>3. edited = once \/ edited = twice
      BY DEF BackspacedTimes
    <2>4. CompositionEdit(edited)
      BY <1>3 DEF backspace
    <2>. HIDE DEF once, twice, edited
    <2>5. /\ Len(once.text) \in Nat /\ Len(twice.text) \in Nat
          /\ Len(composer.text) \in Nat /\ MaxCompositionTextBytes \in Nat
          /\ Len(composer.text) <= MaxCompositionTextBytes
      BY <2>1, <2>2, ComposerSound, EndsFinite, SessionAssumption DEF Composers
    <2>6. /\ edited \in Composers /\ CursorInText(edited)
          /\ Len(edited.text) <= MaxCompositionTextBytes
      BY <2>1, <2>2, <2>3, <2>5
    <2>. QED
      BY <2>4, <2>6, CompositionEditStep
  <1>. QED
    BY <1>1, <1>2, <1>3

\* delete_forward, with and without a cluster after the cursor.
LEMMA DeleteForwardStep ==
    ASSUME IInv, BumpInputSequence, NEW count, delete_forward(count)
    PROVE  IInv'
  <1>1. CASE phase = "Idle" \/ AtEnd(composer)
    BY <1>1, AnswerStep DEF delete_forward, Replies
  <1>2. CASE ~(phase = "Idle" \/ AtEnd(composer))
    <2>. DEFINE once   == DeletedForward(composer)
                twice  == DeletedForward(once)
                edited == DeletedForwardTimes(composer, count)
    <2>1. /\ once \in Composers /\ CursorInText(once)
          /\ Len(once.text) <= Len(composer.text)
      BY ComposerSound, DeletedForwardSound
    <2>2. /\ twice \in Composers /\ CursorInText(twice)
          /\ Len(twice.text) <= Len(once.text)
      BY <2>1, DeletedForwardSound
    <2>3. edited = once \/ edited = twice
      BY DEF DeletedForwardTimes
    <2>4. CompositionEdit(edited)
      BY <1>2 DEF delete_forward
    <2>. HIDE DEF once, twice, edited
    <2>5. /\ Len(once.text) \in Nat /\ Len(twice.text) \in Nat
          /\ Len(composer.text) \in Nat /\ MaxCompositionTextBytes \in Nat
          /\ Len(composer.text) <= MaxCompositionTextBytes
      BY <2>1, <2>2, ComposerSound, EndsFinite, SessionAssumption DEF Composers
    <2>6. /\ edited \in Composers /\ CursorInText(edited)
          /\ Len(edited.text) <= MaxCompositionTextBytes
      BY <2>1, <2>2, <2>3, <2>5
    <2>. QED
      BY <2>4, <2>6, CompositionEditStep
  <1>. QED
    BY <1>1, <1>2

\* move_composition_cursor: the text stays, so does its soundness.
LEMMA MoveCursorStep ==
    ASSUME IInv, BumpInputSequence, NEW delta \in Int, move_composition_cursor(delta)
    PROVE  IInv'
  <1>. DEFINE edited == Moved(composer, delta)
  <1>1. CASE phase = "Idle" \/ edited = composer
    BY <1>1, AnswerStep DEF move_composition_cursor, Replies
  <1>2. CASE ~(phase = "Idle" \/ edited = composer)
    <2>1. CompositionEdit(edited)
      BY <1>2 DEF move_composition_cursor
    <2>2. /\ edited \in Composers /\ CursorInText(edited)
          /\ Len(edited.text) <= MaxCompositionTextBytes
      BY ComposerSound, MovedSound
    <2>. HIDE DEF edited
    <2>. QED
      BY <2>1, <2>2, CompositionEditStep
  <1>. QED
    BY <1>1, <1>2

\* commit of the composition itself.
LEMMA CommitStep ==
    ASSUME IInv, BumpInputSequence, commit
    PROVE  IInv'
  BY ComposerSound, AnswerStep, CommitTextStep DEF commit, Replies

\* cancel, whether or not it has a CancelComposition to issue.
LEMMA CancelStep ==
    ASSUME IInv, BumpInputSequence, cancel
    PROVE  IInv'
  <1>. DEFINE actions == Without(Live, CompositionUpdates)
  <1>0. /\ RestSound /\ ViewSound /\ LedgerSound /\ U64Max \in Nat
        /\ state_revision \in Revision
        /\ CompositionUpdates \in SUBSET DOMAIN pending_actions
        /\ "Superseded" \in Dispositions
        /\ "CancelComposition" \in Kinds \ {"SetCompositionText"}
    BY SessionAssumption
    DEF IInv, RestSound, CompositionUpdates, OfKind, Dispositions, Kinds
  <1>1. /\ Typed(actions, next_action_id)
        /\ NoRecovery(actions)
        /\ \A c : UpdatesCurrent(actions, c)
    BY <1>0, SupersededLedger
  <1>2. CASE phase = "Idle"
    BY <1>2, AnswerStep DEF cancel, Replies
  <1>3. CASE phase # "Idle" /\ HostMayHaveComposition /\ Full(actions)
    <2>1. /\ resolved_actions' = Recorded(CompositionUpdates, "Superseded")
          /\ UNCHANGED <<context, host>>
          /\ UNCHANGED <<state_revision, view, next_action_id>>
          /\ pending_actions' = actions /\ reply' = "TooManyOutstandingActions"
      BY <1>3 DEF cancel
    <2>2. LedgerSound'
      BY <1>0, <1>1, <2>1, NothingIssued
    <2>. QED
      BY <1>0, <2>1, <2>2, RestKept, ViewUnchanged DEF IInv, Replies
  <1>4. CASE phase # "Idle" /\ ~(HostMayHaveComposition /\ Full(actions)) /\ Exhausted
    <2>1. /\ resolved_actions' = Recorded(CompositionUpdates, "Superseded")
          /\ UNCHANGED <<context, host>>
          /\ ClearComposition(state_revision)
          /\ UNCHANGED <<state_revision, next_action_id>>
          /\ pending_actions' = actions /\ reply' = "CounterExhausted"
      BY <1>4 DEF cancel
    <2>2. LedgerSound'
      BY <1>0, <1>1, <2>1, NothingIssued
    <2>. QED
      BY <1>0, <2>1, <2>2, RestKept, ClearSound DEF IInv, Replies
  <1>5. CASE phase # "Idle" /\ ~(HostMayHaveComposition /\ Full(actions)) /\ ~Exhausted
    <2>. DEFINE issues == MarkedText /\ HostMayHaveComposition
    <2>1. /\ resolved_actions' = Recorded(CompositionUpdates, "Superseded")
          /\ UNCHANGED <<context, host>>
          /\ ClearComposition(state_revision + 1)
          /\ state_revision' = state_revision + 1
          /\ IF issues
             THEN Allocate(actions, PlainAction("CancelComposition", state_revision + 1))
             ELSE pending_actions' = actions /\ reply' = "Ok" /\ UNCHANGED next_action_id
      BY <1>5 DEF cancel
    <2>2. state_revision + 1 \in Revision
      BY <1>0, <1>5 DEF Revision, Exhausted
    <2>3. LedgerSound' /\ reply' \in Replies
      <3>1. CASE ~issues
        BY <1>0, <1>1, <2>1, <3>1, NothingIssued DEF Replies
      <3>2. CASE issues
        BY <1>0, <1>1, <2>1, <2>2, <3>2, PlainIssued
      <3>. QED
        BY <3>1, <3>2
    <2>. QED
      BY <1>0, <2>1, <2>2, <2>3, RestKept, ClearSound DEF IInv
  <1>. QED
    BY <1>2, <1>3, <1>4, <1>5

\* A repeated character is a text.
LEMMA RepeatedText ==
    ASSUME NEW text \in Text, NEW times \in Nat
    PROVE  Repeated(text, times) \in Text
  <1>. DEFINE length == times * Len(text)
  <1>1. Len(text) \in Nat /\ length \in Nat
    <2>1. Len(text) \in Nat
      BY EndsFinite
    <2>. QED
      BY <2>1
  <1>2. Len(text) = 0 => length = 0
    BY <1>1
  <1>3. \A i \in 1..length : text[((i - 1) % Len(text)) + 1] \in Byte
    <2>1. SUFFICES ASSUME NEW i \in 1..length
                   PROVE  text[((i - 1) % Len(text)) + 1] \in Byte
      OBVIOUS
    <2>2. Len(text) # 0 /\ i - 1 \in Nat
      BY <1>1, <1>2
    <2>3. (i - 1) % Len(text) \in 0..(Len(text) - 1)
      BY <1>1, <2>2
    <2>4. ((i - 1) % Len(text)) + 1 \in 1..Len(text)
      BY <1>1, <2>3
    <2>. QED
      BY <2>4, ElementOfSeq DEF Text
  <1>4. Repeated(text, times) \in [1..length -> Byte]
    BY <1>3 DEF Repeated
  <1>. QED
    BY <1>1, <1>4 DEF Text

\* A hardware key is one of the logical inputs, or passes through.
LEMMA HardwareKeyStep ==
    ASSUME IInv, NEW event \in HardwareKeys, HardwareKey(event)
    PROVE  IInv'
  <1>. DEFINE logical == IF HardwareKeySupport THEN Normalized(event, phase # "Idle")
                         ELSE PassThrough
              input   == logical.input
  <1>1. event \in HardwareKeyEvents(InsertTexts \ {<<>>}) /\ InsertTexts \subseteq Text
    BY SessionAssumption
  <1>2. Times(event) \in Nat
    BY <1>1 DEF Times, HardwareKeyEvents, MaxRepeat
  <1>3. ASSUME input = "InsertText"
        PROVE  logical.text \in Text
    <2>1. "character" \in DOMAIN event.key
      BY <1>1, <1>3 DEF Normalized, PassThrough, HardwareKeyEvents, EditingKeys
    <2>2. event.key.character \in Text
      BY <1>1, <2>1 DEF HardwareKeyEvents
    <2>3. logical = [input |-> "InsertText",
                     text |-> Repeated(event.key.character, Times(event))]
      BY <1>3, <2>1 DEF Normalized, PassThrough
    <2>. QED
      BY <1>2, <2>2, <2>3, RepeatedText
  <1>4. ASSUME input = "MoveCompositionCursor"
        PROVE  logical.delta \in Int
    <2>1. \/ logical = [input |-> "MoveCompositionCursor", delta |-> -Times(event)]
          \/ logical = [input |-> "MoveCompositionCursor", delta |-> Times(event)]
      BY <1>1, <1>4 DEF Normalized, PassThrough, HardwareKeyEvents, EditingKeys
    <2>. QED
      BY <1>2, <2>1
  <1>5. /\ BumpInputSequence
        /\ \/ input = "PassThrough" /\ Answer("PassThrough")
           \/ input = "InsertText" /\ insert_text(logical.text)
           \/ input = "Backspace" /\ backspace(logical.count)
           \/ input = "DeleteForward" /\ delete_forward(logical.count)
           \/ input = "MoveCompositionCursor" /\ move_composition_cursor(logical.delta)
           \/ input = "Commit" /\ commit
           \/ input = "Cancel" /\ cancel
    BY DEF HardwareKey
  <1>6. "PassThrough" \in Replies
    BY DEF Replies
  <1>. HIDE DEF logical, input
  <1>. QED
    BY <1>3, <1>4, <1>5, <1>6, AnswerStep, InsertTextStep, BackspaceStep, DeleteForwardStep,
       MoveCursorStep, CommitStep, CancelStep

\* select_candidate: a commit of the candidate's text, or an error.
LEMMA SelectCandidateStep ==
    ASSUME IInv, NEW id, NEW revision, SelectCandidate(id, revision)
    PROVE  IInv'
  <1>1. BumpInputSequence
    BY DEF SelectCandidate
  <1>2. CASE \E outcome \in Replies : Answer(outcome)
    BY <1>1, <1>2, AnswerStep
  <1>3. CASE /\ phase = "CandidateSelecting"
             /\ id \in DOMAIN candidate_snapshot.entries
             /\ CommitText(candidate_snapshot.entries[id])
    <2>1. candidate_snapshot.entries \in Seq(Text)
      BY DEF IInv, ViewSound, CandidateSnapshot
    <2>2. candidate_snapshot.entries[id] \in Text
      BY <1>3, <2>1
    <2>. QED
      BY <1>1, <1>3, <2>2, CommitTextStep
  <1>. QED
    BY <1>2, <1>3 DEF SelectCandidate, Replies

\* move_candidate_selection: the moved index is clamped to the entries.
LEMMA MoveCandidateSelectionStep ==
    ASSUME IInv, NEW delta \in Int, MoveCandidateSelection(delta)
    PROVE  IInv'
  <1>. DEFINE index == MovedSelection(candidate_snapshot, delta)
              moved == [candidate_snapshot EXCEPT !.selected_index = index]
  <1>0. /\ RestSound /\ ViewSound /\ LedgerSound /\ U64Max \in Nat
        /\ state_revision \in Revision /\ BumpInputSequence
        /\ candidate_snapshot \in CandidateSnapshot
    BY SessionAssumption DEF IInv, RestSound, ViewSound, MoveCandidateSelection
  <1>1. CASE phase # "CandidateSelecting" \/ index = candidate_snapshot.selected_index
    BY <1>0, <1>1, AnswerStep DEF MoveCandidateSelection, Replies
  <1>2. CASE ~(phase # "CandidateSelecting" \/ index = candidate_snapshot.selected_index)
    <2>1. /\ pending_actions' = Live
          /\ \/ /\ Exhausted /\ candidate_snapshot' = moved
                /\ reply' = "CounterExhausted" /\ UNCHANGED state_revision
             \/ /\ ~Exhausted /\ candidate_snapshot' = Rebound(moved, state_revision + 1)
                /\ reply' = "Ok" /\ state_revision' = state_revision + 1
          /\ UNCHANGED <<phase, composer, degraded_components, context,
                         next_action_id, resolved_actions, host>>
      BY <1>2 DEF MoveCandidateSelection
    <2>2. state_revision' \in Revision /\ reply' \in Replies
      BY <1>0, <2>1 DEF Exhausted, Revision, Replies
    <2>3. RestSound'
      BY <1>0, <2>1, <2>2, RestKept
    <2>4. LedgerSound'
      <3>1. /\ Typed(Live, next_action_id) /\ NoRecovery(Live)
            /\ UpdatesCurrent(Live, composer')
            /\ {} \in SUBSET DOMAIN pending_actions /\ "Failed" \in Dispositions
        BY <1>0, <2>1, LiveSound DEF Dispositions
      <3>. QED
        BY <1>0, <2>1, <3>1, NothingIssued
    <2>5. /\ index \in 1..Len(candidate_snapshot.entries)
          /\ candidate_snapshot.entries # <<>>
          /\ DOMAIN candidate_snapshot.entries = 1..Len(candidate_snapshot.entries)
      <3>1. /\ candidate_snapshot.selected_index \in Nat
            /\ Len(candidate_snapshot.entries) \in Nat
            /\ DOMAIN candidate_snapshot.entries = 1..Len(candidate_snapshot.entries)
        BY <1>0 DEF CandidateSnapshot
      <3>2. candidate_snapshot.selected_index # 0
        BY <1>2 DEF MovedSelection
      <3>3. /\ candidate_snapshot.entries # <<>>
            /\ candidate_snapshot.selected_index \in 1..Len(candidate_snapshot.entries)
        BY <1>0, <3>1, <3>2 DEF ViewSound, SelectionInRange
      <3>. QED
        BY <3>1, <3>2, <3>3 DEF MovedSelection
    <2>. HIDE DEF index
    <2>6. /\ candidate_snapshot' \in CandidateSnapshot
          /\ candidate_snapshot'.entries = candidate_snapshot.entries
          /\ candidate_snapshot'.selected_index = index
          /\ candidate_snapshot'.revision = state_revision'
      <3>1. index \in Nat
        BY <2>5
      <3>. QED
        BY <1>0, <2>1, <2>2, <3>1 DEF CandidateSnapshot, Rebound, ViewSound, SnapshotBound
    <2>7. ViewMatchesComposition'
      BY <1>0, <2>1, <2>6 DEF ViewSound, ViewMatchesComposition, Exhausted
    <2>8. ViewSound'
      BY <1>0, <2>1, <2>5, <2>6, <2>7 DEF ViewSound, SnapshotBound, CursorWithinText,
         CompositionWithinLimit, SelectionInRange
    <2>. QED
      BY <2>3, <2>4, <2>8 DEF IInv
  <1>. QED
    BY <1>1, <1>2

\* A context stays one when texts are dropped from it.
LEMMA SanitizedContext ==
    ASSUME NEW raw \in Context
    PROVE  Sanitized(raw) \in Context
  BY DEF Sanitized, Context

\* process_context_changed: the recoveries are gone before the context moves.
LEMMA ContextChangedStep ==
    ASSUME IInv, NEW raw \in Contexts, ContextChanged(raw)
    PROVE  IInv'
  <1>. DEFINE sanitized == Sanitized(raw)
  <1>0. /\ RestSound /\ ViewSound /\ LedgerSound /\ U64Max \in Nat
        /\ state_revision \in Revision /\ BumpInputSequence
    BY SessionAssumption DEF IInv, RestSound, ContextChanged
  <1>1. CASE ~WithinLimit(sanitized) \/ sanitized = context
    BY <1>0, <1>1, AnswerStep DEF ContextChanged, Replies
  <1>2. CASE ~(~WithinLimit(sanitized) \/ sanitized = context)
    <2>1. /\ context' = sanitized /\ reconciliation_required' = FALSE
          /\ pending_actions' = Live
          /\ \/ /\ Exhausted /\ reply' = "CounterExhausted"
                /\ UNCHANGED <<state_revision, candidate_snapshot>>
             \/ /\ ~Exhausted /\ state_revision' = state_revision + 1
                /\ candidate_snapshot' = Rebound(candidate_snapshot, state_revision + 1)
                /\ reply' = "Ok"
          /\ UNCHANGED <<phase, composer, degraded_components, next_action_id,
                         resolved_actions, platform_composition_active>>
      BY <1>2 DEF ContextChanged
    <2>2. state_revision' \in Revision /\ reply' \in Replies
      BY <1>0, <2>1 DEF Exhausted, Revision, Replies
    <2>3. RestSound'
      <3>1. sanitized \in Context
        BY SanitizedContext, SessionAssumption
      <3>. QED
        BY <1>0, <2>1, <2>2, <3>1, SequenceBumped DEF RestSound
    <2>4. LedgerSound'
      <3>1. /\ Typed(Live, next_action_id) /\ NoRecovery(Live)
            /\ UpdatesCurrent(Live, composer')
            /\ {} \in SUBSET DOMAIN pending_actions /\ "Failed" \in Dispositions
        BY <1>0, <2>1, LiveSound DEF Dispositions
      <3>. QED
        BY <1>0, <2>1, <3>1, NothingIssued
    <2>5. /\ candidate_snapshot' \in CandidateSnapshot
          /\ candidate_snapshot'.entries = candidate_snapshot.entries
          /\ candidate_snapshot'.selected_index = candidate_snapshot.selected_index
          /\ candidate_snapshot'.revision = state_revision'
      BY <1>0, <2>1, <2>2 DEF CandidateSnapshot, Rebound, ViewSound, SnapshotBound
    <2>6. ViewSound'
      BY <1>0, <2>1, <2>5 DEF ViewSound, SnapshotBound, CursorWithinText,
         CompositionWithinLimit, SelectionInRange, ViewMatchesComposition, Exhausted
    <2>. QED
      BY <2>3, <2>4, <2>6 DEF IInv
  <1>. QED
    BY <1>1, <1>2

\* The empty ledger suits every composer.
LEMMA EmptyLedger ==
    ASSUME NEW next, NEW c
    PROVE  Typed(<<>>, next) /\ NoRecovery(<<>>) /\ UpdatesCurrent(<<>>, c)
  <1>1. DOMAIN <<>> = {} /\ <<>> \in [{} -> PendingAction]
    OBVIOUS
  <1>. QED
    BY <1>1 DEF Typed, NoRecovery, UpdatesCurrent

\* process_reset, its three outcomes.
LEMMA ResetStep ==
    ASSUME IInv, Reset
    PROVE  IInv'
  <1>. DEFINE revision == IF ResetChanges /\ ~Exhausted THEN state_revision + 1
                          ELSE state_revision
  <1>1. /\ RestSound /\ LedgerSound /\ U64Max \in Nat
        /\ DOMAIN pending_actions \in SUBSET DOMAIN pending_actions
        /\ "Superseded" \in Dispositions
        /\ "RequestPlatformReset" \in Kinds \ {"SetCompositionText"}
    BY SessionAssumption DEF IInv, Dispositions, Kinds
  <1>2. /\ BumpInputSequence
        /\ ClearComposition(revision)
        /\ state_revision' = revision
        /\ context' = DefaultContext
        /\ reconciliation_required' = FALSE
        /\ resolved_actions' = Recorded(DOMAIN pending_actions, "Superseded")
        /\ \/ Allocate(<<>>, PlainAction("RequestPlatformReset", revision))
           \/ /\ pending_actions' = <<>> /\ UNCHANGED next_action_id
              /\ reply' \in {"CounterExhausted", "Ok", "NoOp"}
        /\ UNCHANGED platform_composition_active
    BY DEF Reset
  <1>3. revision \in Revision
    BY <1>1 DEF RestSound, Revision, Exhausted
  <1>. HIDE DEF revision
  <1>4. ViewSound'
    BY <1>2, <1>3, ClearSound
  <1>5. LedgerSound' /\ reply' \in Replies
    <2>1. /\ Typed(<<>>, next_action_id) /\ NoRecovery(<<>>)
          /\ UpdatesCurrent(<<>>, composer')
      BY EmptyLedger
    <2>2. CASE Allocate(<<>>, PlainAction("RequestPlatformReset", revision))
      BY <1>1, <1>2, <1>3, <2>1, <2>2, PlainIssued
    <2>3. CASE /\ pending_actions' = <<>> /\ UNCHANGED next_action_id
               /\ reply' \in {"CounterExhausted", "Ok", "NoOp"}
      <3>1. LedgerSound'
        BY <1>1, <1>2, <2>1, <2>3, NothingIssued
      <3>. QED
        BY <2>3, <3>1 DEF Replies
    <2>. QED
      BY <1>2, <2>2, <2>3
  <1>6. RestSound'
    <2>1. DefaultContext \in Context
      BY DEF DefaultContext, Context, Scopes, Origins
    <2>. QED
      BY <1>1, <1>2, <1>3, <1>5, <2>1, SequenceBumped DEF RestSound
  <1>. QED
    BY <1>4, <1>5, <1>6 DEF IInv

\* A step that changes nothing but the answer.
LEMMA NothingChangedStep ==
    ASSUME IInv, reply' \in Replies,
           UNCHANGED <<state_revision, view, context, input_sequence, ledger, host>>
    PROVE  IInv'
  <1>1. ViewSound'
    BY ViewUnchanged DEF IInv
  <1>2. RestSound'
    BY DEF IInv, RestSound, host
  <1>3. LedgerSound'
    BY DEF IInv, LedgerSound, ledger, view, RecoveryFresh, RecoverySound
  <1>. QED
    BY <1>1, <1>2, <1>3 DEF IInv

-----------------------------------------------------------------------------
(* Acknowledgements.                                                       *)

\* What is left of the ledger when an action is settled by the host.
LEMMA SettledLedger ==
    ASSUME LedgerSound, NEW id \in DOMAIN pending_actions,
           NEW disposition \in Dispositions,
           pending_actions' = Without(pending_actions, {id}), UNCHANGED next_action_id,
           resolved_actions' = Recorded({id}, disposition) \/ UNCHANGED resolved_actions
    PROVE  /\ next_action_id' \in ActionId
           /\ Typed(pending_actions', next_action_id')
           /\ DOMAIN pending_actions' = DOMAIN pending_actions \ {id}
           /\ \A i \in DOMAIN pending_actions' : pending_actions'[i] = pending_actions[i]
           /\ DOMAIN resolved_actions' \subseteq 1..(next_action_id' - 1)
           /\ resolved_actions' \in [DOMAIN resolved_actions' -> Dispositions]
  <1>1. /\ next_action_id \in ActionId /\ next_action_id \in Int
        /\ Typed(pending_actions, next_action_id)
    BY SessionAssumption DEF LedgerSound, ActionId
  <1>2. next_action_id' \in ActionId /\ next_action_id <= next_action_id'
    BY <1>1
  <1>3. /\ Typed(pending_actions', next_action_id')
        /\ DOMAIN pending_actions' = DOMAIN pending_actions \ {id}
        /\ \A i \in DOMAIN pending_actions \ {id} : pending_actions'[i] = pending_actions[i]
    BY <1>1, WithoutTyped
  <1>4. CASE resolved_actions' = Recorded({id}, disposition)
    <2>1. {id} \in SUBSET DOMAIN pending_actions
      OBVIOUS
    <2>. QED
      BY <1>2, <1>3, <1>4, <2>1, HistoryTyped
  <1>5. CASE UNCHANGED resolved_actions
    BY <1>2, <1>3, <1>5 DEF LedgerSound
  <1>. QED
    BY <1>4, <1>5

\* A refused commit comes back: the recovery was of the last action issued, so none is
\* left, and nothing outstanding shows another text, since the composer was empty.
LEMMA RestoreCommitStep ==
    ASSUME IInv, NEW id \in DOMAIN pending_actions,
           NEW recovery \in pending_actions[id].recovery, NEW disposition \in Dispositions,
           RestoreCommit(id, recovery, disposition)
    PROVE  IInv'
  <1>0. RestSound /\ ViewSound /\ LedgerSound
    BY DEF IInv
  <1>1. /\ pending_actions' = Without(pending_actions, {id})
        /\ \/ /\ reply' = "CounterExhausted"
              /\ UNCHANGED <<state_revision, view, resolved_actions>>
           \/ /\ ~Exhausted
              /\ state_revision' = state_revision + 1
              /\ composer' = recovery.composer
              /\ Regenerate(recovery.composer, state_revision + 1)
              /\ resolved_actions' = Recorded({id}, disposition)
              /\ reply' = "Recorded"
        /\ UNCHANGED <<context, input_sequence, next_action_id, host>>
    BY DEF RestoreCommit
  <1>2. /\ next_action_id' \in ActionId
        /\ Typed(pending_actions', next_action_id')
        /\ DOMAIN pending_actions' = DOMAIN pending_actions \ {id}
        /\ \A i \in DOMAIN pending_actions' : pending_actions'[i] = pending_actions[i]
        /\ DOMAIN resolved_actions' \subseteq 1..(next_action_id' - 1)
        /\ resolved_actions' \in [DOMAIN resolved_actions' -> Dispositions]
    BY <1>0, <1>1, SettledLedger
  <1>3. /\ recovery.composer \in Composers
        /\ CursorInText(recovery.composer)
        /\ Len(recovery.composer.text) <= MaxCompositionTextBytes
    <2>1. pending_actions[id] \in PendingAction
      BY <1>0 DEF LedgerSound, Typed
    <2>2. recovery \in CommitRecovery
      BY <2>1 DEF PendingAction
    <2>. QED
      BY <1>0, <2>2 DEF CommitRecovery, LedgerSound, RecoverySound
  <1>4. NoRecovery(pending_actions')
    <2>1. \A i \in DOMAIN pending_actions : pending_actions[i].recovery # {} => i = id
      BY <1>0 DEF LedgerSound, RecoveryFresh
    <2>. QED
      BY <1>2, <2>1 DEF NoRecovery
  <1>5. UpdatesCurrent(pending_actions', composer')
    <2>1. composer.text = <<>>
      BY <1>0 DEF LedgerSound, RecoveryFresh, EmptyComposer
    <2>. QED
      BY <1>0, <1>2, <2>1 DEF LedgerSound, UpdatesCurrent
  <1>6. LedgerSound'
    BY <1>2, <1>4, <1>5, QuietLedger
  <1>7. CASE UNCHANGED <<state_revision, view, resolved_actions>> /\ reply' = "CounterExhausted"
    BY <1>0, <1>1, <1>6, <1>7, ViewUnchanged DEF IInv, RestSound, host, Replies
  <1>8. CASE /\ ~Exhausted
             /\ state_revision' = state_revision + 1
             /\ composer' = recovery.composer
             /\ Regenerate(recovery.composer, state_revision + 1)
             /\ reply' = "Recorded"
    <2>1. state_revision + 1 \in Revision
      BY <1>0, <1>8, SessionAssumption DEF RestSound, Revision, Exhausted
    <2>2. ViewSound'
      BY <1>3, <1>8, <2>1, RegenerateSound
    <2>. QED
      BY <1>0, <1>1, <1>6, <1>8, <2>1, <2>2 DEF IInv, RestSound, host, Replies
  <1>. QED
    BY <1>1, <1>7, <1>8

\* An acknowledgement that settles an action without bringing text back.
LEMMA ResolveStep ==
    ASSUME IInv, NEW id \in DOMAIN pending_actions, NEW disposition \in Dispositions,
           Resolve(id, disposition)
    PROVE  IInv'
  <1>0. RestSound /\ ViewSound /\ LedgerSound
    BY DEF IInv
  <1>. DEFINE kind == pending_actions[id].kind
  <1>1. /\ pending_actions' = Without(pending_actions, {id})
        /\ resolved_actions' = Recorded({id}, disposition)
        /\ platform_composition_active' = CompositionActiveAfter(kind, disposition)
        /\ reconciliation_required' \in {TRUE, FALSE, reconciliation_required}
        /\ reply' = "Recorded"
        /\ UNCHANGED <<state_revision, view, context, input_sequence, next_action_id>>
    BY DEF Resolve
  <1>2. /\ next_action_id' \in ActionId
        /\ Typed(pending_actions', next_action_id')
        /\ DOMAIN pending_actions' = DOMAIN pending_actions \ {id}
        /\ \A i \in DOMAIN pending_actions' : pending_actions'[i] = pending_actions[i]
        /\ DOMAIN resolved_actions' \subseteq 1..(next_action_id' - 1)
        /\ resolved_actions' \in [DOMAIN resolved_actions' -> Dispositions]
    BY <1>0, <1>1, SettledLedger
  <1>3. kind \in Kinds
    BY <1>0 DEF LedgerSound, Typed, PendingAction
  <1>4. RestSound'
    <2>1. CompositionActiveAfter(kind, disposition) \in BOOLEAN
      BY <1>0, <1>3 DEF CompositionActiveAfter, Kinds, RestSound
    <2>. QED
      BY <1>0, <1>1, <2>1 DEF RestSound, Replies
  <1>5. ViewSound'
    BY <1>0, <1>1, ViewUnchanged
  <1>6. composer' = composer
    BY <1>1 DEF view
  <1>7. RecoveryFresh'
    <2>1. ASSUME NEW i \in DOMAIN pending_actions', NEW recovery \in pending_actions'[i].recovery
          PROVE  i \in DOMAIN pending_actions /\ pending_actions'[i] = pending_actions[i]
                 /\ recovery \in pending_actions[i].recovery
      BY <1>2
    <2>2. UNCHANGED <<next_action_id, input_sequence, state_revision, context, phase, composer>>
      BY <1>1 DEF view
    <2>3. RecoveryFresh
      BY <1>0 DEF LedgerSound
    <2>. HIDE DEF kind
    <2>. QED
      BY <2>1, <2>2, <2>3 DEF RecoveryFresh
  <1>8. RecoverySound'
    BY <1>0, <1>2 DEF LedgerSound, RecoverySound
  <1>9. UpdatesCurrent(pending_actions', composer')
    BY <1>0, <1>2, <1>6 DEF LedgerSound, UpdatesCurrent
  <1>. QED
    BY <1>2, <1>4, <1>5, <1>7, <1>8, <1>9 DEF IInv, LedgerSound

\* acknowledge_action, for pending, settled and unknown identifiers.
LEMMA AcknowledgeStep ==
    ASSUME IInv, NEW id, NEW disposition \in Dispositions,
           AcknowledgeAction(id, disposition)
    PROVE  IInv'
  <1>1. CASE id \in DOMAIN pending_actions
    BY <1>1, RestoreCommitStep, ResolveStep DEF AcknowledgeAction, AcknowledgePending
  <1>2. CASE id \notin DOMAIN pending_actions
    BY <1>2, NothingChangedStep DEF AcknowledgeAction, Replies
  <1>. QED
    BY <1>1, <1>2

-----------------------------------------------------------------------------
(* The invariant.                                                          *)

\* A new session is sound.
LEMMA InitSound == Init => IInv
  <1>. SUFFICES ASSUME Init PROVE IInv
    OBVIOUS
  <1>1. U64Max \in Nat \ {0} /\ MaxCompositionTextBytes \in Nat
    BY SessionAssumption
  <1>2. DefaultContext \in Context
    BY DEF DefaultContext, Context, Scopes, Origins
  <1>3. RestSound
    <2>1. state_revision \in 0..U64Max /\ input_sequence \in 0..U64Max
      BY <1>1 DEF Init
    <2>2. platform_composition_active \in BOOLEAN /\ reconciliation_required \in BOOLEAN
      BY DEF Init
    <2>3. context \in Context /\ reply \in Replies
      BY <1>2 DEF Init, Replies
    <2>. QED
      BY <2>1, <2>2, <2>3 DEF RestSound, Revision
  <1>4. /\ <<>> \in Text /\ <<>> \in Seq(Text) /\ Len(<<>>) = 0
    BY EmptySeq DEF Text
  <1>5. EmptyComposer \in Composers /\ EmptySnapshot(0) \in CandidateSnapshot
    BY <1>1, <1>4 DEF EmptyComposer, EmptySnapshot, Composers, CandidateSnapshot, Revision
  <1>6. CursorInText(EmptyComposer)
    BY <1>4, EndsFinite DEF CursorInText, EmptyComposer
  <1>7. ViewSound
    BY <1>1, <1>4, <1>5, <1>6 DEF Init, ViewSound, SnapshotBound, CursorWithinText,
       CompositionWithinLimit, ViewMatchesComposition, SelectionInRange, EmptyComposer,
       EmptySnapshot
  <1>8. LedgerSound
    <2>1. DOMAIN <<>> = {} /\ <<>> \in [{} -> Dispositions] /\ 1 \in 1..U64Max
      BY <1>1
    <2>. QED
      BY <2>1, EmptyLedger DEF Init, LedgerSound, ActionId, RecoveryFresh, RecoverySound
  <1>. QED
    BY <1>3, <1>7, <1>8 DEF IInv

\* Every event keeps the invariant.
LEMMA ProcessEventStep ==
    ASSUME IInv, ProcessEvent
    PROVE  IInv'
  <1>1. ASSUME NEW text \in InsertTexts, InsertText(text) PROVE IInv'
    <2>1. text \in Text
      BY SessionAssumption
    <2>. QED
      BY <1>1, <2>1, InsertTextStep DEF InsertText
  <1>2. CASE Backspace
    BY <1>2, BackspaceStep DEF Backspace
  <1>3. CASE DeleteForward
    BY <1>3, DeleteForwardStep DEF DeleteForward
  <1>4. ASSUME NEW delta \in CursorDeltas, MoveCompositionCursor(delta) PROVE IInv'
    <2>1. delta \in Int
      BY SessionAssumption
    <2>. QED
      BY <1>4, <2>1, MoveCursorStep DEF MoveCompositionCursor
  <1>5. ASSUME NEW event \in HardwareKeys, HardwareKey(event) PROVE IInv'
    BY <1>5, HardwareKeyStep
  <1>6. CASE Commit
    BY <1>6, CommitStep DEF Commit
  <1>7. CASE Cancel
    BY <1>7, CancelStep DEF Cancel
  <1>8. ASSUME NEW id, NEW revision, SelectCandidate(id, revision) PROVE IInv'
    BY <1>8, SelectCandidateStep
  <1>9. ASSUME NEW delta \in SelectionDeltas, MoveCandidateSelection(delta) PROVE IInv'
    <2>1. delta \in Int
      BY SessionAssumption
    <2>. QED
      BY <1>9, <2>1, MoveCandidateSelectionStep
  <1>10. ASSUME NEW raw \in Contexts, ContextChanged(raw) PROVE IInv'
    BY <1>10, ContextChangedStep
  <1>11. CASE Reset
    BY <1>11, ResetStep
  <1>12. CASE UnsupportedEvent
    BY <1>12, AnswerStep DEF UnsupportedEvent, Replies
  <1>13. CASE InputSequenceExhausted
    BY <1>13, NothingChangedStep DEF InputSequenceExhausted, Replies
  <1>. QED
    BY <1>1, <1>2, <1>3, <1>4, <1>5, <1>6, <1>7, <1>8, <1>9, <1>10, <1>11, <1>12, <1>13
    DEF ProcessEvent

\* The invariant is inductive.
LEMMA StepSound == IInv /\ [Next]_vars => IInv'
  <1>. SUFFICES ASSUME IInv, [Next]_vars PROVE IInv'
    OBVIOUS
  <1>1. CASE ProcessEvent
    BY <1>1, ProcessEventStep
  <1>2. CASE Acknowledge
    <2>1. PICK id \in ActionId, disposition \in HostDispositions :
            AcknowledgeAction(id, disposition)
      BY <1>2 DEF Acknowledge
    <2>2. disposition \in Dispositions
      BY SessionAssumption
    <2>. QED
      BY <2>1, <2>2, AcknowledgeStep
  <1>3. CASE UNCHANGED vars
    <2>1. /\ UNCHANGED <<state_revision, view, context, input_sequence, ledger, host>>
          /\ reply' = reply
      BY <1>3 DEF vars, view, ledger, host
    <2>. QED
      BY <2>1, NothingChangedStep DEF IInv, RestSound
  <1>. QED
    BY <1>1, <1>2, <1>3 DEF Next

\* Whatever the host calls, in whatever order, the session keeps the invariant: every
\* handler of session.rs, with its errors and its exhausted counters.
THEOREM SessionInvariantHolds == Spec => []IInv
  BY InitSound, StepSound, PTL DEF Spec

\* Every field keeps its type.
THEOREM TypeCorrect == Spec => []TypeOK
  <1>1. IInv => TypeOK
    BY DEF IInv, RestSound, ViewSound, LedgerSound, Typed, TypeOK
  <1>. QED
    BY <1>1, SessionInvariantHolds, PTL

\* A saved commit can only be restored over the state it left: there was no event, no
\* edit and no change of context since, whatever is outstanding beside it.
THEOREM RecoveriesAreFresh == Spec => []RecoveryFresh
  <1>1. IInv => RecoveryFresh
    BY DEF IInv, LedgerSound
  <1>. QED
    BY <1>1, SessionInvariantHolds, PTL

\* The candidates on display are always bound to the session's revision, so a selection
\* that passes the first staleness check of select_candidate passes the second.
THEOREM SnapshotAlwaysBound == Spec => []SnapshotBound
  <1>1. IInv => SnapshotBound
    BY DEF IInv, ViewSound
  <1>. QED
    BY <1>1, SessionInvariantHolds, PTL

\* Phase, candidates and degraded components are always the pipeline's for the text
\* being composed.
THEOREM ViewAlwaysMatches == Spec => []ViewMatchesComposition
  <1>1. IInv => ViewMatchesComposition
    BY DEF IInv, ViewSound
  <1>. QED
    BY <1>1, SessionInvariantHolds, PTL

\* The selection always points into the candidates.
THEOREM SelectionAlwaysInRange == Spec => []SelectionInRange
  <1>1. IInv => SelectionInRange
    BY DEF IInv, ViewSound
  <1>. QED
    BY <1>1, SessionInvariantHolds, PTL

\* The cursor of the composition never leaves its text.
THEOREM CursorAlwaysWithinText == Spec => []CursorWithinText
  <1>1. IInv => CursorWithinText
    BY DEF IInv, ViewSound
  <1>. QED
    BY <1>1, SessionInvariantHolds, PTL

\* The composition never outgrows its limit.
THEOREM CompositionAlwaysWithinLimit == Spec => []CompositionWithinLimit
  <1>1. IInv => CompositionWithinLimit
    BY DEF IInv, ViewSound
  <1>. QED
    BY <1>1, SessionInvariantHolds, PTL

\* A host with marked text is never left with an update of an older composition.
THEOREM UpdateAlwaysCurrent == Spec => []CompositionUpdateCurrent
  <1>1. IInv => CompositionUpdateCurrent
    BY DEF IInv, LedgerSound, UpdatesCurrent, CompositionUpdateCurrent, CompositionUpdates,
       OfKind
  <1>. QED
    BY <1>1, SessionInvariantHolds, PTL

-----------------------------------------------------------------------------
(* What a call may never do: change the view under a revision that stays,  *)
(* or keep host text it must not keep.                                     *)

\* An idle session has nothing on display, not even after an exhausted counter.
IdleIsClear == phase = "Idle" => /\ candidate_snapshot.entries = <<>>
                                 /\ degraded_components = {}

\* What RevisionPinsView says of one step.
Pinned == /\ state_revision' >= state_revision
          /\ state_revision' = state_revision /\ reply' # "CounterExhausted" =>
                UNCHANGED <<view, context>>

JInv == IInv /\ IdleIsClear /\ ContextAllowed

\* What every call is shown to achieve.
StepKept == IdleIsClear' /\ ContextAllowed' /\ Pinned

\* A revision is a number.
LEMMA Revisions ==
    ASSUME IInv
    PROVE  state_revision \in Nat /\ state_revision + 1 # state_revision
  BY SessionAssumption DEF IInv, RestSound, Revision

\* A call that leaves the view and the context alone.
LEMMA QuietKept ==
    ASSUME JInv, UNCHANGED <<state_revision, view, context>>
    PROVE  StepKept
  <1>1. IdleIsClear' /\ ContextAllowed'
    BY DEF JInv, IdleIsClear, ContextAllowed, view
  <1>2. state_revision' >= state_revision
    BY Revisions DEF JInv
  <1>. QED
    BY <1>1, <1>2 DEF StepKept, Pinned

\* So is one that only answers.
LEMMA AnswerKept ==
    ASSUME JInv, NEW outcome, Answer(outcome)
    PROVE  StepKept
  BY QuietKept DEF Answer

\* Regenerated candidates are shown only for a text.
LEMMA RegeneratedClear ==
    ASSUME NEW edited, NEW revision, Regenerate(edited, revision)
    PROVE  IdleIsClear'
  BY DEF Regenerate, EmptySnapshot, IdleIsClear

\* Clearing the composition clears the display.
LEMMA ClearedClear ==
    ASSUME NEW revision, ClearComposition(revision)
    PROVE  IdleIsClear'
  BY DEF ClearComposition, EmptySnapshot, IdleIsClear

\* An edit refused for lack of room is quiet; one that finds the revision exhausted
\* says so; every other moves the revision.
LEMMA CompositionEditKept ==
    ASSUME JInv, NEW edited, CompositionEdit(edited)
    PROVE  StepKept
  <1>1. UNCHANGED context /\ ContextAllowed'
    BY DEF CompositionEdit, JInv, ContextAllowed
  <1>2. CASE UNCHANGED <<state_revision, view>>
    BY <1>1, <1>2, QuietKept
  <1>3. CASE /\ reply' = "CounterExhausted"
             /\ UNCHANGED <<state_revision, phase, candidate_snapshot, degraded_components>>
    BY <1>1, <1>3, Revisions DEF JInv, StepKept, Pinned, IdleIsClear
  <1>4. CASE state_revision' = state_revision + 1 /\ Regenerate(edited, state_revision + 1)
    <2>1. IdleIsClear'
      BY <1>4, RegeneratedClear
    <2>. QED
      BY <1>1, <1>4, <2>1, Revisions DEF JInv, StepKept, Pinned
  <1>. QED
    BY <1>2, <1>3, <1>4 DEF CompositionEdit

\* A call that clears the composition at a revision of its own, or without one says
\* that the revision is exhausted.
LEMMA ClearKept ==
    ASSUME JInv, UNCHANGED context,
           \/ UNCHANGED <<state_revision, view>>
           \/ /\ ClearComposition(state_revision)
              /\ reply' = "CounterExhausted" /\ UNCHANGED state_revision
           \/ /\ ClearComposition(state_revision + 1)
              /\ state_revision' = state_revision + 1
    PROVE  StepKept
  <1>1. ContextAllowed'
    BY DEF JInv, ContextAllowed
  <1>2. CASE UNCHANGED <<state_revision, view>>
    BY <1>2, QuietKept
  <1>3. CASE ~UNCHANGED <<state_revision, view>>
    <2>1. IdleIsClear'
      BY <1>3, ClearedClear
    <2>. QED
      BY <1>1, <1>3, <2>1, Revisions DEF JInv, StepKept, Pinned
  <1>. QED
    BY <1>2, <1>3

\* commit_text, with room for its action or without.
LEMMA CommitTextKept ==
    ASSUME JInv, NEW text, CommitText(text)
    PROVE  StepKept
  BY ClearKept DEF CommitText

\* The cancelling of a composition.
LEMMA CancelKept ==
    ASSUME JInv, cancel
    PROVE  StepKept
  BY ClearKept, AnswerKept DEF cancel

\* The commit of the composition as it was typed.
LEMMA CommitKept ==
    ASSUME JInv, commit
    PROVE  StepKept
  BY CommitTextKept, AnswerKept DEF commit

\* The four editing inputs.
LEMMA EditsKept ==
    ASSUME JInv
    PROVE  /\ \A text : insert_text(text) => StepKept
           /\ \A count : backspace(count) => StepKept
           /\ \A count : delete_forward(count) => StepKept
           /\ \A delta : move_composition_cursor(delta) => StepKept
  <1>1. ASSUME NEW text, insert_text(text) PROVE StepKept
    BY <1>1, AnswerKept, CompositionEditKept DEF insert_text
  <1>2. ASSUME NEW count, backspace(count) PROVE StepKept
    BY <1>2, AnswerKept, QuietKept, CompositionEditKept DEF backspace
  <1>3. ASSUME NEW count, delete_forward(count) PROVE StepKept
    BY <1>3, AnswerKept, CompositionEditKept DEF delete_forward
  <1>4. ASSUME NEW delta, move_composition_cursor(delta) PROVE StepKept
    BY <1>4, AnswerKept, CompositionEditKept DEF move_composition_cursor
  <1>. QED
    BY <1>1, <1>2, <1>3, <1>4

\* A hardware key is one of the inputs above.
LEMMA HardwareKeyKept ==
    ASSUME JInv, NEW event, HardwareKey(event)
    PROVE  StepKept
  BY EditsKept, CommitKept, CancelKept, AnswerKept DEF HardwareKey

\* A selection commits or is refused.
LEMMA SelectCandidateKept ==
    ASSUME JInv, NEW id, NEW revision, SelectCandidate(id, revision)
    PROVE  StepKept
  BY AnswerKept, CommitTextKept DEF SelectCandidate

\* The selection moves under candidates, so not in an idle session.
LEMMA MoveCandidateSelectionKept ==
    ASSUME JInv, NEW delta, MoveCandidateSelection(delta)
    PROVE  StepKept
  <1>1. CASE \E outcome : Answer(outcome)
    BY <1>1, AnswerKept
  <1>2. CASE ~\E outcome : Answer(outcome)
    <2>1. /\ phase = "CandidateSelecting" /\ UNCHANGED <<phase, context>>
          /\ \/ reply' = "CounterExhausted" /\ UNCHANGED state_revision
             \/ state_revision' = state_revision + 1
      BY <1>2 DEF MoveCandidateSelection
    <2>2. IdleIsClear' /\ ContextAllowed'
      BY <2>1 DEF JInv, IdleIsClear, ContextAllowed
    <2>3. Pinned
      BY <2>1, Revisions DEF JInv, Pinned
    <2>. QED
      BY <2>2, <2>3 DEF StepKept
  <1>. QED
    BY <1>1, <1>2

\* process_context_changed keeps a context only if it is sanitised and within limits.
LEMMA ContextChangedKept ==
    ASSUME JInv, NEW raw \in Contexts, ContextChanged(raw)
    PROVE  StepKept
  <1>. DEFINE sanitized == Sanitized(raw)
  <1>1. CASE \E outcome : Answer(outcome)
    BY <1>1, AnswerKept
  <1>2. CASE ~\E outcome : Answer(outcome)
    <2>1. /\ WithinLimit(sanitized) /\ context' = sanitized
          /\ UNCHANGED <<phase, composer, degraded_components>>
          /\ \/ /\ reply' = "CounterExhausted"
                /\ UNCHANGED <<state_revision, candidate_snapshot>>
             \/ /\ state_revision' = state_revision + 1
                /\ candidate_snapshot' = Rebound(candidate_snapshot, state_revision + 1)
      BY <1>2 DEF ContextChanged
    <2>2. sanitized \in Context
      BY SanitizedContext, SessionAssumption
    <2>3. ContextAllowed'
      <3>1. /\ SurroundingText = "None" => sanitized.before = 0
            /\ SurroundingText # "Bidirectional" => sanitized.after = 0
            /\ ~SelectedTextRead => sanitized.selected = 0
        BY SessionAssumption DEF Sanitized, Context
      <3>. QED
        BY <2>1, <2>2, <3>1, ContextAssumption
        DEF ContextAllowed, WithinLimit, ContextLimit, Context
    <2>4. candidate_snapshot'.entries = candidate_snapshot.entries
      BY <2>1 DEF JInv, IInv, ViewSound, CandidateSnapshot, Rebound
    <2>5. IdleIsClear'
      BY <2>1, <2>4 DEF JInv, IdleIsClear
    <2>. QED
      BY <2>1, <2>3, <2>5, Revisions DEF JInv, StepKept, Pinned
  <1>. QED
    BY <1>1, <1>2

\* A session a reset would not change has the view a reset gives.
LEMMA ClearAlready ==
    ASSUME JInv, ~ResetChanges, ClearComposition(state_revision)
    PROVE  UNCHANGED view
  <1>1. /\ phase = "Idle" /\ composer.text = <<>> /\ composer \in Composers
        /\ CursorInText(composer) /\ candidate_snapshot \in CandidateSnapshot
        /\ candidate_snapshot.entries = <<>> /\ degraded_components = {}
        /\ candidate_snapshot.revision = state_revision
        /\ candidate_snapshot.selected_index = 0
    BY DEF JInv, IInv, ViewSound, IdleIsClear, ResetChanges, SnapshotBound, SelectionInRange,
       CursorWithinText
  <1>2. Ends(<<>>) = {}
    BY DEF Ends
  <1>3. grapheme_count(<<>>) = 0
    BY <1>2, FS_EmptySet DEF grapheme_count
  <1>4. composer = EmptyComposer
    BY <1>1, <1>3 DEF Composers, CursorInText, EmptyComposer
  <1>5. candidate_snapshot = EmptySnapshot(state_revision)
    BY <1>1 DEF CandidateSnapshot, EmptySnapshot
  <1>. QED
    BY <1>1, <1>4, <1>5 DEF ClearComposition, view

\* process_reset moves the revision, says it cannot, or finds nothing to change.
LEMMA ResetKept ==
    ASSUME JInv, Reset
    PROVE  StepKept
  <1>1. /\ context' = DefaultContext
        /\ \/ /\ ~ResetChanges /\ UNCHANGED state_revision
              /\ ClearComposition(state_revision)
           \/ /\ reply' = "CounterExhausted" /\ UNCHANGED state_revision
              /\ ClearComposition(state_revision)
           \/ /\ state_revision' = state_revision + 1
              /\ ClearComposition(state_revision + 1)
    BY DEF Reset
  <1>2. IdleIsClear'
    BY <1>1, ClearedClear
  <1>3. ContextAllowed'
    BY <1>1, ContextAssumption DEF ContextAllowed, DefaultContext
  <1>4. CASE ~ResetChanges /\ UNCHANGED state_revision /\ ClearComposition(state_revision)
    <2>1. UNCHANGED view /\ UNCHANGED context
      BY <1>1, <1>4, ClearAlready DEF ResetChanges
    <2>. QED
      BY <1>4, <2>1, QuietKept
  <1>. QED
    BY <1>1, <1>2, <1>3, <1>4, Revisions DEF JInv, StepKept, Pinned

\* An acknowledgement changes the view only when it brings a commit back.
LEMMA AcknowledgeKept ==
    ASSUME JInv, NEW id, NEW disposition, AcknowledgeAction(id, disposition)
    PROVE  StepKept
  <1>1. CASE UNCHANGED <<state_revision, view, context>>
    BY <1>1, QuietKept
  <1>2. ASSUME NEW recovery, RestoreCommit(id, recovery, disposition)
        PROVE  StepKept
    <2>1. UNCHANGED context /\ ContextAllowed'
      BY <1>2 DEF RestoreCommit, JInv, ContextAllowed
    <2>2. CASE UNCHANGED <<state_revision, view>>
      BY <2>1, <2>2, QuietKept
    <2>3. CASE /\ state_revision' = state_revision + 1
               /\ Regenerate(recovery.composer, state_revision + 1)
      <3>1. IdleIsClear'
        BY <2>3, RegeneratedClear
      <3>. QED
        BY <2>1, <2>3, <3>1, Revisions DEF JInv, StepKept, Pinned
    <2>. QED
      BY <1>2, <2>2, <2>3 DEF RestoreCommit
  <1>. QED
    BY <1>1, <1>2 DEF AcknowledgeAction, AcknowledgePending, Resolve

-----------------------------------------------------------------------------

\* Every event.
LEMMA ProcessEventKept ==
    ASSUME JInv, ProcessEvent
    PROVE  StepKept
  <1>1. CASE InputSequenceExhausted
    BY <1>1, QuietKept DEF InputSequenceExhausted
  <1>2. CASE UnsupportedEvent
    BY <1>2, AnswerKept DEF UnsupportedEvent
  <1>3. CASE \/ \E text \in InsertTexts : InsertText(text)
             \/ Backspace \/ DeleteForward
             \/ \E delta \in CursorDeltas : MoveCompositionCursor(delta)
    BY <1>3, EditsKept DEF InsertText, Backspace, DeleteForward, MoveCompositionCursor
  <1>4. CASE Commit \/ Cancel \/ \E event \in HardwareKeys : HardwareKey(event)
    BY <1>4, CommitKept, CancelKept, HardwareKeyKept DEF Commit, Cancel
  <1>5. CASE \E id, revision : SelectCandidate(id, revision)
    BY <1>5, SelectCandidateKept
  <1>6. CASE \E delta \in SelectionDeltas : MoveCandidateSelection(delta)
    BY <1>6, MoveCandidateSelectionKept
  <1>7. CASE Reset \/ \E raw \in Contexts : ContextChanged(raw)
    BY <1>7, ResetKept, ContextChangedKept
  <1>. QED
    BY <1>1, <1>2, <1>3, <1>4, <1>5, <1>6, <1>7 DEF ProcessEvent

\* Every step keeps the strengthened invariant and pins the view.
LEMMA NextKept ==
    ASSUME JInv, [Next]_vars
    PROVE  JInv' /\ (Pinned \/ UNCHANGED vars)
  <1>1. IInv'
    BY StepSound DEF JInv
  <1>2. CASE Next
    <2>1. StepKept
      BY <1>2, ProcessEventKept, AcknowledgeKept DEF Next, Acknowledge
    <2>. QED
      BY <1>1, <2>1 DEF JInv, StepKept
  <1>3. CASE UNCHANGED vars
    <2>1. UNCHANGED <<state_revision, view, context>>
      BY <1>3 DEF vars
    <2>2. StepKept
      BY <2>1, QuietKept
    <2>. QED
      BY <1>1, <1>3, <2>2 DEF JInv, StepKept
  <1>. QED
    BY <1>2, <1>3

\* A new session.
LEMMA InitKept == Init => JInv
  <1>1. Init => IdleIsClear
    BY DEF Init, IdleIsClear, EmptySnapshot
  <1>2. Init => ContextAllowed
    BY ContextAssumption DEF Init, ContextAllowed, DefaultContext
  <1>. QED
    BY <1>1, <1>2, InitSound DEF JInv

\* No host text is kept that the scope of the context, a capability of the host or a
\* limit excludes, whatever contexts the host sends (sanitized, validate_context_field).
THEOREM ContextAlwaysAllowed == Spec => []ContextAllowed
  <1>1. JInv /\ [Next]_vars => JInv'
    BY NextKept
  <1>2. JInv => ContextAllowed
    BY DEF JInv
  <1>. QED
    BY <1>1, <1>2, InitKept, PTL DEF Spec

\* A revision stands for one view and one context, and never goes back: the reason why
\* a candidate identifier and a revision name one text (select_candidate).
THEOREM RevisionAlwaysPinsView == Spec => RevisionPinsView
  <1>1. JInv /\ [Next]_vars => JInv' /\ [Pinned]_vars
    BY NextKept
  <1>. QED
    BY <1>1, InitKept, PTL DEF Spec, RevisionPinsView, Pinned

-----------------------------------------------------------------------------
(* Characters.                                                             *)

\* The width of a byte is a number, and what begins a character has one at least.
LEMMA WidthFacts ==
    ASSUME NEW text \in Text, NEW i \in DOMAIN text
    PROVE  /\ Width(text[i]) \in Nat
           /\ Begins(text[i]) => Width(text[i]) >= 1
  <1>1. text[i] \in Byte
    BY DEF Text
  <1>2. Width(text[i]) \in Nat
    BY <1>1, CharacterAssumption
  <1>. QED
    BY <1>2 DEF Begins

\* Two texts one after the other.
LEMMA JoinedAt ==
    ASSUME NEW text \in Text, NEW more \in Text
    PROVE  /\ text \o more \in Text
           /\ Len(text \o more) = Len(text) + Len(more)
           /\ DOMAIN (text \o more) = 1..(Len(text) + Len(more))
           /\ \A i \in 1..Len(text) : (text \o more)[i] = text[i]
           /\ \A i \in 1..Len(more) : (text \o more)[Len(text) + i] = more[i]
  BY DEF Text

\* A text is the bytes at its positions.
LEMMA TextAt ==
    ASSUME NEW text \in Text
    PROVE  /\ Len(text) \in Nat /\ DOMAIN text = 1..Len(text)
           /\ text = <<>> <=> Len(text) = 0
  BY EmptySeq DEF Text

\* What IsUtf8 says of one character.
LEMMA CharacterAt ==
    ASSUME NEW text \in Text, IsUtf8(text), NEW i \in 1..Len(text), Begins(text[i]),
           NEW last, last = i + Width(text[i]) - 1
    PROVE  /\ last \in i..Len(text)
           /\ \A j \in (i + 1)..last : ~Begins(text[j])
           /\ last < Len(text) => Begins(text[last + 1])
  <1>1. i \in DOMAIN text /\ Len(text) \in Nat /\ DOMAIN text = 1..Len(text)
    BY TextAt
  <1>2. Width(text[i]) \in Nat /\ Width(text[i]) >= 1
    BY <1>1, WidthFacts
  <1>3. /\ last <= Len(text)
        /\ \A j \in (i + 1)..last : ~Begins(text[j])
        /\ IsCharBoundary(text, last)
    BY <1>1 DEF IsUtf8
  <1>4. last \in i..Len(text)
    BY <1>1, <1>2, <1>3
  <1>5. last < Len(text) => Begins(text[last + 1])
    BY <1>1, <1>3, <1>4 DEF IsCharBoundary
  <1>. QED
    BY <1>3, <1>4, <1>5

\* A boundary is the end, or where a character begins.
LEMMA BoundaryAt ==
    ASSUME NEW text \in Text, NEW last \in 0..Len(text),
           last < Len(text) => Begins(text[last + 1])
    PROVE  IsCharBoundary(text, last)
  <1>1. Len(text) \in Nat
    BY TextAt
  <1>2. CASE last = Len(text)
    BY <1>2 DEF IsCharBoundary
  <1>3. CASE last < Len(text)
    <2>1. last + 1 \in 1..Len(text)
      BY <1>1, <1>3
    <2>2. last + 1 \in DOMAIN text
      BY <2>1, TextAt
    <2>. QED
      BY <1>3, <2>2 DEF IsCharBoundary
  <1>. QED
    BY <1>1, <1>2, <1>3

\* It is enough to say so of each.
LEMMA CharactersAt ==
    ASSUME NEW text \in Text,
           Len(text) # 0 => Begins(text[1]),
           \A i \in 1..Len(text) : Begins(text[i]) =>
              /\ i + Width(text[i]) - 1 <= Len(text)
              /\ \A j \in (i + 1)..(i + Width(text[i]) - 1) : ~Begins(text[j])
              /\ i + Width(text[i]) - 1 < Len(text) => Begins(text[(i + Width(text[i]) - 1) + 1])
    PROVE  IsUtf8(text)
  <1>1. Len(text) \in Nat /\ DOMAIN text = 1..Len(text) /\ (text = <<>> <=> Len(text) = 0)
    BY TextAt
  <1>2. ASSUME NEW i \in DOMAIN text, Begins(text[i])
        PROVE  IsCharBoundary(text, i + Width(text[i]) - 1)
    <2>. DEFINE last == i + Width(text[i]) - 1
    <2>1. Width(text[i]) \in Nat /\ Width(text[i]) >= 1
      BY <1>2, WidthFacts
    <2>2. last \in Nat /\ last >= 1 /\ last <= Len(text)
      BY <1>1, <1>2, <2>1
    <2>3. last < Len(text) => Begins(text[last + 1])
      BY <1>1, <1>2
    <2>4. last \in 0..Len(text)
      BY <1>1, <2>2
    <2>. QED
      BY <2>3, <2>4, BoundaryAt
  <1>. QED
    BY <1>1, <1>2 DEF IsUtf8

\* What is before a boundary is characters, and so is what is after it.
LEMMA Utf8Cut ==
    ASSUME NEW text \in Text, IsUtf8(text), NEW at \in 0..Len(text), IsCharBoundary(text, at)
    PROVE  /\ SubSeq(text, 1, at) \in Text /\ IsUtf8(SubSeq(text, 1, at))
           /\ SubSeq(text, at + 1, Len(text)) \in Text
           /\ IsUtf8(SubSeq(text, at + 1, Len(text)))
  <1>. DEFINE left  == SubSeq(text, 1, at)
              right == SubSeq(text, at + 1, Len(text))
  <1>0. Len(text) \in Nat /\ at \in Nat /\ at <= Len(text)
    BY TextAt
  <1>1. /\ Len(text) \in Nat /\ at \in Nat /\ at <= Len(text) /\ DOMAIN text = 1..Len(text)
        /\ text # <<>> <=> Len(text) # 0
    BY TextAt
  <1>2. /\ left \in Text /\ Len(left) = at
        /\ \A i \in 1..at : left[i] = text[i]
    BY <1>0 DEF Text
  <1>3. /\ right \in Text /\ Len(right) = Len(text) - at
        /\ \A i \in 1..(Len(text) - at) : right[i] = text[at + i]
    BY <1>0 DEF Text
  <1>. HIDE DEF left, right
  <1>4. Len(text) # 0 => Begins(text[1])
    BY <1>1 DEF IsUtf8
  <1>5. at # 0 /\ at < Len(text) => Begins(text[at + 1])
    <2>1. at # 0 /\ at < Len(text) => at \notin {0, Len(text)}
      BY <1>0
    <2>. QED
      BY <2>1 DEF IsCharBoundary
  <1>6. IsUtf8(left)
    <2>1. Len(left) # 0 => Begins(left[1])
      BY <1>1, <1>2, <1>4
    <2>2. ASSUME NEW i \in 1..Len(left), Begins(left[i])
          PROVE  LET last == i + Width(left[i]) - 1
                 IN  /\ last <= Len(left)
                     /\ \A j \in (i + 1)..last : ~Begins(left[j])
                     /\ last < Len(left) => Begins(left[last + 1])
      <3>. DEFINE last == i + Width(left[i]) - 1
      <3>1. left[i] = text[i] /\ i \in 1..Len(text) /\ i \in 1..at
        BY <1>1, <1>2
      <3>2. /\ last \in i..Len(text)
            /\ \A j \in (i + 1)..last : ~Begins(text[j])
            /\ last < Len(text) => Begins(text[last + 1])
        <4>1. last = i + Width(text[i]) - 1 /\ Begins(text[i])
          BY <2>2, <3>1
        <4>. HIDE DEF last
        <4>. QED
          BY <3>1, <4>1, CharacterAt
      <3>. HIDE DEF last
      <3>3. last <= at
        <4>. SUFFICES ASSUME ~(last <= at) PROVE FALSE
          OBVIOUS
        <4>1. at + 1 \in (i + 1)..last /\ at # 0 /\ at < Len(text)
          BY <1>1, <3>1, <3>2
        <4>. QED
          BY <1>5, <3>2, <4>1
      <3>4. \A j \in (i + 1)..last : ~Begins(left[j])
        <4>1. \A j \in (i + 1)..last : left[j] = text[j]
          BY <1>1, <1>2, <3>1, <3>2, <3>3
        <4>. QED
          BY <3>2, <4>1
      <3>5. last < at => Begins(left[last + 1])
        <4>1. last < at => left[last + 1] = text[last + 1] /\ last < Len(text)
          BY <1>1, <1>2, <3>1, <3>2
        <4>. QED
          BY <3>2, <4>1
      <3>. QED
        BY <1>2, <3>3, <3>4, <3>5 DEF last
    <2>. QED
      BY <1>2, <2>1, <2>2, CharactersAt
  <1>7. IsUtf8(right)
    <2>1. Len(right) # 0 => Begins(right[1])
      <3>1. Len(right) # 0 => at < Len(text) /\ right[1] = text[at + 1]
        BY <1>0, <1>3
      <3>2. at = 0 => at + 1 = 1
        OBVIOUS
      <3>. QED
        BY <1>0, <1>4, <1>5, <3>1, <3>2
    <2>2. ASSUME NEW i \in 1..Len(right), Begins(right[i])
          PROVE  LET last == i + Width(right[i]) - 1
                 IN  /\ last <= Len(right)
                     /\ \A j \in (i + 1)..last : ~Begins(right[j])
                     /\ last < Len(right) => Begins(right[last + 1])
      <3>. DEFINE last == i + Width(right[i]) - 1
                  there == at + i + Width(text[at + i]) - 1
      <3>1. right[i] = text[at + i] /\ at + i \in 1..Len(text) /\ i \in Nat /\ i >= 1
        BY <1>1, <1>3
      <3>2. /\ there \in (at + i)..Len(text)
            /\ \A j \in (at + i + 1)..there : ~Begins(text[j])
            /\ there < Len(text) => Begins(text[there + 1])
        <4>1. Begins(text[at + i]) /\ there = (at + i) + Width(text[at + i]) - 1
          BY <2>2, <3>1
        <4>. HIDE DEF there
        <4>. QED
          BY <3>1, <4>1, CharacterAt
      <3>3. there = at + last /\ last \in Int
        <4>1. Width(text[at + i]) \in Nat
          BY <1>1, <3>1, WidthFacts
        <4>. QED
          BY <1>1, <3>1, <4>1
      <3>. HIDE DEF last, there
      <3>4. last <= Len(right) /\ last >= i
        BY <1>1, <1>3, <3>1, <3>2, <3>3
      <3>5. \A j \in (i + 1)..last : ~Begins(right[j])
        <4>1. \A j \in (i + 1)..last : /\ right[j] = text[at + j]
                                       /\ at + j \in (at + i + 1)..there
          BY <1>1, <1>3, <3>1, <3>3, <3>4
        <4>. QED
          BY <3>2, <4>1
      <3>6. last < Len(right) => Begins(right[last + 1])
        <4>1. last < Len(right) => /\ there < Len(text)
                                   /\ right[last + 1] = text[at + (last + 1)]
                                   /\ at + (last + 1) = there + 1
          BY <1>1, <1>3, <3>1, <3>3, <3>4
        <4>. QED
          BY <3>2, <4>1
      <3>. QED
        BY <3>4, <3>5, <3>6 DEF last
    <2>. QED
      BY <1>3, <2>1, <2>2, CharactersAt
  <1>. QED
    BY <1>2, <1>3, <1>6, <1>7 DEF left, right

\* Characters one after the other are characters.
LEMMA Utf8Joined ==
    ASSUME NEW text \in Text, IsUtf8(text), NEW more \in Text, IsUtf8(more)
    PROVE  text \o more \in Text /\ IsUtf8(text \o more)
  <1>. DEFINE both == text \o more
              n    == Len(text)
  <1>1. /\ n \in Nat /\ Len(more) \in Nat
        /\ DOMAIN text = 1..n /\ DOMAIN more = 1..Len(more)
        /\ n # 0 => Begins(text[1])
        /\ Len(more) # 0 => Begins(more[1])
    BY TextAt DEF IsUtf8
  <1>2. /\ both \in Text /\ Len(both) = n + Len(more)
        /\ \A i \in 1..n : both[i] = text[i]
        /\ \A i \in 1..Len(more) : both[n + i] = more[i]
    BY JoinedAt
  <1>. HIDE DEF both, n
  <1>3. Len(both) # 0 => Begins(both[1])
    <2>1. CASE n # 0
      BY <1>1, <1>2, <2>1
    <2>2. CASE n = 0
      <3>1. Len(more) # 0 => both[0 + 1] = more[1]
        BY <1>1, <1>2, <2>2
      <3>. QED
        BY <1>1, <1>2, <2>2, <3>1
    <2>. QED
      BY <2>1, <2>2
  <1>4. ASSUME NEW i \in 1..n, Begins(both[i])
        PROVE  LET last == i + Width(both[i]) - 1
               IN  /\ last <= Len(both)
                   /\ \A j \in (i + 1)..last : ~Begins(both[j])
                   /\ last < Len(both) => Begins(both[last + 1])
    <2>. DEFINE last == i + Width(both[i]) - 1
    <2>1. both[i] = text[i]
      BY <1>2
    <2>2. /\ last \in i..n
          /\ \A j \in (i + 1)..last : ~Begins(text[j])
          /\ last < n => Begins(text[last + 1])
      <3>1. last = i + Width(text[i]) - 1 /\ Begins(text[i])
        BY <1>4, <2>1
      <3>. HIDE DEF last
      <3>. QED
        BY <3>1, CharacterAt DEF n
    <2>. HIDE DEF last
    <2>3. \A j \in (i + 1)..last : ~Begins(both[j])
      <3>1. \A j \in (i + 1)..last : both[j] = text[j]
        BY <1>1, <1>2, <2>2
      <3>. QED
        BY <2>2, <3>1
    <2>4. last < Len(both) => Begins(both[last + 1])
      <3>1. CASE last < n
        <4>1. both[last + 1] = text[last + 1]
          BY <1>1, <1>2, <2>2, <3>1
        <4>. QED
          BY <2>2, <3>1, <4>1
      <3>2. CASE last = n
        <4>1. last < Len(both) => Len(more) # 0 /\ both[n + 1] = more[1]
          BY <1>1, <1>2, <3>2
        <4>. QED
          BY <1>1, <3>2, <4>1
      <3>. QED
        BY <1>1, <2>2, <3>1, <3>2
    <2>. QED
      BY <1>1, <1>2, <2>2, <2>3, <2>4 DEF last
  <1>5. ASSUME NEW k \in 1..Len(more), Begins(both[n + k])
        PROVE  LET last == (n + k) + Width(both[n + k]) - 1
               IN  /\ last <= Len(both)
                   /\ \A j \in ((n + k) + 1)..last : ~Begins(both[j])
                   /\ last < Len(both) => Begins(both[last + 1])
    <2>. DEFINE last == (n + k) + Width(both[n + k]) - 1
                there == k + Width(more[k]) - 1
    <2>1. both[n + k] = more[k] /\ k \in Nat
      BY <1>2
    <2>2. /\ there \in k..Len(more)
          /\ \A j \in (k + 1)..there : ~Begins(more[j])
          /\ there < Len(more) => Begins(more[there + 1])
      <3>1. Begins(more[k])
        BY <1>5, <2>1
      <3>. HIDE DEF there
      <3>2. there = k + Width(more[k]) - 1
        BY DEF there
      <3>. QED
        BY <3>1, <3>2, CharacterAt
    <2>3. last = n + there /\ there \in Int
      <3>1. Width(more[k]) \in Nat
        BY <1>1, WidthFacts
      <3>. QED
        BY <1>1, <2>1, <3>1
    <2>. HIDE DEF last, there
    <2>4. \A j \in ((n + k) + 1)..last : ~Begins(both[j])
      <3>1. \A j \in ((n + k) + 1)..last : j - n \in (k + 1)..there /\ j - n \in 1..Len(more)
                                            /\ n + (j - n) = j
        BY <1>1, <2>1, <2>2, <2>3
      <3>2. \A j \in ((n + k) + 1)..last : both[n + (j - n)] = more[j - n]
        BY <1>2, <3>1
      <3>. QED
        BY <2>2, <3>1, <3>2
    <2>5. last < Len(both) => Begins(both[last + 1])
      <3>1. last < Len(both) => /\ there + 1 \in 1..Len(more) /\ there < Len(more)
                                /\ n + (there + 1) = last + 1
        BY <1>1, <1>2, <2>1, <2>2, <2>3
      <3>2. last < Len(both) => both[n + (there + 1)] = more[there + 1]
        BY <1>2, <3>1
      <3>. QED
        BY <2>2, <3>1, <3>2
    <2>. QED
      BY <1>1, <1>2, <2>2, <2>3, <2>4, <2>5 DEF last
  <1>6. \A i \in 1..Len(both) : i \in 1..n \/ (i - n \in 1..Len(more) /\ n + (i - n) = i)
    BY <1>1, <1>2
  <1>7. ASSUME NEW i \in 1..Len(both), Begins(both[i])
        PROVE  LET last == i + Width(both[i]) - 1
               IN  /\ last <= Len(both)
                   /\ \A j \in (i + 1)..last : ~Begins(both[j])
                   /\ last < Len(both) => Begins(both[last + 1])
    <2>1. CASE i \in 1..n
      BY <1>4, <1>7, <2>1
    <2>2. CASE i \notin 1..n
      <3>1. i - n \in 1..Len(more) /\ n + (i - n) = i
        BY <1>6, <2>2
      <3>2. Begins(both[n + (i - n)])
        BY <1>7, <3>1
      <3>. HIDE DEF Begins
      <3>. DEFINE k == i - n
      <3>3. k \in 1..Len(more) /\ n + k = i /\ Begins(both[n + k])
        BY <3>1, <3>2
      <3>. HIDE DEF k
      <3>. QED
        BY <1>5, <3>3
    <2>. QED
      BY <2>1, <2>2
  <1>8. IsUtf8(both)
    BY <1>2, <1>3, <1>7, CharactersAt
  <1>. QED
    BY <1>2, <1>8 DEF both

\* A later byte is in no earlier cluster, and in a later one only after a boundary.
LEMMA LaterCluster ==
    ASSUME NEW text \in Text, NEW i \in 1..Len(text), NEW j \in i..Len(text)
    PROVE  /\ ClusterOf(text, i) \in Nat /\ ClusterOf(text, j) \in Nat
           /\ ClusterOf(text, i) <= ClusterOf(text, j)
           /\ j = i + 1 /\ i \notin Ends(text) => ClusterOf(text, i) = ClusterOf(text, j)
  <1>. DEFINE Before(k) == {e \in Ends(text) : e < k}
  <1>1. /\ Len(text) \in Nat /\ Ends(text) \subseteq 1..Len(text) /\ IsFiniteSet(Ends(text))
    BY EndsFinite
  <1>2. /\ i \in Nat /\ j \in Nat /\ i <= j
    BY <1>1
  <1>3. Before(i) \in SUBSET Before(j) /\ IsFiniteSet(Before(j)) /\ IsFiniteSet(Before(i))
    <2>1. \A e \in Ends(text) : e < i => e < j
      BY <1>1, <1>2
    <2>2. Before(i) \in SUBSET Before(j) /\ Before(j) \in SUBSET Ends(text)
      BY <2>1
    <2>. QED
      BY <1>1, <2>2, FS_Subset
  <1>4. /\ Cardinality(Before(i)) \in Nat /\ Cardinality(Before(j)) \in Nat
        /\ Cardinality(Before(i)) <= Cardinality(Before(j))
    BY <1>3, FS_Subset, FS_CardinalityType
  <1>5. j = i + 1 /\ i \notin Ends(text) => Before(i) = Before(j)
    <2>1. \A e \in Ends(text) : j = i + 1 /\ e # i => (e < i <=> e < j)
      BY <1>1, <1>2
    <2>. QED
      BY <2>1
  <1>6. /\ ClusterOf(text, i) = 1 + Cardinality(Before(i))
        /\ ClusterOf(text, j) = 1 + Cardinality(Before(j))
    BY DEF ClusterOf
  <1>. HIDE DEF Before
  <1>. QED
    BY <1>4, <1>5, <1>6

\* Clusters end between characters.
LEMMA EndsAtBoundary ==
    ASSUME NEW text \in Text, Len(text) <= MaxCompositionTextBytes, IsUtf8(text),
           NEW i \in Ends(text)
    PROVE  IsCharBoundary(text, i)
  <1>1. /\ Len(text) \in Nat /\ text \in [1..Len(text) -> Byte]
    BY LenProperties DEF Text
  <1>2. text \in CompositionText
    <2>1. Len(text) \in 0..MaxCompositionTextBytes
      BY <1>1, SessionAssumption
    <2>. QED
      BY <1>1, <2>1 DEF CompositionText
  <1>3. i \in 1..Len(text) /\ (i = Len(text) \/ Break(text, i))
    BY DEF Ends
  <1>4. CASE i = Len(text)
    BY <1>4 DEF IsCharBoundary
  <1>5. CASE i # Len(text)
    <2>1. i \in 1..(Len(text) - 1)
      <3>1. Len(text) \in Nat /\ i \in 1..Len(text) /\ i # Len(text)
        BY <1>1, <1>3, <1>5
      <3>. QED
        BY <3>1
    <2>2. Break(text, i)
      BY <1>3, <1>5
    <2>. QED
      BY <1>2, <2>1, <2>2, CharacterAssumption
  <1>. QED
    BY <1>4, <1>5

\* A cursor is never inside a character.
LEMMA OffsetAtBoundary ==
    ASSUME NEW text \in Text, Len(text) <= MaxCompositionTextBytes, IsUtf8(text),
           NEW index \in Int
    PROVE  IsCharBoundary(text, byte_offset_for_grapheme(text, index))
  <1>. DEFINE Covered == {i \in 1..Len(text) : ClusterOf(text, i) <= index}
              m == Cardinality(Covered)
  <1>1. Len(text) \in Nat /\ m \in 0..Len(text) /\ m = byte_offset_for_grapheme(text, index)
    BY EndsFinite, OffsetInText DEF byte_offset_for_grapheme
  <1>2. IsFiniteSet(Covered)
    <2>1. IsFiniteSet(1..Len(text)) /\ Covered \in SUBSET (1..Len(text))
      BY <1>1, PositionsFinite
    <2>. QED
      BY <2>1, FS_Subset
  <1>3. \A i \in 1..Len(text), j \in 1..Len(text) : i <= j /\ j \in Covered => i \in Covered
    <2>. SUFFICES ASSUME NEW i \in 1..Len(text), NEW j \in 1..Len(text), i <= j,
                         ClusterOf(text, j) <= index
                  PROVE  ClusterOf(text, i) <= index
      OBVIOUS
    <2>1. j \in i..Len(text)
      BY <1>1
    <2>2. /\ ClusterOf(text, i) \in Nat /\ ClusterOf(text, j) \in Nat
          /\ ClusterOf(text, i) <= ClusterOf(text, j)
      BY <2>1, LaterCluster
    <2>. QED
      BY <2>2
  <1>4. Covered \subseteq 1..Len(text)
    OBVIOUS
  <1>5. ASSUME m # 0, m # Len(text)
        PROVE  m \in Ends(text)
    <2>1. m \in 1..Len(text) /\ m + 1 \in 1..Len(text) /\ m \in Nat /\ m + 1 \in m..Len(text)
      BY <1>1, <1>5
    <2>2. m \in Covered
      <3>. SUFFICES ASSUME m \notin Covered PROVE FALSE
        OBVIOUS
      <3>1. Covered \in SUBSET (1..(m - 1))
        <4>. SUFFICES ASSUME NEW i \in Covered PROVE i \in 1..(m - 1)
          OBVIOUS
        <4>1. i \in 1..Len(text)
          BY <1>4
        <4>. HIDE DEF m, Covered
        <4>2. ~(m <= i)
          BY <1>3, <2>1, <4>1
        <4>. QED
          BY <1>1, <2>1, <4>1, <4>2
      <3>2. IsFiniteSet(1..(m - 1)) /\ Cardinality(1..(m - 1)) = m - 1
        <4>. HIDE DEF m
        <4>1. m - 1 \in Nat
          BY <2>1
        <4>. QED
          BY <4>1, PositionsFinite
      <3>3. m <= Cardinality(1..(m - 1))
        BY <3>1, <3>2, FS_Subset
      <3>. HIDE DEF m
      <3>. QED
        BY <2>1, <3>2, <3>3
    <2>3. m + 1 \notin Covered
      <3>. SUFFICES ASSUME m + 1 \in Covered PROVE FALSE
        OBVIOUS
      <3>1. (1..(m + 1)) \in SUBSET Covered
        <4>. SUFFICES ASSUME NEW i \in 1..(m + 1) PROVE i \in Covered
          OBVIOUS
        <4>. HIDE DEF m, Covered
        <4>1. i \in 1..Len(text) /\ i <= m + 1
          BY <1>1, <2>1
        <4>. QED
          BY <1>3, <2>1, <4>1
      <3>2. Cardinality(1..(m + 1)) = m + 1
        <4>. HIDE DEF m
        <4>1. m + 1 \in Nat
          BY <2>1
        <4>. QED
          BY <4>1, PositionsFinite
      <3>3. Cardinality(1..(m + 1)) <= m
        BY <1>2, <3>1, FS_Subset
      <3>. HIDE DEF m
      <3>. QED
        BY <2>1, <3>2, <3>3
    <2>4. ClusterOf(text, m) <= index /\ ~(ClusterOf(text, m + 1) <= index)
      BY <2>1, <2>2, <2>3
    <2>. HIDE DEF m, Covered
    <2>. QED
      BY <2>1, <2>4, LaterCluster
  <1>6. IsCharBoundary(text, m)
    <2>. HIDE DEF m
    <2>1. CASE m = 0 \/ m = Len(text)
      BY <2>1 DEF IsCharBoundary
    <2>2. CASE ~(m = 0 \/ m = Len(text))
      BY <1>5, <2>2, EndsAtBoundary
    <2>. QED
      BY <2>1, <2>2
  <1>. QED
    BY <1>1, <1>6

-----------------------------------------------------------------------------
(* Edits.                                                                  *)

\* A composer an edit may start from.
Editable(c) == /\ c \in Composers /\ CursorInText(c)
               /\ Len(c.text) <= MaxCompositionTextBytes /\ IsUtf8(c.text)

\* A splice between boundaries cuts no character.
LEMMA SpliceUtf8 ==
    ASSUME NEW text \in Text, IsUtf8(text), NEW inserted \in Text, IsUtf8(inserted),
           NEW start \in 0..Len(text), IsCharBoundary(text, start),
           NEW end \in 0..Len(text), IsCharBoundary(text, end)
    PROVE  IsUtf8(Splice(text, start, end, inserted))
  <1>. DEFINE left  == SubSeq(text, 1, start)
              right == SubSeq(text, end + 1, Len(text))
  <1>1. left \in Text /\ IsUtf8(left)
    BY Utf8Cut
  <1>2. right \in Text /\ IsUtf8(right)
    BY Utf8Cut
  <1>. HIDE DEF left, right
  <1>3. left \o inserted \in Text /\ IsUtf8(left \o inserted)
    BY <1>1, Utf8Joined
  <1>4. IsUtf8((left \o inserted) \o right)
    BY <1>2, <1>3, Utf8Joined
  <1>. QED
    BY <1>4 DEF Splice, left, right

\* The cursor of a composer, and those next to it, are boundaries.
LEMMA CursorAtBoundary ==
    ASSUME NEW c, Editable(c), NEW index \in Int
    PROVE  LET at == byte_offset_for_grapheme(c.text, index)
           IN  at \in 0..Len(c.text) /\ IsCharBoundary(c.text, at)
  <1>1. c.text \in Text /\ Len(c.text) <= MaxCompositionTextBytes /\ IsUtf8(c.text)
    BY DEF Editable, Composers
  <1>. QED
    BY <1>1, OffsetInText, OffsetAtBoundary

\* No text is cut.
LEMMA EmptyUtf8 == <<>> \in Text /\ IsUtf8(<<>>)
  <1>1. <<>> \in Text /\ DOMAIN <<>> = {}
    BY EmptySeq DEF Text
  <1>. QED
    BY <1>1 DEF IsUtf8

\* What is inserted is put between characters.
LEMMA InsertedUtf8 ==
    ASSUME NEW c, Editable(c), NEW text \in Text, IsUtf8(text)
    PROVE  IsUtf8(Inserted(c, text).text)
  <1>. DEFINE at == cursor_utf8_byte_offset(c)
  <1>1. c.text \in Text /\ IsUtf8(c.text) /\ c.cursor_grapheme \in Int
    BY DEF Editable, Composers
  <1>2. at \in 0..Len(c.text) /\ IsCharBoundary(c.text, at)
    BY <1>1, CursorAtBoundary DEF cursor_utf8_byte_offset
  <1>3. Inserted(c, text).text = Splice(c.text, at, at, text)
    BY DEF Inserted, Placed
  <1>. HIDE DEF at
  <1>. QED
    BY <1>1, <1>2, <1>3, SpliceUtf8

\* What is removed before the cursor is characters.
LEMMA BackspacedUtf8 ==
    ASSUME NEW c, Editable(c)
    PROVE  Editable(Backspaced(c))
  <1>. DEFINE start == byte_offset_for_grapheme(c.text, c.cursor_grapheme - 1)
              end   == cursor_utf8_byte_offset(c)
  <1>1. /\ c \in Composers /\ CursorInText(c) /\ c.text \in Text /\ IsUtf8(c.text)
        /\ c.cursor_grapheme \in Int /\ c.cursor_grapheme - 1 \in Int
        /\ Len(c.text) <= MaxCompositionTextBytes
    BY DEF Editable, Composers
  <1>2. /\ start \in 0..Len(c.text) /\ IsCharBoundary(c.text, start)
        /\ end \in 0..Len(c.text) /\ IsCharBoundary(c.text, end)
    BY <1>1, CursorAtBoundary DEF cursor_utf8_byte_offset
  <1>3. Backspaced(c).text = IF c.cursor_grapheme = 0 THEN c.text
                             ELSE Splice(c.text, start, end, <<>>)
    BY DEF Backspaced, Placed
  <1>. HIDE DEF start, end
  <1>4. IsUtf8(Backspaced(c).text)
    <2>1. IsUtf8(Splice(c.text, start, end, <<>>))
      BY <1>1, <1>2, EmptyUtf8, SpliceUtf8
    <2>. QED
      BY <1>1, <1>3, <2>1
  <1>5. /\ Backspaced(c) \in Composers /\ CursorInText(Backspaced(c))
        /\ Len(Backspaced(c).text) <= Len(c.text)
    BY <1>1, BackspacedSound
  <1>6. Len(Backspaced(c).text) \in Nat /\ Len(c.text) \in Nat
    BY <1>1, <1>5, EndsFinite DEF Composers
  <1>7. Len(Backspaced(c).text) <= MaxCompositionTextBytes
    BY <1>1, <1>5, <1>6, SessionAssumption
  <1>. QED
    BY <1>4, <1>5, <1>7 DEF Editable

\* What is removed after the cursor is characters.
LEMMA DeletedForwardUtf8 ==
    ASSUME NEW c, Editable(c)
    PROVE  Editable(DeletedForward(c))
  <1>. DEFINE start == cursor_utf8_byte_offset(c)
              end   == byte_offset_for_grapheme(c.text, c.cursor_grapheme + 1)
  <1>1. /\ c \in Composers /\ CursorInText(c) /\ c.text \in Text /\ IsUtf8(c.text)
        /\ c.cursor_grapheme \in Int /\ c.cursor_grapheme + 1 \in Int
        /\ Len(c.text) <= MaxCompositionTextBytes
    BY DEF Editable, Composers
  <1>2. /\ start \in 0..Len(c.text) /\ IsCharBoundary(c.text, start)
        /\ end \in 0..Len(c.text) /\ IsCharBoundary(c.text, end)
    BY <1>1, CursorAtBoundary DEF cursor_utf8_byte_offset
  <1>3. DeletedForward(c).text = IF AtEnd(c) THEN c.text
                                 ELSE Splice(c.text, start, end, <<>>)
    BY DEF DeletedForward, Placed
  <1>. HIDE DEF start, end
  <1>4. IsUtf8(DeletedForward(c).text)
    <2>1. IsUtf8(Splice(c.text, start, end, <<>>))
      BY <1>1, <1>2, EmptyUtf8, SpliceUtf8
    <2>. QED
      BY <1>1, <1>3, <2>1
  <1>5. /\ DeletedForward(c) \in Composers /\ CursorInText(DeletedForward(c))
        /\ Len(DeletedForward(c).text) <= Len(c.text)
    BY <1>1, DeletedForwardSound
  <1>6. Len(DeletedForward(c).text) \in Nat /\ Len(c.text) \in Nat
    BY <1>1, <1>5, EndsFinite DEF Composers
  <1>7. Len(DeletedForward(c).text) <= MaxCompositionTextBytes
    BY <1>1, <1>5, <1>6, SessionAssumption
  <1>. QED
    BY <1>4, <1>5, <1>7 DEF Editable

\* A key pressed once or twice inserts its character as often.
LEMMA RepeatedUtf8 ==
    ASSUME NEW text \in Text, IsUtf8(text), NEW times \in 1..MaxRepeat
    PROVE  IsUtf8(Repeated(text, times))
  <1>. DEFINE n == Len(text)
  <1>0. n \in Nat
    BY TextAt
  <1>1. text = [i \in 1..n |-> text[i]]
    BY TextAt DEF Text
  <1>. HIDE DEF n
  <1>2. times = 1 \/ times = 2
    BY DEF MaxRepeat
  <1>3. CASE times = 1
    <2>1. times * n = n
      BY <1>0, <1>3
    <2>2. ASSUME NEW i \in 1..n PROVE ((i - 1) % n) + 1 = i
      <3>1. i - 1 \in 0..(n - 1)
        BY <1>0
      <3>2. (i - 1) % n = i - 1
        BY <1>0, <3>1
      <3>. QED
        BY <1>0, <3>2
    <2>3. Repeated(text, times) = [i \in 1..n |-> text[((i - 1) % n) + 1]]
      BY <2>1 DEF Repeated, n
    <2>4. Repeated(text, times) = text
      BY <1>1, <2>2, <2>3
    <2>. QED
      BY <2>4
  <1>4. CASE times = 2
    <2>. DEFINE both == text \o text
    <2>1. times * n = n + n
      BY <1>0, <1>4
    <2>2. /\ both \in Text /\ Len(both) = n + n
          /\ \A i \in 1..n : both[i] = text[i]
          /\ \A i \in 1..n : both[n + i] = text[i]
      BY JoinedAt DEF n
    <2>. HIDE DEF both
    <2>3. both = [i \in 1..(n + n) |-> both[i]]
      BY <2>2 DEF Text
    <2>4. Repeated(text, times) = [i \in 1..(n + n) |-> text[((i - 1) % n) + 1]]
      BY <2>1 DEF Repeated, n
    <2>5. ASSUME NEW i \in 1..(n + n)
          PROVE  text[((i - 1) % n) + 1] = both[i]
      <3>1. CASE i <= n
        <4>1. i \in 1..n
          BY <1>0, <3>1
        <4>2. (i - 1) % n = i - 1
          BY <1>0, <4>1
        <4>3. ((i - 1) % n) + 1 = i
          BY <1>0, <4>1, <4>2
        <4>. QED
          BY <2>2, <4>1, <4>3
      <3>2. CASE ~(i <= n)
        <4>1. i - n \in 1..n /\ n + (i - n) = i /\ i - 1 \in n..(2 * n - 1)
          BY <1>0, <3>2
        <4>2. (i - 1) % n = (i - 1) - n
          <5>. DEFINE a == i - 1
          <5>1. a \in n..(2 * n - 1)
            BY <4>1
          <5>. HIDE DEF a
          <5>2. a % n = a - n
            BY <1>0, <5>1
          <5>. QED
            BY <5>2 DEF a
        <4>3. ((i - 1) % n) + 1 = i - n
          BY <1>0, <4>1, <4>2
        <4>4. both[n + (i - n)] = text[i - n]
          BY <2>2, <4>1
        <4>. QED
          BY <4>1, <4>3, <4>4
      <3>. QED
        BY <3>1, <3>2
    <2>6. Repeated(text, times) = both
      BY <2>3, <2>4, <2>5
    <2>7. IsUtf8(both)
      BY Utf8Joined DEF both
    <2>. QED
      BY <2>6, <2>7
  <1>. QED
    BY <1>2, <1>3, <1>4

-----------------------------------------------------------------------------
(* Every call keeps characters whole.                                      *)

\* What a refused commit would bring back is characters too.
RecoveryIsUtf8 ==
    \A id \in DOMAIN pending_actions : \A recovery \in pending_actions[id].recovery :
        IsUtf8(recovery.composer.text)

CharInv == IInv /\ IsUtf8(composer.text) /\ RecoveryIsUtf8

\* All that some actions can bring back is a composer.
Recovers(actions, c) ==
    \A id \in DOMAIN actions : \A recovery \in actions[id].recovery : recovery.composer = c

\* What an event does to texts: it composes nothing, what was composed, or an edit of it;
\* and only what was composed can come back.
Composes(edited) == /\ composer' \in {composer, EmptyComposer, edited}
                    /\ Recovers(pending_actions', composer)

\* An event forgets what older actions could bring back.
LEMMA LiveRecovers ==
    ASSUME IInv, NEW c, NEW ids
    PROVE  /\ Recovers(Live, c) /\ NoRecovery(Live)
           /\ Recovers(Without(Live, ids), c) /\ NoRecovery(Without(Live, ids))
           /\ Recovers(<<>>, c) /\ NoRecovery(<<>>)
  <1>1. NoRecovery(Live) /\ Typed(Live, next_action_id)
    BY LiveSound DEF IInv
  <1>2. /\ DOMAIN Without(Live, ids) = DOMAIN Live \ ids
        /\ \A id \in DOMAIN Live \ ids : Without(Live, ids)[id] = Live[id]
    BY <1>1, WithoutTyped
  <1>3. NoRecovery(Without(Live, ids))
    BY <1>1, <1>2 DEF NoRecovery
  <1>4. NoRecovery(<<>>)
    BY DEF NoRecovery
  <1>. QED
    BY <1>1, <1>3, <1>4 DEF NoRecovery, Recovers

\* An action issued can bring back what it saved.
LEMMA AllocateRecovers ==
    ASSUME NEW actions, NoRecovery(actions), NEW action, NEW c,
           \A recovery \in action.recovery : recovery.composer = c,
           Allocate(actions, action)
    PROVE  Recovers(pending_actions', c)
  <1>1. CASE next_action_id = U64Max
    BY <1>1 DEF Allocate, Recovers, NoRecovery
  <1>2. CASE next_action_id # U64Max
    <2>1. pending_actions' = [id \in DOMAIN actions \cup {next_action_id} |->
                                IF id = next_action_id THEN action ELSE actions[id]]
      BY <1>2 DEF Allocate
    <2>. QED
      BY <2>1 DEF Recovers, NoRecovery
  <1>. QED
    BY <1>1, <1>2

\* A plain action brings nothing back.
LEMMA PlainRecovers ==
    ASSUME NEW actions, NoRecovery(actions), NEW kind, NEW revision,
           Allocate(actions, PlainAction(kind, revision))
    PROVE  Recovers(pending_actions', composer)
  <1>1. PlainAction(kind, revision).recovery = {}
    BY DEF PlainAction, Action
  <1>. QED
    BY <1>1, AllocateRecovers

LEMMA AnswerComposes ==
    ASSUME IInv, NEW outcome, Answer(outcome), NEW edited
    PROVE  Composes(edited)
  BY LiveRecovers DEF Composes, Answer, view

LEMMA CompositionEditComposes ==
    ASSUME IInv, NEW edited, CompositionEdit(edited)
    PROVE  Composes(edited)
  <1>. DEFINE actions == Without(Live, SupersededByEdit)
  <1>1. Recovers(actions, composer) /\ NoRecovery(actions)
    BY LiveRecovers
  <1>2. composer' \in {composer, edited}
    BY DEF CompositionEdit, view
  <1>3. \/ pending_actions' = actions
        \/ Allocate(actions, CompositionUpdate(edited, state_revision + 1))
    BY DEF CompositionEdit
  <1>4. CompositionUpdate(edited, state_revision + 1).recovery = {}
    BY DEF CompositionUpdate, PlainAction, Action
  <1>. HIDE DEF actions
  <1>5. Recovers(pending_actions', composer)
    BY <1>1, <1>3, <1>4, AllocateRecovers
  <1>. QED
    BY <1>2, <1>5 DEF Composes

LEMMA CommitTextComposes ==
    ASSUME IInv, NEW text, CommitText(text), NEW edited
    PROVE  Composes(edited)
  <1>. DEFINE actions  == Without(Live, CompositionUpdates)
              recovery == [composer |-> composer, post_commit_revision |-> state_revision + 1,
                           context_epoch |-> context.context_epoch,
                           input_sequence |-> input_sequence + 1]
              action == Action("CommitText", text, 0, state_revision + 1, {recovery})
  <1>1. Recovers(actions, composer) /\ NoRecovery(actions)
    BY LiveRecovers
  <1>2. composer' \in {composer, EmptyComposer}
    BY DEF CommitText, ClearComposition, view
  <1>3. pending_actions' = actions \/ Allocate(actions, action)
    BY DEF CommitText
  <1>4. \A saved \in action.recovery : saved.composer = composer
    BY DEF Action
  <1>. HIDE DEF actions, action
  <1>5. Recovers(pending_actions', composer)
    BY <1>1, <1>3, <1>4, AllocateRecovers
  <1>. QED
    BY <1>2, <1>5 DEF Composes

LEMMA CancelComposes ==
    ASSUME IInv, cancel, NEW edited
    PROVE  Composes(edited)
  <1>. DEFINE actions == Without(Live, CompositionUpdates)
  <1>1. Recovers(actions, composer) /\ NoRecovery(actions)
    BY LiveRecovers
  <1>2. CASE phase = "Idle"
    BY <1>2, AnswerComposes DEF cancel
  <1>3. CASE phase # "Idle"
    <2>1. composer' \in {composer, EmptyComposer}
      BY <1>3 DEF cancel, ClearComposition, view
    <2>2. \/ pending_actions' = actions
          \/ Allocate(actions, PlainAction("CancelComposition", state_revision + 1))
      BY <1>3 DEF cancel
    <2>. HIDE DEF actions
    <2>3. Recovers(pending_actions', composer)
      BY <1>1, <2>2, PlainRecovers
    <2>. QED
      BY <2>1, <2>3 DEF Composes
  <1>. QED
    BY <1>2, <1>3

LEMMA ResetComposes ==
    ASSUME IInv, Reset, NEW edited
    PROVE  Composes(edited)
  <1>1. Recovers(<<>>, composer) /\ NoRecovery(<<>>)
    BY LiveRecovers
  <1>2. composer' = EmptyComposer
    BY DEF Reset, ClearComposition
  <1>3. \/ pending_actions' = <<>>
        \/ \E revision : Allocate(<<>>, PlainAction("RequestPlatformReset", revision))
    BY DEF Reset
  <1>4. Recovers(pending_actions', composer)
    BY <1>1, <1>3, PlainRecovers
  <1>. QED
    BY <1>2, <1>4 DEF Composes

\* What an event composes is characters, if what it edits in is.
LEMMA ComposesUtf8 ==
    ASSUME CharInv, NEW edited, IsUtf8(edited.text), Composes(edited), IInv'
    PROVE  CharInv'
  <1>1. IsUtf8(EmptyComposer.text)
    BY EmptyUtf8 DEF EmptyComposer
  <1>2. IsUtf8(composer'.text)
    BY <1>1 DEF Composes, CharInv
  <1>3. RecoveryIsUtf8'
    BY DEF RecoveryIsUtf8, Composes, Recovers, CharInv
  <1>. QED
    BY <1>2, <1>3 DEF CharInv

-----------------------------------------------------------------------------
(* Events.                                                                 *)

\* The composer is fit for an edit.
LEMMA ComposerEditable ==
    ASSUME CharInv
    PROVE  Editable(composer)
  BY ComposerSound DEF CharInv, Editable, IInv, ViewSound, CompositionWithinLimit

\* An edit that keeps characters whole.
ComposesUtf8Text == \E edited : IsUtf8(edited.text) /\ Composes(edited)

LEMMA AnswerUtf8 ==
    ASSUME CharInv, NEW outcome, Answer(outcome)
    PROVE  ComposesUtf8Text
  BY AnswerComposes DEF CharInv, ComposesUtf8Text

LEMMA EditUtf8 ==
    ASSUME CharInv, NEW edited, IsUtf8(edited.text), CompositionEdit(edited)
    PROVE  ComposesUtf8Text
  BY CompositionEditComposes DEF CharInv, ComposesUtf8Text

LEMMA CommitUtf8 ==
    ASSUME CharInv, NEW text, CommitText(text)
    PROVE  ComposesUtf8Text
  BY CommitTextComposes DEF CharInv, ComposesUtf8Text

LEMMA InsertUtf8 ==
    ASSUME CharInv, NEW text \in Text, IsUtf8(text), insert_text(text)
    PROVE  ComposesUtf8Text
  <1>1. IsUtf8(Inserted(composer, text).text)
    BY ComposerEditable, InsertedUtf8
  <1>2. (\E outcome : Answer(outcome)) \/ CompositionEdit(Inserted(composer, text))
    BY DEF insert_text
  <1>. QED
    BY <1>1, <1>2, AnswerUtf8, EditUtf8

LEMMA BackspaceUtf8 ==
    ASSUME CharInv, NEW count, backspace(count)
    PROVE  ComposesUtf8Text
  <1>1. CASE phase = "Idle"
    <2>1. NoRecovery(Live) /\ Recovers(Live, composer)
      BY LiveRecovers DEF CharInv
    <2>2. /\ composer' = composer
          /\ \/ pending_actions' = Live
             \/ Allocate(Live, PlainAction("DeleteBackward", state_revision))
      BY <1>1 DEF backspace, view
    <2>3. Recovers(pending_actions', composer)
      BY <2>1, <2>2, PlainRecovers
    <2>. QED
      BY <2>2, <2>3 DEF Composes, CharInv, ComposesUtf8Text
  <1>2. CASE phase # "Idle"
    <2>1. Editable(BackspacedTimes(composer, count))
      BY ComposerEditable, BackspacedUtf8 DEF BackspacedTimes
    <2>2. (\E outcome : Answer(outcome)) \/ CompositionEdit(BackspacedTimes(composer, count))
      BY <1>2 DEF backspace
    <2>. QED
      BY <2>1, <2>2, AnswerUtf8, EditUtf8 DEF Editable
  <1>. QED
    BY <1>1, <1>2

LEMMA DeleteForwardUtf8 ==
    ASSUME CharInv, NEW count, delete_forward(count)
    PROVE  ComposesUtf8Text
  <1>1. Editable(DeletedForwardTimes(composer, count))
    BY ComposerEditable, DeletedForwardUtf8 DEF DeletedForwardTimes
  <1>2. (\E outcome : Answer(outcome)) \/ CompositionEdit(DeletedForwardTimes(composer, count))
    BY DEF delete_forward
  <1>. QED
    BY <1>1, <1>2, AnswerUtf8, EditUtf8 DEF Editable

LEMMA MoveCursorUtf8 ==
    ASSUME CharInv, NEW delta \in Int, move_composition_cursor(delta)
    PROVE  ComposesUtf8Text
  <1>1. Moved(composer, delta).text = composer.text
    BY ComposerEditable, MovedSound DEF Editable
  <1>2. (\E outcome : Answer(outcome)) \/ CompositionEdit(Moved(composer, delta))
    BY DEF move_composition_cursor
  <1>. QED
    BY <1>1, <1>2, AnswerUtf8, EditUtf8 DEF CharInv

LEMMA CommitEventUtf8 ==
    ASSUME CharInv, commit
    PROVE  ComposesUtf8Text
  BY AnswerUtf8, CommitUtf8 DEF commit

LEMMA CancelUtf8 ==
    ASSUME CharInv, cancel
    PROVE  ComposesUtf8Text
  BY CancelComposes DEF CharInv, ComposesUtf8Text

\* A key is one of the logical inputs; what it inserts is its character, as often as
\* it repeats.
LEMMA HardwareKeyUtf8 ==
    ASSUME CharInv, NEW event \in HardwareKeys, HardwareKey(event)
    PROVE  ComposesUtf8Text
  <1>. DEFINE logical == IF HardwareKeySupport THEN Normalized(event, phase # "Idle")
                         ELSE PassThrough
              input   == logical.input
  <1>1. event \in HardwareKeyEvents(InsertTexts \ {<<>>}) /\ InsertTexts \subseteq Text
    BY SessionAssumption
  <1>2. Times(event) \in 1..MaxRepeat
    BY <1>1 DEF Times, HardwareKeyEvents, MaxRepeat
  <1>3. ASSUME input = "InsertText"
        PROVE  logical.text \in Text /\ IsUtf8(logical.text)
    <2>1. "character" \in DOMAIN event.key
      BY <1>1, <1>3 DEF Normalized, PassThrough, HardwareKeyEvents, EditingKeys
    <2>2. event.key.character \in InsertTexts
      BY <1>1, <2>1 DEF HardwareKeyEvents
    <2>3. event.key.character \in Text /\ IsUtf8(event.key.character)
      BY <1>1, <2>2, CharacterAssumption
    <2>4. logical = [input |-> "InsertText",
                     text |-> Repeated(event.key.character, Times(event))]
      BY <1>3, <2>1 DEF Normalized, PassThrough
    <2>5. Times(event) \in Nat
      BY <1>2 DEF MaxRepeat
    <2>. QED
      BY <1>2, <2>3, <2>4, <2>5, RepeatedText, RepeatedUtf8
  <1>4. ASSUME input = "MoveCompositionCursor"
        PROVE  logical.delta \in Int
    <2>1. \/ logical = [input |-> "MoveCompositionCursor", delta |-> -Times(event)]
          \/ logical = [input |-> "MoveCompositionCursor", delta |-> Times(event)]
      BY <1>1, <1>4 DEF Normalized, PassThrough, HardwareKeyEvents, EditingKeys
    <2>. QED
      BY <1>2, <2>1 DEF MaxRepeat
  <1>5. \/ input = "PassThrough" /\ Answer("PassThrough")
        \/ input = "InsertText" /\ insert_text(logical.text)
        \/ input = "Backspace" /\ backspace(logical.count)
        \/ input = "DeleteForward" /\ delete_forward(logical.count)
        \/ input = "MoveCompositionCursor" /\ move_composition_cursor(logical.delta)
        \/ input = "Commit" /\ commit
        \/ input = "Cancel" /\ cancel
    BY DEF HardwareKey
  <1>. HIDE DEF logical, input
  <1>. QED
    BY <1>3, <1>4, <1>5, AnswerUtf8, InsertUtf8, BackspaceUtf8, DeleteForwardUtf8,
       MoveCursorUtf8, CommitEventUtf8, CancelUtf8

\* An event that leaves the composer and brings nothing back.
LEMMA QuietUtf8 ==
    ASSUME CharInv, composer' = composer, pending_actions' = Live
    PROVE  ComposesUtf8Text
  <1>1. Recovers(Live, composer)
    BY LiveRecovers DEF CharInv
  <1>. QED
    BY <1>1 DEF Composes, CharInv, ComposesUtf8Text

LEMMA SelectCandidateUtf8 ==
    ASSUME CharInv, NEW id, NEW revision, SelectCandidate(id, revision)
    PROVE  ComposesUtf8Text
  <1>1. (\E outcome : Answer(outcome)) \/ (\E text : CommitText(text))
    BY DEF SelectCandidate
  <1>. QED
    BY <1>1, AnswerUtf8, CommitUtf8

LEMMA MoveCandidateSelectionUtf8 ==
    ASSUME CharInv, NEW delta, MoveCandidateSelection(delta)
    PROVE  ComposesUtf8Text
  <1>1. \/ \E outcome : Answer(outcome)
        \/ composer' = composer /\ pending_actions' = Live
    BY DEF MoveCandidateSelection
  <1>. QED
    BY <1>1, AnswerUtf8, QuietUtf8

LEMMA ContextChangedUtf8 ==
    ASSUME CharInv, NEW raw, ContextChanged(raw)
    PROVE  ComposesUtf8Text
  <1>1. \/ \E outcome : Answer(outcome)
        \/ composer' = composer /\ pending_actions' = Live
    BY DEF ContextChanged
  <1>. QED
    BY <1>1, AnswerUtf8, QuietUtf8

\* Any event keeps characters whole.
LEMMA EventUtf8 ==
    ASSUME CharInv, ProcessEvent, IInv'
    PROVE  CharInv'
  <1>1. CASE InputSequenceExhausted
    BY <1>1 DEF InputSequenceExhausted, view, ledger, CharInv, RecoveryIsUtf8
  <1>2. CASE ~InputSequenceExhausted
    <2>1. ASSUME NEW text \in InsertTexts, InsertText(text)
          PROVE  ComposesUtf8Text
      BY <2>1, InsertUtf8, SessionAssumption, CharacterAssumption DEF InsertText
    <2>2. ASSUME NEW delta \in CursorDeltas, MoveCompositionCursor(delta)
          PROVE  ComposesUtf8Text
      BY <2>2, MoveCursorUtf8, SessionAssumption DEF MoveCompositionCursor
    <2>3. Reset => ComposesUtf8Text
      BY ResetComposes DEF CharInv, ComposesUtf8Text
    <2>4. Backspace \/ DeleteForward \/ Commit \/ Cancel => ComposesUtf8Text
      BY BackspaceUtf8, DeleteForwardUtf8, CommitEventUtf8, CancelUtf8
         DEF Backspace, DeleteForward, Commit, Cancel
    <2>5. UnsupportedEvent => ComposesUtf8Text
      BY AnswerUtf8 DEF UnsupportedEvent
    <2>6. (\E event \in HardwareKeys : HardwareKey(event)) => ComposesUtf8Text
      BY HardwareKeyUtf8
    <2>7. (\E id \in 1..(Len(candidate_snapshot.entries) + 1), revision \in 0..state_revision :
              SelectCandidate(id, revision)) => ComposesUtf8Text
      BY SelectCandidateUtf8
    <2>8. \/ \E delta \in SelectionDeltas : MoveCandidateSelection(delta)
          \/ \E raw \in Contexts : ContextChanged(raw)
          => ComposesUtf8Text
      BY MoveCandidateSelectionUtf8, ContextChangedUtf8
    <2>9. ComposesUtf8Text
      BY <1>2, <2>1, <2>2, <2>3, <2>4, <2>5, <2>6, <2>7, <2>8 DEF ProcessEvent
    <2>. QED
      BY <2>9, ComposesUtf8 DEF ComposesUtf8Text
  <1>. QED
    BY <1>1, <1>2

-----------------------------------------------------------------------------
(* Acknowledgements.                                                       *)

\* A commit that is refused brings back what it saved, which is characters.
LEMMA AcknowledgeUtf8 ==
    ASSUME CharInv, NEW id, NEW disposition, AcknowledgeAction(id, disposition), IInv'
    PROVE  CharInv'
  <1>1. CASE id \notin DOMAIN pending_actions
    BY <1>1 DEF AcknowledgeAction, view, ledger, CharInv, RecoveryIsUtf8
  <1>2. CASE id \in DOMAIN pending_actions
    <2>1. AcknowledgePending(id, disposition)
      BY <1>2 DEF AcknowledgeAction
    <2>2. pending_actions' = Without(pending_actions, {id})
      BY <2>1 DEF AcknowledgePending, Resolve, RestoreCommit
    <2>3. /\ DOMAIN Without(pending_actions, {id}) = DOMAIN pending_actions \ {id}
          /\ \A other \in DOMAIN pending_actions \ {id} :
               Without(pending_actions, {id})[other] = pending_actions[other]
      BY WithoutTyped DEF CharInv, IInv, LedgerSound
    <2>4. RecoveryIsUtf8'
      BY <2>2, <2>3 DEF CharInv, RecoveryIsUtf8
    <2>5. \/ composer' = composer
          \/ \E recovery \in pending_actions[id].recovery : composer' = recovery.composer
      BY <2>1 DEF AcknowledgePending, Resolve, RestoreCommit, view
    <2>6. IsUtf8(composer'.text)
      BY <1>2, <2>5 DEF CharInv, RecoveryIsUtf8
    <2>. QED
      BY <2>4, <2>6 DEF CharInv
  <1>. QED
    BY <1>1, <1>2

\* A session begins with no text, and every step keeps characters whole.
LEMMA CharStart == Init => CharInv
  <1>. SUFFICES ASSUME Init PROVE CharInv
    OBVIOUS
  <1>1. IInv
    BY InitSound
  <1>2. IsUtf8(composer.text)
    BY EmptyUtf8 DEF Init, EmptyComposer
  <1>3. RecoveryIsUtf8
    BY DEF Init, RecoveryIsUtf8
  <1>. QED
    BY <1>1, <1>2, <1>3 DEF CharInv

LEMMA CharStep == CharInv /\ [Next]_vars => CharInv'
  <1>. SUFFICES ASSUME CharInv, [Next]_vars PROVE CharInv'
    OBVIOUS
  <1>1. IInv'
    BY StepSound DEF CharInv
  <1>2. CASE UNCHANGED vars
    BY <1>1, <1>2 DEF vars, view, ledger, CharInv, RecoveryIsUtf8
  <1>3. CASE ProcessEvent
    BY <1>1, <1>3, EventUtf8
  <1>4. CASE Acknowledge
    BY <1>1, <1>4, AcknowledgeUtf8 DEF Acknowledge
  <1>. QED
    BY <1>2, <1>3, <1>4 DEF Next

\* A cursor in whole characters is between two of them.
LEMMA CharactersWhole == CharInv => CompositionIsUtf8
  <1>. SUFFICES ASSUME CharInv PROVE CompositionIsUtf8
    OBVIOUS
  <1>1. Editable(composer) /\ composer.cursor_grapheme \in Int
    BY ComposerEditable DEF Editable, Composers
  <1>2. IsCharBoundary(composer.text, cursor_utf8_byte_offset(composer))
    BY <1>1, CursorAtBoundary DEF cursor_utf8_byte_offset
  <1>. QED
    BY <1>2 DEF CompositionIsUtf8, CharInv

\* The composition is whole characters and the cursor is between two of them, whatever
\* the alphabet and the clusters: nothing String panics at.
THEOREM CompositionAlwaysUtf8 == Spec => []CompositionIsUtf8
  BY CharStart, CharStep, CharactersWhole, PTL DEF Spec

-----------------------------------------------------------------------------
(* The ledger: a session keeps the promises of ActionLedger, and a call    *)
(* that fails leaves its ledger and its view as they were.                 *)

\* Both memories within their limits, and no action in both.
Capacity ==
    /\ Cardinality(DOMAIN pending_actions) <= MaxOutstandingActions
    /\ Cardinality(DOMAIN resolved_actions) <= MaxResolvedActionHistory
    /\ DOMAIN pending_actions \cap DOMAIN resolved_actions = {}

LInv == IInv /\ Capacity

\* What a call may do to the ledger: settle some actions, with or without recording
\* them, and issue one if there is room.
Settles(settled, d) ==
    /\ settled \in SUBSET DOMAIN pending_actions
    /\ d \in Dispositions
    /\ resolved_actions' = Recorded(settled, d) \/ UNCHANGED resolved_actions
    /\ \/ /\ DOMAIN pending_actions' = DOMAIN pending_actions \ settled
          /\ UNCHANGED next_action_id
       \/ /\ DOMAIN pending_actions' = (DOMAIN pending_actions \ settled) \cup {next_action_id}
          /\ next_action_id' = next_action_id + 1
          /\ Cardinality(DOMAIN pending_actions \ settled) < MaxOutstandingActions

\* What FailedCallIsClean says of one step.
CleanFailure ==
    reply' \in Errors =>
       /\ UNCHANGED <<state_revision, view, context, next_action_id, resolved_actions, host>>
       /\ DOMAIN pending_actions' = DOMAIN pending_actions

LedgerKept == CleanFailure /\ \E settled, d : Settles(settled, d)

-----------------------------------------------------------------------------
(* The history.                                                            *)

\* The identifiers issued are numbers, and finitely many.
LEMMA LedgerFinite ==
    ASSUME IInv
    PROVE  /\ next_action_id \in Nat \ {0}
           /\ DOMAIN pending_actions \subseteq 1..(next_action_id - 1)
           /\ DOMAIN resolved_actions \subseteq 1..(next_action_id - 1)
           /\ IsFiniteSet(DOMAIN pending_actions)
           /\ IsFiniteSet(DOMAIN resolved_actions)
           /\ Cardinality(DOMAIN pending_actions) \in Nat
           /\ Cardinality(DOMAIN resolved_actions) \in Nat
  <1>1. next_action_id \in Nat \ {0}
    BY SessionAssumption DEF IInv, LedgerSound, ActionId
  <1>2. IsFiniteSet(1..(next_action_id - 1))
    BY <1>1, FS_Interval
  <1>3. /\ DOMAIN pending_actions \in SUBSET (1..(next_action_id - 1))
        /\ DOMAIN resolved_actions \in SUBSET (1..(next_action_id - 1))
    BY DEF IInv, LedgerSound, Typed
  <1>4. IsFiniteSet(DOMAIN pending_actions) /\ IsFiniteSet(DOMAIN resolved_actions)
    BY <1>2, <1>3, FS_Subset
  <1>. QED
    BY <1>1, <1>3, <1>4, FS_CardinalityType

\* The highest identifiers of a set, as many as the history holds: each is told from
\* the others by how many lie above it.
LEMMA KeptBounded ==
    ASSUME NEW ids \in SUBSET Nat, IsFiniteSet(ids)
    PROVE  /\ IsFiniteSet(Kept(ids))
           /\ Cardinality(Kept(ids)) <= MaxResolvedActionHistory
  <1>. DEFINE Above(i) == {j \in ids : j > i}
              N == MaxResolvedActionHistory
              rank == [i \in Kept(ids) |-> Cardinality(Above(i))]
  <1>1. N \in Nat \ {0} /\ Kept(ids) \subseteq ids
    BY SessionAssumption DEF Kept
  <1>2. \A i \in ids : IsFiniteSet(Above(i)) /\ Cardinality(Above(i)) \in Nat
    <2>. TAKE i \in ids
    <2>1. Above(i) \in SUBSET ids
      OBVIOUS
    <2>. QED
      BY <2>1, FS_Subset, FS_CardinalityType
  <1>3. \A i, j \in ids : i < j => Cardinality(Above(j)) < Cardinality(Above(i))
    <2>. TAKE i, j \in ids
    <2>. HAVE i < j
    <2>1. j \in Above(i) /\ Above(j) \in SUBSET (Above(i) \ {j})
      <3>1. \A k \in ids : k \in Int
        OBVIOUS
      <3>2. j \in Above(i)
        OBVIOUS
      <3>3. ASSUME NEW k \in Above(j) PROVE k \in Above(i) \ {j}
        <4>1. k \in ids /\ k > j /\ i < j /\ i \in Int /\ j \in Int /\ k \in Int
          BY <3>1
        <4>2. k > i /\ k # j
          BY <4>1
        <4>. QED
          BY <4>1, <4>2
      <3>. QED
        BY <3>2, <3>3
    <2>2. /\ IsFiniteSet(Above(i) \ {j})
          /\ Cardinality(Above(i) \ {j}) = Cardinality(Above(i)) - 1
      BY <1>2, <2>1, FS_RemoveElement
    <2>3. Cardinality(Above(j)) <= Cardinality(Above(i) \ {j})
      BY <2>1, <2>2, FS_Subset
    <2>. QED
      BY <1>2, <2>2, <2>3
  <1>4. rank \in [Kept(ids) -> 0..(N - 1)]
    <2>1. \A i \in Kept(ids) : Cardinality(Above(i)) < N
      BY Zenon DEF Kept
    <2>2. \A c \in Nat : c < N => c \in 0..(N - 1)
      BY <1>1
    <2>3. \A i \in Kept(ids) : Cardinality(Above(i)) \in Nat
      BY <1>1, <1>2
    <2>4. ASSUME NEW i \in Kept(ids) PROVE Cardinality(Above(i)) \in 0..(N - 1)
      <3>. HIDE DEF Above, N
      <3>. QED
        BY <2>1, <2>2, <2>3
    <2>. QED
      BY <2>4
  <1>5. \A i, j \in Kept(ids) : rank[i] = rank[j] => i = j
    <2>. TAKE i, j \in Kept(ids)
    <2>. HAVE rank[i] = rank[j]
    <2>1. i \in ids /\ j \in ids /\ i \in Nat /\ j \in Nat
      BY <1>1
    <2>2. Cardinality(Above(i)) = Cardinality(Above(j)) /\ Cardinality(Above(i)) \in Nat
      BY <1>2, <2>1
    <2>. QED
      BY <1>3, <2>1, <2>2
  <1>6. rank \in Injection(Kept(ids), 0..(N - 1))
    BY <1>4, <1>5 DEF Injection, IsInjective
  <1>7. IsFiniteSet(0..(N - 1)) /\ Cardinality(0..(N - 1)) = N
    BY <1>1, FS_Interval
  <1>. HIDE DEF rank
  <1>. QED
    BY <1>6, <1>7, FS_Injection

\* A set that fits is kept whole.
LEMMA KeptAll ==
    ASSUME NEW ids \in SUBSET Nat, IsFiniteSet(ids),
           Cardinality(ids) <= MaxResolvedActionHistory
    PROVE  Kept(ids) = ids
  <1>1. ASSUME NEW i \in ids
        PROVE  Cardinality({j \in ids : j > i}) < MaxResolvedActionHistory
    <2>1. {j \in ids : j > i} \in SUBSET (ids \ {i})
      OBVIOUS
    <2>2. /\ IsFiniteSet(ids \ {i}) /\ Cardinality(ids \ {i}) = Cardinality(ids) - 1
          /\ Cardinality(ids) \in Nat
      BY FS_RemoveElement, FS_CardinalityType
    <2>3. /\ Cardinality({j \in ids : j > i}) <= Cardinality(ids \ {i})
          /\ Cardinality({j \in ids : j > i}) \in Nat
      BY <2>1, <2>2, FS_Subset, FS_CardinalityType
    <2>. QED
      BY <2>2, <2>3, SessionAssumption
  <1>. QED
    BY <1>1 DEF Kept

\* Recording nothing forgets nothing.
LEMMA RecordedNothing ==
    ASSUME LInv, NEW d
    PROVE  Recorded({}, d) = resolved_actions
  <1>1. /\ DOMAIN resolved_actions \in SUBSET Nat
        /\ IsFiniteSet(DOMAIN resolved_actions)
        /\ Cardinality(DOMAIN resolved_actions) <= MaxResolvedActionHistory
    BY LedgerFinite DEF LInv, Capacity
  <1>2. Kept(DOMAIN resolved_actions) = DOMAIN resolved_actions
    BY <1>1, KeptAll
  <1>3. resolved_actions = [i \in DOMAIN resolved_actions |-> resolved_actions[i]]
    BY DEF LInv, IInv, LedgerSound
  <1>. QED
    BY <1>2, <1>3 DEF Recorded
-----------------------------------------------------------------------------
(* What a call may do.                                                     *)

\* A call that leaves the ledger alone, the recoveries apart.
LEMMA NothingSettled ==
    ASSUME UNCHANGED <<next_action_id, resolved_actions>>,
           DOMAIN pending_actions' = DOMAIN pending_actions
    PROVE  \E settled, d : Settles(settled, d)
  <1>1. Settles({}, "Applied")
    BY DEF Settles, Dispositions
  <1>. QED
    BY <1>1

\* A call that leaves alone all the host can see.
LEMMA QuietLedgerKept ==
    ASSUME UNCHANGED <<state_revision, view, context, next_action_id, resolved_actions, host>>,
           DOMAIN pending_actions' = DOMAIN pending_actions
    PROVE  LedgerKept
  BY NothingSettled DEF LedgerKept, CleanFailure

\* So is one that only answers.
LEMMA AnswerLedgerKept ==
    ASSUME NEW outcome, Answer(outcome)
    PROVE  LedgerKept
  BY QuietLedgerKept DEF Answer, Live

\* A call without an error that settles some actions and issues none.
LEMMA SettledKept ==
    ASSUME NEW ids \in SUBSET DOMAIN pending_actions, NEW d \in Dispositions,
           resolved_actions' = Recorded(ids, d) \/ UNCHANGED resolved_actions,
           DOMAIN pending_actions' = DOMAIN pending_actions \ ids,
           UNCHANGED next_action_id, reply' \notin Errors
    PROVE  LedgerKept
  <1>1. Settles(ids, d)
    BY DEF Settles
  <1>. QED
    BY <1>1 DEF LedgerKept, CleanFailure

\* A call that settles some actions and issues one in the room they leave.
LEMMA AllocatedKept ==
    ASSUME LInv, NEW ids \in SUBSET DOMAIN pending_actions, NEW d \in Dispositions,
           resolved_actions' = Recorded(ids, d) \/ UNCHANGED resolved_actions,
           NEW actions, DOMAIN actions = DOMAIN pending_actions \ ids,
           Cardinality(DOMAIN actions) < MaxOutstandingActions,
           NEW action, Allocate(actions, action)
    PROVE  LedgerKept
  <1>1. CASE next_action_id = U64Max
    <2>1. DOMAIN pending_actions' = DOMAIN pending_actions \ ids
          /\ UNCHANGED next_action_id /\ reply' \notin Errors
      BY <1>1 DEF Allocate, Errors
    <2>. QED
      BY <2>1, SettledKept
  <1>2. CASE next_action_id # U64Max
    <2>1. /\ DOMAIN pending_actions' = (DOMAIN pending_actions \ ids) \cup {next_action_id}
          /\ next_action_id' = next_action_id + 1
          /\ reply' \notin Errors
      BY <1>2 DEF Allocate, Errors
    <2>2. Settles(ids, d)
      BY <2>1 DEF Settles
    <2>. QED
      BY <2>1, <2>2 DEF LedgerKept, CleanFailure
  <1>. QED
    BY <1>1, <1>2

\* The actions that stay live are the ones not settled.
LEMMA LiveWithout ==
    ASSUME NEW ids
    PROVE  DOMAIN Without(Live, ids) = DOMAIN pending_actions \ ids
  BY DEF Without, Live, Restrict

\* A ledger with room.
LEMMA RoomLeft ==
    ASSUME LInv, NEW actions, DOMAIN actions \in SUBSET DOMAIN pending_actions, ~Full(actions)
    PROVE  Cardinality(DOMAIN actions) < MaxOutstandingActions
  <1>1. Cardinality(DOMAIN actions) \in Nat
    BY LedgerFinite, FS_Subset, FS_CardinalityType DEF LInv
  <1>. QED
    BY <1>1, SessionAssumption DEF Full

\* A ledger still full without some actions is without none of them: so what a call
\* supersedes before it finds the ledger full is nothing.
LEMMA FullIsQuiet ==
    ASSUME LInv, NEW ids \in SUBSET DOMAIN pending_actions, Full(Without(Live, ids)), NEW d
    PROVE  /\ DOMAIN Without(Live, ids) = DOMAIN pending_actions
           /\ Recorded(ids, d) = resolved_actions
  <1>1. /\ DOMAIN pending_actions \ ids \in SUBSET DOMAIN pending_actions
        /\ IsFiniteSet(DOMAIN pending_actions)
        /\ Cardinality(DOMAIN pending_actions) \in Nat
        /\ Cardinality(DOMAIN pending_actions) <= MaxOutstandingActions
    BY LedgerFinite DEF LInv, Capacity
  <1>2. Cardinality(DOMAIN pending_actions \ ids) >= MaxOutstandingActions
    BY LiveWithout DEF Full
  <1>3. /\ IsFiniteSet(DOMAIN pending_actions \ ids)
        /\ Cardinality(DOMAIN pending_actions \ ids) <= Cardinality(DOMAIN pending_actions)
    BY <1>1, FS_Subset
  <1>4. Cardinality(DOMAIN pending_actions \ ids) \in Nat
    BY <1>3, FS_CardinalityType
  <1>5. Cardinality(DOMAIN pending_actions) = Cardinality(DOMAIN pending_actions \ ids)
    BY <1>1, <1>2, <1>3, <1>4, SessionAssumption
  <1>6. DOMAIN pending_actions = DOMAIN pending_actions \ ids
    BY <1>1, <1>5, FS_Subset
  <1>7. ids = {}
    BY <1>6
  <1>. QED
    BY <1>7, LiveWithout, RecordedNothing

-----------------------------------------------------------------------------
(* One lemma per call.                                                     *)

\* The updates of the composition are pending actions.
LEMMA Updates == CompositionUpdates \in SUBSET DOMAIN pending_actions
  BY DEF CompositionUpdates, OfKind

\* A superseding call either fails for lack of room or works on the room it made.
LEMMA SupersededKept ==
    ASSUME LInv, NEW ids \in SUBSET DOMAIN pending_actions,
           resolved_actions' = Recorded(ids, "Superseded"),
           UNCHANGED <<context, host>>,
           \/ /\ Full(Without(Live, ids))
              /\ pending_actions' = Without(Live, ids)
              /\ UNCHANGED <<state_revision, view, next_action_id>>
           \/ /\ pending_actions' = Without(Live, ids)
              /\ reply' \notin Errors
              /\ UNCHANGED next_action_id
           \/ /\ ~Full(Without(Live, ids))
              /\ \E action : Allocate(Without(Live, ids), action)
    PROVE  LedgerKept
  <1>. DEFINE actions == Without(Live, ids)
  <1>1. DOMAIN actions = DOMAIN pending_actions \ ids /\ "Superseded" \in Dispositions
    BY LiveWithout DEF Dispositions
  <1>2. CASE /\ Full(actions) /\ pending_actions' = actions
             /\ UNCHANGED <<state_revision, view, next_action_id>>
    <2>1. /\ DOMAIN pending_actions' = DOMAIN pending_actions
          /\ UNCHANGED resolved_actions
      BY <1>2, FullIsQuiet
    <2>. QED
      BY <1>2, <2>1, QuietLedgerKept
  <1>3. CASE pending_actions' = actions /\ reply' \notin Errors /\ UNCHANGED next_action_id
    BY <1>1, <1>3, SettledKept
  <1>4. CASE ~Full(actions) /\ \E action : Allocate(actions, action)
    <2>1. Cardinality(DOMAIN actions) < MaxOutstandingActions
      BY <1>1, <1>4, RoomLeft
    <2>. HIDE DEF actions
    <2>. QED
      BY <1>1, <1>4, <2>1, AllocatedKept
  <1>. QED
    BY <1>2, <1>3, <1>4

\* An edit.
LEMMA CompositionEditLedger ==
    ASSUME LInv, NEW edited, CompositionEdit(edited)
    PROVE  LedgerKept
  <1>1. SupersededByEdit \in SUBSET DOMAIN pending_actions
    BY Updates DEF SupersededByEdit
  <1>2. "CounterExhausted" \notin Errors /\ "Ok" \notin Errors
    BY DEF Errors
  <1>3. /\ resolved_actions' = Recorded(SupersededByEdit, "Superseded")
        /\ UNCHANGED <<context, host>>
    BY DEF CompositionEdit
  <1>4. \/ /\ Full(Without(Live, SupersededByEdit))
           /\ pending_actions' = Without(Live, SupersededByEdit)
           /\ UNCHANGED <<state_revision, view, next_action_id>>
        \/ /\ pending_actions' = Without(Live, SupersededByEdit)
           /\ reply' \notin Errors
           /\ UNCHANGED next_action_id
        \/ /\ ~Full(Without(Live, SupersededByEdit))
           /\ \E action : Allocate(Without(Live, SupersededByEdit), action)
    BY <1>2 DEF CompositionEdit
  <1>. QED
    BY <1>1, <1>3, <1>4, SupersededKept

\* commit_text.
LEMMA CommitTextLedger ==
    ASSUME LInv, NEW text, CommitText(text)
    PROVE  LedgerKept
  <1>1. "CounterExhausted" \notin Errors
    BY DEF Errors
  <1>2. /\ resolved_actions' = Recorded(CompositionUpdates, "Superseded")
        /\ UNCHANGED <<context, host>>
    BY DEF CommitText
  <1>3. \/ /\ Full(Without(Live, CompositionUpdates))
           /\ pending_actions' = Without(Live, CompositionUpdates)
           /\ UNCHANGED <<state_revision, view, next_action_id>>
        \/ /\ pending_actions' = Without(Live, CompositionUpdates)
           /\ reply' \notin Errors
           /\ UNCHANGED next_action_id
        \/ /\ ~Full(Without(Live, CompositionUpdates))
           /\ \E action : Allocate(Without(Live, CompositionUpdates), action)
    BY <1>1 DEF CommitText
  <1>. QED
    BY <1>2, <1>3, Updates, SupersededKept

\* The cancelling of a composition.
LEMMA CancelLedger ==
    ASSUME LInv, cancel
    PROVE  LedgerKept
  <1>1. "CounterExhausted" \notin Errors /\ "Ok" \notin Errors
    BY DEF Errors
  <1>2. CASE phase = "Idle"
    BY <1>2, AnswerLedgerKept DEF cancel
  <1>3. CASE phase # "Idle"
    <2>1. /\ resolved_actions' = Recorded(CompositionUpdates, "Superseded")
          /\ UNCHANGED <<context, host>>
      BY <1>3 DEF cancel
    <2>2. \/ /\ Full(Without(Live, CompositionUpdates))
             /\ pending_actions' = Without(Live, CompositionUpdates)
             /\ UNCHANGED <<state_revision, view, next_action_id>>
          \/ /\ pending_actions' = Without(Live, CompositionUpdates)
             /\ reply' \notin Errors
             /\ UNCHANGED next_action_id
          \/ /\ ~Full(Without(Live, CompositionUpdates))
             /\ \E action : Allocate(Without(Live, CompositionUpdates), action)
      BY <1>1, <1>3 DEF cancel
    <2>. QED
      BY <2>1, <2>2, Updates, SupersededKept
  <1>. QED
    BY <1>2, <1>3

\* A deletion in the host's own text.
LEMMA BackspaceLedger ==
    ASSUME LInv, NEW count, backspace(count)
    PROVE  LedgerKept
  <1>1. CASE phase # "Idle"
    BY <1>1, AnswerLedgerKept, CompositionEditLedger DEF backspace
  <1>2. CASE phase = "Idle"
    <2>1. DOMAIN Live = DOMAIN pending_actions \ {} /\ "Applied" \in Dispositions
      BY DEF Live, Dispositions
    <2>2. CASE Full(Live)
      <3>1. /\ UNCHANGED <<state_revision, view, context, next_action_id,
                           resolved_actions, host>>
            /\ pending_actions' = Live
        BY <1>2, <2>2 DEF backspace
      <3>. QED
        BY <2>1, <3>1, QuietLedgerKept
    <2>3. CASE ~Full(Live)
      <3>1. /\ UNCHANGED resolved_actions
            /\ \E action : Allocate(Live, action)
        BY <1>2, <2>3 DEF backspace
      <3>2. Cardinality(DOMAIN Live) < MaxOutstandingActions
        BY <2>1, <2>3, RoomLeft
      <3>. QED
        BY <2>1, <3>1, <3>2, AllocatedKept
    <2>. QED
      BY <2>2, <2>3
  <1>. QED
    BY <1>1, <1>2

\* The other editing inputs.
LEMMA EditsLedger ==
    ASSUME LInv
    PROVE  /\ \A text : insert_text(text) => LedgerKept
           /\ \A count : delete_forward(count) => LedgerKept
           /\ \A delta : move_composition_cursor(delta) => LedgerKept
           /\ commit => LedgerKept
  <1>1. ASSUME NEW text, insert_text(text) PROVE LedgerKept
    BY <1>1, AnswerLedgerKept, CompositionEditLedger DEF insert_text
  <1>2. ASSUME NEW count, delete_forward(count) PROVE LedgerKept
    BY <1>2, AnswerLedgerKept, CompositionEditLedger DEF delete_forward
  <1>3. ASSUME NEW delta, move_composition_cursor(delta) PROVE LedgerKept
    BY <1>3, AnswerLedgerKept, CompositionEditLedger DEF move_composition_cursor
  <1>4. ASSUME commit PROVE LedgerKept
    BY <1>4, AnswerLedgerKept, CommitTextLedger DEF commit
  <1>. QED
    BY <1>1, <1>2, <1>3, <1>4
\* A hardware key is one of the inputs above.
LEMMA HardwareKeyLedger ==
    ASSUME LInv, NEW event, HardwareKey(event)
    PROVE  LedgerKept
  BY EditsLedger, BackspaceLedger, CancelLedger, AnswerLedgerKept DEF HardwareKey

\* A selection commits or is refused.
LEMMA SelectCandidateLedger ==
    ASSUME LInv, NEW id, NEW revision, SelectCandidate(id, revision)
    PROVE  LedgerKept
  BY AnswerLedgerKept, CommitTextLedger DEF SelectCandidate

\* An event that only invalidates the recoveries, and does not fail.
LEMMA LiveLedgerKept ==
    ASSUME pending_actions' = Live, UNCHANGED <<next_action_id, resolved_actions>>,
           reply' \notin Errors
    PROVE  LedgerKept
  <1>1. DOMAIN pending_actions' = DOMAIN pending_actions
    BY DEF Live
  <1>. QED
    BY <1>1, NothingSettled DEF LedgerKept, CleanFailure

\* The moving of the selection.
LEMMA MoveCandidateSelectionLedger ==
    ASSUME NEW delta, MoveCandidateSelection(delta)
    PROVE  LedgerKept
  BY AnswerLedgerKept, LiveLedgerKept DEF MoveCandidateSelection, Errors

\* process_context_changed.
LEMMA ContextChangedLedger ==
    ASSUME NEW raw, ContextChanged(raw)
    PROVE  LedgerKept
  BY AnswerLedgerKept, LiveLedgerKept DEF ContextChanged, Errors

\* process_reset settles everything, and asks the host for a reset in the room this
\* leaves.
LEMMA ResetLedger ==
    ASSUME LInv, Reset
    PROVE  LedgerKept
  <1>. DEFINE ids == DOMAIN pending_actions
  <1>1. /\ ids \in SUBSET DOMAIN pending_actions
        /\ "Superseded" \in Dispositions
        /\ DOMAIN <<>> = DOMAIN pending_actions \ ids
        /\ resolved_actions' = Recorded(ids, "Superseded")
    BY DEF Dispositions, Reset
  <1>2. \/ /\ pending_actions' = <<>> /\ UNCHANGED next_action_id
           /\ reply' \in {"CounterExhausted", "Ok", "NoOp"}
        \/ \E action : Allocate(<<>>, action)
    BY DEF Reset
  <1>3. CASE /\ pending_actions' = <<>> /\ UNCHANGED next_action_id
             /\ reply' \in {"CounterExhausted", "Ok", "NoOp"}
    <2>1. reply' \notin Errors
      BY <1>3 DEF Errors
    <2>. QED
      BY <1>1, <1>3, <2>1, SettledKept
  <1>4. CASE \E action : Allocate(<<>>, action)
    <2>1. Cardinality(DOMAIN <<>>) < MaxOutstandingActions
      <3>1. DOMAIN <<>> = {}
        OBVIOUS
      <3>. QED
        BY <3>1, FS_EmptySet, SessionAssumption
    <2>. QED
      BY <1>1, <1>4, <2>1, AllocatedKept
  <1>. QED
    BY <1>2, <1>3, <1>4

\* acknowledge_action settles the action it is about, if that is pending.
LEMMA AcknowledgeLedger ==
    ASSUME NEW id, NEW disposition \in HostDispositions, AcknowledgeAction(id, disposition)
    PROVE  LedgerKept
  <1>1. CASE id \notin DOMAIN pending_actions
    <2>1. UNCHANGED <<state_revision, view, context, next_action_id, resolved_actions,
                      pending_actions, host>>
      BY <1>1 DEF AcknowledgeAction, ledger
    <2>. QED
      BY <2>1, QuietLedgerKept
  <1>2. CASE id \in DOMAIN pending_actions
    <2>1. /\ {id} \in SUBSET DOMAIN pending_actions /\ disposition \in Dispositions
          /\ DOMAIN Without(pending_actions, {id}) = DOMAIN pending_actions \ {id}
      BY <1>2, SessionAssumption DEF Without, Restrict
    <2>2. /\ resolved_actions' = Recorded({id}, disposition) \/ UNCHANGED resolved_actions
          /\ pending_actions' = Without(pending_actions, {id})
          /\ UNCHANGED next_action_id
          /\ reply' \in {"Recorded", "CounterExhausted"}
      BY <1>2 DEF AcknowledgeAction, AcknowledgePending, Resolve, RestoreCommit
    <2>3. reply' \notin Errors
      BY <2>2 DEF Errors
    <2>. QED
      BY <2>1, <2>2, <2>3, SettledKept
  <1>. QED
    BY <1>1, <1>2

\* Every event.
LEMMA ProcessEventLedger ==
    ASSUME LInv, ProcessEvent
    PROVE  LedgerKept
  <1>1. CASE InputSequenceExhausted
    <2>1. /\ UNCHANGED <<state_revision, view, context, next_action_id, resolved_actions, host>>
          /\ UNCHANGED pending_actions
      BY <1>1 DEF InputSequenceExhausted, ledger
    <2>. QED
      BY <2>1, QuietLedgerKept
  <1>2. CASE UnsupportedEvent
    BY <1>2, AnswerLedgerKept DEF UnsupportedEvent
  <1>3. CASE \/ \E text \in InsertTexts : InsertText(text)
             \/ DeleteForward
             \/ \E delta \in CursorDeltas : MoveCompositionCursor(delta)
    BY <1>3, EditsLedger DEF InsertText, DeleteForward, MoveCompositionCursor
  <1>4. CASE Backspace \/ Cancel \/ Commit
    BY <1>4, EditsLedger, BackspaceLedger, CancelLedger DEF Backspace, Cancel, Commit
  <1>5. CASE (\E event \in HardwareKeys : HardwareKey(event))
             \/ \E id, revision : SelectCandidate(id, revision)
    BY <1>5, HardwareKeyLedger, SelectCandidateLedger
  <1>6. CASE \E delta \in SelectionDeltas : MoveCandidateSelection(delta)
    BY <1>6, MoveCandidateSelectionLedger
  <1>7. CASE Reset \/ \E raw \in Contexts : ContextChanged(raw)
    BY <1>7, ResetLedger, ContextChangedLedger
  <1>. QED
    BY <1>1, <1>2, <1>3, <1>4, <1>5, <1>6, <1>7 DEF ProcessEvent

-----------------------------------------------------------------------------
(* The promises.                                                           *)

\* What is settled fits the memory, and is remembered with its disposition.
LEMMA Remembered ==
    ASSUME LInv, NEW settled, NEW d, Settles(settled, d)
    PROVE  /\ DOMAIN resolved_actions' \subseteq DOMAIN resolved_actions \cup settled
           /\ resolved_actions' = [i \in DOMAIN resolved_actions' |->
                                      IF i \in settled THEN d ELSE resolved_actions[i]]
           /\ Cardinality(DOMAIN resolved_actions') <= MaxResolvedActionHistory
  <1>1. settled \in SUBSET DOMAIN pending_actions
    BY DEF Settles
  <1>2. CASE UNCHANGED resolved_actions
    <2>1. resolved_actions = [i \in DOMAIN resolved_actions |-> resolved_actions[i]]
      BY DEF LInv, IInv, LedgerSound
    <2>2. \A i \in DOMAIN resolved_actions : i \notin settled
      BY <1>1 DEF LInv, Capacity
    <2>3. resolved_actions = [i \in DOMAIN resolved_actions |->
                                 IF i \in settled THEN d ELSE resolved_actions[i]]
      BY <2>1, <2>2
    <2>. QED
      BY <1>2, <2>3 DEF LInv, Capacity
  <1>3. CASE resolved_actions' = Recorded(settled, d)
    <2>. DEFINE ids == DOMAIN resolved_actions \cup settled
    <2>1. ids \in SUBSET Nat /\ IsFiniteSet(ids)
      <3>1. /\ next_action_id \in Nat \ {0}
            /\ ids \in SUBSET (1..(next_action_id - 1))
        BY <1>1, LedgerFinite DEF LInv
      <3>2. IsFiniteSet(1..(next_action_id - 1))
        BY <3>1, FS_Interval
      <3>. QED
        BY <3>1, <3>2, FS_Subset
    <2>2. Kept(ids) \subseteq ids
      BY DEF Kept
    <2>3. Cardinality(Kept(ids)) <= MaxResolvedActionHistory
      BY <2>1, KeptBounded
    <2>4. resolved_actions' = [i \in Kept(ids) |->
                                  IF i \in settled THEN d ELSE resolved_actions[i]]
      BY <1>3 DEF Recorded
    <2>. QED
      BY <2>2, <2>3, <2>4
  <1>. QED
    BY <1>2, <1>3 DEF Settles

\* What is outstanding fits the ledger, and is new or was outstanding before.
LEMMA Outstanding ==
    ASSUME LInv, NEW settled, NEW d, Settles(settled, d)
    PROVE  \E issued \in {{}, {next_action_id}} :
             /\ next_action_id' = next_action_id + Cardinality(issued)
             /\ DOMAIN pending_actions' = (DOMAIN pending_actions \ settled) \cup issued
             /\ Cardinality(DOMAIN pending_actions') <= MaxOutstandingActions
  <1>. DEFINE left == DOMAIN pending_actions \ settled
  <1>1. next_action_id \in Nat /\ IsFiniteSet(DOMAIN pending_actions)
        /\ Cardinality(DOMAIN pending_actions) \in Nat
    BY LedgerFinite DEF LInv
  <1>2. left \in SUBSET DOMAIN pending_actions
    OBVIOUS
  <1>3. /\ IsFiniteSet(left) /\ Cardinality(left) \in Nat
        /\ Cardinality(left) <= Cardinality(DOMAIN pending_actions)
    BY <1>1, <1>2, FS_Subset, FS_CardinalityType
  <1>4. CASE DOMAIN pending_actions' = left /\ UNCHANGED next_action_id
    <2>1. next_action_id' = next_action_id + Cardinality({})
      BY <1>1, <1>4, FS_EmptySet
    <2>2. Cardinality(left) <= MaxOutstandingActions
      BY <1>1, <1>3, SessionAssumption DEF LInv, Capacity
    <2>. QED
      BY <1>4, <2>1, <2>2
  <1>5. CASE /\ DOMAIN pending_actions' = left \cup {next_action_id}
             /\ next_action_id' = next_action_id + 1
             /\ Cardinality(left) < MaxOutstandingActions
    <2>1. Cardinality({next_action_id}) = 1
      BY FS_Singleton
    <2>2. Cardinality(left \cup {next_action_id}) <= Cardinality(left) + 1
      BY <1>3, FS_AddElement
    <2>3. /\ IsFiniteSet(left \cup {next_action_id})
          /\ Cardinality(left \cup {next_action_id}) \in Nat
      BY <1>3, FS_AddElement, FS_CardinalityType
    <2>4. Cardinality(left \cup {next_action_id}) <= MaxOutstandingActions
      BY <1>3, <1>5, <2>2, <2>3, SessionAssumption
    <2>. QED
      BY <1>5, <2>1, <2>4
  <1>. QED
    BY <1>4, <1>5 DEF Settles

\* No action settled is outstanding again: an identifier issued is a new one.
LEMMA NeverBoth ==
    ASSUME LInv, NEW settled, NEW d, Settles(settled, d)
    PROVE  DOMAIN pending_actions' \cap DOMAIN resolved_actions' = {}
  <1>1. /\ DOMAIN resolved_actions' \subseteq DOMAIN resolved_actions \cup settled
        /\ settled \subseteq DOMAIN pending_actions
    BY Remembered DEF Settles
  <1>2. DOMAIN pending_actions' \subseteq (DOMAIN pending_actions \ settled) \cup {next_action_id}
    BY DEF Settles
  <1>3. next_action_id \notin DOMAIN resolved_actions \cup DOMAIN pending_actions
    BY LedgerFinite DEF LInv
  <1>. QED
    BY <1>1, <1>2, <1>3 DEF LInv, Capacity

\* ActionLedger counts as FiniteSets does.
LEMMA SameCardinality == \A S : Ledger!Cardinality(S) = Cardinality(S)
  BY DEF Ledger!Cardinality, Ledger!IsFiniteSet, Cardinality, IsFiniteSet

\* A call that keeps the ledger is a call of ActionLedger, within its limits.
LEMMA CallLedger ==
    ASSUME LInv, NEW settled, NEW d, Settles(settled, d)
    PROVE  Capacity' /\ Ledger!Call
  <1>1. /\ settled \in SUBSET DOMAIN pending_actions /\ d \in Dispositions
        /\ DOMAIN resolved_actions' \subseteq DOMAIN resolved_actions \cup settled
        /\ resolved_actions' = [i \in DOMAIN resolved_actions' |->
                                   IF i \in settled THEN d ELSE resolved_actions[i]]
        /\ Cardinality(DOMAIN resolved_actions') <= MaxResolvedActionHistory
    BY Remembered DEF Settles
  <1>2. PICK issued \in {{}, {next_action_id}} :
           /\ next_action_id' = next_action_id + Cardinality(issued)
           /\ DOMAIN pending_actions' = (DOMAIN pending_actions \ settled) \cup issued
           /\ Cardinality(DOMAIN pending_actions') <= MaxOutstandingActions
    BY Outstanding
  <1>3. Capacity'
    BY <1>1, <1>2, NeverBoth DEF Capacity
  <1>4. Ledger!Call
    <2>1. /\ settled \in SUBSET DOMAIN pending_actions
          /\ issued \in {{}, {next_action_id}} /\ d \in Dispositions
      BY <1>1, <1>2
    <2>. QED
      BY <1>1, <1>2, <2>1, SameCardinality DEF Ledger!Call
  <1>. QED
    BY <1>3, <1>4

\* Every step keeps the invariant, is a call of ActionLedger, and fails cleanly.
LEMMA NextLedger ==
    ASSUME LInv, [Next]_vars
    PROVE  LInv' /\ [Ledger!Call]_(Ledger!ledgerVars) /\ [CleanFailure]_vars
  <1>1. IInv'
    BY StepSound DEF LInv
  <1>2. CASE Next
    <2>1. LedgerKept
      BY <1>2, ProcessEventLedger, AcknowledgeLedger DEF Next, Acknowledge
    <2>2. Capacity' /\ Ledger!Call
      BY <2>1, CallLedger DEF LedgerKept
    <2>. QED
      BY <1>1, <2>1, <2>2 DEF LInv, LedgerKept
  <1>3. CASE UNCHANGED vars
    BY <1>1, <1>3 DEF vars, ledger, LInv, Capacity, Ledger!ledgerVars
  <1>. QED
    BY <1>2, <1>3

\* A new session.
LEMMA InitLedger == Init => LInv /\ Ledger!Start
  <1>1. Init => Capacity
    <2>1. DOMAIN <<>> = {} /\ Cardinality({}) = 0
      BY FS_EmptySet
    <2>. QED
      BY <2>1, SessionAssumption DEF Init, Capacity
  <1>2. Init => Ledger!Start
    BY DEF Init, Ledger!Start
  <1>. QED
    BY <1>1, <1>2, InitSound DEF LInv

\* A call answered with an error other than an exhausted counter has settled no action
\* and changed nothing the host can see: the actions a handler supersedes before it finds
\* the ledger full are none (prepare_composition_update_action, commit_text, cancel).
THEOREM FailuresAreClean == Spec => FailedCallIsClean
  <1>1. LInv /\ [Next]_vars => LInv' /\ [CleanFailure]_vars
    BY NextLedger
  <1>2. Init => LInv
    BY InitLedger
  <1>. QED
    BY <1>1, <1>2, PTL DEF Spec, FailedCallIsClean, CleanFailure

\* The session keeps the promises of ActionLedger: identifiers issued once and in order,
\* each action settled once, dispositions that do not change while they are remembered,
\* and both memories within their limits (session.rs, allocate_action_with_recovery,
\* record_resolved, acknowledge_action).
THEOREM LedgerImplemented == Spec => ImplementsLedger
  <1>1. LInv /\ [Next]_vars => LInv' /\ [Ledger!Call]_(Ledger!ledgerVars)
    BY NextLedger
  <1>. QED
    BY <1>1, InitLedger, PTL DEF Spec, ImplementsLedger, Ledger!LedgerSpec
=============================================================================
