------------------------------ MODULE Composer ------------------------------
(***************************************************************************)
(* The editable composition text of core/ime-core/src/composer/mod.rs.     *)
(*                                                                         *)
(* A text is the sequence of its UTF-8 bytes, so Len is a byte count and a *)
(* byte offset into the text is an element of 0..Len(text), as in the      *)
(* code.  Bytes are opaque.  Where the extended grapheme clusters of a     *)
(* text begin and end is the business of the unicode_segmentation crate:   *)
(* the constant Break(text, i) says whether a cluster boundary lies after  *)
(* the i-th byte.  Break looks at the whole text, because an insertion or  *)
(* a removal can join or split the clusters around it.                     *)
(***************************************************************************)
EXTENDS Integers, Sequences, FiniteSets

CONSTANTS Byte,          \* the bytes texts are made of
          Break(_, _)    \* Break(text, i): a cluster boundary after byte i

Text == Seq(Byte)

-----------------------------------------------------------------------------
(* Clusters: grapheme_indices and graphemes of unicode_segmentation.       *)

\* The byte offsets at which a cluster ends; a text always ends a cluster.
Ends(text) == {i \in 1..Len(text) : i = Len(text) \/ Break(text, i)}

\* The position, from 1, of the cluster that holds the i-th byte.
ClusterOf(text, i) == 1 + Cardinality({e \in Ends(text) : e < i})

grapheme_count(text) == Cardinality(Ends(text))

\* A slip: clusters taken for bytes.
byte_offset_for_grapheme_Bytes(text, index) ==
    IF index < Len(text) THEN index ELSE Len(text)

\* Where cluster `index` (from 0) begins, or the length when there is none:
\* the number of bytes in the first `index` clusters.
byte_offset_for_grapheme(text, index) ==
    Cardinality({i \in 1..Len(text) : ClusterOf(text, i) <= index})

\* The cursor right after the cluster that holds byte `target`.
grapheme_cursor_after_byte(text, target) ==
    IF target = 0 THEN 0
    ELSE IF target <= Len(text) THEN ClusterOf(text, target)
    ELSE grapheme_count(text)

-----------------------------------------------------------------------------
(* The Composer: a text and a cursor counted in clusters.                  *)

Composers == [text : Text, cursor_grapheme : Nat]

EmptyComposer == [text |-> <<>>, cursor_grapheme |-> 0]

cursor_utf8_byte_offset(c) == byte_offset_for_grapheme(c.text, c.cursor_grapheme)

\* The text with the bytes after `start` up to `end` replaced by `inserted`.
Splice(text, start, end, inserted) ==
    SubSeq(text, 1, start) \o inserted \o SubSeq(text, end + 1, Len(text))

\* The composer holding `text`, its cursor after the cluster at byte `target`.
Placed(text, target) ==
    [text |-> text, cursor_grapheme |-> grapheme_cursor_after_byte(text, target)]

Inserted(c, inserted) ==
    LET at == cursor_utf8_byte_offset(c)
    IN  Placed(Splice(c.text, at, at, inserted), at + Len(inserted))

\* Removes the cluster before the cursor; nothing at the start of the text.
Backspaced(c) ==
    LET start == byte_offset_for_grapheme(c.text, c.cursor_grapheme - 1)
    IN  IF c.cursor_grapheme = 0
        THEN c
        ELSE Placed(Splice(c.text, start, cursor_utf8_byte_offset(c), <<>>), start)

AtEnd(c) == c.cursor_grapheme >= grapheme_count(c.text)

\* Removes the cluster after the cursor; nothing at the end of the text.
DeletedForward(c) ==
    LET start == cursor_utf8_byte_offset(c)
        end   == byte_offset_for_grapheme(c.text, c.cursor_grapheme + 1)
    IN  IF AtEnd(c) THEN c ELSE Placed(Splice(c.text, start, end, <<>>), start)

\* A slip: the cursor is not clamped.
Moved_Unclamped(c, delta) == [c EXCEPT !.cursor_grapheme = @ + delta]

\* Moves the cursor by `delta` clusters, clamped to the text.
Moved(c, delta) ==
    LET count == grapheme_count(c.text)
        next  == c.cursor_grapheme + delta
    IN  [c EXCEPT !.cursor_grapheme = IF next < 0 THEN 0
                                      ELSE IF next > count THEN count
                                      ELSE next]

\* What every operation must keep: the cursor stays within the text.
CursorInText(c) == c.cursor_grapheme <= grapheme_count(c.text)
=============================================================================
