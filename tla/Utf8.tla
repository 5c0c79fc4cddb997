--------------------------------- MODULE Utf8 ---------------------------------
(***************************************************************************)
(* Characters in a composition.  A Rust String is whole characters, and    *)
(* String::insert_str and replace_range, with which composer/mod.rs edits, *)
(* panic at an offset inside one; the offsets they are given are counted   *)
(* in clusters.  How many bytes a character takes its first byte says:     *)
(* the constant Width.                                                     *)
(***************************************************************************)
EXTENDS Session

CONSTANT Width(_)   \* the bytes of the character a byte begins, 0 if it begins none

Begins(byte) == Width(byte) > 0

\* str::is_char_boundary.
IsCharBoundary(text, i) ==
    i \in {0, Len(text)} \/ (i + 1 \in DOMAIN text /\ Begins(text[i + 1]))

\* Whether a text is characters one after the other, each as long as its first byte says.
IsUtf8(text) ==
    /\ text # <<>> => Begins(text[1])
    /\ \A i \in DOMAIN text : Begins(text[i]) =>
          LET last == i + Width(text[i]) - 1
          IN  /\ last <= Len(text)
              /\ \A j \in (i + 1)..last : ~Begins(text[j])
              /\ IsCharBoundary(text, last)

\* Events carry Strings, and a cluster is whole characters.
ASSUME CharacterAssumption ==
    /\ \A byte \in Byte : Width(byte) \in Nat
    /\ \A text \in InsertTexts : IsUtf8(text)
    /\ \A text \in CompositionText : IsUtf8(text) =>
          \A i \in 1..(Len(text) - 1) : Break(text, i) => IsCharBoundary(text, i)

\* No edit, repeated key or restored commit ever cuts a character of the composition, and
\* the cursor, where the next edit cuts and which the host is told, is never inside one
\* (composer/mod.rs: insert_text, backspace, delete_forward, cursor_utf8_byte_offset).
CompositionIsUtf8 ==
    /\ IsUtf8(composer.text)
    /\ IsCharBoundary(composer.text, cursor_utf8_byte_offset(composer))
=============================================================================
