--------------------------- MODULE InputNormalizer ---------------------------
(***************************************************************************)
(* InputNormalizer::normalize of core/ime-core/src/input/normalize.rs: the *)
(* logical input a hardware key stands for, given whether the session is   *)
(* composing.  A key is the bytes of its character, or the name of an      *)
(* editing key; the modifier mask is reduced to what is asked of it.       *)
(***************************************************************************)
EXTENDS Integers, Sequences

EditingKeys == {"Backspace", "Delete", "Enter", "Escape",
                "ArrowLeft", "ArrowRight", "Unknown"}

\* Repeat counts the models use; a count above this bound is not explored.
MaxRepeat == 2

HardwareKeyEvents(characters) ==
    [key : [character : characters] \cup [editing : EditingKeys],
     down : BOOLEAN, command_modifier : BOOLEAN, repeat_count : 0..MaxRepeat]

PassThrough == [input |-> "PassThrough"]

Times(event) == IF event.repeat_count = 0 THEN 1 ELSE event.repeat_count

Repeated(text, times) ==
    [i \in 1..(times * Len(text)) |-> text[((i - 1) % Len(text)) + 1]]

Normalized(event, is_composing) ==
    IF ~event.down \/ event.command_modifier THEN PassThrough
    ELSE IF "character" \in DOMAIN event.key
    THEN [input |-> "InsertText", text |-> Repeated(event.key.character, Times(event))]
    ELSE IF ~is_composing THEN PassThrough
    ELSE LET key == event.key.editing
         IN  CASE key = "Backspace"  -> [input |-> "Backspace", count |-> Times(event)]
               [] key = "Delete"     -> [input |-> "DeleteForward", count |-> Times(event)]
               [] key = "Enter"      -> [input |-> "Commit"]
               [] key = "Escape"     -> [input |-> "Cancel"]
               [] key = "ArrowLeft"  -> [input |-> "MoveCompositionCursor", delta |-> -Times(event)]
               [] key = "ArrowRight" -> [input |-> "MoveCompositionCursor", delta |-> Times(event)]
               [] key = "Unknown"    -> PassThrough
=============================================================================
