-------------------------------- MODULE MCFfi --------------------------------
(***************************************************************************)
(* Small instances of Ffi: texts of a letter of one byte and a mark of     *)
(* two, two candidates for one letter and one for two, one well-formed     *)
(* event of each kind and the malformed ones.                              *)
(***************************************************************************)
EXTENDS Ffi

Letter == <<"a">>

Mark   == <<"m", "n">>

MCByte == {"a", "m", "n"}
MCWidth(byte) == CASE byte = "a" -> 1 [] byte = "m" -> 2 [] byte = "n" -> 0
MCBreak(text, i) == text[i + 1] # "n"

MCGenerate(text) ==
    CASE text = Letter -> {[texts |-> <<Letter \o Letter, Letter>>, failed |-> {}]}
      [] text = Letter \o Letter -> {[texts |-> <<Letter>>, failed |-> {}]}
      [] OTHER -> {[texts |-> <<>>, failed |-> {}]}

Event(tag, text, delta) ==
    [struct_size |-> EventSize, abi_version |-> IME_ABI_VERSION, tag |-> tag,
     text |-> text, delta |-> delta, candidate_id |-> 0, state_revision |-> 0]

View(bytes) == [bytes |-> bytes, null |-> FALSE]

WellFormed ==
    {Event("INSERT_TEXT", text, 0) : text \in {View(Letter), View(Mark), NoText}}
    \cup {Event(tag, NoText, d)
            : tag \in Tags \ {"INSERT_TEXT", "SELECT_CANDIDATE"}, d \in {-1, 1}}

Insert == Event("INSERT_TEXT", View(Letter), 0)

Malformed ==
    {[Insert EXCEPT !.struct_size = 4], [Insert EXCEPT !.struct_size = HeaderSize],
     [Insert EXCEPT !.abi_version = 65537], [Insert EXCEPT !.abi_version = 131072],
     [Insert EXCEPT !.tag = "unknown"], [Insert EXCEPT !.text.null = TRUE],
     [Insert EXCEPT !.text.bytes = <<"m">>], [Insert EXCEPT !.text.bytes = <<"n", "a">>],
     [Insert EXCEPT !.text.bytes = Letter \o Letter \o Letter]}

MCWireEvents == WellFormed \cup Malformed
=============================================================================
