------------------------------ MODULE FfiOwnership ------------------------------
(***************************************************************************)
(* Who owns what in memory across the C ABI of core/ime-ffi/src/lib.rs:    *)
(* the blocks the library allocates, the pointers it hands out, and the    *)
(* slots in which the caller keeps them.                                   *)
(*                                                                         *)
(* The caller is the one docs/ffi.md asks for, written the way C is: it    *)
(* reuses a slot without clearing it, and whatever a call answered it      *)
(* releases what the slot holds exactly once, a null being a no-op.  It    *)
(* may destroy the engine before its sessions and either before a result.  *)
(* A call that is given a null slot touches nothing and is left out, and   *)
(* so is ime_v1_session_ack_action, which hands out no pointer.            *)
(***************************************************************************)
EXTENDS Integers, Sequences, FiniteSets, Functions

CONSTANTS Objects,        \* names of allocations, used again once free
          EngineSlots, SessionSlots, ResultSlots,
          Shapes          \* how much of each thing a result may hold

ASSUME OwnershipAssumption ==
    /\ "none" \notin Objects
    /\ EngineSlots \cap SessionSlots = {}
    /\ EngineSlots \cap ResultSlots = {}
    /\ SessionSlots \cap ResultSlots = {}
    /\ IsFiniteSet(EngineSlots) /\ IsFiniteSet(SessionSlots)
    /\ Shapes \subseteq [composition : Nat, candidates : Seq(Nat), actions : Seq(Nat),
                         degraded_components : Nat]

Slots == EngineSlots \cup SessionSlots \cup ResultSlots

VARIABLES heap,   \* the live blocks and what each contains
          slots,  \* what the caller's pointer variables hold
          due     \* the slots whose content is still to be released

vars == <<heap, slots, due>>

-----------------------------------------------------------------------------
(* Blocks.                                                                 *)

Block(object, part, index) == [object |-> object, part |-> part, index |-> index]

Null          == Block("none", "null", 0)
Uninitialised == Block("none", "uninitialised", 0)

\* A block has a length, the views it contains, the shared inner it retains, and,
\* for an inner, its strong count.
Content(len, views, inner, strong) ==
    [len |-> len, views |-> views, inner |-> inner, strong |-> strong]

Array(views) == Content(Len(views), views, Null, 0)
Bytes(len)   == Content(len, <<>>, Null, 0)
Handle(inner) == Content(1, <<>>, inner, 0)

Live == DOMAIN heap

Fresh(object) == object \in Objects /\ \A b \in Live : b.object # object

\* string_view and slice_pointer: nothing to show is a null pointer.
View(block, len) == IF len = 0 THEN [ptr |-> Null, len |-> 0]
                    ELSE [ptr |-> block, len |-> len]

-----------------------------------------------------------------------------
(* build_owned_result.                                                     *)

\* A slip: the texts are not kept, as nothing ever reads the field.
OwnedFields_NoCandidateTexts ==
    {"composition", "candidates", "action_texts", "actions", "degraded_components"}

\* The buffers OwnedResult takes over; a local that is not moved into it is dropped
\* when the function returns.
OwnedFields == {"composition", "candidate_texts", "candidates", "action_texts",
                "actions", "degraded_components"}

TextViews(object, part, lens) == [i \in DOMAIN lens |-> View(Block(object, part, i), lens[i])]

\* The wire structure: its five views.
Wire(object, shape) ==
    LET view(part, len) == View(Block(object, part, 0), len)
    IN  Content(1, <<view("composition", shape.composition),
                     view("candidates", Len(shape.candidates)),
                     view("actions", Len(shape.actions)),
                     view("degraded_components", shape.degraded_components),
                     view("result_flags", 0)>>, Null, 0)

\* The buffers made for a shape; one for no bytes or no elements is never allocated.
Buffers(object, shape) ==
    {Block(object, "composition", 0) : n \in {shape.composition} \ {0}}
    \cup {Block(object, "candidate_texts", i)
            : i \in {j \in DOMAIN shape.candidates : shape.candidates[j] > 0}}
    \cup {Block(object, "candidates", 0) : n \in {Len(shape.candidates)} \ {0}}
    \cup {Block(object, "action_texts", i)
            : i \in {j \in DOMAIN shape.actions : shape.actions[j] > 0}}
    \cup {Block(object, "actions", 0) : n \in {Len(shape.actions)} \ {0}}
    \cup {Block(object, "degraded_components", 0) : n \in {shape.degraded_components} \ {0}}

Filled(object, shape, block) ==
    CASE block.part = "wire"                -> Wire(object, shape)
      [] block.part = "composition"         -> Bytes(shape.composition)
      [] block.part = "candidate_texts"     -> Bytes(shape.candidates[block.index])
      [] block.part = "candidates"          ->
           Array(TextViews(object, "candidate_texts", shape.candidates))
      [] block.part = "action_texts"        -> Bytes(shape.actions[block.index])
      [] block.part = "actions"             ->
           Array(TextViews(object, "action_texts", shape.actions))
      [] OTHER                              -> Bytes(shape.degraded_components)

\* What is live when the call returns.
OwnedResult(object, shape) ==
    {Block(object, "wire", 0)}
    \cup {b \in Buffers(object, shape) : b.part \in OwnedFields}

-----------------------------------------------------------------------------
(* Heap operations.                                                        *)

\* The heap with the content of some blocks added or replaced.
Allocated(added) ==
    [b \in Live \cup DOMAIN added |-> IF b \in DOMAIN added THEN added[b] ELSE heap[b]]

\* A slip: the session keeps the pointer without counting itself.
Retained_Uncounted(inner) == heap[inner]

\* Arc::clone.
Retained(inner) == [heap[inner] EXCEPT !.strong = @ + 1]

\* Dropping a handle: its own block, and the inner with the last of its owners.
DroppedHandle(handle) ==
    LET inner == heap[handle].inner
    IN  IF heap[inner].strong = 1
        THEN Restrict(heap, Live \ {handle, inner})
        ELSE [b \in Live \ {handle} |->
                 IF b = inner THEN [heap[b] EXCEPT !.strong = @ - 1] ELSE heap[b]]

\* A slip: the block is freed as the wire structure it begins with.
DroppedResult_WireOnly(wire) == Restrict(heap, Live \ {wire})

\* Dropping an OwnedResult: the wire structure and every field.
DroppedResult(wire) == Restrict(heap, {b \in Live : b.object # wire.object})

-----------------------------------------------------------------------------
(* The entry points.                                                       *)

Give(slot, pointer) ==
    /\ slots' = [slots EXCEPT ![slot] = pointer]
    /\ due' = due \cup {slot}

\* A slip: the slot is prepared only once the arguments are known to be good.
Refuse_Unprepared(slot) ==
    /\ due' = due \cup {slot}
    /\ UNCHANGED <<heap, slots>>

\* prepare_out and any status but OK: a null or malformed argument, an error of the
\* core, a result over its budget, or a panic caught by ffi_boundary, which drops what
\* the call had allocated.
Refuse(slot) == Give(slot, Null) /\ UNCHANGED heap

ime_v1_engine_create(slot) ==
    /\ slot \notin due
    /\ \/ Refuse(slot)
       \/ \E object \in Objects :
            /\ Fresh(object)
            /\ LET handle == Block(object, "engine", 0)
                   inner  == Block(object, "inner", 0)
               IN  /\ heap' = Allocated([b \in {handle, inner} |->
                                            IF b = handle THEN Handle(inner)
                                            ELSE Content(1, <<>>, Null, 1)])
                   /\ Give(slot, handle)

ime_v1_session_create(engine, slot) ==
    /\ engine \in due /\ slot \notin due
    /\ \/ Refuse(slot)
       \/ \E object \in Objects :
            /\ slots[engine] # Null
            /\ Fresh(object)
            /\ LET handle == Block(object, "session", 0)
                   inner  == heap[slots[engine]].inner
               IN  /\ heap' = Allocated([b \in {handle, inner} |->
                                            IF b = handle THEN Handle(inner)
                                            ELSE Retained(inner)])
                   /\ Give(slot, handle)

\* ime_v1_session_process_event and ime_v1_session_snapshot: store_owned_result.
ime_v1_session_result(session, slot) ==
    /\ session \in due /\ slot \notin due
    /\ \/ Refuse(slot)
       \/ \E object \in Objects, shape \in Shapes :
            /\ slots[session] # Null
            /\ Fresh(object)
            /\ heap' = Allocated([b \in OwnedResult(object, shape) |->
                                     Filled(object, shape, b)])
            /\ Give(slot, Block(object, "wire", 0))

\* A destroy or a free.  The slot keeps its pointer.
Release(slot, dropped) ==
    /\ slot \in due /\ due' = due \ {slot}
    /\ heap' = IF slots[slot] = Null THEN heap ELSE dropped
    /\ UNCHANGED slots

\* ime_v1_engine_destroy and ime_v1_session_destroy.
Destroy(slot) == Release(slot, DroppedHandle(slots[slot]))

ime_v1_result_free(slot) == Release(slot, DroppedResult(slots[slot]))

Init ==
    /\ heap = <<>>
    /\ slots = [slot \in Slots |-> Uninitialised]
    /\ due = {}

Next ==
    \/ \E slot \in EngineSlots : ime_v1_engine_create(slot)
    \/ \E slot \in EngineSlots \cup SessionSlots : Destroy(slot)
    \/ \E engine \in EngineSlots, slot \in SessionSlots : ime_v1_session_create(engine, slot)
    \/ \E session \in SessionSlots, slot \in ResultSlots : ime_v1_session_result(session, slot)
    \/ \E slot \in ResultSlots : ime_v1_result_free(slot)

Spec == Init /\ [][Next]_vars

-----------------------------------------------------------------------------
(* Properties.                                                             *)

\* The handles and results the caller has still to release.
Handed == {slots[slot] : slot \in due} \ {Null}

\* What a slot is for.
Kind(slot) == IF slot \in EngineSlots THEN "engine"
              ELSE IF slot \in SessionSlots THEN "session" ELSE "wire"

Views(block) == {heap[block].views[i] : i \in DOMAIN heap[block].views}

\* A view is empty and null, or points to a live block of its length.
Readable(view) ==
    IF view.len = 0 THEN view.ptr = Null
    ELSE view.ptr \in Live /\ heap[view.ptr].len = view.len

\* "All of those pointers remain valid until the single matching call to
\* ime_v1_result_free" (docs/ffi.md): every view of a result not yet freed can be read,
\* those of its candidates and actions included, whatever was called, refused, freed or
\* destroyed since, in any slot.
ResultsStayReadable ==
    \A slot \in ResultSlots \cap due : slots[slot] # Null =>
        /\ slots[slot] \in Live
        /\ \A view \in Views(slots[slot]) :
             /\ Readable(view)
             /\ view.len > 0 => \A nested \in Views(view.ptr) : Readable(nested)

\* Releasing whatever a slot holds after a call is right, refused calls included: it is
\* null or a live block of its kind that no other slot holds, never what was released
\* before ("an otherwise valid output slot is initialized to null", docs/ffi.md).
ReleaseIsSafe ==
    \A slot \in due : slots[slot] # Null =>
        /\ slots[slot] \in Live
        /\ slots[slot].part = Kind(slot)
        /\ \A other \in due \ {slot} : slots[other] # slots[slot]

\* "A session retains the immutable Core resources it needs" (docs/ffi.md): the engine's
\* inner is live as long as a handle not yet destroyed uses it, whichever is destroyed
\* first.
InnerRetained ==
    \A slot \in (EngineSlots \cup SessionSlots) \cap due :
        slots[slot] # Null => heap[slots[slot]].inner \in Live

\* Nothing outlives its owner: a live block is handed to the caller, is the inner of such
\* a handle, or belongs to such a result.  In particular a caller that has released
\* everything has left nothing behind.
NothingLeaks ==
    \A b \in Live :
        \/ b \in Handed
        \/ \E owner \in Handed : owner.part \in {"engine", "session"} /\ heap[owner].inner = b
        \/ \E owner \in Handed : \E view \in Views(owner) :
              \/ view.ptr = b
              \/ view.len > 0 /\ \E nested \in Views(view.ptr) : nested.ptr = b
=============================================================================
