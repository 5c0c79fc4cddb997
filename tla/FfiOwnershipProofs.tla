--------------------------- MODULE FfiOwnershipProofs ---------------------------
(***************************************************************************)
(* Memory across the C ABI: whatever is created, refused and released, and *)
(* in whatever order, what the caller holds is live and complete, and all  *)
(* that is live is held.                                                   *)
(***************************************************************************)
EXTENDS FfiOwnership, FiniteSetTheorems, TLAPS

HandleSlots == EngineSlots \cup SessionSlots

\* The slots that hold something still to be released.
Held == {slot \in due : slots[slot] # Null}

\* The handles that retain an inner.
Owners(inner) == {slot \in Held \cap HandleSlots : heap[slots[slot]].inner = inner}

Slotted == /\ due \subseteq Slots /\ DOMAIN slots = Slots
           /\ \A b \in Live : b.object \in Objects

HandleSound(slot) ==
    /\ heap[slots[slot]].inner \in Live
    /\ heap[slots[slot]].inner.part = "inner"

\* The strong count is the number of owners.
Counted(inner) ==
    /\ Owners(inner) # {}
    /\ heap[inner] = Content(1, <<>>, Null, Cardinality(Owners(inner)))

\* All the blocks of a result are there, with what build_owned_result put into them.
Whole(wire, shape) ==
    /\ wire = Block(wire.object, "wire", 0)
    /\ {b \in Live : b.object = wire.object} = OwnedResult(wire.object, shape)
    /\ \A b \in OwnedResult(wire.object, shape) : heap[b] = Filled(wire.object, shape, b)

ResultWhole(slot) == \E shape \in Shapes : Whole(slots[slot], shape)

\* Somebody answers for a block.
Rooted(b) ==
    \/ b \in Handed
    \/ b.part = "inner"
    \/ \E slot \in Held \cap ResultSlots : slots[slot].object = b.object

OInv ==
    /\ Slotted
    /\ ReleaseIsSafe
    /\ \A slot \in Held \cap HandleSlots : HandleSound(slot)
    /\ \A b \in Live : b.part = "inner" => Counted(b)
    /\ \A slot \in Held \cap ResultSlots : ResultWhole(slot)
    /\ \A b \in Live : Rooted(b)

-----------------------------------------------------------------------------
(* Results.                                                                *)

\* What a result is made of.
LEMMA OwnedParts ==
    ASSUME NEW object, NEW shape \in Shapes
    PROVE  /\ Block(object, "wire", 0) \in OwnedResult(object, shape)
           /\ \A b \in OwnedResult(object, shape) :
                /\ b.object = object
                /\ b.part \notin {"engine", "session", "inner"}
                /\ b.part = "wire" => b = Block(object, "wire", 0)
  BY DEF OwnedResult, Buffers, OwnedFields, Block

\* What each block of a result is filled with.
LEMMA FilledParts ==
    ASSUME NEW object, NEW shape
    PROVE  /\ Filled(object, shape, Block(object, "wire", 0)) = Wire(object, shape)
           /\ Filled(object, shape, Block(object, "composition", 0)) = Bytes(shape.composition)
           /\ \A i : Filled(object, shape, Block(object, "candidate_texts", i)) =
                      Bytes(shape.candidates[i])
           /\ Filled(object, shape, Block(object, "candidates", 0)) =
                Array(TextViews(object, "candidate_texts", shape.candidates))
           /\ \A i : Filled(object, shape, Block(object, "action_texts", i)) =
                      Bytes(shape.actions[i])
           /\ Filled(object, shape, Block(object, "actions", 0)) =
                Array(TextViews(object, "action_texts", shape.actions))
           /\ Filled(object, shape, Block(object, "degraded_components", 0)) =
                Bytes(shape.degraded_components)
  BY Zenon DEF Filled, Block

\* The blocks of a result that is still held.
LEMMA WholeParts ==
    ASSUME NEW wire, NEW shape \in Shapes, Whole(wire, shape)
    PROVE  /\ wire \in Live /\ wire.part = "wire"
           /\ \A b \in Live : b.object = wire.object =>
                /\ b.part \notin {"engine", "session", "inner"}
                /\ b.part = "wire" => b = wire
  <1>1. /\ wire = Block(wire.object, "wire", 0)
        /\ {b \in Live : b.object = wire.object} = OwnedResult(wire.object, shape)
    BY DEF Whole
  <1>. QED
    BY <1>1, OwnedParts DEF Block

\* Two results share no block, nor a result and a handle.
LEMMA ResultsApart ==
    ASSUME OInv, NEW slot \in Held \cap ResultSlots
    PROVE  /\ slots[slot] \in Live /\ slots[slot].part = "wire"
           /\ \A b \in Live : b.object = slots[slot].object =>
                b.part \notin {"engine", "session", "inner"}
           /\ \A other \in Held \ {slot} : slots[other].object # slots[slot].object
  <1>1. PICK shape \in Shapes : Whole(slots[slot], shape)
    BY DEF OInv, ResultWhole
  <1>2. /\ slots[slot] \in Live /\ slots[slot].part = "wire"
        /\ \A b \in Live : b.object = slots[slot].object =>
             /\ b.part \notin {"engine", "session", "inner"}
             /\ b.part = "wire" => b = slots[slot]
    BY <1>1, WholeParts
  <1>3. ASSUME NEW other \in Held \ {slot}
        PROVE  slots[other].object # slots[slot].object
    <2>1. /\ slots[other] \in Live /\ slots[other] # slots[slot]
          /\ slots[other].part \in {"engine", "session", "wire"}
      BY OwnershipAssumption DEF OInv, Slotted, Slots, ReleaseIsSafe, Held, Kind
    <2>. QED
      BY <1>2, <2>1
  <1>. QED
    BY <1>2, <1>3

\* An inner has finitely many owners.
LEMMA OwnersFinite ==
    ASSUME NEW inner
    PROVE  IsFiniteSet(Owners(inner))
  <1>1. IsFiniteSet(EngineSlots \cup SessionSlots)
    BY OwnershipAssumption, FS_Union
  <1>2. Owners(inner) \in SUBSET (EngineSlots \cup SessionSlots)
    BY DEF Owners, HandleSlots
  <1>. QED
    BY <1>1, <1>2, FS_Subset

-----------------------------------------------------------------------------
(* What all allocations do.                                                *)

\* A call hands out a fresh block.  It may count itself in an inner.
LEMMA Extended ==
    ASSUME OInv, NEW slot \in Slots \ due, NEW object, Fresh(object),
           NEW added, NEW pointer \in DOMAIN added,
           \A b \in DOMAIN added : b.object = object \/ (b \in Live /\ b.part = "inner"),
           pointer.object = object,
           pointer.part = Kind(slot),
           heap' = Allocated(added), Give(slot, pointer)
    PROVE  /\ Slotted' /\ ReleaseIsSafe'
           /\ Live' = Live \cup DOMAIN added
           /\ \A b \in DOMAIN added : heap'[b] = added[b]
           /\ \A b \in Live \ DOMAIN added : heap'[b] = heap[b]
           /\ Held' = Held \cup {slot} /\ slot \notin Held /\ slots'[slot] = pointer
           /\ \A s \in Held : slots'[s] = slots[s] /\ heap'[slots[s]] = heap[slots[s]]
           /\ \A s \in Held \cap HandleSlots : HandleSound(s)'
           /\ \A s \in Held \cap ResultSlots : ResultWhole(s)'
           /\ \A b \in Live : Rooted(b)'
  <1>1. /\ due \subseteq Slots /\ DOMAIN slots = Slots
        /\ \A b \in Live : b.object \in Objects
        /\ object \in Objects /\ \A b \in Live : b.object # object
    BY DEF OInv, Slotted, Fresh
  <1>2. /\ Live' = Live \cup DOMAIN added
        /\ \A b \in DOMAIN added : heap'[b] = added[b]
        /\ \A b \in Live \ DOMAIN added : heap'[b] = heap[b]
    BY DEF Allocated, Live
  <1>3. /\ slots'[slot] = pointer /\ due' = due \cup {slot}
        /\ \A s \in due : slots'[s] = slots[s]
        /\ DOMAIN slots' = Slots
    BY <1>1 DEF Give
  <1>4. pointer # Null
    BY <1>1, OwnershipAssumption DEF Null, Block
  <1>5. Held' = Held \cup {slot} /\ slot \notin Held
    BY <1>3, <1>4 DEF Held
  <1>6. \A s \in Held : /\ s \in due /\ slots[s] \in Live /\ slots[s].part # "inner"
                        /\ slots[s] \notin DOMAIN added
    <2>. SUFFICES ASSUME NEW s \in Held
                  PROVE  /\ s \in due /\ slots[s] \in Live /\ slots[s].part # "inner"
                         /\ slots[s] \notin DOMAIN added
      OBVIOUS
    <2>1. /\ s \in due /\ slots[s] \in Live
          /\ slots[s].part \in {"engine", "session", "wire"}
      BY <1>1, OwnershipAssumption DEF OInv, Slots, ReleaseIsSafe, Held, Kind
    <2>. QED
      BY <1>1, <2>1
  <1>7. \A s \in Held : slots'[s] = slots[s] /\ heap'[slots[s]] = heap[slots[s]]
    BY <1>2, <1>3, <1>6
  <1>8. Slotted'
    BY <1>1, <1>2, <1>3 DEF Slotted
  <1>9. ReleaseIsSafe'
    <2>. SUFFICES ASSUME NEW s \in due', slots'[s] # Null'
                  PROVE  /\ slots'[s] \in Live'
                         /\ slots'[s].part = Kind(s)
                         /\ \A other \in due' \ {s} : slots'[other] # slots'[s]
      BY DEF ReleaseIsSafe
    <2>0. Null' = Null
      BY DEF Null, Block
    <2>1. CASE s = slot
      <3>1. \A other \in due : slots[other] # pointer
        <4>. SUFFICES ASSUME NEW other \in due, slots[other] = pointer
                      PROVE  FALSE
          OBVIOUS
        <4>1. other \in Held
          BY <1>4 DEF Held
        <4>. QED
          BY <1>1, <1>6, <4>1
      <3>. QED
        BY <1>2, <1>3, <2>1, <3>1
    <2>2. CASE s # slot
      <3>1. s \in Held /\ slots'[s] = slots[s]
        BY <1>3, <2>0, <2>2 DEF Held
      <3>2. slots[s] \in Live /\ slots[s] # pointer
        BY <1>1, <1>6, <3>1
      <3>3. /\ slots[s].part = Kind(s)
            /\ \A other \in due \ {s} : slots[other] # slots[s]
        BY <3>1 DEF OInv, ReleaseIsSafe, Held
      <3>. QED
        BY <1>2, <1>3, <3>1, <3>2, <3>3
    <2>. QED
      BY <2>1, <2>2
  <1>10. ASSUME NEW s \in Held \cap HandleSlots
         PROVE  HandleSound(s)'
    BY <1>2, <1>7 DEF OInv, HandleSound
  <1>11. ASSUME NEW s \in Held \cap ResultSlots
         PROVE  ResultWhole(s)'
    <2>1. PICK shape \in Shapes : Whole(slots[s], shape)
      BY DEF OInv, ResultWhole
    <2>2. \A b \in Live : b.object = slots[s].object => b \notin DOMAIN added
      BY <1>1, <2>1, WholeParts
    <2>3. slots[s].object # object
      BY <1>1, <1>6
    <2>4. {b \in Live' : b.object = slots[s].object} = {b \in Live : b.object = slots[s].object}
      BY <1>2, <2>2, <2>3
    <2>5. \A b \in OwnedResult(slots[s].object, shape) :
             b \in Live /\ b \notin DOMAIN added /\ heap[b] = Filled(slots[s].object, shape, b)
      BY <2>1, <2>2 DEF Whole
    <2>6. Whole(slots[s], shape)'
      BY <1>2, <1>7, <2>1, <2>4, <2>5 DEF Whole
    <2>. QED
      BY <2>6 DEF ResultWhole
  <1>12. ASSUME NEW b \in Live
         PROVE  Rooted(b)'
    <2>1. Rooted(b)
      BY DEF OInv
    <2>2. CASE b \in Handed
      <3>1. PICK s \in due : b = slots[s] /\ slots[s] # Null
        BY <2>2 DEF Handed
      <3>. QED
        BY <1>3, <3>1 DEF Rooted, Handed, Null, Block
    <2>3. CASE \E s \in Held \cap ResultSlots : slots[s].object = b.object
      BY <1>5, <1>7, <2>3 DEF Rooted
    <2>. QED
      BY <2>1, <2>2, <2>3 DEF Rooted
  <1>. QED
    BY <1>2, <1>3, <1>5, <1>7, <1>8, <1>9, <1>10, <1>11, <1>12

-----------------------------------------------------------------------------
(* What all releases and refusals do.                                      *)

\* A release frees what its slot holds, with what only that held.
LEMMA Shrunk ==
    ASSUME OInv, NEW slot \in Held, NEW gone,
           slots[slot] \in gone,
           \A b \in gone : \/ b = slots[slot] \/ b.part = "inner"
                           \/ slot \in ResultSlots /\ b.object = slots[slot].object,
           slot \in ResultSlots =>
              \A b \in Live : b.object = slots[slot].object => b \in gone,
           \A s \in (Held \cap HandleSlots) \ {slot} : heap[slots[s]].inner \notin gone,
           Live' = Live \ gone,
           \A b \in Live' : b.part # "inner" => heap'[b] = heap[b],
           due' = due \ {slot}, UNCHANGED slots
    PROVE  /\ Slotted' /\ ReleaseIsSafe'
           /\ Held' = Held \ {slot}
           /\ \A s \in Held' : heap'[slots'[s]] = heap[slots[s]]
           /\ \A s \in Held' \cap HandleSlots : HandleSound(s)'
           /\ \A s \in Held' \cap ResultSlots : ResultWhole(s)'
           /\ \A b \in Live' : Rooted(b)'
  <1>1. Held' = Held \ {slot} /\ Null' = Null
    BY DEF Held, Null, Block
  <1>2. Slotted'
    BY DEF OInv, Slotted
  <1>3. \A s \in Held : /\ s \in due /\ slots[s] \in Live
                        /\ slots[s].part \in {"engine", "session", "wire"}
    BY OwnershipAssumption DEF OInv, Slotted, Slots, ReleaseIsSafe, Held, Kind
  <1>4. \A s \in Held \ {slot} : slots[s] # slots[slot] /\ slots[s] \notin gone
    <2>. SUFFICES ASSUME NEW s \in Held \ {slot}
                  PROVE  slots[s] # slots[slot] /\ slots[s] \notin gone
      OBVIOUS
    <2>1. slots[s] # slots[slot]
      BY DEF OInv, ReleaseIsSafe, Held
    <2>2. slot \in ResultSlots => slots[s].object # slots[slot].object
      BY ResultsApart
    <2>. QED
      BY <1>3, <2>1, <2>2
  <1>5. \A s \in Held' : slots[s] \in Live' /\ heap'[slots'[s]] = heap[slots[s]]
    BY <1>1, <1>3, <1>4
  <1>6. ReleaseIsSafe'
    <2>. SUFFICES ASSUME NEW s \in due', slots'[s] # Null'
                  PROVE  /\ slots'[s] \in Live' /\ slots'[s].part = Kind(s)
                         /\ \A other \in due' \ {s} : slots'[other] # slots'[s]
      BY DEF ReleaseIsSafe
    <2>1. s \in Held /\ s \in Held'
      BY <1>1 DEF Held
    <2>2. slots[s].part = Kind(s) /\ \A other \in due \ {s} : slots[other] # slots[s]
      BY <2>1 DEF OInv, ReleaseIsSafe, Held
    <2>. QED
      BY <1>5, <2>1, <2>2
  <1>7. ASSUME NEW s \in Held' \cap HandleSlots
        PROVE  HandleSound(s)'
    <2>1. HandleSound(s) /\ heap[slots[s]].inner \notin gone
      BY <1>1 DEF OInv
    <2>. QED
      BY <1>5, <2>1 DEF HandleSound
  <1>8. ASSUME NEW s \in Held' \cap ResultSlots
        PROVE  ResultWhole(s)'
    <2>1. PICK shape \in Shapes : Whole(slots[s], shape)
      BY <1>1 DEF OInv, ResultWhole
    <2>2. slots[s].object # slots[slot].object
      BY <1>1, ResultsApart
    <2>3. \A b \in Live : b.object = slots[s].object => b \notin gone /\ b.part # "inner"
      BY <2>1, <2>2, WholeParts
    <2>4. {b \in Live' : b.object = slots[s].object} = {b \in Live : b.object = slots[s].object}
      BY <2>3
    <2>5. \A b \in OwnedResult(slots[s].object, shape) :
             b \in Live' /\ b.part # "inner" /\ heap[b] = Filled(slots[s].object, shape, b)
      BY <2>1, <2>3 DEF Whole
    <2>6. Whole(slots[s], shape)'
      BY <2>1, <2>4, <2>5 DEF Whole
    <2>. QED
      BY <2>6 DEF ResultWhole
  <1>9. ASSUME NEW b \in Live'
        PROVE  Rooted(b)'
    <2>1. Rooted(b) /\ b \notin gone /\ b \in Live
      BY DEF OInv
    <2>2. CASE b \in Handed
      <3>1. PICK s \in Held : b = slots[s]
        BY <2>2 DEF Handed, Held
      <3>2. s \in Held'
        BY <1>1, <2>1, <3>1
      <3>. QED
        BY <3>1, <3>2 DEF Rooted, Handed, Held
    <2>3. CASE \E s \in Held \cap ResultSlots : slots[s].object = b.object
      <3>1. PICK s \in Held \cap ResultSlots : slots[s].object = b.object
        BY <2>3
      <3>2. s \in Held'
        BY <1>1, <2>1, <3>1
      <3>. QED
        BY <3>1, <3>2 DEF Rooted
    <2>. QED
      BY <2>1, <2>2, <2>3 DEF Rooted
  <1>. QED
    BY <1>1, <1>2, <1>5, <1>6, <1>7, <1>8, <1>9

\* A step that hands out and releases null, if anything.
LEMMA Quiet ==
    ASSUME OInv, UNCHANGED heap, due' \subseteq Slots, DOMAIN slots' = Slots,
           Held' = Held, \A slot \in Held : slots'[slot] = slots[slot]
    PROVE  OInv'
  <1>1. Null' = Null /\ Live' = Live
    BY DEF Null, Block, Live
  <1>2. Slotted'
    BY <1>1 DEF OInv, Slotted
  <1>3. ReleaseIsSafe'
    <2>. SUFFICES ASSUME NEW s \in due', slots'[s] # Null'
                  PROVE  /\ slots'[s] \in Live' /\ slots'[s].part = Kind(s)
                         /\ \A other \in due' \ {s} : slots'[other] # slots'[s]
      BY DEF ReleaseIsSafe
    <2>1. s \in Held /\ slots'[s] = slots[s]
      BY <1>1 DEF Held
    <2>2. /\ slots[s] \in Live /\ slots[s].part = Kind(s)
          /\ \A other \in due \ {s} : slots[other] # slots[s]
      BY <2>1 DEF OInv, ReleaseIsSafe, Held
    <2>3. ASSUME NEW other \in due' \ {s}, slots'[other] = slots'[s]
          PROVE  FALSE
      <3>1. other \in Held
        BY <2>3 DEF Held
      <3>. QED
        BY <2>1, <2>2, <2>3, <3>1 DEF Held
    <2>. QED
      BY <1>1, <2>1, <2>2, <2>3
  <1>4. \A slot \in Held' \cap HandleSlots : HandleSound(slot)'
    BY <1>1 DEF OInv, HandleSound
  <1>5. \A inner : Owners(inner)' = Owners(inner)
    BY DEF Owners
  <1>6. \A b \in Live' : b.part = "inner" => Counted(b)'
    BY <1>1, <1>5 DEF OInv, Counted, Null, Block
  <1>7. \A slot \in Held' \cap ResultSlots : ResultWhole(slot)'
    BY <1>1 DEF OInv, ResultWhole, Whole
  <1>8. Handed' = Handed
    <2>1. Handed = {slots[slot] : slot \in Held}
      BY DEF Handed, Held
    <2>2. Handed' = {slots'[slot] : slot \in Held'}
      BY <1>1 DEF Handed, Held
    <2>. QED
      BY <2>1, <2>2
  <1>9. \A b \in Live' : Rooted(b)'
    BY <1>1, <1>8 DEF OInv, Rooted
  <1>. QED
    BY <1>2, <1>3, <1>4, <1>6, <1>7, <1>9 DEF OInv

\* A call that is refused.
LEMMA RefusedSound ==
    ASSUME OInv, NEW slot \in Slots \ due, Refuse(slot)
    PROVE  OInv'
  <1>1. /\ UNCHANGED heap /\ due' = due \cup {slot}
        /\ slots' = [slots EXCEPT ![slot] = Null]
        /\ due \subseteq Slots /\ DOMAIN slots = Slots
    BY DEF Refuse, Give, OInv, Slotted
  <1>2. Null' = Null
    BY DEF Null, Block
  <1>3. Held' = Held /\ \A s \in Held : slots'[s] = slots[s]
    BY <1>1, <1>2 DEF Held
  <1>. QED
    BY <1>1, <1>3, Quiet

\* The release of a null.
LEMMA NullReleased ==
    ASSUME OInv, NEW slot \in due, slots[slot] = Null,
           UNCHANGED <<heap, slots>>, due' = due \ {slot}
    PROVE  OInv'
  <1>1. due \subseteq Slots /\ DOMAIN slots = Slots
    BY DEF OInv, Slotted
  <1>2. Null' = Null
    BY DEF Null, Block
  <1>3. Held' = Held
    BY <1>2 DEF Held
  <1>. QED
    BY <1>1, <1>3, Quiet

-----------------------------------------------------------------------------
(* Creation.                                                               *)

\* A new engine is the one owner of a new inner.
LEMMA EngineCreated ==
    ASSUME OInv, NEW slot \in EngineSlots, ime_v1_engine_create(slot)
    PROVE  OInv'
  <1>1. slot \in Slots \ due
    BY DEF ime_v1_engine_create, Slots
  <1>2. CASE Refuse(slot)
    BY <1>1, <1>2, RefusedSound
  <1>3. ASSUME NEW object \in Objects, Fresh(object),
               heap' = Allocated([b \in {Block(object, "engine", 0), Block(object, "inner", 0)} |->
                                     IF b = Block(object, "engine", 0)
                                     THEN Handle(Block(object, "inner", 0))
                                     ELSE Content(1, <<>>, Null, 1)]),
               Give(slot, Block(object, "engine", 0))
        PROVE  OInv'
    <2>0. PICK handle, inner : handle = Block(object, "engine", 0)
                                 /\ inner = Block(object, "inner", 0)
      OBVIOUS
    <2>. DEFINE added  == [b \in {handle, inner} |-> IF b = handle THEN Handle(inner)
                                                     ELSE Content(1, <<>>, Null, 1)]
    <2>1. /\ handle.object = object /\ handle.part = "engine"
          /\ inner.object = object /\ inner.part = "inner"
          /\ handle # inner
          /\ Handle(inner).inner = inner
      BY <2>0 DEF Block, Handle, Content
    <2>2. /\ DOMAIN added = {handle, inner}
          /\ added[handle] = Handle(inner) /\ added[inner] = Content(1, <<>>, Null, 1)
      BY <2>1
    <2>3. heap' = Allocated(added) /\ Give(slot, handle)
      BY <1>3, <2>0
    <2>4. handle.part = Kind(slot)
      BY <2>1 DEF Kind
    <2>. HIDE DEF added
    <2>5. /\ Slotted' /\ ReleaseIsSafe'
          /\ Live' = Live \cup DOMAIN added
          /\ \A b \in DOMAIN added : heap'[b] = added[b]
          /\ \A b \in Live \ DOMAIN added : heap'[b] = heap[b]
          /\ Held' = Held \cup {slot} /\ slot \notin Held /\ slots'[slot] = handle
          /\ \A s \in Held : slots'[s] = slots[s] /\ heap'[slots[s]] = heap[slots[s]]
          /\ \A s \in Held \cap HandleSlots : HandleSound(s)'
          /\ \A s \in Held \cap ResultSlots : ResultWhole(s)'
          /\ \A b \in Live : Rooted(b)'
      BY <1>1, <1>3, <2>1, <2>2, <2>3, <2>4, Extended
    <2>6. inner \notin Live /\ handle \notin Live
      BY <1>3, <2>1 DEF Fresh
    <2>7. slot \in HandleSlots /\ slot \notin ResultSlots
      BY OwnershipAssumption DEF HandleSlots
    <2>8. HandleSound(slot)'
      BY <2>1, <2>2, <2>5 DEF HandleSound
    <2>9. Owners(inner)' = {slot}
      BY <2>1, <2>2, <2>5, <2>6, <2>7 DEF OInv, HandleSound, Owners
    <2>10. \A b \in Live : Owners(b)' = Owners(b)
      BY <2>1, <2>2, <2>5, <2>6, <2>7 DEF Owners
    <2>11. ASSUME NEW b \in Live', b.part = "inner"
           PROVE  Counted(b)'
      <3>1. CASE b = inner
        <4>1. Cardinality(Owners(inner)') = 1
          BY <2>9, FS_Singleton
        <4>2. heap'[inner] = Content(1, <<>>, Null', 1)
          BY <2>2, <2>5 DEF Null, Block
        <4>3. heap'[inner] = Content(1, <<>>, Null', Cardinality(Owners(inner)'))
          BY <4>1, <4>2
        <4>. QED
          BY <2>9, <3>1, <4>3 DEF Counted
      <3>2. CASE b # inner
        <4>1. b \in Live /\ heap'[b] = heap[b] /\ Counted(b)
          BY <2>1, <2>2, <2>5, <2>11, <3>2 DEF OInv
        <4>. QED
          BY <2>10, <4>1 DEF Counted, Null, Block
      <3>. QED
        BY <3>1, <3>2
    <2>12. Rooted(handle)' /\ Rooted(inner)'
      <3>1. slot \in due' /\ handle # Null'
        BY <2>5 DEF Held
      <3>. QED
        BY <2>1, <2>5, <3>1 DEF Rooted, Handed
    <2>. QED
      BY <2>2, <2>5, <2>7, <2>8, <2>11, <2>12 DEF OInv
  <1>. QED
    BY <1>2, <1>3 DEF ime_v1_engine_create

\* A new session is one more owner of its engine's inner.
LEMMA SessionCreated ==
    ASSUME OInv, NEW engine \in EngineSlots, NEW slot \in SessionSlots,
           ime_v1_session_create(engine, slot)
    PROVE  OInv'
  <1>1. slot \in Slots \ due /\ engine \in due
    BY DEF ime_v1_session_create, Slots
  <1>2. CASE Refuse(slot)
    BY <1>1, <1>2, RefusedSound
  <1>3. ASSUME NEW object \in Objects, Fresh(object), slots[engine] # Null,
               heap' = Allocated([b \in {Block(object, "session", 0), heap[slots[engine]].inner} |->
                                     IF b = Block(object, "session", 0)
                                     THEN Handle(heap[slots[engine]].inner)
                                     ELSE Retained(heap[slots[engine]].inner)]),
               Give(slot, Block(object, "session", 0))
        PROVE  OInv'
    <2>0. PICK handle, inner : handle = Block(object, "session", 0)
                                 /\ inner = heap[slots[engine]].inner
      OBVIOUS
    <2>. DEFINE added  == [b \in {handle, inner} |-> IF b = handle THEN Handle(inner)
                                                     ELSE Retained(inner)]
    <2>1. /\ engine \in Held \cap HandleSlots
          /\ inner \in Live /\ inner.part = "inner" /\ Counted(inner)
      BY <1>1, <1>3, <2>0 DEF OInv, Held, HandleSlots, HandleSound
    <2>2. /\ handle.object = object /\ handle.part = "session" /\ handle # inner
          /\ Handle(inner).inner = inner
      BY <2>0, <2>1 DEF Block, Handle, Content
    <2>3. /\ DOMAIN added = {handle, inner}
          /\ added[handle] = Handle(inner) /\ added[inner] = Retained(inner)
      BY <2>2
    <2>4. heap' = Allocated(added) /\ Give(slot, handle)
      BY <1>3, <2>0
    <2>5. handle.part = Kind(slot)
      BY <2>2, OwnershipAssumption DEF Kind
    <2>. HIDE DEF added
    <2>6. /\ Slotted' /\ ReleaseIsSafe'
          /\ Live' = Live \cup DOMAIN added
          /\ \A b \in DOMAIN added : heap'[b] = added[b]
          /\ \A b \in Live \ DOMAIN added : heap'[b] = heap[b]
          /\ Held' = Held \cup {slot} /\ slot \notin Held /\ slots'[slot] = handle
          /\ \A s \in Held : slots'[s] = slots[s] /\ heap'[slots[s]] = heap[slots[s]]
          /\ \A s \in Held \cap HandleSlots : HandleSound(s)'
          /\ \A s \in Held \cap ResultSlots : ResultWhole(s)'
          /\ \A b \in Live : Rooted(b)'
      <3>1. \A b \in DOMAIN added : b.object = object \/ (b \in Live /\ b.part = "inner")
        BY <2>1, <2>2, <2>3
      <3>2. handle \in DOMAIN added /\ handle.object = object
        BY <2>2, <2>3
      <3>. QED
        BY <1>1, <1>3, <2>4, <2>5, <3>1, <3>2, Extended
    <2>7. handle \notin Live
      BY <1>3, <2>2 DEF Fresh
    <2>8. slot \in HandleSlots /\ slot \notin ResultSlots
      BY OwnershipAssumption DEF HandleSlots
    <2>9. HandleSound(slot)'
      BY <2>1, <2>2, <2>3, <2>6 DEF HandleSound
    <2>10. Owners(inner)' = Owners(inner) \cup {slot} /\ slot \notin Owners(inner)
      BY <2>2, <2>3, <2>6, <2>8 DEF Owners
    <2>11. \A b \in Live \ {inner} : Owners(b)' = Owners(b)
      BY <2>2, <2>3, <2>6, <2>8 DEF Owners
    <2>12. ASSUME NEW b \in Live', b.part = "inner"
           PROVE  Counted(b)'
      <3>1. CASE b = inner
        <4>1. /\ Cardinality(Owners(inner)) \in Nat
              /\ Cardinality(Owners(inner)') = Cardinality(Owners(inner)) + 1
          BY <2>10, OwnersFinite, FS_CardinalityType, FS_AddElement
        <4>2. Retained(inner) = Content(1, <<>>, Null, Cardinality(Owners(inner)) + 1)
          BY <2>1 DEF Retained, Counted, Content
        <4>3. heap'[inner] = Content(1, <<>>, Null', Cardinality(Owners(inner)'))
          BY <2>3, <2>6, <4>1, <4>2 DEF Null, Block
        <4>. QED
          BY <2>10, <3>1, <4>3 DEF Counted
      <3>2. CASE b # inner
        <4>1. b \in Live /\ heap'[b] = heap[b] /\ Counted(b)
          BY <2>2, <2>3, <2>6, <2>12, <3>2 DEF OInv
        <4>. QED
          BY <2>11, <3>2, <4>1 DEF Counted, Null, Block
      <3>. QED
        BY <3>1, <3>2
    <2>13. Rooted(handle)'
      <3>1. slot \in due' /\ handle # Null'
        BY <2>6 DEF Held
      <3>. QED
        BY <2>6, <3>1 DEF Rooted, Handed
    <2>. QED
      BY <2>1, <2>3, <2>6, <2>8, <2>9, <2>12, <2>13 DEF OInv
  <1>. QED
    BY <1>2, <1>3 DEF ime_v1_session_create

\* A result comes with all it points to.
LEMMA ResultCreated ==
    ASSUME OInv, NEW session \in SessionSlots, NEW slot \in ResultSlots,
           ime_v1_session_result(session, slot)
    PROVE  OInv'
  <1>1. slot \in Slots \ due
    BY DEF ime_v1_session_result, Slots
  <1>2. CASE Refuse(slot)
    BY <1>1, <1>2, RefusedSound
  <1>3. ASSUME NEW object \in Objects, NEW shape \in Shapes, Fresh(object),
               heap' = Allocated([b \in OwnedResult(object, shape) |-> Filled(object, shape, b)]),
               Give(slot, Block(object, "wire", 0))
        PROVE  OInv'
    <2>. DEFINE wire  == Block(object, "wire", 0)
                added == [b \in OwnedResult(object, shape) |-> Filled(object, shape, b)]
    <2>1. /\ wire.object = object /\ wire.part = "wire" /\ wire \in OwnedResult(object, shape)
          /\ \A b \in OwnedResult(object, shape) : b.object = object /\ b.part # "inner"
      BY OwnedParts DEF Block
    <2>2. /\ DOMAIN added = OwnedResult(object, shape)
          /\ \A b \in OwnedResult(object, shape) : added[b] = Filled(object, shape, b)
      OBVIOUS
    <2>3. heap' = Allocated(added) /\ Give(slot, wire)
      BY <1>3
    <2>4. wire.part = Kind(slot)
      BY <2>1, OwnershipAssumption DEF Kind
    <2>. HIDE DEF wire, added
    <2>5. /\ Slotted' /\ ReleaseIsSafe'
          /\ Live' = Live \cup DOMAIN added
          /\ \A b \in DOMAIN added : heap'[b] = added[b]
          /\ \A b \in Live \ DOMAIN added : heap'[b] = heap[b]
          /\ Held' = Held \cup {slot} /\ slot \notin Held /\ slots'[slot] = wire
          /\ \A s \in Held : slots'[s] = slots[s] /\ heap'[slots[s]] = heap[slots[s]]
          /\ \A s \in Held \cap HandleSlots : HandleSound(s)'
          /\ \A s \in Held \cap ResultSlots : ResultWhole(s)'
          /\ \A b \in Live : Rooted(b)'
      BY <1>1, <1>3, <2>1, <2>2, <2>3, <2>4, Extended
    <2>6. slot \notin HandleSlots
      BY OwnershipAssumption DEF HandleSlots
    <2>7. \A b \in Live : b.object # object
      BY <1>3 DEF Fresh
    <2>8. ResultWhole(slot)'
      <3>1. {b \in Live' : b.object = object} = OwnedResult(object, shape)
        BY <2>1, <2>2, <2>5, <2>7
      <3>2. Whole(wire, shape)'
        BY <2>1, <2>2, <2>5, <3>1 DEF Whole, wire
      <3>. QED
        BY <2>5, <3>2 DEF ResultWhole
    <2>9. \A b : Owners(b)' = Owners(b)
      BY <2>5, <2>6 DEF Owners
    <2>10. ASSUME NEW b \in Live', b.part = "inner"
           PROVE  Counted(b)'
      <3>1. b \in Live /\ heap'[b] = heap[b] /\ Counted(b)
        BY <2>1, <2>2, <2>5, <2>10 DEF OInv
      <3>. QED
        BY <2>9, <3>1 DEF Counted, Null, Block
    <2>11. \A b \in DOMAIN added : Rooted(b)'
      BY <2>1, <2>2, <2>5 DEF Rooted
    <2>. QED
      BY <2>5, <2>6, <2>8, <2>10, <2>11 DEF OInv
  <1>. QED
    BY <1>2, <1>3 DEF ime_v1_session_result

-----------------------------------------------------------------------------
(* Release.                                                                *)

\* A handle goes, and the inner with the last of its owners.
LEMMA HandleDropped ==
    ASSUME OInv, NEW slot \in HandleSlots, Destroy(slot)
    PROVE  OInv'
  <1>1. /\ slot \in due /\ due' = due \ {slot} /\ UNCHANGED slots
        /\ heap' = IF slots[slot] = Null THEN heap ELSE DroppedHandle(slots[slot])
    BY DEF Destroy, Release
  <1>2. CASE slots[slot] = Null
    BY <1>1, <1>2, NullReleased
  <1>3. CASE slots[slot] # Null
    <2>1. slot \in Held /\ slot \notin ResultSlots
      BY <1>1, <1>3, OwnershipAssumption DEF Held, HandleSlots
    <2>2. PICK handle, inner : handle = slots[slot] /\ inner = heap[handle].inner
      OBVIOUS
    <2>3. /\ inner \in Live /\ inner.part = "inner" /\ Counted(inner)
          /\ handle \in Live /\ handle.part # "inner" /\ slot \in Owners(inner)
      <3>1. HandleSound(slot)
        BY <2>1 DEF OInv
      <3>2. handle \in Live /\ handle.part = Kind(slot)
        BY <1>1, <1>3, <2>2 DEF OInv, ReleaseIsSafe
      <3>. QED
        BY <2>1, <2>2, <3>1, <3>2 DEF HandleSound, Owners, OInv, Kind
    <2>4. /\ IsFiniteSet(Owners(inner)) /\ Cardinality(Owners(inner)) \in Nat
          /\ Cardinality(Owners(inner)) = 1 <=> Owners(inner) = {slot}
      <3>1. IsFiniteSet(Owners(inner)) /\ Cardinality(Owners(inner)) \in Nat
        BY OwnersFinite, FS_CardinalityType
      <3>2. Cardinality(Owners(inner)) = 1 => \E x : Owners(inner) = {x}
        BY <3>1, FS_Singleton
      <3>3. Cardinality({slot}) = 1
        BY FS_Singleton
      <3>. QED
        BY <2>3, <3>1, <3>2, <3>3
    <2>5. heap[inner].strong = Cardinality(Owners(inner))
      BY <2>3 DEF Counted, Content
    <2>6. CASE Cardinality(Owners(inner)) = 1
      <3>1. heap' = [b \in Live \ {handle, inner} |-> heap[b]]
        BY <1>1, <1>3, <2>2, <2>5, <2>6 DEF DroppedHandle, Restrict
      <3>2. Live' = Live \ {handle, inner} /\ \A b \in Live' : heap'[b] = heap[b]
        BY <3>1 DEF Live
      <3>3. \A s \in (Held \cap HandleSlots) \ {slot} : heap[slots[s]].inner \notin {handle, inner}
        <4>1. Owners(inner) = {slot}
          BY <2>4, <2>6
        <4>2. \A s \in Held \cap HandleSlots : heap[slots[s]].inner.part = "inner"
          BY DEF OInv, HandleSound
        <4>. QED
          BY <2>3, <4>1, <4>2 DEF Owners
      <3>4. /\ Slotted' /\ ReleaseIsSafe'
            /\ Held' = Held \ {slot}
            /\ \A s \in Held' : heap'[slots'[s]] = heap[slots[s]]
            /\ \A s \in Held' \cap HandleSlots : HandleSound(s)'
            /\ \A s \in Held' \cap ResultSlots : ResultWhole(s)'
            /\ \A b \in Live' : Rooted(b)'
        <4>. DEFINE gone == {handle, inner}
        <4>1. /\ slots[slot] \in gone
              /\ \A b \in gone : b = slots[slot] \/ b.part = "inner"
          BY <2>2, <2>3
        <4>2. /\ \A s \in (Held \cap HandleSlots) \ {slot} : heap[slots[s]].inner \notin gone
              /\ Live' = Live \ gone
          BY <3>2, <3>3
        <4>. HIDE DEF gone
        <4>. QED
          BY <1>1, <2>1, <3>2, <4>1, <4>2, Shrunk
      <3>5. \A b \in Live' : Owners(b)' = Owners(b)
        BY <2>2, <3>2, <3>4 DEF Owners
      <3>6. \A b \in Live' : b.part = "inner" => Counted(b)'
        BY <3>2, <3>5 DEF OInv, Counted, Null, Block
      <3>. QED
        BY <3>4, <3>6 DEF OInv
    <2>7. CASE Cardinality(Owners(inner)) # 1
      <3>1. heap' = [b \in Live \ {handle} |->
                        IF b = inner THEN [heap[b] EXCEPT !.strong = @ - 1] ELSE heap[b]]
        BY <1>1, <1>3, <2>2, <2>5, <2>7 DEF DroppedHandle
      <3>2. /\ Live' = Live \ {handle} /\ inner \in Live'
            /\ \A b \in Live' \ {inner} : heap'[b] = heap[b]
            /\ heap'[inner] = [heap[inner] EXCEPT !.strong = heap[inner].strong - 1]
        BY <2>3, <3>1 DEF Live
      <3>3. \A s \in (Held \cap HandleSlots) \ {slot} : heap[slots[s]].inner \notin {handle}
        <4>1. \A s \in Held \cap HandleSlots : heap[slots[s]].inner.part = "inner"
          BY DEF OInv, HandleSound
        <4>. QED
          BY <2>3, <4>1
      <3>4. /\ Slotted' /\ ReleaseIsSafe'
            /\ Held' = Held \ {slot}
            /\ \A s \in Held' : heap'[slots'[s]] = heap[slots[s]]
            /\ \A s \in Held' \cap HandleSlots : HandleSound(s)'
            /\ \A s \in Held' \cap ResultSlots : ResultWhole(s)'
            /\ \A b \in Live' : Rooted(b)'
        <4>. DEFINE gone == {handle}
        <4>1. /\ slots[slot] \in gone
              /\ \A b \in gone : b = slots[slot] \/ b.part = "inner"
          BY <2>2
        <4>2. /\ \A s \in (Held \cap HandleSlots) \ {slot} : heap[slots[s]].inner \notin gone
              /\ Live' = Live \ gone
              /\ \A b \in Live' : b.part # "inner" => heap'[b] = heap[b]
          BY <2>3, <3>2, <3>3
        <4>. HIDE DEF gone
        <4>. QED
          BY <1>1, <2>1, <4>1, <4>2, Shrunk
      <3>5. Owners(inner)' = Owners(inner) \ {slot}
        BY <3>4 DEF Owners
      <3>6. \A b \in Live' \ {inner} : Owners(b)' = Owners(b)
        BY <2>2, <3>4 DEF Owners
      <3>7. Counted(inner)'
        <4>1. Cardinality(Owners(inner)') = Cardinality(Owners(inner)) - 1
          BY <2>3, <2>4, <3>5, FS_RemoveElement
        <4>2. heap'[inner] = Content(1, <<>>, Null', Cardinality(Owners(inner)'))
          BY <2>3, <3>2, <4>1 DEF Counted, Content, Null, Block
        <4>3. Owners(inner)' # {}
          BY <2>3, <2>4, <2>7, <3>5
        <4>. QED
          BY <4>2, <4>3 DEF Counted
      <3>8. \A b \in Live' \ {inner} : b.part = "inner" => Counted(b)'
        BY <3>2, <3>6 DEF OInv, Counted, Null, Block
      <3>. QED
        BY <3>4, <3>7, <3>8 DEF OInv
    <2>. QED
      BY <2>6, <2>7
  <1>. QED
    BY <1>2, <1>3

\* A result goes with all that belongs to it, and nothing else.
LEMMA ResultFreed ==
    ASSUME OInv, NEW slot \in ResultSlots, ime_v1_result_free(slot)
    PROVE  OInv'
  <1>1. /\ slot \in due /\ due' = due \ {slot} /\ UNCHANGED slots
        /\ heap' = IF slots[slot] = Null THEN heap ELSE DroppedResult(slots[slot])
    BY DEF ime_v1_result_free, Release
  <1>2. CASE slots[slot] = Null
    BY <1>1, <1>2, NullReleased
  <1>3. CASE slots[slot] # Null
    <2>1. slot \in Held /\ slot \notin HandleSlots
      BY <1>1, <1>3, OwnershipAssumption DEF Held, HandleSlots
    <2>. DEFINE gone == {b \in Live : b.object = slots[slot].object}
    <2>2. heap' = [b \in Live \ gone |-> heap[b]]
      <3>1. {b \in Live : b.object # slots[slot].object} = Live \ gone
        OBVIOUS
      <3>. QED
        BY <1>1, <1>3, <3>1 DEF DroppedResult, Restrict
    <2>3. Live' = Live \ gone /\ \A b \in Live' : heap'[b] = heap[b]
      BY <2>2 DEF Live
    <2>4. /\ slots[slot] \in gone
          /\ \A b \in gone : b.object = slots[slot].object /\ b.part # "inner"
          /\ \A b \in Live : b.object = slots[slot].object => b \in gone
      BY <2>1, ResultsApart
    <2>5. \A s \in (Held \cap HandleSlots) \ {slot} : heap[slots[s]].inner \notin gone
      BY <2>4 DEF OInv, HandleSound
    <2>. HIDE DEF gone
    <2>6. /\ Slotted' /\ ReleaseIsSafe'
          /\ Held' = Held \ {slot}
          /\ \A s \in Held' : heap'[slots'[s]] = heap[slots[s]]
          /\ \A s \in Held' \cap HandleSlots : HandleSound(s)'
          /\ \A s \in Held' \cap ResultSlots : ResultWhole(s)'
          /\ \A b \in Live' : Rooted(b)'
      BY <1>1, <2>1, <2>3, <2>4, <2>5, Shrunk
    <2>7. \A b : Owners(b)' = Owners(b)
      BY <2>1, <2>6 DEF Owners
    <2>8. \A b \in Live' : b.part = "inner" => Counted(b)'
      BY <2>3, <2>7 DEF OInv, Counted, Null, Block
    <2>. QED
      BY <2>6, <2>8 DEF OInv
  <1>. QED
    BY <1>2, <1>3

-----------------------------------------------------------------------------
(* What a result shows.                                                    *)

\* An array has a view for each text.
LEMMA ArrayViews ==
    ASSUME NEW object, NEW part, NEW lens \in Seq(Nat)
    PROVE  /\ Array(TextViews(object, part, lens)).len = Len(lens)
           /\ DOMAIN Array(TextViews(object, part, lens)).views = DOMAIN lens
           /\ \A i \in DOMAIN lens : Array(TextViews(object, part, lens)).views[i] =
                                       View(Block(object, part, i), lens[i])
  <1>. DEFINE views == [i \in 1..Len(lens) |-> View(Block(object, part, i), lens[i])]
              V     == {View(Block(object, part, i), lens[i]) : i \in 1..Len(lens)}
  <1>1. DOMAIN lens = 1..Len(lens) /\ Len(lens) \in Nat
    OBVIOUS
  <1>2. TextViews(object, part, lens) = views
    BY <1>1 DEF TextViews
  <1>3. \A i \in 1..Len(lens) : View(Block(object, part, i), lens[i]) \in V
    OBVIOUS
  <1>. HIDE DEF V
  <1>4. views \in Seq(V)
    BY <1>1, <1>3
  <1>5. Len(views) = Len(lens)
    BY <1>1, <1>4
  <1>. QED
    BY <1>1, <1>2, <1>5 DEF Array, Content

\* The blocks of a result hold what its shape says.
LEMMA ResultBlocks ==
    ASSUME NEW wire, NEW shape \in Shapes, Whole(wire, shape)
    PROVE  /\ heap[wire] = Wire(wire.object, shape)
           /\ shape.composition > 0 =>
                /\ Block(wire.object, "composition", 0) \in Live
                /\ heap[Block(wire.object, "composition", 0)] = Bytes(shape.composition)
           /\ Len(shape.candidates) > 0 =>
                /\ Block(wire.object, "candidates", 0) \in Live
                /\ heap[Block(wire.object, "candidates", 0)] =
                     Array(TextViews(wire.object, "candidate_texts", shape.candidates))
           /\ \A i \in DOMAIN shape.candidates : shape.candidates[i] > 0 =>
                /\ Block(wire.object, "candidate_texts", i) \in Live
                /\ heap[Block(wire.object, "candidate_texts", i)] = Bytes(shape.candidates[i])
           /\ Len(shape.actions) > 0 =>
                /\ Block(wire.object, "actions", 0) \in Live
                /\ heap[Block(wire.object, "actions", 0)] =
                     Array(TextViews(wire.object, "action_texts", shape.actions))
           /\ \A i \in DOMAIN shape.actions : shape.actions[i] > 0 =>
                /\ Block(wire.object, "action_texts", i) \in Live
                /\ heap[Block(wire.object, "action_texts", i)] = Bytes(shape.actions[i])
           /\ shape.degraded_components > 0 =>
                /\ Block(wire.object, "degraded_components", 0) \in Live
                /\ heap[Block(wire.object, "degraded_components", 0)] =
                     Bytes(shape.degraded_components)
  <1>. DEFINE object == wire.object
  <1>1. /\ wire = Block(object, "wire", 0)
        /\ \A b \in OwnedResult(object, shape) : b \in Live /\ heap[b] = Filled(object, shape, b)
    BY DEF Whole
  <1>2. shape \in [composition : Nat, candidates : Seq(Nat), actions : Seq(Nat),
                   degraded_components : Nat]
    BY OwnershipAssumption
  <1>3. /\ Len(shape.candidates) \in Nat /\ Len(shape.actions) \in Nat
        /\ \A i \in DOMAIN shape.candidates : shape.candidates[i] \in Nat
        /\ \A i \in DOMAIN shape.actions : shape.actions[i] \in Nat
    BY <1>2
  <1>4. \A block, n : n > 0 /\ n \in Nat => block \in {block : m \in {n} \ {0}}
    OBVIOUS
  <1>5. shape.composition > 0 => Block(object, "composition", 0) \in Buffers(object, shape)
    BY <1>2, <1>4 DEF Buffers
  <1>6. Len(shape.candidates) > 0 => Block(object, "candidates", 0) \in Buffers(object, shape)
    BY <1>3, <1>4 DEF Buffers
  <1>7. Len(shape.actions) > 0 => Block(object, "actions", 0) \in Buffers(object, shape)
    BY <1>3, <1>4 DEF Buffers
  <1>8. shape.degraded_components > 0 =>
            Block(object, "degraded_components", 0) \in Buffers(object, shape)
    BY <1>2, <1>4 DEF Buffers
  <1>9. \A i \in DOMAIN shape.candidates : shape.candidates[i] > 0 =>
             Block(object, "candidate_texts", i) \in Buffers(object, shape)
    BY <1>3 DEF Buffers
  <1>10. \A i \in DOMAIN shape.actions : shape.actions[i] > 0 =>
             Block(object, "action_texts", i) \in Buffers(object, shape)
    BY <1>3 DEF Buffers
  <1>11. \A part \in OwnedFields : \A i :
           Block(object, part, i) \in Buffers(object, shape) =>
              Block(object, part, i) \in OwnedResult(object, shape)
    BY DEF OwnedResult, Block
  <1>12. wire \in OwnedResult(object, shape)
    BY <1>1 DEF OwnedResult
  <1>13. {"composition", "candidates", "candidate_texts", "actions", "action_texts",
         "degraded_components"} \subseteq OwnedFields
    BY DEF OwnedFields
  <1>. HIDE DEF object
  <1>. QED
    BY <1>1, <1>5, <1>6, <1>7, <1>8, <1>9, <1>10, <1>11, <1>12, <1>13, FilledParts DEF object

\* The five views of a result.
LEMMA ResultViews ==
    ASSUME NEW wire, NEW shape \in Shapes, Whole(wire, shape)
    PROVE  Views(wire) = {View(Block(wire.object, "composition", 0), shape.composition),
                          View(Block(wire.object, "candidates", 0), Len(shape.candidates)),
                          View(Block(wire.object, "actions", 0), Len(shape.actions)),
                          View(Block(wire.object, "degraded_components", 0),
                               shape.degraded_components),
                          View(Block(wire.object, "result_flags", 0), 0)}
  <1>. DEFINE v1 == View(Block(wire.object, "composition", 0), shape.composition)
              v2 == View(Block(wire.object, "candidates", 0), Len(shape.candidates))
              v3 == View(Block(wire.object, "actions", 0), Len(shape.actions))
              v4 == View(Block(wire.object, "degraded_components", 0), shape.degraded_components)
              v5 == View(Block(wire.object, "result_flags", 0), 0)
  <1>1. heap[wire] = Wire(wire.object, shape)
    BY ResultBlocks
  <1>2. heap[wire].views = <<v1, v2, v3, v4, v5>>
    BY <1>1 DEF Wire, Content
  <1>. HIDE DEF v1, v2, v3, v4, v5
  <1>3. {<<v1, v2, v3, v4, v5>>[i] : i \in DOMAIN <<v1, v2, v3, v4, v5>>} = {v1, v2, v3, v4, v5}
    OBVIOUS
  <1>4. Views(wire) = {v1, v2, v3, v4, v5}
    BY <1>2, <1>3 DEF Views
  <1>. QED
    BY <1>4 DEF v1, v2, v3, v4, v5

\* The views of a result and of its arrays can be read.
LEMMA WholeReadable ==
    ASSUME NEW wire, NEW shape \in Shapes, Whole(wire, shape), NEW view \in Views(wire)
    PROVE  /\ Readable(view)
           /\ view.len > 0 => \A nested \in Views(view.ptr) : Readable(nested)
  <1>1. /\ shape.composition \in Nat /\ shape.degraded_components \in Nat
        /\ shape.candidates \in Seq(Nat) /\ shape.actions \in Seq(Nat)
    BY OwnershipAssumption
  <1>2. \A n : Bytes(n).len = n /\ DOMAIN Bytes(n).views = {}
    BY DEF Bytes, Content
  <1>3. ASSUME NEW block, NEW n \in Nat,
               n > 0 => block \in Live /\ heap[block].len = n
        PROVE  Readable(View(block, n))
    BY <1>3 DEF Readable, View
  <1>4. ASSUME NEW block, NEW n, View(block, n).len > 0
        PROVE  View(block, n).ptr = block /\ n > 0
    BY <1>4 DEF View
  <1>5. CASE view = View(Block(wire.object, "composition", 0), shape.composition)
    <2>1. Readable(view)
      BY <1>1, <1>2, <1>3, <1>5, ResultBlocks
    <2>2. view.len > 0 => Views(view.ptr) = {}
      BY <1>1, <1>2, <1>4, <1>5, ResultBlocks DEF Views
    <2>. QED
      BY <2>1, <2>2
  <1>6. CASE view = View(Block(wire.object, "candidates", 0), Len(shape.candidates))
    <2>1. Readable(view)
      <3>1. PICK block : block = Block(wire.object, "candidates", 0)
        OBVIOUS
      <3>2. Len(shape.candidates) > 0 => block \in Live /\ heap[block].len = Len(shape.candidates)
        BY <1>1, <3>1, ResultBlocks, ArrayViews
      <3>. QED
        BY <1>1, <1>3, <1>6, <3>1, <3>2
    <2>2. ASSUME view.len > 0, NEW nested \in Views(view.ptr)
          PROVE  Readable(nested)
      <3>1. PICK i \in DOMAIN shape.candidates :
               nested = View(Block(wire.object, "candidate_texts", i), shape.candidates[i])
        <4>1. view.ptr = Block(wire.object, "candidates", 0) /\ Len(shape.candidates) > 0
          BY <1>4, <1>6, <2>2
        <4>2. heap[view.ptr] = Array(TextViews(wire.object, "candidate_texts", shape.candidates))
          BY <4>1, ResultBlocks
        <4>. QED
          BY <1>1, <2>2, <4>2, ArrayViews DEF Views
      <3>2. PICK block : block = Block(wire.object, "candidate_texts", i)
        OBVIOUS
      <3>3. shape.candidates[i] \in Nat
        BY <1>1
      <3>4. shape.candidates[i] > 0 => block \in Live /\ heap[block].len = shape.candidates[i]
        BY <1>2, <3>2, ResultBlocks
      <3>. QED
        BY <1>3, <3>1, <3>2, <3>3, <3>4
    <2>. QED
      BY <2>1, <2>2
  <1>7. CASE view = View(Block(wire.object, "actions", 0), Len(shape.actions))
    <2>1. Readable(view)
      <3>1. PICK block : block = Block(wire.object, "actions", 0)
        OBVIOUS
      <3>2. Len(shape.actions) > 0 => block \in Live /\ heap[block].len = Len(shape.actions)
        BY <1>1, <3>1, ResultBlocks, ArrayViews
      <3>. QED
        BY <1>1, <1>3, <1>7, <3>1, <3>2
    <2>2. ASSUME view.len > 0, NEW nested \in Views(view.ptr)
          PROVE  Readable(nested)
      <3>1. PICK i \in DOMAIN shape.actions :
               nested = View(Block(wire.object, "action_texts", i), shape.actions[i])
        <4>1. view.ptr = Block(wire.object, "actions", 0) /\ Len(shape.actions) > 0
          BY <1>4, <1>7, <2>2
        <4>2. heap[view.ptr] = Array(TextViews(wire.object, "action_texts", shape.actions))
          BY <4>1, ResultBlocks
        <4>. QED
          BY <1>1, <2>2, <4>2, ArrayViews DEF Views
      <3>2. PICK block : block = Block(wire.object, "action_texts", i)
        OBVIOUS
      <3>3. shape.actions[i] \in Nat
        BY <1>1
      <3>4. shape.actions[i] > 0 => block \in Live /\ heap[block].len = shape.actions[i]
        BY <1>2, <3>2, ResultBlocks
      <3>. QED
        BY <1>3, <3>1, <3>2, <3>3, <3>4
    <2>. QED
      BY <2>1, <2>2
  <1>8. CASE view = View(Block(wire.object, "degraded_components", 0), shape.degraded_components)
    <2>1. Readable(view)
      BY <1>1, <1>2, <1>3, <1>8, ResultBlocks
    <2>2. view.len > 0 => Views(view.ptr) = {}
      BY <1>1, <1>2, <1>4, <1>8, ResultBlocks DEF Views
    <2>. QED
      BY <2>1, <2>2
  <1>9. CASE view = View(Block(wire.object, "result_flags", 0), 0)
    BY <1>9 DEF View, Readable
  <1>. QED
    BY <1>5, <1>6, <1>7, <1>8, <1>9, ResultViews

\* Each block of a result can be reached from its wire structure.
LEMMA WholeReached ==
    ASSUME NEW wire, NEW shape \in Shapes, Whole(wire, shape),
           NEW b \in Live, b.object = wire.object, b # wire
    PROVE  \E view \in Views(wire) :
              \/ view.ptr = b
              \/ view.len > 0 /\ \E nested \in Views(view.ptr) : nested.ptr = b
  <1>1. /\ shape.composition \in Nat /\ shape.degraded_components \in Nat
        /\ shape.candidates \in Seq(Nat) /\ shape.actions \in Seq(Nat)
    BY OwnershipAssumption
  <1>2. b \in Buffers(wire.object, shape)
    BY DEF Whole, OwnedResult
  <1>3. \A block, n : n # 0 => View(block, n).ptr = block /\ View(block, n).len = n
    BY DEF View
  <1>4. CASE b = Block(wire.object, "composition", 0) /\ shape.composition # 0
    BY <1>3, <1>4, ResultViews
  <1>5. ASSUME NEW i \in DOMAIN shape.candidates, shape.candidates[i] > 0,
               b = Block(wire.object, "candidate_texts", i)
        PROVE  \E view \in Views(wire) :
                  view.len > 0 /\ \E nested \in Views(view.ptr) : nested.ptr = b
    <2>1. Len(shape.candidates) > 0
      BY <1>1, <1>5
    <2>2. PICK array : array = Block(wire.object, "candidates", 0)
      OBVIOUS
    <2>3. View(array, Len(shape.candidates)) \in Views(wire)
      BY <2>2, ResultViews
    <2>4. View(Block(wire.object, "candidate_texts", i), shape.candidates[i]) \in Views(array)
      BY <1>1, <1>5, <2>1, <2>2, ResultBlocks, ArrayViews DEF Views
    <2>. QED
      BY <1>1, <1>3, <1>5, <2>1, <2>3, <2>4
  <1>6. CASE b = Block(wire.object, "candidates", 0) /\ Len(shape.candidates) # 0
    BY <1>3, <1>6, ResultViews
  <1>7. ASSUME NEW i \in DOMAIN shape.actions, shape.actions[i] > 0,
               b = Block(wire.object, "action_texts", i)
        PROVE  \E view \in Views(wire) :
                  view.len > 0 /\ \E nested \in Views(view.ptr) : nested.ptr = b
    <2>1. Len(shape.actions) > 0
      BY <1>1, <1>7
    <2>2. PICK array : array = Block(wire.object, "actions", 0)
      OBVIOUS
    <2>3. View(array, Len(shape.actions)) \in Views(wire)
      BY <2>2, ResultViews
    <2>4. View(Block(wire.object, "action_texts", i), shape.actions[i]) \in Views(array)
      BY <1>1, <1>7, <2>1, <2>2, ResultBlocks, ArrayViews DEF Views
    <2>. QED
      BY <1>1, <1>3, <1>7, <2>1, <2>3, <2>4
  <1>8. CASE b = Block(wire.object, "actions", 0) /\ Len(shape.actions) # 0
    BY <1>3, <1>8, ResultViews
  <1>9. CASE b = Block(wire.object, "degraded_components", 0) /\ shape.degraded_components # 0
    BY <1>3, <1>9, ResultViews
  <1>. QED
    BY <1>2, <1>4, <1>5, <1>6, <1>7, <1>8, <1>9 DEF Buffers

-----------------------------------------------------------------------------
(* The theorems.                                                           *)

\* The invariant holds of whatever the caller does.
LEMMA OInvHolds == Spec => []OInv
  <1>1. Init => OInv
    <2>. SUFFICES ASSUME Init PROVE OInv
      OBVIOUS
    <2>1. Live = {} /\ due = {} /\ DOMAIN slots = Slots
      BY DEF Init, Live
    <2>2. Held = {}
      BY <2>1 DEF Held
    <2>. QED
      BY <2>1, <2>2 DEF OInv, Slotted, ReleaseIsSafe
  <1>2. OInv /\ [Next]_vars => OInv'
    <2>. SUFFICES ASSUME OInv, [Next]_vars
                  PROVE  OInv'
      OBVIOUS
    <2>1. CASE UNCHANGED vars
      <3>1. UNCHANGED <<heap, slots, due>> /\ Null' = Null
        BY <2>1 DEF vars, Null, Block
      <3>2. Held' = Held
        BY <3>1 DEF Held
      <3>. QED
        BY <3>1, <3>2, Quiet DEF OInv, Slotted
    <2>2. ASSUME NEW slot \in EngineSlots, ime_v1_engine_create(slot)
          PROVE  OInv'
      BY <2>2, EngineCreated
    <2>3. ASSUME NEW slot \in EngineSlots \cup SessionSlots, Destroy(slot)
          PROVE  OInv'
      BY <2>3, HandleDropped DEF HandleSlots
    <2>4. ASSUME NEW engine \in EngineSlots, NEW slot \in SessionSlots,
                 ime_v1_session_create(engine, slot)
          PROVE  OInv'
      BY <2>4, SessionCreated
    <2>5. ASSUME NEW session \in SessionSlots, NEW slot \in ResultSlots,
                 ime_v1_session_result(session, slot)
          PROVE  OInv'
      BY <2>5, ResultCreated
    <2>6. ASSUME NEW slot \in ResultSlots, ime_v1_result_free(slot)
          PROVE  OInv'
      BY <2>6, ResultFreed
    <2>. QED
      BY <2>1, <2>2, <2>3, <2>4, <2>5, <2>6 DEF Next
  <1>. QED
    BY <1>1, <1>2, PTL DEF Spec

\* ReleaseIsSafe: a refused call leaves a null behind, never what a slot held before, and
\* no two slots hold the same (prepare_out, store_out).
THEOREM ReleaseAlwaysSafe == Spec => []ReleaseIsSafe
  <1>1. OInv => ReleaseIsSafe
    BY DEF OInv
  <1>. QED
    BY <1>1, OInvHolds, PTL

\* InnerRetained: Arc::clone in ImeEngine::new_session keeps the inner of every session,
\* in whatever order engine and sessions are destroyed.
THEOREM InnerAlwaysRetained == Spec => []InnerRetained
  <1>1. OInv => InnerRetained
    BY DEF OInv, InnerRetained, Held, HandleSlots, HandleSound
  <1>. QED
    BY <1>1, OInvHolds, PTL

\* ResultsStayReadable: OwnedResult keeps all that its wire structure points to, until
\* ime_v1_result_free is called with it.
THEOREM ResultsAlwaysReadable == Spec => []ResultsStayReadable
  <1>1. OInv => ResultsStayReadable
    <2>. SUFFICES ASSUME OInv, NEW slot \in ResultSlots \cap due, slots[slot] # Null
                  PROVE  /\ slots[slot] \in Live
                         /\ \A view \in Views(slots[slot]) :
                              /\ Readable(view)
                              /\ view.len > 0 => \A nested \in Views(view.ptr) : Readable(nested)
      BY DEF ResultsStayReadable
    <2>1. PICK shape \in Shapes : Whole(slots[slot], shape)
      BY DEF OInv, Held, ResultWhole
    <2>. QED
      BY <2>1, WholeParts, WholeReadable
  <1>. QED
    BY <1>1, OInvHolds, PTL

\* NothingLeaks: dropping an OwnedResult, or the last handle on an inner, frees all that
\* was allocated for it.
THEOREM NothingEverLeaks == Spec => []NothingLeaks
  <1>1. OInv => NothingLeaks
    <2>. SUFFICES ASSUME OInv, NEW b \in Live, b \notin Handed
                  PROVE  \/ \E owner \in Handed :
                              owner.part \in {"engine", "session"} /\ heap[owner].inner = b
                         \/ \E owner \in Handed : \E view \in Views(owner) :
                              \/ view.ptr = b
                              \/ view.len > 0 /\ \E nested \in Views(view.ptr) : nested.ptr = b
      BY DEF NothingLeaks
    <2>1. \A slot \in Held : slots[slot] \in Handed
      BY DEF Held, Handed
    <2>2. CASE b.part = "inner"
      <3>1. PICK slot \in Held \cap HandleSlots : heap[slots[slot]].inner = b
        BY <2>2 DEF OInv, Counted, Owners
      <3>2. slots[slot].part \in {"engine", "session"}
        BY <3>1 DEF OInv, ReleaseIsSafe, Held, HandleSlots, Kind
      <3>. QED
        BY <2>1, <3>1, <3>2
    <2>3. CASE \E slot \in Held \cap ResultSlots : slots[slot].object = b.object
      <3>1. PICK slot \in Held \cap ResultSlots : slots[slot].object = b.object
        BY <2>3
      <3>2. PICK shape \in Shapes : Whole(slots[slot], shape)
        BY DEF OInv, ResultWhole
      <3>3. b # slots[slot] /\ slots[slot] \in Handed
        BY <2>1
      <3>. QED
        BY <3>1, <3>2, <3>3, WholeReached
    <2>. QED
      BY <2>2, <2>3 DEF OInv, Rooted
  <1>. QED
    BY <1>1, OInvHolds, PTL
=============================================================================
