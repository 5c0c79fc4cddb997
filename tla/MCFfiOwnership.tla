---------------------------- MODULE MCFfiOwnership ----------------------------
(***************************************************************************)
(* A small instance of FfiOwnership: results that hold nothing, candidates *)
(* being composed, a deletion, and a commit with a degraded component.     *)
(***************************************************************************)
EXTENDS FfiOwnership, TLC

CONSTANTS o1, o2, o3, o4, o5

MCObjects == {o1, o2, o3, o4, o5}
MCEngineSlots == {"engine"}
MCSessionSlots == {"session1", "session2"}
MCResultSlots == {"result1", "result2"}

Shape(composition, candidates, actions, degraded) ==
    [composition |-> composition, candidates |-> candidates, actions |-> actions,
     degraded_components |-> degraded]

MCShapes == {Shape(1, <<1, 2>>, <<>>, 0), Shape(0, <<>>, <<0>>, 0),
             Shape(0, <<>>, <<2>>, 1)}

Renaming == Permutations(MCObjects)
=============================================================================
