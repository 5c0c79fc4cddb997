\* One engine at a time, two sessions, two results held, every slot used again.
SPECIFICATION Spec
CONSTANTS
    o1 = o1
    o2 = o2
    o3 = o3
    o4 = o4
    o5 = o5
    Objects <- MCObjects
    EngineSlots <- MCEngineSlots
    SessionSlots <- MCSessionSlots
    ResultSlots <- MCResultSlots
    Shapes <- MCShapes
INVARIANTS
    ResultsStayReadable
    ReleaseIsSafe
    InnerRetained
    NothingLeaks
SYMMETRY Renaming
