\* Every small engine, every composition.
SPECIFICATION Spec
CONSTANTS
    Pipelines <- MCPipelines
    Compositions <- MCCompositions
INVARIANTS
    BestInOrder
    ExactNotCrowdedOut
    SomeMatchSomeCandidate
    InsertionOrderHidden
    LookupsAgree
