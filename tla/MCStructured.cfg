\* Bounds: no compiled program of the set reaches them.
CONSTANTS
    Programs <- MCPrograms
    Expected <- MCExpected
    Shapes <- MCShapes
    MaxObjects = 300
    MaxFrames = 3
    MaxDepth = 30
SPECIFICATION Spec
INVARIANTS
    ExecutesLikePython
    NoStaleHandler
    LoopKeepsIterator
    ReturnsCleanly
    RaisesExceptions
    FollowsShapes
PROPERTY
    RunsTheScript
