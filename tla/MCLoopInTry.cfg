CONSTANTS
    Programs <- MCPrograms
    Expected <- MCExpected
    Case = "LoopInTry"
    MaxObjects = 200
    MaxFrames = 3
    MaxDepth = 30
SPECIFICATION Spec
INVARIANT ExecutesLikePython
