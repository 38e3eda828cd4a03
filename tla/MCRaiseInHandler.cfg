CONSTANTS
    Programs <- MCPrograms
    Expected <- MCExpected
    Case = "RaiseInHandler"
    MaxObjects = 200
    MaxFrames = 3
    MaxDepth = 30
SPECIFICATION Spec
INVARIANT ExecutesLikePython
