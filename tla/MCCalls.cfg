CONSTANTS
    Programs <- MCPrograms
    StarsFirst = TRUE
    MaxObjects = 80
    MaxFrames = 3
    MaxDepth = 10
SPECIFICATION Spec
PROPERTIES
    CallsBindLikePython
    CallsRefuseExtraArguments
