\* Every signature, those with **kw alone included.
CONSTANTS
    Programs <- MCPrograms
    StarsFirst = FALSE
    MaxObjects = 80
    MaxFrames = 3
    MaxDepth = 10
SPECIFICATION Spec
PROPERTY CallsAcceptLikePython
