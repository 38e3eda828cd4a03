CONSTANTS
    Base <- MCBase
    Codes <- FarJump
SPECIFICATION Spec
INVARIANT
    JumpsLand
