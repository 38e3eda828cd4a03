CONSTANTS
    Base <- MCBase
    Codes <- MCCodes
SPECIFICATION Spec
INVARIANTS
    SlotsAccountFor
    JumpsLand
PROPERTY
    ReadsLikeCPython
