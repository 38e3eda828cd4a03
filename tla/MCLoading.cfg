CONSTANTS
    Longs = 8
    Files <- MCFiles
SPECIFICATION Spec
INVARIANTS
    ReservedOrStored
    ClosedWhenLoaded
    ReadsWhatWasWritten
PROPERTIES
    OnlyGrows
    LoadEnds
