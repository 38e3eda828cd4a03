\* Bounds: most programs end before them, the loops are cut.
CONSTANTS
    Programs <- MCPrograms
    MaxObjects = 50
    MaxFrames = 4
    MaxDepth = 10
SPECIFICATION Spec
INVARIANTS
    TypeOK
    RefsValid
    BasesOlder
    IteratorsInRange
    LocalsPrivate
PROPERTIES
    ObjectsStable
    CallersFrozen
