CONSTANTS
    Object <- MCObject
    Graphs <- MCGraphs
SPECIFICATION Spec
INVARIANTS
    SearchInv
    AnswersReachability
    AnswersLikeObjects
PROPERTY
    MeetsPromise
