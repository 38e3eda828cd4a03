------------------------------ MODULE Subclass ------------------------------
(***************************************************************************)
(* native_issubclass (primitives/mod.rs), loop iteration by iteration: the *)
(* breadth-first search from a class along its bases that issubclass,      *)
(* isinstance, "except C:" and the unwinding of the call stack rely on.    *)
(*                                                                         *)
(* Objects.tla has its answer as one operator, NativeIsSubclass, which is  *)
(* shown to agree with it.  The search is modelled over any graph, one     *)
(* with cycles included.                                                   *)
(***************************************************************************)
EXTENDS ClassGraph

VARIABLES
    visited,    \* a HashSet
    to_visit    \* a LinkedList: taken from the front, extended at the back

vars == <<bases, first, second, visited, to_visit, result>>

Candidate == Head(to_visit)
Searching == result = "unknown"

\* Mutant: only the first base is queued.
ExpandFirstBaseOnly ==
    /\ Searching /\ to_visit # <<>> /\ Candidate \notin visited /\ Candidate # second
    /\ visited' = visited \cup {Candidate}
    /\ to_visit' = Tail(to_visit)
                   \o (IF bases[Candidate] = <<>> THEN <<>> ELSE <<Head(bases[Candidate])>>)
    /\ UNCHANGED <<bases, first, second, result>>

\* Mutant: a visited candidate is looked at without being taken off the list.
SkipWithoutPop ==
    /\ Searching /\ to_visit # <<>> /\ Candidate \in visited
    /\ UNCHANGED vars

\* Mutant: the queue is replaced, not extended.
ExpandForgettingQueue ==
    /\ Searching /\ to_visit # <<>> /\ Candidate \notin visited /\ Candidate # second
    /\ visited' = visited \cup {Candidate}
    /\ to_visit' = bases[Candidate]
    /\ UNCHANGED <<bases, first, second, result>>

Init ==
    /\ Asked
    /\ visited = {}
    /\ to_visit = <<first>>

\* `continue`: insert returned false.
Skip ==
    /\ Searching /\ to_visit # <<>> /\ Candidate \in visited
    /\ to_visit' = Tail(to_visit)
    /\ UNCHANGED <<bases, first, second, visited, result>>

Found ==
    /\ Searching /\ to_visit # <<>> /\ Candidate \notin visited /\ Candidate = second
    /\ visited' = visited \cup {Candidate}
    /\ to_visit' = Tail(to_visit)
    /\ result' = "true"
    /\ UNCHANGED <<bases, first, second>>

Expand ==
    /\ Searching /\ to_visit # <<>> /\ Candidate \notin visited /\ Candidate # second
    /\ visited' = visited \cup {Candidate}
    /\ to_visit' = Tail(to_visit) \o bases[Candidate]
    /\ UNCHANGED <<bases, first, second, result>>

Exhausted ==
    /\ Searching /\ to_visit = <<>>
    /\ result' = "false"
    /\ UNCHANGED <<bases, first, second, visited, to_visit>>

Search == Skip \/ Found \/ Expand \/ Exhausted
Answered == ~Searching /\ UNCHANGED vars

Next == Search \/ Answered

\* The loop runs until it returns.
Spec == Init /\ [][Next]_vars /\ WF_vars(Search)

-----------------------------------------------------------------------------
Queued == Elements(to_visit)

TypeOK ==
    /\ bases \in [Object -> Seq(Object)]
    /\ first \in Object /\ second \in Object
    /\ visited \subseteq Object
    /\ to_visit \in Seq(Object)
    /\ result \in {"unknown", "true", "false"}

\* Everything the search has seen is reachable, what it may still reach is
\* behind the queue, and it has not seen what it looks for.
SearchInv ==
    /\ visited \cup Queued \subseteq Reachable(first)
    /\ first \in visited \cup Queued
    /\ \A c \in visited : c = second \/ BasesOf(c) \subseteq visited \cup Queued
    /\ second \in visited <=> result = "true"
    /\ result = "false" => to_visit = <<>>

\* The answer is right: true exactly when the second class can be reached from
\* the first, through however many bases, shared bases and cycles.
AnswersReachability ==
    ~Searching => (result = "true" <=> second \in Reachable(first))

\* Started on any graph, the search gives the one right answer and gives it
\* eventually: the visited set sees to that on a cycle.  Looking at a candidate
\* is a step that the promise does not see.
Promise == INSTANCE Reachability
MeetsPromise == Promise!Spec

\* On the graphs that a store of the machine holds, whose bases are older than
\* their classes (BasesOlder of Interpreter.tla), the search answers what
\* NativeIsSubclass of Objects.tla does, the recursive operator through which
\* the model of the interpreter makes its subclass tests.
Objs    == INSTANCE Objects
Store   == [objs |-> [c \in Object |-> [bases |-> bases[c]]]]
InStore == bases \in Seq(Seq(Object)) /\ \A c \in Object : \A b \in BasesOf(c) : b < c

AnswersLikeObjects ==
    InStore /\ ~Searching =>
        (result = "true" <=> Objs!NativeIsSubclass(Store, first, second))

=============================================================================
