----------------------------- MODULE ClassGraph -----------------------------
(***************************************************************************)
(* The question that native_issubclass (primitives/mod.rs) is asked: a     *)
(* store of classes with their bases, two of the classes, and the answer.  *)
(***************************************************************************)
EXTENDS Integers, Sequences

CONSTANTS
    Object,     \* the references of the store
    Graphs      \* the stores that are searched: the bases of every object

ASSUME GraphsAssumption == Graphs \subseteq [Object -> Seq(Object)]

VARIABLES
    bases,      \* the store, which the search does not change
    first, second,
    result

Elements(s)  == {s[i] : i \in 1..Len(s)}
BasesOf(c)   == Elements(bases[c])

\* The classes that can be reached from c along bases are those in every set
\* that holds c and is closed under bases.
Closed(S)    == \A c \in S : BasesOf(c) \subseteq S
Reachable(c) == {d \in Object : \A S \in SUBSET Object : c \in S /\ Closed(S) => d \in S}

Asked ==
    /\ bases \in Graphs
    /\ first \in Object /\ second \in Object
    /\ result = "unknown"
=============================================================================
