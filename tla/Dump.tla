-------------------------------- MODULE Dump --------------------------------
(***************************************************************************)
(* How CPython 3.6 writes objects (w_object of its marshal.c), and what it *)
(* means that a store holds what was written.                              *)
(*                                                                         *)
(* A graph is its nodes, [kind, items, num, text] each, its root, and the  *)
(* nodes of which marshal found more than one owner: those get the flag    *)
(* and are numbered in the order in which they are begun.  The kind of a   *)
(* node is its type as far as the type byte depends on it:                 *)
(*   "String"        ASCII of fewer than 256 characters ('z', 'Z'), or     *)
(*                   other text that is not interned and can be UTF-8 ('u')*)
(*   "LongAscii"     ASCII of 256 characters or more ('a', 'A')            *)
(*   "InternedText"  interned text that is not ASCII ('t')                 *)
(*   "Surrogates"    text, not interned, with a lone surrogate ('u')       *)
(*   "Int"           an integer that fits 32 bits and a sign ('i')         *)
(*   "BigInt"        any other ('l')                                       *)
(*   "Float"         floats and complex numbers ('g', 'y')                 *)
(*   "Ellipsis"      ('.')                                                 *)
(* A dict ('{') is never within code, and there is none in a graph.        *)
(*                                                                         *)
(* w_object calls itself for the parts of an object.  A run of it is the   *)
(* sequence of its states, one for each token and one for the end of each  *)
(* container: `calls` are its calls under way with the number of parts     *)
(* that each has written, `index` the flagged nodes, and `token` the last  *)
(* token, the at-th.  `made` is history: the nodes in the order in which   *)
(* a reader can make them, those with parts and no flag at their end.      *)
(***************************************************************************)
EXTENDS Loading

\* Text, and all that the reader has no arm for or cannot decode.
Texts  == {"String", "LongAscii", "InternedText", "Surrogates"}
Unread == (Texts \ {"String"}) \cup {"BigInt", "Float", "Ellipsis"}

Node(kind, items, num, text) == [kind |-> kind, items |-> items, num |-> num, text |-> text]

T(op, flag, n, text) == [op |-> op, flag |-> flag, n |-> n, text |-> text]

Kind(g, v)  == g.nodes[v].kind
Parts(g, v) == g.nodes[v].items
Num(g, v)   == g.nodes[v].num
Text(g, v)  == g.nodes[v].text

\* What the reader makes of the type byte.
Op(kind) == IF kind \notin Unread THEN kind
            ELSE IF kind = "Surrogates" THEN "Undecodable" ELSE "Unknown"
\* These are written as a type byte alone.
Unnumbered == Singletons \cup {"Ellipsis"}

Among(s, v) == \E i \in 1..Len(s) : s[i] = v
Place(s, v) == CHOOSE i \in 1..Len(s) : s[i] = v
Grown(s, v, grows) == IF grows THEN Append(s, v) ELSE s

-----------------------------------------------------------------------------
NotBegun == [calls |-> <<>>, over |-> FALSE, index |-> <<>>, made |-> <<>>,
             at |-> 0, token |-> T("Null", FALSE, 0, "")]

WriterState(nodes) ==
    [calls : Seq([node : nodes, done : Nat]), over : BOOLEAN,
     index : Seq(nodes), made : Seq(nodes), at : Nat, token : Token]

Inner(w)       == w.calls[Len(w.calls)]
Finished(g, w) == w.calls # <<>> /\ Inner(w).done = Len(Parts(g, Inner(w).node))
Current(g, w)  == IF w.calls = <<>> THEN g.root ELSE Parts(g, Inner(w).node)[Inner(w).done + 1]

Wrote(calls) == IF calls = <<>> THEN calls ELSE [calls EXCEPT ![Len(calls)].done = @ + 1]

End(g, w) ==
    LET v     == Inner(w).node
        outer == SubSeq(w.calls, 1, Len(w.calls) - 1)
    IN  [w EXCEPT !.calls = Wrote(outer), !.over = (outer = <<>>),
                  !.made = Grown(@, v, v \notin g.flagged)]

\* A singleton, or an object that has been written or begun.
WriteShort(w, token) ==
    [w EXCEPT !.calls = Wrote(@), !.over = (w.calls = <<>>), !.at = @ + 1, !.token = token]

WriteLong(g, w, v) ==
    LET leaf == Kind(g, v) \notin Containers
        flag == v \in g.flagged
        n    == IF Kind(g, v) = "Int" THEN Num(g, v)
                ELSE IF Kind(g, v) = "Code" THEN 0 ELSE Len(Parts(g, v))
    IN  [w EXCEPT !.calls = IF leaf THEN Wrote(@) ELSE Append(@, [node |-> v, done |-> 0]),
                  !.over  = (leaf /\ w.calls = <<>>),
                  !.index = Grown(@, v, flag),
                  !.made  = Grown(@, v, leaf \/ flag),
                  !.at = @ + 1, !.token = T(Op(Kind(g, v)), flag, n, Text(g, v))]

Step(g, w) ==
    LET v == Current(g, w)
    IN  IF Finished(g, w) THEN End(g, w)
        ELSE IF Kind(g, v) \in Unnumbered THEN WriteShort(w, T(Op(Kind(g, v)), FALSE, 0, ""))
        ELSE IF Among(w.index, v) THEN WriteShort(w, T("Ref", FALSE, Place(w.index, v) - 1, ""))
        ELSE WriteLong(g, w, v)

-----------------------------------------------------------------------------
\* The objects of Python: there is one None, and a code object has its parts.
AreTexts(g, v) == \A i \in 1..Len(Parts(g, v)) : Kind(g, Parts(g, v)[i]) \in Texts
IsCodeNode(g, p) ==
    /\ Len(p) = CodeParts
    /\ Kind(g, p[1]) = "Bytes"
    /\ \A i \in 2..6 : Kind(g, p[i]) = "Tuple"
    /\ AreTexts(g, p[3]) /\ AreTexts(g, p[4])
    /\ \A i \in {7, 8} : Kind(g, p[i]) \in Texts

IsGraph(g) ==
    /\ g.root \in DOMAIN g.nodes
    /\ \A v \in DOMAIN g.nodes :
          /\ g.nodes[v] \in [kind : Singletons \cup Leaves \cup Containers \cup Unread,
                             items : Seq(DOMAIN g.nodes), num : Signed \cup {0}, text : STRING]
          /\ Kind(g, v) \notin Containers => Parts(g, v) = <<>>
          /\ Kind(g, v) \notin Leaves => Text(g, v) = ""
          /\ IF Kind(g, v) = "Int" THEN Num(g, v) \in Signed ELSE Num(g, v) = 0
          /\ Kind(g, v) \in Unnumbered =>
                v \notin g.flagged /\ \A u \in DOMAIN g.nodes : Kind(g, u) = Kind(g, v) => u = v
          /\ Kind(g, v) = "Code" => IsCodeNode(g, Parts(g, v))

Begun(w, v) == \E i \in 1..Len(w.calls) : w.calls[i].node = v

\* What has one owner is met once, and a code object is not within its parts.
Regular(g, w) ==
    LET v == Current(g, w)
        p == Parts(g, Inner(w).node)
    IN  IF Finished(g, w)
        THEN Kind(g, Inner(w).node) = "Code" => \A j \in 1..CodeParts : ~Begun(w, p[j])
        ELSE Kind(g, v) \in Unnumbered \/ Among(w.index, v) \/ ~(Among(w.made, v) \/ Begun(w, v))

Last(from) == from.run[Len(from.run)]

\* The reader has an arm for every object of the graph.
Readable(g) == \A v \in DOMAIN g.nodes : Kind(g, v) \notin Unread

\* The reader does not count these.
FrozenSetFlagged(g) == \E v \in g.flagged : Kind(g, v) = "FrozenSet"

\* The file is what from.run wrote of from.graph.
IsWritten(from, file) ==
    LET g   == from.graph
        run == from.run
    IN  /\ run # <<>> /\ IsGraph(g) /\ run \in Seq(WriterState(DOMAIN g.nodes))
        /\ run[1] = NotBegun
        /\ \A k \in 1..(Len(run) - 1) :
              ~run[k].over /\ Regular(g, run[k]) /\ run[k + 1] = Step(g, run[k])
        /\ Last(from).over
        /\ file.header = "good" /\ Len(file.tokens) = Last(from).at
        /\ \A k \in 1..Len(run) : run[k].at > 0 =>
              run[k].at <= Len(file.tokens) /\ file.tokens[run[k].at] = run[k].token

\* What CPython wrote of the two files has no such frozenset.
NoneFlagged(f) ==
    /\ IsWritten(f.from[1], f.main) => ~FrozenSetFlagged(f.from[1].graph)
    /\ IsWritten(f.from[2], f.builtins) => ~FrozenSetFlagged(f.from[2].graph)

-----------------------------------------------------------------------------
(***************************************************************************)
(* m gives the nodes their references.                                     *)
(***************************************************************************)
RefsOf(g, made, base) ==
    [v \in {v \in DOMAIN g.nodes : Kind(g, v) \in Singletons \/ Among(made, v)} |->
        IF Kind(g, v) \in Singletons THEN SingletonRef(Kind(g, v)) ELSE base + Place(made, v)]

\* A code object has its names and texts by value, and an integer is held without
\* its sign: -1 as 4294967295.
Image(g, m, v) ==
    LET p        == Parts(g, v)
        num      == IF Num(g, v) < 0 THEN Num(g, v) + Longs ELSE Num(g, v)
        refs(u)  == [i \in 1..Len(Parts(g, u)) |-> m[Parts(g, u)[i]]]
        texts(u) == [i \in 1..Len(Parts(g, u)) |-> Text(g, Parts(g, u)[i])]
    IN  IF Kind(g, v) # "Code" THEN Object(Kind(g, v), refs(v), num, Text(g, v))
        ELSE [kind     |-> "Code",
              code     |-> Text(g, p[1]),
              consts   |-> refs(p[2]),
              names    |-> texts(p[3]),
              varnames |-> texts(p[4]),
              freevars |-> refs(p[5]),
              cellvars |-> refs(p[6]),
              filename |-> Text(g, p[7]),
              name     |-> Text(g, p[8]),
              lnotab   |-> m[p[9]]]

\* The same contents throughout, and the same sharing: an object that two
\* others hold is one object, and what are two objects stay two.
Holds(g, m, ref) ==
    /\ g.root \in DOMAIN m /\ m[g.root] = ref
    /\ \A v \in DOMAIN m :
          /\ \A i \in 1..Len(Parts(g, v)) : Parts(g, v)[i] \in DOMAIN m
          /\ m[v] \in DOMAIN heap /\ heap[m[v]] = Image(g, m, v)
    /\ \A u, v \in DOMAIN m : m[u] = m[v] => u = v

HoldsWritten(from, ref) ==
    \E base \in Given : Holds(from.graph, RefsOf(from.graph, Last(from).made, base), ref)

\* What is loaded is what was written: of each of the two files that CPython
\* wrote, the same objects with the same sharing, through references, shared
\* parts and cycles, but for the signs of integers.  A file is refused only if
\* it has an object that the reader does not support: it is never misread, and
\* two files without such an object are loaded.
ReadsWhatWasWritten ==
    LET readable(from, file) == IsWritten(from, file) /\ Readable(from.graph)
        holds(from, file, ref) == IsWritten(from, file) => HoldsWritten(from, ref)
    IN  /\ outcome \in {"error", "panic"} =>
              ~(readable(files.from[1], files.main) /\ readable(files.from[2], files.builtins))
        /\ outcome = "loaded" =>
              /\ holds(files.from[1], files.main, main)
              /\ holds(files.from[2], files.builtins, heap[builtins].items[1])
=============================================================================
