------------------------------ MODULE MCLoading -----------------------------
(***************************************************************************)
(* Files that CPython writes, with what they were written from, files that *)
(* it does not write, and pairs of both.                                   *)
(***************************************************************************)
EXTENDS Dump, Listing, FiniteSets, TLC

(***************************************************************************)
(* The run of the writer on a graph, and the file that comes of it.        *)
(***************************************************************************)
RECURSIVE RunOn(_)
RunOn(from) == IF Last(from).over THEN from
               ELSE RunOn([from EXCEPT !.run = Append(@, Step(from.graph, Last(from)))])
WritingOf(g) == RunOn([graph |-> g, run |-> <<NotBegun>>])

GoodFile(tokens) == [header |-> "good", tokens |-> tokens]
FileOf(from) == GoodFile([i \in 1..Last(from).at |->
                             (CHOOSE w \in {from.run[k] : k \in 1..Len(from.run)} : w.at = i).token])

(***************************************************************************)
(* Graphs of three objects: a tuple of two, any container over the three,  *)
(* and a leaf or a small container.  A cycle goes through a list, and what *)
(* is in a frozenset can be hashed.                                        *)
(***************************************************************************)
Upto(S, n) == UNION {[1..k -> S] : k \in 0..n}
Contents(kinds, n) == {Node(k, s, 0, "") : k \in kinds, s \in Upto(1..3, n)}

Kids(nodes, S) == UNION {{nodes[v].items[i] : i \in 1..Len(nodes[v].items)} : v \in S}
RECURSIVE Within(_, _)
Within(nodes, S) == LET more == S \cup Kids(nodes, S) IN IF more = S THEN S ELSE Within(nodes, more)

Makeable(nodes) ==
    /\ Within(nodes, {1}) = 1..3
    /\ \A v \in 1..3 : nodes[v].kind # "List" =>
          LET step(S) == {u \in Kids(nodes, S) : nodes[u].kind # "List"}
          IN  v \notin step({v}) \cup step(step({v})) \cup step(step(step({v})))
    /\ \A v \in 1..3 : nodes[v].kind \in {"FrozenSet", "Set"} =>
          \A u \in Within(nodes, Kids(nodes, {v})) : nodes[u].kind \notin {"List", "Set"}
    /\ \A v \in 1..3 : nodes[v].kind \in {"FrozenSet", "Set"} =>
          Len(nodes[v].items) = Cardinality(Kids(nodes, {v}))

Owners(nodes, u) ==
    Cardinality({<<v, i>> \in (1..3) \X (1..2) : i <= Len(nodes[v].items) /\ nodes[v].items[i] = u})

NodesSet == {n \in {<<a, b, c>> : a \in {Node("Tuple", s, 0, "") : s \in [1..2 -> 2..3]},
                                  b \in Contents({"Tuple", "List", "FrozenSet"}, 2),
                                  c \in Contents({"Tuple", "Set"}, 1)
                                        \cup {Node(k, <<>>, 0, "") : k \in {"None", "Ellipsis", "LongAscii"}}
                                        \cup {Node("String", <<>>, 0, "a"), Node("Int", <<>>, -1, "")}}
             : Makeable(n)}

\* marshal flags what has more owners than one, and may flag more.
Graphs == {[root |-> 1, nodes |-> n, flagged |-> F] : n \in NodesSet, F \in SUBSET (1..3)}
MustFlag(g) == {v \in 1..3 : Owners(g.nodes, v) > 1 \/ v \in Within(g.nodes, Kids(g.nodes, {v}))}
SmallGraphs == {g \in Graphs : MustFlag(g) \subseteq g.flagged
                               /\ \A v \in g.flagged : g.nodes[v].kind \notin Unnumbered}

(***************************************************************************)
(* Code: a module with a function, an empty tuple and names that they      *)
(* share, as in test_module of decode.rs.                                  *)
(***************************************************************************)
Str(s) == Node("String", <<>>, 0, s)
ModuleNodes ==
    <<Node("Code", <<2, 3, 5, 4, 4, 4, 6, 7, 2>>, 0, ""),      \* 1: code and lnotab are one object
      Node("Bytes", <<>>, 0, "d"), Node("Tuple", <<8, 9, 10, 4>>, 0, ""), Node("Tuple", <<>>, 0, ""),
      Node("Tuple", <<9>>, 0, ""), Str("file"), Str("<module>"),
      Node("Code", <<2, 11, 12, 13, 4, 4, 6, 9, 2>>, 0, ""),   \* 8: the function
      Str("f"), Node("None", <<>>, 0, ""), Node("Tuple", <<10, 14>>, 0, ""), Node("Tuple", <<9, 15>>, 0, ""),
      Node("Tuple", <<15>>, 0, ""), Node("Int", <<>>, 1, ""), Str("x")>>
SharedOfModule == {2, 4, 6, 9, 15}
ModuleGraphs == {[root |-> 1, nodes |-> ModuleNodes, flagged |-> SharedOfModule \cup F] :
                    F \in SUBSET {1, 3, 8, 12, 14}}

\* With a long docstring, a name, a file or a constant that the reader does not support.
Changed(i, kind) == [ModuleNodes EXCEPT ![i] = Node(kind, <<>>, 0, "")]
UnreadModules ==
    {[root |-> 1, nodes |-> n, flagged |-> SharedOfModule] :
        n \in {Changed(14, k) : k \in {"LongAscii", "BigInt", "Float", "Ellipsis"}}
              \cup {Changed(i, k) : i \in {6, 9, 15}, k \in {"InternedText", "Surrogates"}}}

-----------------------------------------------------------------------------
AnyModule   == WritingOf([root |-> 1, nodes |-> ModuleNodes, flagged |-> SharedOfModule \cup {1, 8}])
ModuleFile  == FileOf(AnyModule)
EmptyModule == WritingOf(
    [root |-> 1, flagged |-> {2, 3, 4},
     nodes |-> <<Node("Code", <<2, 3, 3, 3, 3, 3, 4, 4, 2>>, 0, ""), Node("Bytes", <<>>, 0, "d"),
                 Node("Tuple", <<>>, 0, ""), Str("builtins")>>])
EmptyFile   == FileOf(EmptyModule)
Unknown     == [run |-> <<>>]

\* Each pair of files with what they were written from.
Case(m, mfrom, b, bfrom) == [main |-> m, builtins |-> b, from |-> <<mfrom, bfrom>>]

WrittenCases ==
    {Case(FileOf(from), from, EmptyFile, EmptyModule) :
        from \in {WritingOf(g) : g \in SmallGraphs \cup ModuleGraphs \cup UnreadModules}}
    \cup {Case(EmptyFile, EmptyModule, FileOf(from), from) :
              from \in {WritingOf(g) : g \in ModuleGraphs \cup UnreadModules}}

ASSUME AllAreWritten ==
    \A c \in WrittenCases : IsWritten(c.from[1], c.main) /\ IsWritten(c.from[2], c.builtins)

\* What no program of CPython's writes: any few tokens, a file that is cut off,
\* a code object with a part of another kind or with a part that is itself.
SomeTokens ==
    {T("None", TRUE, 0, ""), T("String", FALSE, 0, "a"), T("Int", TRUE, -1, ""),
     T("Tuple", TRUE, 2, ""), T("Tuple", FALSE, 1, ""), T("List", TRUE, 1, ""),
     T("FrozenSet", TRUE, 1, ""), T("Ref", FALSE, 0, ""), T("Ref", FALSE, 1, ""),
     T("Null", FALSE, 0, ""), T("Undecodable", TRUE, 0, ""), T("Unknown", FALSE, 0, "")}
FlatCode == <<T("Bytes", FALSE, 0, "d"), T("Tuple", FALSE, 0, ""), T("Tuple", FALSE, 0, ""),
              T("Tuple", FALSE, 0, ""), T("Tuple", FALSE, 0, ""), T("Tuple", FALSE, 0, ""),
              T("String", FALSE, 0, "file"), T("String", FALSE, 0, "f"), T("Bytes", FALSE, 0, "l")>>
Code(parts) == <<T("Code", TRUE, 0, "")>> \o parts
TokensSet ==
    Upto(SomeTokens, 3) \cup {<<T("Tuple", TRUE, 2, "")>> \o s : s \in Upto(SomeTokens, 3)}
    \cup {SubSeq(ModuleFile.tokens, 1, k) : k \in 0..Len(ModuleFile.tokens)}
    \cup {Code([FlatCode EXCEPT ![i] = t]) : i \in 1..CodeParts, t \in SomeTokens}
    \cup {Code(SubSeq(FlatCode, 1, i - 1) \o <<T("Tuple", FALSE, 1, ""), t>> \o SubSeq(FlatCode, i + 1, CodeParts))
             : i \in 1..CodeParts, t \in SomeTokens}

OtherFiles == {[header |-> h, tokens |-> ModuleFile.tokens] : h \in {"bad", "short", "missing"}}
FewTokens  == Upto(SomeTokens, 2)
ArbitraryCases ==
    {Case(GoodFile(s), Unknown, EmptyFile, EmptyModule) : s \in TokensSet}
    \cup {Case(f, Unknown, EmptyFile, EmptyModule) : f \in OtherFiles}
    \cup {Case(EmptyFile, EmptyModule, f, Unknown) : f \in OtherFiles \cup {GoodFile(s) : s \in FewTokens}}

MCFiles == {c \in WrittenCases : NoneFlagged(c)} \cup ArbitraryCases

\* A tuple of a shared frozenset, a string and the string again.
FrozenSetGraph ==
    [root |-> 1, flagged |-> {2, 3},
     nodes |-> <<Node("Tuple", <<2, 3, 3, 2>>, 0, ""), Node("FrozenSet", <<3>>, 0, ""), Str("a")>>]
FrozenSetFiles == LET from == WritingOf(FrozenSetGraph)
                  IN  {Case(FileOf(from), from, EmptyFile, EmptyModule)}
=============================================================================
