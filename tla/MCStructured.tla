---------------------------- MODULE MCStructured ----------------------------
(***************************************************************************)
(* Interpreter on every program of a bounded part of the subset of Python  *)
(* that Python.tla compiles and that the machine supports.                 *)
(***************************************************************************)
EXTENDS Compiled, Discipline, Listing, TLC

\* Bodies of simple statements.
Bodies0 == << <<>>, <<Out(1)>>, <<Out(1), Raising("Foo")>>, <<Raising("Qux")>>,
              <<CallF, Out(1)>>, <<Undefined>> >>
HandlersOne == << <<Except("Foo", <<Out(2)>>)>>,
                  <<Except("Bar", <<>>), Except("BaseException", <<Out(2)>>)>> >>
HandlersTwo == << <<Except("Foo", <<PrintCall(2)>>)>>, <<Except("", <<>>)>> >>

TryPass(body, hs) == Try(body, hs, <<>>)
TryElse(body, hs) == Try(body, hs, <<Out(1), Raising("Bar")>>)
Compound1 == Combine(TryPass, Bodies0, HandlersOne) \o Combine(TryElse, Bodies0, HandlersOne)
             \o Combine(For, <<0, 1, 2>>, Bodies0)

\* A compound statement in another, or after another, or in its else.
Inside(s, last) == <<s>> \o last
Bodies1  == Combine(Inside, Compound1, << <<>>, <<Raising("Bar")>> >>)
Else(h, s) == Try(<<Out(1)>>, h, <<s>>)
Compound2 == Combine(TryPass, Bodies1, HandlersTwo) \o Combine(TryElse, Bodies1, HandlersTwo)
             \o Combine(For, <<2>>, Bodies1)
             \o Combine(Else, SubSeq(HandlersOne, 1, 1), Compound1)

One(s, last) == <<s, last>>
Two(s, t)    == <<s, t>>
Ends == <<PrintCall(2)>>
Mains == Combine(One, Compound1, Ends) \o Combine(One, Compound2, Ends)
         \o Combine(Two, <<For(2, <<>>), TryPass(<<Raising("Qux")>>, HandlersOne[1])>>, Compound1)

Functions == << <<Raising("Qux")>>,
                <<For(2, <<>>), Try(<<Raising("Foo")>>, <<Except("Bar", <<>>)>>, <<>>)>>,
                <<Try(<<Undefined>>, <<Except("", <<PrintCall(1)>>)>>, <<Out(2)>>), Out(2)>> >>

\* A module that calls nothing is run with one of the functions.
RECURSIVE CallsF(_)
CallsF(b) == \E i \in 1..Len(b) : b[i].kind = "call" \/ CallsF(b[i].body) \/ CallsF(b[i].else)

SupportedMains == SelectSeq(Mains, LAMBDA b : Supported(b, "top", TRUE))
Callers        == SelectSeq(SupportedMains, CallsF)
ASSUME FunctionsAssumption ==
    \A i \in 1..Len(Functions) : Supported(Functions[i], "top", FALSE)

ForAll(of(_, _)) == Combine(of, SupportedMains, SubSeq(Functions, 1, 1))
                    \o Combine(of, Callers, Tail(Functions))
AllPrograms == ForAll(ProgramOf)
AllExpected == ForAll(ExpectedOf)

\* The shapes of a code, by following it from its start: its jumps backwards are
\* to addresses that have their shape already.
AnyOf(S) == CHOOSE x \in S : TRUE
ShapesIn(is) ==
    LET slots == 1..Len(is)
        more(known, flow) ==
            SubSeq([i \in slots |-> known[i] \cup {to.shape : to \in {to \in flow : to.address = i - 1}}],
                   1, Len(is))
        follow[i \in 0..Len(is)] ==
            IF i = 0 THEN [j \in slots |-> IF j = 1 THEN {Entry} ELSE {}]
            ELSE LET known == follow[i - 1]
                 IN  IF known[i] = {} THEN known
                     ELSE more(known, Flow(is[i], i - 1, AnyOf(known[i])))
        reached == follow[Len(is)]
    IN  [a \in {a \in 0..(Len(is) - 1) : reached[a + 1] # {}} |-> AnyOf(reached[a + 1])]

BuiltinsShapes == ShapesIn(CompileBuiltins)
PrintShapes    == ShapesIn(CompilePrint)
ClassShapes    == [i \in 1..Len(ClassList) |-> ShapesIn(CompileClass(ClassList[i]))]
ShapesOfProgram(main, f) ==
    << BuiltinsShapes, ShapesIn(CompileMain(main)), ShapesIn(CompileFunction(f)), PrintShapes >>
    \o ClassShapes
AllShapes == ForAll(ShapesOfProgram)

\* TLC evaluates a constant definition once, but what a cfg substitutes for a
\* constant at every use: these only name what is already evaluated.
MCPrograms == AllPrograms
MCExpected == AllExpected
MCShapes   == AllShapes

ASSUME VerifiedAssumption == \A p \in 1..Len(AllPrograms) : Verified(p)
=============================================================================
