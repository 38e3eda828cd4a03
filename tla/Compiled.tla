------------------------------ MODULE Compiled ------------------------------
(***************************************************************************)
(* The machine on compiled programs: the image the unmarshaller builds of  *)
(* a program of Python.tla, and the properties of the machine that need to *)
(* know what was compiled.                                                 *)
(***************************************************************************)
EXTENDS Interpreter, Python

CONSTANT Expected     \* what CPython does with each of the Programs

\* The image: the constants that are no primitive objects, in their order,
\* then the names of print's parameters and the code of the two modules.
First    == Primitives + 1
Ref(c)   == First + IndexIn(ConstList, c) - 3
After(n) == Ref("code of Qux") + n

Consts0 == <<none, true_obj, false_obj>> \o [i \in 1..(Len(ConstList) - 3) |-> First + i - 1]

ImageOf ==
    << IntOf(1), IntOf(2), TupleOf(<<>>), TupleOf(<<Ref("1")>>), TupleOf(<<Ref("1"), Ref("2")>>),
       StringOf(" "), StringOf("\n"), TupleOf(<<After(1), After(2)>>),
       StringOf("print"), StringOf("f"), StringOf("Foo"), StringOf("Bar"), StringOf("Qux"),
       CodeOf(4), CodeOf(3), CodeOf(5), CodeOf(6), CodeOf(7),
       StringOf("sep"), StringOf("end"), CodeOf(2), CodeOf(1) >>

CodeRecord(varnames, is) ==
    [argcount |-> 0, kwonlyargcount |-> 0, varargs |-> FALSE, varkwargs |-> FALSE,
     names |-> NameList, varnames |-> varnames, consts |-> Consts0, instructions |-> is]

\* What all programs have: builtins with its print, and the bodies of the classes.
BuiltinsCode == CodeRecord(<<>>, CompileBuiltins)
PrintCode    == [CodeRecord(PrintVars, CompilePrint) EXCEPT !.kwonlyargcount = 2, !.varargs = TRUE]
ClassCodes   == [i \in 1..Len(ClassList) |-> CodeRecord(<<>>, CompileClass(ClassList[i]))]

ProgramOf(main, f) ==
    [image    |-> ImageOf,
     codes    |-> << BuiltinsCode, CodeRecord(<<>>, CompileMain(main)),
                     CodeRecord(<<"x">>, CompileFunction(f)), PrintCode >> \o ClassCodes,
     main     |-> After(3),
     builtins |-> After(4)]

ExpectedOf(main, f) ==
    LET r == Run(main, f)
    IN  [stdout  |-> [i \in 1..Len(r.out) |->
                         IF r.out[i] = Newline THEN StringOf("\n") ELSE IntOf(r.out[i])],
         outcome |-> IF r.exc = "" THEN "returned" ELSE "UncaughtException"]

-----------------------------------------------------------------------------
\* What a program writes is, at any time, the start of what CPython writes, and
\* all of it when the program ends, which it does the way it does in CPython:
\* run_functional_tests.py compares just that.
ExecutesLikePython ==
    LET expected == Expected[prog]
    IN  /\ Len(stdout) <= Len(expected.stdout)
        /\ stdout = SubSeq(expected.stdout, 1, Len(stdout))
        /\ outcome # "running" => stdout = expected.stdout /\ outcome = expected.outcome

\* A program of the subset runs as its script says, and to its end: all of the
\* machine's steps but those that write and the last one go unseen.
TheScript == INSTANCE Script
RunsTheScript == TheScript!Spec

=============================================================================
