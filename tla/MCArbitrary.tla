----------------------------- MODULE MCArbitrary -----------------------------
(***************************************************************************)
(* Interpreter on code that no compiler produced: the main module is every *)
(* sequence of three of the fragments below, after a common start.  Most   *)
(* of these programs leave values and blocks behind, jump into the middle  *)
(* of things or panic.                                                     *)
(***************************************************************************)
EXTENDS Interpreter

I(op, arg) == [op |-> op, arg |-> arg]
First == Primitives + 1

NameList == <<"x", "__primitives__", "__bases__", "iter", "KeyError", "__name__">>
Fragments ==
  << <<I("LoadConst", 3), I("GetIter", 0)>>,                      \* iter((0, "f"))
     <<I("SetupLoop", 9), I("ForIter", 2)>>,
     <<I("SetupExcept", 3)>>,
     <<I("LoadName", 1), I("LoadAttr", 4), I("CallFunction", 0), I("RaiseVarargs", 1)>>,
     <<I("PopBlock", 0), I("PopExcept", 0)>>,
     <<I("EndFinally", 0)>>,
     <<I("LoadConst", 4), I("LoadConst", 2), I("MakeFunction", 0), I("DupTop", 0),
       I("StoreName", 0), I("CallFunction", 0)>>,                 \* x = f; x()
     <<I("LoadBuildClass", 0), I("LoadConst", 4), I("LoadConst", 2), I("MakeFunction", 0),
       I("LoadConst", 2), I("CallFunction", 2)>>,                 \* class f: ..
     <<I("LoadConst", 5), I("LoadConst", 2), I("MakeFunction", 0), I("CallFunction", 0)>>,
     <<I("StoreName", 0), I("LoadName", 0), I("LoadName", 0)>>,
     <<I("CallFunction", 0)>>,
     <<I("LoadAttr", 2), I("DupTop", 0), I("StoreAttr", 0)>>,     \* y = .__bases__; y.x = ..
     <<I("JumpForward", 0), I("JumpAbsolute", 4)>>,
     <<I("LoadConst", 1), I("BinarySubscr", 0)>>,
     <<I("BuildTuple", 2), I("StoreGlobal", 0)>>,
     <<I("LoadName", 1), I("LoadAttr", 3), I("LoadGlobal", 0), I("CallFunction", 1)>>,
     <<I("CompareOp", 2), I("PopJumpIfFalse", 0), I("PopTop", 0)>> >>
N == Len(Fragments)

CodeRecord(is) ==
    [argcount |-> 0, kwonlyargcount |-> 0, varargs |-> FALSE, varkwargs |-> FALSE,
     names |-> NameList, varnames |-> <<"x">>,
     consts |-> <<none, First, First + 1, First + 2, First + 3, First + 6>>, instructions |-> is]

\* The code of f: x = 0, read back, as a function's local or a class's attribute.
Body == << I("LoadConst", 1), I("StoreFast", 0), I("LoadFast", 0), I("PopTop", 0),
           I("LoadConst", 0), I("ReturnValue", 0), I("Nop", 0) >>
\* The code of g: x(), whatever the global x is, if it is anything.
Caller == << I("LoadGlobal", 0), I("CallFunction", 0), I("ReturnValue", 0) >>
\* What every main module starts with: an iterator, None and a tuple to work on.
Start  == << I("LoadConst", 3), I("GetIter", 0), I("LoadConst", 0), I("LoadConst", 3) >>
Return == << I("LoadConst", 0), I("ReturnValue", 0) >>

ProgramOf(k) ==
    [image |-> << IntOf(0), StringOf("f"), TupleOf(<<First, First + 1>>), CodeOf(3),
                  CodeOf(2), CodeOf(1), CodeOf(4) >>,
     codes |-> << CodeRecord(Return),
                  CodeRecord(Start \o Fragments[(k % N) + 1] \o Fragments[((k \div N) % N) + 1]
                             \o Fragments[(k \div (N * N)) + 1] \o Return),
                  CodeRecord(Body), CodeRecord(Caller) >>,
     main |-> First + 4, builtins |-> First + 5]

AllPrograms == SubSeq([k \in 1..(N * N * N) |-> ProgramOf(k - 1)], 1, N * N * N)

\* As in MCStructured, a name for what is already evaluated.
MCPrograms == AllPrograms
=============================================================================
