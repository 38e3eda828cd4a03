------------------------------- MODULE Python -------------------------------
(***************************************************************************)
(* The world outside the machine: a subset of Python with loops, try       *)
(* statements, raise, calls and classes, the code that CPython 3.6's       *)
(* compiler produces for it, and what CPython makes of it.                 *)
(*                                                                         *)
(* A program is a main module that defines the exception classes of        *)
(* ClassList and one function f without parameters, as the files of        *)
(* functional_tests/ do.  Its statements are                               *)
(*    Out(n)          __primitives__.write_stdout(n)                       *)
(*    PrintCall(n)    print(n)                                             *)
(*    Raising(e)      raise e()                                            *)
(*    Undefined       y                   a name that nothing defines      *)
(*    CallF           f()                                                  *)
(*    For(n, b)       for x in (1, .., n): __primitives__.write_stdout(x); b *)
(*    Try(b, hs, d)   try: b  except e: ..  except: ..  else: d            *)
(* For model checking only: the operators are recursive.                   *)
(***************************************************************************)
EXTENDS Integers, Sequences

Statement(kind, n, e) ==
    [kind |-> kind, n |-> n, e |-> e, body |-> <<>>, handlers |-> <<>>, else |-> <<>>]

Out(n)          == Statement("out", n, "")
PrintCall(n)    == Statement("print", n, "")
Raising(e)      == Statement("raise", 0, e)
Undefined       == Statement("undefined", 0, "")
CallF           == Statement("call", 0, "")
For(n, b)       == [Statement("for", n, "") EXCEPT !.body = b]
Try(b, hs, d)   == [Statement("try", 0, "") EXCEPT !.body = b, !.handlers = hs, !.else = d]
Except(e, body) == [e |-> e, body |-> body]    \* e = "": a bare except

\* class Foo(BaseException): pass, and so on.
ClassList == << [name |-> "Foo", code |-> "code of Foo", bases |-> <<"BaseException">>],
                [name |-> "Bar", code |-> "code of Bar", bases |-> <<"BaseException">>],
                [name |-> "Qux", code |-> "code of Qux", bases |-> <<"Bar", "Foo">>] >>

-----------------------------------------------------------------------------
(***************************************************************************)
(* The compiler.  Addresses count instructions from `base`, arguments that *)
(* are addresses or distances count bytes, two to an instruction; the      *)
(* decoder of the machine adds one to that of SETUP_LOOP and SETUP_EXCEPT. *)
(* All code has the names of NameList and the constants of ConstList.      *)
(***************************************************************************)
I(op, arg) == [op |-> op, arg |-> arg]

NameList  == << "print", "BaseException", "Foo", "Bar", "Qux", "f", "x", "y",
                "__primitives__", "write_stdout", "__name__", "__module__",
                "__qualname__", "RuntimeError", "__build__class__", "build_class",
                "issubclass", "isinstance" >>
ConstList == << "None", "True", "False", "1", "2", "()", "(1,)", "(1, 2)",
                "space", "newline", "(sep, end)", "print", "f", "Foo", "Bar", "Qux",
                "code of print", "code of f", "code of Foo", "code of Bar", "code of Qux" >>

IndexIn(list, x) == (CHOOSE i \in 1..Len(list) : list[i] = x) - 1
NameAt(name)  == IndexIn(NameList, name)
Const(name)   == I("LoadConst", IndexIn(ConstList, name))
Number(n)     == Const(IF n = 1 THEN "1" ELSE "2")
TupleUpto(n)  == Const(CASE n = 0 -> "()" [] n = 1 -> "(1,)" [] n = 2 -> "(1, 2)")

\* fast: in a function.
LoadOf(name, fast) == I(IF fast THEN "LoadGlobal" ELSE "LoadName", NameAt(name))
StoreX(fast) == IF fast THEN I("StoreFast", 0) ELSE I("StoreName", NameAt("x"))
LoadX(fast)  == IF fast THEN I("LoadFast", 0) ELSE I("LoadName", NameAt("x"))
Pass         == I("PopTop", 0)

Primitive(attr, fast) == << LoadOf("__primitives__", fast), I("LoadAttr", NameAt(attr)) >>
Write(load, fast) == Primitive("write_stdout", fast) \o << load, I("CallFunction", 1), Pass >>

RECURSIVE CompileBlock(_, _, _), CompileHandlers(_, _, _, _)

ForCode(n, body, base) ==
    << I("SetupLoop", 2 * (Len(body) + 4) + 1), TupleUpto(n),
       I("GetIter", 0), I("ForIter", 2 * (Len(body) + 1)) >>
    \o body
    \o << I("JumpAbsolute", 2 * (base + 3)), I("PopBlock", 0) >>
CompileFor(s, base, fast) ==
    ForCode(s.n, << StoreX(fast) >> \o Write(LoadX(fast), fast)
                 \o CompileBlock(s.body, base + 10, fast), base)

\* The body jumps to the else, which is the last `else` instructions of rest.
TryCode(body, rest, else) ==
    << I("SetupExcept", 2 * (Len(body) + 2) + 1) >> \o body
    \o << I("PopBlock", 0), I("JumpForward", 2 * (Len(rest) - else)) >> \o rest
TryAfter(s, body, base, fast) ==
    TryCode(body, CompileHandlers(s.handlers, s.else, base + Len(body) + 3, fast),
            Len(CompileBlock(s.else, 0, fast)))
CompileTry(s, base, fast) == TryAfter(s, CompileBlock(s.body, base + 1, fast), base, fast)

\* Handlers and the else after them, past which each handler jumps.
TestSize(h) == IF h.e = "" THEN 0 ELSE 4
HandlerCode(h, body, next, rest, fast) ==
    (IF h.e = "" THEN <<>>
     ELSE << I("DupTop", 0), LoadOf(h.e, fast), I("CompareOp", 10),
             I("PopJumpIfFalse", 2 * next) >>)
    \o << Pass, Pass, Pass >> \o body
    \o << I("PopExcept", 0), I("JumpForward", 2 * Len(rest)) >> \o rest
HandlerAfter(hs, else, body, next, fast) ==
    HandlerCode(Head(hs), body, next, CompileHandlers(Tail(hs), else, next, fast), fast)
HandlerFrom(hs, else, body, base, fast) ==
    HandlerAfter(hs, else, body, base + TestSize(Head(hs)) + Len(body) + 5, fast)
CompileHandlers(hs, else, base, fast) ==
    IF hs = <<>> THEN << I("EndFinally", 0) >> \o CompileBlock(else, base + 1, fast)
    ELSE HandlerFrom(hs, else,
             CompileBlock(Head(hs).body, base + TestSize(Head(hs)) + 3, fast), base, fast)

Compile(s, base, fast) ==
    CASE s.kind = "out"   -> Write(Number(s.n), fast)
      [] s.kind = "print" -> << LoadOf("print", fast), Number(s.n), I("CallFunction", 1), Pass >>
      [] s.kind = "raise" -> << LoadOf(s.e, fast), I("CallFunction", 0), I("RaiseVarargs", 1) >>
      [] s.kind = "undefined" -> << LoadOf("y", fast), Pass >>
      [] s.kind = "call"  -> << LoadOf("f", fast), I("CallFunction", 0), Pass >>
      [] s.kind = "for"   -> CompileFor(s, base, fast)
      [] s.kind = "try"   -> CompileTry(s, base, fast)

BlockAfter(first, b, base, fast) == first \o CompileBlock(b, base + Len(first), fast)
CompileBlock(b, base, fast) ==
    IF b = <<>> THEN <<>>
    ELSE BlockAfter(Compile(Head(b), base, fast), Tail(b), base, fast)

Return == << Const("None"), I("ReturnValue", 0) >>

DefineF == << Const("code of f"), Const("f"), I("MakeFunction", 0), I("StoreName", NameAt("f")) >>

DefineClass(c) ==
    << I("LoadBuildClass", 0), Const(c.code), Const(c.name),
       I("MakeFunction", 0), Const(c.name) >>
    \o [i \in 1..Len(c.bases) |-> LoadOf(c.bases[i], FALSE)]
    \o << I("CallFunction", 2 + Len(c.bases)), I("StoreName", NameAt(c.name)) >>
CompileClass(c) ==
    << I("LoadName", NameAt("__name__")), I("StoreName", NameAt("__module__")),
       Const(c.name), I("StoreName", NameAt("__qualname__")) >> \o Return

Prelude == DefineClass(ClassList[1]) \o DefineClass(ClassList[2]) \o DefineClass(ClassList[3])
           \o DefineF

CompileMain(b)     == Prelude \o CompileBlock(b, Len(Prelude), FALSE) \o Return
CompileFunction(b) == CompileBlock(b, 0, TRUE) \o Return

(***************************************************************************)
(* pythonlib/builtins.py.                                                  *)
(***************************************************************************)
Import(name, attr) == Primitive(attr, FALSE) \o << I("StoreName", NameAt(name)) >>

DefinePrint == << Const("space"), Const("newline"), Const("(sep, end)"),
                  I("BuildConstKeyMap", 2), Const("code of print"), Const("print"),
                  I("MakeFunction", 2), I("StoreName", NameAt("print")) >>

CompileBuiltins == Import("BaseException", "BaseException")
                   \o Import("RuntimeError", "RuntimeError")
                   \o DefinePrint
                   \o Import("__build__class__", "build_class")
                   \o Import("issubclass", "issubclass")
                   \o Import("isinstance", "isinstance") \o Return

PrintVars == <<"sep", "end", "values", "first", "value">>
Fast(op, name) == I(op, IndexIn(PrintVars, name))

\* print(*values, sep=' ', end='\n')
CompilePrint ==
    << Const("True"), Fast("StoreFast", "first"), I("SetupLoop", 43),
       Fast("LoadFast", "values"), I("GetIter", 0), I("ForIter", 34),
       Fast("StoreFast", "value"), Fast("LoadFast", "first"), I("PopJumpIfFalse", 24),
       Const("False"), Fast("StoreFast", "first"), I("JumpForward", 10) >>
    \o Write(Fast("LoadFast", "sep"), TRUE)
    \o Write(Fast("LoadFast", "value"), TRUE)
    \o << I("JumpAbsolute", 10), I("PopBlock", 0) >>
    \o Write(Fast("LoadFast", "end"), TRUE) \o Return

-----------------------------------------------------------------------------
(***************************************************************************)
(* What CPython does: what is written, and the exception that leaves the   *)
(* block, "" for none.                                                     *)
(***************************************************************************)
Mro(e) == CASE e = "Qux"       -> {"Qux", "Bar", "Foo", "BaseException"}
            [] e = "NameError" -> {"NameError", "Exception", "BaseException"}
            [] OTHER           -> {e, "BaseException"}
Catching(pattern, e) == pattern = "" \/ pattern \in Mro(e)

Newline == 0     \* what print writes at the end, among the numbers

RECURSIVE Run(_, _), RunLoop(_, _, _, _)

Then(r, next) == [out |-> r.out \o next.out, exc |-> next.exc]
AndThen(r, next) == IF r.exc = "" THEN Then(r, next) ELSE r
Done     == [out |-> <<>>, exc |-> ""]
Wrote(o) == [out |-> o, exc |-> ""]
Threw(e) == [out |-> <<>>, exc |-> e]

RunLoop(i, n, body, f) ==
    IF i > n THEN Done
    ELSE AndThen(Then(Wrote(<<i>>), Run(body, f)), RunLoop(i + 1, n, body, f))

\* The first handler that takes the exception of r has the say.
Handled(r, hs, f) ==
    LET takes == {i \in 1..Len(hs) : Catching(hs[i].e, r.exc)}
    IN  IF takes = {} THEN r
        ELSE Then(r, Run(hs[CHOOSE i \in takes : \A j \in takes : i <= j].body, f))
RunTry(r, s, f) == IF r.exc = "" THEN Then(r, Run(s.else, f)) ELSE Handled(r, s.handlers, f)

RunStatement(s, f) ==
    CASE s.kind = "out"   -> Wrote(<<s.n>>)
      [] s.kind = "print" -> Wrote(<<s.n, Newline>>)
      [] s.kind = "raise" -> Threw(s.e)
      [] s.kind = "undefined" -> Threw("NameError")
      [] s.kind = "call"  -> Run(f, f)
      [] s.kind = "for"   -> RunLoop(1, s.n, s.body, f)
      [] s.kind = "try"   -> RunTry(Run(s.body, f), s, f)

Run(b, f) ==
    IF b = <<>> THEN Done
    ELSE AndThen(RunStatement(Head(b), f), Run(Tail(b), f))

-----------------------------------------------------------------------------
(***************************************************************************)
(* The statements the machine runs the way CPython does.  Within one code  *)
(* object: no loop in the body of a try statement, no try statement in a   *)
(* loop, and nothing but writes in a handler: MCDivergence has a program   *)
(* for each restriction.  An exception of the machine itself reaches no    *)
(* handlers of which none takes it (`sure`): END_FINALLY would panic.  A   *)
(* function may be called from such a place.                               *)
(***************************************************************************)
TakesAll(s) == \E k \in 1..Len(s.handlers) : s.handlers[k].e \in {"", "BaseException"}

RECURSIVE Supported(_, _, _)
Supported(b, where, sure) ==
    \A i \in 1..Len(b) :
        LET s == b[i]
        IN  CASE s.kind \in {"raise", "call"} -> where # "handler"
              [] s.kind = "undefined" -> where # "handler" /\ sure
              [] s.kind = "for"   -> where \in {"top", "for"} /\ Supported(s.body, "for", sure)
              [] s.kind = "try"   -> /\ where \in {"top", "try"}
                                     /\ Supported(s.body, "try", TakesAll(s))
                                     /\ Supported(s.else, where, sure)
                                     /\ \A k \in 1..Len(s.handlers) :
                                            Supported(s.handlers[k].body, "handler", sure)
              [] OTHER -> TRUE
=============================================================================
