---------------------------- MODULE MCDivergence ----------------------------
(***************************************************************************)
(* Programs outside the part of Python that the machine runs the way       *)
(* CPython does: one for each restriction of Supported in Python.tla.      *)
(***************************************************************************)
EXTENDS Compiled

CONSTANT Case     \* the name of the program to run

\* try: for x in (1,): write(x)
\* except Foo: write(2)
\* raise Foo()                                # the statement is left by then
LoopInTry ==
    << Try(<<For(1, <<>>)>>, <<Except("Foo", <<Out(2)>>)>>, <<>>), Raising("Foo") >>

\* for x in (1, 2):
\*     write(x)
\*     try: raise Foo()
\*     except Foo: pass
TryInLoop ==
    << For(2, <<Try(<<Raising("Foo")>>, <<Except("Foo", <<>>)>>, <<>>)>>) >>

\* try: raise Foo()
\* except:
\*     write(2)
\*     raise Foo()                            # leaves the program
RaiseInHandler ==
    << Try(<<Raising("Foo")>>, <<Except("", <<Out(2), Raising("Foo")>>)>>, <<>>) >>

Main == CASE Case = "LoopInTry"      -> LoopInTry
          [] Case = "TryInLoop"      -> TryInLoop
          [] Case = "RaiseInHandler" -> RaiseInHandler

MCPrograms == << ProgramOf(Main, <<>>) >>
MCExpected == << ExpectedOf(Main, <<>>) >>
=============================================================================
