------------------------------- MODULE MCCalls -------------------------------
(***************************************************************************)
(* Interpreter on one function definition and one call of it, for every    *)
(* signature and every call of a bounded family, against Python's rules of *)
(* binding.                                                                *)
(*                                                                         *)
(*   def f(a, b, *, k=.., *args, **kw)      with some of the parameters    *)
(*   f(1, 2, 3, k=7, z=8)                   with some of the arguments     *)
(***************************************************************************)
EXTENDS Binding, Listing

CONSTANT
    StarsFirst    \* signatures with **kw and no *args are left out if TRUE

I(op, arg) == [op |-> op, arg |-> arg]
First == Primitives + 1

\* The image: the strings "k", "z" and "f", five integers, the tuple of the
\* defaults' keys, the four tuples of keywords a call may use, and the code.
KeyK == First
KeyZ == First + 1
FName == First + 2
IntRef(i) == First + 2 + i
DefaultKeys == First + 8
KeywordTuple(i) == First + 8 + i
KeywordArgs(i) == << <<>>, <<KeyK>>, <<KeyZ>>, <<KeyZ, KeyK>> >>[i]

ParameterNames(sig) == (IF sig.pos = 2 THEN <<"a", "b">> ELSE IF sig.pos = 1 THEN <<"a">> ELSE <<>>)
               \o (IF sig.kwonly THEN <<"k">> ELSE <<>>)
               \o (IF sig.star THEN <<"args">> ELSE <<>>)
               \o (IF sig.starstar THEN <<"kw">> ELSE <<>>)

CodeRecord(is, sig, consts) ==
    [argcount |-> sig.pos, kwonlyargcount |-> IF sig.kwonly THEN 1 ELSE 0,
     varargs |-> sig.star, varkwargs |-> sig.starstar,
     names |-> <<>>, varnames |-> ParameterNames(sig), consts |-> consts, instructions |-> is]

NoParameters == [pos |-> 0, kwonly |-> FALSE, default |-> FALSE, star |-> FALSE, starstar |-> FALSE]
Return == << I("LoadConst", 0), I("ReturnValue", 0) >>

\* The constants of the main module are the whole image, None first.
ImageConsts == <<none>> \o [i \in 1..15 |-> First + i - 1]
ConstAt(ref) == ref - First + 1

MainCode(sig, call) ==
    (IF sig.default
     THEN << I("LoadConst", ConstAt(IntRef(5))), I("LoadConst", ConstAt(DefaultKeys)),
             I("BuildConstKeyMap", 1) >>
     ELSE <<>>)
    \o << I("LoadConst", ConstAt(First + 13)), I("LoadConst", ConstAt(FName)),
          I("MakeFunction", IF sig.default THEN 2 ELSE 0) >>
    \o [i \in 1..call.pos |-> I("LoadConst", ConstAt(IntRef(i)))]
    \o [i \in 1..Len(KeywordArgs(call.kw)) |-> I("LoadConst", ConstAt(IntRef(3 + i)))]
    \o (IF call.kw = 1 THEN << I("CallFunction", call.pos) >>
        ELSE << I("LoadConst", ConstAt(KeywordTuple(call.kw))),
                I("CallFunctionKw", call.pos + Len(KeywordArgs(call.kw))) >>)
    \o << I("Nop", 0), I("PopTop", 0) >> \o Return

ProgramOf(sig, call) ==
    [image |-> << StringOf("k"), StringOf("z"), StringOf("f"),
                  IntOf(1), IntOf(2), IntOf(3), IntOf(4), IntOf(5),
                  TupleOf(<<KeyK>>) >>
              \o [i \in 1..4 |-> TupleOf(KeywordArgs(i))]
              \o << CodeOf(3), CodeOf(2), CodeOf(1) >>,
     codes |-> << CodeRecord(Return, NoParameters, <<none>>),
                  CodeRecord(MainCode(sig, call), NoParameters, ImageConsts),
                  CodeRecord(Return, sig, <<none>>) >>,
     main |-> First + 14, builtins |-> First + 15]

-----------------------------------------------------------------------------
Signatures ==
    {s \in [pos : 0..2, kwonly : BOOLEAN, default : BOOLEAN, star : BOOLEAN,
            starstar : BOOLEAN] :
        /\ s.default => s.kwonly
        /\ StarsFirst /\ s.starstar => s.star}
CallShapes == [pos : 0..3, kw : 1..4]

AllPrograms == Combine(ProgramOf, Listed(Signatures), Listed(CallShapes))

\* As in MCStructured, a name for what is already evaluated.
MCPrograms == AllPrograms
=============================================================================
