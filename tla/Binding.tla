------------------------------ MODULE Binding -------------------------------
(***************************************************************************)
(* The rules by which Python binds the arguments of a call to parameters   *)
(* (language reference, section "Calls"), and what the machine promises of *)
(* every call of a Python function that any code makes.                    *)
(*                                                                         *)
(* The rules are stated of the operands that CPython's compiler pushes for *)
(* a call: the callee, the positional arguments, the values of the keyword *)
(* arguments, and, for CALL_FUNCTION_KW, the tuple of the keywords.        *)
(***************************************************************************)
EXTENDS Interpreter

HasKeywords == Instr.op = "CallFunctionKw"
KeyRefs     == IF HasKeywords THEN heap.objs[Nth(0)].content.refs ELSE <<>>
Given       == 1..Len(KeyRefs)
KeyText(j)  == StringAt(heap, KeyRefs[j])

\* How much of the stack is not the call's, and what is above it.
Below           == Depth - Arg - (IF HasKeywords THEN 2 ELSE 1)
Callee          == Top.stack[Below + 1]
Positionals     == Arg - Len(KeyRefs)
Positional(i)   == Top.stack[Below + 1 + i]
KeywordValue(j) == Top.stack[Below + 1 + Positionals + j]

\* The callee's code and the defaults of its keyword-only parameters.
CalleeCode  == heap.objs[Callee].content.refs[1]
Signature   == Code[heap.objs[CalleeCode].content.num]
DefaultsMap == heap.spaces[heap.objs[Callee].content.num]

\* Its parameters: positional ones, keyword-only ones, *args and **kwargs.
StarAt     == Signature.argcount + Signature.kwonlyargcount + 1
StarStarAt == StarAt + (IF Signature.varargs THEN 1 ELSE 0)
Last       == IF Signature.varkwargs THEN StarStarAt ELSE StarStarAt - 1
Parameter(i)    == Signature.varnames[i]
PositionalOnes  == 1..Signature.argcount
KeywordOnlyOnes == (Signature.argcount + 1)..(StarAt - 1)

\* A function of Python code is about to be called.
CallsFunction ==
    /\ Running /\ Fetched /\ Fault = NoFault
    /\ Instr.op \in {"CallFunction", "CallFunctionKw"}
    /\ HasKeywords =>
        /\ KindOf(heap, Nth(0)) = "Tuple" /\ Strings(heap, KeyRefs)
        /\ Len(KeyRefs) <= Arg /\ Arg + 2 <= Depth
    /\ KindOf(heap, Callee) = "Function" /\ KindOf(heap, CalleeCode) = "Code"

\* What CPython's compiler sees to: parameters have names, different ones, only
\* keyword-only ones have defaults in the dictionary, no keyword is repeated.
\* That no keyword names a positional parameter is a limit of the machine.
WellFormed ==
    /\ Last <= Len(Signature.varnames)
    /\ \A i, j \in 1..Last : Parameter(i) = Parameter(j) => i = j
    /\ DOMAIN DefaultsMap \subseteq {Parameter(i) : i \in KeywordOnlyOnes}
    /\ \A i, j \in Given : KeyText(i) = KeyText(j) => i = j
    /\ \A i \in PositionalOnes, j \in Given : KeyText(j) # Parameter(i)

\* The keyword arguments that no keyword-only parameter takes.
Surplus == {j \in Given : \A i \in KeywordOnlyOnes : KeyText(j) # Parameter(i)}

HasRoom ==
    /\ \/ Positionals = Signature.argcount
       \/ Signature.varargs /\ Positionals > Signature.argcount
    /\ Signature.varkwargs \/ Surplus = {}
Accepted ==
    /\ HasRoom
    /\ \A i \in KeywordOnlyOnes :
            Parameter(i) \in DOMAIN DefaultsMap \/ \E j \in Given : KeyText(j) = Parameter(i)

\* The store h and the locals in it have each parameter bound as Python does.
Binds(h, locals) ==
    /\ DOMAIN locals = {Parameter(i) : i \in 1..Last}
    /\ \A i \in PositionalOnes : locals[Parameter(i)] = Positional(i)
    /\ \A i \in KeywordOnlyOnes :
        \/ \E j \in Given : /\ KeyText(j) = Parameter(i)
                            /\ locals[Parameter(i)] = KeywordValue(j)
        \/ /\ \A j \in Given : KeyText(j) # Parameter(i)
           /\ locals[Parameter(i)] = DefaultsMap[Parameter(i)]
    /\ Signature.varargs =>
        h.objs[locals[Parameter(StarAt)]].content =
            TupleOf([i \in 1..(Positionals - Signature.argcount)
                        |-> Positional(Signature.argcount + i)])
    /\ Signature.varkwargs =>
        \E order \in [1..Cardinality(Surplus) -> Surplus] :
            /\ IsOrdering(order, Surplus)
            /\ h.objs[locals[Parameter(StarStarAt)]].content =
                DictOf([k \in DOMAIN order |-> KeyRefs[order[k]]],
                       [k \in DOMAIN order |-> KeywordValue(order[k])])

\* The call stack once the function starts: the operands are gone, and its frame
\* is at the first instruction with nothing on its stack.
Starts(fs) ==
    /\ Len(fs) = Len(frames) + 1
    /\ fs[Len(frames)] = [Cur EXCEPT !.stack = SubSeq(Top.stack, 1, Below)]
    /\ LET f == fs[Len(fs)]
       IN  /\ f.object = Callee /\ f.instructions = Signature.instructions
           /\ f.pc = 0 /\ f.stack = <<>> /\ f.blocks = <<>>

\* A call that Python accepts starts the function, with each parameter bound to
\* what Python binds it to: call_function fills one map, over the defaults, from
\* four sources, and no source may overwrite or miss another's name.  Functions
\* with **kwargs and no *args are left out, whose names it takes to be shifted.
CallsBindLikePython ==
    [][CallsFunction /\ WellFormed /\ Accepted
       /\ (Signature.varkwargs => Signature.varargs)
         => /\ Starts(frames')
            /\ Binds(heap', heap'.spaces[frames'[Len(frames')].locals])]_vars

\* No argument is lost: no function starts that has an argument which none of
\* its parameters takes.  (One may start that lacks a keyword-only argument.)
CallsRefuseExtraArguments ==
    [][CallsFunction /\ ~HasRoom => frames' = frames /\ outcome' = "panic"]_vars

\* The promise of CallsBindLikePython without its restriction on **kwargs.
CallsAcceptLikePython ==
    [][CallsFunction /\ WellFormed /\ Accepted => Starts(frames')]_vars
=============================================================================
