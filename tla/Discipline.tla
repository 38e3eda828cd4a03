----------------------------- MODULE Discipline -----------------------------
(***************************************************************************)
(* Code whose use of the two stacks of a frame can be told in advance, as  *)
(* a verifier of bytecode would: for each address that can be reached, a   *)
(* shape says what is on the value stack and which try statements are in   *)
(* force.  For such code the machine keeps what a compiler relies on.      *)
(*                                                                         *)
(* Nothing here is part of the machine, which verifies nothing.  The rules *)
(* admit what CPython compiles, within the limits of the machine: no loop  *)
(* in a try statement of the same frame, no try statement in a loop.       *)
(***************************************************************************)
EXTENDS Interpreter

CONSTANT Shapes     \* for each code of each program, its shapes by address

(***************************************************************************)
(* A shape: the tags of the values on the stack, which are all of them or, *)
(* if it is open, those on top, and the try statements that are in force.  *)
(***************************************************************************)
Tags  == {"any", "iter", "exc"}
Tries == [begin : Nat, target : Nat]
Shape == [open : BOOLEAN, stack : Seq(Tags), tries : Seq(Tries)]

Entry == [open |-> FALSE, stack |-> <<>>, tries |-> <<>>]

\* What unwind finds when it jumps to a handler, and what it pushes there.
Handler(tries) ==
    [open |-> TRUE, stack |-> <<"any", "any", "exc", "any", "any", "exc">>, tries |-> tries]

Final(s)    == s[Len(s)]
ButFinal(s) == SubSeq(s, 1, Len(s) - 1)

\* The shape with n values popped and others pushed, and with a try left.
Turned(s, n, tags) == [s EXCEPT !.stack = SubSeq(@, 1, Len(@) - n) \o tags]
Leaving(s)        == [s EXCEPT !.tries = ButFinal(@)]

-----------------------------------------------------------------------------
(***************************************************************************)
(* What each instruction needs of the stack, and where it may lead.        *)
(***************************************************************************)
Silent == {"PopTop", "Nop", "StoreName", "StoreFast", "StoreGlobal", "StoreAttr"}
Giving == {"LoadConst", "LoadFast", "LoadName", "LoadGlobal", "LoadBuildClass", "PushImmediate",
           "LoadAttr", "BuildConstKeyMap", "BinarySubscr", "CompareOp", "BuildTuple",
           "MakeFunction", "CallFunction", "CallFunctionKw"}
Straight == Silent \cup Giving

Needed(inst) ==
    CASE inst.op \in {"PopTop", "StoreName", "StoreFast", "StoreGlobal", "LoadAttr",
                      "BuildConstKeyMap", "DupTop", "GetIter", "ForIter", "PopJumpIfFalse",
                      "ReturnValue", "RaiseVarargs"}               -> 1
      [] inst.op \in {"StoreAttr", "BinarySubscr", "CompareOp"}    -> 2
      [] inst.op = "EndFinally"                                    -> 3
      [] inst.op = "BuildTuple"                                    -> inst.arg
      [] inst.op = "MakeFunction"                                  -> IF inst.arg = 2 THEN 3 ELSE 2
      [] inst.op = "CallFunction"                                  -> inst.arg + 1
      [] inst.op = "CallFunctionKw"                                -> inst.arg + 2
      [] OTHER                                                     -> 0

Pushed(inst) == IF inst.op \in Giving THEN <<"any">> ELSE <<>>

To(a, s) == [address |-> a, shape |-> s]

TryAt(inst, a) == [begin |-> a + 1, target |-> a + 1 + Words(inst.arg)]

Flow(inst, a, s) ==
    CASE inst.op \in Straight      -> {To(a + 1, Turned(s, Needed(inst), Pushed(inst)))}
      [] inst.op = "DupTop"     -> {To(a + 1, Turned(s, 0, <<Final(s.stack)>>))}
      [] inst.op = "GetIter"    -> {To(a + 1, Turned(s, 1, <<"iter">>))}
      [] inst.op = "ForIter"    -> {To(a + 1, Turned(s, 0, <<"any">>)),
                                    To(a + 1 + Words(inst.arg), Turned(s, 1, <<>>))}
      [] inst.op = "JumpForward"    -> {To(a + 1 + Words(inst.arg), s)}
      [] inst.op = "JumpAbsolute"   -> {To(Words(inst.arg), s)}
      [] inst.op = "PopJumpIfFalse" -> {To(a + 1, Turned(s, 1, <<>>)),
                                        To(Words(inst.arg), Turned(s, 1, <<>>))}
      [] inst.op = "SetupLoop"   -> {To(a + 1, s)}
      [] inst.op = "SetupExcept" ->
             LET tries == Append(s.tries, TryAt(inst, a))
             IN  {To(a + 1, [s EXCEPT !.tries = tries]), To(TryAt(inst, a).target, Handler(tries))}
      [] inst.op = "PopBlock"    -> {To(a + 1, IF s.tries = <<>> THEN s ELSE Leaving(s))}
      [] inst.op = "PopExcept"   -> {To(a + 1, [Entry EXCEPT !.tries = ButFinal(s.tries)])}
      [] OTHER                   -> {}

\* The values that BUILD_CONST_KEY_MAP, which only looks at them, leaves behind.
Peeked(is) ==
    UNION {{i} \X (1..is[i].arg) : i \in {i \in 1..Len(is) : is[i].op = "BuildConstKeyMap"}}

\* The end of a compiled try statement's handlers: where the jump that ends its
\* body, just before the first handler, goes.
EndOfTry(is, b) == b.target + Words(is[b.target].arg)
InForce(is, b, a) ==
    /\ b.target \in 1..Len(is) /\ is[b.target].op = "JumpForward"
    /\ a \in b.begin..(EndOfTry(is, b) - 1)

Allowed(is, a, s) ==
    LET op == is[a + 1].op
    IN  /\ op \in Straight \cup {"DupTop", "GetIter", "ForIter", "JumpForward", "JumpAbsolute",
                              "PopJumpIfFalse", "SetupLoop", "SetupExcept", "PopBlock",
                              "PopExcept", "EndFinally", "RaiseVarargs", "ReturnValue"}
        /\ Needed(is[a + 1]) <= Len(s.stack)
        /\ op \in {"SetupLoop", "ForIter"} => s.tries = <<>>
        /\ op \in {"PopExcept", "EndFinally"} => s.tries # <<>>
        /\ op = "ForIter" => Final(s.stack) = "iter"
        /\ op = "EndFinally" => Final(s.stack) = "exc"
        /\ op = "ReturnValue" => ~s.open /\ Len(s.stack) = 1 + Cardinality(Peeked(is))

Has(shapes, a, s) == a \in DOMAIN shapes /\ shapes[a] = s
HandlersIn(shapes, tries) ==
    \A k \in 1..Len(tries) : Has(shapes, tries[k].target, Handler(SubSeq(tries, 1, k)))

\* The instructions keep to the shapes: the code starts with nothing, each
\* address leads to addresses of the code with the shape that results, and the
\* handlers of what is in force are there.
Obeys(is, shapes) ==
    /\ 0 \in DOMAIN shapes /\ shapes[0] = Entry
    /\ \A a \in DOMAIN shapes :
        LET s == shapes[a]
        IN  /\ a \in 0..(Len(is) - 1) /\ s \in Shape
            /\ Allowed(is, a, s)
            /\ \A to \in Flow(is[a + 1], a, s) : Has(shapes, to.address, to.shape)
            /\ \A k \in 1..Len(s.tries) : InForce(is, s.tries[k], a)
            /\ HandlersIn(shapes, s.tries)

\* The code as a function's, and as the body of a class, whose last two
\* instructions build_class replaces.
IsBody(is) == LastInstruction(is) # 0 /\ is[LastInstruction(is)].op = "ReturnValue"

Verified(p) ==
    \A c \in 1..Len(Programs[p].codes) :
        LET is == Programs[p].codes[c].instructions
        IN  /\ Obeys(is, Shapes[p][c])
            /\ IsBody(is) => Obeys(ClassBody(is, object), Shapes[p][c])

-----------------------------------------------------------------------------
(***************************************************************************)
(* What the stacks of a frame have to do with a shape.  Between the try    *)
(* statements' blocks there are none of loops, but below them there may be *)
(* any number that loops have left behind.                                 *)
(***************************************************************************)
\* Neither the None that ends a finally clause nor what ends a loop.
Raisable(h, ref) == KindOf(h, ref) # "None" /\ ~NativeIsInstance(h, ref, stopiteration)

HasTag(h, ref, tag) ==
    /\ tag = "iter" => KindOf(h, ref) = "RandomAccessIterator"
    /\ tag = "exc"  => Raisable(h, ref)

StackFits(h, stack, s) ==
    LET below == Len(stack) - Len(s.stack)
    IN  /\ below >= 0 /\ (~s.open => below = 0)
        /\ \A i \in 1..Len(s.stack) : HasTag(h, stack[below + i], s.stack[i])

Leftover(b) == b.kind # "TryExcept" /\ (b.kind = "ExceptPopGoto" => b.pattern = stopiteration)

BlocksFit(blocks, tries) ==
    LET below == Len(blocks) - Len(tries)
    IN  /\ below >= 0
        /\ \A j \in 1..below : Leftover(blocks[j])
        /\ \A k \in 1..Len(tries) :
            LET b == blocks[below + k]
            IN  b.kind = "TryExcept" /\ b.begin = tries[k].begin /\ b.target = tries[k].target

ShapesOf(f) == Shapes[prog][f.code]
ShapeOf(f)  == ShapesOf(f)[f.pc]

Fits(h, f, s) == StackFits(h, f.stack, s) /\ BlocksFit(f.blocks, s.tries)

\* The frame that runs has the shape of its address; one that waits for the
\* result of a call has it but for the result.
Runs(h, f)  == f.pc \in DOMAIN ShapesOf(f) /\ Fits(h, f, ShapeOf(f))
Waits(h, f) ==
    /\ f.pc \in DOMAIN ShapesOf(f)
    /\ ShapeOf(f).stack # <<>> /\ Final(ShapeOf(f).stack) = "any"
    /\ Fits(h, f, Turned(ShapeOf(f), 1, <<>>))

\* Whatever is called, raised and caught, every frame has the stacks that its
\* code's shapes foretell.  (Of verified programs.)
FollowsShapes ==
    \A i \in 1..Len(frames) :
        IF i = Len(frames) THEN Runs(heap, frames[i]) ELSE Waits(heap, frames[i])

-----------------------------------------------------------------------------
(***************************************************************************)
(* Properties.                                                             *)
(***************************************************************************)
CallsIter(ref) ==
    KindOf(heap, ref) = "PrimitiveFunction" /\ heap.objs[ref].content.str = "iter"

\* What the stacks rely on and shapes cannot foretell: RAISE_VARARGS raises neither
\* None nor a StopIteration, and nothing but FOR_ITER calls iter, which does.  The
\* blocks that FOR_ITER leaves behind would take a StopIteration.
RaisesNoStopIteration ==
    /\ Fetched /\ Instr.op = "RaiseVarargs" /\ Depth > 0 => Raisable(heap, Nth(0))
    /\ Fetched /\ Instr.op = "CallFunction" /\ Arg < Depth => ~CallsIter(Nth(Arg))
    /\ Fetched /\ Instr.op = "CallFunctionKw" /\ Arg + 1 < Depth => ~CallsIter(Nth(Arg + 1))

\* What RAISE_VARARGS (processor/mod.rs) finds on the stack is an instance of a class
\* that descends from BaseException, which the machine itself does not look at.
\* StopIteration is left to FOR_ITER.
RaisesExceptions ==
    /\ RaisesNoStopIteration
    /\ Fetched /\ Instr.op = "RaiseVarargs" /\ Depth > 0
            => NativeIsInstance(heap, Nth(0), baseexception)

\* A try statement's block is on the block stack only while the statement runs:
\* unwind (state.rs) would otherwise jump to handlers that are not in force.
NoStaleHandler ==
    \A i \in 1..Len(frames) : \A j \in 1..Len(frames[i].blocks) :
        LET f == frames[i]
            b == f.blocks[j]
        IN  b.kind = "TryExcept" => f.pc \in b.begin..(EndOfTry(f.instructions, b) - 1)

\* FOR_ITER finds the loop's iterator on top of the stack, whatever the body did.
LoopKeepsIterator ==
    Fetched /\ Instr.op = "ForIter"
        => Depth > 0 /\ KindOf(heap, Nth(0)) = "RandomAccessIterator"

\* Compiled code leaves no values behind but those of keyword defaults, at which
\* BUILD_CONST_KEY_MAP only looks: RETURN_VALUE finds one value above them.
ReturnsCleanly ==
    Fetched /\ Instr.op = "ReturnValue" => Depth = 1 + Cardinality(Peeked(Top.instructions))
=============================================================================
