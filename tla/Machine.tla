------------------------------ MODULE Machine ------------------------------
(***************************************************************************)
(* The state of the virtual machine and the steps every instruction is     *)
(* made of: the call stack and its frames (processor/frame.rs), the value  *)
(* stack of a frame (varstack.rs), raising and unwinding (state.rs).       *)
(*                                                                         *)
(* Interpreter.tla has the instructions and Calls.tla has the calls.       *)
(***************************************************************************)
EXTENDS Objects, FiniteSets

CONSTANTS
    Programs,     \* what may be run: a sequence of programs, see IsProgram
    MaxObjects,   \* the machine is not followed past a heap of this size,
    MaxFrames,    \* a call stack of this depth,
    MaxDepth      \* a value stack or a block stack of this depth

VARIABLES
    prog,      \* which program runs; chosen at the start, then constant
    heap,      \* state.store, with the maps its objects share
    frames,    \* call_stack: the last frame is the one that runs
    modules,   \* state.modules: the globals of each module, by name
    queue,     \* the modules that call_main_code has still to run
    stdout,    \* what envproxy.stdout() was given
    outcome    \* "running", "returned", or why the process panicked

vars == <<prog, heap, frames, modules, queue, stdout, outcome>>

-----------------------------------------------------------------------------
(***************************************************************************)
(* A program is what the two files hold that are read before anything      *)
(* runs: `image`, the contents of the objects the unmarshaller stores (in  *)
(* order, after the primitive objects), `codes`, the code objects with     *)
(* their instructions decoded, and the references of the modules' code.    *)
(***************************************************************************)
Instruction(op, arg) == [op |-> op, arg |-> arg]

Primitives == Len(PrimitiveNames)
LoadedRefs(p) == 1..(Primitives + Len(p.image))

IsSequence(s) == s \in Seq({s[i] : i \in 1..Len(s)})

IsCode(p, c) ==
    /\ c.argcount \in Nat /\ c.kwonlyargcount \in Nat
    /\ c.varargs \in BOOLEAN /\ c.varkwargs \in BOOLEAN
    /\ IsSequence(c.names) /\ IsSequence(c.varnames)
    /\ c.consts \in Seq(LoadedRefs(p))
    /\ IsSequence(c.instructions)
    /\ \A i \in 1..Len(c.instructions) :
        /\ c.instructions[i].arg \in Nat
        /\ c.instructions[i].op # "PushImmediate"    \* no opcode decodes to it
        \* the four flags that are decoded
        /\ c.instructions[i].op = "MakeFunction" => c.instructions[i].arg \in 0..15

\* What the unmarshaller stores: it builds no other contents.
IsImageContent(p, c) ==
    /\ c = [kind |-> c.kind, refs |-> c.refs, num |-> c.num, str |-> c.str, stamp |-> 0]
    /\ c.kind \in {"Int", "String", "Tuple", "List", "Code", "Opaque"}
    /\ c.refs \in Seq(LoadedRefs(p)) /\ c.num \in Nat
    /\ c.kind = "Code" => c.num \in 1..Len(p.codes)

IsProgram(p) ==
    /\ IsSequence(p.image) /\ IsSequence(p.codes)
    /\ \A i \in 1..Len(p.image) : IsImageContent(p, p.image[i])
    /\ \A i \in 1..Len(p.codes) : IsCode(p, p.codes[i])
    /\ p.builtins \in LoadedRefs(p) /\ p.main \in LoadedRefs(p)

ASSUME ProgramsAssumption ==
    /\ Len(Programs) \in Nat \ {0}
    /\ \A i \in 1..Len(Programs) : IsProgram(Programs[i])
ASSUME BoundsAssumption == MaxObjects \in Nat /\ MaxFrames \in Nat /\ MaxDepth \in Nat

Code  == Programs[prog].codes
Image == Programs[prog].image
ModuleCode(name) ==
    IF name = "builtins" THEN Programs[prog].builtins ELSE Programs[prog].main

\* The classes that marshal/decode.rs gives the objects it stores.
ImageClass(content) ==
    CASE content.kind = "Int"    -> int_type
      [] content.kind = "String" -> str_type
      [] content.kind = "Tuple"  -> tuple_type
      [] content.kind = "List"   -> list_type
      [] content.kind = "Code"   -> code_type
      [] OTHER                   -> set_type

ImageObject(i) ==
    [version |-> Primitives + i, name |-> NoName, class |-> ImageClass(Image[i]),
     bases   |-> <<>>, attrs |-> Len(PrimitiveHeap.spaces) + i, content |-> Image[i]]

\* The store once both files are read.
LoadedHeap ==
    [objs   |-> PrimitiveHeap.objs \o [i \in 1..Len(Image) |-> ImageObject(i)],
     spaces |-> PrimitiveHeap.spaces \o [i \in 1..Len(Image) |-> EmptyMap]]

-----------------------------------------------------------------------------
(***************************************************************************)
(* Frames and blocks.  Block::Loop(begin, end) and Block::TryExcept(begin, *)
(* end) use begin and target; Block::ExceptPopGoto(pattern, pop, target)   *)
(* uses pattern, pop and target.                                           *)
(***************************************************************************)
Block(kind, begin, target) ==
    [kind |-> kind, begin |-> begin, target |-> target, pattern |-> NoRef, pop |-> 0]
ExceptPopGoto(pattern, pop, target) ==
    [kind |-> "ExceptPopGoto", begin |-> 0, target |-> target,
     pattern |-> pattern, pop |-> pop]

\* Frame::new, with the instructions decoded from the code.
NewFrame(obj, code, instructions, locals) ==
    [object |-> obj, code |-> code, instructions |-> instructions,
     locals |-> locals, stack |-> <<>>, blocks |-> <<>>, pc |-> 0]

Top   == frames[Len(frames)]
Instr == Top.instructions[Top.pc + 1]
Arg   == Instr.arg

\* The running frame once run_code has fetched the instruction.
Cur == [Top EXCEPT !.pc = @ + 1]

\* The value stack, from the top (0) down.
Nth(k)  == Top.stack[Len(Top.stack) - k]
Depth   == Len(Top.stack)

\* VarStack::pop_many without its result, and its result below `skip` others.
Drop(f, n)      == [f EXCEPT !.stack = SubSeq(@, 1, Len(@) - n)]
PushOn(f, ref)  == [f EXCEPT !.stack = Append(@, ref)]
Slice(n, skip)  == SubSeq(Top.stack, Depth - skip - n + 1, Depth - skip)

PushBlock(f, b) == [f EXCEPT !.blocks = Append(@, b)]
DropBlock(f)    == [f EXCEPT !.blocks = SubSeq(@, 1, Len(@) - 1)]
Jump(f, pc)     == [f EXCEPT !.pc = pc]

\* Mutant: the result goes to the frame that was called first.
ReturnToFirst(fs, result) == [fs EXCEPT ![1] = PushOn(@, result)]

\* The call stack with its last frame replaced, and return_value.
With(f)              == [frames EXCEPT ![Len(frames)] = f]
ReturnTo(fs, result) == [fs EXCEPT ![Len(fs)] = PushOn(@, result)]

-----------------------------------------------------------------------------
\* A step of the running program that ends with the store h and call stack fs.
Continue(h, fs) ==
    /\ heap' = h
    /\ frames' = fs
    /\ UNCHANGED <<prog, modules, queue, stdout, outcome>>

\* The process ends: a panic, with what distinguishes it.
Panic(why) ==
    /\ outcome' = why
    /\ UNCHANGED <<prog, heap, frames, modules, queue, stdout>>

(***************************************************************************)
(* unwind: pop frames, and in each of them blocks, up to the first block   *)
(* that takes the exception.  Loop blocks take none, TryExcept takes all   *)
(* and stays on the block stack, ExceptPopGoto takes its pattern only.     *)
(* pop_many leaves the stack alone when it holds too few values.           *)
(***************************************************************************)
\* Mutant: the pattern is not looked at.
TakesAnything(h, b, exc) == b.kind \in {"TryExcept", "ExceptPopGoto"}

Takes(h, b, exc) ==
    \/ b.kind = "TryExcept"
    \/ b.kind = "ExceptPopGoto" /\ NativeIsInstance(h, exc, b.pattern)

\* Mutant: the block of the try statement is not pushed back.
LandWithoutBlock(f, j, traceback, exc, val) ==
    LET b == f.blocks[j]
    IN  [f EXCEPT !.blocks = SubSeq(@, 1, j - 1), !.pc = b.target,
                  !.stack  = IF b.kind = "TryExcept"
                             THEN @ \o <<traceback, val, exc, traceback, val, exc>>
                             ELSE SubSeq(@, 1, IF b.pop > Len(@) THEN Len(@) ELSE Len(@) - b.pop)]

Land(f, j, traceback, exc, val) ==
    LET b == f.blocks[j]
    IN  IF b.kind = "TryExcept"
        THEN [f EXCEPT !.blocks = SubSeq(@, 1, j), !.pc = b.target,
                       !.stack  = @ \o <<traceback, val, exc, traceback, val, exc>>]
        ELSE [f EXCEPT !.blocks = SubSeq(@, 1, j - 1), !.pc = b.target,
                       !.stack  = SubSeq(@, 1, IF b.pop > Len(@) THEN Len(@)
                                               ELSE Len(@) - b.pop)]

\* Block j of frame i is the innermost that takes the exception.
Catches(h, fs, exc, i, j) ==
    /\ Takes(h, fs[i].blocks[j], exc)
    /\ \A j2 \in (j + 1)..Len(fs[i].blocks) : ~Takes(h, fs[i].blocks[j2], exc)
    /\ \A i2 \in (i + 1)..Len(fs) : \A j2 \in 1..Len(fs[i2].blocks) :
            ~Takes(h, fs[i2].blocks[j2], exc)

Unwind(h, fs, traceback, exc, val) ==
    \/ \E i \in 1..Len(fs) : \E j \in 1..Len(fs[i].blocks) :
        /\ Catches(h, fs, exc, i, j)
        /\ Continue(h, Append(SubSeq(fs, 1, i - 1), Land(fs[i], j, traceback, exc, val)))
    \/ /\ \A i \in 1..Len(fs) : \A j \in 1..Len(fs[i].blocks) :
            ~Takes(h, fs[i].blocks[j], exc)
       /\ Panic("UncaughtException")

\* raise: an instance of the class that holds the message, whose text is left
\* out, unwound with no traceback and no value.
Raise(h, fs, class) ==
    LET h2 == NewInstance(h, NoName, class, StringOf("message"))
    IN  Unwind(h2, fs, none, Newest(h2), none)

=============================================================================
