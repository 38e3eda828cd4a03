---------------------------- MODULE Interpreter ----------------------------
(***************************************************************************)
(* run_code (processor/mod.rs): one action per instruction, the order in   *)
(* which call_main_code runs the modules, and the specification.           *)
(*                                                                         *)
(* An instruction's action is enabled when its fetch and its first checks  *)
(* succeed; Fail is the action of those that end in a ProcessorError.      *)
(***************************************************************************)
EXTENDS Calls

WORD_SIZE == 2
Words(n)  == n \div WORD_SIZE

Names    == Code[Top.code].names
Varnames == Code[Top.code].varnames
Consts   == Code[Top.code].consts
Name     == Names[Arg + 1]
Varname  == Varnames[Arg + 1]

Locals == heap.spaces[Top.locals]

WithinBounds ==
    /\ Len(heap.objs) <= MaxObjects
    /\ Len(frames) <= MaxFrames
    /\ frames # <<>> => Depth <= MaxDepth /\ Len(Top.blocks) <= MaxDepth

-----------------------------------------------------------------------------
(***************************************************************************)
(* What raise_processor_error is called with before an instruction changes *)
(* anything that survives: the fetch, an index into names, varnames or     *)
(* consts, and the values an instruction pops unconditionally.  PopBlock   *)
(* and PopExcept report an empty block stack the same way.                 *)
(***************************************************************************)
UsesName    == {"StoreName", "StoreAttr", "LoadName", "LoadGlobal", "LoadAttr"}
UsesVarname == {"StoreGlobal", "LoadFast", "StoreFast"}

Pops ==
    CASE Instr.op \in {"PopTop", "DupTop", "GetIter", "ReturnValue", "EndFinally",
                       "StoreName", "ForIter", "LoadAttr", "StoreFast",
                       "PopJumpIfFalse", "BuildConstKeyMap", "CallFunctionKw"} -> 1
      [] Instr.op \in {"BinarySubscr", "StoreAttr"} -> 2
      [] Instr.op = "StoreGlobal"  -> IF HasModule(heap, Top.object) THEN 1 ELSE 0
      [] Instr.op = "CompareOp"    -> IF Arg \in {2, 10} THEN 2 ELSE 0
      [] Instr.op = "RaiseVarargs" -> IF Arg = 1 THEN 1 ELSE 0
      [] Instr.op = "MakeFunction" -> IF Arg \in {0, 2} THEN 1 ELSE 0
      [] Instr.op = "BuildTuple"   -> Arg
      [] Instr.op = "CallFunction" -> Arg + 1
      [] OTHER                     -> 0

NoFault == "none"
Fault ==
    IF Top.pc >= Len(Top.instructions) THEN "InvalidProgramCounter"
    ELSE IF Instr.op \in UsesName /\ Arg >= Len(Names) THEN "InvalidNameIndex"
    ELSE IF Instr.op \in UsesVarname /\ Arg >= Len(Varnames) THEN "InvalidVarnameIndex"
    ELSE IF Instr.op = "LoadConst" /\ Arg >= Len(Consts) THEN "InvalidConstIndex"
    ELSE IF Instr.op = "LoadFast" /\ Varname \notin DOMAIN Locals THEN "InvalidName"
    ELSE IF Pops > Depth THEN "StackTooSmall"
    ELSE IF Instr.op = "PopBlock" /\ Top.blocks = <<>> THEN "StackTooSmall"
    ELSE NoFault

Running == outcome = "running" /\ WithinBounds /\ frames # <<>>
Fetched == frames # <<>> /\ Top.pc < Len(Top.instructions)

\* Mutant: the error is lost on the way.
FailUnnamed == Running /\ Fault # NoFault /\ Panic(NoFault)

Fail == Running /\ Fault # NoFault /\ Panic(Fault)

At(op) == Fetched /\ Instr.op = op /\ Running /\ Fault = NoFault

\* Pop n values and go on; pop n values and push a value of the store h.
Pop(n)          == Continue(heap, With(Drop(Cur, n)))
Yield(h, n, ref) == Continue(h, With(PushOn(Drop(Cur, n), ref)))

-----------------------------------------------------------------------------
(***************************************************************************)
(* The value stack and constants.                                          *)
(***************************************************************************)
PushImmediate == At("PushImmediate") /\ Yield(heap, 0, Arg)
PopTop        == At("PopTop") /\ Pop(1)
DupTop        == At("DupTop") /\ Yield(heap, 0, Nth(0))
Nop           == At("Nop") /\ Continue(heap, With(Cur))
LoadConst     == At("LoadConst") /\ Yield(heap, 0, Consts[Arg + 1])

BuildTuple ==
    /\ At("BuildTuple")
    /\ LET h == NewTuple(heap, Slice(Arg, 0)) IN Yield(h, Arg, Newest(h))

\* The keys are popped, the values are only looked at; zip stops at the shorter.
BuildConstKeyMap ==
    /\ At("BuildConstKeyMap")
    /\ LET keys == heap.objs[Nth(0)].content.refs
           n    == IF Len(keys) < Arg THEN Len(keys) ELSE Arg
           h    == NewDict(heap, SubSeq(keys, 1, n), SubSeq(Slice(Arg, 1), 1, n))
       IN  IF KindOf(heap, Nth(0)) = "Tuple" /\ Arg < Depth
           THEN Yield(h, 1, Newest(h))
           ELSE Panic("panic")

-----------------------------------------------------------------------------
(***************************************************************************)
(* Names and attributes.  load_name looks in the locals, then in builtins, *)
(* then in the globals of the module of the function that runs; the last   *)
(* step panics in the frame of a class body, which has no module.          *)
(***************************************************************************)
StoreName == /\ At("StoreName")
             /\ Continue(Bind(heap, Top.locals, Name, Nth(0)), With(Drop(Cur, 1)))
StoreFast == /\ At("StoreFast")
             /\ Continue(Bind(heap, Top.locals, Varname, Nth(0)), With(Drop(Cur, 1)))
LoadFast  == At("LoadFast") /\ Yield(heap, 0, Locals[Varname])

\* The name is taken from varnames, although the argument indexes names.
StoreGlobal ==
    /\ At("StoreGlobal")
    /\ IF HasModule(heap, Top.object) /\ ModuleName(heap, Top.object) \in DOMAIN modules
       THEN Continue(Bind(heap, modules[ModuleName(heap, Top.object)], Varname, Nth(0)),
                     With(Drop(Cur, 1)))
       ELSE Panic("panic")

ModuleMap(name) ==
    IF name \in DOMAIN modules THEN heap.spaces[modules[name]] ELSE EmptyMap

LoadNameOrGlobal ==
    LET ns == NewInstance(heap, Name, object, Plain("PrimitiveNamespace"))
        str == NewString(heap, "<module>")
        builtins == ModuleMap("builtins")
    IN  CASE Name = "__primitives__" -> Yield(ns, 0, Newest(ns))
          [] Name = "__name__"       -> Yield(str, 0, Newest(str))
          [] OTHER ->
               IF Name \in DOMAIN Locals THEN Yield(heap, 0, Locals[Name])
               ELSE IF Name \in DOMAIN builtins THEN Yield(heap, 0, builtins[Name])
               ELSE IF ~HasModule(heap, Top.object) THEN Panic("panic")
               ELSE LET globals == ModuleMap(ModuleName(heap, Top.object))
                    IN  IF Name \in DOMAIN globals
                        THEN Yield(heap, 0, globals[Name])
                        ELSE Raise(heap, With(Cur), nameerror)
LoadName   == At("LoadName") /\ LoadNameOrGlobal
LoadGlobal == At("LoadGlobal") /\ LoadNameOrGlobal

\* load_attr; a primitive namespace makes a function of any name it lacks.
LoadAttr ==
    /\ At("LoadAttr")
    /\ LET obj  == heap.objs[Nth(0)]
           own  == IF obj.attrs = NoRef THEN EmptyMap ELSE heap.spaces[obj.attrs]
           tup  == NewTuple(heap, obj.bases)
           str  == NewString(heap, obj.name)
           prim == NewPrimitive(heap, Name, Name)
       IN  CASE Name = "__bases__" ->
                    IF HasBases(heap, Nth(0)) THEN Yield(tup, 1, Newest(tup))
                                              ELSE Yield(heap, 1, none)
             [] Name = "__name__" /\ obj.name # NoName -> Yield(str, 1, Newest(str))
             [] Name = "__name__" /\ obj.name = NoName ->
                    Raise(heap, With(Drop(Cur, 1)), nameerror)
             [] OTHER ->
                    IF obj.content.kind = "PrimitiveNamespace"
                    THEN IF Name \in DOMAIN NamesMap THEN Yield(heap, 1, NamesMap[Name])
                                                     ELSE Yield(prim, 1, Newest(prim))
                    ELSE IF Name \in DOMAIN own THEN Yield(heap, 1, own[Name])
                    ELSE Raise(heap, With(Drop(Cur, 1)), nameerror)

\* The owner is on top of the value.
StoreAttr ==
    /\ At("StoreAttr")
    /\ IF heap.objs[Nth(0)].attrs = NoRef
       THEN Panic("panic")
       ELSE Continue(Bind(heap, heap.objs[Nth(0)].attrs, Name, Nth(1)), With(Drop(Cur, 2)))

-----------------------------------------------------------------------------
(***************************************************************************)
(* Indexing, comparison, jumps.                                            *)
(***************************************************************************)
BinarySubscr ==
    /\ At("BinarySubscr")
    /\ LET index     == heap.objs[Nth(0)].content
           container == heap.objs[Nth(1)].content
       IN  IF container.kind \in {"Tuple", "List"} /\ index.kind = "Int"
           THEN IF index.num < Len(container.refs)
                THEN Yield(heap, 2, container.refs[index.num + 1])
                ELSE Raise(heap, With(Drop(Cur, 2)), nameerror)
           ELSE Raise(heap, With(Drop(Cur, 2)), typeerror)

CompareOp ==
    /\ At("CompareOp")
    /\ CASE Arg = 2  -> Yield(heap, 2, Bool(Equal(heap, Nth(0), Nth(1))))
         [] Arg = 10 -> Yield(heap, 2, Bool(NativeIsInstance(heap, Nth(1), Nth(0))))
         [] OTHER    -> Panic("panic")

JumpAbsolute == At("JumpAbsolute") /\ Continue(heap, With(Jump(Cur, Words(Arg))))
JumpForward  == At("JumpForward") /\ Continue(heap, With(Jump(Cur, Cur.pc + Words(Arg))))

PopJumpIfFalse ==
    /\ At("PopJumpIfFalse")
    /\ CASE KindOf(heap, Nth(0)) = "True"  -> Pop(1)
         [] KindOf(heap, Nth(0)) = "False" ->
                Continue(heap, With(Jump(Drop(Cur, 1), Words(Arg))))
         [] OTHER -> Panic("panic")

-----------------------------------------------------------------------------
(***************************************************************************)
(* Blocks, loops and exceptions.                                           *)
(***************************************************************************)
\* The end of a loop is not converted from bytes to instructions.
SetupLoop ==
    /\ At("SetupLoop")
    /\ Continue(heap, With(PushBlock(Cur, Block("Loop", Cur.pc, Cur.pc + Arg))))
SetupExcept ==
    /\ At("SetupExcept")
    /\ Continue(heap, With(PushBlock(Cur, Block("TryExcept", Cur.pc, Cur.pc + Words(Arg)))))
\* Mutant: the block stays.
PopBlockNot == At("PopBlock") /\ Continue(heap, With(Cur))

PopBlock == At("PopBlock") /\ Continue(heap, With(DropBlock(Cur)))

GetIter ==
    At("GetIter") /\ LET h == Iter(heap, Nth(0)) IN Yield(h, 1, Newest(h))

\* Mutant: one value too many is popped when the iterator is exhausted.
ForIterPoppingTwo ==
    /\ At("ForIter")
    /\ LET h == NewPrimitive(heap, NoName, "iter")
           f == PushBlock(Cur, ExceptPopGoto(stopiteration, 2, Cur.pc + Words(Arg)))
       IN  Call(h, With(f), Newest(h), <<Nth(0)>>, <<>>, <<>>)

\* A block for the exhaustion of the iterator, then a call of the primitive
\* iter on the value that stays on the stack.  Each round pushes a block.
ForIter ==
    /\ At("ForIter")
    /\ LET h == NewPrimitive(heap, NoName, "iter")
           f == PushBlock(Cur, ExceptPopGoto(stopiteration, 1, Cur.pc + Words(Arg)))
       IN  Call(h, With(f), Newest(h), <<Nth(0)>>, <<>>, <<>>)

\* Mutant: only the block is popped.
PopExceptKeepingValues ==
    At("PopExcept") /\ Top.blocks # <<>> /\ Continue(heap, With(DropBlock(Cur)))

\* pop_all_and_get_n_last empties the whole value stack.
PopExcept ==
    /\ At("PopExcept")
    /\ IF Depth < 3 THEN Panic("panic")
       ELSE IF Top.blocks = <<>> THEN Panic("StackTooSmall")
       ELSE Continue(heap, With(DropBlock([Cur EXCEPT !.stack = <<>>])))

EndFinally ==
    /\ At("EndFinally")
    /\ CASE KindOf(heap, Nth(0)) = "None" -> Pop(1)
         [] KindOf(heap, Nth(0)) = "OtherObject" ->
                IF Depth < 3 THEN Panic("StackTooSmall")
                ELSE IF Top.blocks = <<>> THEN Panic("panic")
                ELSE Unwind(heap, With(DropBlock(Drop(Cur, 3))), Nth(2), Nth(0), Nth(1))
         [] OTHER -> Panic("panic")

\* Only "raise x": the value on the stack is the exception, whatever it is.
RaiseVarargs ==
    /\ At("RaiseVarargs")
    /\ IF Arg = 1 THEN Unwind(heap, With(Drop(Cur, 1)), none, Nth(0), none)
                  ELSE Panic("panic")

-----------------------------------------------------------------------------
(***************************************************************************)
(* Functions, calls and classes.                                           *)
(***************************************************************************)
LoadBuildClass ==
    /\ At("LoadBuildClass")
    /\ LET h == NewPrimitive(heap, "__build_class__", "build_class") IN Yield(h, 0, Newest(h))

\* Of the four flags only that of keyword defaults, a dict under the code, may be
\* set: 2.
MakeFunction ==
    /\ At("MakeFunction")
    /\ LET dict == heap.objs[Nth(2)].content
           n    == IF Arg = 2 THEN 3 ELSE 2
           defaults == IF Arg = 2
                       THEN MapOf(Texts(heap, DictKeys(dict)), DictValues(dict))
                       ELSE EmptyMap
           h == NewFunction(heap, StringAt(heap, Nth(0)), ModuleName(heap, Top.object),
                            Nth(1), defaults)
       IN  IF Arg \notin {0, 2} THEN Panic("panic")
           ELSE IF KindOf(heap, Nth(0)) # "String"
           THEN Raise(heap, With(Drop(Cur, 1)), typeerror)
           ELSE IF Depth < n THEN Panic("StackTooSmall")
           ELSE IF Arg = 2 /\ ~(dict.kind = "Dict" /\ Strings(heap, DictKeys(dict)))
           THEN Panic("panic")
           ELSE IF ~HasModule(heap, Top.object) THEN Panic("panic")
           ELSE Yield(h, n, Newest(h))

CallFunction ==
    /\ At("CallFunction")
    /\ Call(heap, With(Drop(Cur, Arg + 1)), Nth(Arg), Slice(Arg, 0), <<>>, <<>>)

\* The keyword names are a tuple on top, their values under it; the argument
\* counts the values and the positional arguments together.
CallFunctionKw ==
    /\ At("CallFunctionKw")
    /\ LET keys == heap.objs[Nth(0)].content.refs
           n    == Len(keys)
       IN  IF KindOf(heap, Nth(0)) # "Tuple" \/ Depth - 1 < n \/ Arg < n
           THEN Panic("panic")
           ELSE IF Depth < Arg + 2 THEN Panic("StackTooSmall")
           ELSE Call(heap, With(Drop(Cur, Arg + 2)), Nth(Arg + 1),
                     Slice(Arg - n, n + 1), keys, Slice(n, 1))

\* The value goes to the caller; the bottom frame ends the module's code.
ReturnValue ==
    /\ At("ReturnValue")
    /\ LET rest == SubSeq(frames, 1, Len(frames) - 1)
       IN  IF rest # <<>> THEN Continue(heap, ReturnTo(rest, Nth(0)))
           ELSE /\ frames' = rest
                /\ outcome' = IF queue = <<>> THEN "returned" ELSE "running"
                /\ UNCHANGED <<prog, heap, modules, queue, stdout>>

-----------------------------------------------------------------------------
(***************************************************************************)
(* call_main_code: builtins, then the main module, each on a call stack of *)
(* its own.  Two module objects are made per module; the frame's locals    *)
(* are the module's globals.                                               *)
(***************************************************************************)
StartModule ==
    /\ outcome = "running" /\ WithinBounds /\ frames = <<>> /\ queue # <<>>
    /\ LET name == Head(queue)
           code == ModuleCode(name)
           id   == heap.objs[code].content.num
           h1   == NewModule(NewModule(heap, name, code), name, code)
           h2   == NewSpace(h1, EmptyMap)
       IN  IF KindOf(heap, code) # "Code" THEN Panic("NotACodeObject")
           ELSE /\ heap' = h2
                /\ modules' = Insert(modules, name, Len(h2.spaces))
                /\ frames' = <<NewFrame(Newest(h1), id, Code[id].instructions,
                                        Len(h2.spaces))>>
                /\ queue' = Tail(queue)
                /\ UNCHANGED <<prog, stdout, outcome>>

\* The process has ended, or the model stops following it.
Halted == (outcome # "running" \/ ~WithinBounds) /\ UNCHANGED vars

Init ==
    /\ prog \in 1..Len(Programs)
    /\ heap = LoadedHeap
    /\ frames = <<>>
    /\ modules = EmptyMap
    /\ queue = <<"builtins", "__main__">>
    /\ stdout = <<>>
    /\ outcome = "running"

StackStep  == \/ PushImmediate \/ PopTop \/ DupTop \/ Nop \/ LoadConst
              \/ BuildTuple \/ BuildConstKeyMap
NameStep   == \/ StoreName \/ StoreFast \/ LoadFast \/ StoreGlobal
              \/ LoadName \/ LoadGlobal \/ LoadAttr \/ StoreAttr
JumpStep   == \/ BinarySubscr \/ CompareOp
              \/ JumpAbsolute \/ JumpForward \/ PopJumpIfFalse
BlockStep  == \/ SetupLoop \/ SetupExcept \/ PopBlock \/ GetIter \/ ForIter
              \/ PopExcept \/ EndFinally \/ RaiseVarargs
CallStep   == \/ LoadBuildClass \/ MakeFunction
              \/ CallFunction \/ CallFunctionKw \/ ReturnValue

Step == \/ StackStep \/ NameStep \/ JumpStep \/ BlockStep \/ CallStep
        \/ Fail \/ StartModule

Next == Step \/ Halted

\* run_code is a loop that nothing interrupts.
Spec == Init /\ [][Next]_vars /\ WF_vars(Step)

-----------------------------------------------------------------------------
(***************************************************************************)
(* Properties.  They hold of every program, compiled or not.               *)
(***************************************************************************)
Refs(h)   == 1..Len(h.objs)
Spaces(h) == 1..Len(h.spaces)

ContentOK(h, c) ==
    /\ c = [kind |-> c.kind, refs |-> c.refs, num |-> c.num, str |-> c.str, stamp |-> c.stamp]
    /\ c.kind \in Kinds /\ c.refs \in Seq(Refs(h)) /\ c.num \in Nat
    /\ c.kind \in {"Function", "Module", "RandomAccessIterator"} => Len(c.refs) = 1
    /\ c.kind = "Function" => c.num \in Spaces(h)
    /\ c.kind = "Code" => c.num \in 1..Len(Code)
    /\ c.kind = "Dict" => Len(c.refs) % 2 = 0

ObjectOK(h, o) ==
    /\ o = [version |-> o.version, name |-> o.name, class |-> o.class,
            bases |-> o.bases, attrs |-> o.attrs, content |-> o.content]
    /\ o.class \in Refs(h) /\ o.bases \in Seq(Refs(h))
    /\ o.attrs \in Spaces(h) \cup {NoRef}
    /\ ContentOK(h, o.content)

MapOK(h, map) == map \in [DOMAIN map -> Refs(h)]

HeapOK(h) ==
    /\ h = [objs |-> h.objs, spaces |-> h.spaces]
    /\ IsSequence(h.objs) /\ Len(h.objs) >= Primitives
    /\ \A r \in Refs(h) : ObjectOK(h, h.objs[r])
    /\ IsSequence(h.spaces)
    /\ \A s \in Spaces(h) : MapOK(h, h.spaces[s])

BlockSet(h) ==
    {b \in [kind : {"Loop", "TryExcept", "ExceptPopGoto"}, begin : Nat, target : Nat,
            pattern : Refs(h) \cup {NoRef}, pop : Nat] :
        b.kind = "ExceptPopGoto" => b.pattern \in Refs(h)}

InstructionsOK(h, is) ==
    /\ IsSequence(is)
    /\ \A i \in 1..Len(is) :
        is[i].arg \in Nat /\ (is[i].op = "PushImmediate" => is[i].arg \in Refs(h))

FrameOK(h, f) ==
    /\ f = [object |-> f.object, code |-> f.code, instructions |-> f.instructions,
            locals |-> f.locals, stack |-> f.stack, blocks |-> f.blocks, pc |-> f.pc]
    /\ f.object \in Refs(h) /\ f.code \in 1..Len(Code)
    /\ InstructionsOK(h, f.instructions)
    /\ f.locals \in Spaces(h)
    /\ f.stack \in Seq(Refs(h)) /\ f.blocks \in Seq(BlockSet(h)) /\ f.pc \in Nat

FramesOK(h, fs) == IsSequence(fs) /\ \A i \in 1..Len(fs) : FrameOK(h, fs[i])

\* No reference dangles: every object, map, frame and block holds references
\* that the store has an object for, so that no deref (objects/mod.rs) unwraps
\* a missing entry, whatever code runs.
RefsValid ==
    /\ HeapOK(heap) /\ LoadedRefs(Programs[prog]) \subseteq Refs(heap)
    /\ FramesOK(heap, frames)
    /\ modules \in [DOMAIN modules -> Spaces(heap)]

Outcomes ==
    {"running", "returned", "UncaughtException", "panic", "NotACodeObject",
     "InvalidProgramCounter", "StackTooSmall", "InvalidConstIndex", "InvalidName",
     "InvalidNameIndex", "InvalidVarnameIndex"}

\* The types of the state that is not made of references.
TypeOK ==
    /\ prog \in 1..Len(Programs)
    /\ queue \in Seq({"builtins", "__main__"})
    /\ IsSequence(stdout)
    /\ outcome \in Outcomes

\* Classes are made after their bases: the inheritance graph has no cycle, and
\* native_issubclass, which walks it, terminates on its own.
BasesOlder == \A r \in Refs(heap) : \A b \in Bases(heap, r) : b < r

\* An iterator is on a live container, within it, and remembers its version:
\* the panic "Container changed while iterating." never happens.
IteratorsInRange ==
    \A r \in Refs(heap) :
        LET it == heap.objs[r].content
            container == heap.objs[it.refs[1]]
        IN  it.kind = "RandomAccessIterator" =>
                /\ it.stamp = container.version
                /\ container.content.kind \in {"List", "Tuple"} =>
                        it.num <= Len(container.content.refs)

\* The locals of a call are its own: no other frame, object, function's
\* defaults or module shares the map (defaults.clone() in call_function).
LocalsPrivate ==
    \A i \in 1..Len(frames) :
        LET own == frames[i].locals
        IN  KindOf(heap, frames[i].object) = "Function" =>
                /\ \A j \in 1..Len(frames) \ {i} : frames[j].locals # own
                /\ \A m \in DOMAIN modules : modules[m] # own
                /\ \A r \in Refs(heap) :
                        /\ heap.objs[r].attrs # own
                        /\ KindOf(heap, r) = "Function" => heap.objs[r].content.num # own

\* Objects are never freed and never change, except that an iterator advances
\* by one: a reference means the same object for as long as it is held.
ObjectsStable ==
    [][\A r \in Refs(heap) :
        \/ heap'.objs[r] = heap.objs[r]
        \/ /\ KindOf(heap, r) = "RandomAccessIterator"
           /\ heap'.objs[r] = [heap.objs[r] EXCEPT !.content.num = @ + 1]]_vars

\* Frames under the running one are frozen: a step changes the frame that runs
\* and the one it returns, calls or unwinds to, and none deeper.
CallersFrozen ==
    [][\A i \in 1..Len(frames') : i < Len(frames') /\ i < Len(frames)
            => frames'[i] = frames[i]]_vars

=============================================================================
