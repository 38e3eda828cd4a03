-------------------------- MODULE InterpreterProofs --------------------------
(***************************************************************************)
(* The invariant of the interpreter, for every program and every bound:    *)
(* the types of its state, that no reference dangles, and that the calls   *)
(* of Python functions bind their arguments as Python does.                *)
(***************************************************************************)
EXTENDS StoreProofs

-----------------------------------------------------------------------------
(***************************************************************************)
(* The running frame and its instruction.                                  *)
(***************************************************************************)
LEMMA TopOK ==
    ASSUME IInv, frames # <<>>
    PROVE  /\ HeapOK(heap) /\ FrameOK(heap, Top) /\ FrameOK(heap, Cur)
           /\ Top.stack \in Seq(Refs(heap)) /\ Depth \in Nat
           /\ Top.pc \in Nat /\ Cur.pc \in Nat
           /\ Top.locals \in Spaces(heap) /\ Top.object \in Refs(heap)
           /\ Top.code \in 1..Len(Code)
           /\ Cur.stack = Top.stack /\ Cur.blocks = Top.blocks
<1>1. HeapOK(heap) /\ FramesOK(heap, frames)
  BY DEF IInv, RefsValid
<1>2. FrameOK(heap, Top)
  BY <1>1, FramesLen DEF Top
<1> DEFINE f == Top
           pc == f.pc + 1
<1>3. f = [object |-> f.object, code |-> f.code, instructions |-> f.instructions,
           locals |-> f.locals, stack |-> f.stack, blocks |-> f.blocks, pc |-> f.pc]
  BY <1>2, FrameRecord
<1>4. f.stack \in Seq(Refs(heap)) /\ Len(f.stack) \in Nat /\ f.pc \in Nat
  BY <1>2, FrameParts
<1>5. Cur = Jump(f, pc)
  BY DEF Cur, Jump
<1>6. pc \in Nat
  BY <1>4
<1>7. f.locals \in Spaces(heap) /\ f.object \in Refs(heap) /\ f.code \in 1..Len(Code)
  BY <1>2 DEF FrameOK
<1>8. FrameOK(heap, f)
  BY <1>2
<1> HIDE DEF f, pc
<1>9. FrameOK(heap, Jump(f, pc))
  BY <1>6, <1>8, JumpOK
<1>10. Jump(f, pc).pc = pc /\ Jump(f, pc).stack = f.stack /\ Jump(f, pc).blocks = f.blocks
  BY <1>3 DEF Jump
<1> QED BY <1>1, <1>4, <1>5, <1>6, <1>7, <1>8, <1>9, <1>10 DEF f, Depth

LEMMA ArgOK ==
    ASSUME IInv, Fetched
    PROVE  Arg \in Nat /\ (Instr.op = "PushImmediate" => Arg \in Refs(heap))
<1> DEFINE is == Top.instructions
           n == Top.pc
<1>1. n \in Nat /\ InstructionsOK(heap, is)
  BY TopOK DEF FrameOK, Fetched
<1>2. Len(is) \in Nat /\ n < Len(is)
  BY <1>1, SequenceLen DEF InstructionsOK, Fetched
<1> HIDE DEF is, n
<1>3. n + 1 \in 1..Len(is)
  BY <1>1, <1>2
<1>4. is[n + 1].arg \in Nat /\ (is[n + 1].op = "PushImmediate" => is[n + 1].arg \in Refs(heap))
  BY <1>1, <1>3 DEF InstructionsOK
<1> QED BY <1>4 DEF Arg, Instr, is, n

LEMMA NthOK ==
    ASSUME IInv, frames # <<>>, NEW k \in Nat, k < Depth
    PROVE  Nth(k) \in Refs(heap)
<1> DEFINE s == Top.stack
<1>1. s \in Seq(Refs(heap)) /\ Len(s) \in Nat /\ k < Len(s)
  BY TopOK DEF Depth
<1> HIDE DEF s
<1>2. Len(s) - k \in 1..Len(s)
  BY <1>1
<1>3. s[Len(s) - k] \in Refs(heap)
  BY <1>1, <1>2, ElementOfSeq
<1> QED BY <1>3 DEF Nth, s

LEMMA SliceOK ==
    ASSUME IInv, frames # <<>>, NEW n \in Nat, NEW skip \in Nat, n + skip <= Depth
    PROVE  Slice(n, skip) \in Seq(Refs(heap)) /\ Len(Slice(n, skip)) = n
<1> DEFINE s == Top.stack
           last == Len(s) - skip
           first == Len(s) - skip - n + 1
<1>1. s \in Seq(Refs(heap)) /\ Len(s) \in Nat /\ n + skip <= Len(s)
  BY TopOK DEF Depth
<1>2. Slice(n, skip) = SubSeq(s, first, last)
  BY DEF Slice, Depth
<1> HIDE DEF s
<1>3. first \in Nat \ {0} /\ last \in Int /\ last <= Len(s)
  BY <1>1
<1>4. (IF first <= last THEN last - first + 1 ELSE 0) = n
  BY <1>1
<1> HIDE DEF first, last
<1>5. SubSeq(s, first, last) \in Seq(Refs(heap))
      /\ Len(SubSeq(s, first, last)) = IF first <= last THEN last - first + 1 ELSE 0
  BY <1>1, <1>3, SliceProperties
<1> QED BY <1>2, <1>4, <1>5

LEMMA SliceEntries ==
    ASSUME IInv, frames # <<>>, NEW n \in Nat, NEW skip \in Nat, n + skip <= Depth
    PROVE  Slice(n, skip) = [i \in 1..n |-> Top.stack[Depth - skip - n + i]]
<1> DEFINE s == Top.stack
           d == Depth
           first == d - skip - n + 1
           last == d - skip
<1>1. s \in Seq(Refs(heap)) /\ d \in Nat /\ d = Len(s) /\ n + skip <= d
  BY TopOK DEF Depth
<1>2. Slice(n, skip) = SubSeq(s, first, last)
  BY DEF Slice
<1> HIDE DEF s, d
<1>3. first \in Nat \ {0} /\ last \in Int /\ last <= Len(s) /\ first <= last + 1
      /\ last - first + 1 = n
  BY <1>1
<1>4. \A i \in 1..n : first - 1 + i = d - skip - n + i
  BY <1>1
<1> HIDE DEF first, last
<1>5. SubSeq(s, first, last) = [i \in 1..(last - first + 1) |-> s[first - 1 + i]]
  BY <1>1, <1>3, SubSeqEntries
<1>6. Slice(n, skip) = [i \in 1..n |-> s[d - skip - n + i]]
  BY <1>2, <1>3, <1>4, <1>5
<1> QED BY <1>6 DEF s, d

LEMMA WithOK ==
    ASSUME IInv, frames # <<>>, NEW h, Extended(heap, h), NEW f, FrameOK(h, f)
    PROVE  Ready(h, With(f)) /\ With(f) # <<>>
<1>1. Ready(h, frames)
  BY ReadySelf, ReadyExtended
<1>2. FramesOK(h, With(f)) /\ With(f) # <<>>
  BY <1>1, ReplaceLastOK DEF Ready, With
<1> QED BY <1>1, <1>2 DEF Ready

\* A frame that is well-formed now is in every store that extends this one.
LEMMA FrameStays ==
    ASSUME IInv, NEW h, Extended(heap, h), NEW f, FrameOK(heap, f)
    PROVE  FrameOK(h, f)
<1>1. HeapOK(heap)
  BY DEF IInv, RefsValid
<1>2. Refs(heap) \subseteq Refs(h) /\ Spaces(heap) \subseteq Spaces(h)
  BY <1>1, ExtendedSets
<1> QED BY <1>2, SetsGrow

LEMMA GoOK ==
    ASSUME IInv, frames # <<>>, NEW h, Extended(heap, h), NEW f, FrameOK(heap, f),
           Continue(h, With(f))
    PROVE  IInv'
BY FrameStays, WithOK, ContinueOK

LEMMA ExtendedHeap == ASSUME IInv PROVE Extended(heap, heap) /\ HeapOK(heap)
BY ExtendedSelf DEF IInv, RefsValid

LEMMA PopOK ==
    ASSUME IInv, frames # <<>>, NEW n \in Nat, Pop(n)
    PROVE  IInv'
<1>1. FrameOK(heap, Drop(Cur, n))
  BY TopOK, DropOK
<1> QED BY <1>1, ExtendedHeap, GoOK DEF Pop

LEMMA YieldOK ==
    ASSUME IInv, frames # <<>>, NEW h, Extended(heap, h), NEW n \in Nat,
           NEW ref \in Refs(h), Yield(h, n, ref)
    PROVE  IInv'
<1>1. FrameOK(heap, Drop(Cur, n))
  BY TopOK, DropOK
<1>2. FrameOK(h, Drop(Cur, n))
  BY <1>1, FrameStays
<1>3. FrameOK(h, PushOn(Drop(Cur, n), ref))
  BY <1>2, PushOnOK
<1> QED BY <1>3, WithOK, ContinueOK DEF Yield

LEMMA YieldMadeOK ==
    ASSUME IInv, frames # <<>>, NEW h, Made(heap, h), NEW n \in Nat, Yield(h, n, Newest(h))
    PROVE  IInv'
BY YieldOK DEF Made

LEMMA RaiseHereOK ==
    ASSUME IInv, frames # <<>>, NEW n \in Nat, NEW class \in 1..28,
           Raise(heap, With(Drop(Cur, n)), class)
    PROVE  IInv'
<1>1. FrameOK(heap, Drop(Cur, n)) /\ class \in Refs(heap)
  BY TopOK, DropOK, PrimitiveRefs
<1>2. Ready(heap, With(Drop(Cur, n)))
  BY <1>1, ExtendedHeap, WithOK
<1> QED BY <1>1, <1>2, RaiseOK

\* What an instruction that is enabled may rely on.
LEMMA Checked ==
    ASSUME IInv, NEW op, At(op)
    PROVE  /\ frames # <<>> /\ Fetched /\ Instr.op = op /\ Arg \in Nat
           /\ Pops <= Depth \/ ~(Pops \in Int)
           /\ op \in UsesName => ~(Arg >= Len(Names))
           /\ op = "LoadConst" => ~(Arg >= Len(Consts))
           /\ op = "LoadFast" => Varname \in DOMAIN Locals
<1>1. frames # <<>> /\ Fetched /\ Instr.op = op
  BY DEF At, Fetched
<1>2. Arg \in Nat /\ Depth \in Nat
  BY <1>1, ArgOK, TopOK
<1>3. Fault = NoFault
  BY DEF At
<1>4. ~(Pops > Depth)
  BY <1>3 DEF Fault, NoFault
<1>5. op \in UsesName => ~(Arg >= Len(Names))
  BY <1>1, <1>3 DEF Fault, NoFault
<1>6. op = "LoadConst" => ~(Arg >= Len(Consts))
  BY <1>1, <1>3 DEF Fault, NoFault
<1>7. op = "LoadFast" => Varname \in DOMAIN Locals
  BY <1>1, <1>3 DEF Fault, NoFault
<1>8. Pops <= Depth \/ ~(Pops \in Int)
  BY <1>2, <1>4
<1> QED BY <1>1, <1>2, <1>5, <1>6, <1>7, <1>8

-----------------------------------------------------------------------------
(***************************************************************************)
(* The value stack and constants.                                          *)
(***************************************************************************)
LEMMA ConstOK ==
    ASSUME IInv, At("LoadConst")
    PROVE  Consts[Arg + 1] \in Refs(heap)
<1>1. frames # <<>> /\ Arg \in Nat /\ ~(Arg >= Len(Consts))
  BY Checked
<1>2. IsCode(Programs[prog], Code[Top.code])
  BY <1>1, TopOK, CodeLoaded
<1>3. Consts \in Seq(LoadedRefs(Programs[prog]))
  BY <1>2 DEF IsCode, Consts
<1> HIDE DEF Consts, Arg
<1>4. Arg + 1 \in 1..Len(Consts)
  BY <1>1, <1>3, LenProperties
<1>5. Consts[Arg + 1] \in LoadedRefs(Programs[prog])
  BY <1>3, <1>4, ElementOfSeq
<1> QED BY <1>5 DEF IInv, RefsValid

LEMMA StackStepOK == ASSUME IInv, StackStep PROVE IInv'
<1>0. Extended(heap, heap) /\ HeapOK(heap) /\ 0 \in Nat /\ 1 \in Nat
  BY ExtendedHeap
<1>1. CASE PushImmediate
  <2>1. frames # <<>> /\ Arg \in Refs(heap)
    BY <1>1, Checked, ArgOK DEF PushImmediate
  <2> QED BY <1>0, <1>1, <2>1, YieldOK DEF PushImmediate
<1>2. CASE PopTop
  <2>1. frames # <<>>
    BY <1>2, Checked DEF PopTop
  <2> QED BY <1>0, <1>2, <2>1, PopOK DEF PopTop
<1>3. CASE DupTop
  <2>1. At("DupTop")
    BY <1>3 DEF DupTop
  <2>2. frames # <<>> /\ Instr.op = "DupTop" /\ (Pops <= Depth \/ ~(Pops \in Int))
    BY <2>1, Checked
  <2>3. Pops = 1
    BY <2>2 DEF Pops
  <2>4. Nth(0) \in Refs(heap)
    BY <1>0, <2>2, <2>3, NthOK, TopOK
  <2> QED BY <1>0, <1>3, <2>2, <2>4, YieldOK DEF DupTop
<1>4. CASE Nop
  <2>1. frames # <<>> /\ FrameOK(heap, Cur)
    BY <1>4, Checked, TopOK DEF Nop
  <2> QED BY <1>0, <1>4, <2>1, GoOK DEF Nop
<1>5. CASE LoadConst
  <2>1. frames # <<>> /\ Consts[Arg + 1] \in Refs(heap)
    BY <1>5, Checked, ConstOK DEF LoadConst
  <2> QED BY <1>0, <1>5, <2>1, YieldOK DEF LoadConst
<1>6. CASE BuildTuple
  <2> DEFINE h == NewTuple(heap, Slice(Arg, 0))
  <2>1. At("BuildTuple")
    BY <1>6 DEF BuildTuple
  <2>2. /\ frames # <<>> /\ Instr.op = "BuildTuple" /\ Arg \in Nat
        /\ (Pops <= Depth \/ ~(Pops \in Int))
    BY <2>1, Checked
  <2>3. Pops = Arg
    BY <2>2 DEF Pops
  <2>4. Slice(Arg, 0) \in Seq(Refs(heap))
    <3> HIDE DEF Arg, Pops, Depth
    <3>1. Arg + 0 <= Depth
      BY <2>2, <2>3, TopOK
    <3> QED BY <1>0, <2>2, <3>1, SliceOK
  <2>5. Made(heap, h)
    BY <1>0, <2>4, NewTupleOK
  <2>6. Yield(h, Arg, Newest(h))
    BY <1>6 DEF BuildTuple
  <2> HIDE DEF h
  <2> QED BY <2>2, <2>5, <2>6, YieldMadeOK
<1>7. CASE BuildConstKeyMap
  <2> DEFINE keys == heap.objs[Nth(0)].content.refs
             n    == IF Len(keys) < Arg THEN Len(keys) ELSE Arg
             h    == NewDict(heap, SubSeq(keys, 1, n), SubSeq(Slice(Arg, 1), 1, n))
  <2>1. At("BuildConstKeyMap")
    BY <1>7 DEF BuildConstKeyMap
  <2>2. /\ frames # <<>> /\ Instr.op = "BuildConstKeyMap" /\ Arg \in Nat
        /\ (Pops <= Depth \/ ~(Pops \in Int))
    BY <2>1, Checked
  <2>3. Pops = 1
    BY <2>2 DEF Pops
  <2>4. Nth(0) \in Refs(heap)
    BY <1>0, <2>2, <2>3, NthOK, TopOK
  <2>5. CASE Panic("panic")
    BY <2>5, PanicOK, PanicsOK
  <2>6. CASE Arg < Depth /\ Yield(h, 1, Newest(h))
    <3>1. keys \in Seq(Refs(heap)) /\ Len(keys) \in Nat
      BY <1>0, <2>4, LenProperties DEF HeapOK, ObjectOK, ContentOK
    <3>2. Slice(Arg, 1) \in Seq(Refs(heap)) /\ Len(Slice(Arg, 1)) = Arg
      <4> HIDE DEF Arg, Depth
      <4>1. Arg + 1 <= Depth
        BY <2>2, <2>6, TopOK
      <4> QED BY <1>0, <2>2, <4>1, SliceOK
    <3> HIDE DEF keys, Arg
    <3>3. n \in Nat /\ n <= Len(keys) /\ n <= Arg
      BY <2>2, <3>1
    <3> HIDE DEF n
    <3>4. /\ SubSeq(keys, 1, n) \in Seq(Refs(heap))
          /\ Len(SubSeq(keys, 1, n)) = IF n >= 1 THEN n ELSE 0
      BY <3>1, <3>3, PrefixProperties
    <3>5. /\ SubSeq(Slice(Arg, 1), 1, n) \in Seq(Refs(heap))
          /\ Len(SubSeq(Slice(Arg, 1), 1, n)) = IF n >= 1 THEN n ELSE 0
      BY <3>2, <3>3, PrefixProperties
    <3>6. Made(heap, h)
      BY <1>0, <3>4, <3>5, NewDictOK
    <3> HIDE DEF h
    <3> QED BY <1>0, <2>2, <2>6, <3>6, YieldMadeOK
  <2> QED BY <1>7, <2>5, <2>6 DEF BuildConstKeyMap
<1> QED BY <1>1, <1>2, <1>3, <1>4, <1>5, <1>6, <1>7 DEF StackStep


-----------------------------------------------------------------------------
(***************************************************************************)
(* Names and attributes.                                                   *)
(***************************************************************************)
LEMMA MapEntry ==
    ASSUME NEW h, NEW map, MapOK(h, map), NEW name \in DOMAIN map
    PROVE  map[name] \in Refs(h)
BY DEF MapOK

LEMMA BindHereOK ==
    ASSUME IInv, frames # <<>>, NEW space \in Spaces(heap), NEW name,
           NEW ref \in Refs(heap), NEW n \in Nat,
           Continue(Bind(heap, space, name, ref), With(Drop(Cur, n)))
    PROVE  IInv'
<1>1. Extended(heap, Bind(heap, space, name, ref))
  BY ExtendedHeap, BindOK
<1>2. FrameOK(heap, Drop(Cur, n))
  BY TopOK, DropOK
<1> QED BY <1>1, <1>2, GoOK

LEMMA ModuleMapOK ==
    ASSUME IInv, NEW name
    PROVE  MapOK(heap, ModuleMap(name))
BY EmptyMapOK DEF ModuleMap, IInv, RefsValid, HeapOK

LEMMA LoadNameOrGlobalOK ==
    ASSUME IInv, frames # <<>>, LoadNameOrGlobal
    PROVE  IInv'
<1> DEFINE ns == NewInstance(heap, Name, object, Plain("PrimitiveNamespace"))
           str == NewString(heap, "<module>")
           builtins == ModuleMap("builtins")
           globals == ModuleMap(ModuleName(heap, Top.object))
<1>0. Extended(heap, heap) /\ HeapOK(heap) /\ 0 \in Nat
  BY ExtendedHeap
<1>1. CASE Yield(ns, 0, Newest(ns))
  <2>1. object \in Refs(heap) /\ ContentOK(heap, Plain("PrimitiveNamespace"))
    BY <1>0, PrimitiveRefs, PlainOK DEF object
  <2>2. Made(heap, ns)
    BY <1>0, <2>1, NewInstanceOK
  <2> HIDE DEF ns
  <2> QED BY <1>0, <1>1, <2>2, YieldMadeOK
<1>2. CASE Yield(str, 0, Newest(str))
  <2>1. Made(heap, str)
    BY <1>0, NewStringOK
  <2> HIDE DEF str
  <2> QED BY <1>0, <1>2, <2>1, YieldMadeOK
<1>3. ASSUME NEW map, MapOK(heap, map), Name \in DOMAIN map, Yield(heap, 0, map[Name])
      PROVE  IInv'
  BY <1>0, <1>3, MapEntry, YieldOK
<1>4. MapOK(heap, Locals) /\ MapOK(heap, builtins) /\ MapOK(heap, globals)
  BY <1>0, TopOK, ModuleMapOK DEF Locals, HeapOK
<1>5. CASE Panic("panic")
  BY <1>5, PanicOK, PanicsOK
<1>6. CASE Raise(heap, With(Cur), nameerror)
  <2>1. Ready(heap, With(Cur)) /\ nameerror \in Refs(heap)
    BY <1>0, TopOK, WithOK, PrimitiveRefs DEF nameerror
  <2> QED BY <1>6, <2>1, RaiseOK
<1> HIDE DEF ns, str, builtins, globals
<1>7. \/ Yield(ns, 0, Newest(ns)) \/ Yield(str, 0, Newest(str))
      \/ Name \in DOMAIN Locals /\ Yield(heap, 0, Locals[Name])
      \/ Name \in DOMAIN builtins /\ Yield(heap, 0, builtins[Name])
      \/ Name \in DOMAIN globals /\ Yield(heap, 0, globals[Name])
      \/ Panic("panic") \/ Raise(heap, With(Cur), nameerror)
  BY DEF LoadNameOrGlobal, ns, str, builtins, globals
<1> QED BY <1>1, <1>2, <1>3, <1>4, <1>5, <1>6, <1>7

LEMMA LoadAttrOK == ASSUME IInv, LoadAttr PROVE IInv'
<1> DEFINE obj  == heap.objs[Nth(0)]
           own  == IF obj.attrs = NoRef THEN EmptyMap ELSE heap.spaces[obj.attrs]
           tup  == NewTuple(heap, obj.bases)
           str  == NewString(heap, obj.name)
           prim == NewPrimitive(heap, Name, Name)
<1>0. Extended(heap, heap) /\ HeapOK(heap) /\ 0 \in Nat /\ 1 \in Nat
  BY ExtendedHeap
<1>1. At("LoadAttr")
  BY DEF LoadAttr
<1>2. /\ frames # <<>> /\ Instr.op = "LoadAttr"
      /\ (Pops <= Depth \/ ~(Pops \in Int))
  BY <1>1, Checked
<1>3. Pops = 1
  BY <1>2 DEF Pops
<1>4. Nth(0) \in Refs(heap)
  BY <1>0, <1>2, <1>3, NthOK, TopOK
<1>5. ObjectOK(heap, obj)
  BY <1>0, <1>4 DEF HeapOK
<1>6. CASE Yield(tup, 1, Newest(tup))
  <2>1. Made(heap, tup)
    BY <1>0, <1>5, NewTupleOK DEF ObjectOK
  <2> HIDE DEF tup
  <2> QED BY <1>0, <1>2, <1>6, <2>1, YieldMadeOK
<1>7. CASE Yield(str, 1, Newest(str))
  <2>1. Made(heap, str)
    BY <1>0, NewStringOK
  <2> HIDE DEF str
  <2> QED BY <1>0, <1>2, <1>7, <2>1, YieldMadeOK
<1>8. CASE Yield(prim, 1, Newest(prim))
  <2>1. Made(heap, prim)
    BY <1>0, NewPrimitiveOK
  <2> HIDE DEF prim
  <2> QED BY <1>0, <1>2, <1>8, <2>1, YieldMadeOK
<1>9. CASE Yield(heap, 1, none)
  <2> HIDE DEF obj, own, tup, str, prim
  <2>1. none \in Refs(heap)
    BY <1>0, PrimitiveRefs DEF none
  <2> QED BY <1>0, <1>2, <1>9, <2>1, YieldOK
<1>10. CASE Name \in DOMAIN NamesMap /\ Yield(heap, 1, NamesMap[Name])
  <2> HIDE DEF obj, own, tup, str, prim
  <2>1. NamesMap[Name] \in 1..28
    BY <1>10 DEF NamesMap
  <2>2. NamesMap[Name] \in Refs(heap)
    BY <1>0, <2>1, PrimitiveRefs
  <2> QED BY <1>0, <1>2, <1>10, <2>2, YieldOK
<1>11. CASE Name \in DOMAIN own /\ Yield(heap, 1, own[Name])
  <2>1. MapOK(heap, own)
    BY <1>0, <1>5, EmptyMapOK DEF ObjectOK, HeapOK
  <2> HIDE DEF own
  <2> QED BY <1>0, <1>2, <1>11, <2>1, MapEntry, YieldOK
<1>12. CASE Raise(heap, With(Drop(Cur, 1)), nameerror)
  <2>1. nameerror \in 1..28
    BY DEF nameerror
  <2> QED BY <1>0, <1>2, <1>12, <2>1, RaiseHereOK
<1> HIDE DEF obj, own, tup, str, prim
<1>13. \/ Yield(tup, 1, Newest(tup)) \/ Yield(str, 1, Newest(str))
       \/ Yield(prim, 1, Newest(prim)) \/ Yield(heap, 1, none)
       \/ Name \in DOMAIN NamesMap /\ Yield(heap, 1, NamesMap[Name])
       \/ Name \in DOMAIN own /\ Yield(heap, 1, own[Name])
       \/ Raise(heap, With(Drop(Cur, 1)), nameerror)
  BY DEF LoadAttr, obj, own, tup, str, prim
<1> QED BY <1>6, <1>7, <1>8, <1>9, <1>10, <1>11, <1>12, <1>13

LEMMA NameStepOK == ASSUME IInv, NameStep PROVE IInv'
<1>0. Extended(heap, heap) /\ HeapOK(heap) /\ 0 \in Nat /\ 1 \in Nat /\ 2 \in Nat
  BY ExtendedHeap
<1>1. CASE StoreName \/ StoreFast
  <2>1. At("StoreName") \/ At("StoreFast")
    BY <1>1 DEF StoreName, StoreFast
  <2>2. /\ frames # <<>> /\ (Pops <= Depth \/ ~(Pops \in Int))
        /\ Instr.op \in {"StoreName", "StoreFast"}
    BY <2>1, Checked
  <2>3. Pops = 1
    BY <2>2 DEF Pops
  <2>4. Nth(0) \in Refs(heap) /\ Top.locals \in Spaces(heap)
    BY <1>0, <2>2, <2>3, NthOK, TopOK
  <2> QED BY <1>0, <1>1, <2>2, <2>4, BindHereOK DEF StoreName, StoreFast
<1>2. CASE LoadFast
  <2>1. frames # <<>> /\ Varname \in DOMAIN Locals
    BY <1>2, Checked DEF LoadFast
  <2>2. MapOK(heap, Locals)
    BY <1>0, <2>1, TopOK DEF Locals, HeapOK
  <2> QED BY <1>0, <1>2, <2>1, <2>2, MapEntry, YieldOK DEF LoadFast
<1>3. CASE StoreGlobal
  <2>1. At("StoreGlobal")
    BY <1>3 DEF StoreGlobal
  <2>2. /\ frames # <<>> /\ (Pops <= Depth \/ ~(Pops \in Int))
        /\ Instr.op = "StoreGlobal"
    BY <2>1, Checked
  <2>3. CASE Panic("panic")
    BY <2>3, PanicOK, PanicsOK
  <2> DEFINE space == modules[ModuleName(heap, Top.object)]
  <2>4. CASE /\ HasModule(heap, Top.object)
             /\ ModuleName(heap, Top.object) \in DOMAIN modules
             /\ Continue(Bind(heap, space, Varname, Nth(0)), With(Drop(Cur, 1)))
    <3>1. Pops = 1
      BY <2>2, <2>4 DEF Pops
    <3>2. Nth(0) \in Refs(heap)
      BY <1>0, <2>2, <3>1, NthOK, TopOK
    <3>3. space \in Spaces(heap)
      BY <2>4 DEF IInv, RefsValid
    <3> QED BY <1>0, <2>2, <2>4, <3>2, <3>3, BindHereOK
  <2> QED BY <1>3, <2>3, <2>4 DEF StoreGlobal
<1>4. CASE LoadName \/ LoadGlobal
  <2>1. frames # <<>> /\ LoadNameOrGlobal
    BY <1>4, Checked DEF LoadName, LoadGlobal
  <2> QED BY <2>1, LoadNameOrGlobalOK
<1>5. CASE LoadAttr
  BY <1>5, LoadAttrOK
<1>6. CASE StoreAttr
  <2>1. At("StoreAttr")
    BY <1>6 DEF StoreAttr
  <2>2. /\ frames # <<>> /\ (Pops <= Depth \/ ~(Pops \in Int))
        /\ Instr.op = "StoreAttr"
    BY <2>1, Checked
  <2>3. Pops = 2
    BY <2>2 DEF Pops
  <2>4. Nth(0) \in Refs(heap) /\ Nth(1) \in Refs(heap)
    BY <1>0, <2>2, <2>3, NthOK, TopOK
  <2> DEFINE space == heap.objs[Nth(0)].attrs
  <2>5. CASE Panic("panic")
    BY <2>5, PanicOK, PanicsOK
  <2>6. CASE space # NoRef /\ Continue(Bind(heap, space, Name, Nth(1)), With(Drop(Cur, 2)))
    <3>1. space \in Spaces(heap)
      BY <1>0, <2>4, <2>6 DEF HeapOK, ObjectOK
    <3> QED BY <1>0, <2>2, <2>4, <2>6, <3>1, BindHereOK
  <2> QED BY <1>6, <2>5, <2>6 DEF StoreAttr
<1> QED BY <1>1, <1>2, <1>3, <1>4, <1>5, <1>6 DEF NameStep


-----------------------------------------------------------------------------
(***************************************************************************)
(* Indexing, comparison and jumps.                                         *)
(***************************************************************************)
LEMMA WordsOK == ASSUME NEW n \in Nat PROVE Words(n) \in Nat
BY DEF Words, WORD_SIZE

LEMMA JumpHereOK ==
    ASSUME IInv, frames # <<>>, NEW pc \in Nat, Continue(heap, With(Jump(Cur, pc)))
    PROVE  IInv'
<1>1. FrameOK(heap, Jump(Cur, pc))
  BY TopOK, JumpOK
<1> QED BY <1>1, ExtendedHeap, GoOK

LEMMA BinarySubscrOK == ASSUME IInv, BinarySubscr PROVE IInv'
<1> DEFINE index     == heap.objs[Nth(0)].content
           container == heap.objs[Nth(1)].content
<1>0. Extended(heap, heap) /\ HeapOK(heap) /\ 0 \in Nat /\ 1 \in Nat /\ 2 \in Nat
  BY ExtendedHeap
<1>1. At("BinarySubscr")
  BY DEF BinarySubscr
<1>2. /\ frames # <<>> /\ Instr.op = "BinarySubscr"
      /\ (Pops <= Depth \/ ~(Pops \in Int))
  BY <1>1, Checked
<1>3. Pops = 2
  BY <1>2 DEF Pops
<1>4. Nth(0) \in Refs(heap) /\ Nth(1) \in Refs(heap)
  BY <1>0, <1>2, <1>3, NthOK, TopOK
<1>5. index.num \in Nat /\ container.refs \in Seq(Refs(heap))
  BY <1>0, <1>4 DEF HeapOK, ObjectOK, ContentOK
<1>6. ASSUME NEW class \in {nameerror, typeerror}, Raise(heap, With(Drop(Cur, 2)), class)
      PROVE  IInv'
  <2>1. class \in 1..28
    <3> HIDE DEF index, container
    <3> QED BY DEF nameerror, typeerror
  <2> QED BY <1>0, <1>2, <1>6, <2>1, RaiseHereOK
<1>7. CASE /\ index.num < Len(container.refs)
           /\ Yield(heap, 2, container.refs[index.num + 1])
  <2> DEFINE s == container.refs
             n == index.num
  <2>1. s \in Seq(Refs(heap)) /\ n \in Nat /\ n < Len(s) /\ Len(s) \in Nat
    BY <1>5, <1>7, LenProperties
  <2> HIDE DEF s, n
  <2>2. n + 1 \in 1..Len(s)
    BY <2>1
  <2>3. s[n + 1] \in Refs(heap)
    BY <2>1, <2>2, ElementOfSeq
  <2>4. Yield(heap, 2, s[n + 1])
    BY <1>7 DEF s, n
  <2> QED BY <1>0, <1>2, <2>3, <2>4, YieldOK
<1> QED BY <1>6, <1>7 DEF BinarySubscr

LEMMA JumpStepOK == ASSUME IInv, JumpStep PROVE IInv'
<1>0. Extended(heap, heap) /\ HeapOK(heap) /\ 0 \in Nat /\ 1 \in Nat /\ 2 \in Nat
  BY ExtendedHeap
<1>1. CASE BinarySubscr
  BY <1>1, BinarySubscrOK
<1>2. CASE CompareOp
  <2>1. At("CompareOp")
    BY <1>2 DEF CompareOp
  <2>2. frames # <<>>
    BY <2>1, Checked
  <2>3. ASSUME NEW b, Yield(heap, 2, Bool(b))
        PROVE  IInv'
    BY <1>0, <2>2, <2>3, BoolOK, YieldOK
  <2>4. CASE Panic("panic")
    BY <2>4, PanicOK, PanicsOK
  <2> QED BY <1>2, <2>3, <2>4 DEF CompareOp
<1>3. CASE JumpAbsolute
  <2>1. frames # <<>> /\ Words(Arg) \in Nat
    BY <1>3, Checked, WordsOK DEF JumpAbsolute
  <2> QED BY <1>3, <2>1, JumpHereOK DEF JumpAbsolute
<1>4. CASE JumpForward
  <2>1. frames # <<>> /\ Words(Arg) \in Nat
    BY <1>4, Checked, WordsOK DEF JumpForward
  <2>2. Cur.pc + Words(Arg) \in Nat
    <3>1. Cur.pc \in Nat
      BY <2>1, TopOK
    <3> QED BY <2>1, <3>1
  <2> QED BY <1>4, <2>1, <2>2, JumpHereOK DEF JumpForward
<1>5. CASE PopJumpIfFalse
  <2>1. frames # <<>> /\ Words(Arg) \in Nat
    BY <1>5, Checked, WordsOK DEF PopJumpIfFalse
  <2>2. CASE Pop(1)
    BY <1>0, <2>1, <2>2, PopOK
  <2>3. CASE Continue(heap, With(Jump(Drop(Cur, 1), Words(Arg))))
    <3>1. FrameOK(heap, Jump(Drop(Cur, 1), Words(Arg)))
      BY <1>0, <2>1, TopOK, DropOK, JumpOK
    <3> QED BY <1>0, <2>1, <2>3, <3>1, GoOK
  <2>4. CASE Panic("panic")
    BY <2>4, PanicOK, PanicsOK
  <2> QED BY <1>5, <2>2, <2>3, <2>4 DEF PopJumpIfFalse
<1> QED BY <1>1, <1>2, <1>3, <1>4, <1>5 DEF JumpStep

-----------------------------------------------------------------------------
(***************************************************************************)
(* Blocks, loops and exceptions.                                           *)
(***************************************************************************)
LEMMA PushHereOK ==
    ASSUME IInv, frames # <<>>, NEW kind \in {"Loop", "TryExcept"}, NEW target \in Nat,
           Continue(heap, With(PushBlock(Cur, Block(kind, Cur.pc, target))))
    PROVE  IInv'
<1>1. Block(kind, Cur.pc, target) \in BlockSet(heap)
  BY TopOK, BlockOK
<1>2. FrameOK(heap, PushBlock(Cur, Block(kind, Cur.pc, target)))
  BY <1>1, TopOK, PushBlockOK
<1> QED BY <1>2, ExtendedHeap, GoOK

LEMMA ForIterOK == ASSUME IInv, ForIter PROVE IInv'
<1> DEFINE h == NewPrimitive(heap, NoName, "iter")
           target == Cur.pc + Words(Arg)
           b == ExceptPopGoto(stopiteration, 1, target)
           f == PushBlock(Cur, b)
           noKeys == <<>>
           args == <<Nth(0)>>
<1>0. Extended(heap, heap) /\ HeapOK(heap) /\ 0 \in Nat /\ 1 \in Nat
  BY ExtendedHeap
<1>1. At("ForIter")
  BY DEF ForIter
<1>2. /\ frames # <<>> /\ Instr.op = "ForIter" /\ Words(Arg) \in Nat
      /\ (Pops <= Depth \/ ~(Pops \in Int))
  BY <1>1, Checked, WordsOK
<1>3. Pops = 1
  BY <1>2 DEF Pops
<1>4. Nth(0) \in Refs(heap)
  BY <1>0, <1>2, <1>3, NthOK, TopOK
<1>5. Made(heap, h)
  BY <1>0, NewPrimitiveOK
<1> HIDE DEF h
<1>6. HeapOK(h) /\ Refs(heap) \subseteq Refs(h) /\ Extended(heap, h) /\ Newest(h) \in Refs(h)
  BY <1>0, <1>5, ExtendedSets DEF Made, Extended
<1>7. target \in Nat
  <2>1. Cur.pc \in Nat
    BY <1>2, TopOK
  <2> QED BY <1>2, <2>1
<1> HIDE DEF target
<1>8. stopiteration \in Refs(heap)
  BY <1>0, PrimitiveRefs DEF stopiteration
<1>9. b \in BlockSet(heap)
  BY <1>0, <1>7, <1>8, ExceptPopGotoOK
<1> HIDE DEF b
<1>10. FrameOK(heap, f)
  BY <1>2, <1>9, TopOK, PushBlockOK
<1> HIDE DEF f
<1>11. Ready(h, With(f)) /\ With(f) # <<>>
  BY <1>2, <1>6, <1>10, FrameStays, WithOK
<1>12. noKeys \in Seq(Refs(h)) /\ args \in Seq(Refs(h))
  BY <1>4, <1>6, SingletonSeq
<1>13. Call(h, With(f), Newest(h), args, noKeys, noKeys)
  BY DEF ForIter, h, f, b, target
<1> HIDE DEF args, noKeys
<1>14. Arguments(h, args, noKeys, noKeys)
  BY <1>12 DEF Arguments
<1> QED BY <1>6, <1>11, <1>13, <1>14, CallOK

LEMMA PopExceptOK == ASSUME IInv, PopExcept PROVE IInv'
<1> DEFINE noStack == <<>>
           f == Cur
           g == [f EXCEPT !.stack = noStack]
<1>1. At("PopExcept")
  BY DEF PopExcept
<1>2. frames # <<>>
  BY <1>1, Checked
<1>3. FrameOK(heap, f)
  BY <1>2, TopOK
<1>4. f = [object |-> f.object, code |-> f.code, instructions |-> f.instructions,
           locals |-> f.locals, stack |-> f.stack, blocks |-> f.blocks, pc |-> f.pc]
  BY <1>3, FrameRecord
<1>5. noStack \in Seq(Refs(heap)) /\ f.blocks \in Seq(BlockSet(heap)) /\ f.pc \in Nat
  BY <1>3, FrameParts
<1>6. CASE Continue(heap, With(DropBlock(g)))
  <2> HIDE DEF f, noStack
  <2>1. g = Changed(f, noStack, f.blocks, f.pc)
    BY <1>4 DEF Changed
  <2>2. FrameOK(heap, g)
    BY <1>3, <1>5, <2>1, ChangedOK
  <2> HIDE DEF g
  <2>3. FrameOK(heap, DropBlock(g))
    BY <2>2, DropBlockOK
  <2> QED BY <1>2, <1>6, <2>3, ExtendedHeap, GoOK
<1>7. CASE Panic("panic") \/ Panic("StackTooSmall")
  BY <1>7, PanicOK, PanicsOK
<1> QED BY <1>6, <1>7 DEF PopExcept

LEMMA UnwindHereOK ==
    ASSUME IInv, frames # <<>>, NEW f, FrameOK(heap, f), NEW traceback \in Refs(heap),
           NEW exc \in Refs(heap), NEW val \in Refs(heap),
           Unwind(heap, With(f), traceback, exc, val)
    PROVE  IInv'
<1>1. Ready(heap, With(f))
  BY ExtendedHeap, WithOK
<1> QED BY <1>1, UnwindOK

LEMMA BlockStepOK == ASSUME IInv, BlockStep PROVE IInv'
<1>0. Extended(heap, heap) /\ HeapOK(heap) /\ 0 \in Nat /\ 1 \in Nat /\ 2 \in Nat /\ 3 \in Nat
  BY ExtendedHeap
<1>1. CASE SetupLoop
  <2>1. frames # <<>> /\ Arg \in Nat
    BY <1>1, Checked DEF SetupLoop
  <2>2. Cur.pc + Arg \in Nat
    <3>1. Cur.pc \in Nat
      BY <2>1, TopOK
    <3> QED BY <2>1, <3>1
  <2> QED BY <1>1, <2>1, <2>2, PushHereOK DEF SetupLoop
<1>2. CASE SetupExcept
  <2>1. frames # <<>> /\ Words(Arg) \in Nat
    BY <1>2, Checked, WordsOK DEF SetupExcept
  <2>2. Cur.pc + Words(Arg) \in Nat
    <3>1. Cur.pc \in Nat
      BY <2>1, TopOK
    <3> QED BY <2>1, <3>1
  <2> QED BY <1>2, <2>1, <2>2, PushHereOK DEF SetupExcept
<1>3. CASE PopBlock
  <2>1. frames # <<>>
    BY <1>3, Checked DEF PopBlock
  <2>2. FrameOK(heap, DropBlock(Cur))
    BY <2>1, TopOK, DropBlockOK
  <2> QED BY <1>0, <1>3, <2>1, <2>2, GoOK DEF PopBlock
<1>4. CASE GetIter
  <2> DEFINE h == Iter(heap, Nth(0))
  <2>1. At("GetIter") /\ Yield(h, 1, Newest(h))
    BY <1>4 DEF GetIter
  <2>2. /\ frames # <<>> /\ Instr.op = "GetIter"
        /\ (Pops <= Depth \/ ~(Pops \in Int))
    BY <2>1, Checked
  <2>3. Pops = 1
    BY <2>2 DEF Pops
  <2>4. Nth(0) \in Refs(heap)
    BY <1>0, <2>2, <2>3, NthOK, TopOK
  <2>5. Made(heap, h)
    BY <1>0, <2>4, IterOK
  <2> HIDE DEF h
  <2> QED BY <1>0, <2>1, <2>2, <2>5, YieldMadeOK
<1>5. CASE ForIter
  BY <1>5, ForIterOK
<1>6. CASE PopExcept
  BY <1>6, PopExceptOK
<1>7. CASE EndFinally
  <2>1. At("EndFinally")
    BY <1>7 DEF EndFinally
  <2>2. frames # <<>>
    BY <2>1, Checked
  <2>3. CASE Pop(1)
    BY <1>0, <2>2, <2>3, PopOK
  <2>4. CASE Panic("panic") \/ Panic("StackTooSmall")
    BY <2>4, PanicOK, PanicsOK
  <2>5. CASE /\ ~(Depth < 3)
             /\ Unwind(heap, With(DropBlock(Drop(Cur, 3))), Nth(2), Nth(0), Nth(1))
    <3>1. Depth \in Nat /\ 0 < Depth /\ 1 < Depth /\ 2 < Depth
      BY <2>2, <2>5, TopOK
    <3>2. Nth(0) \in Refs(heap) /\ Nth(1) \in Refs(heap) /\ Nth(2) \in Refs(heap)
      BY <1>0, <2>2, <3>1, NthOK
    <3>3. FrameOK(heap, DropBlock(Drop(Cur, 3)))
      BY <1>0, <2>2, TopOK, DropOK, DropBlockOK
    <3> QED BY <2>2, <2>5, <3>2, <3>3, UnwindHereOK
  <2> QED BY <1>7, <2>3, <2>4, <2>5 DEF EndFinally
<1>8. CASE RaiseVarargs
  <2>1. At("RaiseVarargs")
    BY <1>8 DEF RaiseVarargs
  <2>2. /\ frames # <<>> /\ Instr.op = "RaiseVarargs"
        /\ (Pops <= Depth \/ ~(Pops \in Int))
    BY <2>1, Checked
  <2>3. CASE Panic("panic")
    BY <2>3, PanicOK, PanicsOK
  <2>4. CASE Arg = 1 /\ Unwind(heap, With(Drop(Cur, 1)), none, Nth(0), none)
    <3>1. Pops = 1
      BY <2>2, <2>4 DEF Pops
    <3>2. Nth(0) \in Refs(heap) /\ none \in Refs(heap)
      <4>1. Nth(0) \in Refs(heap)
        BY <1>0, <2>2, <3>1, NthOK, TopOK
      <4>2. none \in Refs(heap)
        BY <1>0, PrimitiveRefs DEF none
      <4> QED BY <4>1, <4>2
    <3>3. FrameOK(heap, Drop(Cur, 1))
      BY <1>0, <2>2, TopOK, DropOK
    <3> QED BY <2>2, <2>4, <3>2, <3>3, UnwindHereOK
  <2> QED BY <1>8, <2>3, <2>4 DEF RaiseVarargs
<1> QED BY <1>1, <1>2, <1>3, <1>4, <1>5, <1>6, <1>7, <1>8 DEF BlockStep


-----------------------------------------------------------------------------
(***************************************************************************)
(* Functions, calls and classes.                                           *)
(***************************************************************************)
LEMMA DictPartsOK ==
    ASSUME NEW h, NEW c, ContentOK(h, c), c.kind = "Dict"
    PROVE  DictKeys(c) \in Seq(Refs(h)) /\ DictValues(c) \in Seq(Refs(h))
<1> DEFINE s == c.refs
           n == Len(s) \div 2
<1>1. s \in Seq(Refs(h)) /\ Len(s) \in Nat
  BY LenProperties DEF ContentOK
<1> HIDE DEF s
<1>2. n \in Int /\ n <= Len(s) /\ n + 1 \in Nat \ {0}
  BY <1>1
<1> HIDE DEF n
<1>3. SubSeq(s, 1, n) \in Seq(Refs(h))
  BY <1>1, <1>2, PrefixProperties
<1>4. SubSeq(s, n + 1, Len(s)) \in Seq(Refs(h))
  <2>1. Len(s) \in Int /\ Len(s) <= Len(s)
    BY <1>1
  <2> QED BY <1>1, <1>2, <2>1, SliceProperties
<1> QED BY <1>3, <1>4 DEF DictKeys, DictValues, s, n

LEMMA MakeFunctionOK == ASSUME IInv, MakeFunction PROVE IInv'
<1> DEFINE dict == heap.objs[Nth(2)].content
           n    == IF Arg = 2 THEN 3 ELSE 2
           defaults == IF Arg = 2
                       THEN MapOf(Texts(heap, DictKeys(dict)), DictValues(dict))
                       ELSE EmptyMap
           name == StringAt(heap, Nth(0))
           module == ModuleName(heap, Top.object)
           h == NewFunction(heap, name, module, Nth(1), defaults)
<1>0. Extended(heap, heap) /\ HeapOK(heap) /\ 0 \in Nat /\ 1 \in Nat /\ 2 \in Nat
  BY ExtendedHeap
<1>1. At("MakeFunction")
  BY DEF MakeFunction
<1>2. frames # <<>>
  BY <1>1, Checked
<1>3. Depth \in Nat
  BY <1>2, TopOK
<1>4. CASE Panic("panic") \/ Panic("StackTooSmall")
  BY <1>4, PanicOK, PanicsOK
<1>5. CASE Raise(heap, With(Drop(Cur, 1)), typeerror)
  <2>1. typeerror \in 1..28
    BY DEF typeerror
  <2> QED BY <1>0, <1>2, <1>5, <2>1, RaiseHereOK
<1>6. CASE ~(Depth < n) /\ (Arg = 2 => dict.kind = "Dict") /\ Yield(h, n, Newest(h))
  <2>1. Nth(1) \in Refs(heap)
    <3>1. 1 < Depth
      BY <1>3, <1>6
    <3> QED BY <1>0, <1>2, <3>1, NthOK
  <2>2. ASSUME Arg = 2 PROVE MapOK(heap, defaults)
    <3>1. 2 < Depth
      BY <1>3, <1>6, <2>2
    <3>2. Nth(2) \in Refs(heap)
      BY <1>0, <1>2, <3>1, NthOK
    <3>3. ContentOK(heap, dict) /\ dict.kind = "Dict"
      BY <1>0, <1>6, <2>2, <3>2 DEF HeapOK, ObjectOK
    <3> HIDE DEF dict
    <3>4. DictKeys(dict) \in Seq(Refs(heap)) /\ DictValues(dict) \in Seq(Refs(heap))
      BY <3>3, DictPartsOK
    <3>5. Len(Texts(heap, DictKeys(dict))) \in Nat
      BY <3>4, TextsLen
    <3>6. MapOK(heap, MapOf(Texts(heap, DictKeys(dict)), DictValues(dict)))
      BY <3>4, <3>5, MapOfOK
    <3> QED BY <2>2, <3>6
  <2>3. MapOK(heap, defaults)
    BY <2>2, EmptyMapOK
  <2>4. n \in Nat
    OBVIOUS
  <2> HIDE DEF defaults, name, module, n
  <2>5. Made(heap, h)
    BY <1>0, <2>1, <2>3, NewFunctionOK
  <2> HIDE DEF h
  <2> QED BY <1>2, <1>6, <2>4, <2>5, YieldMadeOK
<1> QED BY <1>4, <1>5, <1>6 DEF MakeFunction

LEMMA CallFunctionOK == ASSUME IInv, CallFunction PROVE IInv'
<1> DEFINE n == Arg
           m == n + 1
           noKeys == <<>>
           args == Slice(n, 0)
<1>0. Extended(heap, heap) /\ HeapOK(heap) /\ 0 \in Nat
  BY ExtendedHeap
<1>1. At("CallFunction")
  BY DEF CallFunction
<1>2. /\ frames # <<>> /\ Instr.op = "CallFunction" /\ n \in Nat
      /\ (Pops <= Depth \/ ~(Pops \in Int))
  BY <1>1, Checked
<1>3. Pops = n + 1
  BY <1>2 DEF Pops
<1>4. Call(heap, With(Drop(Cur, m)), Nth(n), args, noKeys, noKeys)
  BY DEF CallFunction
<1>5. Depth \in Nat
  BY <1>2, TopOK
<1> HIDE DEF n
<1>6. n + 1 <= Depth /\ m \in Nat /\ n < Depth /\ n + 0 <= Depth
  BY <1>2, <1>3, <1>5
<1>7. Nth(n) \in Refs(heap) /\ args \in Seq(Refs(heap)) /\ noKeys \in Seq(Refs(heap))
  BY <1>0, <1>2, <1>6, NthOK, SliceOK
<1> HIDE DEF m, args, noKeys
<1>8. Arguments(heap, args, noKeys, noKeys)
  BY <1>7 DEF Arguments
<1>9. FrameOK(heap, Drop(Cur, m))
  BY <1>2, <1>6, TopOK, DropOK
<1>10. Ready(heap, With(Drop(Cur, m))) /\ With(Drop(Cur, m)) # <<>>
  BY <1>0, <1>2, <1>9, WithOK
<1> QED BY <1>4, <1>7, <1>8, <1>10, CallOK

LEMMA CallFunctionKwOK == ASSUME IInv, CallFunctionKw PROVE IInv'
<1> DEFINE keys == heap.objs[Nth(0)].content.refs
           n == Len(keys)
           a == Arg
           m == a + 2
           args == Slice(a - n, n + 1)
           values == Slice(n, 1)
<1>0. Extended(heap, heap) /\ HeapOK(heap) /\ 0 \in Nat /\ 1 \in Nat
  BY ExtendedHeap
<1>1. At("CallFunctionKw")
  BY DEF CallFunctionKw
<1>2. /\ frames # <<>> /\ Instr.op = "CallFunctionKw" /\ a \in Nat
      /\ (Pops <= Depth \/ ~(Pops \in Int))
  BY <1>1, Checked
<1>3. Pops = 1
  BY <1>2 DEF Pops
<1>4. Depth \in Nat
  BY <1>2, TopOK
<1>5. Nth(0) \in Refs(heap)
  BY <1>0, <1>2, <1>3, <1>4, NthOK
<1>6. keys \in Seq(Refs(heap)) /\ n \in Nat
  BY <1>0, <1>5, LenProperties DEF HeapOK, ObjectOK, ContentOK
<1>7. CASE Panic("panic") \/ Panic("StackTooSmall")
  BY <1>7, PanicOK, PanicsOK
<1>8. CASE /\ ~(Depth - 1 < n) /\ ~(a < n) /\ ~(Depth < a + 2)
           /\ Call(heap, With(Drop(Cur, m)), Nth(a + 1), args, keys, values)
  <2> HIDE DEF n, a
  <2>1. /\ a - n \in Nat /\ n + 1 \in Nat /\ (a - n) + (n + 1) <= Depth
        /\ n + 1 <= Depth /\ a + 1 \in Nat /\ a + 1 < Depth /\ m \in Nat
    BY <1>2, <1>4, <1>6, <1>8
  <2>2. Nth(a + 1) \in Refs(heap)
    BY <1>2, <2>1, NthOK
  <2>3. args \in Seq(Refs(heap))
    BY <1>2, <2>1, SliceOK
  <2>4. values \in Seq(Refs(heap)) /\ Len(values) = n
    BY <1>0, <1>2, <1>6, <2>1, SliceOK
  <2> HIDE DEF m, args, values
  <2>5. Arguments(heap, args, keys, values)
    BY <1>6, <2>3, <2>4 DEF Arguments, n
  <2>6. FrameOK(heap, Drop(Cur, m))
    BY <1>2, <2>1, TopOK, DropOK
  <2>7. Ready(heap, With(Drop(Cur, m))) /\ With(Drop(Cur, m)) # <<>>
    BY <1>0, <1>2, <2>6, WithOK
  <2> QED BY <1>8, <2>2, <2>5, <2>7, CallOK
<1> QED BY <1>7, <1>8 DEF CallFunctionKw

LEMMA ReturnValueOK == ASSUME IInv, ReturnValue PROVE IInv'
<1> DEFINE n == Len(frames) - 1
           rest == SubSeq(frames, 1, n)
<1>0. Extended(heap, heap) /\ HeapOK(heap) /\ 0 \in Nat
  BY ExtendedHeap
<1>1. At("ReturnValue")
  BY DEF ReturnValue
<1>2. /\ frames # <<>> /\ Instr.op = "ReturnValue"
      /\ (Pops <= Depth \/ ~(Pops \in Int))
  BY <1>1, Checked
<1>3. Pops = 1
  BY <1>2 DEF Pops
<1>4. Nth(0) \in Refs(heap)
  BY <1>0, <1>2, <1>3, NthOK, TopOK
<1>5. FramesOK(heap, frames) /\ Len(frames) \in Nat
  BY FramesLen DEF IInv, RefsValid
<1>6. n \in Int /\ n <= Len(frames)
  BY <1>5
<1> HIDE DEF n
<1>7. FramesOK(heap, rest)
  BY <1>5, <1>6, PrefixFramesOK
<1>8. Ready(heap, rest)
  BY <1>7, ReadySelf DEF Ready
<1> HIDE DEF rest
<1>9. CASE rest # <<>> /\ Continue(heap, ReturnTo(rest, Nth(0)))
  BY <1>0, <1>4, <1>8, <1>9, ReturnOK
<1>10. CASE /\ frames' = rest
            /\ outcome' = IF queue = <<>> THEN "returned" ELSE "running"
            /\ UNCHANGED <<prog, heap, modules, queue, stdout>>
  <2>1. modules' \in [DOMAIN modules' -> Spaces(heap)]
    BY <1>10 DEF IInv, RefsValid
  <2>2. IsSequence(stdout')
    BY <1>10 DEF IInv, TypeOK
  <2>3. outcome' \in Outcomes
    BY <1>10 DEF Outcomes
  <2> QED BY <1>8, <1>10, <2>1, <2>2, <2>3, StepOK
<1> QED BY <1>9, <1>10 DEF ReturnValue, rest, n

LEMMA CallStepOK == ASSUME IInv, CallStep PROVE IInv'
<1>1. CASE LoadBuildClass
  <2> DEFINE h == NewPrimitive(heap, "__build_class__", "build_class")
  <2>1. At("LoadBuildClass") /\ Yield(h, 0, Newest(h))
    BY <1>1 DEF LoadBuildClass
  <2>2. frames # <<>> /\ 0 \in Nat
    BY <2>1, Checked
  <2>3. Made(heap, h)
    BY ExtendedHeap, NewPrimitiveOK
  <2> HIDE DEF h
  <2> QED BY <2>1, <2>2, <2>3, YieldMadeOK
<1> QED BY <1>1, MakeFunctionOK, CallFunctionOK, CallFunctionKwOK, ReturnValueOK DEF CallStep


-----------------------------------------------------------------------------
(***************************************************************************)
(* The failure of an instruction, the start of a module, and the end.      *)
(***************************************************************************)
LEMMA FailOK == ASSUME IInv, Fail PROVE IInv'
<1>1. Fault # NoFault /\ Panic(Fault)
  BY DEF Fail
<1>2. Fault \in Outcomes
  BY <1>1 DEF Fault, Outcomes, NoFault
<1> QED BY <1>1, <1>2, PanicOK

LEMMA HaltedOK == ASSUME IInv, UNCHANGED vars PROVE IInv'
<1>1. /\ heap' = heap /\ frames' = frames /\ prog' = prog /\ queue' = queue
      /\ modules' = modules /\ stdout' = stdout /\ outcome' = outcome
  BY DEF vars
<1>2. Ready(heap, frames)
  BY ReadySelf
<1>3. /\ modules' \in [DOMAIN modules' -> Spaces(heap)]
      /\ IsSequence(stdout') /\ outcome' \in Outcomes
  BY <1>1 DEF IInv, TypeOK, RefsValid
<1> QED BY <1>1, <1>2, <1>3, StepOK

LEMMA ModuleCodeLoaded ==
    ASSUME IInv, NEW name
    PROVE  ModuleCode(name) \in Refs(heap)
<1>1. IsProgram(Programs[prog])
  BY ProgramsAssumption DEF IInv, TypeOK
<1>2. ModuleCode(name) \in LoadedRefs(Programs[prog])
  BY <1>1 DEF IsProgram, ModuleCode
<1> QED BY <1>2 DEF IInv, RefsValid

LEMMA StartModuleOK == ASSUME IInv, StartModule PROVE IInv'
<1> DEFINE name == Head(queue)
           code == ModuleCode(name)
           id   == heap.objs[code].content.num
           h0   == NewModule(heap, name, code)
           h1   == NewModule(h0, name, code)
           h2   == NewSpace(h1, EmptyMap)
           f    == NewFrame(Newest(h1), id, Code[id].instructions, Len(h2.spaces))
<1>1. Extended(heap, heap) /\ HeapOK(heap) /\ code \in Refs(heap)
  BY ExtendedHeap, ModuleCodeLoaded
<1>2. CASE Panic("NotACodeObject")
  BY <1>2, PanicOK, PanicsOK
<1>3. CASE /\ KindOf(heap, code) = "Code"
           /\ heap' = h2
           /\ modules' = Insert(modules, name, Len(h2.spaces))
           /\ frames' = <<f>>
           /\ queue' = Tail(queue) /\ queue # <<>>
           /\ UNCHANGED <<prog, stdout, outcome>>
  <2>1. id \in 1..Len(Code)
    BY <1>1, <1>3 DEF HeapOK, ObjectOK, ContentOK, KindOf
  <2> HIDE DEF id, code, name
  <2>2. Made(heap, h0)
    BY <1>1, NewModuleOK
  <2> HIDE DEF h0
  <2>3. HeapOK(h0) /\ Extended(heap, h0) /\ code \in Refs(h0)
    BY <1>1, <2>2, ExtendedSets DEF Made, Extended
  <2>4. Made(h0, h1)
    BY <2>3, NewModuleOK
  <2> HIDE DEF h1
  <2>5. HeapOK(h1) /\ Extended(heap, h1) /\ Newest(h1) \in Refs(h1)
    BY <1>1, <2>3, <2>4, ExtendedTrans DEF Made, Extended
  <2>6. /\ Extended(h1, h2) /\ Refs(h2) = Refs(h1)
        /\ Len(h2.spaces) \in Spaces(h2)
    BY <2>5, EmptyMapOK, NewSpaceOK
  <2> HIDE DEF h2
  <2>7. HeapOK(h2) /\ Extended(heap, h2)
    BY <1>1, <2>5, <2>6, ExtendedTrans DEF Extended
  <2>8. Refs(heap) \subseteq Refs(h2) /\ Spaces(heap) \subseteq Spaces(h2)
    BY <1>1, <2>7, ExtendedSets
  <2>9. FrameOK(h2, f)
    BY <2>1, <2>5, <2>6, LoadedInstructionsOK, NewFrameOK
  <2> HIDE DEF f
  <2>10. FramesOK(h2, <<f>>)
    <3> DEFINE fs == <<f>>
    <3>1. fs \in Seq({f}) /\ Len(fs) = 1 /\ fs[1] = f
      OBVIOUS
    <3>2. \A i \in 1..Len(fs) : fs[i] = f
      BY <3>1
    <3> HIDE DEF fs
    <3>3. FramesOK(h2, fs)
      BY <2>9, <3>1, <3>2, SeqIsSequence DEF FramesOK
    <3> QED BY <3>3 DEF fs
  <2>11. HeapOK(heap)' /\ FramesOK(heap, frames)'
    BY <1>3, <2>7, <2>10, SameProgram
  <2>12. Refs(heap)' = Refs(h2) /\ Spaces(heap)' = Spaces(h2)
    BY <1>3 DEF Refs, Spaces
  <2>13. (LoadedRefs(Programs[prog]) \subseteq Refs(heap))'
    <3>1. LoadedRefs(Programs[prog]) \subseteq Refs(h2)
      BY <2>8 DEF IInv, RefsValid
    <3>2. LoadedRefs(Programs[prog])' = LoadedRefs(Programs[prog])
      BY <1>3 DEF LoadedRefs
    <3> QED BY <2>12, <3>1, <3>2
  <2>14. (modules \in [DOMAIN modules -> Spaces(heap)])'
    <3>1. modules \in [DOMAIN modules -> Spaces(h2)]
      BY <2>8 DEF IInv, RefsValid
    <3>2. Insert(modules, name, Len(h2.spaces))
            \in [DOMAIN Insert(modules, name, Len(h2.spaces)) -> Spaces(h2)]
      BY <2>6, <3>1 DEF Insert
    <3> QED BY <1>3, <2>12, <3>2
  <2>15. RefsValid'
    BY <2>11, <2>13, <2>14 DEF RefsValid
  <2>16. queue' \in Seq({"builtins", "__main__"})
    <3> DEFINE S == {"builtins", "__main__"}
    <3>1. queue \in Seq(S)
      BY DEF IInv, TypeOK
    <3> HIDE DEF S
    <3>2. Tail(queue) \in Seq(S)
      BY <1>3, <3>1, HeadTailProperties
    <3> QED BY <1>3, <3>2 DEF S
  <2>17. TypeOK'
    BY <1>3, <2>16 DEF IInv, TypeOK
  <2> QED BY <2>15, <2>17 DEF IInv
<1> QED BY <1>2, <1>3 DEF StartModule

-----------------------------------------------------------------------------
(***************************************************************************)
(* The store that the programs start with.                                 *)
(***************************************************************************)
LEMMA PrimitiveObjectOK ==
    ASSUME NEW h, 1..28 \subseteq Refs(h), 1..3 \subseteq Spaces(h), NEW r \in 1..28
    PROVE  ObjectOK(h, PrimitiveObject(r))
<1> DEFINE o == PrimitiveObject(r)
<1>1. o.class \in 1..28
  BY DEF PrimitiveObject, none_type, bool_type, type_
<1>2. o.attrs \in 1..3 \cup {NoRef}
  BY DEF PrimitiveObject, none, true_obj, false_obj, NoRef
<1>3. o.bases \in Seq(1..28)
  <2>1. <<>> \in Seq(1..28) /\ \A b \in 1..28 : <<b>> \in Seq(1..28)
    BY SMT
  <2>2. PrimitiveBases(r) \in {<<>>, <<int_type>>, <<baseexception>>, <<exception>>,
                             <<lookuperror>>, <<object>>}
    BY Zenon DEF PrimitiveBases
  <2>3. /\ object \in 1..28 /\ int_type \in 1..28 /\ baseexception \in 1..28
        /\ exception \in 1..28 /\ lookuperror \in 1..28
    BY DEF object, int_type, baseexception, exception, lookuperror
  <2>4. PrimitiveBases(r) \in Seq(1..28)
    BY <2>1, <2>2, <2>3, Zenon
  <2> QED BY <2>4 DEF PrimitiveObject
<1>4. ContentOK(h, o.content)
  <2>1. \A kind \in {"None", "True", "False", "Class", "OtherObject"} :
            ContentOK(h, Plain(kind))
    BY DEF Plain, Content, ContentOK, Kinds
  <2>2. \E kind \in {"None", "True", "False", "Class", "OtherObject"} :
            o.content = Plain(kind)
    BY DEF PrimitiveObject
  <2> QED BY <2>1, <2>2
<1>5. o = [version |-> o.version, name |-> o.name, class |-> o.class,
           bases |-> o.bases, attrs |-> o.attrs, content |-> o.content]
  BY DEF PrimitiveObject
<1>6. o.bases \in Seq(Refs(h))
  BY <1>3, SeqMonotonic
<1> HIDE DEF o
<1>7. ObjectOK(h, o)
  BY <1>1, <1>2, <1>4, <1>5, <1>6 DEF ObjectOK
<1> QED BY <1>7 DEF o


LEMMA ImageObjectOK ==
    ASSUME IsProgram(Programs[prog]), NEW h, 1..28 \subseteq Refs(h),
           LoadedRefs(Programs[prog]) \subseteq Refs(h),
           NEW i \in 1..Len(Image), Len(PrimitiveHeap.spaces) + i \in Spaces(h)
    PROVE  ObjectOK(h, ImageObject(i))
<1> DEFINE o == ImageObject(i)
           c == Image[i]
           p == Programs[prog]
           noBases == <<>>
<1>1. IsImageContent(p, c)
  BY DEF IsProgram, Image
<1>2. c = [kind |-> c.kind, refs |-> c.refs, num |-> c.num, str |-> c.str, stamp |-> 0]
  BY <1>1 DEF IsImageContent
<1>3. /\ c.refs \in Seq(LoadedRefs(p)) /\ c.num \in Nat
      /\ c.kind \in {"Int", "String", "Tuple", "List", "Code", "Opaque"}
      /\ c.kind = "Code" => c.num \in 1..Len(p.codes)
  BY <1>1 DEF IsImageContent
<1>4. c.stamp = 0
  <2> HIDE DEF c
  <2> QED BY <1>2
<1>5. c.refs \in Seq(Refs(h))
  BY <1>3, SeqMonotonic
<1>6. ImageClass(c) \in 1..28
  BY DEF ImageClass, int_type, str_type, tuple_type, list_type, code_type, set_type
<1>7. o.class = ImageClass(c) /\ o.attrs = Len(PrimitiveHeap.spaces) + i /\ o.content = c
      /\ o.bases = noBases
  BY DEF ImageObject
<1>8. o = [version |-> o.version, name |-> o.name, class |-> o.class,
           bases |-> o.bases, attrs |-> o.attrs, content |-> o.content]
  BY DEF ImageObject
<1>9. Code = p.codes
  BY DEF Code
<1>10. noBases \in Seq(Refs(h))
  OBVIOUS
<1> HIDE DEF o, c, p, noBases
<1>11. ContentOK(h, c)
  BY <1>2, <1>3, <1>4, <1>5, <1>9 DEF ContentOK, Kinds
<1>12. ObjectOK(h, o)
  BY <1>6, <1>7, <1>8, <1>10, <1>11 DEF ObjectOK
<1> QED BY <1>12 DEF o

LEMMA Joined ==
    ASSUME NEW S, NEW m \in Nat, NEW s1 \in [1..m -> S],
           NEW n \in Nat, NEW s2 \in [1..n -> S], NEW s, s = s1 \o s2
    PROVE  /\ s \in Seq(S) /\ Len(s) = m + n
           /\ \A i \in 1..m : s[i] = s1[i]
           /\ \A i \in 1..(m + n) : ~(i \in 1..m) => i - m \in 1..n /\ s[i] = s2[i - m]
<1>1. s1 \in Seq(S) /\ Len(s1) = m /\ s2 \in Seq(S) /\ Len(s2) = n
  BY FunctionIsSeq
<1>2. /\ s \in Seq(S) /\ Len(s) = Len(s1) + Len(s2)
      /\ \A i \in 1..(Len(s1) + Len(s2)) :
            s[i] = IF i <= Len(s1) THEN s1[i] ELSE s2[i - Len(s1)]
  BY <1>1, ConcatProperties
<1> QED BY <1>1, <1>2, SMT

LEMMA JoinedLen ==
    ASSUME NEW S, NEW m \in Nat, NEW s1 \in [1..m -> S],
           NEW n \in Nat, NEW s2 \in [1..n -> S]
    PROVE  Len(s1 \o s2) = m + n
BY FunctionIsSeq, ConcatProperties

LEMMA LoadedHeapOK ==
    ASSUME IsProgram(Programs[prog])
    PROVE  HeapOK(LoadedHeap) /\ LoadedRefs(Programs[prog]) \subseteq Refs(LoadedHeap)
<1> DEFINE h == LoadedHeap
           images == Len(Image)
           primObjs == [r \in 1..28 |-> PrimitiveObject(r)]
           imageObjs == [i \in 1..images |-> ImageObject(i)]
           primMaps == [s \in 1..3 |-> EmptyMap]
           imageMaps == [i \in 1..images |-> EmptyMap]
           Objs == {PrimitiveObject(r) : r \in 1..28} \cup {ImageObject(i) : i \in 1..images}
           Maps == {EmptyMap}
<1>1. images \in Nat
  BY SequenceLen DEF IsProgram, Image
<1>2. /\ LoadedHeap = [objs |-> PrimitiveHeap.objs \o imageObjs,
                     spaces |-> PrimitiveHeap.spaces \o imageMaps]
      /\ PrimitiveHeap.objs = primObjs /\ PrimitiveHeap.spaces = primMaps
  BY DEF LoadedHeap, PrimitiveHeap
<1>3. h.objs = primObjs \o imageObjs /\ h.spaces = primMaps \o imageMaps
  BY <1>2
<1> HIDE DEF images
<1>4. /\ primObjs \in [1..28 -> Objs] /\ imageObjs \in [1..images -> Objs]
      /\ primMaps \in [1..3 -> Maps] /\ imageMaps \in [1..images -> Maps]
  OBVIOUS
<1>5. /\ \A r \in 1..28 : primObjs[r] = PrimitiveObject(r)
      /\ \A i \in 1..images : imageObjs[i] = ImageObject(i)
  OBVIOUS
<1> HIDE DEF h, primObjs, imageObjs, primMaps, imageMaps, Objs, Maps
<1> DEFINE prims == 28
           first == 3
<1>6. prims \in Nat /\ first \in Nat /\ primObjs \in [1..prims -> Objs]
      /\ primMaps \in [1..first -> Maps]
  BY <1>4
<1> HIDE DEF prims, first
<1>7. /\ h.objs \in Seq(Objs) /\ Len(h.objs) = prims + images
      /\ h.spaces \in Seq(Maps) /\ Len(h.spaces) = first + images
      /\ \A r \in 1..prims : h.objs[r] = primObjs[r]
      /\ \A r \in 1..(prims + images) :
            ~(r \in 1..prims) => r - prims \in 1..images /\ h.objs[r] = imageObjs[r - prims]
  <2> DEFINE objs == h.objs
             spaces == h.spaces
  <2>1. objs = primObjs \o imageObjs /\ primObjs \in [1..prims -> Objs] /\ prims \in Nat
        /\ imageObjs \in [1..images -> Objs]
    BY <1>3, <1>4, <1>6
  <2>2. spaces = primMaps \o imageMaps /\ primMaps \in [1..first -> Maps] /\ first \in Nat
        /\ imageMaps \in [1..images -> Maps]
    BY <1>3, <1>4, <1>6
  <2> HIDE DEF objs, spaces
  <2>3. objs \in Seq(Objs)
    BY <1>1, <2>1, Joined
  <2>4. Len(objs) = prims + images
    <3>1. primObjs \in [1..prims -> Objs] /\ imageObjs \in [1..images -> Objs]
      BY <2>1
    <3>2. prims \in Nat
      BY <2>1
    <3>3. Len(primObjs \o imageObjs) = prims + images
      BY <1>1, <3>1, <3>2, JoinedLen
    <3> QED BY <2>1, <3>3, Zenon
  <2>5. \A r \in 1..prims : objs[r] = primObjs[r]
    BY <1>1, <2>1, Joined
  <2>6. \A r \in 1..(prims + images) :
            ~(r \in 1..prims) => r - prims \in 1..images /\ objs[r] = imageObjs[r - prims]
    BY <1>1, <2>1, Joined
  <2>7. spaces \in Seq(Maps)
    BY <1>1, <2>2, Joined
  <2>8. Len(spaces) = first + images
    BY <1>1, <2>2, Joined
  <2> QED BY <2>3, <2>4, <2>5, <2>6, <2>7, <2>8 DEF objs, spaces
<1>8. IsSequence(h.objs) /\ IsSequence(h.spaces)
  BY <1>7, SeqIsSequence
<1>9. Refs(h) = 1..(28 + images) /\ Spaces(h) = 1..(3 + images) /\ Len(h.objs) = 28 + images
  BY <1>7 DEF Refs, Spaces, prims, first
<1>10. 1..28 \subseteq Refs(h) /\ 1..3 \subseteq Spaces(h)
  BY <1>1, <1>9
<1>11. LoadedRefs(Programs[prog]) = Refs(h)
  BY <1>9, PrimitivesCount DEF LoadedRefs, images, Image
<1>12. \A i \in 1..images : Len(PrimitiveHeap.spaces) + i \in Spaces(h)
  <2>1. Len(primMaps) = first
    BY <1>6, FunctionIsSeq
  <2>2. Len(PrimitiveHeap.spaces) = 3
    BY <1>2, <2>1 DEF first
  <2> QED BY <1>1, <1>9, <2>2
<1>13. ASSUME NEW r \in Refs(h) PROVE ObjectOK(h, h.objs[r])
  <2>0. r \in 1..(prims + images)
    BY <1>9 DEF prims
  <2>1. CASE r \in 1..prims
    <3>1. h.objs[r] = primObjs[r] /\ r \in 1..28
      BY <1>7, <2>1 DEF prims
    <3> QED BY <1>5, <1>10, <3>1, PrimitiveObjectOK
  <2>2. CASE r \notin 1..prims
    <3> DEFINE i == r - prims
    <3>1. i \in 1..images /\ h.objs[r] = imageObjs[i]
      BY <1>7, <2>0, <2>2
    <3> HIDE DEF i
    <3>2. ObjectOK(h, ImageObject(i))
      BY <1>10, <1>11, <1>12, <3>1, ImageObjectOK DEF images
    <3> QED BY <1>5, <3>1, <3>2
  <2> QED BY <2>1, <2>2
<1>14. ASSUME NEW s \in Spaces(h) PROVE MapOK(h, h.spaces[s])
  <2>1. h.spaces[s] \in Maps
    BY <1>7, ElementOfSeq DEF Spaces
  <2> QED BY <2>1, EmptyMapOK DEF Maps
<1>15. h = [objs |-> h.objs, spaces |-> h.spaces]
  BY <1>2 DEF h
<1>16. Len(h.objs) >= Primitives
  BY <1>1, <1>9, PrimitivesCount
<1>17. HeapOK(h)
  BY <1>8, <1>13, <1>14, <1>15, <1>16 DEF HeapOK
<1> QED BY <1>11, <1>17 DEF h

-----------------------------------------------------------------------------
(***************************************************************************)
(* The theorems.                                                           *)
(***************************************************************************)
LEMMA InitOK == ASSUME Init PROVE IInv
<1>1. prog \in 1..Len(Programs) /\ IsProgram(Programs[prog])
  BY ProgramsAssumption DEF Init
<1>2. HeapOK(heap) /\ LoadedRefs(Programs[prog]) \subseteq Refs(heap)
  BY <1>1, LoadedHeapOK DEF Init
<1> DEFINE empty == <<>>
<1>3. empty \in Seq({}) /\ Len(empty) = 0
  OBVIOUS
<1>4. frames = empty /\ stdout = empty /\ modules = EmptyMap
  BY DEF Init
<1> HIDE DEF empty
<1>5. IsSequence(empty)
  BY <1>3, SeqIsSequence
<1>6. FramesOK(heap, frames)
  BY <1>3, <1>4, <1>5 DEF FramesOK
<1>7. modules \in [DOMAIN modules -> Spaces(heap)]
  BY <1>4 DEF EmptyMap
<1>8. queue \in Seq({"builtins", "__main__"}) /\ outcome \in Outcomes
  BY DEF Init, Outcomes
<1> QED BY <1>1, <1>2, <1>4, <1>5, <1>6, <1>7, <1>8 DEF IInv, RefsValid, TypeOK

LEMMA NextOK == ASSUME IInv, [Next]_vars PROVE IInv'
<1>1. CASE Step
  BY <1>1, StackStepOK, NameStepOK, JumpStepOK, BlockStepOK, CallStepOK, FailOK,
     StartModuleOK DEF Step
<1>2. CASE UNCHANGED vars
  BY <1>2, HaltedOK
<1> QED BY <1>1, <1>2 DEF Next, Halted

THEOREM Invariant == Spec => []IInv
<1>1. Init => IInv
  BY InitOK
<1>2. IInv /\ [Next]_vars => IInv'
  BY NextOK
<1> QED BY <1>1, <1>2, PTL DEF Spec

\* Whatever programs are given, the machine's state keeps its types.
THEOREM TypeCorrect == Spec => []TypeOK
<1>1. IInv => TypeOK
  BY DEF IInv
<1> QED BY <1>1, Invariant, PTL

\* Whatever programs are given, compiled or not, no reference in the store, in a
\* frame or in a block is ever dangling: no deref of the object store can fail.
THEOREM NoDanglingReference == Spec => []RefsValid
<1>1. IInv => RefsValid
  BY DEF IInv
<1> QED BY <1>1, Invariant, PTL

-----------------------------------------------------------------------------
(***************************************************************************)
(* The binding of arguments, from the instruction that calls a function to *)
(* the locals that the function starts with.                               *)
(***************************************************************************)
\* The arguments that the machine takes off the stack for a call.
TakenFor(args, keys, values, rest) ==
    /\ Arguments(heap, args, keys, values)
    /\ keys = KeyRefs /\ Len(keys) \in Nat /\ Positionals \in Nat
    /\ args = [i \in 1..Positionals |-> Positional(i)]
    /\ values = [j \in 1..Len(keys) |-> KeywordValue(j)]
    /\ rest = [Cur EXCEPT !.stack = SubSeq(Top.stack, 1, Below)]
    /\ FrameOK(heap, rest)
    /\ Callee \in Refs(heap)
    /\ Call(heap, With(rest), Callee, args, keys, values)

LEMMA PlainCallTakes ==
    ASSUME IInv, CallsFunction, CallFunction
    PROVE  \E args, keys, values, rest : TakenFor(args, keys, values, rest)
<1> DEFINE n == Arg
           m == n + 1
           d == Depth
           st == Top.stack
           noKeys == <<>>
           args == Slice(n, 0)
           rest == Drop(Cur, m)
<1>0. HeapOK(heap) /\ 0 \in Nat
  BY ExtendedHeap
<1>1. At("CallFunction")
  BY DEF CallFunction
<1>2. /\ frames # <<>> /\ Instr.op = "CallFunction" /\ n \in Nat
      /\ (Pops <= Depth \/ ~(Pops \in Int))
  BY <1>1, Checked
<1>3. Pops = n + 1
  BY <1>2 DEF Pops
<1>4. Call(heap, With(rest), Nth(n), args, noKeys, noKeys)
  BY DEF CallFunction
<1>5. d \in Nat /\ Cur.stack = st /\ FrameOK(heap, Cur) /\ d = Len(st)
  BY <1>2, TopOK DEF Depth
<1>6. KeyRefs = noKeys /\ noKeys \in Seq(Refs(heap)) /\ Len(noKeys) = 0 /\ Below = d - n - 1
  BY <1>2 DEF KeyRefs, HasKeywords, Below
<1> HIDE DEF n, d, noKeys
<1>7. n + 1 <= d /\ m \in Nat /\ n < d /\ n + 0 <= d
  BY <1>2, <1>3, <1>5 DEF d
<1>8. Nth(n) \in Refs(heap) /\ args \in Seq(Refs(heap)) /\ Len(args) = n
  BY <1>0, <1>2, <1>7, NthOK, SliceOK DEF d
<1>9. args = [i \in 1..n |-> st[d - 0 - n + i]]
  BY <1>0, <1>2, <1>7, SliceEntries DEF d
<1>10. Positionals = n
  BY <1>2, <1>6 DEF Positionals, n
<1>11. Nth(n) = Callee
  <2>1. d - n = Below + 1
    BY <1>2, <1>5, <1>6
  <2> QED BY <2>1 DEF Nth, Callee, d, Depth
<1>12. \A i \in 1..n : st[d - 0 - n + i] = Positional(i)
  <2> TAKE i \in 1..n
  <2>1. d - 0 - n + i = Below + 1 + i
    BY <1>2, <1>5, <1>6
  <2> QED BY <2>1 DEF Positional
<1>13. rest = [Cur EXCEPT !.stack = SubSeq(st, 1, Below)]
  <2>1. Below = Len(st) - m
    BY <1>2, <1>5, <1>6
  <2> HIDE DEF m
  <2> QED BY <1>5, <2>1 DEF Drop
<1>14. FrameOK(heap, rest)
  BY <1>5, <1>7, DropOK
<1>15. [j \in 1..Len(noKeys) |-> KeywordValue(j)] = noKeys
  BY <1>6 DEF noKeys
<1> HIDE DEF args, rest, st
<1>16. args = [i \in 1..Positionals |-> Positional(i)]
  BY <1>9, <1>10, <1>12
<1>17. Arguments(heap, args, noKeys, noKeys)
  BY <1>6, <1>8 DEF Arguments
<1>18. TakenFor(args, noKeys, noKeys, rest)
  BY <1>2, <1>4, <1>6, <1>8, <1>10, <1>11, <1>13, <1>14, <1>15, <1>16, <1>17 DEF TakenFor, st
<1> QED BY <1>18

LEMMA KeywordCallTakes ==
    ASSUME IInv, CallsFunction, CallFunctionKw
    PROVE  \E args, keys, values, rest : TakenFor(args, keys, values, rest)
<1> DEFINE keys == heap.objs[Nth(0)].content.refs
           n == Len(keys)
           a == Arg
           m == a + 2
           p == a - n
           d == Depth
           st == Top.stack
           args == Slice(p, n + 1)
           values == Slice(n, 1)
           rest == Drop(Cur, m)
<1>0. HeapOK(heap) /\ 0 \in Nat /\ 1 \in Nat
  BY ExtendedHeap
<1>1. At("CallFunctionKw")
  BY DEF CallFunctionKw
<1>2. /\ frames # <<>> /\ Instr.op = "CallFunctionKw" /\ a \in Nat
      /\ (Pops <= Depth \/ ~(Pops \in Int))
  BY <1>1, Checked
<1>3. Pops = 1
  BY <1>2 DEF Pops
<1>4. d \in Nat /\ Cur.stack = st /\ FrameOK(heap, Cur) /\ d = Len(st)
  BY <1>2, TopOK DEF Depth
<1>5. Nth(0) \in Refs(heap)
  BY <1>0, <1>2, <1>3, <1>4, NthOK
<1>6. keys \in Seq(Refs(heap)) /\ n \in Nat
  BY <1>0, <1>5, LenProperties DEF HeapOK, ObjectOK, ContentOK
<1>7. KeyRefs = keys /\ Below = d - a - 2 /\ Positionals = p
  BY <1>2 DEF KeyRefs, HasKeywords, Below, Positionals
<1>8. KindOf(heap, Nth(0)) = "Tuple" /\ n <= a /\ a + 2 <= d
  BY <1>2, <1>7 DEF CallsFunction, HasKeywords
<1>9. Call(heap, With(rest), Nth(a + 1), args, keys, values)
  <2> HIDE DEF n, a, p, keys, rest, args, values
  <2>1. ~(d - 1 < n) /\ ~(a < n) /\ ~(d < a + 2)
    BY <1>2, <1>4, <1>6, <1>8
  <2> QED BY <1>8, <2>1 DEF CallFunctionKw, keys, n, a, m, p, d, args, values, rest
<1> HIDE DEF keys, n, a, d
<1>10. /\ p \in Nat /\ n + 1 \in Nat /\ p + (n + 1) <= d
       /\ n + 1 <= d /\ a + 1 \in Nat /\ a + 1 < d /\ m \in Nat
  BY <1>2, <1>4, <1>6, <1>8
<1> HIDE DEF p
<1>11. Nth(a + 1) \in Refs(heap)
  BY <1>2, <1>10, NthOK DEF d
<1>12. /\ args \in Seq(Refs(heap))
       /\ args = [i \in 1..p |-> st[d - (n + 1) - p + i]]
  BY <1>2, <1>10, SliceOK, SliceEntries DEF d
<1>13. /\ values \in Seq(Refs(heap)) /\ Len(values) = n
       /\ values = [i \in 1..n |-> st[d - 1 - n + i]]
  BY <1>0, <1>2, <1>6, <1>10, SliceOK, SliceEntries DEF d
<1>14. Nth(a + 1) = Callee
  <2>1. d - (a + 1) = Below + 1
    BY <1>2, <1>4, <1>7
  <2> QED BY <2>1 DEF Nth, Callee, d, Depth
<1>15. \A i \in 1..p : st[d - (n + 1) - p + i] = Positional(i)
  <2> TAKE i \in 1..p
  <2>1. d - (n + 1) - p + i = Below + 1 + i
    BY <1>2, <1>4, <1>6, <1>7 DEF p
  <2> QED BY <2>1 DEF Positional
<1>16. \A j \in 1..n : st[d - 1 - n + j] = KeywordValue(j)
  <2> TAKE j \in 1..n
  <2>1. d - 1 - n + j = Below + 1 + Positionals + j
    BY <1>2, <1>4, <1>6, <1>7 DEF p
  <2> QED BY <2>1 DEF KeywordValue
<1>17. rest = [Cur EXCEPT !.stack = SubSeq(st, 1, Below)]
  <2>1. Below = Len(st) - m
    BY <1>2, <1>4, <1>7
  <2> HIDE DEF m
  <2> QED BY <1>4, <2>1 DEF Drop
<1>18. FrameOK(heap, rest)
  BY <1>4, <1>10, DropOK
<1> HIDE DEF args, values, rest, m, st
<1>19. args = [i \in 1..p |-> Positional(i)] /\ values = [j \in 1..n |-> KeywordValue(j)]
  BY <1>12, <1>13, <1>15, <1>16
<1>20. Arguments(heap, args, keys, values)
  BY <1>6, <1>12, <1>13 DEF Arguments, n
<1>21. TakenFor(args, keys, values, rest)
  BY <1>6, <1>7, <1>9, <1>10, <1>11, <1>14, <1>17, <1>18, <1>19, <1>20 DEF TakenFor, n, st
<1> QED BY <1>21


\* What the two instructions have in common.
LEMMA CallTakes ==
    ASSUME IInv, CallsFunction, CallFunction \/ CallFunctionKw
    PROVE  \E args, keys, values, rest : TakenFor(args, keys, values, rest)
BY PlainCallTakes, KeywordCallTakes

\* Where a function is about to be called, no other step is possible.
LEMMA OnlyCalls ==
    ASSUME CallsFunction, Next
    PROVE  CallFunction \/ CallFunctionKw
<1>1. Instr.op \in {"CallFunction", "CallFunctionKw"} /\ frames # <<>> /\ Fault = NoFault
      /\ outcome = "running" /\ WithinBounds
  BY DEF CallsFunction, Running
<1>2. ~Halted /\ ~StartModule /\ ~Fail
  BY <1>1 DEF Halted, StartModule, Fail
<1>3. StackStep => \E op \in {"PushImmediate", "PopTop", "DupTop", "Nop", "LoadConst",
                              "BuildTuple", "BuildConstKeyMap"} : Instr.op = op
  BY DEF StackStep, PushImmediate, PopTop, DupTop, Nop, LoadConst, BuildTuple,
     BuildConstKeyMap, At
<1>4. NameStep => \E op \in {"StoreName", "StoreFast", "LoadFast", "StoreGlobal", "LoadName",
                             "LoadGlobal", "LoadAttr", "StoreAttr"} : Instr.op = op
  BY DEF NameStep, StoreName, StoreFast, LoadFast, StoreGlobal, LoadName, LoadGlobal,
     LoadAttr, StoreAttr, At
<1>5. JumpStep => \E op \in {"BinarySubscr", "CompareOp", "JumpAbsolute", "JumpForward",
                             "PopJumpIfFalse"} : Instr.op = op
  BY DEF JumpStep, BinarySubscr, CompareOp, JumpAbsolute, JumpForward, PopJumpIfFalse, At
<1>6. BlockStep => \E op \in {"SetupLoop", "SetupExcept", "PopBlock", "GetIter", "ForIter",
                              "PopExcept", "EndFinally", "RaiseVarargs"} : Instr.op = op
  BY DEF BlockStep, SetupLoop, SetupExcept, PopBlock, GetIter, ForIter, PopExcept,
     EndFinally, RaiseVarargs, At
<1>7. CallStep => \/ \E op \in {"LoadBuildClass", "MakeFunction", "ReturnValue"} : Instr.op = op
                  \/ CallFunction \/ CallFunctionKw
  BY DEF CallStep, LoadBuildClass, MakeFunction, ReturnValue, At
<1> QED BY <1>1, <1>2, <1>3, <1>4, <1>5, <1>6, <1>7 DEF Next, Step

\* The callee's signature is that of a code object of the program.
LEMMA SignatureOK ==
    ASSUME IInv, CallsFunction, Callee \in Refs(heap), Len(KeyRefs) \in Nat
    PROVE  /\ IsCode(Programs[prog], Signature)
           /\ Len(Signature.varnames) \in Nat
           /\ MapOK(heap, DefaultsMap)
           /\ Keywords(Signature) = {Parameter(i) : i \in KeywordOnlyOnes}
           /\ Remaining(Signature, heap, KeyRefs) = Surplus
           /\ StarArgs(Signature) = StarAt
<1> DEFINE id == heap.objs[CalleeCode].content.num
           c == Signature
<1>1. HeapOK(heap) /\ heap.objs[Callee].content.kind = "Function"
      /\ KindOf(heap, CalleeCode) = "Code"
  BY ExtendedHeap DEF CallsFunction, KindOf
<1>2. id \in 1..Len(Code) /\ MapOK(heap, DefaultsMap)
  BY <1>1, FunctionCode DEF CalleeCode, DefaultsMap
<1>3. IsCode(Programs[prog], c)
  BY <1>2, CodeLoaded DEF Signature
<1> HIDE DEF c
<1>4. c.argcount \in Nat /\ c.kwonlyargcount \in Nat /\ Len(c.varnames) \in Nat
  BY <1>3, SequenceLen DEF IsCode
<1>5. (c.argcount + 1)..(c.argcount + c.kwonlyargcount) = KeywordOnlyOnes
  BY <1>4 DEF KeywordOnlyOnes, StarAt, c
<1>6. Keywords(c) = {Parameter(i) : i \in KeywordOnlyOnes}
  BY <1>5 DEF Keywords, Parameter, c
<1>7. Remaining(c, heap, KeyRefs) = Surplus
  BY <1>6 DEF Remaining, Surplus, Given, KeyText
<1> QED BY <1>2, <1>3, <1>4, <1>6, <1>7 DEF c, StarArgs, StarAt

LEMMA CallsCode ==
    ASSUME CallsFunction, NEW args, NEW keys, NEW values, NEW rest,
           TakenFor(args, keys, values, rest)
    PROVE  CallCode(heap, With(rest), Callee, args, keys, values)
BY DEF TakenFor, Call, CallsFunction, KindOf, CalleeCode

\* A call that the function has no room for is one that cannot be bound.
LEMMA NoRoom ==
    ASSUME IInv, CallsFunction, ~HasRoom, NEW args, NEW keys, NEW values, NEW rest,
           TakenFor(args, keys, values, rest)
    PROVE  Panic("panic")
<1> DEFINE c == Signature
           n == Positionals
<1>1. /\ args \in Seq(Refs(heap)) /\ keys = KeyRefs /\ Len(keys) \in Nat /\ n \in Nat
      /\ Callee \in Refs(heap) /\ args = [i \in 1..n |-> Positional(i)]
  BY DEF TakenFor, Arguments
<1>2. /\ IsCode(Programs[prog], c) /\ Remaining(c, heap, keys) = Surplus
  BY <1>1, SignatureOK
<1>3. Len(args) = n
  <2> HIDE DEF n
  <2>1. Len(args) \in Nat /\ DOMAIN args = 1..Len(args) /\ DOMAIN args = 1..n
    BY <1>1, LenProperties
  <2> QED BY <1>1, <2>1
<1> HIDE DEF c, n
<1>4. c.argcount \in Nat /\ c.varargs \in BOOLEAN /\ c.varkwargs \in BOOLEAN
  BY <1>2 DEF IsCode
<1>5. \/ c.varargs /\ c.argcount > Len(args)
      \/ ~c.varargs /\ c.argcount # Len(args)
      \/ ~c.varkwargs /\ Remaining(c, heap, keys) # {}
  <2>1. ~(n = c.argcount \/ (c.varargs /\ n > c.argcount)) \/ (~c.varkwargs /\ Surplus # {})
    BY DEF HasRoom, c, n
  <2>2. ASSUME ~(n = c.argcount \/ (c.varargs /\ n > c.argcount))
        PROVE  (c.varargs /\ c.argcount > n) \/ (~c.varargs /\ c.argcount # n)
    <3>1. n # c.argcount /\ (c.varargs => ~(n > c.argcount))
      BY <2>2
    <3>2. ~(n > c.argcount) => c.argcount > n
      BY <1>1, <1>4, <3>1
    <3> QED BY <3>1, <3>2, Zenon
  <2> QED BY <1>2, <1>3, <2>1, <2>2
<1>6. Unbindable(c, heap, DefaultsMap, args, keys)
  BY <1>5 DEF Unbindable
<1>7. CallCode(heap, With(rest), Callee, args, keys, values)
  BY CallsCode
<1> QED BY <1>6, <1>7 DEF CallCode, c, Signature, CalleeCode, DefaultsMap


\* A call of a well-formed function that Python accepts.
AcceptedCall ==
    /\ CallsFunction /\ WellFormed /\ Accepted
    /\ Signature.varkwargs => Signature.varargs

\* What the signature, the operands and the defaults are like in such a call.
LEMMA AcceptedParts ==
    ASSUME IInv, AcceptedCall, NEW args, NEW keys, NEW values, NEW rest,
           TakenFor(args, keys, values, rest)
    PROVE  /\ Distinct(Signature, Last)
           /\ Signature.varargs \in BOOLEAN /\ Signature.varkwargs \in BOOLEAN
           /\ MapOK(heap, DefaultsMap)
           /\ DOMAIN DefaultsMap \subseteq Keywords(Signature)
           /\ Keywords(Signature) = {Parameter(i) : i \in KeywordOnlyOnes}
           /\ Remaining(Signature, heap, KeyRefs) = Surplus
           /\ StarArgs(Signature) = StarAt
           /\ Signature.varkwargs => StarKwargs(Signature) = StarStarAt
           /\ Len(args) = Positionals /\ Signature.argcount <= Positionals
           /\ ~Signature.varargs => Signature.argcount = Positionals
<1> DEFINE c == Signature
           n == Positionals
           last == Last
<1>1. /\ args \in Seq(Refs(heap)) /\ keys = KeyRefs /\ Len(keys) \in Nat /\ n \in Nat
      /\ Callee \in Refs(heap) /\ args = [i \in 1..n |-> Positional(i)]
  BY DEF TakenFor, Arguments
<1>2. /\ CallsFunction /\ WellFormed /\ Accepted /\ HasRoom
      /\ c.varkwargs => c.varargs
  BY DEF AcceptedCall, Accepted
<1>3. /\ IsCode(Programs[prog], c) /\ Remaining(c, heap, KeyRefs) = Surplus
      /\ Len(c.varnames) \in Nat
      /\ MapOK(heap, DefaultsMap)
      /\ Keywords(c) = {Parameter(i) : i \in KeywordOnlyOnes}
      /\ StarArgs(c) = StarAt
  BY <1>1, <1>2, SignatureOK
<1>4. Len(args) = n
  <2> HIDE DEF n
  <2>1. Len(args) \in Nat /\ DOMAIN args = 1..Len(args) /\ DOMAIN args = 1..n
    BY <1>1, LenProperties
  <2> QED BY <1>1, <2>1
<1>5. DOMAIN DefaultsMap \subseteq Keywords(c)
  BY <1>2, <1>3 DEF WellFormed
<1>6. last <= Len(c.varnames) /\ \A i, j \in 1..last : c.varnames[i] = c.varnames[j] => i = j
  BY <1>2 DEF WellFormed, Parameter
<1>7. (n = c.argcount \/ (c.varargs /\ n > c.argcount))
  BY <1>2 DEF HasRoom
<1>8. last = IF c.varkwargs THEN StarStarAt ELSE StarStarAt - 1
  BY DEF Last
<1>9. StarStarAt = StarAt + (IF c.varargs THEN 1 ELSE 0) /\ StarAt = c.argcount + c.kwonlyargcount + 1
  BY DEF StarStarAt, StarAt
<1> HIDE DEF c, n, last
<1>10. /\ c.argcount \in Nat /\ c.kwonlyargcount \in Nat
       /\ c.varargs \in BOOLEAN /\ c.varkwargs \in BOOLEAN
  BY <1>3 DEF IsCode
<1>11. c.argcount <= n /\ (~c.varargs => c.argcount = n)
  BY <1>1, <1>7, <1>10
<1>12. /\ last \in Nat
       /\ last = c.argcount + c.kwonlyargcount + (IF c.varargs THEN 1 ELSE 0)
                                               + (IF c.varkwargs THEN 1 ELSE 0)
  BY <1>8, <1>9, <1>10
<1>13. Distinct(c, last)
  BY <1>3, <1>6, <1>10, <1>12 DEF Distinct
<1>14. c.varkwargs => StarKwargs(c) = StarStarAt
  BY <1>2, <1>3, <1>9, <1>10 DEF StarKwargs
<1> QED BY <1>3, <1>4, <1>5, <1>10, <1>11, <1>13, <1>14 DEF c, n, last

LEMMA Bindable ==
    ASSUME IInv, AcceptedCall, NEW args, NEW keys, NEW values, NEW rest,
           TakenFor(args, keys, values, rest)
    PROVE  ~Unbindable(Signature, heap, DefaultsMap, args, keys)
<1> DEFINE c == Signature
           d == DefaultsMap
           last == Last
<1>1. keys = KeyRefs /\ Len(keys) \in Nat /\ Len(args) \in Nat
  BY LenProperties DEF TakenFor, Arguments
<1>2. /\ Distinct(c, last) /\ c.varargs \in BOOLEAN /\ c.varkwargs \in BOOLEAN
      /\ DOMAIN d \subseteq Keywords(c) /\ Remaining(c, heap, keys) = Surplus
      /\ c.argcount <= Len(args) /\ (~c.varargs => c.argcount = Len(args))
  BY <1>1, AcceptedParts
<1>3. Strings(heap, keys)
  BY <1>1 DEF AcceptedCall, CallsFunction, KeyRefs, Strings
<1>4. (c.varkwargs \/ Surplus = {}) /\ (c.varkwargs => c.varargs)
  BY DEF AcceptedCall, Accepted, HasRoom
<1> HIDE DEF c, d, last
<1>5. c.varargs => StarArgs(c) \in 1..last /\ ~(StarArgs(c) > Len(c.varnames))
  BY <1>2 DEF Distinct, StarArgs
<1>6. c.varkwargs => ~(StarKwargs(c) > Len(c.varnames))
  BY <1>2, <1>4 DEF Distinct, StarKwargs, StarArgs
<1>7. ~(c.argcount + c.kwonlyargcount > Len(c.varnames)) /\ ~(c.argcount > Len(args))
  BY <1>2 DEF Distinct
<1>8. c.varargs => c.varnames[StarArgs(c)] \notin DOMAIN d
  <2> SUFFICES ASSUME c.varargs, NEW i \in (c.argcount + 1)..(c.argcount + c.kwonlyargcount)
               PROVE  c.varnames[StarArgs(c)] # c.varnames[i]
    BY <1>2 DEF Keywords
  <2>1. i \in 1..last /\ i # StarArgs(c)
    BY <1>2 DEF Distinct, StarArgs
  <2> QED BY <1>2, <1>5, <2>1 DEF Distinct
<1>9. ~Unbindable(c, heap, d, args, keys)
  BY <1>2, <1>3, <1>4, <1>5, <1>6, <1>7, <1>8, ZenonT(30) DEF Unbindable
<1> QED BY <1>9 DEF c, d


\* The locals that an accepted call starts with.
LEMMA LocalsBound ==
    ASSUME IInv, AcceptedCall, NEW args, NEW keys, NEW values, NEW rest,
           TakenFor(args, keys, values, rest),
           NEW order \in [1..Cardinality(Surplus) -> Surplus], IsOrdering(order, Surplus)
    PROVE  LET h == BindArguments(Signature, heap, DefaultsMap, args, keys, values, order)
           IN  Binds(h, h.spaces[Len(h.spaces)])
<1> DEFINE c == Signature
           n == Cardinality(Surplus)
           h == BindArguments(c, heap, DefaultsMap, args, keys, values, order)
           locals == h.spaces[Len(h.spaces)]
           positional == SubSeq(args, 1, c.argcount)
           extra == SubSeq(args, c.argcount + 1, Len(args))
           texts == Texts(heap, keys)
           first == MapOf(c.varnames, positional)
           given == MapOf(texts, values)
           p == Positionals
           s == StarAt
           t == StarStarAt
<1>1. /\ args \in Seq(Refs(heap)) /\ keys \in Seq(Refs(heap)) /\ values \in Seq(Refs(heap))
      /\ Len(values) = Len(keys) /\ keys = KeyRefs /\ Len(keys) \in Nat /\ p \in Nat
      /\ args = [i \in 1..p |-> Positional(i)]
      /\ values = [j \in 1..Len(keys) |-> KeywordValue(j)]
      /\ HeapOK(heap)
  BY ExtendedHeap DEF TakenFor, Arguments
<1>2. /\ Distinct(c, Last) /\ c.varargs \in BOOLEAN /\ c.varkwargs \in BOOLEAN
      /\ MapOK(heap, DefaultsMap) /\ DOMAIN DefaultsMap \subseteq Keywords(c)
      /\ Keywords(c) = {Parameter(i) : i \in KeywordOnlyOnes}
      /\ Len(args) = p /\ c.argcount <= p
      /\ StarArgs(c) = s /\ (c.varkwargs => StarKwargs(c) = t)
  BY AcceptedParts
<1>3. (c.varkwargs => c.varargs) /\ WellFormed /\ Accepted
  BY DEF AcceptedCall
<1>4. c.argcount \in Nat /\ Len(c.varnames) \in Nat /\ c.argcount <= Len(c.varnames)
      /\ c.argcount <= Last /\ Last \in Nat
  <2> HIDE DEF c
  <2> QED BY <1>2 DEF Distinct
<1>5. Surplus \subseteq 1..Len(keys) /\ n \in Nat
  <2>1. Surplus \subseteq 1..Len(keys)
    BY <1>1 DEF Surplus, Given
  <2>2. IsFiniteSet(1..Len(keys))
    BY <1>1, FS_Interval, SMT
  <2> QED BY <2>1, <2>2, FS_Subset, FS_CardinalityType
<1>6. order \in [1..n -> 1..Len(keys)] /\ DOMAIN order = 1..n
  BY <1>5
<1> HIDE DEF c, n, p, s, t
<1>7. positional = [i \in 1..c.argcount |-> Positional(i)] /\ Len(positional) = c.argcount
  <2>1. Len(positional) = c.argcount
    BY <1>1, <1>2, <1>4, PrefixProperties
  <2>2. positional = [i \in 1..c.argcount |-> args[i]]
    <3>1. 1 \in Nat \ {0} /\ c.argcount \in Int /\ c.argcount <= Len(args) /\ 1 <= c.argcount + 1
      BY <1>2, <1>4
    <3>2. positional = [i \in 1..(c.argcount - 1 + 1) |-> args[1 - 1 + i]]
      BY <1>1, <3>1, SubSeqEntries
    <3>3. c.argcount - 1 + 1 = c.argcount /\ \A i \in 1..c.argcount : 1 - 1 + i = i
      BY <1>4
    <3> QED BY <3>2, <3>3
  <2>3. \A i \in 1..c.argcount : i \in 1..p
    BY <1>1, <1>2, <1>4
  <2> QED BY <1>1, <2>1, <2>2, <2>3
<1>8. extra = [i \in 1..(p - c.argcount) |-> Positional(c.argcount + i)]
  <2>1. /\ c.argcount + 1 \in Nat \ {0} /\ p \in Int /\ p <= Len(args)
        /\ c.argcount + 1 <= p + 1
    BY <1>1, <1>2, <1>4
  <2>2. extra = [i \in 1..(p - (c.argcount + 1) + 1) |-> args[(c.argcount + 1) - 1 + i]]
    <3> DEFINE m == c.argcount + 1
    <3>1. m \in Nat \ {0} /\ p \in Int /\ p <= Len(args) /\ m <= p + 1 /\ extra = SubSeq(args, m, p)
      BY <1>2, <2>1
    <3> HIDE DEF m, extra
    <3>2. extra = [i \in 1..(p - m + 1) |-> args[m - 1 + i]]
      BY <1>1, <3>1, SubSeqEntries
    <3> QED BY <3>2 DEF m
  <2>3. p - (c.argcount + 1) + 1 = p - c.argcount
    BY <1>1, <1>4
  <2>4. \A i \in 1..(p - c.argcount) :
            (c.argcount + 1) - 1 + i = c.argcount + i /\ c.argcount + i \in 1..p
    BY <1>1, <1>4
  <2> HIDE DEF extra
  <2> QED BY <1>1, <2>2, <2>3, <2>4
<1>9. PICK one, two :
        /\ c.varargs => h.objs[one].content = TupleOf(extra)
        /\ c.varkwargs => h.objs[two].content
                            = DictOf(Taken(keys, n, order), Taken(values, n, order))
        /\ locals = LocalsOf(c, first, given, DefaultsMap, one, two)
  <2> DEFINE dm == DefaultsMap
  <2>1. c.argcount <= Len(args) /\ MapOK(heap, dm)
    BY <1>2
  <2> HIDE DEF dm
  <2>2. \E one, two : FillsLocals(c, heap, BindArguments(c, heap, dm, args, keys, values, order),
                                  dm, args, keys, values, n, order, one, two)
    BY <1>1, <1>4, <1>5, <1>6, <2>1, BindArgumentsMakes
  <2> QED BY <2>2 DEF FillsLocals, dm
<1> HIDE DEF h, locals, positional, extra
<1>10. /\ DOMAIN first = FirstOf(c.varnames, c.argcount)
       /\ \A i \in 1..c.argcount : first[c.varnames[i]] = Positional(i)
  <2>1. \A i, j \in 1..c.argcount : c.varnames[i] = c.varnames[j] => i = j
    BY <1>2, <1>4 DEF Distinct
  <2>2. \A i \in 1..c.argcount : positional[i] = Positional(i)
    BY <1>7
  <2> DEFINE m == c.argcount
             names == c.varnames
  <2>3. /\ Len(names) \in Nat /\ Len(positional) \in Nat /\ m \in Nat
        /\ m <= Len(names) /\ m <= Len(positional) /\ m = Len(positional)
        /\ \A i, j \in 1..m : names[i] = names[j] => i = j
    BY <1>4, <1>7, <2>1
  <2>4. first = MapOf(names, positional)
    OBVIOUS
  <2> HIDE DEF m, names, first
  <2>5. /\ DOMAIN MapOf(names, positional) = FirstOf(names, m)
        /\ \A i \in 1..m : MapOf(names, positional)[names[i]] = positional[i]
    BY <2>3, MapOfDistinct
  <2> QED BY <2>2, <2>4, <2>5 DEF m, names
<1>11. /\ Len(texts) = Len(keys) /\ \A j \in Given : texts[j] = KeyText(j)
  <2>1. texts = [j \in 1..Len(keys) |-> KeyText(j)]
    BY <1>1 DEF Texts, KeyText
  <2>2. texts \in [1..Len(keys) -> {KeyText(j) : j \in 1..Len(keys)}]
    BY <2>1
  <2> HIDE DEF texts
  <2>3. Len(texts) = Len(keys)
    BY <1>1, <2>2, FunctionIsSeq
  <2> QED BY <1>1, <2>1, <2>3 DEF Given
<1> HIDE DEF texts, first
<1>12. /\ DOMAIN given = {KeyText(j) : j \in Given}
       /\ \A j \in Given : given[KeyText(j)] = KeywordValue(j)
  <2>1. \A i, j \in 1..Len(keys) : texts[i] = texts[j] => i = j
    BY <1>1, <1>3, <1>11 DEF WellFormed, Given
  <2> DEFINE m == Len(keys)
  <2>2. /\ Len(texts) \in Nat /\ Len(values) \in Nat /\ m \in Nat
        /\ m <= Len(texts) /\ m <= Len(values) /\ m = Len(values)
        /\ \A i, j \in 1..m : texts[i] = texts[j] => i = j
    BY <1>1, <1>11, <2>1
  <2>3. given = MapOf(texts, values) /\ Given = 1..m
    BY <1>1 DEF Given
  <2>4. \A j \in 1..m : values[j] = KeywordValue(j)
    BY <1>1
  <2> HIDE DEF m, given
  <2>5. /\ DOMAIN MapOf(texts, values) = FirstOf(texts, m)
        /\ \A j \in 1..m : MapOf(texts, values)[texts[j]] = values[j]
    BY <2>2, MapOfDistinct
  <2>6. \A j \in 1..m : texts[j] = KeyText(j)
    BY <1>11, <2>3
  <2> QED BY <2>3, <2>4, <2>5, <2>6 DEF FirstOf
<1> HIDE DEF given
<1>13. \A x \in Keywords(c) : x \in DOMAIN DefaultsMap \/ x \in DOMAIN given
  BY <1>2, <1>3, <1>12 DEF Accepted
<1>14. /\ DOMAIN locals = FirstOf(c.varnames, Last)
       /\ \A x \in DOMAIN first : locals[x] = first[x]
       /\ \A x \in Keywords(c) :
            locals[x] = IF x \in DOMAIN given THEN given[x] ELSE DefaultsMap[x]
       /\ c.varargs => locals[c.varnames[s]] = one
       /\ c.varkwargs => locals[c.varnames[t]] = two
  <2> DEFINE last == Last
             dm == DefaultsMap
  <2>3. /\ DOMAIN dm \subseteq Keywords(c)
        /\ \A x \in Keywords(c) : x \in DOMAIN dm \/ x \in DOMAIN given
    BY <1>2, <1>13
  <2>4. locals = LocalsOf(c, first, given, dm, one, two)
    BY <1>9
  <2> HIDE DEF last, dm, first, given
  <2>5. /\ DOMAIN locals = FirstOf(c.varnames, last)
        /\ \A x \in DOMAIN first : locals[x] = first[x]
        /\ \A x \in Keywords(c) : locals[x] = IF x \in DOMAIN given THEN given[x] ELSE dm[x]
        /\ c.varargs => locals[c.varnames[StarArgs(c)]] = one
        /\ c.varkwargs => locals[c.varnames[StarKwargs(c)]] = two
    <3>1. Distinct(c, last) /\ c.varargs \in BOOLEAN /\ c.varkwargs \in BOOLEAN
          /\ (c.varkwargs => c.varargs)
      BY <1>2, <1>3 DEF last
    <3>2. DOMAIN first = FirstOf(c.varnames, c.argcount)
      BY <1>10
    <3> QED BY <2>3, <2>4, <3>1, <3>2, LocalsFilled
  <2> QED BY <1>2, <2>5 DEF last, dm
<1>15. Parameter(s) = c.varnames[s] /\ Parameter(t) = c.varnames[t]
       /\ \A i : Parameter(i) = c.varnames[i]
  BY DEF Parameter, c
<1>16. \A i \in PositionalOnes : locals[Parameter(i)] = Positional(i)
  BY <1>10, <1>14, <1>15 DEF PositionalOnes, c, FirstOf
<1>17. ASSUME NEW i \in KeywordOnlyOnes
       PROVE  \/ \E j \in Given : /\ KeyText(j) = Parameter(i)
                                  /\ locals[Parameter(i)] = KeywordValue(j)
              \/ /\ \A j \in Given : KeyText(j) # Parameter(i)
                 /\ locals[Parameter(i)] = DefaultsMap[Parameter(i)]
  <2> DEFINE x == Parameter(i)
  <2>1. locals[x] = IF x \in DOMAIN given THEN given[x] ELSE DefaultsMap[x]
    BY <1>2, <1>14
  <2> HIDE DEF x
  <2> QED BY <1>12, <2>1 DEF x
<1>18. c.varargs => h.objs[locals[Parameter(s)]].content
            = TupleOf([i \in 1..(p - c.argcount) |-> Positional(c.argcount + i)])
  BY <1>8, <1>9, <1>14, <1>15
<1>19. c.varkwargs => h.objs[locals[Parameter(t)]].content
            = DictOf([k \in DOMAIN order |-> KeyRefs[order[k]]],
                     [k \in DOMAIN order |-> KeywordValue(order[k])])
  <2>1. \A k \in 1..n : values[order[k]] = KeywordValue(order[k])
    BY <1>1, <1>6
  <2> QED BY <1>1, <1>6, <1>9, <1>14, <1>15, <2>1 DEF Taken
<1>20. Binds(h, locals)
  <2>1. DOMAIN locals = {Parameter(i) : i \in 1..Last}
    BY <1>14, <1>15 DEF FirstOf
  <2>2. c.varkwargs =>
          /\ order \in [1..Cardinality(Surplus) -> Surplus] /\ IsOrdering(order, Surplus)
          /\ h.objs[locals[Parameter(StarStarAt)]].content
                = DictOf([k \in DOMAIN order |-> KeyRefs[order[k]]],
                         [k \in DOMAIN order |-> KeywordValue(order[k])])
    BY <1>19 DEF t
  <2>3. c.varargs => h.objs[locals[Parameter(StarAt)]].content
            = TupleOf([i \in 1..(Positionals - c.argcount) |-> Positional(c.argcount + i)])
    BY <1>18 DEF p, s
  <2> QED BY <1>16, <1>17, <2>1, <2>2, <2>3, Zenon DEF Binds, c
<1> QED BY <1>20 DEF h, locals, c


\* An accepted call starts the function, with its parameters bound.
LEMMA AcceptedStarts ==
    ASSUME IInv, AcceptedCall, NEW args, NEW keys, NEW values, NEW rest,
           TakenFor(args, keys, values, rest)
    PROVE  /\ Starts(frames')
           /\ Binds(heap', heap'.spaces[frames'[Len(frames')].locals])
<1> DEFINE c == Signature
           id == heap.objs[CalleeCode].content.num
           n == Len(frames)
<1>1. keys = KeyRefs /\ Len(keys) \in Nat /\ rest = [Cur EXCEPT !.stack = SubSeq(Top.stack, 1, Below)]
  BY DEF TakenFor
<1>2. CallCode(heap, With(rest), Callee, args, keys, values)
  BY CallsCode DEF AcceptedCall
<1>3. ~Unbindable(c, heap, DefaultsMap, args, keys)
  BY Bindable
<1>4. Remaining(c, heap, keys) = Surplus
  BY <1>1, AcceptedParts
<1>5. PICK order \in [1..Cardinality(Surplus) -> Surplus] :
        /\ IsOrdering(order, Surplus)
        /\ LET h == BindArguments(c, heap, DefaultsMap, args, keys, values, order)
           IN  Continue(h, Append(With(rest),
                                  NewFrame(Callee, id, c.instructions, Len(h.spaces))))
  BY <1>2, <1>3, <1>4 DEF CallCode, Signature, CalleeCode, DefaultsMap
<1> DEFINE h == BindArguments(c, heap, DefaultsMap, args, keys, values, order)
           m == Len(h.spaces)
           frame == NewFrame(Callee, id, c.instructions, m)
           fs == With(rest)
<1>6. heap' = h /\ frames' = Append(fs, frame)
  BY <1>5 DEF Continue
<1>7. Binds(h, h.spaces[m])
  BY <1>5, LocalsBound
<1>8. IsSequence(frames) /\ frames # <<>>
  BY DEF IInv, RefsValid, FramesOK, AcceptedCall, CallsFunction, Running
<1> HIDE DEF h, id, m
<1>9. frame.locals = m /\ frame.object = Callee /\ frame.instructions = c.instructions
      /\ frame.pc = 0 /\ frame.stack = <<>> /\ frame.blocks = <<>>
  BY DEF NewFrame
<1> HIDE DEF frame, c
<1>10. IsSequence(fs) /\ Len(fs) = n /\ n \in Nat \ {0} /\ fs[n] = rest
  <2>1. Len(frames) \in 1..Len(frames) /\ Len(frames) \in Nat
    BY <1>8, FramesLen DEF IInv, RefsValid
  <2>2. fs = [frames EXCEPT ![Len(frames)] = rest]
    BY DEF With
  <2> HIDE DEF fs, n
  <2>3. IsSequence(fs)
    BY <1>8, <2>1, <2>2, LastReplaced
  <2>4. Len(fs) = Len(frames)
    BY <1>8, <2>1, <2>2, LastReplaced
  <2>5. \A i \in 1..Len(frames) : fs[i] = IF i = Len(frames) THEN rest ELSE frames[i]
    BY <1>8, <2>1, <2>2, LastReplaced
  <2>6. Len(frames) # 0
    BY <2>1
  <2> QED BY <2>1, <2>3, <2>4, <2>5, <2>6 DEF n
<1> HIDE DEF fs, n
<1>11. /\ Len(frames') = n + 1 /\ frames'[n] = rest /\ frames'[n + 1] = frame
  BY <1>6, <1>10, AppendSequence
<1>12. Starts(frames')
  BY <1>1, <1>9, <1>11 DEF Starts, n, c
<1>13. frames'[Len(frames')].locals = m
  BY <1>9, <1>11
<1> QED BY <1>6, <1>7, <1>12, <1>13

\* Whatever programs are given, a call that Python accepts of a function whose
\* code a compiler may have made starts it, each parameter bound as Python does:
\* the four sources of call_function's map neither overwrite nor miss a name.
THEOREM CallsBind == Spec => CallsBindLikePython
<1>1. IInv /\ [Next]_vars => [CallsFunction /\ WellFormed /\ Accepted
                              /\ (Signature.varkwargs => Signature.varargs)
         => /\ Starts(frames')
            /\ Binds(heap', heap'.spaces[frames'[Len(frames')].locals])]_vars
  <2> SUFFICES ASSUME IInv, Next, AcceptedCall
               PROVE  /\ Starts(frames')
                      /\ Binds(heap', heap'.spaces[frames'[Len(frames')].locals])
    BY DEF AcceptedCall
  <2>1. CallsFunction
    BY DEF AcceptedCall
  <2>2. \E args, keys, values, rest : TakenFor(args, keys, values, rest)
    BY <2>1, OnlyCalls, CallTakes
  <2> QED BY <2>2, AcceptedStarts
<1> QED BY <1>1, Invariant, PTL DEF Spec, CallsBindLikePython

\* Whatever programs are given, a function never starts with an argument that
\* none of its parameters takes: call_function panics instead.
THEOREM CallsRefuse == Spec => CallsRefuseExtraArguments
<1>1. IInv /\ [Next]_vars
        => [CallsFunction /\ ~HasRoom => frames' = frames /\ outcome' = "panic"]_vars
  <2> SUFFICES ASSUME IInv, Next, CallsFunction, ~HasRoom
               PROVE  frames' = frames /\ outcome' = "panic"
    OBVIOUS
  <2>1. \E args, keys, values, rest : TakenFor(args, keys, values, rest)
    BY OnlyCalls, CallTakes
  <2>2. Panic("panic")
    BY <2>1, NoRoom
  <2> QED BY <2>2 DEF Panic
<1> QED BY <1>1, Invariant, PTL DEF Spec, CallsRefuseExtraArguments

=============================================================================
