--------------------------- MODULE DecoderProofs ----------------------------
(***************************************************************************)
(* The decoder gives CPython's reading of every code, for bytes of any     *)
(* size, and short relative jumps land where CPython's do.                 *)
(***************************************************************************)
EXTENDS Decoder, TLAPS

LEMMA InitTypeOK == ASSUME Init PROVE TypeOK /\ SlotsAccountFor
<1>1. code \in Seq(Unit)
  BY CodesAssumption DEF Init
<1>2. 0 \in 0..Len(code)
  BY <1>1
<1> DEFINE Inst == [op : Opcodes \cup {"Nop"}, arg : Nat]
<1>3. <<>> \in Seq(Inst) /\ Len(<<>>) = 0
  OBVIOUS
<1>4. SlotsAccountFor
  BY <1>3 DEF Init, SlotsAccountFor
<1>5. TypeOK
  BY <1>2, <1>3 DEF Init, TypeOK
<1> QED BY <1>4, <1>5

\* The unit at hand, and the argument that it completes.
LEMMA ByteOK ==
    ASSUME TypeOK, More
    PROVE  /\ pos + 1 \in 1..Len(code) /\ Len(code) \in Nat
           /\ Byte \in Unit
           /\ Byte.arg # Missing => Wide \in Nat
<1>1. code \in Seq(Unit) /\ pos \in Nat /\ pos < Len(code) /\ oparg \in Nat /\ Base \in Nat
  BY CodesAssumption DEF TypeOK, More
<1>2. pos + 1 \in 1..Len(code) /\ Len(code) \in Nat
  BY <1>1
<1>3. Byte \in Unit
  BY <1>1, <1>2 DEF Byte
<1>4. ASSUME Byte.arg # Missing PROVE Wide \in Nat
  <2>1. Byte.arg \in Nat
    BY <1>1, <1>3, <1>4 DEF Unit
  <2>2. oparg * Base \in Nat
    BY <1>1, SMT
  <2> QED BY <2>1, <2>2 DEF Wide
<1> QED BY <1>2, <1>3, <1>4

LEMMA InstructionTyped ==
    ASSUME NEW op \in Opcodes, NEW arg \in Nat
    PROVE  /\ InstructionOf(op, arg) \in [op : Opcodes \cup {"Nop"}, arg : Nat]
           /\ InstructionOf(op, arg).op = op
           /\ Operand(InstructionOf(op, arg)) = Significant(op, arg)
<1>1. arg % 16 \in Nat
  OBVIOUS
<1>2. Significant(op, arg) \in Nat /\ (op \in Adjusted => Significant(op, arg) = arg)
  BY <1>1 DEF Significant, Adjusted
<1> QED BY <1>2 DEF InstructionOf, Instruction, Operand

LEMMA NextTypeOK ==
    ASSUME TypeOK, SlotsAccountFor, [Next]_vars
    PROVE  TypeOK' /\ SlotsAccountFor'
<1> DEFINE Insts == Seq([op : Opcodes \cup {"Nop"}, arg : Nat])
<1>1. CASE Filler
  <2>1. Nop \in [op : Opcodes \cup {"Nop"}, arg : Nat]
    BY DEF Nop, Instruction
  <2>2. out' \in Insts /\ Len(out') = Len(out) + 1 /\ Len(out) \in Nat
    BY <1>1, <2>1 DEF Filler, TypeOK
  <2>3. pending_nops \in Nat \ {0} /\ pos \in Nat /\ pending_nops' = pending_nops - 1 /\ pos' = pos
    BY <1>1 DEF Filler, TypeOK
  <2>4. TypeOK'
    BY <1>1, <2>2, <2>3 DEF Filler, TypeOK
  <2> HIDE DEF Insts
  <2>5. SlotsAccountFor'
    BY <2>2, <2>3 DEF SlotsAccountFor
  <2> QED BY <2>4, <2>5
<1>2. CASE Prefix
  <2>1. pos + 1 \in 0..Len(code) /\ Wide \in Nat
    BY <1>2, ByteOK DEF Prefix
  <2>2. Len(out) \in Nat
    BY DEF TypeOK
  <2>3. TypeOK'
    BY <1>2, <2>1 DEF Prefix, TypeOK
  <2>4. pos \in Nat /\ pending_nops \in Nat
    BY <2>1 DEF TypeOK
  <2>5. SlotsAccountFor'
    BY <1>2, <2>2, <2>4 DEF Prefix, SlotsAccountFor
  <2> QED BY <2>3, <2>5
<1>3. CASE Emit
  <2>1. Byte.op \in Opcodes /\ Wide \in Nat
    BY <1>3, ByteOK DEF Emit, Known
  <2>2. InstructionOf(Byte.op, Wide) \in [op : Opcodes \cup {"Nop"}, arg : Nat]
    BY <2>1, InstructionTyped
  <2>3. out' \in Insts /\ Len(out') = Len(out) + 1
    BY <1>3, <2>2 DEF Emit, TypeOK
  <2>4. pos + 1 \in 0..Len(code)
    BY <1>3, ByteOK DEF Emit
  <2>5. Len(out) \in Nat
    BY DEF TypeOK
  <2>6. TypeOK'
    BY <1>3, <2>3, <2>4 DEF Emit, TypeOK
  <2>7. SlotsAccountFor'
    <3>1. pos \in Nat /\ pending_nops \in Nat
      BY DEF TypeOK
    <3>2. Len(out') = Len(out) + 1 /\ pos' = pos + 1 /\ pending_nops' = pending_nops
      BY <1>3, <2>3 DEF Emit
    <3> HIDE DEF Insts
    <3> QED BY <2>5, <3>1, <3>2 DEF SlotsAccountFor
  <2> QED BY <2>6, <2>7
<1>4. CASE Panic
  BY <1>4 DEF Panic, TypeOK, SlotsAccountFor
<1>5. CASE End
  BY <1>5 DEF End, TypeOK, SlotsAccountFor
<1>6. CASE UNCHANGED vars
  BY <1>6 DEF vars, TypeOK, SlotsAccountFor
<1> QED BY <1>1, <1>2, <1>3, <1>4, <1>5, <1>6 DEF Next, Decode, Ended

\* The variables of the decoder keep their types, and every unit it has read
\* has its slot or is counted in pending_nops.
THEOREM Accounted == Spec => [](TypeOK /\ SlotsAccountFor)
<1>1. Init => TypeOK /\ SlotsAccountFor
  BY InitTypeOK
<1>2. TypeOK /\ SlotsAccountFor /\ [Next]_vars => TypeOK' /\ SlotsAccountFor'
  BY NextTypeOK
<1> QED BY <1>1, <1>2, PTL DEF Spec

-----------------------------------------------------------------------------
(***************************************************************************)
(* The mapping to Ceval.  What each step does to the mapped variables:     *)
(***************************************************************************)
Start   == IF reading THEN Len(out) ELSE pos
Reading == {[at |-> s - 1, op |-> out[s].op, arg |-> Operand(out[s])] : s \in Slots}

\* A Nop adds nothing to the listing, an instruction adds itself at its slot.
LEMMA NopUnlisted ==
    ASSUME TypeOK, out' = Append(out, Nop)
    PROVE  Reading' = Reading
<1>1. /\ Len(out) \in Nat /\ Len(out') = Len(out) + 1
      /\ out'[Len(out) + 1].op = "Nop"
      /\ \A s \in 1..Len(out) : out'[s] = out[s]
  BY DEF TypeOK, Nop, Instruction
<1>2. Slots' = Slots /\ Slots \subseteq 1..Len(out)
  BY <1>1 DEF Slots
<1> QED BY <1>1, <1>2 DEF Reading, Operand

LEMMA InstructionListed ==
    ASSUME TypeOK, NEW op \in Opcodes, NEW arg \in Nat,
           out' = Append(out, InstructionOf(op, arg))
    PROVE  Reading' = Reading \cup {[at |-> Len(out), op |-> op, arg |-> Significant(op, arg)]}
<1>1. /\ Len(out) \in Nat /\ Len(out') = Len(out) + 1
      /\ out'[Len(out) + 1] = InstructionOf(op, arg)
      /\ \A s \in 1..Len(out) : out'[s] = out[s]
  BY DEF TypeOK
<1>2. op # "Nop"
  BY DEF Opcodes
<1>3. InstructionOf(op, arg).op = op /\ Operand(InstructionOf(op, arg)) = Significant(op, arg)
  BY InstructionTyped
<1>4. Slots' = Slots \cup {Len(out) + 1} /\ Slots \subseteq 1..Len(out)
  BY <1>1, <1>2, <1>3 DEF Slots
<1>5. \A s \in Slots : out'[s] = out[s]
  BY <1>1, <1>4
<1>6. Reading' = {[at |-> s - 1, op |-> out'[s].op, arg |-> Operand(out'[s])] : s \in Slots'}
  BY DEF Reading, Operand
<1>7. Len(out) + 1 - 1 = Len(out)
  BY <1>1
<1> QED BY <1>1, <1>3, <1>4, <1>5, <1>6, <1>7 DEF Reading

LEMMA SameInstructions ==
    /\ Fetch!Missing = Missing
    /\ \A op, arg : Fetch!Known(op, arg) <=> Known(op, arg)
    /\ \A op, arg : Fetch!Significant(op, arg) = Significant(op, arg)
BY DEF Fetch!Missing, Missing, Fetch!Known, Known, Fetch!Opcodes, Opcodes,
       Fetch!Significant, Significant

LEMMA InitReads == ASSUME Init PROVE Fetch!Init
<1>1. Slots = {}
  BY DEF Init, Slots
<1> QED BY <1>1 DEF Init, Fetch!Init

LEMMA StepsRead ==
    ASSUME TypeOK, SlotsAccountFor, [Next]_vars
    PROVE  [Fetch!Next]_Fetch!fetch
<1>1. CASE Filler
  <2>1. Reading' = Reading /\ Start' = Start
    BY <1>1, NopUnlisted DEF Filler, Start
  <2> QED BY <1>1, <2>1 DEF Filler, Start, Reading, Fetch!fetch
<1>2. CASE Prefix
  <2>1. Reading' = Reading
    BY <1>2 DEF Prefix, Reading, Slots, Operand
  <2>2. Start' = Start
    BY <1>2 DEF Prefix, More, InNext, Start, SlotsAccountFor, TypeOK
  <2> QED BY <1>2, <2>1, <2>2, SameInstructions
          DEF Prefix, More, InNext, Start, Reading, Byte, Wide,
              Fetch!Next, Fetch!ExtendedArg, Fetch!Reading, Fetch!Fetched, Fetch!Wide
<1>3. CASE Emit
  <2>1. Byte.op \in Opcodes /\ Wide \in Nat
    BY <1>3, ByteOK DEF Emit, Known
  <2>2. Reading' = Reading \cup
                   {[at |-> Len(out), op |-> Byte.op, arg |-> Significant(Byte.op, Wide)]}
    BY <1>3, <2>1, InstructionListed DEF Emit
  <2>3. Start = Len(out) /\ Start' = pos + 1
    BY <1>3 DEF Emit, More, InNext, Start, SlotsAccountFor, TypeOK
  <2> QED BY <1>3, <2>2, <2>3, SameInstructions
          DEF Emit, More, InNext, Start, Reading, Byte, Wide,
              Fetch!Next, Fetch!Dispatch, Fetch!Reading, Fetch!Fetched, Fetch!Wide
<1>4. CASE Panic
  <2>1. Reading' = Reading /\ Start' = Start
    BY <1>4 DEF Panic, Reading, Slots, Operand, Start
  <2> QED BY <1>4, <2>1, SameInstructions
          DEF Panic, More, InNext, Start, Reading, Byte, Wide,
              Fetch!Next, Fetch!Refuse, Fetch!Reading, Fetch!Fetched, Fetch!Wide
<1>5. CASE End
  <2>1. Reading' = Reading /\ Start' = Start
    BY <1>5 DEF End, Reading, Slots, Operand, Start
  <2> QED BY <1>5, <2>1 DEF End, InNext, Start, Reading, Fetch!Next, Fetch!End
<1>6. CASE UNCHANGED vars
  BY <1>6 DEF vars, Fetch!fetch, Slots, Operand
<1> QED BY <1>1, <1>2, <1>3, <1>4, <1>5, <1>6 DEF Next, Decode, Ended

\* The safety part of ReadsLikeCPython: for bytes of any size and any code, the
\* decoder never lists an instruction, an argument or an address that CPython
\* does not read, and stops nowhere else.
THEOREM DecodesLikeCPython == Spec => Fetch!Init /\ [][Fetch!Next]_Fetch!fetch
<1>1. Init => Fetch!Init
  BY InitReads
<1>2. TypeOK /\ SlotsAccountFor /\ [Next]_vars => [Fetch!Next]_Fetch!fetch
  BY StepsRead
<1> QED BY <1>1, <1>2, Accounted, PTL DEF Spec

-----------------------------------------------------------------------------
(***************************************************************************)
(* Where jumps land.  Nops are behind prefixes; an instruction has the     *)
(* slot of its first unit; what is not in a slot yet is prefixes.          *)
(***************************************************************************)
IsPrefix(k) == k \in 1..Len(code) /\ code[k].op = "ExtendedArg"

Behind ==
    /\ reading => Len(out) < pos /\ \A k \in (Len(out) + 1)..pos : IsPrefix(k)
    /\ ~reading => oparg = 0 /\ \A k \in Len(out)..(pos - 1) : IsPrefix(k)
Placed(s) ==
    IF out[s].op = "Nop" THEN IsPrefix(s - 1)
    ELSE \E j \in 1..Len(code) : IsLast(s, j) /\ code[j].op = out[s].op
RelativeAt(s) ==
    out[s].op \in RelativeJumps =>
        code[s].op = out[s].op /\ Operand(out[s]) \in Nat /\ Operand(out[s]) % 2 = 0
Landing ==
    /\ Behind
    /\ \A s \in 1..Len(out) : Placed(s) /\ RelativeAt(s)
    /\ outcome = "read" => pos = Len(code) /\ (reading \/ pending_nops = 0)

Short == \A c \in Codes : RelativeJumpsShort(c)

\* A step that appends an instruction keeps the earlier ones where they are.
LEMMA EarlierSlots ==
    ASSUME TypeOK, Landing, NEW i, out' = Append(out, i), code' = code
    PROVE  /\ Len(out) \in Nat /\ Len(out') = Len(out) + 1
           /\ out'[Len(out) + 1] = i
           /\ \A s \in 1..Len(out) : (Placed(s) /\ RelativeAt(s))'
<1>1. /\ Len(out) \in Nat /\ Len(out') = Len(out) + 1
      /\ out'[Len(out) + 1] = i
      /\ \A s \in 1..Len(out) : out'[s] = out[s]
  BY DEF TypeOK
<1>2. ASSUME NEW s \in 1..Len(out) PROVE (Placed(s) /\ RelativeAt(s))'
  BY <1>1, <1>2 DEF Landing, Placed, RelativeAt, IsPrefix, IsLast, Operand
<1> QED BY <1>1, <1>2

LEMMA FillerLanding == ASSUME TypeOK, SlotsAccountFor, Landing, Filler PROVE Landing'
<1>1. /\ Len(out) \in Nat /\ Len(out') = Len(out) + 1
      /\ out'[Len(out) + 1] = Nop
      /\ \A s \in 1..Len(out) : (Placed(s) /\ RelativeAt(s))'
  BY EarlierSlots DEF Filler
<1>2. pending_nops \in Nat \ {0} /\ pos \in Nat /\ Len(out) + pending_nops = pos
  BY DEF Filler, TypeOK, SlotsAccountFor
<1>3. IsPrefix(Len(out))
  BY <1>1, <1>2 DEF Landing, Behind, Filler
<1> PICK n \in Nat : n = Len(out)
  BY <1>1
<1>4. (Placed(n + 1) /\ RelativeAt(n + 1))'
  <2>1. Nop.op = "Nop" /\ Nop.op \notin RelativeJumps /\ n + 1 - 1 = n
    BY <1>1 DEF Nop, Instruction, RelativeJumps
  <2>2. IsPrefix(n)'
    BY <1>3 DEF IsPrefix, Filler
  <2>3. out'[n + 1].op = "Nop" /\ out'[n + 1].op \notin RelativeJumps
    BY <2>1, <1>1
  <2> QED BY <2>1, <2>2, <2>3 DEF Placed, RelativeAt
<1>5. Behind'
  BY <1>1, <1>2 DEF Landing, Behind, Filler, IsPrefix
<1>6. \A s \in 1..Len(out') : (Placed(s) /\ RelativeAt(s))'
  <2>1. \A s \in 1..Len(out') : s \in 1..Len(out) \/ s = Len(out) + 1
    BY <1>1
  <2> QED BY <1>1, <1>4, <2>1
<1> QED BY <1>5, <1>6 DEF Landing, Filler

LEMMA PrefixLanding == ASSUME TypeOK, SlotsAccountFor, Landing, Prefix PROVE Landing'
<1>1. pos + 1 \in 1..Len(code) /\ pos \in Nat /\ Len(code) \in Nat /\ Len(out) \in Nat
  BY ByteOK DEF Prefix, TypeOK
<1>2. \A k \in (Len(out) + 1)..pos : IsPrefix(k)
  BY <1>1 DEF Landing, Behind, Prefix, More, InNext, SlotsAccountFor, TypeOK
<1>3. IsPrefix(pos + 1)
  BY <1>1 DEF IsPrefix, Prefix, Byte
<1>4. Behind'
  <2>1. pos' = pos + 1 /\ out' = out /\ reading' /\ code' = code /\ Len(out) < pos + 1
    BY <1>1 DEF Prefix, SlotsAccountFor, TypeOK
  <2>2. \A k \in (Len(out) + 1)..(pos + 1) : k \in (Len(out) + 1)..pos \/ k = pos + 1
    BY <1>1
  <2>3. \A k \in (Len(out) + 1)..(pos + 1) : IsPrefix(k)
    BY <2>2, <1>2, <1>3
  <2>4. \A k \in (Len(out) + 1)..(pos + 1) : IsPrefix(k)'
    BY <2>1, <2>3 DEF IsPrefix
  <2> QED BY <2>1, <2>4 DEF Behind
<1> QED BY <1>4 DEF Landing, Prefix, Placed, RelativeAt, IsPrefix, IsLast, Operand, More, InNext

LEMMA EmitLanding ==
    ASSUME TypeOK, SlotsAccountFor, Landing, Short, Emit
    PROVE  Landing'
<1> DEFINE i == InstructionOf(Byte.op, Wide)
<1>1. /\ Len(out) \in Nat /\ Len(out') = Len(out) + 1
      /\ out'[Len(out) + 1] = i
      /\ \A s \in 1..Len(out) : (Placed(s) /\ RelativeAt(s))'
  BY EarlierSlots DEF Emit
<1>2. pos + 1 \in 1..Len(code) /\ pos \in Nat /\ Len(code) \in Nat
      /\ Byte \in Unit /\ Byte.arg \in Nat /\ Wide \in Nat /\ Byte.op \in Opcodes
  BY ByteOK, CodesAssumption DEF Emit, TypeOK, Unit, Known
<1>3. /\ i.op = Byte.op /\ Operand(i) = Significant(Byte.op, Wide)
      /\ Byte.op # "Nop" /\ Byte.op # "ExtendedArg"
  <2>1. \A op \in Opcodes : op # "Nop" /\ op # "ExtendedArg"
    BY DEF Opcodes
  <2>2. i.op = Byte.op /\ Operand(i) = Significant(Byte.op, Wide)
    BY <1>2, InstructionTyped
  <2> QED BY <1>2, <2>1, <2>2
<1>4. Byte = code[pos + 1]
  BY DEF Byte
<1>5. \A k \in (Len(out) + 1)..pos : IsPrefix(k)
  BY <1>1, <1>2 DEF Landing, Behind, Emit, More, InNext, SlotsAccountFor, TypeOK
<1>6. Len(out) + 1 <= pos + 1
  BY <1>1, <1>2 DEF SlotsAccountFor, TypeOK
<1> HIDE DEF i
<1> PICK n \in Nat, p \in Nat : n = Len(out) /\ p = pos
  BY <1>1, <1>2
<1>7. IsLast(n + 1, p + 1)
  BY <1>1, <1>2, <1>3, <1>4, <1>5, <1>6 DEF IsLast, IsPrefix
<1>8. Placed(n + 1)'
  <2>1. code' = code /\ out'[n + 1].op = Byte.op /\ Byte.op # "Nop"
    BY <1>1, <1>3 DEF Emit
  <2>2. IsLast(n + 1, p + 1)' /\ code'[p + 1].op = Byte.op
    BY <2>1, <1>4, <1>7 DEF IsLast
  <2> QED BY <2>1, <2>2, <1>2 DEF Placed
<1>9. RelativeAt(n + 1)'
  <2>1. ASSUME Byte.op \in RelativeJumps
        PROVE  Len(out) = pos /\ oparg = 0 /\ Byte.arg % 2 = 0
    <3>1. RelativeJumpsShort(code)
      BY DEF Short, TypeOK
    <3>2. Byte.arg % 2 = 0 /\ (pos + 1 > 1 => code[pos].op # "ExtendedArg")
      BY <2>1, <3>1, <1>2, <1>4 DEF RelativeJumpsShort
    <3>3. Len(out) = pos
      BY <3>2, <1>1, <1>2, <1>5, <1>6 DEF IsPrefix
    <3>4. ~reading
      BY <3>3, <1>2 DEF Landing, Behind
    <3> QED BY <3>2, <3>3, <3>4 DEF Landing, Behind
  <2>2. ASSUME Byte.op \in RelativeJumps
        PROVE  Wide = Byte.arg /\ Significant(Byte.op, Wide) = Wide
    <3>1. Wide = Byte.arg
      BY <2>1, <2>2, <1>2, CodesAssumption DEF Wide
    <3>2. Byte.op # "MakeFunction"
      BY <2>2 DEF RelativeJumps
    <3> QED BY <3>1, <3>2 DEF Significant
  <2>3. /\ code' = code /\ out'[n + 1].op = Byte.op
        /\ Operand(out'[n + 1]) = Significant(Byte.op, Wide)
    BY <1>1, <1>3 DEF Emit
  <2>4. ASSUME Byte.op \in RelativeJumps
        PROVE  code'[n + 1].op = Byte.op
    BY <2>1, <2>3, <2>4, <1>4
  <2> QED BY <1>2, <2>1, <2>2, <2>3, <2>4 DEF RelativeAt, Operand
<1>10. Behind'
  BY <1>1, <1>2, <1>5, <1>6 DEF Behind, Emit, IsPrefix
<1>11. \A s \in 1..Len(out') : (Placed(s) /\ RelativeAt(s))'
  <2>1. \A s \in 1..Len(out') : s \in 1..Len(out) \/ s = Len(out) + 1
    BY <1>1
  <2> QED BY <1>1, <1>8, <1>9, <2>1
<1> QED BY <1>10, <1>11 DEF Landing, Emit, More, InNext

LEMMA InitLanding == ASSUME Init PROVE Landing
BY DEF Init, Landing, Behind

LEMMA NextLanding ==
    ASSUME TypeOK, SlotsAccountFor, Landing, Short, [Next]_vars
    PROVE  Landing'
<1>1. CASE Filler
  BY <1>1, FillerLanding
<1>2. CASE Prefix
  BY <1>2, PrefixLanding
<1>3. CASE Emit
  BY <1>3, EmitLanding
<1>4. CASE Panic
  BY <1>4 DEF Panic, Landing, Behind, Placed, RelativeAt, IsPrefix, IsLast, Operand
<1>5. CASE End
  BY <1>5 DEF End, InNext, Landing, Behind, Placed, RelativeAt, IsPrefix, IsLast, Operand
<1>6. CASE UNCHANGED vars
  BY <1>6 DEF vars, Landing, Behind, Placed, RelativeAt, IsPrefix, IsLast, Operand
<1> QED BY <1>1, <1>2, <1>3, <1>4, <1>5, <1>6 DEF Next, Decode, Ended

\* An instruction has one last unit.
LEMMA LastUnique ==
    ASSUME NEW i \in Nat, NEW j, NEW k, IsLast(i, j), IsLast(i, k), Len(code) \in Nat
    PROVE  j = k
<1>1. j \in Nat /\ k \in Nat /\ i <= j /\ i <= k
  BY DEF IsLast
<1>2. ~(j < k) /\ ~(k < j)
  BY <1>1 DEF IsLast
<1> QED BY <1>1, <1>2

LEMMA SlotTyped ==
    ASSUME TypeOK, NEW s \in 1..Len(out)
    PROVE  out[s] \in [op : Opcodes \cup {"Nop"}, arg : Nat]
<1> DEFINE Inst == [op : Opcodes \cup {"Nop"}, arg : Nat]
<1>1. out \in Seq(Inst)
  BY DEF TypeOK
<1> HIDE DEF Inst
<1>2. out[s] \in Inst
  BY <1>1
<1> QED BY <1>2 DEF Inst

LEMMA LandingSuffices ==
    ASSUME TypeOK, SlotsAccountFor, Landing, outcome = "read",
           NEW s \in Slots, out[s].op \in RelativeJumps \cup AbsoluteJumps,
           NEW t, t = CPythonTarget(s), Begins(t), Found(t) # {}
    PROVE  MachineTarget(s) = t /\ t < Len(out) /\ out[t + 1].op \in Found(t)
<1>1. Len(code) \in Nat /\ Len(out) \in Nat /\ pos \in Nat /\ pending_nops \in Nat
  <2>1. code \in Seq(Unit)
    BY CodesAssumption DEF TypeOK
  <2> QED BY <2>1 DEF TypeOK
<1>2. s \in 1..Len(out) /\ out[s].op # "Nop" /\ s \in Nat
  BY <1>1 DEF Slots
<1>3. MachineTarget(s) = t
  <2>1. CASE out[s].op \in RelativeJumps
    <3>1. Operand(out[s]) \in Nat /\ Operand(out[s]) % 2 = 0 /\ code[s].op = out[s].op
      BY <2>1, <1>2 DEF Landing, RelativeAt
    <3>2. PICK j \in 1..Len(code) : IsLast(s, j)
      BY <1>2 DEF Landing, Placed
    <3>3. IsLast(s, s)
      BY <2>1, <3>1, <3>2, <1>1, <1>2 DEF IsLast, RelativeJumps
    <3>4. (CHOOSE k \in 1..Len(code) : IsLast(s, k)) = s
      <4>1. s \in 1..Len(code)
        BY <3>3, <1>2 DEF IsLast
      <4> QED BY <4>1, <3>3, <1>1, <1>2, LastUnique
    <3>5. t = s + Words(Operand(out[s]))
      BY <2>1, <3>4 DEF CPythonTarget
    <3>6. Words(out[s].arg) = Words(Operand(out[s]))
      <4>1. CASE out[s].op \notin Adjusted
        BY <4>1 DEF Operand
      <4>2. CASE out[s].op \in Adjusted
        <5>1. Operand(out[s]) = out[s].arg - 1 /\ out[s].arg \in Nat
          <6>1. out[s] \in [op : Opcodes \cup {"Nop"}, arg : Nat]
            BY <1>2, SlotTyped
          <6> QED BY <6>1, <4>2 DEF Operand
        <5> QED BY <5>1, <3>1 DEF Words
      <4> QED BY <4>1, <4>2
    <3> QED BY <2>1, <3>5, <3>6 DEF MachineTarget
  <2>2. CASE out[s].op \notin RelativeJumps
    <3>1. out[s].op \notin Adjusted
      BY <2>2 DEF RelativeJumps, AbsoluteJumps, Adjusted
    <3> QED BY <2>2, <3>1 DEF MachineTarget, CPythonTarget, Operand
  <2> QED BY <2>1, <2>2
<1>4. t \in 0..(Len(code) - 1) /\ t \in Nat /\ t + 1 - 1 = t /\ (t # 0 => code[t].op # "ExtendedArg")
  BY <1>1 DEF Begins
<1>5. PICK j \in 1..Len(code) : IsLast(t + 1, j)
  BY DEF Found
<1>6. pos = Len(code) /\ (reading \/ pending_nops = 0) /\ Len(out) + pending_nops = pos
  BY DEF Landing, SlotsAccountFor
<1>7. t + 1 \in 1..Len(out)
  <2>1. CASE ~reading
    BY <2>1, <1>1, <1>4, <1>6
  <2>2. CASE reading
    <3>1. \A k \in (Len(out) + 1)..Len(code) : code[k].op = "ExtendedArg"
      BY <2>2, <1>6 DEF Landing, Behind, IsPrefix
    <3>2. j \notin (Len(out) + 1)..Len(code) /\ t + 1 <= j
      BY <1>5, <3>1 DEF IsLast
    <3> QED BY <3>2, <1>1, <1>4
  <2> QED BY <2>1, <2>2
<1>8. out[t + 1].op # "Nop"
  BY <1>4, <1>7 DEF Landing, Placed, IsPrefix
<1>9. PICK k \in 1..Len(code) : IsLast(t + 1, k) /\ code[k].op = out[t + 1].op
  BY <1>7, <1>8 DEF Landing, Placed
<1>10. t < Len(out)
  BY <1>1, <1>4, <1>7
<1> QED BY <1>3, <1>9, <1>10 DEF Found

\* In every code whose relative jumps need no prefix, whatever else has one,
\* each jump takes the machine to the instruction to which it takes CPython.
THEOREM ShortJumpsLand ==
    ASSUME \A c \in Codes : RelativeJumpsShort(c)
    PROVE  Spec => []JumpsLand
<1>1. Short
  BY DEF Short
<1>2. Init => Landing
  BY InitLanding
<1>3. TypeOK /\ SlotsAccountFor /\ Landing /\ [Next]_vars => Landing'
  BY <1>1, NextLanding
<1>4. TypeOK /\ SlotsAccountFor /\ Landing => JumpsLand
  BY LandingSuffices DEF JumpsLand
<1> QED BY <1>2, <1>3, <1>4, Accounted, PTL DEF Spec
=============================================================================
