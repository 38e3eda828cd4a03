------------------------------ MODULE Decoder -------------------------------
(***************************************************************************)
(* InstructionDecoder (processor/instructions.rs), which Frame::new runs   *)
(* over the bytes of a code object each time it is called.  Each Some of   *)
(* its next() is one step here, and so is each EXTENDED_ARG of the loop in *)
(* next(), which gives no instruction.                                     *)
(*                                                                         *)
(* Slots of `out` are the addresses that the machine jumps to, counted in  *)
(* instructions: Nops stand for the units that gave none.                  *)
(***************************************************************************)
EXTENDS Wordcode

VARIABLES
    code,
    pos,            \* units taken from the bytestream
    pending_nops,
    oparg,          \* of the call of next() that is going on
    reading,        \* within a call of next(), after an EXTENDED_ARG
    out,            \* the instructions that collect() has
    outcome         \* "reading", "read" or "panic"

vars == <<code, pos, pending_nops, oparg, reading, out, outcome>>

Instruction(op, arg) == [op |-> op, arg |-> arg]
Nop == Instruction("Nop", 0)

Byte   == code[pos + 1]
Wide   == oparg * Base + Byte.arg       \* oparg << 8 | byte
InNext == outcome = "reading" /\ (reading \/ pending_nops = 0)
More   == InNext /\ pos < Len(code)

Adjusted == {"SetupLoop", "SetupExcept"}    \* decoded with oparg + 1
InstructionOf(op, arg) ==
    Instruction(op, IF op \in Adjusted THEN arg + 1 ELSE Significant(op, arg))

Init ==
    /\ code \in Codes
    /\ pos = 0 /\ pending_nops = 0 /\ oparg = 0 /\ reading = FALSE
    /\ out = <<>>
    /\ outcome = "reading"

\* Mutant: one Nop stands for all the prefixes of an instruction.
FillerOnce ==
    /\ outcome = "reading" /\ ~reading /\ pending_nops # 0
    /\ pending_nops' = 0
    /\ out' = Append(out, Nop)
    /\ UNCHANGED <<code, pos, oparg, reading, outcome>>

\* Mutant: an EXTENDED_ARG is not counted.
PrefixUncounted ==
    /\ More /\ Byte.arg # Missing /\ Byte.op = "ExtendedArg"
    /\ oparg' = Wide
    /\ pos' = pos + 1
    /\ reading' = TRUE
    /\ UNCHANGED <<code, pending_nops, out, outcome>>

\* Mutant: the second EXTENDED_ARG of an instruction replaces the first.
PrefixForgetting ==
    /\ More /\ Byte.arg # Missing /\ Byte.op = "ExtendedArg"
    /\ oparg' = Byte.arg
    /\ pos' = pos + 1
    /\ pending_nops' = pending_nops + 1
    /\ reading' = TRUE
    /\ UNCHANGED <<code, out, outcome>>

\* A Nop for each unit of an instruction but one.
Filler ==
    /\ outcome = "reading" /\ ~reading /\ pending_nops # 0
    /\ pending_nops' = pending_nops - 1
    /\ out' = Append(out, Nop)
    /\ UNCHANGED <<code, pos, oparg, reading, outcome>>

Prefix ==
    /\ More /\ Byte.arg # Missing /\ Byte.op = "ExtendedArg"
    /\ oparg' = Wide
    /\ pos' = pos + 1
    /\ pending_nops' = pending_nops + 1
    /\ reading' = TRUE
    /\ UNCHANGED <<code, out, outcome>>

\* One more unit is counted, and one is taken off for the instruction.
Emit ==
    /\ More /\ Byte.arg # Missing /\ Known(Byte.op, Wide)
    /\ out' = Append(out, InstructionOf(Byte.op, Wide))
    /\ pos' = pos + 1
    /\ reading' = FALSE
    /\ oparg' = 0
    /\ UNCHANGED <<code, pending_nops, outcome>>

\* unwrap() of the missing byte, or the panic of the match or of from_bytecode.
Panic ==
    /\ More
    /\ \/ Byte.arg = Missing
       \/ Byte.op # "ExtendedArg" /\ ~Known(Byte.op, Wide)
    /\ outcome' = "panic"
    /\ UNCHANGED <<code, pos, pending_nops, oparg, reading, out>>

\* None: collect() has the instructions, even when a prefix is left over.
End ==
    /\ InNext /\ pos = Len(code)
    /\ outcome' = "read"
    /\ UNCHANGED <<code, pos, pending_nops, oparg, reading, out>>

Decode == Filler \/ Prefix \/ Emit \/ Panic \/ End
Ended == outcome # "reading" /\ UNCHANGED vars

Next == Decode \/ Ended

\* collect() asks for the next instruction until there is none.
Spec == Init /\ [][Next]_vars /\ WF_vars(Decode)

-----------------------------------------------------------------------------
(***************************************************************************)
(* The machine has CPython's instructions at CPython's addresses.          *)
(***************************************************************************)
Slots == {s \in 1..Len(out) : out[s].op # "Nop"}
Operand(inst) == IF inst.op \in Adjusted THEN inst.arg - 1 ELSE inst.arg

\* Whatever the code, its decoding is CPython's reading of it: the same
\* instructions, with the same arguments, at the same addresses, and the same
\* end.  The Nops are steps that CPython does not have.
Fetch == INSTANCE Ceval WITH
    next_instr <- pos,
    start   <- IF reading THEN Len(out) ELSE pos,
    listing <- {[at |-> s - 1, op |-> out[s].op, arg |-> Operand(out[s])] : s \in Slots},
    outcome <- IF outcome = "panic" THEN "refused" ELSE outcome
ReadsLikeCPython == Fetch!Spec

\* Every unit read has its slot, or will have it as a Nop.
SlotsAccountFor == Len(out) + pending_nops = pos

TypeOK ==
    /\ code \in Codes
    /\ pos \in 0..Len(code) /\ pending_nops \in Nat /\ oparg \in Nat
    /\ reading \in BOOLEAN
    /\ out \in Seq([op : Opcodes \cup {"Nop"}, arg : Nat])
    /\ outcome \in {"reading", "read", "panic"}

(***************************************************************************)
(* Where a jump goes, as an address.  The machine (processor/mod.rs) has   *)
(* the program counter on the slot after the jump when it adds the words   *)
(* of a relative jump; CPython is past the last unit of the jump.          *)
(***************************************************************************)
Words(n) == n \div 2

RelativeJumps == {"JumpForward", "ForIter", "SetupExcept"}
AbsoluteJumps == {"JumpAbsolute", "PopJumpIfFalse"}

MachineTarget(s) ==
    IF out[s].op \in RelativeJumps THEN s + Words(out[s].arg) ELSE Words(out[s].arg)

\* The last unit of the instruction whose first is unit i.
IsLast(i, j)  == /\ j \in i..Len(code) /\ code[j].op # "ExtendedArg"
                 /\ \A k \in i..(j - 1) : code[k].op = "ExtendedArg"
CPythonTarget(s) ==
    LET last == CHOOSE j \in 1..Len(code) : IsLast(s, j)
        jump == out[s]
    IN  IF jump.op \in RelativeJumps THEN last + Words(Operand(jump)) ELSE Words(Operand(jump))

\* The instruction that CPython finds at an address, as far as it is one.
Found(a) == {code[j].op : j \in {j \in 1..Len(code) : IsLast(a + 1, j)}}
Begins(a) == a \in 0..(Len(code) - 1) /\ (a # 0 => code[a].op # "ExtendedArg")

\* A jump, FOR_ITER's exit and an except clause included, takes the machine to
\* the instruction to which it takes CPython.
JumpsLand ==
    outcome = "read" =>
        \A s \in Slots : out[s].op \in RelativeJumps \cup AbsoluteJumps =>
            LET t == CPythonTarget(s)
            IN  Begins(t) /\ Found(t) # {} =>
                    MachineTarget(s) = t /\ t < Len(out) /\ out[t + 1].op \in Found(t)

\* The codes in which no relative jump needs a prefix.  The arguments of jumps
\* are counted in bytes and even.
RelativeJumpsShort(c) ==
    \A i \in 1..Len(c) : c[i].op \in RelativeJumps =>
        c[i].arg % 2 = 0 /\ (i > 1 => c[i - 1].op # "ExtendedArg")
=============================================================================
