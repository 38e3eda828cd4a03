------------------------------ MODULE Wordcode ------------------------------
(***************************************************************************)
(* Code as CPython 3.6 writes it: units of two bytes, an opcode and an     *)
(* argument.  EXTENDED_ARG units put in front of an instruction hold the   *)
(* higher bytes of its argument.  A file may end within a unit.            *)
(*                                                                         *)
(* An opcode is called by the Instruction (processor/instructions.rs) that *)
(* stands for it; opcode 144 is ExtendedArg.                               *)
(***************************************************************************)
EXTENDS Integers, Sequences

CONSTANTS
    Base,       \* the values of a byte: 256, fewer in the checks
    Codes       \* the codes that are decoded

Opcodes ==
    {"PopTop", "DupTop", "BinarySubscr", "GetIter", "LoadBuildClass", "ReturnValue",
     "PopBlock", "EndFinally", "PopExcept", "StoreName", "ForIter", "StoreAttr",
     "StoreGlobal", "LoadConst", "LoadName", "BuildTuple", "LoadAttr", "CompareOp",
     "JumpForward", "JumpAbsolute", "PopJumpIfFalse", "LoadGlobal", "SetupLoop",
     "SetupExcept", "LoadFast", "StoreFast", "RaiseVarargs", "CallFunction",
     "MakeFunction", "CallFunctionKw", "BuildConstKeyMap"}
Others == {"ExtendedArg", "Unsupported"}

Missing == -1       \* the argument of a unit of which only the opcode is there
Unit == [op : Opcodes \cup Others, arg : {Missing} \cup 0..(Base - 1)]

ASSUME CodesAssumption ==
    /\ Base \in Nat \ {0}
    /\ Codes \subseteq Seq(Unit)
    /\ \A c \in Codes : \A i \in 1..Len(c) : c[i].arg = Missing => i = Len(c)

\* What an instruction may carry: CmpOperator::from_bytecode knows 0 to 10.
Known(op, oparg) == op \in Opcodes /\ (op = "CompareOp" => oparg <= 10)

\* What of it says anything: MAKE_FUNCTION has four flags.
Significant(op, oparg) == IF op = "MakeFunction" THEN oparg % 16 ELSE oparg
=============================================================================
