----------------------------- MODULE MCDecoder ------------------------------
(***************************************************************************)
(* The decoder on every code of at most four units out of eleven, with     *)
(* bytes of eight values: an argument of 8 and more needs a prefix.  A     *)
(* jump of 4 passes an instruction with its prefix, or two without.  The   *)
(* flags of MAKE_FUNCTION after a prefix of 2 are 18, of which 2 is left.  *)
(***************************************************************************)
EXTENDS Decoder

MCBase == 8
U(op, arg) == [op |-> op, arg |-> arg]

MCUnits == {U("ExtendedArg", 0), U("ExtendedArg", 1), U("ExtendedArg", 2), U("LoadConst", 3),
            U("CompareOp", 3), U("JumpForward", 0), U("JumpForward", 4), U("SetupExcept", 2),
            U("JumpAbsolute", 6), U("MakeFunction", 2), U("Unsupported", 0)}
Whole == UNION {[1..n -> MCUnits] : n \in 0..4}
Torn  == {c \o <<U("LoadConst", Missing)>> : c \in UNION {[1..n -> MCUnits] : n \in 0..2}}

MCCodes == {c \in Whole \cup Torn : RelativeJumpsShort(c)}

\* A jump over four instructions, too far for one byte.
FarJump == {<<U("ExtendedArg", 1), U("JumpForward", 0), U("LoadConst", 1), U("PopTop", 0),
              U("LoadConst", 2), U("PopTop", 0), U("LoadConst", 3), U("ReturnValue", 0)>>}
=============================================================================
