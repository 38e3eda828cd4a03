-------------------------------- MODULE Ceval -------------------------------
(***************************************************************************)
(* How CPython reads its own code, the machine's decoder being there to    *)
(* find the same instructions at the same addresses.  EXTENDED_ARG shifts  *)
(* what it has of the argument and goes on to the next unit.  A jump is    *)
(* made to the first unit of an instruction, so that is its address.       *)
(***************************************************************************)
EXTENDS Wordcode

VARIABLES
    code,
    next_instr,     \* the units read
    start,          \* the address of the instruction that is being read
    oparg,
    listing,        \* the instructions read: [at, op, arg]
    outcome         \* "reading", "read" or "refused"

fetch == <<code, next_instr, start, oparg, listing, outcome>>

Fetched == code[next_instr + 1]
Wide    == oparg * Base + Fetched.arg

Init ==
    /\ code \in Codes
    /\ next_instr = 0 /\ start = 0 /\ oparg = 0 /\ listing = {}
    /\ outcome = "reading"

Reading == outcome = "reading" /\ next_instr < Len(code)

ExtendedArg ==
    /\ Reading /\ Fetched.arg # Missing /\ Fetched.op = "ExtendedArg"
    /\ oparg' = Wide
    /\ next_instr' = next_instr + 1
    /\ UNCHANGED <<code, start, listing, outcome>>

Dispatch ==
    /\ Reading /\ Fetched.arg # Missing /\ Known(Fetched.op, Wide)
    /\ listing' = listing \cup
           {[at |-> start, op |-> Fetched.op, arg |-> Significant(Fetched.op, Wide)]}
    /\ next_instr' = next_instr + 1
    /\ start' = next_instr + 1
    /\ oparg' = 0
    /\ UNCHANGED <<code, outcome>>

\* Code that the machine does not claim to run.
Refuse ==
    /\ Reading
    /\ \/ Fetched.arg = Missing
       \/ Fetched.op # "ExtendedArg" /\ ~Known(Fetched.op, Wide)
    /\ outcome' = "refused"
    /\ UNCHANGED <<code, next_instr, start, oparg, listing>>

End ==
    /\ outcome = "reading" /\ next_instr = Len(code)
    /\ outcome' = "read"
    /\ UNCHANGED <<code, next_instr, start, oparg, listing>>

Next == ExtendedArg \/ Dispatch \/ Refuse \/ End

Spec == Init /\ [][Next]_fetch /\ WF_fetch(Next)
=============================================================================
