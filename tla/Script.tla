------------------------------- MODULE Script -------------------------------
(***************************************************************************)
(* What running a program amounts to, for who looks at its output: it      *)
(* writes what CPython writes, one value at a time and nothing else, and   *)
(* then ends the way it ends in CPython.  Compiled.tla implements this.    *)
(***************************************************************************)
EXTENDS Integers, Sequences

CONSTANT Expected     \* for each program, what it writes and how it ends

VARIABLES prog, stdout, outcome

script == <<prog, stdout, outcome>>

Init ==
    /\ prog \in 1..Len(Expected)
    /\ stdout = <<>>
    /\ outcome = "running"

Running == outcome = "running"

Write ==
    /\ Running /\ Len(stdout) < Len(Expected[prog].stdout)
    /\ stdout' = Append(stdout, Expected[prog].stdout[Len(stdout) + 1])
    /\ UNCHANGED <<prog, outcome>>

End ==
    /\ Running /\ Len(stdout) = Len(Expected[prog].stdout)
    /\ outcome' = Expected[prog].outcome
    /\ UNCHANGED <<prog, stdout>>

Spec == Init /\ [][Write \/ End]_script /\ WF_script(Write \/ End)
=============================================================================
