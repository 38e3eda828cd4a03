---------------------------- MODULE Reachability ----------------------------
(***************************************************************************)
(* What native_issubclass promises: the question stays as it was put, one  *)
(* answer is given, never changed, and it is whether the second class can  *)
(* be reached from the first.  Subclass.tla implements this.               *)
(***************************************************************************)
EXTENDS ClassGraph

question == <<bases, first, second>>

Init == Asked

Answer ==
    /\ result = "unknown"
    /\ result' = IF second \in Reachable(first) THEN "true" ELSE "false"
    /\ UNCHANGED question

Spec == Init /\ [][Answer]_<<question, result>> /\ WF_<<question, result>>(Answer)
=============================================================================
