----------------------------- MODULE MCSubclass -----------------------------
(***************************************************************************)
(* Subclass on every graph of three objects with at most two bases each,   *)
(* repeated bases, self-loops and cycles included.                         *)
(***************************************************************************)
EXTENDS Subclass

MCObject == 1..3
MCGraphs == [MCObject -> UNION {[1..n -> MCObject] : n \in 0..2}]
=============================================================================
