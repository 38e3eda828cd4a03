------------------------------ MODULE Listing ------------------------------
(***************************************************************************)
(* Sequences of the cases that an MC module runs.  For model checking      *)
(* only.  SubSeq makes TLC evaluate a sequence once and for all.           *)
(***************************************************************************)
EXTENDS Integers, Sequences

\* A sequence of the elements of a (small) finite set.
RECURSIVE Listed(_)
Listed(S) == IF S = {} THEN <<>>
             ELSE LET x == CHOOSE x \in S : TRUE IN <<x>> \o Listed(S \ {x})

\* The sequence of every f(x, y) with x from xs and y from ys.
Combine(f(_, _), xs, ys) ==
    SubSeq([k \in 1..(Len(xs) * Len(ys)) |->
                f(xs[((k - 1) \div Len(ys)) + 1], ys[((k - 1) % Len(ys)) + 1])],
           1, Len(xs) * Len(ys))
=============================================================================
