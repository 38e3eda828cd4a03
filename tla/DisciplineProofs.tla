-------------------------- MODULE DisciplineProofs ---------------------------
(***************************************************************************)
(* The machine keeps what a compiler relies on: the frames of code that is *)
(* verified (Discipline.tla) always have the stacks that its shapes say,   *)
(* whatever it calls, raises and catches, for every program and bound.     *)
(***************************************************************************)
EXTENDS Discipline, StabilityProofs

-----------------------------------------------------------------------------
(***************************************************************************)
(* Shapes and the stacks that fit them.                                    *)
(***************************************************************************)
\* The stack of t is that of s without the n values on top.
Shorter(t, s, n) ==
    /\ t.open = s.open /\ Len(s.stack) \in Nat /\ n <= Len(s.stack)
    /\ Len(t.stack) = Len(s.stack) - n
    /\ \A i \in 1..Len(t.stack) : t.stack[i] = s.stack[i]

LEMMA ShapeParts ==
    ASSUME NEW s \in Shape
    PROVE  /\ s = [open |-> s.open, stack |-> s.stack, tries |-> s.tries]
           /\ s.open \in BOOLEAN
           /\ s.stack \in Seq(Tags) /\ Len(s.stack) \in Nat
           /\ s.tries \in Seq(Tries) /\ Len(s.tries) \in Nat
<1>1. s.stack \in Seq(Tags) /\ s.tries \in Seq(Tries)
  BY DEF Shape
<1> QED BY <1>1, LenProperties DEF Shape

LEMMA Popped ==
    ASSUME NEW s \in Shape, NEW n \in Nat, n <= Len(s.stack)
    PROVE  /\ Turned(s, n, <<>>) \in Shape
           /\ Turned(s, n, <<>>).tries = s.tries
           /\ Shorter(Turned(s, n, <<>>), s, n)
<1> DEFINE t == Turned(s, n, <<>>)
           rest == SubSeq(s.stack, 1, Len(s.stack) - n)
<1>1. /\ rest \in Seq(Tags) /\ Len(rest) = Len(s.stack) - n
      /\ \A i \in 1..(Len(s.stack) - n) : rest[i] = s.stack[i]
  BY ShapeParts, PrefixProperties
<1>2. t = [open |-> s.open, stack |-> rest \o <<>>, tries |-> s.tries]
  <2>1. t = [s EXCEPT !.stack = rest \o <<>>]
    BY DEF Turned
  <2> HIDE DEF t, rest
  <2> QED BY <2>1, ShapeParts
<1> HIDE DEF rest
<1>3. rest \o <<>> = rest
  BY <1>1, ConcatEmptySeq
<1>4. t = [open |-> s.open, stack |-> rest, tries |-> s.tries]
  BY <1>2, <1>3
<1> HIDE DEF t
<1>5. t \in Shape
  BY <1>1, <1>4, ShapeParts DEF Shape
<1>6. Shorter(t, s, n)
  BY <1>1, <1>4, ShapeParts DEF Shorter
<1> QED BY <1>4, <1>5, <1>6 DEF t

LEMMA Exchanged ==
    ASSUME NEW s \in Shape, NEW n \in Nat, n <= Len(s.stack), NEW tag \in Tags
    PROVE  LET u == Turned(s, n, <<tag>>)
           IN  /\ u \in Shape /\ u.tries = s.tries
               /\ u.stack # <<>> /\ Final(u.stack) = tag
               /\ Shorter(Turned(u, 1, <<>>), s, n) /\ Shorter(Turned(u, 1, <<>>), u, 1)
               /\ Turned(u, 1, <<>>).tries = s.tries
<1> DEFINE u == Turned(s, n, <<tag>>)
           rest == SubSeq(s.stack, 1, Len(s.stack) - n)
           m == Len(s.stack) - n
<1>1. /\ rest \in Seq(Tags) /\ Len(rest) = m /\ m \in Nat
      /\ \A i \in 1..m : rest[i] = s.stack[i]
  BY ShapeParts, PrefixProperties
<1>2. u = [open |-> s.open, stack |-> rest \o <<tag>>, tries |-> s.tries]
  <2> DEFINE stack == rest \o <<tag>>
  <2>1. u = [s EXCEPT !.stack = stack]
    BY DEF Turned
  <2>2. s = [open |-> s.open, stack |-> s.stack, tries |-> s.tries]
    BY ShapeParts
  <2> HIDE DEF u, stack
  <2>3. u = [open |-> s.open, stack |-> stack, tries |-> s.tries]
    BY <2>1, <2>2
  <2> QED BY <2>3 DEF stack
<1> HIDE DEF rest
<1>3. rest \o <<tag>> = Append(rest, tag)
  BY <1>1, AppendIsConcat
<1>4. /\ Append(rest, tag) \in Seq(Tags) /\ Len(Append(rest, tag)) = m + 1
      /\ \A i \in 1..m : Append(rest, tag)[i] = s.stack[i]
      /\ Append(rest, tag)[m + 1] = tag
  BY <1>1, AppendProperties
<1>5. u = [open |-> s.open, stack |-> Append(rest, tag), tries |-> s.tries]
  BY <1>2, <1>3
<1> HIDE DEF u
<1>6. u \in Shape
  BY <1>4, <1>5, ShapeParts DEF Shape
<1>7. u.stack = Append(rest, tag) /\ Len(u.stack) = m + 1 /\ u.tries = s.tries /\ u.open = s.open
  BY <1>4, <1>5
<1>8. u.stack # <<>> /\ Final(u.stack) = tag
  <2> DEFINE stack == Append(rest, tag)
  <2> HIDE DEF stack
  <2>1. stack \in Seq(Tags) /\ Len(stack) = m + 1 /\ stack[m + 1] = tag
    BY <1>4 DEF stack
  <2>2. stack # <<>>
    BY <1>1, <2>1, EmptySeq
  <2> QED BY <1>7, <2>1, <2>2 DEF Final, stack
<1>9. Shorter(Turned(u, 1, <<>>), u, 1) /\ Turned(u, 1, <<>>).tries = s.tries
  <2>1. 1 <= Len(u.stack)
    BY <1>1, <1>7
  <2> QED BY <1>6, <1>7, <2>1, Popped
<1>10. Shorter(Turned(u, 1, <<>>), s, n)
  <2> DEFINE t == Turned(u, 1, <<>>)
  <2> HIDE DEF t
  <2>1. /\ t.open = s.open /\ Len(t.stack) = m
        /\ \A i \in 1..Len(t.stack) : t.stack[i] = u.stack[i]
    BY <1>1, <1>7, <1>9 DEF Shorter, t
  <2>2. \A i \in 1..Len(t.stack) : t.stack[i] = s.stack[i]
    BY <1>4, <1>7, <2>1
  <2> QED BY <2>1, <2>2, ShapeParts DEF Shorter, t, m
<1> QED BY <1>6, <1>7, <1>8, <1>9, <1>10 DEF u

LEMMA StackFitsFrom ==
    ASSUME NEW h, NEW stack, NEW s, NEW below, below >= 0, Len(stack) - Len(s.stack) = below,
           ~s.open => below = 0,
           \A i \in 1..Len(s.stack) : HasTag(h, stack[below + i], s.stack[i])
    PROVE  StackFits(h, stack, s)
BY Zenon DEF StackFits

LEMMA PopFits ==
    ASSUME NEW h, NEW S, NEW stack \in Seq(S), NEW s, NEW t, NEW n \in Nat,
           StackFits(h, stack, s), Shorter(t, s, n)
    PROVE  /\ n <= Len(stack) /\ Len(stack) \in Nat
           /\ StackFits(h, SubSeq(stack, 1, Len(stack) - n), t)
<1> DEFINE below == Len(stack) - Len(s.stack)
           m == Len(stack) - n
           rest == SubSeq(stack, 1, m)
<1>1. Len(stack) \in Nat /\ Len(s.stack) \in Nat /\ below \in Nat /\ n <= Len(s.stack)
  BY LenProperties DEF StackFits, Shorter
<1>2. m \in Nat /\ m <= Len(stack)
  BY <1>1
<1>3. Len(rest) = m /\ \A i \in 1..m : rest[i] = stack[i]
  <2> HIDE DEF m
  <2> QED BY <1>2, PrefixProperties
<1> HIDE DEF rest
<1>4. Len(t.stack) = Len(s.stack) - n /\ Len(rest) - Len(t.stack) = below
  BY <1>1, <1>3 DEF Shorter
<1>5. ASSUME NEW i \in 1..Len(t.stack) PROVE HasTag(h, rest[below + i], t.stack[i])
  <2>1. i \in 1..Len(s.stack) /\ below + i \in 1..m
    BY <1>1, <1>4
  <2>2. rest[below + i] = stack[below + i] /\ t.stack[i] = s.stack[i]
    BY <1>3, <2>1 DEF Shorter
  <2> QED BY <2>1, <2>2 DEF StackFits
<1>6. StackFits(h, rest, t)
  BY <1>1, <1>4, <1>5 DEF StackFits, Shorter
<1> QED BY <1>1, <1>6 DEF rest

LEMMA PushFits ==
    ASSUME NEW h, NEW S, NEW stack \in Seq(S), NEW t, NEW u, NEW ref \in S,
           StackFits(h, stack, t), Shorter(t, u, 1), HasTag(h, ref, Final(u.stack))
    PROVE  StackFits(h, Append(stack, ref), u)
<1> DEFINE below == Len(stack) - Len(t.stack)
           more == Append(stack, ref)
<1>1. /\ Len(stack) \in Nat /\ Len(u.stack) \in Nat /\ Len(t.stack) = Len(u.stack) - 1
      /\ below \in Nat /\ 1 <= Len(u.stack)
  BY LenProperties DEF StackFits, Shorter
<1>2. /\ Len(more) = Len(stack) + 1 /\ more[Len(stack) + 1] = ref
      /\ \A i \in 1..Len(stack) : more[i] = stack[i]
  BY AppendProperties
<1> HIDE DEF more
<1>3. Len(more) - Len(u.stack) = below
  BY <1>1, <1>2
<1>4. ASSUME NEW i \in 1..Len(u.stack) PROVE HasTag(h, more[below + i], u.stack[i])
  <2>1. CASE i = Len(u.stack)
    <3>1. below + i = Len(stack) + 1
      BY <1>1, <2>1
    <3> QED BY <1>2, <2>1, <3>1 DEF Final
  <2>2. CASE i # Len(u.stack)
    <3>1. i \in 1..Len(t.stack) /\ below + i \in 1..Len(stack)
      BY <1>1, <2>2
    <3>2. more[below + i] = stack[below + i] /\ t.stack[i] = u.stack[i]
      BY <1>2, <3>1 DEF Shorter
    <3> QED BY <3>1, <3>2 DEF StackFits
  <2> QED BY <2>1, <2>2
<1>5. StackFits(h, more, u)
  BY <1>1, <1>3, <1>4 DEF StackFits, Shorter
<1> QED BY <1>5 DEF more

\* The last of the tags is that of the value on top.
LEMMA TopTag ==
    ASSUME NEW h, NEW S, NEW stack \in Seq(S), NEW s \in Shape, StackFits(h, stack, s),
           Len(s.stack) >= 1
    PROVE  HasTag(h, stack[Len(stack)], Final(s.stack)) /\ Len(stack) >= 1
<1>1. Len(stack) \in Nat /\ Len(s.stack) \in Nat
  BY ShapeParts, LenProperties
<1>2. Len(stack) - Len(s.stack) >= 0
  BY DEF StackFits
<1>3. HasTag(h, stack[(Len(stack) - Len(s.stack)) + Len(s.stack)], s.stack[Len(s.stack)])
  <2>1. \A i \in 1..Len(s.stack) : HasTag(h, stack[(Len(stack) - Len(s.stack)) + i], s.stack[i])
    BY DEF StackFits
  <2>2. Len(s.stack) \in 1..Len(s.stack)
    BY <1>1
  <2> QED BY <2>1, <2>2, Zenon
<1>4. (Len(stack) - Len(s.stack)) + Len(s.stack) = Len(stack)
  BY <1>1
<1> QED BY <1>1, <1>2, <1>3, <1>4 DEF Final

-----------------------------------------------------------------------------
(***************************************************************************)
(* Try statements and the block stacks that fit them.                      *)
(***************************************************************************)
LEMMA SomePrefix ==
    ASSUME NEW S, NEW s \in Seq(S), NEW k \in 0..Len(s)
    PROVE  /\ SubSeq(s, 1, k) \in Seq(S) /\ Len(SubSeq(s, 1, k)) = k
           /\ \A i \in 1..k : SubSeq(s, 1, k)[i] = s[i]
           /\ \A m \in 1..k : SubSeq(SubSeq(s, 1, k), 1, m) = SubSeq(s, 1, m)
<1>1. k \in Nat /\ k <= Len(s) /\ Len(s) \in Nat
  BY LenProperties
<1>2. /\ SubSeq(s, 1, k) \in Seq(S) /\ Len(SubSeq(s, 1, k)) = k
      /\ \A i \in 1..k : SubSeq(s, 1, k)[i] = s[i]
  BY <1>1, PrefixProperties
<1>3. ASSUME NEW m \in 1..k
      PROVE  SubSeq(SubSeq(s, 1, k), 1, m) = SubSeq(s, 1, m)
  <2> DEFINE rest == SubSeq(s, 1, k)
  <2> HIDE DEF rest
  <2>1. rest \in Seq(S) /\ Len(rest) = k /\ \A i \in 1..k : rest[i] = s[i]
    BY <1>2 DEF rest
  <2>2. SubSeq(rest, 1, m) = [i \in 1..(m - 1 + 1) |-> rest[1 - 1 + i]]
    BY <1>1, <2>1, SubSeqEntries
  <2>3. SubSeq(s, 1, m) = [i \in 1..(m - 1 + 1) |-> s[1 - 1 + i]]
    BY <1>1, SubSeqEntries
  <2>4. \A i \in 1..(m - 1 + 1) : rest[1 - 1 + i] = s[1 - 1 + i]
    BY <1>1, <2>1
  <2> QED BY <2>2, <2>3, <2>4 DEF rest
<1> QED BY <1>2, <1>3

LEMMA HandlersPrefix ==
    ASSUME NEW shapes, NEW tries \in Seq(Tries), NEW k \in 0..Len(tries),
           HandlersIn(shapes, tries)
    PROVE  HandlersIn(shapes, SubSeq(tries, 1, k)) /\ SubSeq(tries, 1, k) \in Seq(Tries)
<1> DEFINE some == SubSeq(tries, 1, k)
<1>1. /\ some \in Seq(Tries) /\ Len(some) = k /\ \A i \in 1..k : some[i] = tries[i]
      /\ \A m \in 1..k : SubSeq(some, 1, m) = SubSeq(tries, 1, m)
  BY SomePrefix
<1> HIDE DEF some
<1>2. \A m \in 1..k : m \in 1..Len(tries)
  BY LenProperties
<1>3. HandlersIn(shapes, some)
  BY <1>1, <1>2 DEF HandlersIn
<1> QED BY <1>1, <1>3 DEF some

LEMMA BlocksFitFrom ==
    ASSUME NEW bs, NEW ts, NEW below, below >= 0, Len(bs) - Len(ts) = below,
           \A j \in 1..below : Leftover(bs[j]),
           \A k \in 1..Len(ts) : /\ bs[below + k].kind = "TryExcept"
                                 /\ bs[below + k].begin = ts[k].begin
                                 /\ bs[below + k].target = ts[k].target
    PROVE  BlocksFit(bs, ts)
BY Zenon DEF BlocksFit

LEMMA BlocksPrefix ==
    ASSUME NEW S, NEW blocks \in Seq(S), NEW tries \in Seq(Tries), BlocksFit(blocks, tries),
           NEW k \in 0..Len(tries)
    PROVE  /\ Len(blocks) - Len(tries) + k \in 0..Len(blocks)
           /\ BlocksFit(SubSeq(blocks, 1, Len(blocks) - Len(tries) + k), SubSeq(tries, 1, k))
<1> DEFINE below == Len(blocks) - Len(tries)
           bs == SubSeq(blocks, 1, below + k)
           ts == SubSeq(tries, 1, k)
<1>1. Len(blocks) \in Nat /\ Len(tries) \in Nat /\ below \in Nat /\ k \in Nat
  BY LenProperties DEF BlocksFit
<1>2. below + k \in 0..Len(blocks)
  BY <1>1
<1>3. Len(bs) = below + k /\ \A i \in 1..(below + k) : bs[i] = blocks[i]
  BY <1>2, SomePrefix
<1>4. Len(ts) = k /\ \A i \in 1..k : ts[i] = tries[i]
  BY SomePrefix
<1> HIDE DEF bs, ts
<1>5. /\ \A j \in 1..below : Leftover(blocks[j])
      /\ \A m \in 1..Len(tries) :
            /\ blocks[below + m].kind = "TryExcept"
            /\ blocks[below + m].begin = tries[m].begin
            /\ blocks[below + m].target = tries[m].target
  BY DEF BlocksFit
<1> HIDE DEF below
<1>6. \A j \in 1..below : j \in 1..(below + k)
  BY <1>1
<1>7. \A m \in 1..k : m \in 1..Len(tries) /\ below + m \in 1..(below + k)
  BY <1>1
<1>8. Len(bs) - Len(ts) = below
  BY <1>1, <1>3, <1>4
<1>9. BlocksFit(bs, ts)
  <2>1. /\ \A j \in 1..below : Leftover(bs[j])
        /\ \A m \in 1..k : /\ bs[below + m].kind = "TryExcept"
                           /\ bs[below + m].begin = ts[m].begin
                           /\ bs[below + m].target = ts[m].target
    BY <1>3, <1>4, <1>5, <1>6, <1>7
  <2>2. below >= 0
    BY <1>1
  <2> QED BY <1>4, <1>8, <2>1, <2>2, BlocksFitFrom
<1> QED BY <1>2, <1>9 DEF bs, ts, below

\* What PopBlock leaves.
LEMMA BlocksDropped ==
    ASSUME NEW S, NEW blocks \in Seq(S), blocks # <<>>,
           NEW tries \in Seq(Tries), BlocksFit(blocks, tries)
    PROVE  /\ tries # <<>> => BlocksFit(ButFinal(blocks), ButFinal(tries))
           /\ tries = <<>> => BlocksFit(ButFinal(blocks), tries)
<1> DEFINE n == Len(blocks)
<1>1. n \in Nat /\ n # 0 /\ Len(tries) \in Nat
  BY LenProperties, EmptySeq
<1>2. CASE tries # <<>>
  <2>1. Len(tries) # 0
    BY <1>2, EmptySeq
  <2>2. Len(tries) - 1 \in 0..Len(tries)
    BY <1>1, <2>1
  <2>3. BlocksFit(SubSeq(blocks, 1, n - Len(tries) + (Len(tries) - 1)),
                  SubSeq(tries, 1, Len(tries) - 1))
    BY <2>2, BlocksPrefix
  <2>4. n - Len(tries) + (Len(tries) - 1) = n - 1
    BY <1>1
  <2> QED BY <1>2, <2>3, <2>4 DEF ButFinal
<1>3. CASE tries = <<>>
  <2> DEFINE bs == SubSeq(blocks, 1, n - 1)
  <2>1. Len(bs) = n - 1 /\ \A i \in 1..(n - 1) : bs[i] = blocks[i]
    <3>1. n - 1 \in 0..Len(blocks)
      BY <1>1
    <3> QED BY <3>1, SomePrefix
  <2>2. Len(tries) = 0
    BY <1>3
  <2>3. \A j \in 1..n : Leftover(blocks[j])
    BY <1>1, <2>2 DEF BlocksFit
  <2> HIDE DEF bs
  <2>4. BlocksFit(bs, tries)
    BY <1>1, <2>1, <2>2, <2>3 DEF BlocksFit
  <2> QED BY <1>3, <2>4 DEF ButFinal, bs
<1> QED BY <1>2, <1>3

LEMMA LeftoverPushed ==
    ASSUME NEW S, NEW blocks \in Seq(S), NEW b \in S, Leftover(b), BlocksFit(blocks, <<>>)
    PROVE  BlocksFit(Append(blocks, b), <<>>)
<1> DEFINE n == Len(blocks)
           more == Append(blocks, b)
<1>1. n \in Nat /\ Len(more) = n + 1 /\ more[n + 1] = b /\ \A i \in 1..n : more[i] = blocks[i]
  BY LenProperties, AppendProperties
<1> HIDE DEF more
<1>2. \A j \in 1..n : Leftover(blocks[j])
  BY <1>1 DEF BlocksFit
<1>3. \A j \in 1..(n + 1) : j = n + 1 \/ j \in 1..n
  BY <1>1
<1>4. \A j \in 1..(n + 1) : Leftover(more[j])
  BY <1>1, <1>2, <1>3
<1>5. BlocksFit(more, <<>>)
  BY <1>1, <1>4 DEF BlocksFit
<1> QED BY <1>5 DEF more

LEMMA TryPushed ==
    ASSUME NEW S, NEW blocks \in Seq(S), NEW tries \in Seq(Tries), BlocksFit(blocks, tries),
           NEW b \in S, NEW t \in Tries,
           b.kind = "TryExcept" /\ b.begin = t.begin /\ b.target = t.target
    PROVE  BlocksFit(Append(blocks, b), Append(tries, t))
<1> DEFINE n == Len(blocks)
           k == Len(tries)
           below == n - k
           bs == Append(blocks, b)
           ts == Append(tries, t)
<1>1. n \in Nat /\ k \in Nat /\ below \in Nat /\ below + k = n
  BY LenProperties DEF BlocksFit
<1>2. Len(bs) = n + 1 /\ bs[n + 1] = b /\ \A i \in 1..n : bs[i] = blocks[i]
  BY AppendProperties
<1>3. Len(ts) = k + 1 /\ ts[k + 1] = t /\ \A i \in 1..k : ts[i] = tries[i]
  BY AppendProperties
<1>4. /\ \A j \in 1..below : Leftover(blocks[j])
      /\ \A m \in 1..k :
            /\ blocks[below + m].kind = "TryExcept"
            /\ blocks[below + m].begin = tries[m].begin
            /\ blocks[below + m].target = tries[m].target
  BY DEF BlocksFit
<1> HIDE DEF bs, ts, below, n, k
<1>5. Len(bs) - Len(ts) = below
  BY <1>1, <1>2, <1>3
<1>6. \A j \in 1..below : Leftover(bs[j])
  BY <1>1, <1>2, <1>4
<1>7. ASSUME NEW m \in 1..(k + 1)
      PROVE  /\ bs[below + m].kind = "TryExcept"
             /\ bs[below + m].begin = ts[m].begin
             /\ bs[below + m].target = ts[m].target
  <2>1. CASE m = k + 1
    <3>1. below + m = n + 1
      BY <1>1, <2>1
    <3> QED BY <1>2, <1>3, <2>1, <3>1
  <2>2. CASE m # k + 1
    <3>1. m \in 1..k /\ below + m \in 1..n
      BY <1>1, <2>2
    <3> QED BY <1>2, <1>3, <1>4, <3>1
  <2> QED BY <2>1, <2>2
<1>8. BlocksFit(bs, ts)
  <2>1. below >= 0
    BY <1>1
  <2>2. \A m \in 1..Len(ts) : /\ bs[below + m].kind = "TryExcept"
                              /\ bs[below + m].begin = ts[m].begin
                              /\ bs[below + m].target = ts[m].target
    BY <1>3, <1>7
  <2> QED BY <1>5, <1>6, <2>1, <2>2, BlocksFitFrom
<1> QED BY <1>8 DEF bs, ts

-----------------------------------------------------------------------------
(***************************************************************************)
(* Where the instructions lead.                                            *)
(***************************************************************************)
LEMMA ObeysAt ==
    ASSUME NEW is, NEW shapes, Obeys(is, shapes), NEW a \in DOMAIN shapes
    PROVE  /\ a \in Nat /\ a < Len(is) /\ shapes[a] \in Shape
           /\ Allowed(is, a, shapes[a]) /\ Needed(is[a + 1]) <= Len(shapes[a].stack)
           /\ \A to \in Flow(is[a + 1], a, shapes[a]) : Has(shapes, to.address, to.shape)
           /\ \A k \in 1..Len(shapes[a].tries) : InForce(is, shapes[a].tries[k], a)
           /\ HandlersIn(shapes, shapes[a].tries)
<1>1. a \in 0..(Len(is) - 1) /\ shapes[a] \in Shape /\ Allowed(is, a, shapes[a])
  BY DEF Obeys
<1>2. Needed(is[a + 1]) <= Len(shapes[a].stack)
  BY <1>1 DEF Allowed
<1> QED BY <1>1, <1>2 DEF Obeys

\* An address that the instruction at a leads to has the shape that results.
LEMMA Led ==
    ASSUME NEW is, NEW shapes, Obeys(is, shapes), NEW a \in DOMAIN shapes, NEW b, NEW t,
           To(b, t) \in Flow(is[a + 1], a, shapes[a])
    PROVE  b \in DOMAIN shapes /\ shapes[b] = t
<1>1. Has(shapes, To(b, t).address, To(b, t).shape)
  BY ObeysAt
<1>2. To(b, t).address = b /\ To(b, t).shape = t
  BY DEF To
<1> QED BY <1>1, <1>2 DEF Has

LEMMA StraightFlow ==
    ASSUME NEW inst, NEW a, NEW s, inst.op \in Straight
    PROVE  To(a + 1, Turned(s, Needed(inst), Pushed(inst))) \in Flow(inst, a, s)
<1> DEFINE to == To(a + 1, Turned(s, Needed(inst), Pushed(inst)))
<1>1. \A o \in {"DupTop", "GetIter", "ForIter", "JumpForward", "JumpAbsolute", "PopJumpIfFalse",
                "SetupLoop", "SetupExcept", "PopBlock", "PopExcept"} : o \notin Straight
  BY DEF Straight, Silent, Giving
<1> HIDE DEF to
<1>2. Flow(inst, a, s) = {to}
  BY <1>1 DEF Flow, to
<1> QED BY <1>2 DEF to

LEMMA OtherFlow ==
    ASSUME NEW inst, NEW a, NEW s
    PROVE  /\ inst.op = "DupTop" => To(a + 1, Turned(s, 0, <<Final(s.stack)>>)) \in Flow(inst, a, s)
           /\ inst.op = "GetIter" => To(a + 1, Turned(s, 1, <<"iter">>)) \in Flow(inst, a, s)
           /\ inst.op = "ForIter" =>
                /\ To(a + 1, Turned(s, 0, <<"any">>)) \in Flow(inst, a, s)
                /\ To(a + 1 + Words(inst.arg), Turned(s, 1, <<>>)) \in Flow(inst, a, s)
           /\ inst.op = "JumpForward" => To(a + 1 + Words(inst.arg), s) \in Flow(inst, a, s)
           /\ inst.op = "JumpAbsolute" => To(Words(inst.arg), s) \in Flow(inst, a, s)
           /\ inst.op = "PopJumpIfFalse" =>
                /\ To(a + 1, Turned(s, 1, <<>>)) \in Flow(inst, a, s)
                /\ To(Words(inst.arg), Turned(s, 1, <<>>)) \in Flow(inst, a, s)
           /\ inst.op = "SetupLoop" => To(a + 1, s) \in Flow(inst, a, s)
           /\ inst.op = "SetupExcept" =>
                /\ To(a + 1, [s EXCEPT !.tries = Append(s.tries, TryAt(inst, a))])
                        \in Flow(inst, a, s)
                /\ To(TryAt(inst, a).target, Handler(Append(s.tries, TryAt(inst, a))))
                        \in Flow(inst, a, s)
           /\ inst.op = "PopBlock" =>
                To(a + 1, IF s.tries = <<>> THEN s ELSE Leaving(s)) \in Flow(inst, a, s)
           /\ inst.op = "PopExcept" =>
                To(a + 1, [Entry EXCEPT !.tries = ButFinal(s.tries)]) \in Flow(inst, a, s)
<1> DEFINE op == inst.op
<1>1. \A o \in {"DupTop", "GetIter", "ForIter", "JumpForward", "JumpAbsolute", "PopJumpIfFalse",
                "SetupLoop", "SetupExcept", "PopBlock", "PopExcept"} : o \notin Straight
  BY DEF Straight, Silent, Giving
<1> QED BY <1>1 DEF Flow

-----------------------------------------------------------------------------
(***************************************************************************)
(* Exceptions.  What a step raises is no StopIteration, unless an iterator *)
(* is exhausted, and stays what it is.                                     *)
(***************************************************************************)
\* Enough of a store to search its classes.
Classes(h) ==
    /\ Len(h.objs) \in Nat
    /\ \A r \in Refs(h) : /\ h.objs[r].class \in Refs(h)
                          /\ \A b \in Bases(h, r) : b \in Refs(h) /\ b < r

LEMMA AncestorsOf ==
    ASSUME NEW h, Classes(h), NEW c \in Refs(h)
    PROVE  /\ c \in Ancestors(h, c) /\ Ancestors(h, c) \subseteq Refs(h)
           /\ \A d \in Ancestors(h, c) : Bases(h, d) \subseteq Ancestors(h, c)
           /\ \A S \in SUBSET Refs(h) :
                c \in S /\ (\A d \in S : Bases(h, d) \subseteq S) => Ancestors(h, c) \subseteq S
<1> DEFINE n == Len(h.objs)
           next == [r \in Refs(h) |-> Bases(h, r)]
<1>1. n \in Nat /\ Refs(h) = 1..n /\ c \in 1..n
  BY DEF Classes, Refs
<1>2. \A d \in 1..n : next[d] = Bases(h, d)
  BY <1>1
<1>3. IsGraph(n, next) /\ Older(n, next)
  BY <1>1 DEF IsGraph, Older, Classes
<1> HIDE DEF next
<1>4. Ancestors(h, c) = Reach(n, next, c)
  BY <1>1, <1>2, <1>3, AncestorsReach
<1> HIDE DEF n
<1>5. c \in Reach(n, next, c) /\ Reach(n, next, c) \subseteq 1..n
  BY <1>1 DEF Reach
<1>6. ASSUME NEW d \in Reach(n, next, c), NEW e \in Bases(h, d) PROVE e \in Reach(n, next, c)
  <2>1. d \in 1..n /\ e \in next[d] /\ e \in 1..n
    BY <1>2, <1>3, <1>5 DEF IsGraph
  <2>2. ASSUME NEW S \in SUBSET (1..n), c \in S, ClosedUnder(next, S) PROVE e \in S
    BY <2>1, <2>2 DEF Reach, ClosedUnder
  <2> QED BY <2>1, <2>2 DEF Reach
<1>7. ASSUME NEW S \in SUBSET (1..n), c \in S, \A d \in S : Bases(h, d) \subseteq S
      PROVE  Reach(n, next, c) \subseteq S
  <2>1. ClosedUnder(next, S)
    BY <1>2, <1>7 DEF ClosedUnder
  <2> QED BY <1>7, <2>1 DEF Reach
<1> QED BY <1>1, <1>4, <1>5, <1>6, <1>7

\* The bases of the primitive classes are never changed.
PrimitivesKept(h) == \A r \in 1..28 : r \in Refs(h) /\ h.objs[r].bases = PrimitiveBases(r)

LEMMA ExceptionBases ==
    /\ \A r \in {nameerror, typeerror} : PrimitiveBases(r) = <<exception>>
    /\ PrimitiveBases(processorerror) = <<baseexception>>
    /\ PrimitiveBases(exception) = <<baseexception>>
    /\ PrimitiveBases(baseexception) = <<object>> /\ PrimitiveBases(object) = <<>>
BY DEF PrimitiveBases, object, none, int_type, bool_type, true_obj, false_obj, baseexception,
       processorerror, exception, nameerror, typeerror, lookuperror, keyerror

\* The classes that the machine raises.
Raised == {nameerror, typeerror, processorerror, baseexception}

LEMMA RaisedIsRaisable ==
    ASSUME NEW h, Classes(h), PrimitivesKept(h), NEW class \in Raised, NEW ref,
           h.objs[ref].class = class, KindOf(h, ref) = "String"
    PROVE  Raisable(h, ref)
<1> DEFINE S == {nameerror, typeerror, processorerror, exception, baseexception, object}
<1>1. S \subseteq 1..28 /\ stopiteration \notin S /\ class \in S
  BY DEF Raised, nameerror, typeerror, processorerror, exception, baseexception, object,
         stopiteration
<1>2. S \subseteq Refs(h)
  BY <1>1 DEF PrimitivesKept
<1>3. \A d \in S : h.objs[d].bases \in {<<exception>>, <<baseexception>>, <<object>>, <<>>}
  BY <1>1, ExceptionBases DEF PrimitivesKept
<1>4. exception \in S /\ baseexception \in S /\ object \in S
  OBVIOUS
<1> HIDE DEF S
<1>5. ASSUME NEW d \in S PROVE Bases(h, d) \subseteq S
  <2>1. \A x : {<<x>>[i] : i \in DOMAIN <<x>>} = {x}
    OBVIOUS
  <2>2. {<<>>[i] : i \in DOMAIN <<>>} = {}
    OBVIOUS
  <2> QED BY <1>3, <1>4, <2>1, <2>2 DEF Bases
<1>6. Ancestors(h, class) \subseteq S
  <2>1. class \in Refs(h) /\ S \in SUBSET Refs(h)
    BY <1>1, <1>2
  <2>2. \A T \in SUBSET Refs(h) :
            class \in T /\ (\A d \in T : Bases(h, d) \subseteq T) => Ancestors(h, class) \subseteq T
    BY <2>1, AncestorsOf
  <2> QED BY <1>1, <1>5, <2>1, <2>2, Zenon
<1> QED BY <1>1, <1>6 DEF Raisable, NativeIsInstance, NativeIsSubclass

LEMMA StoreClasses ==
    ASSUME NEW h, HeapOK(h), Store(h)
    PROVE  Classes(h)
<1>1. Len(h.objs) \in Nat
  BY StoreLen
<1>2. ASSUME NEW r \in Refs(h)
      PROVE  /\ h.objs[r].class \in Refs(h)
             /\ \A b \in Bases(h, r) : b \in Refs(h) /\ b < r
  <2>1. h.objs[r].class \in Refs(h) /\ h.objs[r].bases \in Seq(Refs(h))
    BY DEF HeapOK, ObjectOK
  <2>2. \A b \in Bases(h, r) : b < r
    BY DEF Store, Sound
  <2>3. \A b \in Bases(h, r) : b \in Refs(h)
    BY <2>1, ElementOfSeq DEF Bases
  <2> QED BY <2>1, <2>2, <2>3
<1> QED BY <1>1, <1>2 DEF Classes

\* What can be raised stays so, and the tag of a value stays right.
LEMMA TagKept ==
    ASSUME StableInv, NEW h, Stepped(h), Classes(h), NEW ref \in Refs(heap), NEW tag,
           HasTag(heap, ref, tag)
    PROVE  HasTag(h, ref, tag)
<1>1. KindOf(h, ref) = KindOf(heap, ref) /\ h.objs[ref].class = heap.objs[ref].class
  BY ObjectKept
<1>2. ASSUME Raisable(heap, ref) PROVE Raisable(h, ref)
  <2> DEFINE c == heap.objs[ref].class
             S == Ancestors(heap, c)
  <2>1. Classes(heap) /\ c \in Refs(heap)
    BY HeapReached, StoreClasses DEF Classes
  <2> HIDE DEF c
  <2>2. /\ c \in S /\ S \subseteq Refs(heap) /\ \A d \in S : Bases(heap, d) \subseteq S
    BY <2>1, AncestorsOf
  <2> HIDE DEF S
  <2>3. Refs(heap) \subseteq Refs(h)
    BY <2>1 DEF Stepped, Longer, Refs, Classes
  <2>4. \A d \in S : Bases(h, d) \subseteq S
    BY <2>2, ObjectKept DEF Bases
  <2>5. Ancestors(h, c) \subseteq S
    BY <2>1, <2>2, <2>3, <2>4, AncestorsOf
  <2> QED BY <1>1, <1>2, <2>5 DEF Raisable, NativeIsInstance, NativeIsSubclass, S, c
<1> QED BY <1>1, <1>2 DEF HasTag

LEMMA PrimitivesStay ==
    ASSUME StableInv, NEW h, Stepped(h), PrimitivesKept(heap)
    PROVE  PrimitivesKept(h)
<1>1. Refs(heap) \subseteq Refs(h)
  BY StoreLen DEF Stepped, Longer, Refs, StableInv
<1> QED BY <1>1, ObjectKept DEF PrimitivesKept

-----------------------------------------------------------------------------
(***************************************************************************)
(* Frames that fit their shapes.                                           *)
(***************************************************************************)
Coded(f) == Obeys(f.instructions, ShapesOf(f))

Follows(h, fs) ==
    /\ \A i \in 1..Len(fs) : Coded(fs[i])
    /\ \A i \in 1..Len(fs) : IF i = Len(fs) THEN Runs(h, fs[i]) ELSE Waits(h, fs[i])

\* A frame that has its shape but for a value on top.
Lacks(h, f, tag) ==
    /\ f.pc \in DOMAIN ShapesOf(f)
    /\ ShapeOf(f).stack # <<>> /\ Final(ShapeOf(f).stack) = tag
    /\ Fits(h, f, Turned(ShapeOf(f), 1, <<>>))

\* A frame whose try statements' handlers are where the blocks say.
Covered(f) ==
    \E tries \in Seq(Tries) : BlocksFit(f.blocks, tries) /\ HandlersIn(ShapesOf(f), tries)

\* What is known of a step of a verified program before it is known which.
Stepping ==
    /\ StableInv /\ Stepped(heap') /\ Classes(heap') /\ PrimitivesKept(heap')
    /\ Verified(prog) /\ Follows(heap, frames)

\* The call stack in the middle of a step: only its last frame may not wait.
Midway(fs) ==
    /\ FramesOK(heap', fs) /\ fs # <<>>
    /\ \A i \in 1..Len(fs) : Coded(fs[i])
    /\ \A i \in 1..Len(fs) : i < Len(fs) => Waits(heap', fs[i])

LEMMA FrameKept ==
    ASSUME Stepping, NEW f, FrameOK(heap, f)
    PROVE  FrameOK(heap', f)
<1>1. Refs(heap) \subseteq Refs(heap') /\ Spaces(heap) \subseteq Spaces(heap')
  BY HeapReached, StoreLen DEF Stepping, Stepped, Longer, Refs, Spaces
<1> QED BY <1>1, SetsGrow

LEMMA FitsKept ==
    ASSUME Stepping, NEW f, FrameOK(heap, f), NEW s, Len(s.stack) \in Nat, Fits(heap, f, s)
    PROVE  Fits(heap', f, s)
<1> DEFINE below == Len(f.stack) - Len(s.stack)
<1>1. f.stack \in Seq(Refs(heap)) /\ Len(f.stack) \in Nat
  BY FrameParts
<1>2. below \in Nat
  BY <1>1 DEF Fits, StackFits
<1>3. ASSUME NEW i \in 1..Len(s.stack) PROVE HasTag(heap', f.stack[below + i], s.stack[i])
  <2>1. HasTag(heap, f.stack[below + i], s.stack[i])
    BY DEF Fits, StackFits
  <2>2. below + i \in 1..Len(f.stack)
    <3>1. below + Len(s.stack) = Len(f.stack)
      BY <1>1
    <3> HIDE DEF below
    <3> QED BY <1>1, <1>2, <3>1
  <2>3. f.stack[below + i] \in Refs(heap)
    BY <1>1, <2>2, ElementOfSeq
  <2> QED BY <2>1, <2>3, TagKept DEF Stepping
<1> QED BY <1>3 DEF Fits, StackFits

LEMMA ShapeThere ==
    ASSUME NEW f, Coded(f), f.pc \in DOMAIN ShapesOf(f)
    PROVE  ShapeOf(f) \in Shape
BY ObeysAt DEF Coded, ShapeOf

LEMMA RunsKept ==
    ASSUME Stepping, NEW f, FrameOK(heap, f), Coded(f), Runs(heap, f)
    PROVE  Runs(heap', f)
<1>1. Len(ShapeOf(f).stack) \in Nat
  BY ShapeThere, ShapeParts DEF Runs
<1> QED BY <1>1, FitsKept DEF Runs

LEMMA WaitsKept ==
    ASSUME Stepping, NEW f, FrameOK(heap, f), Coded(f), Waits(heap, f)
    PROVE  Waits(heap', f)
<1> DEFINE s == ShapeOf(f)
<1>1. s \in Shape /\ s.stack # <<>>
  BY ShapeThere DEF Waits
<1>2. 1 <= Len(s.stack) /\ Len(s.stack) \in Nat
  BY <1>1, ShapeParts, EmptySeq
<1>3. Len(Turned(s, 1, <<>>).stack) \in Nat
  BY <1>1, <1>2, Popped, ShapeParts
<1> QED BY <1>3, FitsKept DEF Waits

LEMMA PushOnParts ==
    ASSUME NEW h, NEW f, FrameOK(h, f), NEW ref
    PROVE  LET g == PushOn(f, ref)
           IN  /\ g.code = f.code /\ g.instructions = f.instructions /\ g.pc = f.pc
               /\ g.blocks = f.blocks /\ g.stack = Append(f.stack, ref)
<1> DEFINE stack == Append(f.stack, ref)
<1>1. PushOn(f, ref) = [f EXCEPT !.stack = stack]
  BY DEF PushOn
<1> HIDE DEF stack
<1>2. PushOn(f, ref) = Changed(f, stack, f.blocks, f.pc)
  BY <1>1, FrameRecord DEF Changed
<1> QED BY <1>2 DEF Changed, stack

\* The value that a frame lacks makes it fit its shape.
LEMMA Answered ==
    ASSUME NEW h, NEW f, FrameOK(h, f), Coded(f), NEW tag, Lacks(h, f, tag),
           NEW ref, HasTag(h, ref, tag)
    PROVE  Coded(PushOn(f, ref)) /\ Runs(h, PushOn(f, ref))
<1> DEFINE g == PushOn(f, ref)
           u == ShapeOf(f)
           t == Turned(u, 1, <<>>)
           S == Refs(h) \cup {ref}
<1>1. /\ g.code = f.code /\ g.instructions = f.instructions /\ g.pc = f.pc
      /\ g.blocks = f.blocks /\ g.stack = Append(f.stack, ref)
  BY PushOnParts
<1> HIDE DEF g
<1>2. u \in Shape /\ u.stack # <<>> /\ Final(u.stack) = tag /\ Fits(h, f, t)
  BY ShapeThere DEF Lacks
<1>3. 1 <= Len(u.stack)
  BY <1>2, ShapeParts, EmptySeq
<1>4. Shorter(t, u, 1) /\ t.tries = u.tries
  BY <1>2, <1>3, Popped
<1>5. f.stack \in Seq(S)
  BY FrameParts, SeqMonotonic
<1>6. ref \in S
  OBVIOUS
<1> HIDE DEF t, S
<1>7. StackFits(h, Append(f.stack, ref), u)
  BY <1>2, <1>4, <1>5, <1>6, PushFits DEF Fits
<1>8. ShapesOf(g) = ShapesOf(f) /\ ShapeOf(g) = u
  BY <1>1 DEF ShapesOf, ShapeOf
<1>9. Fits(h, g, ShapeOf(g))
  BY <1>1, <1>2, <1>4, <1>7, <1>8 DEF Fits
<1>10. Coded(g)
  BY <1>1, <1>8 DEF Coded
<1>11. Runs(h, g)
  BY <1>1, <1>8, <1>9 DEF Runs, Lacks
<1> QED BY <1>10, <1>11 DEF g

LEMMA WaitsCovered ==
    ASSUME NEW h, NEW f, Coded(f), Waits(h, f) \/ Runs(h, f)
    PROVE  Covered(f)
<1> DEFINE s == ShapeOf(f)
<1>1. f.pc \in DOMAIN ShapesOf(f) /\ s \in Shape
  BY ShapeThere DEF Waits, Runs
<1>2. HandlersIn(ShapesOf(f), s.tries) /\ s.tries \in Seq(Tries)
  BY <1>1, ObeysAt, ShapeParts DEF Coded, ShapeOf
<1>3. BlocksFit(f.blocks, s.tries)
  <2>1. CASE Runs(h, f)
    BY <2>1 DEF Runs, Fits
  <2>2. CASE Waits(h, f)
    <3>1. 1 <= Len(s.stack)
      BY <1>1, <2>2, ShapeParts, EmptySeq DEF Waits
    <3>2. Turned(s, 1, <<>>).tries = s.tries
      BY <1>1, <3>1, Popped
    <3> QED BY <2>2, <3>2 DEF Waits, Fits
  <2> QED BY <2>1, <2>2
<1> QED BY <1>2, <1>3 DEF Covered

-----------------------------------------------------------------------------
(***************************************************************************)
(* The steps that every instruction is made of.                            *)
(***************************************************************************)
LEMMA PanicFollows ==
    ASSUME Stepping, NEW why, Panic(why)
    PROVE  Follows(heap', frames')
BY DEF Panic, Stepping

LEMMA FramesThere ==
    ASSUME Stepping
    PROVE  /\ FramesOK(heap, frames) /\ Len(frames) \in Nat
           /\ \A i \in 1..Len(frames) : FrameOK(heap, frames[i]) /\ Coded(frames[i])
           /\ \A i \in 1..Len(frames) : i < Len(frames) => Waits(heap', frames[i])
           /\ frames # <<>> => /\ Len(frames) \in 1..Len(frames) /\ Top = frames[Len(frames)]
                              /\ Coded(Top) /\ Runs(heap', Top) /\ Runs(heap, Top)
<1>1. FramesOK(heap, frames) /\ Len(frames) \in Nat
  BY FramesLen DEF Stepping, StableInv, IInv, RefsValid
<1>2. \A i \in 1..Len(frames) : FrameOK(heap, frames[i]) /\ Coded(frames[i])
  BY <1>1 DEF FramesOK, Stepping, Follows
<1>3. ASSUME NEW i \in 1..Len(frames), i < Len(frames) PROVE Waits(heap', frames[i])
  <2>1. Waits(heap, frames[i])
    BY <1>1, <1>3 DEF Stepping, Follows
  <2> QED BY <1>2, <2>1, WaitsKept
<1>4. ASSUME frames # <<>>
      PROVE  /\ Len(frames) \in 1..Len(frames) /\ Top = frames[Len(frames)]
             /\ Coded(Top) /\ Runs(heap', Top) /\ Runs(heap, Top)
  <2>1. Len(frames) \in 1..Len(frames)
    BY <1>1, <1>4, FramesLen
  <2>2. Coded(Top) /\ FrameOK(heap, Top) /\ Runs(heap, Top)
    BY <1>2, <2>1 DEF Top, Stepping, Follows
  <2>3. Runs(heap', Top)
    BY <2>2, RunsKept
  <2> QED BY <2>1, <2>2, <2>3 DEF Top
<1> QED BY <1>1, <1>2, <1>3, <1>4

\* The last frame replaced, by one that is to get a value or to be unwound.
LEMMA WithMidway ==
    ASSUME Stepping, frames # <<>>, NEW f, FrameOK(heap', f), Coded(f)
    PROVE  /\ Midway(With(f)) /\ Len(With(f)) = Len(frames) /\ With(f)[Len(frames)] = f
           /\ \A i \in 1..Len(frames) : i < Len(frames) => With(f)[i] = frames[i]
<1> DEFINE fs == With(f)
           n == Len(frames)
<1>1. /\ IsSequence(frames) /\ n \in 1..n
      /\ \A i \in 1..n : FrameOK(heap, frames[i]) /\ Coded(frames[i])
      /\ \A i \in 1..n : i < n => Waits(heap', frames[i])
  BY FramesThere DEF FramesOK
<1>2. fs = [frames EXCEPT ![n] = f]
  BY DEF With
<1> HIDE DEF fs
<1>3. /\ IsSequence(fs) /\ Len(fs) = n
      /\ \A i \in 1..n : fs[i] = IF i = n THEN f ELSE frames[i]
  <2>1. IsSequence(fs)
    BY <1>1, <1>2, LastReplaced
  <2>2. Len(fs) = n
    BY <1>1, <1>2, LastReplaced
  <2>3. \A i \in 1..n : fs[i] = IF i = n THEN f ELSE frames[i]
    BY <1>1, <1>2, LastReplaced
  <2> QED BY <2>1, <2>2, <2>3
<1>4. \A i \in 1..n : FrameOK(heap', fs[i]) /\ Coded(fs[i])
  BY <1>1, <1>3, FrameKept
<1>5. fs # <<>>
  BY <1>1, <1>3, EmptySeq
<1> HIDE DEF n
<1>6. Midway(fs)
  BY <1>1, <1>3, <1>4, <1>5 DEF Midway, FramesOK
<1> QED BY <1>1, <1>3, <1>6 DEF fs, n

LEMMA GoFollows ==
    ASSUME Stepping, frames # <<>>, NEW f, FrameOK(heap', f), Coded(f), Runs(heap', f),
           NEW h, Continue(h, With(f))
    PROVE  Follows(heap', frames')
<1>1. frames' = With(f)
  BY DEF Continue
<1>2. /\ Midway(With(f)) /\ Len(With(f)) = Len(frames) /\ With(f)[Len(frames)] = f
  BY WithMidway
<1> HIDE DEF With
<1>3. \A i \in 1..Len(With(f)) : Coded(With(f)[i])
  BY <1>2 DEF Midway
<1>4. ASSUME NEW i \in 1..Len(With(f)) 
      PROVE  IF i = Len(With(f)) THEN Runs(heap', With(f)[i]) ELSE Waits(heap', With(f)[i])
  <2>1. i # Len(With(f)) => i < Len(With(f))
    BY <1>2, FramesThere
  <2> QED BY <1>2, <2>1 DEF Midway
<1> QED BY <1>1, <1>3, <1>4 DEF Follows

\* The last frame gets the value that it lacks.
LEMMA ReturnFollows ==
    ASSUME NEW h, NEW fs, FramesOK(h, fs), fs # <<>>,
           \A i \in 1..Len(fs) : Coded(fs[i]),
           \A i \in 1..Len(fs) : i < Len(fs) => Waits(h, fs[i]),
           NEW tag, Lacks(h, fs[Len(fs)], tag), NEW ref, HasTag(h, ref, tag)
    PROVE  Follows(h, ReturnTo(fs, ref))
<1> DEFINE n == Len(fs)
           g == PushOn(fs[n], ref)
           gs == ReturnTo(fs, ref)
<1>1. IsSequence(fs) /\ n \in 1..n /\ FrameOK(h, fs[n])
  BY FramesLen DEF FramesOK
<1>2. Coded(g) /\ Runs(h, g)
  BY <1>1, Answered
<1>3. gs = [fs EXCEPT ![n] = g]
  BY DEF ReturnTo
<1> HIDE DEF g, gs
<1>4. Len(gs) = n /\ \A i \in 1..n : gs[i] = IF i = n THEN g ELSE fs[i]
  <2>1. Len(gs) = n
    BY <1>1, <1>3, LastReplaced
  <2>2. \A i \in 1..n : gs[i] = IF i = n THEN g ELSE fs[i]
    BY <1>1, <1>3, LastReplaced
  <2> QED BY <2>1, <2>2
<1>5. \A i \in 1..n : i # n => i < n
  BY <1>1
<1> HIDE DEF n
<1>6. \A i \in 1..n : Coded(fs[i]) /\ (i < n => Waits(h, fs[i]))
  BY DEF n
<1>7. Follows(h, gs)
  BY <1>2, <1>4, <1>5, <1>6 DEF Follows
<1> QED BY <1>7 DEF gs

LEMMA AnswerFollows ==
    ASSUME NEW fs, Midway(fs), NEW tag, Lacks(heap', fs[Len(fs)], tag),
           NEW ref, HasTag(heap', ref, tag), NEW h, Continue(h, ReturnTo(fs, ref))
    PROVE  Follows(heap', frames')
BY ReturnFollows DEF Midway, Continue

LEMMA YieldFollows ==
    ASSUME Stepping, frames # <<>>, NEW n, FrameOK(heap', Drop(Cur, n)), Coded(Drop(Cur, n)),
           NEW tag, Lacks(heap', Drop(Cur, n), tag), NEW ref, HasTag(heap', ref, tag),
           NEW h, Yield(h, n, ref)
    PROVE  Follows(heap', frames')
<1> DEFINE f == Drop(Cur, n)
           fs == With(f)
<1>1. Midway(fs) /\ Len(fs) = Len(frames) /\ fs[Len(fs)] = f
  BY WithMidway
<1>2. Continue(h, With(PushOn(f, ref)))
  BY DEF Yield
<1> HIDE DEF f
<1>3. ReturnTo(fs, ref) = With(PushOn(f, ref))
  <2> DEFINE m == Len(frames)
             g == PushOn(f, ref)
  <2>1. ReturnTo(fs, ref) = [fs EXCEPT ![m] = g]
    BY <1>1 DEF ReturnTo
  <2>2. fs = [frames EXCEPT ![m] = f] /\ With(g) = [frames EXCEPT ![m] = g]
    BY DEF With
  <2> HIDE DEF g, fs, m
  <2>3. [fs EXCEPT ![m] = g] = [frames EXCEPT ![m] = g]
    BY <2>2
  <2> QED BY <2>1, <2>2, <2>3 DEF g
<1> HIDE DEF fs
<1> QED BY <1>1, <1>2, <1>3, AnswerFollows DEF f

-----------------------------------------------------------------------------
(***************************************************************************)
(* Exceptions that are taken.                                              *)
(***************************************************************************)
\* What a handler finds on top of the stack.
Handed(traceback, exc, val) == <<traceback, val, exc, traceback, val, exc>>

LEMMA TryLands ==
    ASSUME NEW h, NEW f, FrameOK(h, f), NEW j, NEW traceback, NEW exc, NEW val,
           f.blocks[j].kind = "TryExcept"
    PROVE  LET g == Land(f, j, traceback, exc, val)
           IN  /\ g.code = f.code /\ g.instructions = f.instructions
               /\ g.pc = f.blocks[j].target
               /\ g.stack = f.stack \o Handed(traceback, exc, val)
               /\ g.blocks = SubSeq(f.blocks, 1, j)
<1> DEFINE g == Land(f, j, traceback, exc, val)
           stack == f.stack \o Handed(traceback, exc, val)
           blocks == SubSeq(f.blocks, 1, j)
           pc == f.blocks[j].target
<1>1. g = [f EXCEPT !.blocks = blocks, !.pc = pc, !.stack = stack]
  BY DEF Land, Handed
<1> HIDE DEF g, stack, blocks, pc
<1>2. g = Changed(f, stack, blocks, pc)
  BY <1>1, ChangedExcept
<1>3. /\ g.code = f.code /\ g.instructions = f.instructions /\ g.pc = pc
      /\ g.stack = stack /\ g.blocks = blocks
  BY <1>2 DEF Changed
<1> QED BY <1>3 DEF g, stack, blocks, pc

LEMMA GotoLands ==
    ASSUME NEW h, NEW f, FrameOK(h, f), NEW j, NEW traceback, NEW exc, NEW val,
           NEW b, b = f.blocks[j], b.kind # "TryExcept", b.pop <= Len(f.stack), b.pop \in Nat,
           NEW g, g = Land(f, j, traceback, exc, val)
    PROVE  /\ g.code = f.code /\ g.instructions = f.instructions /\ g.pc = b.target
           /\ g.stack = SubSeq(f.stack, 1, Len(f.stack) - b.pop)
           /\ g.blocks = SubSeq(f.blocks, 1, j - 1)
<1> DEFINE stack == SubSeq(f.stack, 1, Len(f.stack) - b.pop)
           blocks == SubSeq(f.blocks, 1, j - 1)
<1>1. g = [f EXCEPT !.blocks = blocks, !.pc = b.target, !.stack = stack]
  <2>1. ~(b.pop > Len(f.stack))
    BY FrameParts
  <2> QED BY <2>1 DEF Land
<1> DEFINE pc == b.target
<1> HIDE DEF stack, blocks, pc
<1>2. g = Changed(f, stack, blocks, pc)
  <2>1. g = [f EXCEPT !.blocks = blocks, !.pc = pc, !.stack = stack]
    BY <1>1 DEF pc
  <2> QED BY <2>1, ChangedExcept
<1>3. /\ g.code = f.code /\ g.instructions = f.instructions /\ g.pc = b.target
      /\ g.stack = stack /\ g.blocks = blocks
  BY <1>2 DEF Changed, pc
<1> QED BY <1>3 DEF stack, blocks

LEMMA HandlerParts ==
    ASSUME NEW tries
    PROVE  /\ Handler(tries).open /\ Handler(tries).tries = tries /\ Len(Handler(tries).stack) = 6
           /\ \A i \in 1..6 : Handler(tries).stack[i] # "iter"
           /\ \A i \in 1..6 : i # 3 /\ i # 6 => Handler(tries).stack[i] # "exc"
BY DEF Handler

LEMMA HandlerFits ==
    ASSUME NEW h, NEW S, NEW stack \in Seq(S), NEW traceback, NEW exc, NEW val, Raisable(h, exc),
           NEW tries
    PROVE  StackFits(h, stack \o Handed(traceback, exc, val), Handler(tries))
<1> DEFINE s == Handler(tries)
           pushed == Handed(traceback, exc, val)
           T == S \cup {traceback, val, exc}
           more == stack \o pushed
           n == Len(stack)
<1>1. stack \in Seq(T) /\ pushed \in Seq(T) /\ Len(pushed) = 6 /\ n \in Nat
      /\ pushed[3] = exc /\ pushed[6] = exc
  <2>1. stack \in Seq(T)
    BY SeqMonotonic
  <2> QED BY <2>1, LenProperties DEF Handed
<1> HIDE DEF T, pushed
<1>2. Len(more) = n + 6 /\ more[n + 3] = exc /\ more[n + 6] = exc
  <2>1. /\ Len(more) = Len(stack) + Len(pushed)
        /\ \A i \in 1..(Len(stack) + Len(pushed)) :
              more[i] = IF i <= Len(stack) THEN stack[i] ELSE pushed[i - Len(stack)]
    BY <1>1, ConcatProperties
  <2>2. /\ n + 3 \in 1..(n + 6) /\ ~(n + 3 <= n) /\ (n + 3) - n = 3
        /\ n + 6 \in 1..(n + 6) /\ ~(n + 6 <= n) /\ (n + 6) - n = 6
    BY <1>1
  <2> HIDE DEF more
  <2> QED BY <1>1, <2>1, <2>2
<1> HIDE DEF more
<1>3. s.open /\ Len(s.stack) = 6 /\ \A i \in 1..6 : s.stack[i] # "iter"
      /\ (i # 3 /\ i # 6 => s.stack[i] # "exc")
  BY HandlerParts
<1> HIDE DEF s
<1>4. Len(more) - Len(s.stack) = n
  BY <1>1, <1>2, <1>3
<1>5. \A i \in 1..6 : HasTag(h, more[n + i], s.stack[i])
  BY <1>2, <1>3 DEF HasTag
<1>6. StackFits(h, more, s)
  <2>1. n >= 0
    BY <1>1
  <2> HIDE DEF n
  <2> QED BY <1>3, <1>4, <1>5, <2>1, StackFitsFrom
<1> QED BY <1>6 DEF more, s, pushed

\* What is raised is taken by a try statement that is in force, never by a block
\* that a loop left behind.
LEMMA LandFits ==
    ASSUME NEW h, NEW f, FrameOK(h, f), Coded(f), Covered(f), NEW j \in 1..Len(f.blocks),
           NEW traceback, NEW exc, NEW val, Raisable(h, exc), Takes(h, f.blocks[j], exc)
    PROVE  Coded(Land(f, j, traceback, exc, val)) /\ Runs(h, Land(f, j, traceback, exc, val))
<1> DEFINE g == Land(f, j, traceback, exc, val)
           shapes == ShapesOf(f)
<1>1. PICK tries \in Seq(Tries) : BlocksFit(f.blocks, tries) /\ HandlersIn(shapes, tries)
  BY DEF Covered
<1> DEFINE below == Len(f.blocks) - Len(tries)
           k == j - below
<1>2. Len(f.blocks) \in Nat /\ Len(tries) \in Nat /\ below \in Nat
      /\ f.blocks \in Seq(BlockSet(h)) /\ f.stack \in Seq(Refs(h))
  BY <1>1, FrameParts, LenProperties DEF BlocksFit
<1>3. ~Leftover(f.blocks[j])
  BY DEF Leftover, Takes, Raisable
<1>4. ~(j \in 1..below)
  BY <1>1, <1>3 DEF BlocksFit
<1>5. k \in 1..Len(tries) /\ below + k = j /\ k \in 0..Len(tries)
  <2>1. below + Len(tries) = Len(f.blocks)
    BY <1>2
  <2> HIDE DEF below
  <2>2. below < j /\ j <= below + Len(tries) /\ j \in Nat
    BY <1>2, <1>4, <2>1
  <2> QED BY <1>2, <2>2
<1> HIDE DEF k
<1>6. f.blocks[j].kind = "TryExcept" /\ f.blocks[j].target = tries[k].target
  BY <1>1, <1>5 DEF BlocksFit
<1> DEFINE some == SubSeq(tries, 1, k)
<1>7. Has(shapes, tries[k].target, Handler(some))
  BY <1>1, <1>5 DEF HandlersIn
<1>8. BlocksFit(SubSeq(f.blocks, 1, j), some)
  <2>1. BlocksFit(SubSeq(f.blocks, 1, Len(f.blocks) - Len(tries) + k), some)
    BY <1>1, <1>2, <1>5, BlocksPrefix
  <2> QED BY <1>5, <2>1
<1> HIDE DEF some, below
<1>9. /\ g.code = f.code /\ g.instructions = f.instructions /\ g.pc = tries[k].target
      /\ g.stack = f.stack \o Handed(traceback, exc, val)
      /\ g.blocks = SubSeq(f.blocks, 1, j)
  <2>1. f.blocks[j].kind = "TryExcept"
    BY <1>6
  <2>2. /\ g.code = f.code /\ g.instructions = f.instructions /\ g.pc = f.blocks[j].target
        /\ g.stack = f.stack \o Handed(traceback, exc, val)
        /\ g.blocks = SubSeq(f.blocks, 1, j)
    BY <2>1, TryLands
  <2> QED BY <1>6, <2>2
<1> HIDE DEF g
<1>10. StackFits(h, g.stack, Handler(some))
  BY <1>2, <1>9, HandlerFits
<1>11. ShapesOf(g) = shapes
  BY <1>9 DEF ShapesOf
<1>12. Coded(g)
  BY <1>9, <1>11 DEF Coded
<1>13. g.pc \in DOMAIN shapes /\ ShapeOf(g) = Handler(some)
  BY <1>7, <1>9, <1>11 DEF Has, ShapeOf
<1>14. Runs(h, g)
  BY <1>8, <1>9, <1>10, <1>11, <1>13, HandlerParts DEF Runs, Fits
<1> QED BY <1>12, <1>14 DEF g

\* The call stack cut, and a frame on it that has its shape.
LEMMA CutFollows ==
    ASSUME NEW fs, Midway(fs), NEW i \in 1..Len(fs), NEW g, Coded(g), Runs(heap', g),
           NEW h, Continue(h, Append(SubSeq(fs, 1, i - 1), g))
    PROVE  Follows(heap', frames')
<1> DEFINE below == SubSeq(fs, 1, i - 1)
           gs == Append(below, g)
           S == {fs[k] : k \in 1..Len(fs)}
<1>1. fs \in Seq(S) /\ Len(fs) \in Nat
  BY SequenceLen DEF Midway, FramesOK, IsSequence
<1> HIDE DEF S
<1>2. i - 1 \in Int /\ i - 1 <= Len(fs)
  BY <1>1
<1>3. /\ below \in Seq(S) /\ Len(below) = i - 1
      /\ \A k \in 1..(i - 1) : below[k] = fs[k]
  BY <1>1, <1>2, PrefixProperties
<1>4. IsSequence(below)
  BY <1>3, SeqIsSequence
<1> HIDE DEF below
<1>5. Len(gs) = i /\ gs[i] = g /\ \A k \in 1..(i - 1) : gs[k] = fs[k]
  BY <1>3, <1>4, AppendSequence
<1>6. frames' = gs
  BY DEF Continue, below
<1> HIDE DEF gs
<1>7. ASSUME NEW k \in 1..Len(gs)
      PROVE  Coded(gs[k]) /\ IF k = Len(gs) THEN Runs(heap', gs[k]) ELSE Waits(heap', gs[k])
  <2>1. CASE k = i
    BY <1>5, <2>1
  <2>2. CASE k # i
    <3>1. k \in 1..(i - 1) /\ k < Len(fs) /\ k \in 1..Len(fs) /\ k # Len(gs)
      BY <1>1, <1>5, <2>2
    <3> QED BY <1>5, <3>1 DEF Midway
  <2> QED BY <2>1, <2>2
<1> QED BY <1>6, <1>7 DEF Follows

LEMMA UnwindFollows ==
    ASSUME Stepping, NEW fs, Midway(fs), Covered(fs[Len(fs)]), NEW h, NEW traceback, NEW exc,
           NEW val, heap' = h => Raisable(h, exc), Unwind(h, fs, traceback, exc, val)
    PROVE  Follows(heap', frames')
<1>1. ASSUME NEW i \in 1..Len(fs), NEW j \in 1..Len(fs[i].blocks),
             Catches(h, fs, exc, i, j),
             Continue(h, Append(SubSeq(fs, 1, i - 1), Land(fs[i], j, traceback, exc, val)))
      PROVE  Follows(heap', frames')
  <2>1. heap' = h
    BY <1>1 DEF Continue
  <2>2. FrameOK(heap', fs[i]) /\ Coded(fs[i])
    BY DEF Midway, FramesOK
  <2>3. Covered(fs[i])
    <3>1. CASE i = Len(fs)
      BY <3>1
    <3>2. CASE i # Len(fs)
      <4>1. i < Len(fs)
        BY <3>2, FramesLen DEF Midway
      <4>2. Waits(heap', fs[i])
        BY <4>1 DEF Midway
      <4> QED BY <2>2, <4>2, WaitsCovered
    <3> QED BY <3>1, <3>2
  <2>4. Takes(heap', fs[i].blocks[j], exc) /\ Raisable(heap', exc)
    BY <1>1, <2>1 DEF Catches
  <2> DEFINE g == Land(fs[i], j, traceback, exc, val)
  <2>5. Coded(g) /\ Runs(heap', g)
    BY <2>2, <2>3, <2>4, LandFits
  <2> HIDE DEF g
  <2> QED BY <1>1, <2>5, CutFollows DEF g
<1>2. CASE Panic("UncaughtException")
  BY <1>2, PanicFollows
<1> QED BY <1>1, <1>2 DEF Unwind

LEMMA NewInstanceClass ==
    ASSUME NEW h, HeapOK(h), NEW name, NEW class \in Refs(h), NEW content
    PROVE  LET h2 == NewInstance(h, name, class, content)
           IN  h2.objs[Newest(h2)].class = class /\ KindOf(h2, Newest(h2)) = content.kind
<1> DEFINE h1 == NewSpace(h, EmptyMap)
           o == [version |-> Len(h.objs) + 1, name |-> name, class |-> class,
                 bases |-> <<>>, attrs |-> Len(h1.spaces), content |-> content]
           h2 == NewInstance(h, name, class, content)
           spaces == Append(h.spaces, EmptyMap)
<1>1. h = [objs |-> h.objs, spaces |-> h.spaces] /\ IsSequence(h.objs)
  BY DEF HeapOK
<1>2. h1 = [h EXCEPT !.spaces = spaces]
  BY DEF NewSpace
<1> HIDE DEF spaces
<1>3. h1 = [objs |-> h.objs, spaces |-> spaces]
  BY <1>1, <1>2
<1> DEFINE objs == Append(h.objs, o)
<1>4. h2 = [h1 EXCEPT !.objs = objs]
  <2>1. h1.objs = h.objs
    BY <1>3
  <2> HIDE DEF h1
  <2> QED BY <2>1 DEF NewInstance, Allocate, h1
<1>5. Len(objs) = Len(h.objs) + 1 /\ objs[Len(h.objs) + 1] = o
  BY <1>1, AppendSequence
<1>6. o.class = class /\ o.content = content
  OBVIOUS
<1> HIDE DEF objs, h1, o, h2
<1>7. h2.objs = objs
  BY <1>3, <1>4
<1> QED BY <1>5, <1>6, <1>7 DEF h2, Newest, KindOf

LEMMA RaiseFollows ==
    ASSUME Stepping, NEW fs, Midway(fs), Covered(fs[Len(fs)]), NEW h, HeapOK(h),
           NEW class \in Raised, Raise(h, fs, class)
    PROVE  Follows(heap', frames')
<1> DEFINE content == StringOf("message")
           h2 == NewInstance(h, NoName, class, content)
<1>1. class \in Refs(h)
  <2>1. class \in 1..28
    BY DEF Raised, nameerror, typeerror, processorerror, baseexception
  <2> QED BY <2>1, PrimitiveRefs
<1>2. content.kind = "String"
  BY DEF StringOf, Content
<1> HIDE DEF content
<1>3. h2.objs[Newest(h2)].class = class /\ KindOf(h2, Newest(h2)) = "String"
  BY <1>1, <1>2, NewInstanceClass
<1>4. Unwind(h2, fs, none, Newest(h2), none)
  BY DEF Raise, content
<1> HIDE DEF h2
<1>5. heap' = h2 => Raisable(h2, Newest(h2))
  BY <1>3, RaisedIsRaisable DEF Stepping
<1> QED BY <1>4, <1>5, UnwindFollows

-----------------------------------------------------------------------------
(***************************************************************************)
(* Calls.  The code that a call starts has the shape of its start.         *)
(***************************************************************************)
LEMMA EntryFits == ASSUME NEW h PROVE StackFits(h, <<>>, Entry) /\ BlocksFit(<<>>, Entry.tries)
<1>1. Len(<<>>) = 0 /\ Entry.stack = <<>> /\ Entry.tries = <<>>
  BY DEF Entry
<1> QED BY <1>1 DEF StackFits, BlocksFit

LEMMA NewFrameRuns ==
    ASSUME NEW h, NEW obj, NEW id, NEW is, NEW locals, Obeys(is, Shapes[prog][id])
    PROVE  Coded(NewFrame(obj, id, is, locals)) /\ Runs(h, NewFrame(obj, id, is, locals))
<1> DEFINE f == NewFrame(obj, id, is, locals)
<1>1. f.code = id /\ f.instructions = is /\ f.pc = 0 /\ f.stack = <<>> /\ f.blocks = <<>>
  BY DEF NewFrame
<1> HIDE DEF f
<1>2. Coded(f)
  BY <1>1 DEF Coded, ShapesOf
<1>3. f.pc \in DOMAIN ShapesOf(f) /\ ShapeOf(f) = Entry
  BY <1>1 DEF Obeys, ShapesOf, ShapeOf
<1>4. Runs(h, f)
  BY <1>1, <1>3, EntryFits DEF Runs, Fits
<1> QED BY <1>2, <1>4 DEF f

LEMMA CallEnters ==
    ASSUME NEW fs, Midway(fs), Waits(heap', fs[Len(fs)]), NEW g, Coded(g), Runs(heap', g),
           NEW h, Continue(h, Append(fs, g))
    PROVE  Follows(heap', frames')
<1> DEFINE gs == Append(fs, g)
<1>1. Len(fs) \in Nat /\ IsSequence(fs)
  BY FramesLen DEF Midway, FramesOK
<1>2. /\ Len(gs) = Len(fs) + 1 /\ gs[Len(fs) + 1] = g
      /\ \A k \in 1..Len(fs) : gs[k] = fs[k]
  BY <1>1, AppendSequence
<1>3. frames' = gs
  BY DEF Continue
<1> HIDE DEF gs
<1>4. ASSUME NEW k \in 1..Len(gs)
      PROVE  Coded(gs[k]) /\ IF k = Len(gs) THEN Runs(heap', gs[k]) ELSE Waits(heap', gs[k])
  <2>1. CASE k = Len(fs) + 1
    BY <1>2, <2>1
  <2>2. CASE k # Len(fs) + 1
    <3>1. k \in 1..Len(fs) /\ (k = Len(fs) \/ k < Len(fs)) /\ k # Len(gs)
      BY <1>1, <1>2, <2>2
    <3> QED BY <1>2, <3>1 DEF Midway
  <2> QED BY <2>1, <2>2
<1> QED BY <1>3, <1>4 DEF Follows

LEMMA CodeObeys ==
    ASSUME Stepping, NEW id \in 1..Len(Code)
    PROVE  /\ Obeys(Code[id].instructions, Shapes[prog][id])
           /\ IsBody(Code[id].instructions)
                => Obeys(ClassBody(Code[id].instructions, object), Shapes[prog][id])
BY DEF Stepping, Verified, Code

LEMMA CallCodeFollows ==
    ASSUME Stepping, NEW fs, Midway(fs), Waits(heap', fs[Len(fs)]), NEW h, HeapOK(h),
           NEW func \in Refs(h), KindOf(h, func) = "Function",
           KindOf(h, h.objs[func].content.refs[1]) = "Code",
           NEW args, NEW keys, NEW values, CallCode(h, fs, func, args, keys, values)
    PROVE  Follows(heap', frames')
<1> DEFINE f  == h.objs[func].content
           id == h.objs[f.refs[1]].content.num
           c  == Code[id]
           defaults == h.spaces[f.num]
<1>1. CASE Panic("panic")
  BY <1>1, PanicFollows
<1>2. CASE ~Panic("panic")
  <2>1. PICK rest, h2 : Continue(h2, Append(fs, NewFrame(func, id, c.instructions, Len(h2.spaces))))
    BY <1>2 DEF CallCode
  <2>2. id \in 1..Len(Code)
    BY FunctionCode DEF KindOf
  <2> DEFINE g == NewFrame(func, id, c.instructions, Len(h2.spaces))
  <2>3. Coded(g) /\ Runs(heap', g)
    BY <2>2, CodeObeys, NewFrameRuns
  <2> HIDE DEF g
  <2> QED BY <2>1, <2>3, CallEnters DEF g
<1> QED BY <1>1, <1>2

\* Two codes that differ in the arguments of PushImmediate only.
Alike(is1, is2) ==
    /\ Len(is1) = Len(is2)
    /\ \A i \in 1..Len(is1) :
        is1[i] = is2[i] \/ (is1[i].op = "PushImmediate" /\ is2[i].op = "PushImmediate")

LEMMA PushImmediateFlow ==
    ASSUME NEW inst, inst.op = "PushImmediate", NEW a, NEW s
    PROVE  /\ Needed(inst) = 0 /\ Flow(inst, a, s) = {To(a + 1, Turned(s, 0, <<"any">>))}
<1>1. Needed(inst) = 0
  BY DEF Needed
<1>2. Pushed(inst) = <<"any">> /\ inst.op \in Straight
  BY DEF Pushed, Giving, Straight
<1> QED BY <1>1, <1>2 DEF Flow

LEMMA AlikeObeys ==
    ASSUME NEW is1, NEW is2, Alike(is1, is2), Len(is1) \in Nat, NEW shapes, Obeys(is1, shapes)
    PROVE  Obeys(is2, shapes)
<1>1. ASSUME NEW i \in 1..Len(is1)
      PROVE  is1[i].op = is2[i].op /\ Needed(is1[i]) = Needed(is2[i])
             /\ \A a, s : Flow(is1[i], a, s) = Flow(is2[i], a, s)
  <2>1. CASE is1[i] = is2[i]
    BY <2>1
  <2>2. CASE is1[i].op = "PushImmediate" /\ is2[i].op = "PushImmediate"
    <3> DEFINE x == is1[i]
               y == is2[i]
    <3>1. x.op = "PushImmediate" /\ y.op = "PushImmediate"
      BY <2>2
    <3> HIDE DEF x, y
    <3>2. Needed(x) = 0 /\ Needed(y) = 0
      BY <3>1, PushImmediateFlow
    <3>3. ASSUME NEW a, NEW s PROVE Flow(x, a, s) = Flow(y, a, s)
      <4>1. Flow(x, a, s) = {To(a + 1, Turned(s, 0, <<"any">>))}
        BY <3>1, PushImmediateFlow
      <4>2. Flow(y, a, s) = {To(a + 1, Turned(s, 0, <<"any">>))}
        BY <3>1, PushImmediateFlow
      <4> QED BY <4>1, <4>2
    <3> QED BY <3>1, <3>2, <3>3 DEF x, y
  <2> QED BY <2>1, <2>2 DEF Alike
<1>2. Peeked(is1) = Peeked(is2)
  <2>1. /\ 1..Len(is1) = 1..Len(is2)
        /\ \A i \in 1..Len(is1) : is1[i].op = "BuildConstKeyMap" \/ is2[i].op = "BuildConstKeyMap"
                                    => is1[i] = is2[i]
    BY DEF Alike
  <2>2. {i \in 1..Len(is1) : is1[i].op = "BuildConstKeyMap"}
          = {i \in 1..Len(is2) : is2[i].op = "BuildConstKeyMap"}
    BY <2>1
  <2> DEFINE D == {i \in 1..Len(is1) : is1[i].op = "BuildConstKeyMap"}
  <2>3. \A i \in D : is1[i] = is2[i]
    BY <2>1
  <2> HIDE DEF D
  <2>4. {{i} \X (1..is1[i].arg) : i \in D} = {{i} \X (1..is2[i].arg) : i \in D}
    BY <2>3
  <2> QED BY <2>2, <2>4 DEF Peeked, D
<1>3. ASSUME NEW a \in DOMAIN shapes
      PROVE  LET s == shapes[a]
             IN  /\ a \in 0..(Len(is2) - 1) /\ s \in Shape
                 /\ Allowed(is2, a, s)
                 /\ \A to \in Flow(is2[a + 1], a, s) : Has(shapes, to.address, to.shape)
                 /\ \A k \in 1..Len(s.tries) : InForce(is2, s.tries[k], a)
                 /\ HandlersIn(shapes, s.tries)
  <2> DEFINE s == shapes[a]
  <2>1. /\ a \in 0..(Len(is1) - 1) /\ s \in Shape
        /\ Allowed(is1, a, s)
        /\ \A to \in Flow(is1[a + 1], a, s) : Has(shapes, to.address, to.shape)
        /\ \A k \in 1..Len(s.tries) : InForce(is1, s.tries[k], a)
        /\ HandlersIn(shapes, s.tries)
    BY DEF Obeys
  <2>2. a + 1 \in 1..Len(is1)
    BY <2>1
  <2> HIDE DEF s
  <2>3. is1[a + 1].op = is2[a + 1].op /\ Needed(is1[a + 1]) = Needed(is2[a + 1])
        /\ Flow(is1[a + 1], a, s) = Flow(is2[a + 1], a, s)
    BY <1>1, <2>2
  <2>4. Allowed(is2, a, s)
    BY <1>2, <2>1, <2>3 DEF Allowed
  <2>5. ASSUME NEW k \in 1..Len(s.tries) PROVE InForce(is2, s.tries[k], a)
    <3> DEFINE b == s.tries[k]
    <3>1. InForce(is1, b, a)
      BY <2>1
    <3> HIDE DEF b
    <3>2. b.target \in 1..Len(is1) /\ is1[b.target].op = "JumpForward"
      BY <3>1 DEF InForce
    <3>3. is1[b.target] = is2[b.target] /\ Len(is1) = Len(is2)
      BY <3>2 DEF Alike
    <3>4. InForce(is2, b, a)
      BY <3>1, <3>3 DEF InForce, EndOfTry
    <3> QED BY <3>4 DEF b
  <2>6. a \in 0..(Len(is2) - 1)
    BY <2>1 DEF Alike
  <2> QED BY <2>1, <2>3, <2>4, <2>5, <2>6 DEF s
<1> QED BY <1>3 DEF Obeys

LEMMA ClassBodiesAlike ==
    ASSUME NEW is, IsSequence(is), NEW c, NEW d
    PROVE  Alike(ClassBody(is, c), ClassBody(is, d)) /\ Len(ClassBody(is, c)) \in Nat
<1> DEFINE n == LastInstruction(is) - 2
           U == {is[k] : k \in 1..Len(is)}
           one == Instruction("PushImmediate", c)
           two == Instruction("PushImmediate", d)
           last == Instruction("ReturnValue", 0)
           T == U \cup {one, two, last}
           start == SubSeq(is, 1, n)
           m == Len(start)
<1>1. Len(is) \in Nat /\ is \in Seq(U)
  BY SequenceLen DEF IsSequence
<1>2. n \in Int /\ n <= Len(is)
  BY <1>1, LastInstructionOK
<1> HIDE DEF n, one, two, last, U
<1>3. start \in Seq(U)
  BY <1>1, <1>2, PrefixProperties
<1>4. start \in Seq(T) /\ one \in T /\ two \in T /\ last \in T
  BY <1>3, SeqMonotonic
<1> HIDE DEF start, T
<1>5. m \in Nat
  BY <1>4, LenProperties
<1>6. ASSUME NEW e \in T
      PROVE  /\ start \o <<e, last>> \in Seq(T) /\ Len(start \o <<e, last>>) = m + 2
             /\ \A i \in 1..m : (start \o <<e, last>>)[i] = start[i]
             /\ (start \o <<e, last>>)[m + 1] = e /\ (start \o <<e, last>>)[m + 2] = last
  <2> DEFINE tail == <<e, last>>
             body == start \o tail
  <2>1. tail \in Seq(T) /\ Len(tail) = 2 /\ tail[1] = e /\ tail[2] = last
    BY <1>4
  <2> HIDE DEF tail
  <2>2. /\ body \in Seq(T) /\ Len(body) = m + 2
        /\ \A i \in 1..(m + 2) : body[i] = IF i <= m THEN start[i] ELSE tail[i - m]
    <3>1. /\ body \in Seq(T) /\ Len(body) = Len(start) + Len(tail)
          /\ \A i \in 1..(Len(start) + Len(tail)) :
                body[i] = IF i <= Len(start) THEN start[i] ELSE tail[i - Len(start)]
      BY <1>4, <2>1, ConcatProperties
    <3> HIDE DEF body
    <3> QED BY <2>1, <3>1
  <2> HIDE DEF body, m
  <2>3. /\ m + 1 \in 1..(m + 2) /\ ~(m + 1 <= m) /\ (m + 1) - m = 1
        /\ m + 2 \in 1..(m + 2) /\ ~(m + 2 <= m) /\ (m + 2) - m = 2
        /\ \A i \in 1..m : i \in 1..(m + 2) /\ i <= m
    BY <1>5
  <2>4. /\ body \in Seq(T) /\ Len(body) = m + 2
        /\ \A i \in 1..m : body[i] = start[i]
        /\ body[m + 1] = e /\ body[m + 2] = last
    BY <2>1, <2>2, <2>3
  <2> QED BY <2>4 DEF body, tail
<1> DEFINE x == start \o <<one, last>>
           y == start \o <<two, last>>
<1>7. /\ Len(x) = m + 2 /\ \A i \in 1..m : x[i] = start[i]
      /\ x[m + 1] = one /\ x[m + 2] = last
  BY <1>4, <1>6
<1>8. /\ Len(y) = m + 2 /\ \A i \in 1..m : y[i] = start[i]
      /\ y[m + 1] = two /\ y[m + 2] = last
  BY <1>4, <1>6
<1> HIDE DEF x, y, m
<1>9. \A i \in 1..(m + 2) : i \in 1..m \/ i = m + 1 \/ i = m + 2
  BY <1>5
<1>10. one.op = "PushImmediate" /\ two.op = "PushImmediate"
  BY DEF one, two, Instruction
<1>11. Alike(x, y)
  BY <1>7, <1>8, <1>9, <1>10 DEF Alike
<1>12. Len(x) \in Nat
  BY <1>5, <1>7
<1>13. ClassBody(is, c) = x /\ ClassBody(is, d) = y
  BY DEF ClassBody, x, y, start, n, one, two, last
<1> QED BY <1>11, <1>12, <1>13

LEMMA BuildClassFollows ==
    ASSUME Stepping, NEW fs, Midway(fs), Waits(heap', fs[Len(fs)]), NEW h, HeapOK(h),
           NEW args \in Seq(Refs(h)), BuildClass(h, fs, args)
    PROVE  Follows(heap', frames')
<1> DEFINE id    == h.objs[h.objs[args[1]].content.refs[1]].content.num
           is    == Code[id].instructions
<1>1. CASE Panic("panic")
  BY <1>1, PanicFollows
<1>2. CASE ~Panic("panic")
  <2>1. PICK h2, cls, locals :
            /\ Len(args) >= 2 /\ IsCodeFunction(h, args[1]) /\ IsBody(is)
            /\ Continue(h2, Append(fs, NewFrame(cls, id, ClassBody(is, cls), locals)))
    BY <1>2 DEF BuildClass, IsBody
  <2>2. args[1] \in Refs(h)
    <3> HIDE DEF id, is
    <3>1. Len(args) \in Nat
      BY LenProperties
    <3>2. 1 \in 1..Len(args)
      BY <2>1, <3>1
    <3> QED BY <3>2, ElementOfSeq
  <2>3. id \in 1..Len(Code)
    BY <2>1, <2>2, FunctionCode DEF IsCodeFunction, KindOf
  <2> HIDE DEF id
  <2>4. IsSequence(is)
    BY <2>3, CodeLoaded DEF IsCode, Stepping, StableInv
  <2>5. Obeys(ClassBody(is, object), Shapes[prog][id])
    BY <2>1, <2>3, CodeObeys
  <2> HIDE DEF is
  <2>6. Obeys(ClassBody(is, cls), Shapes[prog][id])
    BY <2>4, <2>5, ClassBodiesAlike, AlikeObeys
  <2> DEFINE g == NewFrame(cls, id, ClassBody(is, cls), locals)
  <2>7. Coded(g) /\ Runs(heap', g)
    BY <2>6, NewFrameRuns
  <2> HIDE DEF g
  <2> QED BY <2>1, <2>7, CallEnters DEF g
<1> QED BY <1>1, <1>2

LEMMA AnyTag == ASSUME NEW h, NEW ref PROVE HasTag(h, ref, "any")
BY DEF HasTag

\* A result of any kind, for a frame that waits for it.
LEMMA ResultFollows ==
    ASSUME NEW fs, Midway(fs), Waits(heap', fs[Len(fs)]), NEW ref, NEW h,
           Continue(h, ReturnTo(fs, ref))
    PROVE  Follows(heap', frames')
<1>1. Lacks(heap', fs[Len(fs)], "any")
  BY DEF Waits, Lacks
<1> QED BY <1>1, AnyTag, AnswerFollows

LEMMA WriteStdoutFollows ==
    ASSUME Stepping, NEW fs, Midway(fs), Waits(heap', fs[Len(fs)]), NEW h, NEW args,
           WriteStdout(h, fs, args)
    PROVE  Follows(heap', frames')
<1>1. CASE Panic("panic")
  BY <1>1, PanicFollows
<1>2. CASE frames' = ReturnTo(fs, none)
  <2>1. Lacks(heap', fs[Len(fs)], "any")
    BY DEF Waits, Lacks
  <2>2. Follows(heap', ReturnTo(fs, none))
    BY <2>1, AnyTag, ReturnFollows DEF Midway
  <2> QED BY <1>2, <2>2
<1> QED BY <1>1, <1>2 DEF WriteStdout

LEMMA CallFollows ==
    ASSUME Stepping, NEW fs, Midway(fs), Waits(heap', fs[Len(fs)]),
           NEW func \in Refs(heap), ~CallsIter(func), NEW args \in Seq(Refs(heap)), NEW keys,
           NEW values, Call(heap, fs, func, args, keys, values)
    PROVE  Follows(heap', frames')
<1> DEFINE f == heap.objs[func].content
           kind == f.kind
           h2 == Instantiate(heap, func)
<1>1. HeapOK(heap)
  BY HeapReached DEF Stepping
<1>2. Covered(fs[Len(fs)])
  <2>1. Coded(fs[Len(fs)])
    BY FramesLen DEF Midway
  <2> QED BY <2>1, WaitsCovered
<1>3. ASSUME NEW class \in Raised, Raise(heap, fs, class) PROVE Follows(heap', frames')
  BY <1>1, <1>2, <1>3, RaiseFollows
<1>4. typeerror \in Raised /\ processorerror \in Raised /\ baseexception \in Raised
  BY DEF Raised
<1>9. ASSUME NEW class \in Raised, NEW ref, RaiseNaming(heap, fs, ref, class)
      PROVE  Follows(heap', frames')
  BY <1>3, <1>9, PanicFollows DEF RaiseNaming
<1>5. CASE kind = "Class"
  <2>1. Continue(h2, ReturnTo(fs, Newest(h2)))
    BY <1>5 DEF Call
  <2> HIDE DEF h2
  <2> QED BY <2>1, ResultFollows
<1>6. CASE kind = "Function"
  <2>1. CASE KindOf(heap, f.refs[1]) = "Code"
    <3>1. CallCode(heap, fs, func, args, keys, values)
      BY <1>6, <2>1 DEF Call
    <3>2. KindOf(heap, func) = "Function"
      BY <1>6 DEF KindOf
    <3> QED BY <1>1, <2>1, <3>1, <3>2, CallCodeFollows
  <2>2. CASE KindOf(heap, f.refs[1]) # "Code"
    <3>1. RaiseNaming(heap, fs, f.refs[1], processorerror)
      BY <1>6, <2>2 DEF Call
    <3> QED BY <1>4, <1>9, <3>1
  <2> QED BY <2>1, <2>2
<1>7. CASE kind = "PrimitiveFunction"
  <2>1. CallPrimitive(heap, fs, f.str, args) /\ f.str # "iter"
    BY <1>7 DEF Call, CallsIter, KindOf
  <2>2. CASE WriteStdout(heap, fs, args)
    BY <2>2, WriteStdoutFollows
  <2>3. CASE BuildClass(heap, fs, args)
    BY <1>1, <2>3, BuildClassFollows
  <2>4. CASE IsSubclass(heap, fs, args) \/ IsInstance(heap, fs, args)
    BY <2>4, ResultFollows, PanicFollows DEF IsSubclass, IsInstance
  <2>5. CASE Raise(heap, fs, baseexception)
    BY <1>3, <1>4, <2>5
  <2> QED BY <2>1, <2>2, <2>3, <2>4, <2>5 DEF CallPrimitive
<1>8. CASE kind \notin {"Class", "Function", "PrimitiveFunction"}
  <2>1. RaiseNaming(heap, fs, func, typeerror)
    BY <1>8 DEF Call
  <2> QED BY <1>4, <1>9, <2>1
<1> QED BY <1>5, <1>6, <1>7, <1>8

-----------------------------------------------------------------------------
(***************************************************************************)
(* The instruction that runs and its shape.                                *)
(***************************************************************************)
Now == ShapeOf(Top)

\* A frame of the call that runs, and one that has what is left of its stack.
Kin(g)     == g.code = Top.code /\ g.instructions = Top.instructions
Less(g, n) == g.stack = SubSeq(Top.stack, 1, Len(Top.stack) - n) /\ g.blocks = Top.blocks

LEMMA FrameFields ==
    ASSUME NEW h, NEW f, FrameOK(h, f)
    PROVE  /\ \A n : LET g == Drop(f, n)
                     IN  /\ g.code = f.code /\ g.instructions = f.instructions /\ g.pc = f.pc
                         /\ g.stack = SubSeq(f.stack, 1, Len(f.stack) - n) /\ g.blocks = f.blocks
           /\ \A pc : LET g == Jump(f, pc)
                      IN  /\ g.code = f.code /\ g.instructions = f.instructions /\ g.pc = pc
                          /\ g.stack = f.stack /\ g.blocks = f.blocks
           /\ \A b : LET g == PushBlock(f, b)
                     IN  /\ g.code = f.code /\ g.instructions = f.instructions /\ g.pc = f.pc
                         /\ g.stack = f.stack /\ g.blocks = Append(f.blocks, b)
           /\ LET g == DropBlock(f)
              IN  /\ g.code = f.code /\ g.instructions = f.instructions /\ g.pc = f.pc
                  /\ g.stack = f.stack /\ g.blocks = ButFinal(f.blocks)
<1>1. ASSUME NEW n
      PROVE  LET g == Drop(f, n)
             IN  /\ g.code = f.code /\ g.instructions = f.instructions /\ g.pc = f.pc
                 /\ g.stack = SubSeq(f.stack, 1, Len(f.stack) - n) /\ g.blocks = f.blocks
  <2> DEFINE s == SubSeq(f.stack, 1, Len(f.stack) - n)
             g == Drop(f, n)
  <2>1. g = [f EXCEPT !.stack = s]
    BY DEF Drop
  <2> HIDE DEF s, g
  <2>2. g = Changed(f, s, f.blocks, f.pc)
    BY <2>1, FrameRecord DEF Changed
  <2>3. /\ g.code = f.code /\ g.instructions = f.instructions /\ g.pc = f.pc
        /\ g.stack = s /\ g.blocks = f.blocks
    BY <2>2 DEF Changed
  <2> QED BY <2>3, Zenon DEF s, g
<1>2. ASSUME NEW pc
      PROVE  LET g == Jump(f, pc)
             IN  /\ g.code = f.code /\ g.instructions = f.instructions /\ g.pc = pc
                 /\ g.stack = f.stack /\ g.blocks = f.blocks
  <2>1. Jump(f, pc) = Changed(f, f.stack, f.blocks, pc)
    BY FrameRecord DEF Jump, Changed
  <2> QED BY <2>1 DEF Changed
<1>3. ASSUME NEW b
      PROVE  LET g == PushBlock(f, b)
             IN  /\ g.code = f.code /\ g.instructions = f.instructions /\ g.pc = f.pc
                 /\ g.stack = f.stack /\ g.blocks = Append(f.blocks, b)
  <2> DEFINE bs == Append(f.blocks, b)
             g == PushBlock(f, b)
  <2>1. g = [f EXCEPT !.blocks = bs]
    BY DEF PushBlock
  <2> HIDE DEF bs, g
  <2>2. g = Changed(f, f.stack, bs, f.pc)
    BY <2>1, FrameRecord DEF Changed
  <2> QED BY <2>2 DEF bs, g, Changed
<1>4. LET g == DropBlock(f)
      IN  /\ g.code = f.code /\ g.instructions = f.instructions /\ g.pc = f.pc
          /\ g.stack = f.stack /\ g.blocks = ButFinal(f.blocks)
  <2> DEFINE bs == ButFinal(f.blocks)
             g == DropBlock(f)
  <2>1. g = [f EXCEPT !.blocks = bs]
    BY DEF DropBlock, ButFinal
  <2> HIDE DEF bs, g
  <2>2. g = Changed(f, f.stack, bs, f.pc)
    BY <2>1, FrameRecord DEF Changed
  <2> QED BY <2>2 DEF bs, g, Changed
<1> QED BY <1>1, <1>2, <1>3, <1>4

LEMMA CurFields ==
    ASSUME IInv, frames # <<>>
    PROVE  /\ Kin(Cur) /\ Cur.pc = Top.pc + 1
           /\ Cur.stack = Top.stack /\ Cur.blocks = Top.blocks
<1> DEFINE f == Top
           pc == f.pc + 1
<1>1. FrameOK(heap, f)
  BY TopOK
<1>2. Cur = Jump(f, pc)
  BY DEF Cur, Jump
<1> HIDE DEF f, pc
<1>3. /\ Cur.code = f.code /\ Cur.instructions = f.instructions /\ Cur.pc = pc
      /\ Cur.stack = f.stack /\ Cur.blocks = f.blocks
  BY <1>1, <1>2, FrameFields
<1> QED BY <1>3 DEF f, pc, Kin

LEMMA Here ==
    ASSUME Stepping, NEW op, At(op)
    PROVE  /\ IInv /\ frames # <<>> /\ Instr.op = op /\ Arg \in Nat
           /\ FrameOK(heap, Cur) /\ FrameOK(heap', Cur) /\ FrameOK(heap', Top)
           /\ Top.pc \in Nat /\ Top.stack \in Seq(Refs(heap))
           /\ Now \in Shape /\ Len(Now.stack) \in Nat /\ Now.tries \in Seq(Tries)
           /\ Fits(heap, Top, Now) /\ Fits(heap', Top, Now)
           /\ Coded(Top) /\ Top.pc \in DOMAIN ShapesOf(Top) /\ Covered(Top)
           /\ HandlersIn(ShapesOf(Top), Now.tries)
           /\ Allowed(Top.instructions, Top.pc, Now) /\ Needed(Instr) <= Len(Now.stack)
<1>1. IInv /\ frames # <<>> /\ Instr.op = op /\ Arg \in Nat
  BY Checked DEF Stepping, StableInv
<1>2. /\ FrameOK(heap, Cur) /\ FrameOK(heap, Top) /\ Top.pc \in Nat
      /\ Top.stack \in Seq(Refs(heap))
  BY <1>1, TopOK
<1>3. FrameOK(heap', Cur) /\ FrameOK(heap', Top)
  BY <1>2, FrameKept
<1>4. Coded(Top) /\ Runs(heap', Top) /\ Runs(heap, Top)
  BY <1>1, FramesThere
<1>5. Covered(Top)
  BY <1>4, WaitsCovered
<1>6. /\ Top.pc \in DOMAIN ShapesOf(Top) /\ Fits(heap, Top, Now) /\ Fits(heap', Top, Now)
  BY <1>4 DEF Runs, Now
<1>7. /\ Now \in Shape /\ Allowed(Top.instructions, Top.pc, Now)
      /\ Needed(Top.instructions[Top.pc + 1]) <= Len(Now.stack)
      /\ HandlersIn(ShapesOf(Top), Now.tries)
  BY <1>4, <1>6, ObeysAt DEF Coded, Now, ShapeOf
<1>8. Len(Now.stack) \in Nat /\ Now.tries \in Seq(Tries)
  BY <1>7, ShapeParts
<1> QED BY <1>1, <1>2, <1>3, <1>4, <1>5, <1>6, <1>7, <1>8 DEF Instr

\* A frame at an address to which the instruction leads.
LEMMA Arrives ==
    ASSUME Stepping, NEW op, At(op), NEW g, Kin(g), NEW t,
           To(g.pc, t) \in Flow(Instr, Top.pc, Now)
    PROVE  /\ Coded(g) /\ g.pc \in DOMAIN ShapesOf(g) /\ ShapeOf(g) = t
           /\ Fits(heap', g, t) => Runs(heap', g)
<1>1. Coded(Top) /\ Top.pc \in DOMAIN ShapesOf(Top)
  BY Here
<1>2. ShapesOf(g) = ShapesOf(Top) /\ Coded(g)
  BY <1>1 DEF Kin, ShapesOf, Coded
<1>3. To(g.pc, t) \in Flow(Top.instructions[Top.pc + 1], Top.pc, ShapesOf(Top)[Top.pc])
  BY DEF Instr, Now, ShapeOf
<1>4. g.pc \in DOMAIN ShapesOf(Top) /\ ShapesOf(Top)[g.pc] = t
  BY <1>1, <1>3, Led DEF Coded
<1> QED BY <1>2, <1>4 DEF ShapeOf, Runs

LEMMA LessFits ==
    ASSUME Stepping, NEW op, At(op), NEW n \in Nat, NEW g, Less(g, n), NEW t,
           Shorter(t, Now, n), t.tries = Now.tries
    PROVE  Fits(heap', g, t)
<1>1. Fits(heap', Top, Now) /\ Top.stack \in Seq(Refs(heap))
  BY Here
<1>2. StackFits(heap', g.stack, t)
  BY <1>1, PopFits DEF Less, Fits
<1> QED BY <1>1, <1>2 DEF Less, Fits

LEMMA DropsLess ==
    ASSUME Stepping, NEW op, At(op), NEW n \in Nat
    PROVE  LET g == Drop(Cur, n)
           IN  /\ Kin(g) /\ g.pc = Top.pc + 1 /\ Less(g, n) /\ FrameOK(heap', g)
<1>1. IInv /\ frames # <<>> /\ FrameOK(heap', Cur)
  BY Here
<1> DEFINE g == Drop(Cur, n)
<1>2. FrameOK(heap', g)
  BY <1>1, DropOK
<1>3. /\ g.code = Cur.code /\ g.instructions = Cur.instructions /\ g.pc = Cur.pc
      /\ g.stack = SubSeq(Cur.stack, 1, Len(Cur.stack) - n) /\ g.blocks = Cur.blocks
  BY <1>1, FrameFields, Zenon
<1>4. /\ Kin(Cur) /\ Cur.pc = Top.pc + 1
      /\ Cur.stack = Top.stack /\ Cur.blocks = Top.blocks
  BY <1>1, CurFields
<1> HIDE DEF g
<1>5. Kin(g) /\ g.pc = Top.pc + 1 /\ Less(g, n) /\ FrameOK(heap', g)
  BY <1>2, <1>3, <1>4 DEF Kin, Less
<1> QED BY <1>5, Zenon DEF g

\* Values are popped, and one is pushed.
LEMMA YieldsFollows ==
    ASSUME Stepping, NEW op, At(op), NEW n \in Nat, n <= Len(Now.stack), NEW tag \in Tags,
           To(Top.pc + 1, Turned(Now, n, <<tag>>)) \in Flow(Instr, Top.pc, Now),
           NEW ref, HasTag(heap', ref, tag), NEW h, Yield(h, n, ref)
    PROVE  Follows(heap', frames')
<1> DEFINE f == Drop(Cur, n)
           u == Turned(Now, n, <<tag>>)
           t == Turned(u, 1, <<>>)
<1>1. frames # <<>> /\ Now \in Shape
  BY Here
<1>2. Kin(f) /\ f.pc = Top.pc + 1 /\ Less(f, n) /\ FrameOK(heap', f)
  BY DropsLess
<1>3. /\ u.stack # <<>> /\ Final(u.stack) = tag
      /\ Shorter(t, Now, n) /\ t.tries = Now.tries
  BY <1>1, Exchanged
<1> HIDE DEF f
<1>4. To(f.pc, u) \in Flow(Instr, Top.pc, Now)
  BY <1>2
<1> HIDE DEF u
<1>5. Coded(f) /\ f.pc \in DOMAIN ShapesOf(f) /\ ShapeOf(f) = u
  BY <1>2, <1>4, Arrives
<1>6. Fits(heap', f, t)
  <2> HIDE DEF t
  <2> QED BY <1>2, <1>3, LessFits
<1>7. Lacks(heap', f, tag)
  BY <1>3, <1>5, <1>6 DEF Lacks
<1> QED BY <1>1, <1>2, <1>5, <1>7, YieldFollows DEF f

\* Values are popped.
LEMMA LessFollows ==
    ASSUME Stepping, NEW op, At(op), NEW n \in Nat, n <= Len(Now.stack),
           NEW g, Kin(g), Less(g, n), FrameOK(heap', g),
           To(g.pc, Turned(Now, n, <<>>)) \in Flow(Instr, Top.pc, Now),
           NEW h, Continue(h, With(g))
    PROVE  Follows(heap', frames')
<1> DEFINE t == Turned(Now, n, <<>>)
<1>1. frames # <<>> /\ Now \in Shape
  BY Here
<1>2. Shorter(t, Now, n) /\ t.tries = Now.tries
  BY <1>1, Popped
<1> HIDE DEF t
<1>3. Fits(heap', g, t)
  BY <1>2, LessFits
<1>4. Coded(g) /\ Runs(heap', g)
  BY <1>3, Arrives DEF t
<1> QED BY <1>1, <1>4, GoFollows

\* An exception is raised by the frame that runs, before or after its pops.
LEMMA CoveredHere ==
    ASSUME Stepping, NEW op, At(op), NEW g, Kin(g), g.blocks = Top.blocks, FrameOK(heap', g)
    PROVE  Midway(With(g)) /\ Covered(With(g)[Len(With(g))]) /\ Coded(g)
<1>1. frames # <<>> /\ Coded(Top) /\ Covered(Top)
  BY Here
<1>2. Coded(g) /\ Covered(g)
  BY <1>1 DEF Kin, Coded, ShapesOf, Covered
<1>3. Midway(With(g)) /\ Len(With(g)) = Len(frames) /\ With(g)[Len(frames)] = g
  BY <1>1, <1>2, WithMidway
<1> QED BY <1>2, <1>3

LEMMA RaiseHere ==
    ASSUME Stepping, NEW op, At(op), NEW class \in Raised, NEW g, Kin(g),
           g.blocks = Top.blocks, FrameOK(heap', g), Raise(heap, With(g), class)
    PROVE  Follows(heap', frames')
<1>1. Midway(With(g)) /\ Covered(With(g)[Len(With(g))])
  BY CoveredHere
<1>2. HeapOK(heap)
  BY HeapReached DEF Stepping
<1> QED BY <1>1, <1>2, RaiseFollows

\* nameerror and typeerror, after some values are popped.
LEMMA RaiseDropped ==
    ASSUME Stepping, NEW op, At(op), NEW n \in Nat, NEW class \in {nameerror, typeerror},
           Raise(heap, With(Drop(Cur, n)), class)
    PROVE  Follows(heap', frames')
<1> DEFINE g == Drop(Cur, n)
<1>1. Kin(g) /\ Less(g, n) /\ FrameOK(heap', g)
  BY DropsLess
<1>2. class \in Raised
  BY DEF Raised
<1> HIDE DEF g
<1>3. ASSUME Raise(heap, With(g), class) PROVE Follows(heap', frames')
  BY <1>1, <1>2, <1>3, RaiseHere DEF Less
<1> QED BY <1>3 DEF g

-----------------------------------------------------------------------------
(***************************************************************************)
(* Instructions that only pop and push.                                    *)
(***************************************************************************)
LEMMA NeededBy ==
    ASSUME NEW inst
    PROVE  /\ inst.op \in {"PopTop", "StoreName", "StoreFast", "StoreGlobal", "LoadAttr",
                           "BuildConstKeyMap", "DupTop", "GetIter", "ForIter", "PopJumpIfFalse",
                           "ReturnValue", "RaiseVarargs"} => Needed(inst) = 1
           /\ inst.op \in {"StoreAttr", "BinarySubscr", "CompareOp"} => Needed(inst) = 2
           /\ inst.op \in {"Nop", "PushImmediate", "LoadConst", "LoadFast", "LoadName",
                           "LoadGlobal", "LoadBuildClass"} => Needed(inst) = 0
           /\ inst.op = "EndFinally" => Needed(inst) = 3
           /\ inst.op = "BuildTuple" => Needed(inst) = inst.arg
           /\ inst.op = "MakeFunction" => Needed(inst) = IF inst.arg = 2 THEN 3 ELSE 2
           /\ inst.op = "CallFunction" => Needed(inst) = inst.arg + 1
           /\ inst.op = "CallFunctionKw" => Needed(inst) = inst.arg + 2
<1> DEFINE op == inst.op
<1>1. op \in {"PopTop", "StoreName", "StoreFast", "StoreGlobal", "LoadAttr",
              "BuildConstKeyMap", "DupTop", "GetIter", "ForIter", "PopJumpIfFalse",
              "ReturnValue", "RaiseVarargs"} => Needed(inst) = 1
  BY DEF Needed
<1>2. op \in {"StoreAttr", "BinarySubscr", "CompareOp"} => Needed(inst) = 2
  BY DEF Needed
<1>3. op \in {"Nop", "PushImmediate", "LoadConst", "LoadFast", "LoadName",
              "LoadGlobal", "LoadBuildClass"} => Needed(inst) = 0
  BY DEF Needed
<1>4. /\ op = "EndFinally" => Needed(inst) = 3
      /\ op = "BuildTuple" => Needed(inst) = inst.arg
  BY DEF Needed
<1>5. /\ op = "MakeFunction" => Needed(inst) = IF inst.arg = 2 THEN 3 ELSE 2
      /\ op = "CallFunction" => Needed(inst) = inst.arg + 1
      /\ op = "CallFunctionKw" => Needed(inst) = inst.arg + 2
  BY DEF Needed
<1> QED BY <1>1, <1>2, <1>3, <1>4, <1>5

LEMMA GivingFollows ==
    ASSUME Stepping, NEW op \in Giving, At(op), NEW n \in Nat, n = Needed(Instr),
           NEW h, NEW ref, Yield(h, n, ref)
    PROVE  Follows(heap', frames')
<1>1. Instr.op = op /\ Needed(Instr) <= Len(Now.stack)
  BY Here
<1>2. HasTag(heap', ref, "any") /\ "any" \in Tags
  BY AnyTag DEF Tags
<1>3. To(Top.pc + 1, Turned(Now, n, <<"any">>)) \in Flow(Instr, Top.pc, Now)
  <2>1. Pushed(Instr) = <<"any">> /\ Instr.op \in Straight
    BY <1>1 DEF Pushed, Straight
  <2> QED BY <2>1, StraightFlow
<1> QED BY <1>1, <1>2, <1>3, YieldsFollows

LEMMA SilentFollows ==
    ASSUME Stepping, NEW op \in Silent, At(op), NEW n \in Nat, n = Needed(Instr),
           NEW h, Continue(h, With(Drop(Cur, n)))
    PROVE  Follows(heap', frames')
<1> DEFINE g == Drop(Cur, n)
<1>1. Instr.op = op /\ Needed(Instr) <= Len(Now.stack)
  BY Here
<1>2. Kin(g) /\ g.pc = Top.pc + 1 /\ Less(g, n) /\ FrameOK(heap', g)
  BY DropsLess
<1>3. To(Top.pc + 1, Turned(Now, n, <<>>)) \in Flow(Instr, Top.pc, Now)
  <2>1. Pushed(Instr) = <<>> /\ Instr.op \in Straight
    BY <1>1 DEF Pushed, Straight, Silent, Giving
  <2> QED BY <2>1, StraightFlow
<1> HIDE DEF g
<1>4. ASSUME Continue(h, With(g)) PROVE Follows(heap', frames')
  BY <1>1, <1>2, <1>3, <1>4, LessFollows
<1> QED BY <1>4 DEF g

\* The frame as it was, but for the address.
LEMMA NothingLess ==
    ASSUME Stepping, NEW op, At(op), NEW g, g.stack = Top.stack, g.blocks = Top.blocks
    PROVE  Less(g, 0)
<1> DEFINE s == Top.stack
<1>1. s \in Seq(Refs(heap))
  BY Here
<1> HIDE DEF s
<1>2. Len(s) \in Nat /\ SubSeq(s, 1, Len(s)) = [i \in 1..(Len(s) - 1 + 1) |-> s[1 - 1 + i]]
  BY <1>1, LenProperties, SubSeqEntries
<1>3. SubSeq(s, 1, Len(s)) = [i \in 1..Len(s) |-> s[i]]
  BY <1>2
<1>4. s = [i \in 1..Len(s) |-> s[i]]
  BY <1>1, LenProperties
<1>5. Len(s) - 0 = Len(s)
  BY <1>2
<1> QED BY <1>3, <1>4, <1>5 DEF Less, s

LEMMA StackStepFollows == ASSUME Stepping, StackStep PROVE Follows(heap', frames')
<1>1. Stepping
  OBVIOUS
<1>2. \A op : At(op) => Instr.op = op /\ Arg \in Nat
  BY Here
<1>3. CASE PushImmediate
  BY <1>2, <1>3, NeededBy, GivingFollows DEF PushImmediate, Giving
<1>4. CASE PopTop
  BY <1>2, <1>4, NeededBy, SilentFollows DEF PopTop, Pop, Silent
<1>5. CASE DupTop
  <2>1. At("DupTop") /\ Yield(heap, 0, Nth(0))
    BY <1>5 DEF DupTop
  <2>2. Now \in Shape /\ Needed(Instr) <= Len(Now.stack) /\ Needed(Instr) = 1 /\ Len(Now.stack) \in Nat
    BY <1>2, <2>1, Here, NeededBy
  <2>3. To(Top.pc + 1, Turned(Now, 0, <<Final(Now.stack)>>)) \in Flow(Instr, Top.pc, Now)
    <3>1. Instr.op = "DupTop"
      BY <1>2, <2>1
    <3> QED BY <3>1, OtherFlow
  <2>4. Now.stack \in Seq(Tags) /\ Final(Now.stack) \in Tags
    BY <2>2, ShapeParts, ElementOfSeq DEF Final
  <2>5. HasTag(heap', Nth(0), Final(Now.stack))
    <3>1. Fits(heap', Top, Now) /\ Top.stack \in Seq(Refs(heap))
      BY <2>1, Here
    <3>2. HasTag(heap', Top.stack[Len(Top.stack)], Final(Now.stack)) /\ Len(Top.stack) \in Nat
      BY <2>2, <3>1, TopTag, LenProperties DEF Fits
    <3>3. Len(Top.stack) - 0 = Len(Top.stack)
      BY <3>2
    <3> QED BY <3>2, <3>3 DEF Nth
  <2> QED BY <2>1, <2>2, <2>3, <2>4, <2>5, YieldsFollows
<1>6. CASE Nop
  <2>1. At("Nop") /\ Continue(heap, With(Cur))
    BY <1>6 DEF Nop
  <2>2. /\ Kin(Cur) /\ Cur.pc = Top.pc + 1 /\ FrameOK(heap', Cur)
        /\ Cur.stack = Top.stack /\ Cur.blocks = Top.blocks /\ Len(Now.stack) \in Nat
    BY <2>1, Here, CurFields
  <2>3. Less(Cur, 0)
    BY <2>1, <2>2, NothingLess
  <2>4. To(Top.pc + 1, Turned(Now, 0, <<>>)) \in Flow(Instr, Top.pc, Now)
    <3>1. Pushed(Instr) = <<>> /\ Instr.op \in Straight /\ Needed(Instr) = 0
      BY <1>2, <2>1, NeededBy DEF Pushed, Straight, Silent, Giving
    <3> QED BY <3>1, StraightFlow
  <2> HIDE DEF Cur
  <2> QED BY <2>1, <2>2, <2>3, <2>4, LessFollows
<1>7. CASE LoadConst
  BY <1>2, <1>7, NeededBy, GivingFollows DEF LoadConst, Giving
<1>8. CASE BuildTuple
  BY <1>2, <1>8, NeededBy, GivingFollows DEF BuildTuple, Giving, Arg
<1>9. CASE BuildConstKeyMap
  BY <1>2, <1>9, NeededBy, GivingFollows, PanicFollows DEF BuildConstKeyMap, Giving
<1> QED BY <1>3, <1>4, <1>5, <1>6, <1>7, <1>8, <1>9 DEF StackStep

LEMMA LoadNameFollows ==
    ASSUME Stepping, NEW op \in {"LoadName", "LoadGlobal"}, At(op), LoadNameOrGlobal
    PROVE  Follows(heap', frames')
<1>1. Instr.op = op /\ op \in Giving
  BY Here DEF Giving
<1>2. Needed(Instr) = 0
  BY <1>1, NeededBy
<1>3. ASSUME NEW h, NEW ref, Yield(h, 0, ref) PROVE Follows(heap', frames')
  BY <1>1, <1>2, <1>3, GivingFollows
<1>4. ASSUME Raise(heap, With(Cur), nameerror) PROVE Follows(heap', frames')
  <2>1. Kin(Cur) /\ Cur.blocks = Top.blocks /\ FrameOK(heap', Cur)
    BY Here, CurFields
  <2>2. nameerror \in Raised
    BY DEF Raised
  <2> HIDE DEF Cur
  <2> QED BY <1>4, <2>1, <2>2, RaiseHere
<1> QED BY <1>3, <1>4, PanicFollows DEF LoadNameOrGlobal

LEMMA LoadAttrFollows == ASSUME Stepping, LoadAttr PROVE Follows(heap', frames')
<1>1. At("LoadAttr")
  BY DEF LoadAttr
<1>2. Instr.op = "LoadAttr" /\ Needed(Instr) = 1
  BY <1>1, Here, NeededBy
<1>3. ASSUME NEW h, NEW ref, Yield(h, 1, ref) PROVE Follows(heap', frames')
  BY <1>1, <1>2, <1>3, GivingFollows DEF Giving
<1>4. ASSUME Raise(heap, With(Drop(Cur, 1)), nameerror) PROVE Follows(heap', frames')
  BY <1>1, <1>4, RaiseDropped
<1> QED BY <1>3, <1>4 DEF LoadAttr

LEMMA NameStepFollows == ASSUME Stepping, NameStep PROVE Follows(heap', frames')
<1>1. Stepping
  OBVIOUS
<1>2. \A op : At(op) => Instr.op = op /\ Arg \in Nat
  BY Here
<1>3. CASE StoreName
  BY <1>2, <1>3, NeededBy, SilentFollows DEF StoreName, Silent
<1>4. CASE StoreFast
  BY <1>2, <1>4, NeededBy, SilentFollows DEF StoreFast, Silent
<1>5. CASE LoadFast
  BY <1>2, <1>5, NeededBy, GivingFollows DEF LoadFast, Giving
<1>6. CASE StoreGlobal
  BY <1>2, <1>6, NeededBy, SilentFollows, PanicFollows DEF StoreGlobal, Silent
<1>7. CASE LoadName
  BY <1>7, LoadNameFollows DEF LoadName
<1>8. CASE LoadGlobal
  BY <1>8, LoadNameFollows DEF LoadGlobal
<1>9. CASE LoadAttr
  BY <1>9, LoadAttrFollows
<1>10. CASE StoreAttr
  BY <1>2, <1>10, NeededBy, SilentFollows, PanicFollows DEF StoreAttr, Silent
<1> QED BY <1>3, <1>4, <1>5, <1>6, <1>7, <1>8, <1>9, <1>10 DEF NameStep

\* A jump, after some values are popped.
LEMMA JumpFollows ==
    ASSUME Stepping, NEW op, At(op), NEW n \in Nat, n <= Len(Now.stack), NEW pc \in Nat,
           To(pc, Turned(Now, n, <<>>)) \in Flow(Instr, Top.pc, Now),
           NEW g, g = Jump(Drop(Cur, n), pc), Continue(heap, With(g))
    PROVE  Follows(heap', frames')
<1> DEFINE f == Drop(Cur, n)
<1>1. Kin(f) /\ Less(f, n) /\ FrameOK(heap', f)
  BY DropsLess
<1>2. g = Jump(f, pc)
  OBVIOUS
<1> HIDE DEF f
<1>3. /\ g.code = f.code /\ g.instructions = f.instructions /\ g.pc = pc
      /\ g.stack = f.stack /\ g.blocks = f.blocks
  BY <1>1, <1>2, FrameFields
<1>4. FrameOK(heap', g)
  BY <1>1, <1>2, JumpOK
<1>5. Kin(g) /\ Less(g, n)
  BY <1>1, <1>3 DEF Kin, Less
<1> QED BY <1>3, <1>4, <1>5, LessFollows

\* The frame goes where the instruction leads, with stacks that fit.
LEMMA GoesFollows ==
    ASSUME Stepping, NEW op, At(op), NEW g, Kin(g), FrameOK(heap', g), NEW t,
           To(g.pc, t) \in Flow(Instr, Top.pc, Now), Fits(heap', g, t),
           NEW h, Continue(h, With(g))
    PROVE  Follows(heap', frames')
<1>1. frames # <<>>
  BY Here
<1>2. Coded(g) /\ Runs(heap', g)
  BY Arrives
<1> QED BY <1>1, <1>2, GoFollows

LEMMA JumpOverFollows ==
    ASSUME Stepping, NEW op, At(op), NEW pc \in Nat, To(pc, Now) \in Flow(Instr, Top.pc, Now),
           Continue(heap, With(Jump(Cur, pc)))
    PROVE  Follows(heap', frames')
<1> DEFINE c == Cur
           g == Jump(c, pc)
<1>1. /\ Kin(c) /\ FrameOK(heap', c) /\ c.stack = Top.stack /\ c.blocks = Top.blocks
  BY Here, CurFields
<1> HIDE DEF c
<1>2. /\ g.code = c.code /\ g.instructions = c.instructions /\ g.pc = pc
      /\ g.stack = c.stack /\ g.blocks = c.blocks
  BY <1>1, FrameFields
<1>3. FrameOK(heap', g)
  BY <1>1, JumpOK
<1>4. Continue(heap, With(g))
  BY DEF c
<1> HIDE DEF g
<1>5. Kin(g) /\ Fits(heap', g, Now)
  BY <1>1, <1>2, Here DEF Kin, Fits
<1> QED BY <1>2, <1>3, <1>4, <1>5, GoesFollows

LEMMA PopJumpFollows == ASSUME Stepping, PopJumpIfFalse PROVE Follows(heap', frames')
<1>1. At("PopJumpIfFalse")
  BY DEF PopJumpIfFalse
<1>2. /\ Instr.op = "PopJumpIfFalse" /\ Arg \in Nat /\ Top.pc \in Nat
      /\ Needed(Instr) <= Len(Now.stack)
  BY <1>1, Here
<1>3. 1 <= Len(Now.stack)
  BY <1>2, NeededBy
<1>4. /\ To(Top.pc + 1, Turned(Now, 1, <<>>)) \in Flow(Instr, Top.pc, Now)
      /\ To(Words(Arg), Turned(Now, 1, <<>>)) \in Flow(Instr, Top.pc, Now)
  BY <1>2, OtherFlow DEF Arg
<1>5. CASE Pop(1)
  <2> DEFINE g == Drop(Cur, 1)
  <2>1. Kin(g) /\ g.pc = Top.pc + 1 /\ Less(g, 1) /\ FrameOK(heap', g)
    BY <1>1, DropsLess
  <2>2. Continue(heap, With(g))
    BY <1>5 DEF Pop
  <2> HIDE DEF g
  <2> QED BY <1>1, <1>3, <1>4, <2>1, <2>2, LessFollows
<1>6. CASE Continue(heap, With(Jump(Drop(Cur, 1), Words(Arg))))
  BY <1>1, <1>2, <1>3, <1>4, <1>6, JumpFollows, WordsOK
<1> QED BY <1>5, <1>6, PanicFollows DEF PopJumpIfFalse

LEMMA JumpStepFollows == ASSUME Stepping, JumpStep PROVE Follows(heap', frames')
<1>1. Stepping
  OBVIOUS
<1>2. \A op : At(op) => Instr.op = op /\ Arg \in Nat /\ Top.pc \in Nat
  BY Here
<1>3. CASE BinarySubscr
  <2>1. At("BinarySubscr") /\ Instr.op = "BinarySubscr" /\ Needed(Instr) = 2
    BY <1>2, <1>3, NeededBy DEF BinarySubscr
  <2>2. ASSUME NEW ref, Yield(heap, 2, ref) PROVE Follows(heap', frames')
    BY <2>1, <2>2, GivingFollows DEF Giving
  <2>3. ASSUME NEW class \in {nameerror, typeerror}, Raise(heap, With(Drop(Cur, 2)), class)
        PROVE  Follows(heap', frames')
    BY <2>1, <2>3, RaiseDropped
  <2> QED BY <1>3, <2>2, <2>3 DEF BinarySubscr
<1>4. CASE CompareOp
  <2>1. At("CompareOp") /\ Instr.op = "CompareOp" /\ Needed(Instr) = 2
    BY <1>2, <1>4, NeededBy DEF CompareOp
  <2>2. ASSUME NEW ref, Yield(heap, 2, ref) PROVE Follows(heap', frames')
    BY <2>1, <2>2, GivingFollows DEF Giving
  <2> QED BY <1>4, <2>2, PanicFollows DEF CompareOp
<1>5. CASE JumpAbsolute
  <2>1. At("JumpAbsolute") /\ Continue(heap, With(Jump(Cur, Words(Arg))))
    BY <1>5 DEF JumpAbsolute
  <2>2. To(Words(Arg), Now) \in Flow(Instr, Top.pc, Now) /\ Words(Arg) \in Nat
    <3>1. Instr.op = "JumpAbsolute" /\ Words(Arg) \in Nat
      BY <1>2, <2>1, WordsOK
    <3> QED BY <3>1, OtherFlow DEF Arg
  <2> QED BY <2>1, <2>2, JumpOverFollows
<1>6. CASE JumpForward
  <2>1. At("JumpForward") /\ Continue(heap, With(Jump(Cur, Cur.pc + Words(Arg))))
    BY <1>6 DEF JumpForward
  <2>2. Cur.pc = Top.pc + 1 /\ Top.pc \in Nat /\ Words(Arg) \in Nat
    BY <1>2, <2>1, Here, CurFields, WordsOK
  <2>3. To(Top.pc + 1 + Words(Arg), Now) \in Flow(Instr, Top.pc, Now)
    <3>1. Instr.op = "JumpForward"
      BY <1>2, <2>1
    <3> QED BY <3>1, OtherFlow DEF Arg
  <2>4. To(Cur.pc + Words(Arg), Now) \in Flow(Instr, Top.pc, Now) /\ Cur.pc + Words(Arg) \in Nat
    BY <2>2, <2>3
  <2> QED BY <2>1, <2>4, JumpOverFollows
<1>7. CASE PopJumpIfFalse
  BY <1>7, PopJumpFollows
<1> QED BY <1>3, <1>4, <1>5, <1>6, <1>7 DEF JumpStep

-----------------------------------------------------------------------------
(***************************************************************************)
(* Instructions that change the block stack.                               *)
(***************************************************************************)
LEMMA BlockPushed ==
    ASSUME Stepping, NEW op, At(op), NEW b \in BlockSet(heap')
    PROVE  LET g == PushBlock(Cur, b)
           IN  /\ Kin(g) /\ g.pc = Top.pc + 1 /\ FrameOK(heap', g)
               /\ g.stack = Top.stack /\ g.blocks = Append(Top.blocks, b)
<1> DEFINE c == Cur
           g == PushBlock(c, b)
<1>1. /\ Kin(c) /\ FrameOK(heap', c) /\ c.stack = Top.stack /\ c.blocks = Top.blocks
      /\ c.pc = Top.pc + 1
  BY Here, CurFields
<1> HIDE DEF c
<1>2. FrameOK(heap', g)
  BY <1>1, PushBlockOK
<1>3. /\ g.code = c.code /\ g.instructions = c.instructions /\ g.pc = c.pc
      /\ g.stack = c.stack /\ g.blocks = Append(c.blocks, b)
  BY <1>1, FrameFields
<1> HIDE DEF g
<1>4. /\ Kin(g) /\ g.pc = Top.pc + 1 /\ FrameOK(heap', g)
      /\ g.stack = Top.stack /\ g.blocks = Append(Top.blocks, b)
  BY <1>1, <1>2, <1>3 DEF Kin
<1> QED BY <1>4 DEF g, c

LEMMA TopBlocks ==
    ASSUME Stepping, NEW op, At(op)
    PROVE  /\ Top.blocks \in Seq(BlockSet(heap')) /\ BlocksFit(Top.blocks, Now.tries)
           /\ StackFits(heap', Top.stack, Now)
           /\ Cur.pc = Top.pc + 1 /\ Cur.pc \in Nat /\ Top.pc \in Nat /\ Arg \in Nat
<1>1. /\ FrameOK(heap', Top) /\ Fits(heap', Top, Now) /\ Cur.pc = Top.pc + 1
      /\ Top.pc \in Nat /\ Arg \in Nat
  BY Here, CurFields
<1>2. Top.blocks \in Seq(BlockSet(heap'))
  <2> DEFINE f == Top
  <2> HIDE DEF f
  <2>1. FrameOK(heap', f)
    BY <1>1 DEF f
  <2>2. f.blocks \in Seq(BlockSet(heap'))
    BY <2>1, FrameParts
  <2> QED BY <2>2 DEF f
<1>3. Cur.pc \in Nat
  BY <1>1
<1> QED BY <1>1, <1>2, <1>3 DEF Fits

LEMMA SetupLoopFollows == ASSUME Stepping, SetupLoop PROVE Follows(heap', frames')
<1> DEFINE target == Cur.pc + Arg
           b == Block("Loop", Cur.pc, target)
           g == PushBlock(Cur, b)
<1>1. At("SetupLoop") /\ Continue(heap, With(g))
  BY DEF SetupLoop
<1>2. /\ Top.blocks \in Seq(BlockSet(heap')) /\ BlocksFit(Top.blocks, Now.tries)
      /\ StackFits(heap', Top.stack, Now) /\ Cur.pc \in Nat /\ Arg \in Nat
  BY <1>1, TopBlocks
<1>3. target \in Nat
  BY <1>2
<1> HIDE DEF target
<1>4. b \in BlockSet(heap') /\ Leftover(b)
  <2>1. b.kind = "Loop"
    BY DEF Block
  <2>2. b \in BlockSet(heap')
    BY <1>2, <1>3, BlockOK
  <2> QED BY <2>1, <2>2 DEF Leftover
<1> HIDE DEF b
<1>5. /\ Kin(g) /\ g.pc = Top.pc + 1 /\ FrameOK(heap', g)
      /\ g.stack = Top.stack /\ g.blocks = Append(Top.blocks, b)
  BY <1>1, <1>4, BlockPushed
<1>6. Instr.op = "SetupLoop" /\ Now.tries = <<>>
  BY <1>1, Here DEF Allowed, Instr
<1>7. To(Top.pc + 1, Now) \in Flow(Instr, Top.pc, Now)
  BY <1>6, OtherFlow
<1> HIDE DEF g
<1>8. BlocksFit(g.blocks, Now.tries)
  BY <1>2, <1>4, <1>5, <1>6, LeftoverPushed
<1>9. Fits(heap', g, Now)
  BY <1>2, <1>5, <1>8 DEF Fits
<1> QED BY <1>1, <1>5, <1>7, <1>9, GoesFollows

LEMMA SetupExceptFollows == ASSUME Stepping, SetupExcept PROVE Follows(heap', frames')
<1> DEFINE target == Cur.pc + Words(Arg)
           b == Block("TryExcept", Cur.pc, target)
           g == PushBlock(Cur, b)
           s == Now
           try == TryAt(Instr, Top.pc)
           tries == Append(s.tries, try)
           t == [s EXCEPT !.tries = tries]
<1>1. At("SetupExcept") /\ Continue(heap, With(g))
  BY DEF SetupExcept
<1>2. /\ Top.blocks \in Seq(BlockSet(heap')) /\ BlocksFit(Top.blocks, s.tries)
      /\ StackFits(heap', Top.stack, s) /\ Cur.pc \in Nat /\ Words(Arg) \in Nat
      /\ Cur.pc = Top.pc + 1 /\ Top.pc \in Nat
  BY <1>1, TopBlocks, WordsOK
<1>3. target \in Nat /\ target = Top.pc + 1 + Words(Arg)
  BY <1>2
<1> HIDE DEF target
<1>4. b \in BlockSet(heap') /\ b.kind = "TryExcept" /\ b.begin = Cur.pc /\ b.target = target
  BY <1>2, <1>3, BlockOK DEF Block
<1>5. try = [begin |-> Cur.pc, target |-> target]
  BY <1>2, <1>3 DEF TryAt, Arg
<1>6. try \in Tries /\ try.begin = Cur.pc /\ try.target = target
  BY <1>2, <1>3, <1>5 DEF Tries
<1> HIDE DEF b, try
<1>7. /\ Kin(g) /\ g.pc = Top.pc + 1 /\ FrameOK(heap', g)
      /\ g.stack = Top.stack /\ g.blocks = Append(Top.blocks, b)
  BY <1>1, <1>4, BlockPushed
<1>8. Instr.op = "SetupExcept" /\ s \in Shape /\ s.tries \in Seq(Tries)
  BY <1>1, Here
<1>9. To(Top.pc + 1, t) \in Flow(Instr, Top.pc, Now)
  BY <1>8, OtherFlow DEF try
<1> HIDE DEF g, tries, s
<1>10. t = [open |-> s.open, stack |-> s.stack, tries |-> tries]
  BY <1>8, ShapeParts
<1>11. BlocksFit(g.blocks, tries)
  BY <1>2, <1>4, <1>6, <1>7, <1>8, TryPushed DEF tries
<1> HIDE DEF t
<1>12. Fits(heap', g, t)
  <2>1. t.open = s.open /\ t.stack = s.stack /\ t.tries = tries
    BY <1>10
  <2>2. StackFits(heap', Top.stack, t)
    BY <1>2, <2>1, Zenon DEF StackFits
  <2> QED BY <1>7, <1>11, <2>1, <2>2 DEF Fits
<1>13. To(g.pc, t) \in Flow(Instr, Top.pc, Now)
  BY <1>7, <1>9
<1> QED BY <1>1, <1>7, <1>12, <1>13, GoesFollows

LEMMA PopBlockFollows == ASSUME Stepping, PopBlock PROVE Follows(heap', frames')
<1> DEFINE s == Now
           c == Cur
           g == DropBlock(c)
           t == IF s.tries = <<>> THEN s ELSE Leaving(s)
<1>1. At("PopBlock") /\ Continue(heap, With(g))
  BY DEF PopBlock
<1>2. /\ Top.blocks \in Seq(BlockSet(heap')) /\ BlocksFit(Top.blocks, s.tries)
      /\ StackFits(heap', Top.stack, s)
  BY <1>1, TopBlocks
<1>3. Instr.op = "PopBlock" /\ s \in Shape /\ s.tries \in Seq(Tries)
  BY <1>1, Here
<1>4. Top.blocks # <<>>
  BY <1>1, <1>3 DEF At, Fault, NoFault
<1>5. /\ Kin(c) /\ FrameOK(heap', c) /\ c.stack = Top.stack /\ c.blocks = Top.blocks
      /\ c.pc = Top.pc + 1
  BY <1>1, Here, CurFields
<1>6. To(Top.pc + 1, t) \in Flow(Instr, Top.pc, Now)
  BY <1>3, OtherFlow
<1> HIDE DEF c, s
<1>7. FrameOK(heap', g)
  BY <1>5, DropBlockOK
<1>8. /\ g.code = c.code /\ g.instructions = c.instructions /\ g.pc = c.pc
      /\ g.stack = c.stack /\ g.blocks = ButFinal(c.blocks)
  BY <1>5, FrameFields
<1> HIDE DEF g
<1>9. /\ s.tries # <<>> => BlocksFit(g.blocks, ButFinal(s.tries))
      /\ s.tries = <<>> => BlocksFit(g.blocks, s.tries)
  BY <1>2, <1>3, <1>4, <1>5, <1>8, BlocksDropped
<1>10. Fits(heap', g, t)
  <2>1. CASE s.tries = <<>>
    BY <1>2, <1>5, <1>8, <1>9, <2>1 DEF Fits
  <2>2. CASE s.tries # <<>>
    <3> DEFINE tries == ButFinal(s.tries)
    <3>1. t = [s EXCEPT !.tries = tries]
      BY <2>2 DEF Leaving
    <3>2. s = [open |-> s.open, stack |-> s.stack, tries |-> s.tries]
      BY <1>3, ShapeParts
    <3> HIDE DEF t, tries
    <3>3. t = [open |-> s.open, stack |-> s.stack, tries |-> tries]
      BY <3>1, <3>2
    <3>4. t.open = s.open /\ t.stack = s.stack /\ t.tries = tries
      BY <3>3
    <3>5. StackFits(heap', Top.stack, t)
      BY <1>2, <3>4, Zenon DEF StackFits
    <3>6. BlocksFit(g.blocks, tries)
      BY <1>9, <2>2 DEF tries
    <3> QED BY <1>5, <1>8, <3>4, <3>5, <3>6 DEF Fits
  <2> QED BY <2>1, <2>2
<1> HIDE DEF t
<1>11. Kin(g) /\ To(g.pc, t) \in Flow(Instr, Top.pc, Now)
  BY <1>5, <1>6, <1>8 DEF Kin
<1> QED BY <1>1, <1>7, <1>10, <1>11, GoesFollows

\* The values that an instruction needs are there.
LEMMA Deep ==
    ASSUME Stepping, NEW op, At(op), NEW n \in Nat, n = Needed(Instr)
    PROVE  /\ n <= Depth /\ Depth \in Nat /\ n <= Len(Now.stack)
           /\ \A k \in 0..(n - 1) : Nth(k) \in Refs(heap)
<1>1. /\ IInv /\ frames # <<>> /\ Now \in Shape /\ Len(Now.stack) \in Nat /\ n <= Len(Now.stack)
      /\ Top.stack \in Seq(Refs(heap))
  BY Here
<1>2. Len(Top.stack) \in Nat /\ Len(Top.stack) - Len(Now.stack) >= 0
  BY <1>1, TopBlocks, LenProperties DEF StackFits
<1>3. n <= Depth /\ Depth \in Nat
  BY <1>1, <1>2 DEF Depth
<1>4. \A k \in 0..(n - 1) : k \in Nat /\ k < Depth
  BY <1>3
<1> QED BY <1>1, <1>3, <1>4, NthOK

LEMMA GetIterFollows == ASSUME Stepping, GetIter PROVE Follows(heap', frames')
<1> DEFINE ref == Nth(0)
           h == Iter(heap, ref)
           new == Newest(h)
<1>1. At("GetIter") /\ Yield(h, 1, new)
  BY DEF GetIter
<1>2. Instr.op = "GetIter" /\ Needed(Instr) = 1
  BY <1>1, Here, NeededBy
<1>3. ref \in Refs(heap) /\ 1 <= Len(Now.stack)
  BY <1>1, <1>2, Deep
<1>4. HeapOK(heap)
  BY HeapReached DEF Stepping
<1> HIDE DEF ref
<1>5. KindOf(h, new) = "RandomAccessIterator"
  <2> DEFINE content == IteratorOn(ref, 0, heap.objs[ref].version)
  <2>1. iterator_type \in Refs(heap)
    BY <1>4, PrimitiveRefs DEF iterator_type
  <2>2. content.kind = "RandomAccessIterator"
    BY DEF IteratorOn
  <2>3. h = NewInstance(heap, NoName, iterator_type, content)
    BY DEF Iter
  <2> HIDE DEF h, content
  <2>4. KindOf(h, Newest(h)) = content.kind
    BY <1>4, <2>1, <2>3, NewInstanceClass
  <2> QED BY <2>2, <2>4
<1>6. heap' = h
  BY <1>1 DEF Yield, Continue
<1> HIDE DEF h, new
<1>7. HasTag(heap', new, "iter") /\ "iter" \in Tags
  BY <1>5, <1>6 DEF HasTag, Tags
<1>8. To(Top.pc + 1, Turned(Now, 1, <<"iter">>)) \in Flow(Instr, Top.pc, Now)
  BY <1>2, OtherFlow
<1> QED BY <1>1, <1>3, <1>7, <1>8, YieldsFollows

LEMMA PopExceptFollows == ASSUME Stepping, PopExcept PROVE Follows(heap', frames')
<1> DEFINE noStack == <<>>
           c == Cur
           f == [c EXCEPT !.stack = noStack]
           g == DropBlock(f)
           tries == ButFinal(Now.tries)
           t == [Entry EXCEPT !.tries = tries]
<1>1. At("PopExcept")
  BY DEF PopExcept
<1>2. /\ Instr.op = "PopExcept" /\ Now.tries \in Seq(Tries) /\ Now.tries # <<>>
  BY <1>1, Here DEF Allowed, Instr
<1>3. Top.blocks \in Seq(BlockSet(heap')) /\ BlocksFit(Top.blocks, Now.tries)
  BY <1>1, TopBlocks
<1>4. /\ Kin(c) /\ FrameOK(heap', c) /\ c.blocks = Top.blocks /\ c.pc = Top.pc + 1
  BY <1>1, Here, CurFields
<1>5. To(Top.pc + 1, t) \in Flow(Instr, Top.pc, Now)
  BY <1>2, OtherFlow
<1>6. t = [open |-> FALSE, stack |-> noStack, tries |-> tries]
  <2> DEFINE closed == FALSE
  <2>1. Entry = [open |-> closed, stack |-> noStack, tries |-> noStack]
    BY DEF Entry
  <2> HIDE DEF tries, noStack, closed
  <2>2. t = [open |-> closed, stack |-> noStack, tries |-> tries]
    BY <2>1
  <2> QED BY <2>2 DEF closed
<1>7. noStack \in Seq(Refs(heap')) /\ c.blocks \in Seq(BlockSet(heap')) /\ c.pc \in Nat
  BY <1>4, FrameParts
<1>8. CASE ~(Top.blocks = <<>>) /\ Continue(heap, With(g))
  <2> HIDE DEF c, t, tries
  <2>1. f = Changed(c, noStack, c.blocks, c.pc)
    <3> HIDE DEF noStack
    <3> QED BY <1>4, FrameRecord DEF Changed
  <2>2. FrameOK(heap', f)
    <3> HIDE DEF f, noStack
    <3> QED BY <1>4, <1>7, <2>1, ChangedOK
  <2>3. /\ f.code = c.code /\ f.instructions = c.instructions /\ f.pc = c.pc
        /\ f.stack = noStack /\ f.blocks = c.blocks
    <3> HIDE DEF f, noStack
    <3> QED BY <2>1 DEF Changed
  <2> HIDE DEF f
  <2>4. FrameOK(heap', g)
    BY <2>2, DropBlockOK
  <2>5. /\ g.code = f.code /\ g.instructions = f.instructions /\ g.pc = f.pc
        /\ g.stack = f.stack /\ g.blocks = ButFinal(f.blocks)
    BY <2>2, FrameFields
  <2>6. BlocksFit(g.blocks, tries)
    BY <1>2, <1>3, <1>4, <1>8, <2>3, <2>5, BlocksDropped DEF tries
  <2> HIDE DEF g
  <2>7. StackFits(heap', g.stack, t)
    <3>1. g.stack = <<>> /\ t.stack = <<>> /\ Len(g.stack) = 0 /\ Len(t.stack) = 0
      BY <1>6, <2>3, <2>5
    <3> QED BY <3>1 DEF StackFits
  <2>8. t.tries = tries
    BY <1>6
  <2>9. Fits(heap', g, t)
    BY <2>6, <2>7, <2>8 DEF Fits
  <2>10. Kin(g) /\ To(g.pc, t) \in Flow(Instr, Top.pc, Now)
    BY <1>4, <1>5, <2>3, <2>5 DEF Kin
  <2> QED BY <1>1, <1>8, <2>4, <2>9, <2>10, GoesFollows
<1> QED BY <1>8, PanicFollows DEF PopExcept

\* The tag of the value on top.
LEMMA TopHasTag ==
    ASSUME Stepping, NEW op, At(op), Needed(Instr) \in Nat, Needed(Instr) >= 1
    PROVE  HasTag(heap, Nth(0), Final(Now.stack)) /\ HasTag(heap', Nth(0), Final(Now.stack))
<1>1. /\ Now \in Shape /\ Len(Now.stack) \in Nat /\ Needed(Instr) <= Len(Now.stack)
      /\ Top.stack \in Seq(Refs(heap)) /\ Fits(heap, Top, Now) /\ Fits(heap', Top, Now)
  BY Here
<1>2. Len(Now.stack) >= 1
  BY <1>1
<1>3. /\ HasTag(heap, Top.stack[Len(Top.stack)], Final(Now.stack))
      /\ HasTag(heap', Top.stack[Len(Top.stack)], Final(Now.stack))
  BY <1>1, <1>2, TopTag DEF Fits
<1>4. Len(Top.stack) - 0 = Len(Top.stack)
  BY <1>1, LenProperties
<1> QED BY <1>3, <1>4 DEF Nth

\* What remains of a try statement's frame once its block is gone.
LEMMA DroppedCovered ==
    ASSUME Stepping, NEW op, At(op), NEW n \in Nat, Top.blocks # <<>>, Now.tries # <<>>,
           NEW g, g = DropBlock(Drop(Cur, n))
    PROVE  Midway(With(g)) /\ Covered(With(g)[Len(With(g))])
<1> DEFINE f == Drop(Cur, n)
           tries == ButFinal(Now.tries)
<1>1. Kin(f) /\ Less(f, n) /\ FrameOK(heap', f)
  BY DropsLess
<1>2. g = DropBlock(f)
  OBVIOUS
<1> HIDE DEF f
<1>3. FrameOK(heap', g)
  BY <1>1, <1>2, DropBlockOK
<1>4. /\ g.code = f.code /\ g.instructions = f.instructions
      /\ g.blocks = ButFinal(f.blocks)
  BY <1>1, <1>2, FrameFields
<1>5. Kin(g) /\ g.blocks = ButFinal(Top.blocks)
  BY <1>1, <1>4 DEF Kin, Less
<1>6. /\ Now.tries \in Seq(Tries) /\ HandlersIn(ShapesOf(Top), Now.tries)
      /\ frames # <<>> /\ Coded(Top)
  BY Here
<1>7. BlocksFit(g.blocks, tries)
  <2>1. Top.blocks \in Seq(BlockSet(heap')) /\ BlocksFit(Top.blocks, Now.tries)
    BY TopBlocks
  <2> QED BY <1>5, <1>6, <2>1, BlocksDropped
<1>8. HandlersIn(ShapesOf(Top), tries) /\ tries \in Seq(Tries)
  <2>1. Len(Now.tries) - 1 \in 0..Len(Now.tries)
    BY <1>6, LenProperties, EmptySeq
  <2> QED BY <1>6, <2>1, HandlersPrefix DEF ButFinal
<1> HIDE DEF tries
<1>9. Coded(g) /\ Covered(g)
  BY <1>5, <1>6, <1>7, <1>8 DEF Kin, Coded, ShapesOf, Covered
<1>10. Midway(With(g)) /\ Len(With(g)) = Len(frames) /\ With(g)[Len(frames)] = g
  BY <1>3, <1>6, <1>9, WithMidway
<1> QED BY <1>9, <1>10

LEMMA EndFinallyFollows == ASSUME Stepping, EndFinally PROVE Follows(heap', frames')
<1>1. At("EndFinally")
  BY DEF EndFinally
<1>2. /\ Instr.op = "EndFinally" /\ Now.tries # <<>> /\ Final(Now.stack) = "exc"
  BY <1>1, Here DEF Allowed, Instr
<1>3. Needed(Instr) = 3
  BY <1>2, NeededBy
<1>4. Raisable(heap, Nth(0))
  BY <1>1, <1>2, <1>3, TopHasTag DEF HasTag
<1>5. KindOf(heap, Nth(0)) # "None"
  BY <1>4 DEF Raisable
<1>6. CASE /\ ~(Top.blocks = <<>>)
           /\ Unwind(heap, With(DropBlock(Drop(Cur, 3))), Nth(2), Nth(0), Nth(1))
  <2> DEFINE g == DropBlock(Drop(Cur, 3))
             exc == Nth(0)
             val == Nth(1)
             traceback == Nth(2)
  <2>1. Midway(With(g)) /\ Covered(With(g)[Len(With(g))])
    BY <1>1, <1>2, <1>6, DroppedCovered
  <2>2. Unwind(heap, With(g), traceback, exc, val)
    BY <1>6
  <2>3. Raisable(heap, exc)
    BY <1>4
  <2> HIDE DEF g, exc, val, traceback
  <2> QED BY <2>1, <2>2, <2>3, UnwindFollows
<1> QED BY <1>5, <1>6, PanicFollows DEF EndFinally

LEMMA RaiseVarargsFollows ==
    ASSUME Stepping, RaisesNoStopIteration, RaiseVarargs
    PROVE  Follows(heap', frames')
<1>1. At("RaiseVarargs")
  BY DEF RaiseVarargs
<1>2. Instr.op = "RaiseVarargs" /\ Fetched
  BY <1>1, Here DEF At
<1>3. Needed(Instr) = 1
  BY <1>2, NeededBy
<1>4. Depth > 0
  BY <1>1, <1>3, Deep
<1>5. Raisable(heap, Nth(0))
  BY <1>2, <1>4 DEF RaisesNoStopIteration
<1>6. CASE Unwind(heap, With(Drop(Cur, 1)), none, Nth(0), none)
  <2> DEFINE g == Drop(Cur, 1)
             exc == Nth(0)
  <2>1. Kin(g) /\ g.blocks = Top.blocks /\ FrameOK(heap', g)
    BY <1>1, DropsLess DEF Less
  <2>2. Unwind(heap, With(g), none, exc, none)
    BY <1>6
  <2>3. Raisable(heap, exc)
    BY <1>5
  <2> HIDE DEF g, exc
  <2>4. Midway(With(g)) /\ Covered(With(g)[Len(With(g))])
    BY <1>1, <2>1, CoveredHere
  <2> QED BY <2>2, <2>3, <2>4, UnwindFollows
<1> QED BY <1>6, PanicFollows DEF RaiseVarargs

-----------------------------------------------------------------------------
(***************************************************************************)
(* FOR_ITER.  Its block takes the StopIteration of its own iterator, and   *)
(* stays behind when there is a next value.                                *)
(***************************************************************************)
LEMMA SameFits ==
    ASSUME NEW h, NEW stack, NEW s, NEW t, Shorter(t, s, 0), StackFits(h, stack, s)
    PROVE  StackFits(h, stack, t)
<1>1. /\ t.open = s.open /\ Len(t.stack) = Len(s.stack)
      /\ \A i \in 1..Len(t.stack) : t.stack[i] = s.stack[i]
  BY DEF Shorter
<1> DEFINE below == Len(stack) - Len(s.stack)
<1>2. /\ below >= 0 /\ (~s.open => below = 0)
      /\ \A i \in 1..Len(s.stack) : HasTag(h, stack[below + i], s.stack[i])
  BY DEF StackFits
<1>3. Len(stack) - Len(t.stack) = below
  BY <1>1
<1> HIDE DEF below
<1> QED BY <1>1, <1>2, <1>3, StackFitsFrom

\* The block of this FOR_ITER, and the frame that has it.
OwnBlock == ExceptPopGoto(stopiteration, 1, Cur.pc + Words(Arg))
Iterating == PushBlock(Cur, OwnBlock)

LEMMA OwnBlockOK ==
    ASSUME Stepping, At("ForIter")
    PROVE  OwnBlock \in BlockSet(heap') /\ Leftover(OwnBlock)
<1> DEFINE target == Cur.pc + Words(Arg)
           b == OwnBlock
<1>1. Cur.pc \in Nat /\ Words(Arg) \in Nat
  BY TopBlocks, WordsOK
<1>2. target \in Nat
  BY <1>1
<1>3. b = ExceptPopGoto(stopiteration, 1, target)
  BY DEF OwnBlock
<1> HIDE DEF target, b
<1>4. stopiteration \in Refs(heap')
  <2>1. stopiteration \in 1..28
    BY DEF stopiteration
  <2> QED BY <2>1 DEF Stepping, PrimitivesKept
<1>5. b \in BlockSet(heap')
  BY <1>2, <1>3, <1>4, ExceptPopGotoOK
<1>6. Leftover(b)
  BY <1>3 DEF ExceptPopGoto, Leftover
<1> QED BY <1>5, <1>6 DEF b

LEMMA IteratingFrame ==
    ASSUME Stepping, At("ForIter")
    PROVE  /\ Kin(Iterating) /\ Iterating.pc = Top.pc + 1 /\ FrameOK(heap', Iterating)
           /\ Iterating.stack = Top.stack /\ Iterating.blocks = Append(Top.blocks, OwnBlock)
           /\ Now.tries = <<>> /\ BlocksFit(Iterating.blocks, <<>>)
           /\ StackFits(heap', Top.stack, Now) /\ 1 <= Len(Now.stack)
           /\ Midway(With(Iterating)) /\ With(Iterating)[Len(With(Iterating))] = Iterating
<1> DEFINE b == OwnBlock
           f == Iterating
<1>1. /\ Top.blocks \in Seq(BlockSet(heap')) /\ BlocksFit(Top.blocks, Now.tries)
      /\ StackFits(heap', Top.stack, Now)
  BY TopBlocks
<1>5. b \in BlockSet(heap') /\ Leftover(b)
  BY OwnBlockOK
<1> HIDE DEF b
<1>7. f = PushBlock(Cur, b)
  BY DEF Iterating, b
<1> HIDE DEF f
<1>8. /\ Kin(f) /\ f.pc = Top.pc + 1 /\ FrameOK(heap', f)
      /\ f.stack = Top.stack /\ f.blocks = Append(Top.blocks, b)
  BY <1>5, <1>7, BlockPushed
<1>9. Instr.op = "ForIter" /\ Now.tries = <<>>
  BY Here DEF Allowed, Instr
<1>10. BlocksFit(f.blocks, <<>>)
  BY <1>1, <1>5, <1>8, <1>9, LeftoverPushed
<1>11. 1 <= Len(Now.stack)
  BY <1>9, NeededBy, Deep
<1>12. Coded(f) /\ frames # <<>>
  BY <1>8, Here DEF Kin, Coded, ShapesOf
<1>13. Midway(With(f)) /\ Len(With(f)) = Len(frames) /\ With(f)[Len(frames)] = f
  BY <1>8, <1>12, WithMidway
<1> QED BY <1>1, <1>8, <1>9, <1>10, <1>11, <1>13 DEF f, b

\* There is a next value.
LEMMA NextFollows ==
    ASSUME Stepping, At("ForIter"), NEW h, NEW ref, Continue(h, ReturnTo(With(Iterating), ref))
    PROVE  Follows(heap', frames')
<1> DEFINE f == Iterating
           u == Turned(Now, 0, <<"any">>)
           t == Turned(u, 1, <<>>)
<1>1. /\ Kin(f) /\ f.pc = Top.pc + 1 /\ f.stack = Top.stack /\ Now.tries = <<>>
      /\ BlocksFit(f.blocks, <<>>) /\ StackFits(heap', Top.stack, Now)
      /\ Midway(With(f)) /\ With(f)[Len(With(f))] = f
  BY IteratingFrame
<1>2. Now \in Shape /\ Len(Now.stack) \in Nat /\ Instr.op = "ForIter"
  BY Here
<1>3. /\ u.stack # <<>> /\ Final(u.stack) = "any"
      /\ Shorter(t, Now, 0) /\ t.tries = Now.tries
  <2>1. "any" \in Tags /\ 0 \in Nat /\ 0 <= Len(Now.stack)
    BY <1>2 DEF Tags
  <2> QED BY <1>2, <2>1, Exchanged
<1>4. To(Top.pc + 1, u) \in Flow(Instr, Top.pc, Now)
  BY <1>2, OtherFlow
<1> HIDE DEF f, u
<1>5. f.pc \in DOMAIN ShapesOf(f) /\ ShapeOf(f) = u
  BY <1>1, <1>4, Arrives
<1> HIDE DEF t
<1>6. Fits(heap', f, t)
  BY <1>1, <1>3, SameFits DEF Fits
<1>7. Lacks(heap', f, "any")
  BY <1>3, <1>5, <1>6 DEF Lacks, t
<1>8. HasTag(heap', ref, "any") /\ Continue(h, ReturnTo(With(f), ref))
  BY AnyTag DEF f
<1> QED BY <1>1, <1>7, <1>8, AnswerFollows

\* A stack with one more entry.
LEMMA AppendTop ==
    ASSUME NEW S, NEW s \in Seq(S), NEW e \in S
    PROVE  Len(Append(s, e)) = Len(s) + 1 /\ Append(s, e)[Len(s) + 1] = e
BY AppendProperties

LEMMA ExhaustionTaken ==
    ASSUME Stepping, NEW b, b.kind = "ExceptPopGoto", b.pattern = stopiteration, NEW exc,
           heap'.objs[exc].class = stopiteration
    PROVE  Takes(heap', b, exc)
<1>1. stopiteration \in Refs(heap')
  <2>1. stopiteration \in 1..28
    BY DEF stopiteration
  <2> QED BY <2>1 DEF Stepping, PrimitivesKept
<1>2. stopiteration \in Ancestors(heap', stopiteration)
  BY <1>1, AncestorsOf DEF Stepping
<1> QED BY <1>2 DEF Takes, NativeIsInstance, NativeIsSubclass

\* There is none: the exception is taken by the block of this very FOR_ITER.
LEMMA ExhaustedFollows ==
    ASSUME Stepping, At("ForIter"), NEW h, HeapOK(h), Raise(h, With(Iterating), stopiteration)
    PROVE  Follows(heap', frames')
<1> DEFINE f == Iterating
           b == OwnBlock
           fs == With(f)
           n == Len(fs)
           m == Len(f.blocks)
           content == StringOf("message")
           h2 == NewInstance(h, NoName, stopiteration, content)
           exc == Newest(h2)
           t == Turned(Now, 1, <<>>)
<1>1. /\ Kin(f) /\ f.stack = Top.stack /\ f.blocks = Append(Top.blocks, b)
      /\ Now.tries = <<>> /\ BlocksFit(f.blocks, <<>>) /\ FrameOK(heap', f)
      /\ StackFits(heap', Top.stack, Now) /\ 1 <= Len(Now.stack)
      /\ Midway(fs) /\ fs[n] = f
  BY IteratingFrame
<1>2. h2.objs[exc].class = stopiteration
  <2>1. stopiteration \in Refs(h)
    BY PrimitiveRefs DEF stopiteration
  <2> QED BY <2>1, NewInstanceClass
<1>3. Unwind(h2, fs, none, exc, none)
  BY DEF Raise
<1> HIDE DEF h2
<1>4. b.kind = "ExceptPopGoto" /\ b.pattern = stopiteration /\ b.pop = 1
      /\ b.target = Cur.pc + Words(Arg)
  BY DEF OwnBlock, ExceptPopGoto
<1>5. /\ n \in Nat /\ n \in 1..n /\ f.blocks \in Seq(BlockSet(heap'))
      /\ m \in Nat /\ m \in 1..m /\ f.blocks[m] = b
  <2>1. n \in Nat /\ n \in 1..n
    BY <1>1, FramesLen DEF Midway
  <2>2. Top.blocks \in Seq(BlockSet(heap')) /\ Len(Top.blocks) \in Nat
    BY TopBlocks, LenProperties
  <2>3. f.blocks \in Seq(BlockSet(heap'))
    <3> HIDE DEF f
    <3> QED BY <1>1, FrameParts
  <2>4. m = Len(Top.blocks) + 1 /\ f.blocks[Len(Top.blocks) + 1] = b
    <3>1. b \in BlockSet(heap')
      BY OwnBlockOK
    <3> HIDE DEF b, f
    <3> QED BY <1>1, <2>2, <3>1, AppendTop
  <2> HIDE DEF m, n, f, b
  <2> QED BY <2>1, <2>2, <2>3, <2>4
<1>6. ASSUME NEW i \in 1..n, NEW j \in 1..Len(fs[i].blocks), Catches(h2, fs, exc, i, j),
             Continue(h2, Append(SubSeq(fs, 1, i - 1), Land(fs[i], j, none, exc, none)))
      PROVE  Follows(heap', frames')
  <2>1. heap' = h2
    BY <1>6 DEF Continue
  <2>2. Takes(h2, b, exc)
    BY <1>2, <1>4, <2>1, ExhaustionTaken
  <2>3. i = n
    <3>1. CASE i # n
      <4>1. n \in (i + 1)..n
        BY <1>5, <3>1
      <4>2. m \in 1..Len(fs[n].blocks) /\ fs[n].blocks[m] = b
        BY <1>1, <1>5
      <4>3. ~Takes(h2, fs[n].blocks[m], exc)
        BY <1>6, <4>1, <4>2 DEF Catches
      <4> QED BY <2>2, <4>2, <4>3
    <3> QED BY <3>1
  <2>4. j = m
    <3>1. CASE j # m
      <4>1. j \in 1..m /\ m \in (j + 1)..m
        BY <1>1, <1>5, <2>3, <3>1
      <4>2. fs[i].blocks = f.blocks
        BY <1>1, <2>3
      <4>3. ~Takes(h2, f.blocks[m], exc)
        BY <1>6, <4>1, <4>2 DEF Catches
      <4> QED BY <1>5, <2>2, <4>3
    <3> QED BY <3>1
  <2> DEFINE g == Land(f, m, none, exc, none)
  <2>5. Continue(h2, Append(SubSeq(fs, 1, n - 1), g))
    BY <1>1, <1>6, <2>3, <2>4
  <2>6. Kin(g) /\ g.pc = Cur.pc + Words(Arg) /\ g.stack = SubSeq(Top.stack, 1, Len(Top.stack) - 1)
        /\ g.blocks = ButFinal(f.blocks)
    <3>1. Top.stack \in Seq(Refs(heap')) /\ 1 <= Len(Top.stack)
      BY <1>1, Here, FrameParts DEF StackFits
    <3>2. b.pop <= Len(f.stack) /\ b.pop \in Nat /\ b.kind # "TryExcept"
      BY <1>1, <1>4, <3>1
    <3>0. g = Land(f, m, none, exc, none) /\ FrameOK(heap', f) /\ b = f.blocks[m]
      BY <1>1, <1>5
    <3> HIDE DEF f, b, exc, g, m
    <3>3. /\ g.code = f.code /\ g.instructions = f.instructions /\ g.pc = b.target
          /\ g.stack = SubSeq(f.stack, 1, Len(f.stack) - b.pop)
          /\ g.blocks = SubSeq(f.blocks, 1, m - 1)
      BY <3>0, <3>2, GotoLands
    <3> QED BY <1>1, <1>4, <3>3 DEF Kin, ButFinal, m
  <2> HIDE DEF g
  <2>7. StackFits(heap', g.stack, t) /\ t.tries = <<>>
    <3>1. Shorter(t, Now, 1) /\ t.tries = Now.tries
      BY <1>1, Here, Popped
    <3>2. Top.stack \in Seq(Refs(heap))
      BY Here
    <3> HIDE DEF t
    <3> QED BY <1>1, <2>6, <3>1, <3>2, PopFits
  <2>8. BlocksFit(g.blocks, <<>>)
    <3>1. f.blocks # <<>>
      BY <1>5, EmptySeq
    <3>2. <<>> \in Seq(Tries)
      BY EmptySeq
    <3> QED BY <1>1, <1>5, <2>6, <3>1, <3>2, BlocksDropped
  <2>9. To(g.pc, t) \in Flow(Instr, Top.pc, Now)
    <3>1. To(Top.pc + 1 + Words(Arg), t) \in Flow(Instr, Top.pc, Now)
      <4>1. Instr.op = "ForIter"
        BY Here
      <4> QED BY <4>1, OtherFlow DEF Arg
    <3>2. Cur.pc = Top.pc + 1
      BY TopBlocks
    <3> QED BY <2>6, <3>1, <3>2
  <2> HIDE DEF t
  <2>10. Coded(g) /\ Runs(heap', g)
    <3>1. Fits(heap', g, t)
      BY <2>7, <2>8 DEF Fits
    <3> QED BY <2>6, <2>9, <3>1, Arrives
  <2> HIDE DEF fs
  <2> QED BY <1>1, <1>5, <2>5, <2>10, CutFollows
<1>7. CASE Panic("UncaughtException")
  BY <1>7, PanicFollows
<1> HIDE DEF fs, exc
<1> QED BY <1>3, <1>6, <1>7 DEF Unwind

LEMMA ForIterFollows == ASSUME Stepping, ForIter PROVE Follows(heap', frames')
<1> DEFINE h == NewPrimitive(heap, NoName, "iter")
           func == Newest(h)
           fs == With(Iterating)
           it == Nth(0)
           args == <<it>>
<1>1. At("ForIter") /\ Call(h, fs, func, args, <<>>, <<>>)
  BY DEF ForIter, Iterating, OwnBlock
<1>2. Instr.op = "ForIter" /\ Final(Now.stack) = "iter"
  BY <1>1, Here DEF Allowed, Instr
<1>3. Needed(Instr) = 1
  BY <1>2, NeededBy
<1>4. KindOf(heap, it) = "RandomAccessIterator"
  BY <1>1, <1>2, <1>3, TopHasTag DEF HasTag
<1>5. it \in Refs(heap)
  BY <1>1, <1>3, Deep
<1>6. HeapOK(heap)
  BY HeapReached DEF Stepping
<1>7. /\ HeapOK(h) /\ KindOf(h, it) = "RandomAccessIterator"
      /\ h.objs[func].content.kind = "PrimitiveFunction" /\ h.objs[func].content.str = "iter"
  <2> DEFINE content == PrimitiveFunctionOf("iter")
  <2>1. ContentOK(heap, content)
    BY EmptySeq DEF ContentOK, PrimitiveFunctionOf, Content, Kinds
  <2>2. content.kind = "PrimitiveFunction" /\ content.str = "iter"
    BY DEF PrimitiveFunctionOf, Content
  <2>3. h = NewInstance(heap, NoName, function_type, content)
    BY DEF NewPrimitive
  <2>4. function_type \in Refs(heap)
    BY <1>6, PrimitiveRefs DEF function_type
  <2> HIDE DEF h, content
  <2>5. Made(heap, h) /\ h.objs[Newest(h)].content = content
    BY <1>6, <2>1, <2>3, <2>4, NewInstanceOK
  <2>6. HeapOK(h) /\ h.objs[it] = heap.objs[it]
    BY <1>5, <2>5 DEF Made, Extended, Keeps
  <2> QED BY <1>4, <2>2, <2>5, <2>6 DEF KindOf
<1> HIDE DEF h, fs, it
<1>8. args[1] = it /\ Len(args) = 1
  OBVIOUS
<1> HIDE DEF func, args
<1>9. CallPrimitive(h, fs, "iter", args)
  BY <1>1, <1>7 DEF Call
<1>10. IterNext(h, fs, args)
  BY <1>9 DEF CallPrimitive
<1>11. Advance(h, fs, it)
  BY <1>7, <1>8, <1>10 DEF IterNext
<1>12. ASSUME NEW h2, NEW ref, Continue(h2, ReturnTo(fs, ref)) PROVE Follows(heap', frames')
  BY <1>1, <1>12, NextFollows DEF fs
<1>13. CASE Raise(h, fs, stopiteration)
  BY <1>1, <1>7, <1>13, ExhaustedFollows DEF fs
<1> QED BY <1>11, <1>12, <1>13, PanicFollows DEF Advance

LEMMA BlockStepFollows ==
    ASSUME Stepping, RaisesNoStopIteration, BlockStep
    PROVE  Follows(heap', frames')
BY SetupLoopFollows, SetupExceptFollows, PopBlockFollows, GetIterFollows, ForIterFollows,
   PopExceptFollows, EndFinallyFollows, RaiseVarargsFollows DEF BlockStep

-----------------------------------------------------------------------------
(***************************************************************************)
(* Calls and returns.                                                      *)
(***************************************************************************)
\* The frame that waits for the result of the call that it makes.
LEMMA CallerWaits ==
    ASSUME Stepping, NEW op \in Giving, At(op), NEW n \in Nat, n = Needed(Instr),
           NEW g, g = Drop(Cur, n)
    PROVE  Midway(With(g)) /\ Waits(heap', With(g)[Len(With(g))])
<1> DEFINE u == Turned(Now, n, <<"any">>)
           t == Turned(u, 1, <<>>)
<1>1. /\ Instr.op = op /\ n <= Len(Now.stack) /\ frames # <<>> /\ Now \in Shape
      /\ Coded(Top)
  BY Here
<1>2. Kin(g) /\ g.pc = Top.pc + 1 /\ Less(g, n) /\ FrameOK(heap', g)
  BY DropsLess
<1>3. /\ u.stack # <<>> /\ Final(u.stack) = "any"
      /\ Shorter(t, Now, n) /\ t.tries = Now.tries
  <2>1. "any" \in Tags
    BY DEF Tags
  <2> QED BY <1>1, <2>1, Exchanged
<1>4. To(Top.pc + 1, u) \in Flow(Instr, Top.pc, Now)
  <2>1. Pushed(Instr) = <<"any">> /\ Instr.op \in Straight
    BY <1>1 DEF Pushed, Straight
  <2> QED BY <2>1, StraightFlow
<1> HIDE DEF u
<1>5. To(g.pc, u) \in Flow(Instr, Top.pc, Now)
  BY <1>2, <1>4
<1>6. Coded(g) /\ g.pc \in DOMAIN ShapesOf(g) /\ ShapeOf(g) = u
  BY <1>2, <1>5, Arrives
<1>7. Fits(heap', g, t)
  <2> HIDE DEF t
  <2> QED BY <1>2, <1>3, LessFits
<1>8. Waits(heap', g)
  BY <1>3, <1>6, <1>7 DEF Waits
<1>9. Midway(With(g)) /\ Len(With(g)) = Len(frames) /\ With(g)[Len(frames)] = g
  BY <1>1, <1>2, <1>6, WithMidway
<1> QED BY <1>8, <1>9

LEMMA MadeCallFollows ==
    ASSUME Stepping, NEW op \in Giving, At(op), NEW n \in Nat, n = Needed(Instr),
           NEW func \in Refs(heap), ~CallsIter(func), NEW args \in Seq(Refs(heap)), NEW keys,
           NEW values, Call(heap, With(Drop(Cur, n)), func, args, keys, values)
    PROVE  Follows(heap', frames')
<1> DEFINE g == Drop(Cur, n)
<1>1. Midway(With(g)) /\ Waits(heap', With(g)[Len(With(g))])
  BY CallerWaits
<1>2. Call(heap, With(g), func, args, keys, values)
  OBVIOUS
<1> HIDE DEF g
<1> QED BY <1>1, <1>2, CallFollows

LEMMA CallFunctionFollows ==
    ASSUME Stepping, RaisesNoStopIteration, CallFunction
    PROVE  Follows(heap', frames')
<1>1. At("CallFunction")
  BY DEF CallFunction
<1>2. Instr.op = "CallFunction" /\ Arg \in Nat /\ IInv /\ frames # <<>> /\ Fetched
  BY <1>1, Here DEF At
<1> DEFINE n == Arg + 1
<1>3. n \in Nat /\ n = Needed(Instr) /\ "CallFunction" \in Giving
  BY <1>2, NeededBy DEF Arg, Giving
<1>4. n <= Depth /\ Depth \in Nat /\ \A k \in 0..(n - 1) : Nth(k) \in Refs(heap)
  BY <1>1, <1>3, Deep
<1>5. Nth(Arg) \in Refs(heap) /\ ~CallsIter(Nth(Arg))
  BY <1>2, <1>4 DEF RaisesNoStopIteration
<1>6. Slice(Arg, 0) \in Seq(Refs(heap))
  BY <1>2, <1>4, SliceOK
<1>7. Call(heap, With(Drop(Cur, n)), Nth(Arg), Slice(Arg, 0), <<>>, <<>>)
  BY DEF CallFunction
<1> HIDE DEF n
<1> QED BY <1>1, <1>3, <1>5, <1>6, <1>7, MadeCallFollows

LEMMA CallFunctionKwFollows ==
    ASSUME Stepping, RaisesNoStopIteration, CallFunctionKw
    PROVE  Follows(heap', frames')
<1> DEFINE keys == heap.objs[Nth(0)].content.refs
           m == Len(keys)
           n == Arg + 2
           args == Slice(Arg - m, m + 1)
           values == Slice(m, 1)
<1>1. At("CallFunctionKw")
  BY DEF CallFunctionKw
<1>2. Instr.op = "CallFunctionKw" /\ Arg \in Nat /\ IInv /\ frames # <<>> /\ Fetched
  BY <1>1, Here DEF At
<1>3. n \in Nat /\ n = Needed(Instr) /\ "CallFunctionKw" \in Giving
  BY <1>2, NeededBy DEF Arg, Giving
<1>4. n <= Depth /\ Depth \in Nat /\ \A k \in 0..(n - 1) : Nth(k) \in Refs(heap)
  BY <1>1, <1>3, Deep
<1>5. Nth(Arg + 1) \in Refs(heap) /\ ~CallsIter(Nth(Arg + 1))
  BY <1>2, <1>4 DEF RaisesNoStopIteration
<1>6. m \in Nat
  <2>1. Nth(0) \in Refs(heap) /\ HeapOK(heap)
    BY <1>2, <1>4, HeapReached DEF Stepping
  <2> QED BY <2>1, LenProperties DEF HeapOK, ObjectOK, ContentOK
<1> HIDE DEF keys, m
<1>7. CASE /\ ~(Arg < m)
           /\ Call(heap, With(Drop(Cur, n)), Nth(Arg + 1), args, keys, values)
  <2>1. args \in Seq(Refs(heap))
    <3>1. Arg - m \in Nat /\ m + 1 \in Nat /\ (Arg - m) + (m + 1) <= Depth
      BY <1>2, <1>4, <1>6, <1>7
    <3> QED BY <1>2, <3>1, SliceOK
  <2> HIDE DEF n, args, values
  <2> QED BY <1>1, <1>3, <1>5, <1>7, <2>1, MadeCallFollows
<1>8. CASE Panic("panic") \/ Panic("StackTooSmall")
  BY <1>8, PanicFollows
<1> QED BY <1>7, <1>8 DEF CallFunctionKw, keys, m

LEMMA ReturnValueFollows == ASSUME Stepping, ReturnValue PROVE Follows(heap', frames')
<1> DEFINE n == Len(frames)
           rest == SubSeq(frames, 1, n - 1)
<1>1. At("ReturnValue")
  BY DEF ReturnValue
<1>2. /\ FramesOK(heap, frames) /\ n \in Nat
      /\ \A i \in 1..n : FrameOK(heap, frames[i]) /\ Coded(frames[i])
      /\ \A i \in 1..n : i < n => Waits(heap', frames[i])
  BY FramesThere
<1>3. frames # <<>>
  BY <1>1, Here
<1>4. n # 0
  BY <1>2, <1>3, FramesLen
<1>5. /\ IsSequence(rest) /\ Len(rest) = n - 1
      /\ \A i \in 1..(n - 1) : rest[i] = frames[i]
  <2>1. frames \in Seq({frames[i] : i \in 1..n})
    BY <1>2 DEF FramesOK, IsSequence
  <2>2. n - 1 \in 0..n
    BY <1>2, <1>4
  <2> HIDE DEF rest
  <2>3. /\ rest \in Seq({frames[i] : i \in 1..n}) /\ Len(rest) = n - 1
        /\ \A i \in 1..(n - 1) : rest[i] = frames[i]
    BY <2>1, <2>2, SomePrefix DEF rest
  <2> QED BY <2>3, SeqIsSequence
<1> HIDE DEF rest
<1>6. ASSUME NEW i \in 1..(n - 1)
      PROVE  FrameOK(heap', rest[i]) /\ Coded(rest[i]) /\ Waits(heap', rest[i])
  <2>1. i \in 1..n /\ i < n
    BY <1>2
  <2>2. FrameOK(heap', frames[i])
    BY <1>2, <2>1, FrameKept
  <2> QED BY <1>2, <1>5, <2>1, <2>2
<1>7. CASE rest # <<>> /\ Continue(heap, ReturnTo(rest, Nth(0)))
  <2>1. FramesOK(heap', rest)
    BY <1>5, <1>6 DEF FramesOK
  <2>2. Midway(rest)
    BY <1>5, <1>6, <1>7, <2>1 DEF Midway
  <2>3. Len(rest) \in 1..(n - 1)
    BY <1>5, <1>7, <2>1, FramesLen
  <2>4. Waits(heap', rest[Len(rest)])
    BY <1>6, <2>3
  <2> QED BY <1>7, <2>2, <2>4, ResultFollows
<1>8. CASE rest = <<>> /\ frames' = rest
  <2>1. Len(frames') = 0
    BY <1>8
  <2> QED BY <2>1 DEF Follows
<1> QED BY <1>7, <1>8 DEF ReturnValue, rest

LEMMA CallStepFollows ==
    ASSUME Stepping, RaisesNoStopIteration, CallStep
    PROVE  Follows(heap', frames')
<1>1. Stepping
  OBVIOUS
<1>2. \A op : At(op) => Instr.op = op /\ Arg \in Nat
  BY Here
<1>3. CASE LoadBuildClass
  BY <1>2, <1>3, NeededBy, GivingFollows DEF LoadBuildClass, Giving
<1>4. CASE MakeFunction
  <2> DEFINE n == IF Arg = 2 THEN 3 ELSE 2
  <2>1. At("MakeFunction") /\ Instr.op = "MakeFunction"
    BY <1>2, <1>4 DEF MakeFunction
  <2>2. n \in Nat /\ n = Needed(Instr)
    BY <2>1, NeededBy DEF Arg
  <2> HIDE DEF n
  <2>3. ASSUME NEW h, NEW ref, Yield(h, n, ref) PROVE Follows(heap', frames')
    BY <2>1, <2>2, <2>3, GivingFollows DEF Giving
  <2>4. ASSUME Raise(heap, With(Drop(Cur, 1)), typeerror) PROVE Follows(heap', frames')
    BY <2>1, <2>4, RaiseDropped
  <2> QED BY <1>4, <2>3, <2>4, PanicFollows DEF MakeFunction, n
<1>5. CASE CallFunction
  BY <1>5, CallFunctionFollows
<1>6. CASE CallFunctionKw
  BY <1>6, CallFunctionKwFollows
<1>7. CASE ReturnValue
  BY <1>7, ReturnValueFollows
<1> QED BY <1>3, <1>4, <1>5, <1>6, <1>7 DEF CallStep

\* A module starts with a frame of its own.
LEMMA StartModuleFollows == ASSUME Stepping, StartModule PROVE Follows(heap', frames')
<1> DEFINE name == Head(queue)
           code == ModuleCode(name)
           id   == heap.objs[code].content.num
           h1   == NewModule(NewModule(heap, name, code), name, code)
           h2   == NewSpace(h1, EmptyMap)
           f    == NewFrame(Newest(h1), id, Code[id].instructions, Len(h2.spaces))
<1>1. HeapOK(heap) /\ code \in Refs(heap)
  BY ExtendedHeap, ModuleCodeLoaded DEF Stepping, StableInv
<1>2. CASE Panic("NotACodeObject")
  BY <1>2, PanicFollows
<1>3. CASE KindOf(heap, code) = "Code" /\ frames' = <<f>>
  <2>1. id \in 1..Len(Code)
    BY <1>1, <1>3 DEF HeapOK, ObjectOK, ContentOK, KindOf
  <2> HIDE DEF id
  <2>2. Obeys(Code[id].instructions, Shapes[prog][id])
    BY <2>1, CodeObeys
  <2> HIDE DEF h1, h2
  <2>3. Coded(f) /\ Runs(heap', f)
    BY <2>2, NewFrameRuns
  <2>4. Len(frames') = 1 /\ frames'[1] = f
    BY <1>3
  <2> HIDE DEF f
  <2> QED BY <2>3, <2>4 DEF Follows
<1> QED BY <1>2, <1>3 DEF StartModule

-----------------------------------------------------------------------------
(***************************************************************************)
(* No step changes which program runs.                                     *)
(***************************************************************************)
LEMMA SameContinue == ASSUME NEW h, NEW fs, Continue(h, fs) PROVE prog' = prog
BY DEF Continue

LEMMA SamePanic == ASSUME NEW why, Panic(why) PROVE prog' = prog
BY DEF Panic

LEMMA SameUnwind ==
    ASSUME NEW h, NEW fs, NEW traceback, NEW exc, NEW val, Unwind(h, fs, traceback, exc, val)
    PROVE  prog' = prog
BY SameContinue, SamePanic DEF Unwind

LEMMA SameRaise == ASSUME NEW h, NEW fs, NEW class, Raise(h, fs, class) PROVE prog' = prog
BY SameUnwind DEF Raise

LEMMA SameRaiseNaming ==
    ASSUME NEW h, NEW fs, NEW ref, NEW class, RaiseNaming(h, fs, ref, class)
    PROVE  prog' = prog
BY SamePanic, SameRaise DEF RaiseNaming

LEMMA CallSameProgram ==
    ASSUME NEW h, NEW fs, NEW func, NEW args, NEW keys, NEW values,
           Call(h, fs, func, args, keys, values)
    PROVE  prog' = prog
<1>1. ASSUME CallCode(h, fs, func, args, keys, values) PROVE prog' = prog
  BY <1>1, SameContinue, SamePanic DEF CallCode
<1>2. ASSUME NEW name, CallPrimitive(h, fs, name, args) PROVE prog' = prog
  <2>1. ASSUME WriteStdout(h, fs, args) PROVE prog' = prog
    BY <2>1, SamePanic DEF WriteStdout
  <2>2. ASSUME BuildClass(h, fs, args) PROVE prog' = prog
    BY <2>2, SameContinue, SamePanic DEF BuildClass
  <2>3. ASSUME IsSubclass(h, fs, args) \/ IsInstance(h, fs, args) PROVE prog' = prog
    BY <2>3, SameContinue, SamePanic DEF IsSubclass, IsInstance
  <2>4. ASSUME NEW ref, Advance(h, fs, ref) PROVE prog' = prog
    BY <2>4, SameContinue, SamePanic, SameRaise DEF Advance
  <2>5. ASSUME IterNext(h, fs, args) PROVE prog' = prog
    BY <2>4, <2>5, SamePanic, SameRaiseNaming DEF IterNext
  <2> QED BY <1>2, <2>1, <2>2, <2>3, <2>5, SameRaise DEF CallPrimitive
<1> QED BY <1>1, <1>2, SameContinue, SameRaiseNaming DEF Call

LEMMA NextProgram == ASSUME [Next]_vars PROVE prog' = prog
<1>1. CASE StackStep
  BY <1>1, SameContinue, SamePanic DEF StackStep, PushImmediate, PopTop, DupTop, Nop, LoadConst,
     BuildTuple, BuildConstKeyMap, Pop, Yield
<1>2. CASE NameStep
  <2>1. ASSUME LoadNameOrGlobal PROVE prog' = prog
    BY <2>1, SameContinue, SamePanic, SameRaise DEF LoadNameOrGlobal, Yield
  <2>2. ASSUME LoadAttr PROVE prog' = prog
    BY <2>2, SameContinue, SameRaise DEF LoadAttr, Yield
  <2> QED BY <1>2, <2>1, <2>2, SameContinue, SamePanic DEF NameStep, StoreName, StoreFast,
             LoadFast, StoreGlobal, LoadName, LoadGlobal, StoreAttr, Yield
<1>3. CASE JumpStep
  BY <1>3, SameContinue, SamePanic, SameRaise DEF JumpStep, BinarySubscr, CompareOp,
     JumpAbsolute, JumpForward, PopJumpIfFalse, Pop, Yield
<1>4. CASE BlockStep
  BY <1>4, SameContinue, SamePanic, SameUnwind, CallSameProgram DEF BlockStep, SetupLoop, SetupExcept,
     PopBlock, GetIter, ForIter, PopExcept, EndFinally, RaiseVarargs, Pop, Yield
<1>5. CASE CallStep
  <2>1. ASSUME MakeFunction PROVE prog' = prog
    BY <2>1, SameContinue, SamePanic, SameRaise DEF MakeFunction, Yield
  <2>2. ASSUME ReturnValue PROVE prog' = prog
    BY <2>2, SameContinue DEF ReturnValue
  <2> QED BY <1>5, <2>1, <2>2, SameContinue, SamePanic, CallSameProgram DEF CallStep, LoadBuildClass,
             CallFunction, CallFunctionKw, Yield
<1>6. CASE Fail
  BY <1>6, SamePanic DEF Fail
<1>7. CASE StartModule
  BY <1>7, SamePanic DEF StartModule
<1>8. CASE UNCHANGED vars
  BY <1>8 DEF vars
<1> QED BY <1>1, <1>2, <1>3, <1>4, <1>5, <1>6, <1>7, <1>8 DEF Next, Step, Halted

-----------------------------------------------------------------------------
(***************************************************************************)
(* The inductive invariant.                                                *)
(***************************************************************************)

LEMMA StepsFollow ==
    ASSUME Stepping, RaisesNoStopIteration, [Next]_vars
    PROVE  Follows(heap', frames')
<1>1. CASE Fail
  BY <1>1, PanicFollows DEF Fail
<1>2. CASE UNCHANGED vars
  BY <1>2 DEF vars, Stepping
<1> QED BY <1>1, <1>2, StackStepFollows, NameStepFollows, JumpStepFollows, BlockStepFollows,
           CallStepFollows, StartModuleFollows DEF Next, Halted, Step

\* The store has what it takes to tell exceptions apart, and the frames of a
\* verified program have their shapes.
DInv == StableInv /\ PrimitivesKept(heap) /\ (Verified(prog) => Follows(heap, frames))

LEMMA DInvStarts == ASSUME Init PROVE DInv
<1>1. StableInv
  BY InitStable
<1>2. PrimitivesKept(heap)
  <2>1. prog \in 1..Len(Programs) /\ IsProgram(Programs[prog]) /\ heap = LoadedHeap
    BY ProgramsAssumption DEF Init
  <2>2. HeapOK(heap)
    BY <1>1 DEF StableInv, IInv, RefsValid
  <2>3. \A r \in 1..28 : heap.objs[r] = PrimitiveObject(r)
    BY <2>1, LoadedObjects
  <2>4. \A r \in 1..28 : PrimitiveObject(r).bases = PrimitiveBases(r)
    BY DEF PrimitiveObject
  <2> QED BY <2>2, <2>3, <2>4, PrimitiveRefs DEF PrimitivesKept
<1>3. Follows(heap, frames)
  <2>1. Len(frames) = 0
    BY DEF Init
  <2> QED BY <2>1 DEF Follows
<1> QED BY <1>1, <1>2, <1>3 DEF DInv

\* The other direction of SameProgram.
LEMMA HeapThen == ASSUME prog' = prog, HeapOK(heap)' PROVE HeapOK(heap')
<1>1. Code' = Code
  BY DEF Code
<1>2. \A c : ContentOK(heap, c)' => ContentOK(heap', c)
  BY <1>1 DEF ContentOK, Refs, Spaces
<1>3. \A o : ObjectOK(heap, o)' => ObjectOK(heap', o)
  BY <1>2 DEF ObjectOK, Refs, Spaces
<1> QED BY <1>3 DEF HeapOK, MapOK, Refs, Spaces

LEMMA DInvKept == ASSUME DInv, RaisesNoStopIteration, [Next]_vars PROVE DInv'
<1>1. StableInv /\ StableInv' /\ Stepped(heap')
  BY NextStable, NextMoved DEF DInv, Moved, Started
<1>2. prog' = prog
  BY NextProgram DEF DInv
<1>3. PrimitivesKept(heap')
  BY <1>1, PrimitivesStay DEF DInv
<1>4. HeapOK(heap')
  <2>1. HeapOK(heap)'
    BY <1>1 DEF StableInv, IInv, RefsValid
  <2> QED BY <1>2, <2>1, HeapThen
<1>5. Classes(heap')
  <2>1. Store(heap')
    BY <1>1 DEF Stepped
  <2> QED BY <1>4, <2>1, StoreClasses
<1>6. ASSUME Verified(prog) PROVE Follows(heap', frames')
  <2>1. Stepping
    BY <1>1, <1>3, <1>5, <1>6 DEF Stepping, DInv
  <2> QED BY <2>1, StepsFollow
<1>7. Verified(prog)' <=> Verified(prog)
  BY <1>2
<1>8. Follows(heap', frames') => Follows(heap, frames)'
  BY <1>2 DEF Follows, Coded, Runs, Waits, ShapeOf, ShapesOf, Fits
<1>9. PrimitivesKept(heap)'
  BY <1>3 DEF PrimitivesKept, Refs
<1> QED BY <1>1, <1>6, <1>7, <1>8, <1>9 DEF DInv

-----------------------------------------------------------------------------
(***************************************************************************)
(* What the invariant says of the frames.                                  *)
(***************************************************************************)
LEMMA InvariantFollows == ASSUME DInv, Verified(prog) PROVE FollowsShapes
BY DEF DInv, Follows, FollowsShapes

\* A frame that waits has in force what its address has, as the one that runs.
LEMMA BlocksInForce ==
    ASSUME DInv, Verified(prog), NEW i \in 1..Len(frames)
    PROVE  LET f == frames[i]
           IN  /\ f.pc \in DOMAIN ShapesOf(f) /\ ShapeOf(f) \in Shape
               /\ f.blocks \in Seq(BlockSet(heap))
               /\ BlocksFit(f.blocks, ShapeOf(f).tries)
               /\ \A k \in 1..Len(ShapeOf(f).tries) :
                    InForce(f.instructions, ShapeOf(f).tries[k], f.pc)
<1> DEFINE f == frames[i]
<1>1. Coded(f) /\ (Runs(heap, f) \/ Waits(heap, f)) /\ FrameOK(heap, f)
  BY DEF DInv, Follows, StableInv, IInv, RefsValid, FramesOK
<1> HIDE DEF f
<1>2. f.pc \in DOMAIN ShapesOf(f)
  BY <1>1 DEF Runs, Waits
<1>3. /\ ShapeOf(f) \in Shape
      /\ \A k \in 1..Len(ShapeOf(f).tries) :
            InForce(f.instructions, ShapeOf(f).tries[k], f.pc)
  BY <1>1, <1>2, ObeysAt DEF Coded, ShapeOf
<1>4. BlocksFit(f.blocks, ShapeOf(f).tries)
  <2>1. CASE Runs(heap, f)
    BY <2>1 DEF Runs, Fits
  <2>2. CASE Waits(heap, f)
    <3>1. Turned(ShapeOf(f), 1, <<>>).tries = ShapeOf(f).tries
      BY <1>3, ShapeParts DEF Turned, Shape
    <3> QED BY <2>2, <3>1 DEF Waits, Fits
  <2> QED BY <1>1, <2>1, <2>2
<1>5. f.blocks \in Seq(BlockSet(heap))
  BY <1>1 DEF FrameOK
<1> QED BY <1>2, <1>3, <1>4, <1>5 DEF f

LEMMA NothingStale == ASSUME DInv, Verified(prog) PROVE NoStaleHandler
<1> SUFFICES ASSUME NEW i \in 1..Len(frames), NEW j \in 1..Len(frames[i].blocks),
                    frames[i].blocks[j].kind = "TryExcept"
             PROVE  frames[i].pc \in frames[i].blocks[j].begin
                      ..(EndOfTry(frames[i].instructions, frames[i].blocks[j]) - 1)
  BY DEF NoStaleHandler
<1> DEFINE f == frames[i]
           b == f.blocks[j]
           tries == ShapeOf(f).tries
           below == Len(f.blocks) - Len(tries)
           k == j - below
<1>1. /\ ShapeOf(f) \in Shape /\ f.blocks \in Seq(BlockSet(heap)) /\ BlocksFit(f.blocks, tries)
      /\ \A m \in 1..Len(tries) : InForce(f.instructions, tries[m], f.pc)
  BY BlocksInForce
<1>2. j \in 1..Len(f.blocks) /\ b.kind = "TryExcept"
  OBVIOUS
<1>3. Len(tries) \in Nat /\ Len(f.blocks) \in Nat
  BY <1>1, ShapeParts, LenProperties
<1> HIDE DEF f, tries
<1>4. below >= 0 /\ ~(j \in 1..below)
  BY <1>1, <1>2 DEF BlocksFit, Leftover
<1>5. k \in 1..Len(tries) /\ below + k = j
  <2> DEFINE m == Len(f.blocks)
             n == Len(tries)
  <2>1. m \in Nat /\ n \in Nat /\ below = m - n /\ below >= 0 /\ j \in 1..m /\ ~(j \in 1..below)
    BY <1>2, <1>3, <1>4
  <2> HIDE DEF below, m, n
  <2>2. k \in 1..n /\ below + k = j
    BY <2>1
  <2> QED BY <2>2 DEF n
<1>6. b.begin = tries[k].begin /\ b.target = tries[k].target
  BY <1>1, <1>5 DEF BlocksFit
<1>7. InForce(f.instructions, tries[k], f.pc)
  BY <1>1, <1>5
<1> HIDE DEF b, k
<1>8. f.pc \in b.begin..(EndOfTry(f.instructions, b) - 1)
  BY <1>6, <1>7 DEF InForce, EndOfTry
<1> QED BY <1>8 DEF f, b

\* The frame that runs, at an instruction that its code has.
LEMMA RunningFrame ==
    ASSUME DInv, Verified(prog), Fetched
    PROVE  /\ Top.pc \in DOMAIN ShapesOf(Top) /\ Now \in Shape
           /\ Top.stack \in Seq(Refs(heap))
           /\ StackFits(heap, Top.stack, Now)
           /\ Allowed(Top.instructions, Top.pc, Now)
<1>1. Len(frames) \in Nat /\ Len(frames) > 0
  BY FramesLen DEF Fetched, DInv, StableInv, IInv, RefsValid
<1>2. Coded(Top) /\ Runs(heap, Top)
  <2>1. Len(frames) \in 1..Len(frames)
    BY <1>1
  <2> QED BY <2>1, Zenon DEF DInv, Follows, Top
<1>3. Top.stack \in Seq(Refs(heap))
  <2>1. FrameOK(heap, frames[Len(frames)])
    BY <1>1 DEF DInv, StableInv, IInv, RefsValid, FramesOK
  <2> QED BY <2>1 DEF FrameOK, Top
<1>4. Top.pc \in DOMAIN ShapesOf(Top) /\ StackFits(heap, Top.stack, Now)
  BY <1>2 DEF Runs, Fits, Now
<1>5. Now \in Shape /\ Allowed(Top.instructions, Top.pc, Now)
  BY <1>2, <1>4, ObeysAt DEF Coded, Now, ShapeOf
<1> QED BY <1>3, <1>4, <1>5

LEMMA IteratorKept == ASSUME DInv, Verified(prog) PROVE LoopKeepsIterator
<1> SUFFICES ASSUME Fetched, Instr.op = "ForIter"
             PROVE  Depth > 0 /\ KindOf(heap, Nth(0)) = "RandomAccessIterator"
  BY DEF LoopKeepsIterator
<1>1. /\ Now \in Shape /\ Top.stack \in Seq(Refs(heap)) /\ StackFits(heap, Top.stack, Now)
      /\ Allowed(Top.instructions, Top.pc, Now)
  BY RunningFrame
<1>2. Top.instructions[Top.pc + 1].op = "ForIter"
  BY DEF Instr
<1>3. Final(Now.stack) = "iter" /\ Needed(Top.instructions[Top.pc + 1]) <= Len(Now.stack)
  BY <1>1, <1>2 DEF Allowed
<1>4. Needed(Top.instructions[Top.pc + 1]) = 1
  BY <1>2 DEF Needed
<1>5. HasTag(heap, Top.stack[Len(Top.stack)], Final(Now.stack)) /\ Len(Top.stack) >= 1
  BY <1>1, <1>3, <1>4, TopTag
<1>6. Len(Top.stack) \in Nat /\ Nth(0) = Top.stack[Len(Top.stack)]
  BY <1>1, LenProperties DEF Nth
<1> QED BY <1>3, <1>5, <1>6 DEF HasTag, Depth

LEMMA CleanReturn == ASSUME DInv, Verified(prog) PROVE ReturnsCleanly
<1> SUFFICES ASSUME Fetched, Instr.op = "ReturnValue"
             PROVE  Depth = 1 + Cardinality(Peeked(Top.instructions))
  BY DEF ReturnsCleanly
<1>1. /\ Now \in Shape /\ Top.stack \in Seq(Refs(heap)) /\ StackFits(heap, Top.stack, Now)
      /\ Allowed(Top.instructions, Top.pc, Now)
  BY RunningFrame
<1>2. Top.instructions[Top.pc + 1].op = "ReturnValue"
  BY DEF Instr
<1>3. ~Now.open /\ Len(Now.stack) = 1 + Cardinality(Peeked(Top.instructions))
  BY <1>1, <1>2 DEF Allowed
<1>4. Len(Top.stack) \in Nat /\ Len(Now.stack) \in Nat
  BY <1>1, LenProperties, ShapeParts
<1>5. Len(Top.stack) = Len(Now.stack)
  BY <1>1, <1>3, <1>4 DEF StackFits
<1> QED BY <1>3, <1>5 DEF Depth

-----------------------------------------------------------------------------
(***************************************************************************)
(* The theorems.  Each is of the executions in which a program raises      *)
(* neither None nor a StopIteration and leaves iter to FOR_ITER.  That is  *)
(* part of RaisesExceptions, which MCStructured checks, and it checks that *)
(* the programs it runs are verified.                                      *)
(***************************************************************************)
LEMMA DisciplineInvariant == Spec /\ []RaisesNoStopIteration => []DInv
<1>1. Init => DInv
  BY DInvStarts
<1>2. DInv /\ RaisesNoStopIteration /\ [Next]_vars => DInv'
  BY DInvKept
<1> QED BY <1>1, <1>2, PTL DEF Spec

\* A frame of verified code always has the value stack and the block stack that
\* its shapes say, whatever it calls, raises and catches: the instructions of
\* processor/mod.rs and unwind (state.rs) keep to what a compiler counts on.
THEOREM FramesFollowTheirShapes ==
    Spec /\ []RaisesNoStopIteration => [](Verified(prog) => FollowsShapes)
<1>1. DInv => (Verified(prog) => FollowsShapes)
  BY InvariantFollows
<1> QED BY <1>1, DisciplineInvariant, PTL

\* No block of a try statement is on the block stack of a frame that is not in
\* that statement, so that unwind (state.rs) jumps to no handler by mistake.
THEOREM HandlersAreInForce ==
    Spec /\ []RaisesNoStopIteration => [](Verified(prog) => NoStaleHandler)
<1>1. DInv => (Verified(prog) => NoStaleHandler)
  BY NothingStale
<1> QED BY <1>1, DisciplineInvariant, PTL

\* FOR_ITER (processor/mod.rs) has the iterator of its loop on top of the stack
\* each time it is reached, also after calls in the body and after exceptions.
THEOREM LoopsKeepTheirIterator ==
    Spec /\ []RaisesNoStopIteration => [](Verified(prog) => LoopKeepsIterator)
<1>1. DInv => (Verified(prog) => LoopKeepsIterator)
  BY IteratorKept
<1> QED BY <1>1, DisciplineInvariant, PTL

\* RETURN_VALUE (processor/mod.rs) pops the one value above those that
\* BUILD_CONST_KEY_MAP has left behind.
THEOREM ReturnsAreClean ==
    Spec /\ []RaisesNoStopIteration => [](Verified(prog) => ReturnsCleanly)
<1>1. DInv => (Verified(prog) => ReturnsCleanly)
  BY CleanReturn
<1> QED BY <1>1, DisciplineInvariant, PTL

=============================================================================
