---------------------------- MODULE StoreProofs ----------------------------
(***************************************************************************)
(* Lemmas about the store and the frames: every operator of Objects.tla    *)
(* and Machine.tla that makes a store or a frame makes a well-formed one   *)
(* (HeapOK, FrameOK) of well-formed ones, a store only grows, and the      *)
(* steps instructions are made of, raising included, preserve the          *)
(* invariant that types are right and that no reference dangles.  So does  *)
(* a call, whatever is called: the binding of arguments, build_class and   *)
(* the primitives.                                                         *)
(***************************************************************************)
EXTENDS Binding, SequenceTheorems, FiniteSetTheorems, WellFoundedInduction, TLAPS

-----------------------------------------------------------------------------
(***************************************************************************)
(* Sequences of anything.                                                  *)
(***************************************************************************)
LEMMA SequenceLen ==
    ASSUME NEW s, IsSequence(s)
    PROVE  /\ Len(s) \in Nat /\ DOMAIN s = 1..Len(s)
           /\ s \in [1..Len(s) -> {s[i] : i \in 1..Len(s)}]
BY LenProperties DEF IsSequence

LEMMA SeqIsSequence ==
    ASSUME NEW S, NEW s \in Seq(S)
    PROVE  IsSequence(s)
<1>1. Len(s) \in Nat /\ s \in [1..Len(s) -> S]
  BY LenProperties
<1> DEFINE T == {s[i] : i \in 1..Len(s)}
<1>2. s \in [1..Len(s) -> T]
  BY <1>1
<1> HIDE DEF T
<1>3. s \in Seq(T)
  BY <1>1, <1>2
<1> QED BY <1>3 DEF IsSequence, T

LEMMA AppendSequence ==
    ASSUME NEW s, IsSequence(s), NEW e
    PROVE  /\ IsSequence(Append(s, e))
           /\ Len(Append(s, e)) = Len(s) + 1
           /\ \A i \in 1..Len(s) : Append(s, e)[i] = s[i]
           /\ Append(s, e)[Len(s) + 1] = e
<1> DEFINE S == {s[i] : i \in 1..Len(s)} \cup {e}
<1>1. s \in Seq({s[i] : i \in 1..Len(s)})
  BY DEF IsSequence
<1>2. s \in Seq(S)
  BY <1>1, SeqMonotonic
<1>3. e \in S
  OBVIOUS
<1> HIDE DEF S
<1>4. /\ Append(s, e) \in Seq(S)
      /\ Len(Append(s, e)) = Len(s) + 1
      /\ \A i \in 1..Len(s) : Append(s, e)[i] = s[i]
      /\ Append(s, e)[Len(s) + 1] = e
  BY <1>2, <1>3, AppendProperties
<1>5. IsSequence(Append(s, e))
  BY <1>4, SeqIsSequence
<1> QED BY <1>4, <1>5

LEMMA SubSeqEntries ==
    ASSUME NEW S, NEW s \in Seq(S), NEW m \in Nat \ {0}, NEW n \in Int, n <= Len(s), m <= n + 1
    PROVE  SubSeq(s, m, n) = [i \in 1..(n - m + 1) |-> s[m - 1 + i]]
<1>1. \A i \in m..n : i \in 1..Len(s)
  BY LenProperties
<1>2. SubSeq(s, m, n) = [i \in 1..(n - m + 1) |-> s[i + m - 1]]
  BY <1>1, SMT
<1>3. \A i \in 1..(n - m + 1) : i + m - 1 = m - 1 + i
  BY SMT
<1> QED BY <1>2, <1>3

LEMMA ExceptSequence ==
    ASSUME NEW s, IsSequence(s), NEW k \in 1..Len(s), NEW e, NEW t,
           t = [s EXCEPT ![k] = e]
    PROVE  /\ IsSequence(t)
           /\ Len(t) = Len(s)
           /\ \A i \in 1..Len(s) : t[i] = IF i = k THEN e ELSE s[i]
<1> DEFINE S == {s[i] : i \in 1..Len(s)} \cup {e}
<1>1. s \in Seq({s[i] : i \in 1..Len(s)})
  BY DEF IsSequence
<1>2. s \in Seq(S)
  BY <1>1, SeqMonotonic
<1>3. e \in S
  OBVIOUS
<1> HIDE DEF S
<1>4. /\ [s EXCEPT ![k] = e] \in Seq(S)
      /\ Len([s EXCEPT ![k] = e]) = Len(s)
      /\ \A i \in 1..Len(s) : [s EXCEPT ![k] = e][i] = IF i = k THEN e ELSE s[i]
  BY <1>2, <1>3, ExceptSeq
<1>5. IsSequence([s EXCEPT ![k] = e])
  BY <1>4, SeqIsSequence
<1> QED BY <1>4, <1>5

\* The first n elements of a sequence.
LEMMA PrefixProperties ==
    ASSUME NEW S, NEW s \in Seq(S), NEW n \in Int, n <= Len(s)
    PROVE  /\ SubSeq(s, 1, n) \in Seq(S)
           /\ Len(SubSeq(s, 1, n)) = IF n >= 1 THEN n ELSE 0
           /\ \A i \in 1..n : SubSeq(s, 1, n)[i] = s[i]
<1>1. \A i \in 1..n : s[i] \in S
  BY LenProperties, ElementOfSeq
<1>2. /\ SubSeq(s, 1, n) \in Seq(S)
      /\ Len(SubSeq(s, 1, n)) = IF 1 <= n THEN n - 1 + 1 ELSE 0
      /\ \A i \in 1..(n - 1 + 1) : SubSeq(s, 1, n)[i] = s[1 + i - 1]
  BY <1>1, SubSeqProperties
<1>3. \A i \in 1..n : i \in 1..(n - 1 + 1) /\ 1 + i - 1 = i
  BY SMT
<1>4. \A i \in 1..n : SubSeq(s, 1, n)[i] = s[i]
  BY <1>2, <1>3
<1> QED BY <1>2, <1>4

\* Any part of a sequence.
LEMMA SliceProperties ==
    ASSUME NEW S, NEW s \in Seq(S), NEW m \in Nat \ {0}, NEW n \in Int, n <= Len(s)
    PROVE  /\ SubSeq(s, m, n) \in Seq(S)
           /\ Len(SubSeq(s, m, n)) = IF m <= n THEN n - m + 1 ELSE 0
<1>1. \A i \in m..n : i \in 1..Len(s)
  BY LenProperties
<1>2. \A i \in m..n : s[i] \in S
  BY <1>1, ElementOfSeq
<1> QED BY <1>2, SubSeqProperties

-----------------------------------------------------------------------------
(***************************************************************************)
(* The primitive objects.                                                  *)
(***************************************************************************)
LEMMA PrimitivesCount == Primitives = 28
BY DEF Primitives, PrimitiveNames

-----------------------------------------------------------------------------
(***************************************************************************)
(* Stores that grow.                                                       *)
(***************************************************************************)
Grows(h, h2) == Len(h.objs) <= Len(h2.objs) /\ Len(h.spaces) <= Len(h2.spaces)

LEMMA HeapLen ==
    ASSUME NEW h, HeapOK(h)
    PROVE  /\ Len(h.objs) \in Nat /\ Len(h.spaces) \in Nat
           /\ DOMAIN h.objs = Refs(h) /\ DOMAIN h.spaces = Spaces(h)
BY SequenceLen DEF HeapOK, Refs, Spaces

LEMMA PrimitiveRefs ==
    ASSUME NEW h, HeapOK(h), NEW r \in 1..28
    PROVE  r \in Refs(h)
<1>1. Len(h.objs) \in Nat
  BY HeapLen
<1>2. Len(h.objs) >= 28
  BY PrimitivesCount DEF HeapOK
<1> QED BY <1>1, <1>2 DEF Refs

LEMMA GrowsMonotone ==
    ASSUME NEW h, NEW h2, HeapOK(h), Grows(h, h2),
           Len(h2.objs) \in Nat, Len(h2.spaces) \in Nat
    PROVE  Refs(h) \subseteq Refs(h2) /\ Spaces(h) \subseteq Spaces(h2)
BY HeapLen DEF Grows, Refs, Spaces

LEMMA SetsGrow ==
    ASSUME NEW h, NEW h2, Refs(h) \subseteq Refs(h2), Spaces(h) \subseteq Spaces(h2)
    PROVE  /\ \A c : ContentOK(h, c) => ContentOK(h2, c)
           /\ \A o : ObjectOK(h, o) => ObjectOK(h2, o)
           /\ \A map : MapOK(h, map) => MapOK(h2, map)
           /\ BlockSet(h) \subseteq BlockSet(h2)
           /\ \A f : FrameOK(h, f) => FrameOK(h2, f)
<1>1. Seq(Refs(h)) \subseteq Seq(Refs(h2))
  BY SeqMonotonic
<1>2. ASSUME NEW c, ContentOK(h, c) PROVE ContentOK(h2, c)
  BY <1>1, <1>2, Zenon DEF ContentOK
<1>3. ASSUME NEW o, ObjectOK(h, o) PROVE ObjectOK(h2, o)
  <2>1. o.class \in Refs(h2) /\ o.bases \in Seq(Refs(h2)) /\ o.attrs \in Spaces(h2) \cup {NoRef}
    BY <1>1, <1>3 DEF ObjectOK
  <2> QED BY <1>2, <1>3, <2>1 DEF ObjectOK
<1>5. \A map : MapOK(h, map) => MapOK(h2, map)
  BY DEF MapOK
<1>6. BlockSet(h) \subseteq BlockSet(h2)
  BY DEF BlockSet
<1>7. Seq(BlockSet(h)) \subseteq Seq(BlockSet(h2))
  BY <1>6, SeqMonotonic
<1>8. \A is : InstructionsOK(h, is) => InstructionsOK(h2, is)
  BY DEF InstructionsOK
<1>9. ASSUME NEW f, FrameOK(h, f) PROVE FrameOK(h2, f)
  BY <1>1, <1>7, <1>8, <1>9, Zenon DEF FrameOK
<1> QED BY <1>2, <1>3, <1>5, <1>6, <1>9

-----------------------------------------------------------------------------
(***************************************************************************)
(* Making objects.                                                         *)
(***************************************************************************)
Keeps(h, h2) == \A r \in Refs(h) : h2.objs[r] = h.objs[r]

\* h2 is a well-formed store with all of h in it.
Extended(h, h2) == HeapOK(h2) /\ Grows(h, h2) /\ Keeps(h, h2)

LEMMA ExtendedSets ==
    ASSUME NEW h, NEW h2, HeapOK(h), Extended(h, h2)
    PROVE  Refs(h) \subseteq Refs(h2) /\ Spaces(h) \subseteq Spaces(h2)
BY HeapLen, GrowsMonotone DEF Extended

LEMMA ExtendedTrans ==
    ASSUME NEW h, NEW h2, NEW h3, HeapOK(h), Extended(h, h2), Extended(h2, h3)
    PROVE  Extended(h, h3)
<1>1. Refs(h) \subseteq Refs(h2)
  BY ExtendedSets
<1>2. Grows(h, h3)
  BY HeapLen, SMT DEF Extended, Grows
<1> QED BY <1>1, <1>2 DEF Extended, Keeps

LEMMA ExtendedSelf == ASSUME NEW h, HeapOK(h) PROVE Extended(h, h)
BY HeapLen DEF Extended, Grows, Keeps

LEMMA NewSpaceOK ==
    ASSUME NEW h, HeapOK(h), NEW map, MapOK(h, map)
    PROVE  /\ Extended(h, NewSpace(h, map))
           /\ Refs(NewSpace(h, map)) = Refs(h)
           /\ Len(NewSpace(h, map).spaces) = Len(h.spaces) + 1
           /\ Len(NewSpace(h, map).spaces) \in Spaces(NewSpace(h, map))
<1> DEFINE h2 == NewSpace(h, map)
<1>1. h2 = [objs |-> h.objs, spaces |-> Append(h.spaces, map)]
  <2>1. h = [objs |-> h.objs, spaces |-> h.spaces]
    BY DEF HeapOK
  <2>2. NewSpace(h, map) = [h EXCEPT !.spaces = Append(h.spaces, map)]
    BY DEF NewSpace
  <2> QED BY <2>1, <2>2, Zenon
<1>2. h2.objs = h.objs /\ h2.spaces = Append(h.spaces, map)
  BY <1>1
<1>3. /\ IsSequence(h2.spaces)
      /\ Len(h2.spaces) = Len(h.spaces) + 1
      /\ \A i \in 1..Len(h.spaces) : h2.spaces[i] = h.spaces[i]
      /\ h2.spaces[Len(h.spaces) + 1] = map
  BY <1>2, AppendSequence DEF HeapOK
<1> HIDE DEF h2
<1>4. Refs(h2) = Refs(h) /\ Grows(h, h2) /\ Keeps(h, h2)
  BY <1>2, <1>3, HeapLen DEF Refs, Grows, Keeps
<1>5. Spaces(h) \subseteq Spaces(h2) /\ Spaces(h2) = Spaces(h) \cup {Len(h.spaces) + 1}
  BY <1>3, HeapLen, SMT DEF Spaces
<1>6. (\A o : ObjectOK(h, o) => ObjectOK(h2, o)) /\ \A m : MapOK(h, m) => MapOK(h2, m)
  BY <1>4, <1>5, SetsGrow
<1>7. \A r \in Refs(h2) : ObjectOK(h2, h2.objs[r])
  BY <1>2, <1>4, <1>6 DEF HeapOK
<1>8. \A s \in Spaces(h2) : MapOK(h2, h2.spaces[s])
  BY <1>3, <1>5, <1>6 DEF HeapOK, Spaces
<1>9. HeapOK(h2)
  <2>1. Len(h2.objs) >= Primitives /\ IsSequence(h2.objs)
    BY <1>2 DEF HeapOK
  <2> QED BY <1>1, <1>2, <1>3, <1>7, <1>8, <2>1 DEF HeapOK, h2
<1>10. Len(h2.spaces) \in Spaces(h2)
  BY <1>3, <1>5
<1> QED BY <1>3, <1>4, <1>9, <1>10 DEF Extended, h2

LEMMA AllocateOK ==
    ASSUME NEW h, HeapOK(h), NEW name, NEW class \in Refs(h),
           NEW bases \in Seq(Refs(h)), NEW attrs \in Spaces(h) \cup {NoRef},
           NEW content, ContentOK(h, content)
    PROVE  LET h2 == Allocate(h, name, class, bases, attrs, content)
           IN  /\ Extended(h, h2)
               /\ h2.spaces = h.spaces
               /\ Newest(h2) = Len(h.objs) + 1
               /\ Newest(h2) \in Refs(h2)
               /\ Refs(h2) = Refs(h) \cup {Newest(h2)}
               /\ h2.objs[Newest(h2)].content = content
               /\ h2.objs[Newest(h2)].bases = bases
               /\ h2.objs[Newest(h2)].attrs = attrs
<1> DEFINE h2 == Allocate(h, name, class, bases, attrs, content)
           o  == [version |-> Len(h.objs) + 1, name |-> name, class |-> class,
                  bases |-> bases, attrs |-> attrs, content |-> content]
<1>1. h2 = [objs |-> Append(h.objs, o), spaces |-> h.spaces]
  <2>1. h = [objs |-> h.objs, spaces |-> h.spaces]
    BY DEF HeapOK
  <2>2. h2 = [h EXCEPT !.objs = Append(h.objs, o)]
    BY DEF Allocate
  <2> HIDE DEF o, h2
  <2> QED BY <2>1, <2>2, Zenon
<1>2. h2.objs = Append(h.objs, o) /\ h2.spaces = h.spaces
  BY <1>1
<1>3. Len(h.objs) \in Nat /\ Len(h.spaces) \in Nat
  BY HeapLen
<1>4. ObjectOK(h, o)
  BY DEF ObjectOK
<1> HIDE DEF o
<1>5. /\ IsSequence(h2.objs)
      /\ Len(h2.objs) = Len(h.objs) + 1
      /\ \A i \in 1..Len(h.objs) : h2.objs[i] = h.objs[i]
      /\ h2.objs[Len(h.objs) + 1] = o
  BY <1>2, AppendSequence DEF HeapOK
<1> HIDE DEF h2
<1>6. Newest(h2) = Len(h.objs) + 1
  BY <1>5 DEF Newest
<1>7. Refs(h) \subseteq Refs(h2) /\ Refs(h2) = Refs(h) \cup {Newest(h2)}
  BY <1>3, <1>5, <1>6, SMT DEF Refs
<1>8. Spaces(h) = Spaces(h2) /\ Grows(h, h2) /\ Keeps(h, h2)
  BY <1>2, <1>3, <1>5 DEF Spaces, Grows, Keeps, Refs
<1>9. (\A x : ObjectOK(h, x) => ObjectOK(h2, x)) /\ \A m : MapOK(h, m) => MapOK(h2, m)
  BY <1>7, <1>8, SetsGrow
<1>10. \A r \in Refs(h2) : ObjectOK(h2, h2.objs[r])
  BY <1>4, <1>5, <1>6, <1>7, <1>9 DEF HeapOK, Refs
<1>11. HeapOK(h2)
  <2>1. IsSequence(h2.spaces) /\ \A s \in Spaces(h2) : MapOK(h2, h2.spaces[s])
    BY <1>2, <1>8, <1>9 DEF HeapOK
  <2>2. h2 = [objs |-> h2.objs, spaces |-> h2.spaces]
    BY <1>1, <1>2
  <2>3. Len(h2.objs) >= Primitives /\ IsSequence(h2.objs)
    BY <1>3, <1>5, PrimitivesCount, SMT DEF HeapOK
  <2> QED BY <1>10, <2>1, <2>2, <2>3 DEF HeapOK
<1>12. Extended(h, h2)
  BY <1>8, <1>11 DEF Extended
<1>13. /\ h2.objs[Newest(h2)].content = content
       /\ h2.objs[Newest(h2)].bases = bases
       /\ h2.objs[Newest(h2)].attrs = attrs
  BY <1>5, <1>6 DEF o
<1>14. Newest(h2) \in Refs(h2)
  BY <1>7
<1> QED BY <1>2, <1>6, <1>7, <1>12, <1>13, <1>14 DEF h2

LEMMA EmptyMapOK == ASSUME NEW h PROVE MapOK(h, EmptyMap)
BY DEF MapOK, EmptyMap

\* h2 is h with a new object in it, the newest.
Made(h, h2) == Extended(h, h2) /\ Newest(h2) \in Refs(h2)

LEMMA NewInstanceOK ==
    ASSUME NEW h, HeapOK(h), NEW name, NEW class \in Refs(h),
           NEW content, ContentOK(h, content)
    PROVE  LET h2 == NewInstance(h, name, class, content)
           IN  /\ Made(h, h2)
               /\ h2.objs[Newest(h2)].content = content
<1> DEFINE h1 == NewSpace(h, EmptyMap)
           h2 == NewInstance(h, name, class, content)
           noBases == <<>>
           space == Len(h1.spaces)
<1>1. Extended(h, h1) /\ Refs(h1) = Refs(h) /\ Len(h1.spaces) \in Spaces(h1)
  BY NewSpaceOK, EmptyMapOK
<1>2. HeapOK(h1) /\ class \in Refs(h1) /\ ContentOK(h1, content)
  BY <1>1, ExtendedSets, SetsGrow DEF Extended
<1>3. h2 = Allocate(h1, name, class, noBases, space, content)
  BY DEF NewInstance
<1>4. noBases \in Seq(Refs(h1)) /\ space \in Spaces(h1) \cup {NoRef}
  BY <1>1, EmptySeq
<1> HIDE DEF h1, h2, noBases, space
<1>5. /\ Extended(h1, h2) /\ Newest(h2) \in Refs(h2)
      /\ h2.objs[Newest(h2)].content = content
  BY <1>2, <1>3, <1>4, AllocateOK
<1>6. Extended(h, h2)
  BY <1>1, <1>5, ExtendedTrans
<1> QED BY <1>5, <1>6 DEF Made, h2

LEMMA PlainOK ==
    ASSUME NEW h, NEW kind \in {"Class", "PrimitiveNamespace", "OtherObject"}
    PROVE  ContentOK(h, Plain(kind))
<1>1. <<>> \in Seq(Refs(h))
  BY EmptySeq
<1> QED BY <1>1 DEF ContentOK, Plain, Content, Kinds

LEMMA StringOK == ASSUME NEW h, NEW s PROVE ContentOK(h, StringOf(s))
<1>1. <<>> \in Seq(Refs(h))
  BY EmptySeq
<1> QED BY <1>1 DEF ContentOK, StringOf, Content, Kinds

LEMMA NewStringOK ==
    ASSUME NEW h, HeapOK(h), NEW s
    PROVE  Made(h, NewString(h, s))
BY NewInstanceOK, StringOK, PrimitiveRefs DEF NewString, str_type

LEMMA NewTupleOK ==
    ASSUME NEW h, HeapOK(h), NEW v \in Seq(Refs(h))
    PROVE  Made(h, NewTuple(h, v))
<1>1. ContentOK(h, TupleOf(v))
  BY DEF ContentOK, TupleOf, Content, Kinds
<1> QED BY <1>1, NewInstanceOK, PrimitiveRefs DEF NewTuple, tuple_type

LEMMA NewDictOK ==
    ASSUME NEW h, HeapOK(h), NEW ks \in Seq(Refs(h)), NEW vs \in Seq(Refs(h)),
           Len(ks) = Len(vs)
    PROVE  Made(h, NewDict(h, ks, vs))
<1>1. ks \o vs \in Seq(Refs(h)) /\ Len(ks \o vs) = Len(ks) + Len(ks) /\ Len(ks) \in Nat
  BY ConcatProperties, LenProperties
<1>2. Len(ks \o vs) % 2 = 0
  BY <1>1, SMT
<1>3. ContentOK(h, DictOf(ks, vs))
  BY <1>1, <1>2 DEF ContentOK, DictOf, Content, Kinds
<1> QED BY <1>3, NewInstanceOK, PrimitiveRefs DEF NewDict, dict_type

LEMMA NewPrimitiveOK ==
    ASSUME NEW h, HeapOK(h), NEW name, NEW fname
    PROVE  Made(h, NewPrimitive(h, name, fname))
<1>1. <<>> \in Seq(Refs(h))
  BY EmptySeq
<1>2. ContentOK(h, PrimitiveFunctionOf(fname))
  BY <1>1 DEF ContentOK, PrimitiveFunctionOf, Content, Kinds
<1> QED BY <1>2, NewInstanceOK, PrimitiveRefs DEF NewPrimitive, function_type

LEMMA SingletonSeq == ASSUME NEW S, NEW e \in S PROVE <<e>> \in Seq(S) /\ Len(<<e>>) = 1
OBVIOUS

LEMMA NewModuleOK ==
    ASSUME NEW h, HeapOK(h), NEW name, NEW code \in Refs(h)
    PROVE  Made(h, NewModule(h, name, code))
<1>1. <<code>> \in Seq(Refs(h)) /\ Len(<<code>>) = 1
  BY SingletonSeq
<1>2. ContentOK(h, ModuleOf(code))
  BY <1>1 DEF ContentOK, ModuleOf, Content, Kinds
<1> QED BY <1>2, NewInstanceOK, PrimitiveRefs DEF NewModule, module_type

LEMMA NewFunctionOK ==
    ASSUME NEW h, HeapOK(h), NEW name, NEW module, NEW code \in Refs(h),
           NEW defaults, MapOK(h, defaults)
    PROVE  Made(h, NewFunction(h, name, module, code, defaults))
<1> DEFINE h1 == NewSpace(h, defaults)
           content == FunctionOf(module, code, Len(h1.spaces))
<1>1. Extended(h, h1) /\ Refs(h1) = Refs(h) /\ Len(h1.spaces) \in Spaces(h1)
  BY NewSpaceOK
<1>2. HeapOK(h1) /\ code \in Refs(h1)
  BY <1>1 DEF Extended
<1>3. <<code>> \in Seq(Refs(h1)) /\ Len(<<code>>) = 1
  BY <1>2, SingletonSeq
<1>4. Len(h1.spaces) \in Nat
  BY <1>2, HeapLen
<1>5. NewFunction(h, name, module, code, defaults)
        = NewInstance(h1, name, function_type, content)
  BY DEF NewFunction
<1> HIDE DEF h1
<1>6. ContentOK(h1, content)
  BY <1>1, <1>3, <1>4 DEF ContentOK, FunctionOf, Content, Kinds
<1>7. function_type \in Refs(h1)
  BY <1>2, PrimitiveRefs DEF function_type
<1> HIDE DEF content
<1>8. Made(h1, NewInstance(h1, name, function_type, content))
  BY <1>2, <1>6, <1>7, NewInstanceOK
<1> QED BY <1>1, <1>5, <1>8, ExtendedTrans DEF Made

LEMMA IterOK ==
    ASSUME NEW h, HeapOK(h), NEW ref \in Refs(h)
    PROVE  Made(h, Iter(h, ref))
<1> DEFINE content == IteratorOn(ref, 0, h.objs[ref].version)
<1>1. <<ref>> \in Seq(Refs(h)) /\ Len(<<ref>>) = 1
  BY SingletonSeq
<1>2. ContentOK(h, content)
  BY <1>1 DEF ContentOK, IteratorOn, Kinds
<1> QED BY <1>2, NewInstanceOK, PrimitiveRefs DEF Iter, iterator_type

LEMMA InstantiateOK ==
    ASSUME NEW h, HeapOK(h), NEW cls \in Refs(h)
    PROVE  Made(h, Instantiate(h, cls))
<1> DEFINE own == IF h.objs[cls].attrs = NoRef THEN EmptyMap ELSE h.spaces[h.objs[cls].attrs]
           h1  == NewSpace(h, own)
           noBases == <<>>
           space == Len(h1.spaces)
           content == Plain("OtherObject")
<1>1. MapOK(h, own)
  BY EmptyMapOK DEF HeapOK, ObjectOK
<1> HIDE DEF own
<1>2. Extended(h, h1) /\ Refs(h1) = Refs(h) /\ Len(h1.spaces) \in Spaces(h1)
  BY <1>1, NewSpaceOK
<1>3. HeapOK(h1) /\ cls \in Refs(h1) /\ ContentOK(h1, content)
  BY <1>2, PlainOK DEF Extended
<1>4. noBases \in Seq(Refs(h1)) /\ space \in Spaces(h1) \cup {NoRef}
  BY <1>2, EmptySeq
<1>5. Instantiate(h, cls) = Allocate(h1, NoName, cls, noBases, space, content)
  BY DEF Instantiate, own
<1> HIDE DEF h1, noBases, space, content
<1>6. Made(h1, Instantiate(h, cls))
  BY <1>3, <1>4, <1>5, AllocateOK DEF Made
<1> QED BY <1>2, <1>6, ExtendedTrans DEF Made

LEMMA BindOK ==
    ASSUME NEW h, HeapOK(h), NEW space \in Spaces(h), NEW name, NEW ref \in Refs(h)
    PROVE  Extended(h, Bind(h, space, name, ref)) /\ Refs(Bind(h, space, name, ref)) = Refs(h)
<1> DEFINE map == Insert(h.spaces[space], name, ref)
           h2  == Bind(h, space, name, ref)
<1>1. MapOK(h, map)
  BY DEF HeapOK, MapOK, Insert
<1>2. h = [objs |-> h.objs, spaces |-> h.spaces]
  BY DEF HeapOK
<1>3. h2 = [h EXCEPT !.spaces = [h.spaces EXCEPT ![space] = map]]
  BY <1>2 DEF Bind
<1> HIDE DEF map
<1>4. h2 = [objs |-> h.objs, spaces |-> [h.spaces EXCEPT ![space] = map]]
  BY <1>2, <1>3
<1> HIDE DEF h2
<1>5. h2.objs = h.objs /\ h2.spaces = [h.spaces EXCEPT ![space] = map]
  BY <1>4
<1>6. /\ IsSequence(h2.spaces) /\ Len(h2.spaces) = Len(h.spaces)
      /\ \A i \in 1..Len(h.spaces) : h2.spaces[i] = IF i = space THEN map ELSE h.spaces[i]
  <2> DEFINE s == h.spaces
  <2>1. IsSequence(s) /\ space \in 1..Len(s)
    BY DEF HeapOK, Spaces
  <2>2. h2.spaces = [s EXCEPT ![space] = map]
    BY <1>5
  <2> HIDE DEF s
  <2>3. /\ IsSequence(h2.spaces) /\ Len(h2.spaces) = Len(s)
        /\ \A i \in 1..Len(s) : h2.spaces[i] = IF i = space THEN map ELSE s[i]
    BY <2>1, <2>2, ExceptSequence
  <2> QED BY <2>3 DEF s
<1>7. Refs(h2) = Refs(h) /\ Spaces(h2) = Spaces(h) /\ Keeps(h, h2)
  BY <1>5, <1>6 DEF Refs, Spaces, Keeps
<1>8. Grows(h, h2)
  BY <1>5, <1>6, HeapLen DEF Grows
<1>9. \A r \in Refs(h2) : ObjectOK(h2, h2.objs[r])
  BY <1>5, <1>7, SetsGrow DEF HeapOK
<1>10. \A s \in Spaces(h2) : MapOK(h2, h2.spaces[s])
  BY <1>1, <1>6, <1>7, SetsGrow DEF HeapOK, Spaces
<1>11. Len(h2.objs) >= Primitives /\ IsSequence(h2.objs)
  BY <1>5 DEF HeapOK
<1>12. h2 = [objs |-> h2.objs, spaces |-> h2.spaces]
  BY <1>4, <1>5
<1>13. HeapOK(h2)
  BY <1>6, <1>9, <1>10, <1>11, <1>12 DEF HeapOK
<1> QED BY <1>7, <1>8, <1>13 DEF Extended, h2

LEMMA SetContentOK ==
    ASSUME NEW h, HeapOK(h), NEW ref \in Refs(h), NEW content, ContentOK(h, content)
    PROVE  LET h2 == SetContent(h, ref, content)
           IN  /\ HeapOK(h2) /\ Refs(h2) = Refs(h) /\ Spaces(h2) = Spaces(h)
               /\ \A r \in Refs(h) : r # ref => h2.objs[r] = h.objs[r]
               /\ h2.objs[ref] = [h.objs[ref] EXCEPT !.content = content]
<1> DEFINE o  == [h.objs[ref] EXCEPT !.content = content]
           h2 == SetContent(h, ref, content)
<1>1. ObjectOK(h, h.objs[ref])
  BY DEF HeapOK
<1>2. ObjectOK(h, o)
  <2> DEFINE x == h.objs[ref]
  <2>1. x = [version |-> x.version, name |-> x.name, class |-> x.class,
             bases |-> x.bases, attrs |-> x.attrs, content |-> x.content]
    BY <1>1 DEF ObjectOK
  <2> HIDE DEF x
  <2>2. [x EXCEPT !.content = content]
          = [version |-> x.version, name |-> x.name, class |-> x.class,
             bases |-> x.bases, attrs |-> x.attrs, content |-> content]
    BY <2>1
  <2>3. ObjectOK(h, [x EXCEPT !.content = content])
    BY <1>1, <2>2 DEF ObjectOK, x
  <2> QED BY <2>3 DEF x
<1>3. h = [objs |-> h.objs, spaces |-> h.spaces]
  BY DEF HeapOK
<1>4. h2 = [h EXCEPT !.objs = [h.objs EXCEPT ![ref] = o]]
  BY <1>3 DEF SetContent
<1> HIDE DEF o
<1>5. h2 = [objs |-> [h.objs EXCEPT ![ref] = o], spaces |-> h.spaces]
  BY <1>3, <1>4
<1> HIDE DEF h2
<1>6. h2.spaces = h.spaces /\ h2.objs = [h.objs EXCEPT ![ref] = o]
  BY <1>5
<1>7. /\ IsSequence(h2.objs) /\ Len(h2.objs) = Len(h.objs)
      /\ \A i \in 1..Len(h.objs) : h2.objs[i] = IF i = ref THEN o ELSE h.objs[i]
  <2> DEFINE s == h.objs
  <2>1. IsSequence(s) /\ ref \in 1..Len(s)
    BY DEF HeapOK, Refs
  <2>2. h2.objs = [s EXCEPT ![ref] = o]
    BY <1>6
  <2> HIDE DEF s
  <2>3. /\ IsSequence(h2.objs) /\ Len(h2.objs) = Len(s)
        /\ \A i \in 1..Len(s) : h2.objs[i] = IF i = ref THEN o ELSE s[i]
    BY <2>1, <2>2, ExceptSequence
  <2> QED BY <2>3 DEF s
<1>8. Refs(h2) = Refs(h) /\ Spaces(h2) = Spaces(h)
  BY <1>6, <1>7 DEF Refs, Spaces
<1>9. \A r \in Refs(h2) : ObjectOK(h2, h2.objs[r])
  BY <1>2, <1>7, <1>8, SetsGrow DEF HeapOK, Refs
<1>10. \A s \in Spaces(h2) : MapOK(h2, h2.spaces[s])
  BY <1>6, <1>8, SetsGrow DEF HeapOK
<1>11. Len(h2.objs) >= Primitives /\ IsSequence(h2.spaces)
  BY <1>6, <1>7 DEF HeapOK
<1>12. h2 = [objs |-> h2.objs, spaces |-> h2.spaces]
  BY <1>5, <1>6
<1>13. HeapOK(h2)
  BY <1>7, <1>9, <1>10, <1>11, <1>12 DEF HeapOK
<1>14. (\A r \in Refs(h) : r # ref => h2.objs[r] = h.objs[r]) /\ h2.objs[ref] = o
  BY <1>7 DEF Refs
<1> QED BY <1>8, <1>13, <1>14 DEF h2, o

-----------------------------------------------------------------------------
(***************************************************************************)
(* Frames.                                                                 *)
(***************************************************************************)
LEMMA FrameRecord ==
    ASSUME NEW h, NEW f, FrameOK(h, f)
    PROVE  f = [object |-> f.object, code |-> f.code, instructions |-> f.instructions,
                locals |-> f.locals, stack |-> f.stack, blocks |-> f.blocks, pc |-> f.pc]
BY DEF FrameOK

LEMMA FrameParts ==
    ASSUME NEW h, NEW f, FrameOK(h, f)
    PROVE  /\ f.stack \in Seq(Refs(h)) /\ Len(f.stack) \in Nat
           /\ f.blocks \in Seq(BlockSet(h)) /\ Len(f.blocks) \in Nat
           /\ f.pc \in Nat
BY LenProperties DEF FrameOK

LEMMA NewFrameOK ==
    ASSUME NEW h, NEW obj \in Refs(h), NEW code \in 1..Len(Code), NEW is,
           InstructionsOK(h, is), NEW locals \in Spaces(h)
    PROVE  FrameOK(h, NewFrame(obj, code, is, locals))
<1>1. <<>> \in Seq(Refs(h)) /\ <<>> \in Seq(BlockSet(h))
  BY EmptySeq
<1> QED BY <1>1 DEF FrameOK, NewFrame

\* A frame with another stack, other blocks and another program counter.
Changed(f, stack, blocks, pc) ==
    [object |-> f.object, code |-> f.code, instructions |-> f.instructions,
     locals |-> f.locals, stack |-> stack, blocks |-> blocks, pc |-> pc]

LEMMA ChangedOK ==
    ASSUME NEW h, NEW f, FrameOK(h, f), NEW stack \in Seq(Refs(h)),
           NEW blocks \in Seq(BlockSet(h)), NEW pc \in Nat
    PROVE  FrameOK(h, Changed(f, stack, blocks, pc))
BY DEF FrameOK, Changed

LEMMA PushOnOK ==
    ASSUME NEW h, NEW f, FrameOK(h, f), NEW ref \in Refs(h)
    PROVE  FrameOK(h, PushOn(f, ref))
<1>1. Append(f.stack, ref) \in Seq(Refs(h))
  BY AppendProperties, FrameParts
<1>2. PushOn(f, ref) = Changed(f, Append(f.stack, ref), f.blocks, f.pc)
  BY FrameRecord DEF PushOn, Changed
<1> QED BY <1>1, <1>2, ChangedOK, FrameParts

LEMMA DropOK ==
    ASSUME NEW h, NEW f, FrameOK(h, f), NEW n \in Nat
    PROVE  FrameOK(h, Drop(f, n))
<1>1. Len(f.stack) \in Nat
  BY FrameParts
<1>2. Len(f.stack) - n \in Int /\ Len(f.stack) - n <= Len(f.stack)
  BY <1>1
<1>3. SubSeq(f.stack, 1, Len(f.stack) - n) \in Seq(Refs(h))
  BY <1>2, PrefixProperties, FrameParts
<1>4. Drop(f, n) = Changed(f, SubSeq(f.stack, 1, Len(f.stack) - n), f.blocks, f.pc)
  <2> DEFINE s == SubSeq(f.stack, 1, Len(f.stack) - n)
  <2>1. Drop(f, n) = [f EXCEPT !.stack = s]
    BY DEF Drop
  <2> HIDE DEF s
  <2>2. [f EXCEPT !.stack = s] = Changed(f, s, f.blocks, f.pc)
    BY FrameRecord DEF Changed
  <2> QED BY <2>1, <2>2 DEF s
<1> QED BY <1>3, <1>4, ChangedOK, FrameParts

LEMMA PushBlockOK ==
    ASSUME NEW h, NEW f, FrameOK(h, f), NEW b \in BlockSet(h)
    PROVE  FrameOK(h, PushBlock(f, b))
<1>1. Append(f.blocks, b) \in Seq(BlockSet(h))
  BY AppendProperties, FrameParts
<1>2. PushBlock(f, b) = Changed(f, f.stack, Append(f.blocks, b), f.pc)
  BY FrameRecord DEF PushBlock, Changed
<1> QED BY <1>1, <1>2, ChangedOK, FrameParts

LEMMA DropBlockOK ==
    ASSUME NEW h, NEW f, FrameOK(h, f)
    PROVE  FrameOK(h, DropBlock(f))
<1>1. Len(f.blocks) \in Nat
  BY FrameParts
<1>2. Len(f.blocks) - 1 \in Int /\ Len(f.blocks) - 1 <= Len(f.blocks)
  BY <1>1
<1>3. SubSeq(f.blocks, 1, Len(f.blocks) - 1) \in Seq(BlockSet(h))
  BY <1>2, PrefixProperties, FrameParts
<1>4. DropBlock(f) = Changed(f, f.stack, SubSeq(f.blocks, 1, Len(f.blocks) - 1), f.pc)
  BY FrameRecord DEF DropBlock, Changed
<1> QED BY <1>3, <1>4, ChangedOK, FrameParts

LEMMA JumpOK ==
    ASSUME NEW h, NEW f, FrameOK(h, f), NEW pc \in Nat
    PROVE  FrameOK(h, Jump(f, pc))
<1>1. Jump(f, pc) = Changed(f, f.stack, f.blocks, pc)
  BY FrameRecord DEF Jump, Changed
<1> QED BY <1>1, ChangedOK, FrameParts

LEMMA BlockOK ==
    ASSUME NEW h, NEW kind \in {"Loop", "TryExcept"}, NEW begin \in Nat, NEW target \in Nat
    PROVE  Block(kind, begin, target) \in BlockSet(h)
BY DEF BlockSet, Block, NoRef

LEMMA ExceptPopGotoOK ==
    ASSUME NEW h, NEW pattern \in Refs(h), NEW pop \in Nat, NEW target \in Nat
    PROVE  ExceptPopGoto(pattern, pop, target) \in BlockSet(h)
BY DEF BlockSet, ExceptPopGoto

-----------------------------------------------------------------------------
(***************************************************************************)
(* Call stacks.                                                            *)
(***************************************************************************)
LEMMA FramesLen ==
    ASSUME NEW h, NEW fs, FramesOK(h, fs)
    PROVE  /\ Len(fs) \in Nat
           /\ fs # <<>> => Len(fs) \in 1..Len(fs) /\ FrameOK(h, fs[Len(fs)])
<1>1. Len(fs) \in Nat
  BY SequenceLen DEF FramesOK
<1>2. fs # <<>> => Len(fs) \in Nat \ {0}
  BY EmptySeq DEF FramesOK, IsSequence
<1> QED BY <1>1, <1>2 DEF FramesOK

LEMMA FramesGrow ==
    ASSUME NEW h, NEW h2, Refs(h) \subseteq Refs(h2), Spaces(h) \subseteq Spaces(h2),
           NEW fs, FramesOK(h, fs)
    PROVE  FramesOK(h2, fs)
BY SetsGrow DEF FramesOK

LEMMA AppendFramesOK ==
    ASSUME NEW h, NEW fs, FramesOK(h, fs), NEW f, FrameOK(h, f)
    PROVE  FramesOK(h, Append(fs, f)) /\ Append(fs, f) # <<>>
<1>1. /\ IsSequence(Append(fs, f)) /\ Len(Append(fs, f)) = Len(fs) + 1
      /\ \A i \in 1..Len(fs) : Append(fs, f)[i] = fs[i]
      /\ Append(fs, f)[Len(fs) + 1] = f
  BY AppendSequence DEF FramesOK
<1>2. Len(fs) \in Nat /\ Len(<<>>) = 0
  BY FramesLen
<1>3. \A i \in 1..(Len(fs) + 1) : i \in 1..Len(fs) \/ i = Len(fs) + 1
  BY <1>2
<1>4. Append(fs, f) # <<>>
  BY <1>1, <1>2
<1> QED BY <1>1, <1>3, <1>4 DEF FramesOK

LEMMA PrefixFramesOK ==
    ASSUME NEW h, NEW fs, FramesOK(h, fs), NEW n \in Int, n <= Len(fs)
    PROVE  FramesOK(h, SubSeq(fs, 1, n))
<1> DEFINE S == {fs[i] : i \in 1..Len(fs)}
<1>1. fs \in Seq(S)
  BY DEF FramesOK, IsSequence
<1> HIDE DEF S
<1>2. /\ SubSeq(fs, 1, n) \in Seq(S)
      /\ Len(SubSeq(fs, 1, n)) = IF n >= 1 THEN n ELSE 0
      /\ \A i \in 1..n : SubSeq(fs, 1, n)[i] = fs[i]
  BY <1>1, PrefixProperties
<1>3. Len(fs) \in Nat
  BY FramesLen
<1>4. \A i \in 1..Len(SubSeq(fs, 1, n)) : i \in 1..n /\ i \in 1..Len(fs)
  BY <1>2, <1>3
<1>5. IsSequence(SubSeq(fs, 1, n))
  BY <1>2, SeqIsSequence
<1> QED BY <1>2, <1>4, <1>5 DEF FramesOK

LEMMA LastReplaced ==
    ASSUME NEW s, IsSequence(s), NEW e, NEW t, t = [s EXCEPT ![Len(s)] = e],
           Len(s) \in 1..Len(s)
    PROVE  /\ IsSequence(t) /\ Len(t) = Len(s)
           /\ \A i \in 1..Len(s) : t[i] = IF i = Len(s) THEN e ELSE s[i]
<1> DEFINE k == Len(s)
<1>1. k \in 1..Len(s) /\ t = [s EXCEPT ![k] = e]
  OBVIOUS
<1> HIDE DEF k
<1>2. IsSequence(t)
  BY <1>1, ExceptSequence
<1>3. Len(t) = Len(s)
  BY <1>1, ExceptSequence
<1>4. \A i \in 1..Len(s) : t[i] = IF i = k THEN e ELSE s[i]
  BY <1>1, ExceptSequence
<1> QED BY <1>2, <1>3, <1>4 DEF k

LEMMA ReplaceLastOK ==
    ASSUME NEW h, NEW fs, FramesOK(h, fs), fs # <<>>, NEW f, FrameOK(h, f),
           NEW gs, gs = [fs EXCEPT ![Len(fs)] = f]
    PROVE  FramesOK(h, gs) /\ gs # <<>>
<1>1. Len(fs) \in 1..Len(fs) /\ IsSequence(fs)
  BY FramesLen DEF FramesOK
<1>2. IsSequence(gs)
  BY <1>1, LastReplaced
<1>3. Len(gs) = Len(fs)
  BY <1>1, LastReplaced
<1>4. \A i \in 1..Len(fs) : gs[i] = IF i = Len(fs) THEN f ELSE fs[i]
  BY <1>1, LastReplaced
<1>5. gs # <<>>
  BY <1>1, <1>3
<1>6. \A i \in 1..Len(gs) : FrameOK(h, gs[i])
  BY <1>3, <1>4 DEF FramesOK
<1> QED BY <1>2, <1>5, <1>6 DEF FramesOK

LEMMA ReturnToOK ==
    ASSUME NEW h, NEW fs, FramesOK(h, fs), fs # <<>>, NEW result \in Refs(h)
    PROVE  FramesOK(h, ReturnTo(fs, result)) /\ ReturnTo(fs, result) # <<>>
<1>1. FrameOK(h, PushOn(fs[Len(fs)], result))
  BY FramesLen, PushOnOK
<1>2. ReturnTo(fs, result) = [fs EXCEPT ![Len(fs)] = PushOn(fs[Len(fs)], result)]
  BY DEF ReturnTo
<1> QED BY <1>1, <1>2, ReplaceLastOK

-----------------------------------------------------------------------------
(***************************************************************************)
(* The invariant, and the ways a step ends.                                *)
(***************************************************************************)
IInv == TypeOK /\ RefsValid

\* A store and a call stack that a step may continue with.
Ready(h, fs) ==
    /\ HeapOK(h) /\ Refs(heap) \subseteq Refs(h) /\ Spaces(heap) \subseteq Spaces(h)
    /\ FramesOK(h, fs)

\* The program does not change, so that what is well-formed stays so.
LEMMA SameProgram ==
    ASSUME prog' = prog, NEW h, NEW fs, heap' = h, frames' = fs
    PROVE  /\ HeapOK(h) => HeapOK(heap)'
           /\ FramesOK(h, fs) => FramesOK(heap, frames)'
<1>1. Code' = Code
  BY DEF Code
<1>2. \A c : ContentOK(h, c) => ContentOK(h, c)'
  BY <1>1 DEF ContentOK, Refs, Spaces
<1>3. \A o : ObjectOK(h, o) => ObjectOK(h, o)'
  BY <1>2 DEF ObjectOK, Refs, Spaces
<1>4. HeapOK(h) => HeapOK(heap)'
  BY <1>3 DEF HeapOK, MapOK, Refs, Spaces
<1>5. \A f : FrameOK(h, f) => FrameOK(h, f)'
  BY <1>1 DEF FrameOK, InstructionsOK, BlockSet, Refs, Spaces
<1>6. FramesOK(h, fs) => FramesOK(heap, frames)'
  BY <1>5 DEF FramesOK
<1> QED BY <1>4, <1>6

LEMMA StepOK ==
    ASSUME IInv, NEW h, NEW fs, Ready(h, fs), heap' = h, frames' = fs,
           prog' = prog, modules' \in [DOMAIN modules' -> Spaces(h)], queue' = queue,
           IsSequence(stdout'), outcome' \in Outcomes
    PROVE  IInv'
<1>1. HeapOK(heap)' /\ FramesOK(heap, frames)'
  BY SameProgram DEF Ready
<1>2. Refs(heap)' = Refs(h) /\ Spaces(heap)' = Spaces(h)
  BY DEF Refs, Spaces
<1>3. (LoadedRefs(Programs[prog]) \subseteq Refs(heap))'
  <2>1. LoadedRefs(Programs[prog]) \subseteq Refs(h)
    BY DEF IInv, RefsValid, Ready
  <2>2. LoadedRefs(Programs[prog])' = LoadedRefs(Programs[prog])
    BY DEF LoadedRefs
  <2> QED BY <1>2, <2>1, <2>2
<1>4. RefsValid'
  BY <1>1, <1>2, <1>3 DEF RefsValid
<1>5. TypeOK'
  BY DEF IInv, TypeOK
<1> QED BY <1>4, <1>5 DEF IInv

LEMMA ContinueOK ==
    ASSUME IInv, NEW h, NEW fs, Ready(h, fs), Continue(h, fs)
    PROVE  IInv'
<1>1. modules' \in [DOMAIN modules' -> Spaces(h)]
  BY DEF IInv, RefsValid, Ready, Continue
<1>2. IsSequence(stdout') /\ outcome' \in Outcomes /\ queue' = queue /\ prog' = prog
  BY DEF IInv, TypeOK, Continue
<1>3. heap' = h /\ frames' = fs
  BY DEF Continue
<1> QED BY <1>1, <1>2, <1>3, StepOK

LEMMA ReadySelf == ASSUME IInv PROVE Ready(heap, frames)
BY DEF IInv, RefsValid, Ready

LEMMA PanicOK ==
    ASSUME IInv, NEW why \in Outcomes, Panic(why)
    PROVE  IInv'
<1>1. modules' \in [DOMAIN modules' -> Spaces(heap)]
  BY DEF IInv, RefsValid, Panic
<1>2. IsSequence(stdout') /\ outcome' \in Outcomes /\ queue' = queue /\ prog' = prog
  BY DEF IInv, TypeOK, Panic
<1>3. heap' = heap /\ frames' = frames
  BY DEF Panic
<1> QED BY <1>1, <1>2, <1>3, StepOK, ReadySelf

LEMMA PanicsOK ==
    /\ "panic" \in Outcomes /\ "UncaughtException" \in Outcomes
    /\ "StackTooSmall" \in Outcomes /\ "NotACodeObject" \in Outcomes
BY DEF Outcomes

-----------------------------------------------------------------------------
(***************************************************************************)
(* Raising.                                                                *)
(***************************************************************************)
LEMMA ChangedExcept ==
    ASSUME NEW h, NEW f, FrameOK(h, f), NEW stack, NEW blocks, NEW pc, NEW g,
           g = [f EXCEPT !.blocks = blocks, !.pc = pc, !.stack = stack]
    PROVE  g = Changed(f, stack, blocks, pc)
<1> DEFINE f1 == [f EXCEPT !.blocks = blocks]
           f2 == [f1 EXCEPT !.pc = pc]
           f3 == [f2 EXCEPT !.stack = stack]
<1>1. f1 = Changed(f, f.stack, blocks, f.pc)
  BY FrameRecord DEF Changed
<1> HIDE DEF f1
<1>2. f2 = Changed(f, f.stack, blocks, pc)
  BY <1>1 DEF Changed
<1> HIDE DEF f2
<1>3. f3 = Changed(f, stack, blocks, pc)
  BY <1>2 DEF Changed
<1> QED BY <1>3 DEF f1, f2

LEMMA LandOK ==
    ASSUME NEW h, NEW f, FrameOK(h, f), NEW j \in 1..Len(f.blocks),
           NEW traceback \in Refs(h), NEW exc \in Refs(h), NEW val \in Refs(h)
    PROVE  FrameOK(h, Land(f, j, traceback, exc, val))
<1> DEFINE b == f.blocks[j]
           pushed == <<traceback, val, exc, traceback, val, exc>>
<1>1. b \in BlockSet(h) /\ b.target \in Nat /\ b.pop \in Nat
  <2>1. b \in BlockSet(h)
    BY FrameParts, ElementOfSeq
  <2> HIDE DEF b
  <2> QED BY <2>1 DEF BlockSet
<1>2. /\ f.stack \in Seq(Refs(h)) /\ Len(f.stack) \in Nat
      /\ f.blocks \in Seq(BlockSet(h)) /\ Len(f.blocks) \in Nat
  BY FrameParts
<1>3. CASE b.kind = "TryExcept"
  <2> DEFINE stack == f.stack \o pushed
             blocks == SubSeq(f.blocks, 1, j)
  <2>1. pushed \in Seq(Refs(h))
    OBVIOUS
  <2>2. stack \in Seq(Refs(h))
    BY <1>2, <2>1, ConcatProperties
  <2>3. blocks \in Seq(BlockSet(h))
    BY <1>2, PrefixProperties
  <2>4. Land(f, j, traceback, exc, val)
          = [f EXCEPT !.blocks = blocks, !.pc = b.target, !.stack = stack]
    BY <1>3 DEF Land
  <2> HIDE DEF stack, blocks, b
  <2>5. Land(f, j, traceback, exc, val) = Changed(f, stack, blocks, b.target)
    BY <2>4, ChangedExcept
  <2> QED BY <1>1, <2>2, <2>3, <2>4, <2>5, ChangedOK
<1>4. CASE b.kind # "TryExcept"
  <2> DEFINE n == IF b.pop > Len(f.stack) THEN Len(f.stack) ELSE Len(f.stack) - b.pop
             stack == SubSeq(f.stack, 1, n)
             blocks == SubSeq(f.blocks, 1, j - 1)
  <2>1. n \in Int /\ n <= Len(f.stack)
    BY <1>1, <1>2
  <2>2. stack \in Seq(Refs(h))
    BY <1>2, <2>1, PrefixProperties
  <2>3. j - 1 \in Int /\ j - 1 <= Len(f.blocks)
    BY <1>2
  <2>4. blocks \in Seq(BlockSet(h))
    BY <1>2, <2>3, PrefixProperties
  <2>5. Land(f, j, traceback, exc, val)
          = [f EXCEPT !.blocks = blocks, !.pc = b.target, !.stack = stack]
    BY <1>4 DEF Land
  <2> HIDE DEF stack, blocks, b
  <2>6. Land(f, j, traceback, exc, val) = Changed(f, stack, blocks, b.target)
    BY <2>5, ChangedExcept
  <2> QED BY <1>1, <2>2, <2>4, <2>5, <2>6, ChangedOK
<1> QED BY <1>3, <1>4

LEMMA UnwindOK ==
    ASSUME IInv, NEW h, NEW fs, Ready(h, fs), NEW traceback \in Refs(h),
           NEW exc \in Refs(h), NEW val \in Refs(h), Unwind(h, fs, traceback, exc, val)
    PROVE  IInv'
<1>1. ASSUME NEW i \in 1..Len(fs), NEW j \in 1..Len(fs[i].blocks),
             Continue(h, Append(SubSeq(fs, 1, i - 1), Land(fs[i], j, traceback, exc, val)))
      PROVE  IInv'
  <2>1. i - 1 \in Int /\ i - 1 <= Len(fs)
    BY FramesLen DEF Ready
  <2>2. FramesOK(h, SubSeq(fs, 1, i - 1))
    BY <2>1, PrefixFramesOK DEF Ready
  <2>3. FrameOK(h, Land(fs[i], j, traceback, exc, val))
    BY LandOK DEF Ready, FramesOK
  <2>4. FramesOK(h, Append(SubSeq(fs, 1, i - 1), Land(fs[i], j, traceback, exc, val)))
    BY <2>2, <2>3, AppendFramesOK
  <2>5. Ready(h, Append(SubSeq(fs, 1, i - 1), Land(fs[i], j, traceback, exc, val)))
    BY <2>4 DEF Ready
  <2> QED BY <1>1, <2>5, ContinueOK
<1>2. ASSUME Panic("UncaughtException")
      PROVE  IInv'
  BY <1>2, PanicOK, PanicsOK
<1> QED BY <1>1, <1>2 DEF Unwind

LEMMA ReadyExtended ==
    ASSUME NEW h, NEW h2, NEW fs, Ready(h, fs), Extended(h, h2)
    PROVE  Ready(h2, fs)
<1>1. HeapOK(h) /\ HeapOK(h2)
  BY DEF Ready, Extended
<1>2. Refs(h) \subseteq Refs(h2) /\ Spaces(h) \subseteq Spaces(h2)
  BY <1>1, ExtendedSets
<1>3. FramesOK(h2, fs)
  BY <1>2, FramesGrow DEF Ready
<1> QED BY <1>1, <1>2, <1>3 DEF Ready

LEMMA RaiseOK ==
    ASSUME IInv, NEW h, NEW fs, Ready(h, fs), NEW class \in Refs(h), Raise(h, fs, class)
    PROVE  IInv'
<1> DEFINE h2 == NewInstance(h, NoName, class, StringOf("message"))
<1>1. HeapOK(h)
  BY DEF Ready
<1>2. Extended(h, h2) /\ Newest(h2) \in Refs(h2)
  BY <1>1, NewInstanceOK, StringOK DEF Made
<1>3. Ready(h2, fs)
  BY <1>2, ReadyExtended
<1>4. none \in Refs(h2)
  BY <1>2, PrimitiveRefs DEF Extended, none
<1>5. Unwind(h2, fs, none, Newest(h2), none)
  BY DEF Raise
<1> HIDE DEF h2
<1> QED BY <1>2, <1>3, <1>4, <1>5, UnwindOK

-----------------------------------------------------------------------------
(***************************************************************************)
(* Maps filled in order.                                                   *)
(***************************************************************************)
\* A set of numbers with an upper bound has a largest element.
LEMMA LargestExists ==
    ASSUME NEW n \in Nat, NEW S, S \subseteq 0..n, S # {}
    PROVE  \E m \in S : \A k \in S : k <= m
<1> DEFINE T == {n - k : k \in S}
           R == OpToRel(<, Nat)
<1>1. \A k \in S : k \in Nat /\ n - k \in Nat
  BY SMT
<1>2. T \subseteq Nat /\ T # {}
  BY <1>1
<1>3. \E x \in T : \A y \in T : ~(<<y, x>> \in R)
  BY <1>2, WFMin, NatLessThanWellFounded
<1>4. PICK x \in T : \A y \in T : ~(<<y, x>> \in R)
  BY <1>3
<1>5. \A y \in T : ~(y < x)
  BY <1>2, <1>4 DEF OpToRel
<1>6. PICK m \in S : x = n - m
  OBVIOUS
<1>7. ASSUME NEW k \in S PROVE k <= m
  <2>1. n - k \in T
    OBVIOUS
  <2>2. ~(n - k < n - m)
    BY <1>5, <1>6, <2>1
  <2>3. k \in Nat /\ m \in Nat
    BY <1>1
  <2> HIDE DEF T, R
  <2> QED BY <2>2, <2>3, SMT
<1> QED BY <1>7

LEMMA LastAtExists ==
    ASSUME NEW names, NEW n \in Nat, NEW name \in {names[i] : i \in 1..n}
    PROVE  LastAt(names, n, name) \in 1..n /\ names[LastAt(names, n, name)] = name
<1> DEFINE S == {i \in 1..n : names[i] = name}
<1>1. S \subseteq 0..n /\ S # {}
  BY SMT
<1>2. PICK m \in S : \A k \in S : k <= m
  BY <1>1, LargestExists
<1>3. \A j \in (m + 1)..n : j \in 1..n /\ ~(j <= m)
  BY <1>1, <1>2, SMT
<1>4. \A j \in (m + 1)..n : names[j] # name
  BY <1>2, <1>3
<1>5. m \in 1..n /\ names[m] = name
  OBVIOUS
<1> QED BY <1>4, <1>5 DEF LastAt

LEMMA MapOfOK ==
    ASSUME NEW h, NEW names, Len(names) \in Nat, NEW refs \in Seq(Refs(h))
    PROVE  MapOK(h, MapOf(names, refs))
<1> DEFINE n == IF Len(names) < Len(refs) THEN Len(names) ELSE Len(refs)
<1>1. n \in Nat /\ n <= Len(refs) /\ Len(refs) \in Nat
  BY LenProperties
<1>2. MapOf(names, refs)
        = [x \in {names[i] : i \in 1..n} |-> refs[LastAt(names, n, x)]]
  BY DEF MapOf
<1>3. \A i \in 1..n : refs[i] \in Refs(h)
  BY <1>1, ElementOfSeq
<1> HIDE DEF n
<1>4. \A x \in {names[i] : i \in 1..n} : refs[LastAt(names, n, x)] \in Refs(h)
  BY <1>1, <1>3, LastAtExists
<1> QED BY <1>2, <1>4 DEF MapOK

LEMMA InsertOK ==
    ASSUME NEW h, NEW map, MapOK(h, map), NEW name, NEW ref \in Refs(h)
    PROVE  MapOK(h, Insert(map, name, ref))
BY DEF MapOK, Insert

LEMMA OverOK ==
    ASSUME NEW h, NEW map, MapOK(h, map), NEW under, MapOK(h, under)
    PROVE  MapOK(h, Over(map, under))
BY DEF MapOK, Over

LEMMA OnlyOK ==
    ASSUME NEW h, NEW map, MapOK(h, map), NEW names
    PROVE  MapOK(h, Only(map, names))
BY DEF MapOK, Only

LEMMA FunctionIsSeq ==
    ASSUME NEW n \in Nat, NEW S, NEW f \in [1..n -> S]
    PROVE  f \in Seq(S) /\ Len(f) = n
BY SMT

LEMMA TextsLen ==
    ASSUME NEW h, NEW S, NEW refs \in Seq(S)
    PROVE  Len(Texts(h, refs)) \in Nat
<1>1. Len(refs) \in Nat
  BY LenProperties
<1>2. Texts(h, refs) \in [1..Len(refs) -> {StringAt(h, refs[i]) : i \in 1..Len(refs)}]
  BY DEF Texts
<1> HIDE DEF Texts
<1> QED BY <1>1, <1>2, FunctionIsSeq

-----------------------------------------------------------------------------
(***************************************************************************)
(* The code that is loaded.                                                *)
(***************************************************************************)
LEMMA CodeLoaded ==
    ASSUME IInv, NEW id \in 1..Len(Code)
    PROVE  IsCode(Programs[prog], Code[id])
BY ProgramsAssumption DEF IInv, TypeOK, Code, IsProgram

LEMMA LoadedInstructionsOK ==
    ASSUME IInv, NEW h, NEW id \in 1..Len(Code)
    PROVE  InstructionsOK(h, Code[id].instructions)
BY CodeLoaded DEF IsCode, InstructionsOK

LEMMA FunctionCode ==
    ASSUME NEW h, HeapOK(h), NEW ref \in Refs(h), h.objs[ref].content.kind = "Function"
    PROVE  /\ h.objs[ref].content.refs[1] \in Refs(h)
           /\ h.objs[ref].content.num \in Spaces(h)
           /\ MapOK(h, h.spaces[h.objs[ref].content.num])
           /\ KindOf(h, h.objs[ref].content.refs[1]) = "Code" =>
                h.objs[h.objs[ref].content.refs[1]].content.num \in 1..Len(Code)
<1> DEFINE c == h.objs[ref].content
<1>1. ContentOK(h, c)
  BY DEF HeapOK, ObjectOK
<1>2. c.refs \in Seq(Refs(h)) /\ Len(c.refs) = 1 /\ c.num \in Spaces(h)
  BY <1>1 DEF ContentOK
<1>3. c.refs[1] \in Refs(h)
  BY <1>2, ElementOfSeq
<1>4. MapOK(h, h.spaces[c.num])
  BY <1>2 DEF HeapOK
<1>5. ContentOK(h, h.objs[c.refs[1]].content)
  BY <1>3 DEF HeapOK, ObjectOK
<1> QED BY <1>2, <1>3, <1>4, <1>5 DEF ContentOK, KindOf

-----------------------------------------------------------------------------
(***************************************************************************)
(* Calling a function of Python code.                                      *)
(***************************************************************************)
LEMMA ChosenSeq ==
    ASSUME NEW S, NEW s \in Seq(S), NEW n \in Nat, NEW rest \in [1..n -> 1..Len(s)]
    PROVE  [i \in 1..Len(rest) |-> s[rest[i]]] \in Seq(S)
           /\ Len([i \in 1..Len(rest) |-> s[rest[i]]]) = n
<1>1. rest \in Seq(1..Len(s)) /\ Len(rest) = n
  BY FunctionIsSeq
<1>2. \A i \in 1..n : s[rest[i]] \in S
  BY ElementOfSeq
<1>3. [i \in 1..Len(rest) |-> s[rest[i]]] \in [1..n -> S]
  BY <1>1, <1>2
<1> QED BY <1>3, FunctionIsSeq

LEMMA BindArgumentsOK ==
    ASSUME NEW c, Len(c.varnames) \in Nat, c.argcount \in Nat,
           NEW h, HeapOK(h), NEW defaults, MapOK(h, defaults),
           NEW args \in Seq(Refs(h)), c.argcount <= Len(args),
           NEW keys \in Seq(Refs(h)), NEW values \in Seq(Refs(h)), Len(values) = Len(keys),
           NEW n \in Nat, NEW rest \in [1..n -> 1..Len(keys)]
    PROVE  LET h3 == BindArguments(c, h, defaults, args, keys, values, rest)
           IN  Extended(h, h3) /\ Len(h3.spaces) \in Spaces(h3)
<1> DEFINE extra == SubSeq(args, c.argcount + 1, Len(args))
           positional == SubSeq(args, 1, c.argcount)
           h1 == IF c.varargs THEN NewTuple(h, extra) ELSE h
           star == IF c.varargs
                   THEN Insert(defaults, c.varnames[StarArgs(c)], Newest(h1))
                   ELSE defaults
           named == Over(Only(MapOf(Texts(h, keys), values), Keywords(c)), star)
           ks == [i \in 1..Len(rest) |-> keys[rest[i]]]
           vs == [i \in 1..Len(rest) |-> values[rest[i]]]
           h2 == IF c.varkwargs THEN NewDict(h1, ks, vs) ELSE h1
           all == IF c.varkwargs
                  THEN Insert(named, c.varnames[StarKwargs(c)], Newest(h2))
                  ELSE named
           locals == Over(MapOf(c.varnames, positional), all)
<1>1. Len(args) \in Nat
  BY LenProperties
<1>2. extra \in Seq(Refs(h)) /\ positional \in Seq(Refs(h))
  <2>1. c.argcount + 1 \in Nat \ {0} /\ Len(args) \in Int /\ Len(args) <= Len(args)
    BY <1>1
  <2>2. extra \in Seq(Refs(h))
    BY <2>1, SliceProperties
  <2>3. positional \in Seq(Refs(h))
    BY <1>1, PrefixProperties
  <2> QED BY <2>2, <2>3
<1> HIDE DEF extra, positional
<1>3. Extended(h, h1) /\ (c.varargs => Newest(h1) \in Refs(h1))
  BY <1>2, NewTupleOK, ExtendedSelf DEF Made
<1>4. HeapOK(h1) /\ Refs(h) \subseteq Refs(h1) /\ Spaces(h) \subseteq Spaces(h1)
  BY <1>3, ExtendedSets DEF Extended
<1> HIDE DEF h1
<1>5. MapOK(h1, star)
  BY <1>3, <1>4, SetsGrow, InsertOK
<1>6. MapOK(h1, MapOf(Texts(h, keys), values))
  <2>1. Len(Texts(h, keys)) \in Nat
    BY TextsLen
  <2>2. MapOK(h, MapOf(Texts(h, keys), values))
    BY <2>1, MapOfOK
  <2> QED BY <1>4, <2>2, SetsGrow
<1> HIDE DEF star
<1>7. MapOK(h1, named)
  BY <1>5, <1>6, OnlyOK, OverOK
<1> HIDE DEF named
<1>8. /\ ks \in Seq(Refs(h)) /\ Len(ks) = n
      /\ vs \in Seq(Refs(h)) /\ Len(vs) = n
  BY ChosenSeq
<1> HIDE DEF ks, vs
<1>9. ks \in Seq(Refs(h1)) /\ vs \in Seq(Refs(h1)) /\ Len(ks) = Len(vs)
  BY <1>4, <1>8, SeqMonotonic
<1>10. Extended(h1, h2) /\ (c.varkwargs => Newest(h2) \in Refs(h2))
  BY <1>4, <1>9, NewDictOK, ExtendedSelf DEF Made
<1>11. HeapOK(h2) /\ Refs(h1) \subseteq Refs(h2) /\ Spaces(h1) \subseteq Spaces(h2)
  BY <1>4, <1>10, ExtendedSets DEF Extended
<1> HIDE DEF h2
<1>12. MapOK(h2, all)
  BY <1>7, <1>10, <1>11, SetsGrow, InsertOK
<1> HIDE DEF all
<1>13. MapOK(h2, MapOf(c.varnames, positional))
  <2>1. MapOK(h, MapOf(c.varnames, positional))
    BY <1>2, MapOfOK
  <2> QED BY <1>4, <1>11, <2>1, SetsGrow
<1>14. MapOK(h2, locals)
  BY <1>12, <1>13, OverOK
<1> HIDE DEF locals
<1>15. Extended(h2, NewSpace(h2, locals))
       /\ Len(NewSpace(h2, locals).spaces) \in Spaces(NewSpace(h2, locals))
  BY <1>11, <1>14, NewSpaceOK
<1>16. Extended(h, h2)
  BY <1>3, <1>10, ExtendedTrans
<1>17. Extended(h, NewSpace(h2, locals))
  BY <1>15, <1>16, ExtendedTrans
<1>18. BindArguments(c, h, defaults, args, keys, values, rest) = NewSpace(h2, locals)
  BY DEF BindArguments, locals, all, h2, named, star, h1, ks, vs, extra, positional
<1> QED BY <1>15, <1>17, <1>18

\* What a call is made with.
Arguments(h, args, keys, values) ==
    /\ args \in Seq(Refs(h)) /\ keys \in Seq(Refs(h)) /\ values \in Seq(Refs(h))
    /\ Len(values) = Len(keys)

LEMMA CallCodeOK ==
    ASSUME IInv, NEW h, NEW fs, Ready(h, fs), NEW func \in Refs(h),
           NEW args, NEW keys, NEW values, Arguments(h, args, keys, values),
           KindOf(h, func) = "Function",
           KindOf(h, h.objs[func].content.refs[1]) = "Code",
           CallCode(h, fs, func, args, keys, values)
    PROVE  IInv'
<1> DEFINE f  == h.objs[func].content
           id == h.objs[f.refs[1]].content.num
           c  == Code[id]
           defaults == h.spaces[f.num]
           set == Remaining(c, h, keys)
<1>1. HeapOK(h)
  BY DEF Ready
<1>2. id \in 1..Len(Code) /\ MapOK(h, defaults)
  BY <1>1, FunctionCode DEF KindOf
<1>3. IsCode(Programs[prog], c) /\ InstructionsOK(h, c.instructions)
  BY <1>2, CodeLoaded, LoadedInstructionsOK
<1>4. c.argcount \in Nat /\ Len(c.varnames) \in Nat
  BY <1>3, SequenceLen DEF IsCode
<1>5. CASE Panic("panic")
  BY <1>5, PanicOK, PanicsOK
<1>6. ASSUME ~Unbindable(c, h, defaults, args, keys),
             NEW rest \in [1..Cardinality(set) -> set],
             Continue(BindArguments(c, h, defaults, args, keys, values, rest),
                      Append(fs, NewFrame(func, id, c.instructions,
                        Len(BindArguments(c, h, defaults, args, keys, values, rest).spaces))))
      PROVE  IInv'
  <2> DEFINE h2 == BindArguments(c, h, defaults, args, keys, values, rest)
             frame == NewFrame(func, id, c.instructions, Len(h2.spaces))
  <2>1. Len(args) \in Nat /\ Len(keys) \in Nat
    BY LenProperties DEF Arguments
  <2>2. c.argcount <= Len(args)
    <3>1. IF c.varargs THEN ~(c.argcount > Len(args)) ELSE c.argcount = Len(args)
      BY <1>6, ZenonT(30) DEF Unbindable
    <3> HIDE DEF c
    <3> QED BY <1>4, <2>1, <3>1
  <2>3. set \subseteq 1..Len(keys)
    BY DEF Remaining
  <2>4. Cardinality(set) \in Nat
    <3> HIDE DEF f, id, c, set, defaults, frame, h2
    <3>0. 1 \in Int /\ Len(keys) \in Int
      BY <2>1, SMT
    <3>1. IsFiniteSet(1..Len(keys))
      BY <3>0, FS_Interval
    <3>2. IsFiniteSet(set)
      BY <2>3, <3>1, FS_Subset
    <3> QED BY <3>2, FS_CardinalityType
  <2>5. rest \in [1..Cardinality(set) -> 1..Len(keys)]
    BY <1>6, <2>3
  <2> HIDE DEF c, defaults, set
  <2>6. Extended(h, h2) /\ Len(h2.spaces) \in Spaces(h2)
    BY <1>1, <1>2, <1>4, <2>2, <2>4, <2>5, BindArgumentsOK DEF Arguments
  <2> HIDE DEF h2
  <2>7. Ready(h2, fs) /\ func \in Refs(h2) /\ InstructionsOK(h2, c.instructions)
    BY <1>1, <1>2, <2>6, ReadyExtended, ExtendedSets, LoadedInstructionsOK DEF c
  <2>8. FrameOK(h2, frame)
    BY <1>2, <2>6, <2>7, NewFrameOK
  <2>9. Ready(h2, Append(fs, frame))
    BY <2>7, <2>8, AppendFramesOK DEF Ready
  <2> QED BY <1>6, <2>9, ContinueOK DEF h2
<1> QED BY <1>5, <1>6 DEF CallCode

-----------------------------------------------------------------------------
(***************************************************************************)
(* The primitives.                                                         *)
(***************************************************************************)
LEMMA ReturnOK ==
    ASSUME IInv, NEW h, NEW fs, Ready(h, fs), fs # <<>>, NEW h2, Extended(h, h2),
           NEW result \in Refs(h2), Continue(h2, ReturnTo(fs, result))
    PROVE  IInv'
<1>1. Ready(h2, fs)
  BY ReadyExtended
<1>2. Ready(h2, ReturnTo(fs, result))
  BY <1>1, ReturnToOK DEF Ready
<1> QED BY <1>2, ContinueOK

LEMMA WriteStdoutOK ==
    ASSUME IInv, NEW h, NEW fs, Ready(h, fs), fs # <<>>, NEW args, WriteStdout(h, fs, args)
    PROVE  IInv'
<1> DEFINE content == h.objs[args[1]].content
<1> HIDE DEF content
<1>1. CASE Panic("panic")
  BY <1>1, PanicOK, PanicsOK
<1>2. CASE /\ stdout' = Append(stdout, content)
           /\ frames' = ReturnTo(fs, none)
           /\ heap' = h
           /\ UNCHANGED <<prog, modules, queue, outcome>>
  <2>1. none \in Refs(h)
    BY PrimitiveRefs DEF Ready, none
  <2>2. Ready(h, ReturnTo(fs, none))
    BY <2>1, ReturnToOK DEF Ready
  <2>3. IsSequence(stdout')
    BY <1>2, AppendSequence DEF IInv, TypeOK
  <2>4. modules' \in [DOMAIN modules' -> Spaces(h)]
    BY <1>2 DEF IInv, RefsValid, Ready
  <2>5. outcome' \in Outcomes
    BY <1>2 DEF IInv, TypeOK
  <2> QED BY <1>2, <2>2, <2>3, <2>4, <2>5, StepOK
<1> QED BY <1>1, <1>2 DEF WriteStdout, content

LEMMA BoolOK == ASSUME NEW h, HeapOK(h), NEW b PROVE Bool(b) \in Refs(h)
BY PrimitiveRefs DEF Bool, true_obj, false_obj

LEMMA TestOK ==
    ASSUME IInv, NEW h, NEW fs, Ready(h, fs), fs # <<>>, NEW args,
           IsSubclass(h, fs, args) \/ IsInstance(h, fs, args)
    PROVE  IInv'
<1>1. HeapOK(h) /\ Extended(h, h)
  BY ExtendedSelf DEF Ready
<1>2. CASE Panic("panic")
  BY <1>2, PanicOK, PanicsOK
<1>3. ASSUME NEW b, Continue(h, ReturnTo(fs, Bool(b)))
      PROVE  IInv'
  BY <1>1, <1>3, BoolOK, ReturnOK
<1> QED BY <1>2, <1>3 DEF IsSubclass, IsInstance

LEMMA AdvanceOK ==
    ASSUME IInv, NEW h, NEW fs, Ready(h, fs), fs # <<>>, NEW ref \in Refs(h),
           KindOf(h, ref) = "RandomAccessIterator", Advance(h, fs, ref)
    PROVE  IInv'
<1> DEFINE it == h.objs[ref].content
           container == h.objs[it.refs[1]]
           next == [it EXCEPT !.num = it.num + 1]
           h2 == SetContent(h, ref, next)
<1>1. HeapOK(h) /\ ContentOK(h, it)
  BY DEF Ready, HeapOK, ObjectOK
<1>2. it.refs \in Seq(Refs(h)) /\ Len(it.refs) = 1 /\ it.num \in Nat
  BY <1>1 DEF ContentOK, KindOf
<1>3. it.refs[1] \in Refs(h)
  BY <1>2, ElementOfSeq
<1>4. container.content.refs \in Seq(Refs(h))
  BY <1>1, <1>3 DEF HeapOK, ObjectOK, ContentOK
<1>5. CASE Panic("panic")
  BY <1>5, PanicOK, PanicsOK
<1>6. CASE Raise(h, fs, stopiteration)
  <2>1. stopiteration \in Refs(h)
    BY <1>1, PrimitiveRefs DEF stopiteration
  <2> QED BY <1>6, <2>1, RaiseOK
<1>7. CASE /\ it.num < Len(container.content.refs)
           /\ Continue(h2, ReturnTo(fs, container.content.refs[it.num + 1]))
  <2> DEFINE result == container.content.refs[it.num + 1]
  <2>1. result \in Refs(h)
    <3> DEFINE s == container.content.refs
               n == it.num
    <3>1. s \in Seq(Refs(h)) /\ n \in Nat /\ n < Len(s) /\ Len(s) \in Nat
      BY <1>2, <1>4, <1>7, LenProperties
    <3> HIDE DEF s, n
    <3>2. n + 1 \in 1..Len(s)
      BY <3>1
    <3>3. s[n + 1] \in Refs(h)
      BY <3>1, <3>2, ElementOfSeq
    <3> QED BY <3>3 DEF s, n
  <2>2. ContentOK(h, next)
    <3>1. it = [kind |-> it.kind, refs |-> it.refs, num |-> it.num, str |-> it.str,
                stamp |-> it.stamp]
      BY <1>1 DEF ContentOK
    <3>2. next = [kind |-> it.kind, refs |-> it.refs, num |-> it.num + 1, str |-> it.str,
                  stamp |-> it.stamp]
      BY <3>1
    <3>3. it.kind = "RandomAccessIterator" /\ it.num + 1 \in Nat
      BY <1>2 DEF KindOf
    <3> HIDE DEF it, next
    <3> QED BY <1>2, <3>2, <3>3 DEF ContentOK, Kinds
  <2> HIDE DEF result, next
  <2>3. HeapOK(h2) /\ Refs(h2) = Refs(h) /\ Spaces(h2) = Spaces(h)
    BY <1>1, <2>2, SetContentOK
  <2> HIDE DEF h2
  <2>4. FramesOK(h2, fs)
    BY <2>3, FramesGrow DEF Ready
  <2>5. Ready(h2, ReturnTo(fs, result))
    BY <2>1, <2>3, <2>4, ReturnToOK DEF Ready
  <2> QED BY <1>7, <2>5, ContinueOK DEF result
<1> QED BY <1>5, <1>6, <1>7 DEF Advance

LEMMA IterNextOK ==
    ASSUME IInv, NEW h, NEW fs, Ready(h, fs), fs # <<>>, NEW args \in Seq(Refs(h)),
           IterNext(h, fs, args)
    PROVE  IInv'
<1> DEFINE h1 == NewInstance(h, NoName, typeerror, Plain("OtherObject"))
<1>1. CASE Panic("panic")
  BY <1>1, PanicOK, PanicsOK
<1>2. CASE Len(args) = 1 /\ KindOf(h, args[1]) = "RandomAccessIterator"
           /\ Advance(h, fs, args[1])
  <2>1. args[1] \in Refs(h)
    BY <1>2, ElementOfSeq
  <2> QED BY <1>2, <2>1, AdvanceOK
<1>3. CASE Raise(h1, fs, Newest(h1))
  <2>1. HeapOK(h)
    BY DEF Ready
  <2>2. typeerror \in Refs(h) /\ ContentOK(h, Plain("OtherObject"))
    BY <2>1, PrimitiveRefs, PlainOK DEF typeerror
  <2>3. Made(h, h1)
    BY <2>1, <2>2, NewInstanceOK
  <2> HIDE DEF h1
  <2>4. Ready(h1, fs) /\ Newest(h1) \in Refs(h1)
    BY <2>3, ReadyExtended DEF Made
  <2> QED BY <1>3, <2>4, RaiseOK
<1> HIDE DEF h1
<1> QED BY <1>1, <1>2, <1>3 DEF IterNext, RaiseNaming, h1

LEMMA LastInstructionOK ==
    ASSUME NEW is, Len(is) \in Nat
    PROVE  LastInstruction(is) \in 0..Len(is)
<1> DEFINE S == {k \in 0..Len(is) : k # 0 => is[k].op # "Nop"}
<1>1. S \subseteq 0..Len(is) /\ 0 \in S
  BY SMT
<1>2. PICK m \in S : \A k \in S : k <= m
  BY <1>1, LargestExists
<1>3. ASSUME NEW j \in (m + 1)..Len(is) PROVE is[j].op = "Nop"
  <2>1. m \in 0..Len(is)
    OBVIOUS
  <2>2. j \in 0..Len(is) /\ j # 0 /\ ~(j <= m)
    <3> HIDE DEF S
    <3> QED BY <2>1
  <2> QED BY <1>2, <2>2
<1> QED BY <1>3 DEF LastInstruction

LEMMA ClassBodyOK ==
    ASSUME NEW h, NEW is, InstructionsOK(h, is), NEW cls \in Refs(h)
    PROVE  InstructionsOK(h, ClassBody(is, cls))
<1> DEFINE T == {i \in {is[k] : k \in 1..Len(is)}
                        \cup {Instruction("PushImmediate", cls), Instruction("ReturnValue", 0)} :
                    i.arg \in Nat /\ (i.op = "PushImmediate" => i.arg \in Refs(h))}
           n == LastInstruction(is) - 2
           tail == <<Instruction("PushImmediate", cls), Instruction("ReturnValue", 0)>>
<1>1. IsSequence(is) /\ Len(is) \in Nat
  BY SequenceLen DEF InstructionsOK
<1>2. LastInstruction(is) \in 0..Len(is)
  BY <1>1, LastInstructionOK
<1>3. n \in Int /\ n <= Len(is)
  BY <1>1, <1>2
<1>4. is \in Seq({is[k] : k \in 1..Len(is)})
  BY <1>1 DEF IsSequence
<1>5. \A k \in 1..Len(is) : is[k] \in T
  BY DEF InstructionsOK
<1>6. is \in Seq(T)
  <2> DEFINE U == {is[k] : k \in 1..Len(is)}
  <2>1. U \subseteq T
    BY <1>5
  <2>2. is \in Seq(U)
    BY <1>4
  <2> HIDE DEF T, U
  <2> QED BY <2>1, <2>2, SeqMonotonic
<1>7. Instruction("PushImmediate", cls) \in T /\ Instruction("ReturnValue", 0) \in T
  BY DEF Instruction, Refs
<1>8. \A i \in T : i.arg \in Nat /\ (i.op = "PushImmediate" => i.arg \in Refs(h))
  OBVIOUS
<1> HIDE DEF T, n
<1>9. tail \in Seq(T)
  BY <1>7
<1>10. SubSeq(is, 1, n) \in Seq(T)
  BY <1>3, <1>6, PrefixProperties
<1> HIDE DEF tail
<1>11. SubSeq(is, 1, n) \o tail \in Seq(T)
  BY <1>9, <1>10, ConcatProperties
<1> DEFINE body == SubSeq(is, 1, n) \o tail
<1> HIDE DEF body
<1>12. body \in Seq(T)
  BY <1>11 DEF body
<1>13. InstructionsOK(h, body)
  BY <1>8, <1>12, SeqIsSequence, ElementOfSeq DEF InstructionsOK
<1> QED BY <1>13 DEF ClassBody, body, tail, n

LEMMA BuildClassOK ==
    ASSUME IInv, NEW h, NEW fs, Ready(h, fs), NEW args \in Seq(Refs(h)),
           BuildClass(h, fs, args)
    PROVE  IInv'
<1> DEFINE id    == h.objs[h.objs[args[1]].content.refs[1]].content.num
           is    == Code[id].instructions
           bases == IF Len(args) = 2 THEN <<object>> ELSE SubSeq(args, 3, Len(args))
           h1    == NewSpace(h, EmptyMap)
           h2    == NewClass(h1, StringAt(h, args[2]), Len(h1.spaces), bases)
           cls   == Newest(h2)
           frame == NewFrame(cls, id, ClassBody(is, cls), Len(h1.spaces))
<1>1. HeapOK(h)
  BY DEF Ready
<1>2. CASE Panic("panic")
  BY <1>2, PanicOK, PanicsOK
<1>3. ASSUME Len(args) >= 2, IsCodeFunction(h, args[1]), Continue(h2, Append(fs, frame))
      PROVE  IInv'
  <2>1. Len(args) \in Nat /\ args[1] \in Refs(h)
    <3> HIDE DEF frame, h1, h2, cls, bases, is, id
    <3>1. Len(args) \in Nat
      BY LenProperties
    <3>2. 1 \in 1..Len(args)
      BY <1>3, <3>1
    <3> QED BY <3>1, <3>2, ElementOfSeq
  <2>2. id \in 1..Len(Code)
    BY <1>1, <1>3, <2>1, FunctionCode DEF IsCodeFunction, KindOf
  <2>3. bases \in Seq(Refs(h))
    <3>1. object \in Refs(h)
      BY <1>1, PrimitiveRefs DEF object
    <3>2. <<object>> \in Seq(Refs(h))
      BY <3>1, SingletonSeq
    <3>3. SubSeq(args, 3, Len(args)) \in Seq(Refs(h))
      <4>1. 3 \in Nat \ {0} /\ Len(args) \in Int /\ Len(args) <= Len(args)
        BY <2>1
      <4> QED BY <4>1, SliceProperties
    <3> QED BY <3>2, <3>3
  <2> HIDE DEF bases, id
  <2>4. /\ Extended(h, h1) /\ Refs(h1) = Refs(h)
        /\ Len(h1.spaces) \in Spaces(h1)
    BY <1>1, EmptyMapOK, NewSpaceOK
  <2>5. HeapOK(h1)
    BY <2>4 DEF Extended
  <2> DEFINE space == Len(h1.spaces)
             name == StringAt(h, args[2])
             class == Plain("Class")
  <2>6. space \in Spaces(h1)
    BY <2>4
  <2>7. type_ \in Refs(h1) /\ ContentOK(h1, class)
    BY <2>5, PrimitiveRefs, PlainOK DEF type_
  <2>8. bases \in Seq(Refs(h1))
    BY <2>3, <2>4
  <2>9. h2 = Allocate(h1, name, type_, bases, space, class)
    BY DEF NewClass
  <2> HIDE DEF h1, space, name, class, h2
  <2>10. Extended(h1, h2) /\ cls \in Refs(h2)
    BY <2>5, <2>6, <2>7, <2>8, <2>9, AllocateOK
  <2>11. Extended(h, h2)
    BY <1>1, <2>4, <2>10, ExtendedTrans
  <2>12. Ready(h2, fs) /\ space \in Spaces(h2)
    BY <2>5, <2>6, <2>10, <2>11, ReadyExtended, ExtendedSets
  <2> HIDE DEF cls
  <2>13. InstructionsOK(h2, ClassBody(is, cls))
    BY <2>2, <2>10, LoadedInstructionsOK, ClassBodyOK
  <2>14. FrameOK(h2, frame)
    BY <2>2, <2>10, <2>12, <2>13, NewFrameOK DEF space
  <2> HIDE DEF frame
  <2>15. Ready(h2, Append(fs, frame))
    BY <2>12, <2>14, AppendFramesOK DEF Ready
  <2> QED BY <1>3, <2>15, ContinueOK
<1> QED BY <1>2, <1>3 DEF BuildClass

LEMMA CallPrimitiveOK ==
    ASSUME IInv, NEW h, NEW fs, Ready(h, fs), fs # <<>>, NEW args \in Seq(Refs(h)),
           NEW name, CallPrimitive(h, fs, name, args)
    PROVE  IInv'
<1>1. CASE WriteStdout(h, fs, args)
  BY <1>1, WriteStdoutOK
<1>2. CASE BuildClass(h, fs, args)
  BY <1>2, BuildClassOK
<1>3. CASE IsSubclass(h, fs, args) \/ IsInstance(h, fs, args)
  BY <1>3, TestOK
<1>4. CASE IterNext(h, fs, args)
  BY <1>4, IterNextOK
<1>5. CASE Raise(h, fs, baseexception)
  <2>1. baseexception \in Refs(h)
    BY PrimitiveRefs DEF baseexception, Ready
  <2> QED BY <1>5, <2>1, RaiseOK
<1> QED BY <1>1, <1>2, <1>3, <1>4, <1>5 DEF CallPrimitive

\* Whatever is called, with whatever is on the stack, the invariant holds after.
THEOREM CallOK ==
    ASSUME IInv, NEW h, NEW fs, Ready(h, fs), fs # <<>>, NEW func \in Refs(h),
           NEW args, NEW keys, NEW values, Arguments(h, args, keys, values),
           Call(h, fs, func, args, keys, values)
    PROVE  IInv'
<1> DEFINE f  == h.objs[func].content
           h2 == Instantiate(h, func)
<1>1. HeapOK(h)
  BY DEF Ready
<1>2. CASE Continue(h2, ReturnTo(fs, Newest(h2)))
  <2>1. Made(h, h2)
    BY <1>1, InstantiateOK
  <2> HIDE DEF h2
  <2> QED BY <1>2, <2>1, ReturnOK DEF Made
<1>3. CASE f.kind = "Function" /\ KindOf(h, f.refs[1]) = "Code"
           /\ CallCode(h, fs, func, args, keys, values)
  BY <1>3, CallCodeOK DEF KindOf
<1>4. ASSUME NEW class \in {processorerror, typeerror}, NEW ref, RaiseNaming(h, fs, ref, class)
      PROVE  IInv'
  <2> HIDE DEF f, h2
  <2>1. processorerror \in Refs(h) /\ typeerror \in Refs(h)
    BY <1>1, PrimitiveRefs DEF processorerror, typeerror
  <2>2. CASE Raise(h, fs, class)
    BY <1>4, <2>1, <2>2, RaiseOK
  <2>3. CASE Panic("panic")
    BY <2>3, PanicOK, PanicsOK
  <2> QED BY <1>4, <2>2, <2>3 DEF RaiseNaming
<1>5. CASE CallPrimitive(h, fs, f.str, args)
  BY <1>5, CallPrimitiveOK DEF Arguments
<1> QED BY <1>2, <1>3, <1>4, <1>5 DEF Call

-----------------------------------------------------------------------------
(***************************************************************************)
(* What the binding of arguments makes of a signature and a call.          *)
(***************************************************************************)
\* The first n names; what `order` takes from the sequence s.
FirstOf(names, n)    == {names[i] : i \in 1..n}
Taken(s, n, order)   == [i \in 1..n |-> s[order[i]]]

\* The map of the locals: the positional arguments over **kwargs, over the
\* keyword arguments, over *args, over the defaults.
LocalsOf(c, first, given, defaults, one, two) ==
    LET star == IF c.varargs THEN Insert(defaults, c.varnames[StarArgs(c)], one)
                             ELSE defaults
        named == Over(Only(given, Keywords(c)), star)
    IN  Over(first, IF c.varkwargs THEN Insert(named, c.varnames[StarKwargs(c)], two)
                                   ELSE named)

\* A map filled from different names has each of them once.
LEMMA MapOfDistinct ==
    ASSUME NEW names, NEW refs, Len(names) \in Nat, Len(refs) \in Nat,
           NEW n \in Nat, n <= Len(names), n <= Len(refs), n = Len(names) \/ n = Len(refs),
           \A i, j \in 1..n : names[i] = names[j] => i = j
    PROVE  /\ DOMAIN MapOf(names, refs) = FirstOf(names, n)
           /\ \A i \in 1..n : MapOf(names, refs)[names[i]] = refs[i]
<1>1. (IF Len(names) < Len(refs) THEN Len(names) ELSE Len(refs)) = n
  OBVIOUS
<1>2. MapOf(names, refs) = [x \in {names[i] : i \in 1..n} |-> refs[LastAt(names, n, x)]]
  BY <1>1 DEF MapOf
<1>3. ASSUME NEW i \in 1..n PROVE LastAt(names, n, names[i]) = i
  BY LastAtExists
<1> QED BY <1>2, <1>3 DEF FirstOf

\* The store h3 is h with the objects at `one` and `two` for the arguments that
\* are left over, and its newest map is the locals of the call.
FillsLocals(c, h, h3, defaults, args, keys, values, n, rest, one, two) ==
    /\ one \in Refs(h3) /\ two \in Refs(h3)
    /\ c.varargs => h3.objs[one].content = TupleOf(SubSeq(args, c.argcount + 1, Len(args)))
    /\ c.varkwargs => h3.objs[two].content
                        = DictOf(Taken(keys, n, rest), Taken(values, n, rest))
    /\ h3.spaces[Len(h3.spaces)]
        = LocalsOf(c, MapOf(c.varnames, SubSeq(args, 1, c.argcount)),
                   MapOf(Texts(h, keys), values), defaults, one, two)

\* The locals that BindArguments makes, and the tuple and the dict in them.
LEMMA BindArgumentsMakes ==
    ASSUME NEW c, Len(c.varnames) \in Nat, c.argcount \in Nat,
           NEW h, HeapOK(h), NEW defaults, MapOK(h, defaults),
           NEW args \in Seq(Refs(h)), c.argcount <= Len(args),
           NEW keys \in Seq(Refs(h)), NEW values \in Seq(Refs(h)), Len(values) = Len(keys),
           NEW n \in Nat, NEW rest \in [1..n -> 1..Len(keys)]
    PROVE  LET h3 == BindArguments(c, h, defaults, args, keys, values, rest)
           IN  \E one, two : FillsLocals(c, h, h3, defaults, args, keys, values, n, rest, one, two)
<1> DEFINE extra == SubSeq(args, c.argcount + 1, Len(args))
           positional == SubSeq(args, 1, c.argcount)
           h1 == IF c.varargs THEN NewTuple(h, extra) ELSE h
           star == IF c.varargs
                   THEN Insert(defaults, c.varnames[StarArgs(c)], Newest(h1))
                   ELSE defaults
           named == Over(Only(MapOf(Texts(h, keys), values), Keywords(c)), star)
           ks == [i \in 1..Len(rest) |-> keys[rest[i]]]
           vs == [i \in 1..Len(rest) |-> values[rest[i]]]
           h2 == IF c.varkwargs THEN NewDict(h1, ks, vs) ELSE h1
           all == IF c.varkwargs
                  THEN Insert(named, c.varnames[StarKwargs(c)], Newest(h2))
                  ELSE named
           locals == Over(MapOf(c.varnames, positional), all)
           h3 == NewSpace(h2, locals)
<1>1. Len(args) \in Nat
  BY LenProperties
<1>2. extra \in Seq(Refs(h))
  <2>1. c.argcount + 1 \in Nat \ {0} /\ Len(args) \in Int /\ Len(args) <= Len(args)
    BY <1>1
  <2> QED BY <2>1, SliceProperties
<1>3. HeapOK(h1) /\ Extended(h, h1) /\ Newest(h1) \in Refs(h1)
      /\ (c.varargs => h1.objs[Newest(h1)].content = TupleOf(extra))
  <2> HIDE DEF extra
  <2>1. Newest(h) \in Refs(h)
    BY PrimitiveRefs, HeapLen, PrimitivesCount DEF Newest, Refs, HeapOK
  <2>2. TupleOf(extra) = TupleOf(extra) /\ ContentOK(h, TupleOf(extra)) /\ tuple_type \in Refs(h)
    BY <1>2, PrimitiveRefs DEF ContentOK, TupleOf, Content, Kinds, tuple_type
  <2>3. /\ Made(h, NewTuple(h, extra))
        /\ NewTuple(h, extra).objs[Newest(NewTuple(h, extra))].content = TupleOf(extra)
    BY <2>2, NewInstanceOK DEF NewTuple
  <2> QED BY <2>1, <2>3, ExtendedSelf DEF Made, Extended
<1> HIDE DEF extra, h1
<1>4. Refs(h) \subseteq Refs(h1)
  BY <1>3, ExtendedSets
<1>5. /\ ks \in Seq(Refs(h)) /\ Len(ks) = n /\ ks = [i \in 1..n |-> keys[rest[i]]]
      /\ vs \in Seq(Refs(h)) /\ Len(vs) = n /\ vs = [i \in 1..n |-> values[rest[i]]]
  BY ChosenSeq, FunctionIsSeq
<1> HIDE DEF ks, vs
<1>6. HeapOK(h2) /\ Extended(h1, h2) /\ Newest(h2) \in Refs(h2)
      /\ (c.varkwargs => h2.objs[Newest(h2)].content = DictOf(ks, vs))
  <2>1. ks \in Seq(Refs(h1)) /\ vs \in Seq(Refs(h1))
    BY <1>4, <1>5, SeqMonotonic
  <2>2. ks \o vs \in Seq(Refs(h1)) /\ Len(ks \o vs) = n + n
    BY <1>5, <2>1, ConcatProperties
  <2>3. (n + n) % 2 = 0
    BY SMT
  <2>4. ContentOK(h1, DictOf(ks, vs)) /\ dict_type \in Refs(h1)
    <3> DEFINE s == ks \o vs
    <3>1. s \in Seq(Refs(h1)) /\ Len(s) % 2 = 0
      BY <2>2, <2>3
    <3> HIDE DEF s
    <3>2. ContentOK(h1, Content("Dict", s, 0, ""))
      BY <3>1 DEF ContentOK, Content, Kinds
    <3>3. ContentOK(h1, DictOf(ks, vs))
      BY <3>2 DEF DictOf, s
    <3> QED BY <1>3, <3>3, PrimitiveRefs DEF dict_type
  <2>5. /\ Made(h1, NewDict(h1, ks, vs))
        /\ NewDict(h1, ks, vs).objs[Newest(NewDict(h1, ks, vs))].content = DictOf(ks, vs)
    BY <1>3, <2>4, NewInstanceOK DEF NewDict
  <2> QED BY <1>3, <2>5, ExtendedSelf DEF Made, Extended
<1> HIDE DEF h2
<1>7. BindArguments(c, h, defaults, args, keys, values, rest) = h3
  BY DEF BindArguments, h3, locals, all, h2, named, star, h1, ks, vs, extra, positional
<1>8. h3.objs = h2.objs /\ h3.spaces = Append(h2.spaces, locals)
  BY <1>6 DEF NewSpace, HeapOK
<1>9. h3.spaces[Len(h3.spaces)] = locals
  <2>1. IsSequence(h2.spaces)
    BY <1>6 DEF HeapOK
  <2> HIDE DEF locals, h3
  <2> QED BY <1>8, <2>1, AppendSequence
<1>10. Newest(h1) \in Refs(h3) /\ Newest(h2) \in Refs(h3)
       /\ (c.varargs => h3.objs[Newest(h1)].content = TupleOf(extra))
       /\ (c.varkwargs => h3.objs[Newest(h2)].content = DictOf(ks, vs))
  <2> HIDE DEF h3
  <2>1. Refs(h1) \subseteq Refs(h2) /\ h2.objs[Newest(h1)] = h1.objs[Newest(h1)]
    BY <1>3, <1>6, ExtendedSets DEF Extended, Grows, Keeps
  <2> QED BY <1>3, <1>6, <1>8, <2>1 DEF Refs
<1> HIDE DEF h3
<1>11. h3.spaces[Len(h3.spaces)]
            = LocalsOf(c, MapOf(c.varnames, positional), MapOf(Texts(h, keys), values),
                       defaults, Newest(h1), Newest(h2))
  BY <1>9 DEF locals, all, named, star, LocalsOf
<1>12. FillsLocals(c, h, h3, defaults, args, keys, values, n, rest, Newest(h1), Newest(h2))
  BY <1>5, <1>10, <1>11 DEF FillsLocals, Taken, extra, positional
<1> QED BY <1>7, <1>12

\* A signature whose parameters have different names.
Distinct(c, last) ==
    /\ c.argcount \in Nat /\ c.kwonlyargcount \in Nat /\ Len(c.varnames) \in Nat
    /\ last \in Nat /\ last <= Len(c.varnames)
    /\ last = c.argcount + c.kwonlyargcount + (IF c.varargs THEN 1 ELSE 0)
                                            + (IF c.varkwargs THEN 1 ELSE 0)
    /\ \A i, j \in 1..last : c.varnames[i] = c.varnames[j] => i = j

\* The map of the locals, from its four sources: which parameters it has, and
\* from which source each of them is.
LEMMA LocalsFilled ==
    ASSUME NEW c, NEW last, Distinct(c, last), c.varargs \in BOOLEAN, c.varkwargs \in BOOLEAN,
           c.varkwargs => c.varargs,
           NEW first, DOMAIN first = FirstOf(c.varnames, c.argcount),
           NEW given, NEW defaults, DOMAIN defaults \subseteq Keywords(c),
           \A x \in Keywords(c) : x \in DOMAIN defaults \/ x \in DOMAIN given,
           NEW one, NEW two, NEW locals, locals = LocalsOf(c, first, given, defaults, one, two)
    PROVE  /\ DOMAIN locals = FirstOf(c.varnames, last)
           /\ \A x \in DOMAIN first : locals[x] = first[x]
           /\ \A x \in Keywords(c) :
                locals[x] = IF x \in DOMAIN given THEN given[x] ELSE defaults[x]
           /\ c.varargs => locals[c.varnames[StarArgs(c)]] = one
           /\ c.varkwargs => locals[c.varnames[StarKwargs(c)]] = two
<1> DEFINE P == 1..c.argcount
           K == (c.argcount + 1)..(c.argcount + c.kwonlyargcount)
           s == StarArgs(c)
           t == StarKwargs(c)
           name(i) == c.varnames[i]
           star == IF c.varargs THEN Insert(defaults, name(s), one) ELSE defaults
           named == Over(Only(given, Keywords(c)), star)
<1>1. /\ P \subseteq 1..last /\ K \subseteq 1..last
      /\ \A i \in P, j \in K : i # j
      /\ s \notin P /\ s \notin K /\ t \notin P /\ t \notin K /\ s # t
      /\ (c.varargs => s \in 1..last) /\ (c.varkwargs => t \in 1..last)
  BY DEF Distinct, StarArgs, StarKwargs
<1>2. \A i \in 1..last : i \in P \/ i \in K \/ (c.varargs /\ i = s) \/ (c.varkwargs /\ i = t)
  BY DEF Distinct, StarArgs, StarKwargs
<1>3. Keywords(c) = {name(i) : i \in K}
  BY DEF Keywords
<1>4. \A i, j \in 1..last : name(i) = name(j) => i = j
  BY DEF Distinct
<1> HIDE DEF P, K, s, t
<1>5. \A i \in P, x \in Keywords(c) : name(i) # x
  BY <1>1, <1>3, <1>4
<1>6. c.varargs => /\ \A i \in P : name(i) # name(s)
                   /\ \A x \in Keywords(c) : x # name(s)
  BY <1>1, <1>3, <1>4
<1>7. c.varkwargs => /\ \A i \in P : name(i) # name(t)
                     /\ \A x \in Keywords(c) : x # name(t)
                     /\ name(s) # name(t)
  BY <1>1, <1>3, <1>4
<1>8. DOMAIN first = {name(i) : i \in P}
  BY DEF P, FirstOf
<1> DEFINE all == IF c.varkwargs THEN Insert(named, name(t), two) ELSE named
<1>9. /\ DOMAIN star = DOMAIN defaults \cup (IF c.varargs THEN {name(s)} ELSE {})
      /\ c.varargs => star[name(s)] = one
      /\ \A x \in DOMAIN defaults : x # name(s) \/ ~c.varargs => star[x] = defaults[x]
  BY DEF Insert
<1>10. /\ DOMAIN named = (DOMAIN given \cap Keywords(c)) \cup DOMAIN star
       /\ \A x \in DOMAIN given \cap Keywords(c) : named[x] = given[x]
       /\ \A x \in DOMAIN star : x \notin DOMAIN given \cap Keywords(c) => named[x] = star[x]
  BY DEF Over, Only
<1>11. /\ DOMAIN all = DOMAIN named \cup (IF c.varkwargs THEN {name(t)} ELSE {})
       /\ c.varkwargs => all[name(t)] = two
       /\ \A x \in DOMAIN named : x # name(t) \/ ~c.varkwargs => all[x] = named[x]
  BY DEF Insert
<1>12. locals = Over(first, all)
  BY DEF LocalsOf, s, t
<1> HIDE DEF star, named
<1> HIDE DEF all
<1>13. /\ DOMAIN locals = DOMAIN first \cup DOMAIN all
       /\ \A x \in DOMAIN first : locals[x] = first[x]
       /\ \A x \in DOMAIN all : x \notin DOMAIN first => locals[x] = all[x]
  BY <1>12 DEF Over
<1> HIDE DEF name
<1>14. DOMAIN named = Keywords(c) \cup (IF c.varargs THEN {name(s)} ELSE {})
  BY <1>9, <1>10
<1>15. DOMAIN locals = {name(i) : i \in P} \cup Keywords(c)
            \cup (IF c.varargs THEN {name(s)} ELSE {}) \cup (IF c.varkwargs THEN {name(t)} ELSE {})
  BY <1>8, <1>11, <1>13, <1>14
<1>16. {name(i) : i \in 1..last} = {name(i) : i \in P} \cup {name(i) : i \in K}
            \cup (IF c.varargs THEN {name(s)} ELSE {}) \cup (IF c.varkwargs THEN {name(t)} ELSE {})
  BY <1>1, <1>2
<1>17. ASSUME NEW x \in Keywords(c)
       PROVE  locals[x] = IF x \in DOMAIN given THEN given[x] ELSE defaults[x]
  <2>1. x \in DOMAIN named /\ x \notin DOMAIN first
    BY <1>5, <1>8, <1>14
  <2>2. locals[x] = named[x]
    BY <1>7, <1>11, <1>13, <2>1
  <2>3. x \notin DOMAIN given => x \in DOMAIN defaults /\ star[x] = defaults[x]
    BY <1>6, <1>9
  <2> QED BY <1>9, <1>10, <2>2, <2>3
<1>18. c.varargs => locals[name(s)] = one
  <2> SUFFICES ASSUME c.varargs PROVE locals[name(s)] = one
    OBVIOUS
  <2>1. name(s) \in DOMAIN star /\ star[name(s)] = one /\ name(s) \notin Keywords(c)
    BY <1>6, <1>9
  <2>2. name(s) \in DOMAIN named /\ named[name(s)] = one
    BY <1>10, <2>1
  <2>3. name(s) \in DOMAIN all /\ all[name(s)] = one
    BY <1>7, <1>11, <2>2
  <2>4. name(s) \notin DOMAIN first
    BY <1>6, <1>8
  <2> QED BY <1>13, <2>3, <2>4
<1>19. c.varkwargs => locals[name(t)] = two
  BY <1>7, <1>8, <1>11, <1>13
<1>20. DOMAIN locals = {name(i) : i \in 1..last}
  BY <1>3, <1>15, <1>16
<1> QED BY <1>13, <1>17, <1>18, <1>19, <1>20 DEF name, s, t, FirstOf

=============================================================================
