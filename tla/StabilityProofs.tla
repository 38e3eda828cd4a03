--------------------------- MODULE StabilityProofs ---------------------------
(***************************************************************************)
(* What a step leaves alone, for every program and every bound: objects    *)
(* stay what they are, frames below the running one are frozen, the locals *)
(* of a call are its own, classes are made after their bases, and an       *)
(* iterator stays within its container.                                    *)
(***************************************************************************)
EXTENDS InterpreterProofs, GraphProofs

-----------------------------------------------------------------------------
(***************************************************************************)
(* Stores.  An object is sound in h when its bases are older than it, its  *)
(* maps exist, and, if it is an iterator, it is within its container.      *)
(***************************************************************************)
WithinContainer(h, it) ==
    it.kind = "RandomAccessIterator" =>
        LET container == h.objs[it.refs[1]]
        IN  /\ it.refs[1] \in Refs(h) /\ it.stamp = container.version
            /\ container.content.kind \in {"List", "Tuple"} =>
                    /\ it.num \in Nat /\ Len(container.content.refs) \in Nat
                    /\ it.num <= Len(container.content.refs)

Sound(h, r) ==
    LET o == h.objs[r]
    IN  /\ \A b \in Bases(h, r) : b < r
        /\ o.attrs \in Spaces(h) \cup {NoRef}
        /\ o.content.kind = "Function" => o.content.num \in Spaces(h)
        /\ WithinContainer(h, o.content)

Store(h) ==
    /\ h = [objs |-> h.objs, spaces |-> h.spaces]
    /\ IsSequence(h.objs) /\ IsSequence(h.spaces)
    /\ \A r \in Refs(h) : Sound(h, r)

\* An object made since the store was `heap` has maps that were made since.
Fresh(o) == o.attrs > Len(heap.spaces) /\ (o.content.kind = "Function" => o.content.num > Len(heap.spaces))

Longer(h) == Len(heap.objs) <= Len(h.objs) /\ Len(heap.spaces) <= Len(h.spaces)
NewOnesFresh(h) == \A r \in Refs(h) \ Refs(heap) : Fresh(h.objs[r])

\* h is `heap` with objects and maps added.
Reached(h) ==
    /\ Store(h) /\ Longer(h) /\ NewOnesFresh(h)
    /\ \A r \in Refs(heap) : h.objs[r] = heap.objs[r]

\* As above, but that an iterator may have advanced by one.
SameOrAdvanced(o, o2) ==
    \/ o2 = o
    \/ o.content.kind = "RandomAccessIterator" /\ o2 = [o EXCEPT !.content.num = @ + 1]
Stepped(h) ==
    /\ Store(h) /\ Longer(h) /\ NewOnesFresh(h)
    /\ \A r \in Refs(heap) : SameOrAdvanced(heap.objs[r], h.objs[r])

LEMMA StoreLen ==
    ASSUME NEW h, Store(h)
    PROVE  Len(h.objs) \in Nat /\ Len(h.spaces) \in Nat
BY SequenceLen DEF Store

LEMMA ReachedStepped == ASSUME NEW h, Reached(h) PROVE Stepped(h)
BY DEF Reached, Stepped, SameOrAdvanced

LEMMA ReachedSelf == ASSUME Store(heap) PROVE Reached(heap)
BY StoreLen DEF Reached, Longer, NewOnesFresh

LEMMA NewSpaceReached ==
    ASSUME Store(heap), NEW h, Reached(h), NEW map
    PROVE  LET h2 == NewSpace(h, map)
           IN  /\ Reached(h2) /\ h2.objs = h.objs
               /\ Len(h2.spaces) = Len(h.spaces) + 1
               /\ Len(h2.spaces) \in Spaces(h2) /\ Len(h2.spaces) > Len(heap.spaces)
<1> DEFINE h2 == NewSpace(h, map)
<1>1. h = [objs |-> h.objs, spaces |-> h.spaces] /\ IsSequence(h.spaces) /\ IsSequence(h.objs)
  BY DEF Reached, Store
<1>2. h2 = [objs |-> h.objs, spaces |-> Append(h.spaces, map)]
  <2>1. h2 = [h EXCEPT !.spaces = Append(h.spaces, map)]
    BY DEF NewSpace
  <2> QED BY <1>1, <2>1, Zenon
<1>3. h2.objs = h.objs /\ h2.spaces = Append(h.spaces, map)
  BY <1>2
<1>4. IsSequence(h2.spaces) /\ Len(h2.spaces) = Len(h.spaces) + 1
  BY <1>1, <1>3, AppendSequence
<1>5. Len(h.spaces) \in Nat /\ Len(heap.spaces) \in Nat /\ Len(heap.spaces) <= Len(h.spaces)
  BY StoreLen DEF Reached, Longer
<1>6. h2 = [objs |-> h2.objs, spaces |-> h2.spaces]
  BY <1>2, <1>3
<1> HIDE DEF h2
<1>7. Refs(h2) = Refs(h) /\ Spaces(h) \subseteq Spaces(h2) /\ Len(h2.spaces) \in Spaces(h2)
  BY <1>3, <1>4, <1>5 DEF Refs, Spaces
<1>8. ASSUME NEW r \in Refs(h2) PROVE Sound(h2, r)
  <2>1. Sound(h, r)
    BY <1>7 DEF Reached, Store
  <2>2. \A c : WithinContainer(h, c) => WithinContainer(h2, c)
    BY <1>3, <1>7 DEF WithinContainer
  <2> QED BY <1>3, <1>7, <2>1, <2>2 DEF Sound, Bases
<1>9. Store(h2)
  BY <1>1, <1>3, <1>4, <1>6, <1>8 DEF Store
<1>10. Longer(h2) /\ NewOnesFresh(h2)
  BY <1>3, <1>4, <1>5, <1>7 DEF Reached, Longer, NewOnesFresh
<1>11. Reached(h2)
  BY <1>3, <1>9, <1>10 DEF Reached
<1> QED BY <1>3, <1>4, <1>5, <1>7, <1>11 DEF h2

LEMMA AllocateReached ==
    ASSUME Store(heap), NEW h, Reached(h), NEW name, NEW class, NEW bases,
           \A i \in DOMAIN bases : bases[i] < Len(h.objs) + 1,
           NEW attrs \in Spaces(h), attrs > Len(heap.spaces), NEW content,
           content.kind = "Function"
                => content.num \in Spaces(h) /\ content.num > Len(heap.spaces),
           WithinContainer(h, content)
    PROVE  LET h2 == Allocate(h, name, class, bases, attrs, content)
           IN  /\ Reached(h2) /\ Newest(h2) \in Refs(h2)
               /\ KindOf(h2, Newest(h2)) = content.kind
<1> DEFINE h2 == Allocate(h, name, class, bases, attrs, content)
           n == Len(h.objs) + 1
           o == [version |-> n, name |-> name, class |-> class,
                 bases |-> bases, attrs |-> attrs, content |-> content]
<1>1. h = [objs |-> h.objs, spaces |-> h.spaces] /\ IsSequence(h.spaces) /\ IsSequence(h.objs)
  BY DEF Reached, Store
<1>2. h2 = [objs |-> Append(h.objs, o), spaces |-> h.spaces]
  BY <1>1 DEF Allocate
<1>3. h2.objs = Append(h.objs, o) /\ h2.spaces = h.spaces
  BY <1>2
<1>4. h2 = [objs |-> h2.objs, spaces |-> h2.spaces]
  BY <1>2, <1>3
<1>5. o.bases = bases /\ o.attrs = attrs /\ o.content = content
  OBVIOUS
<1> HIDE DEF o, h2
<1>6. /\ IsSequence(h2.objs) /\ Len(h2.objs) = n /\ h2.objs[n] = o
      /\ \A i \in 1..Len(h.objs) : h2.objs[i] = h.objs[i]
  BY <1>1, <1>3, AppendSequence DEF n
<1>7. /\ Len(h.objs) \in Nat /\ Len(h.spaces) \in Nat /\ Len(heap.objs) \in Nat
      /\ Len(heap.objs) <= Len(h.objs) /\ Len(heap.spaces) <= Len(h.spaces)
  BY StoreLen DEF Reached, Longer
<1>8. /\ Refs(h2) = Refs(h) \cup {n} /\ Spaces(h2) = Spaces(h) /\ n \in Refs(h2)
      /\ \A r \in Refs(h) : h2.objs[r] = h.objs[r]
      /\ Refs(heap) \subseteq Refs(h)
  BY <1>3, <1>6, <1>7 DEF Refs, Spaces
<1>9. ASSUME NEW c, WithinContainer(h, c) PROVE WithinContainer(h2, c)
  BY <1>8, <1>9 DEF WithinContainer
<1>10. ASSUME NEW r \in Refs(h2) PROVE Sound(h2, r)
  <2>1. CASE r \in Refs(h)
    <3>1. Sound(h, r) /\ h2.objs[r] = h.objs[r]
      BY <1>8, <2>1 DEF Reached, Store
    <3> QED BY <1>8, <1>9, <3>1 DEF Sound, Bases
  <2>2. CASE r = n
    <3>1. \A b \in Bases(h2, r) : b < r
      BY <1>5, <1>6, <2>2 DEF Bases, n
    <3>2. WithinContainer(h2, o.content)
      BY <1>5, <1>9
    <3> QED BY <1>5, <1>6, <1>8, <2>2, <3>1, <3>2 DEF Sound
  <2> QED BY <1>8, <2>1, <2>2
<1>11. Store(h2)
  BY <1>1, <1>3, <1>4, <1>6, <1>10 DEF Store
<1>12. Longer(h2)
  BY <1>3, <1>6, <1>7 DEF Longer, n
<1>13. Fresh(o)
  BY <1>5 DEF Fresh
<1>14. NewOnesFresh(h2)
  BY <1>6, <1>8, <1>13 DEF NewOnesFresh, Reached
<1>15. Reached(h2)
  BY <1>8, <1>11, <1>12, <1>14 DEF Reached
<1> QED BY <1>5, <1>6, <1>8, <1>15 DEF h2, Newest, KindOf

LEMMA NewInstanceReached ==
    ASSUME Store(heap), NEW h, Reached(h), NEW name, NEW class, NEW content,
           content.kind = "Function"
                => content.num \in Spaces(h) /\ content.num > Len(heap.spaces),
           WithinContainer(h, content)
    PROVE  LET h2 == NewInstance(h, name, class, content)
           IN  Reached(h2) /\ KindOf(h2, Newest(h2)) = content.kind
<1> DEFINE h1 == NewSpace(h, EmptyMap)
           none0 == <<>>
<1>1. /\ Reached(h1) /\ h1.objs = h.objs /\ Len(h1.spaces) = Len(h.spaces) + 1
      /\ Len(h1.spaces) \in Spaces(h1) /\ Len(h1.spaces) > Len(heap.spaces)
  BY NewSpaceReached
<1>2. NewInstance(h, name, class, content)
        = Allocate(h1, name, class, none0, Len(h1.spaces), content)
  BY DEF NewInstance
<1>3. Spaces(h) \subseteq Spaces(h1)
  BY <1>1, StoreLen DEF Reached, Spaces
<1>4. WithinContainer(h1, content)
  BY <1>1 DEF WithinContainer, Refs
<1>5. \A i \in DOMAIN none0 : none0[i] < Len(h1.objs) + 1
  OBVIOUS
<1> HIDE DEF h1, none0
<1> QED BY <1>1, <1>2, <1>3, <1>4, <1>5, AllocateReached

\* Most objects are neither functions nor iterators.
LEMMA SimpleReached ==
    ASSUME Store(heap), NEW h, Reached(h), NEW name, NEW class, NEW content,
           content.kind \notin {"Function", "RandomAccessIterator"}
    PROVE  LET h2 == NewInstance(h, name, class, content)
           IN  Reached(h2) /\ KindOf(h2, Newest(h2)) = content.kind
BY NewInstanceReached DEF WithinContainer

LEMMA MakersReached ==
    ASSUME Store(heap), NEW h, Reached(h)
    PROVE  /\ \A s : Reached(NewString(h, s))
           /\ \A v : Reached(NewTuple(h, v))
           /\ \A ks, vs : Reached(NewDict(h, ks, vs))
           /\ \A n, c : LET h2 == NewModule(h, n, c)
                      IN  Reached(h2) /\ KindOf(h2, Newest(h2)) = "Module"
           /\ \A n, f : Reached(NewPrimitive(h, n, f))
<1>1. \A s : StringOf(s).kind = "String"
  BY DEF StringOf, Content
<1>2. \A v : TupleOf(v).kind = "Tuple"
  BY DEF TupleOf, Content
<1>3. \A ks, vs : DictOf(ks, vs).kind = "Dict"
  BY DEF DictOf, Content
<1>4. \A c : ModuleOf(c).kind = "Module"
  BY DEF ModuleOf, Content
<1>5. \A f : PrimitiveFunctionOf(f).kind = "PrimitiveFunction"
  BY DEF PrimitiveFunctionOf, Content
<1> QED BY <1>1, <1>2, <1>3, <1>4, <1>5, SimpleReached
        DEF NewString, NewTuple, NewDict, NewModule, NewPrimitive

LEMMA NewFunctionReached ==
    ASSUME Store(heap), NEW h, Reached(h), NEW name, NEW module, NEW code, NEW defaults
    PROVE  Reached(NewFunction(h, name, module, code, defaults))
<1> DEFINE h1 == NewSpace(h, defaults)
           content == FunctionOf(module, code, Len(h1.spaces))
<1>1. /\ Reached(h1)
      /\ Len(h1.spaces) \in Spaces(h1) /\ Len(h1.spaces) > Len(heap.spaces)
  BY NewSpaceReached
<1>2. content.kind = "Function" /\ content.num = Len(h1.spaces)
  BY DEF FunctionOf, Content
<1>3. NewFunction(h, name, module, code, defaults)
        = NewInstance(h1, name, function_type, content)
  BY DEF NewFunction
<1> HIDE DEF h1, content
<1>4. WithinContainer(h1, content)
  BY <1>2 DEF WithinContainer
<1> QED BY <1>1, <1>2, <1>3, <1>4, NewInstanceReached

LEMMA IterReached ==
    ASSUME Store(heap), HeapOK(heap), NEW ref \in Refs(heap)
    PROVE  Reached(Iter(heap, ref))
<1> DEFINE content == IteratorOn(ref, 0, heap.objs[ref].version)
<1>1. /\ content.kind = "RandomAccessIterator" /\ content.refs[1] = ref /\ content.num = 0
      /\ content.stamp = heap.objs[ref].version
  BY DEF IteratorOn
<1>2. Len(heap.objs[ref].content.refs) \in Nat
  BY LenProperties DEF HeapOK, ObjectOK, ContentOK
<1>3. Iter(heap, ref) = NewInstance(heap, NoName, iterator_type, content)
  BY DEF Iter
<1> HIDE DEF content
<1>4. WithinContainer(heap, content)
  BY <1>1, <1>2 DEF WithinContainer
<1> QED BY <1>1, <1>3, <1>4, ReachedSelf, NewInstanceReached

LEMMA InstantiateReached ==
    ASSUME Store(heap), NEW h, Reached(h), NEW cls
    PROVE  Reached(Instantiate(h, cls))
<1> DEFINE own == IF h.objs[cls].attrs = NoRef THEN EmptyMap ELSE h.spaces[h.objs[cls].attrs]
           h1 == NewSpace(h, own)
           none0 == <<>>
           content == Plain("OtherObject")
<1>1. /\ Reached(h1) /\ Len(h1.spaces) \in Spaces(h1) /\ Len(h1.spaces) > Len(heap.spaces)
  BY NewSpaceReached
<1>2. Instantiate(h, cls) = Allocate(h1, NoName, cls, none0, Len(h1.spaces), content)
  BY DEF Instantiate
<1>3. content.kind = "OtherObject"
  BY DEF Plain, Content
<1>4. \A i \in DOMAIN none0 : none0[i] < Len(h1.objs) + 1
  OBVIOUS
<1> HIDE DEF h1, none0, content
<1>5. WithinContainer(h1, content)
  BY <1>3 DEF WithinContainer
<1> QED BY <1>1, <1>2, <1>3, <1>4, <1>5, AllocateReached

\* A class is made after its bases.
LEMMA NewClassReached ==
    ASSUME Store(heap), NEW h, Reached(h), NEW name, NEW bases \in Seq(Refs(h))
    PROVE  LET h1 == NewSpace(h, EmptyMap)
               h2 == NewClass(h1, name, Len(h1.spaces), bases)
           IN  /\ Reached(h2) /\ KindOf(h2, Newest(h2)) = "Class"
               /\ Len(h1.spaces) > Len(heap.spaces)
<1> DEFINE h1 == NewSpace(h, EmptyMap)
           content == Plain("Class")
<1>1. /\ Reached(h1) /\ h1.objs = h.objs
      /\ Len(h1.spaces) \in Spaces(h1) /\ Len(h1.spaces) > Len(heap.spaces)
  BY NewSpaceReached
<1>2. NewClass(h1, name, Len(h1.spaces), bases)
        = Allocate(h1, name, type_, bases, Len(h1.spaces), content)
  BY DEF NewClass
<1>3. content.kind = "Class"
  BY DEF Plain, Content
<1> HIDE DEF content
<1>4. ASSUME NEW i \in DOMAIN bases PROVE bases[i] < Len(h1.objs) + 1
  <2>1. bases[i] \in Refs(h)
    BY LenProperties, ElementOfSeq
  <2> QED BY <1>1, <2>1, StoreLen DEF Refs, Reached
<1>5. WithinContainer(h1, content)
  BY <1>3 DEF WithinContainer
<1> QED BY <1>1, <1>2, <1>3, <1>4, <1>5, AllocateReached

LEMMA BindReached ==
    ASSUME Store(heap), NEW space, NEW name, NEW ref
    PROVE  Reached(Bind(heap, space, name, ref))
<1> DEFINE h2 == Bind(heap, space, name, ref)
           map == Insert(heap.spaces[space], name, ref)
           spaces == [heap.spaces EXCEPT ![space] = map]
<1>1. heap = [objs |-> heap.objs, spaces |-> heap.spaces]
      /\ IsSequence(heap.spaces) /\ IsSequence(heap.objs)
  BY DEF Store
<1>2. h2 = [heap EXCEPT !.spaces = spaces]
  BY DEF Bind
<1> HIDE DEF h2, spaces
<1>3. h2 = [objs |-> heap.objs, spaces |-> spaces]
  BY <1>1, <1>2, Zenon
<1>4. IsSequence(spaces) /\ Len(spaces) = Len(heap.spaces)
  <2>1. CASE space \in 1..Len(heap.spaces)
    BY <1>1, <2>1, ExceptSequence DEF spaces
  <2>2. CASE space \notin 1..Len(heap.spaces)
    <3>1. DOMAIN heap.spaces = 1..Len(heap.spaces)
          /\ heap.spaces \in [1..Len(heap.spaces) -> {heap.spaces[i] : i \in 1..Len(heap.spaces)}]
      BY <1>1, SequenceLen
    <3>2. spaces = heap.spaces
      BY <2>2, <3>1 DEF spaces
    <3> QED BY <1>1, <3>2
  <2> QED BY <2>1, <2>2
<1>5. h2.objs = heap.objs /\ h2.spaces = spaces
  BY <1>3
<1>6. Refs(h2) = Refs(heap) /\ Spaces(h2) = Spaces(heap)
  BY <1>4, <1>5 DEF Refs, Spaces
<1>7. ASSUME NEW r \in Refs(h2) PROVE Sound(h2, r)
  <2>1. Sound(heap, r)
    BY <1>6 DEF Store
  <2>2. \A c : WithinContainer(heap, c) => WithinContainer(h2, c)
    BY <1>5, <1>6 DEF WithinContainer
  <2> QED BY <1>5, <1>6, <2>1, <2>2 DEF Sound, Bases
<1>8. h2 = [objs |-> h2.objs, spaces |-> h2.spaces]
  BY <1>3, <1>5
<1>9. Store(h2)
  BY <1>1, <1>4, <1>5, <1>7, <1>8 DEF Store
<1>10. Longer(h2) /\ NewOnesFresh(h2)
  BY <1>4, <1>5, <1>6, StoreLen DEF Longer, NewOnesFresh
<1> QED BY <1>5, <1>9, <1>10 DEF Reached, h2

\* The step of an iterator that has a value left.
LEMMA AdvanceStepped ==
    ASSUME Store(heap), NEW h, Reached(h), HeapOK(h), NEW ref \in Refs(h),
           KindOf(h, ref) = "RandomAccessIterator",
           LET it        == h.objs[ref].content
               container == h.objs[it.refs[1]]
           IN  /\ container.content.kind \in {"List", "Tuple"}
               /\ it.num < Len(container.content.refs)
    PROVE  Stepped(SetContent(h, ref, [h.objs[ref].content EXCEPT !.num = @ + 1]))
<1> DEFINE o    == h.objs[ref]
           it   == o.content
           ci   == it.refs[1]
           next == [it EXCEPT !.num = it.num + 1]
           h2   == SetContent(h, ref, next)
           o2   == [o EXCEPT !.content = next]
<1>1. ObjectOK(h, o) /\ ContentOK(h, it) /\ it.kind = "RandomAccessIterator"
  BY DEF HeapOK, ObjectOK, KindOf
<1>2. it = [kind |-> it.kind, refs |-> it.refs, num |-> it.num, str |-> it.str,
            stamp |-> it.stamp] /\ it.num \in Nat
  BY <1>1 DEF ContentOK
<1>3. o = [version |-> o.version, name |-> o.name, class |-> o.class,
           bases |-> o.bases, attrs |-> o.attrs, content |-> it]
  BY <1>1 DEF ObjectOK
<1>4. Sound(h, ref) /\ \A r \in Refs(h) : Sound(h, r)
  BY DEF Reached, Store
<1>5. /\ ci \in Refs(h) /\ it.stamp = h.objs[ci].version
      /\ h.objs[ci].content.kind \in {"List", "Tuple"}
      /\ Len(h.objs[ci].content.refs) \in Nat
      /\ it.num < Len(h.objs[ci].content.refs)
  BY <1>1, <1>4 DEF Sound, WithinContainer
<1> HIDE DEF it
<1>6. next = [kind |-> it.kind, refs |-> it.refs, num |-> it.num + 1, str |-> it.str,
              stamp |-> it.stamp]
  BY <1>2
<1>7. /\ next.kind = it.kind /\ next.refs = it.refs /\ next.num = it.num + 1
      /\ next.stamp = it.stamp
  BY <1>6
<1>8. ContentOK(h, next)
  <2>1. it.num + 1 \in Nat
    BY <1>2
  <2> HIDE DEF next
  <2> QED BY <1>1, <1>6, <2>1 DEF ContentOK, Kinds
<1> HIDE DEF o, next
<1>9. o2 = [version |-> o.version, name |-> o.name, class |-> o.class,
            bases |-> o.bases, attrs |-> o.attrs, content |-> next]
  BY <1>3
<1>10. /\ o2.version = o.version /\ o2.bases = o.bases /\ o2.attrs = o.attrs
       /\ o2.content = next
  BY <1>9
<1> HIDE DEF o2
<1>11. /\ HeapOK(h2) /\ Refs(h2) = Refs(h) /\ Spaces(h2) = Spaces(h)
       /\ \A r \in Refs(h) : r # ref => h2.objs[r] = h.objs[r]
       /\ h2.objs[ref] = o2
  BY <1>8, SetContentOK DEF o, o2
<1> HIDE DEF h2
<1>12. \A r \in Refs(h) : /\ h2.objs[r].version = h.objs[r].version
                          /\ h2.objs[r].bases = h.objs[r].bases
                          /\ h2.objs[r].attrs = h.objs[r].attrs
                          /\ h2.objs[r].content.kind = h.objs[r].content.kind
  BY <1>7, <1>10, <1>11 DEF o, it
<1>13. \A r \in Refs(h) : h2.objs[r].content.kind \in {"List", "Tuple", "Function"}
            => h2.objs[r] = h.objs[r]
  BY <1>1, <1>11, <1>12 DEF o, it
<1>14. WithinContainer(h2, next)
  <2>1. next.refs[1] = ci /\ next.num \in Nat
    BY <1>2, <1>7
  <2>2. h2.objs[ci] = h.objs[ci]
    BY <1>5, <1>12, <1>13
  <2>3. next.num <= Len(h.objs[ci].content.refs)
    BY <1>2, <1>5, <1>7
  <2> HIDE DEF ci
  <2> QED BY <1>5, <1>7, <1>11, <2>1, <2>2, <2>3 DEF WithinContainer
<1>15. ASSUME NEW r \in Refs(h2) PROVE Sound(h2, r)
  <2>1. Sound(h, r) /\ r \in Refs(h)
    BY <1>4, <1>11
  <2>2. (\A b \in Bases(h2, r) : b < r) /\ h2.objs[r].attrs \in Spaces(h2) \cup {NoRef}
    BY <1>11, <1>12, <2>1 DEF Sound, Bases
  <2>3. h2.objs[r].content.kind = "Function" => h2.objs[r].content.num \in Spaces(h2)
    BY <1>11, <1>13, <2>1 DEF Sound
  <2>4. WithinContainer(h2, h2.objs[r].content)
    <3>1. CASE r = ref
      BY <1>10, <1>11, <1>14, <3>1
    <3>2. CASE r # ref
      <4>1. h2.objs[r] = h.objs[r] /\ WithinContainer(h, h.objs[r].content)
        BY <1>11, <2>1, <3>2 DEF Sound
      <4> DEFINE c == h.objs[r].content
                 k == c.refs[1]
      <4>2. CASE c.kind # "RandomAccessIterator"
        BY <4>1, <4>2 DEF WithinContainer
      <4>3. CASE c.kind = "RandomAccessIterator"
        <5>1. /\ k \in Refs(h) /\ c.stamp = h.objs[k].version
              /\ h.objs[k].content.kind \in {"List", "Tuple"}
                    => /\ c.num \in Nat /\ Len(h.objs[k].content.refs) \in Nat
                       /\ c.num <= Len(h.objs[k].content.refs)
          BY <4>1, <4>3 DEF WithinContainer
        <5>2. c.stamp = h2.objs[k].version /\ k \in Refs(h2)
          BY <1>11, <1>12, <5>1
        <5>3. h2.objs[k].content.kind \in {"List", "Tuple"}
                    => h2.objs[k] = h.objs[k] /\ h.objs[k].content.kind \in {"List", "Tuple"}
          BY <1>12, <1>13, <5>1
        <5> HIDE DEF c, k
        <5>4. k = c.refs[1]
          BY DEF k
        <5>5. WithinContainer(h2, c)
          BY <5>1, <5>2, <5>3, <5>4 DEF WithinContainer
        <5> QED BY <4>1, <5>5 DEF c
      <4> QED BY <4>2, <4>3
    <3> QED BY <3>1, <3>2
  <2> QED BY <2>2, <2>3, <2>4 DEF Sound
<1>16. Store(h2)
  BY <1>11, <1>15 DEF Store, HeapOK
<1>17. Len(h2.objs) = Len(h.objs) /\ Len(h2.spaces) = Len(h.spaces)
  <2>1. /\ Len(h2.objs) \in Nat /\ Len(h.objs) \in Nat
        /\ Len(h2.spaces) \in Nat /\ Len(h.spaces) \in Nat
    BY <1>16, StoreLen DEF Reached
  <2>2. \A m \in Nat, n \in Nat : 1..m = 1..n => m = n
    <3>1. ASSUME NEW m \in Nat, NEW n \in Nat, 1..m = 1..n PROVE m = n
      <4>1. m # 0 => m \in 1..n
        BY <3>1
      <4>2. n # 0 => n \in 1..m
        BY <3>1
      <4> QED BY <4>1, <4>2
    <3> QED BY <3>1
  <2> QED BY <1>11, <2>1, <2>2 DEF Refs, Spaces
<1>18. Longer(h2)
  BY <1>17 DEF Longer, Reached
<1>19. NewOnesFresh(h2)
  <2>1. ASSUME NEW r \in Refs(h2) \ Refs(heap) PROVE Fresh(h2.objs[r])
    <3>1. Fresh(h.objs[r]) /\ r \in Refs(h)
      BY <1>11 DEF Reached, NewOnesFresh
    <3> QED BY <1>12, <1>13, <3>1 DEF Fresh
  <2> QED BY <2>1 DEF NewOnesFresh
<1>20. ASSUME NEW r \in Refs(heap) PROVE SameOrAdvanced(heap.objs[r], h2.objs[r])
  <2>1. h.objs[r] = heap.objs[r] /\ r \in Refs(h)
    <3>1. r \in Refs(h)
      BY StoreLen DEF Reached, Longer, Refs
    <3> QED BY <3>1 DEF Reached
  <2>2. CASE r = ref
    <3>1. h2.objs[r] = [heap.objs[r] EXCEPT !.content.num = @ + 1]
      BY <1>11, <2>1, <2>2 DEF o2, next, o, it
    <3> QED BY <1>1, <2>1, <2>2, <3>1 DEF SameOrAdvanced, o, it
  <2>3. CASE r # ref
    BY <1>11, <2>1, <2>3 DEF SameOrAdvanced
  <2> QED BY <2>2, <2>3
<1> QED BY <1>16, <1>18, <1>19, <1>20 DEF Stepped, h2, next, it, o

\* No object holds the map.
Unused(h, space) ==
    \A r \in Refs(h) : /\ h.objs[r].attrs # space
                       /\ KindOf(h, r) = "Function" => h.objs[r].content.num # space

\* The map that is made last is nobody's.
LEMMA NewSpaceUnused ==
    ASSUME Store(heap), NEW h, Reached(h), NEW map
    PROVE  LET h2 == NewSpace(h, map) IN Unused(h2, Len(h2.spaces))
<1> DEFINE h2 == NewSpace(h, map)
<1>1. /\ h2.objs = h.objs /\ Len(h2.spaces) = Len(h.spaces) + 1
      /\ Len(h.spaces) \in Nat
  BY NewSpaceReached, StoreLen DEF Reached
<1> HIDE DEF h2
<1>2. ASSUME NEW r \in Refs(h2)
      PROVE  /\ h2.objs[r].attrs # Len(h2.spaces)
             /\ KindOf(h2, r) = "Function" => h2.objs[r].content.num # Len(h2.spaces)
  <2>1. Sound(h, r)
    BY <1>1 DEF Reached, Store, Refs
  <2>2. /\ h.objs[r].attrs \in 1..Len(h.spaces) \cup {0}
        /\ h.objs[r].content.kind = "Function" => h.objs[r].content.num \in 1..Len(h.spaces)
    BY <2>1 DEF Sound, Spaces, NoRef
  <2> QED BY <1>1, <2>2 DEF KindOf
<1> QED BY <1>2 DEF Unused, h2

LEMMA BindArgumentsReached ==
    ASSUME Store(heap), NEW h, Reached(h), NEW c, NEW defaults,
           NEW args, NEW keys, NEW values, NEW rest
    PROVE  LET h2 == BindArguments(c, h, defaults, args, keys, values, rest)
           IN  /\ Reached(h2) /\ Len(h2.spaces) > Len(heap.spaces)
               /\ Unused(h2, Len(h2.spaces))
<1> DEFINE h1 == IF c.varargs
                 THEN NewTuple(h, SubSeq(args, c.argcount + 1, Len(args)))
                 ELSE h
           star == IF c.varargs
                   THEN Insert(defaults, c.varnames[StarArgs(c)], Newest(h1))
                   ELSE defaults
           named == Over(Only(MapOf(Texts(h, keys), values), Keywords(c)), star)
           h2 == IF c.varkwargs
                 THEN NewDict(h1, [i \in 1..Len(rest) |-> keys[rest[i]]],
                                  [i \in 1..Len(rest) |-> values[rest[i]]])
                 ELSE h1
           all == IF c.varkwargs
                  THEN Insert(named, c.varnames[StarKwargs(c)], Newest(h2))
                  ELSE named
           map == Over(MapOf(c.varnames, SubSeq(args, 1, c.argcount)), all)
<1>1. Reached(h1)
  BY MakersReached
<1> HIDE DEF h1
<1>2. Reached(h2)
  BY <1>1, MakersReached
<1> HIDE DEF star, named, h2, all, map
<1>3. Reached(NewSpace(h2, map)) /\ Len(NewSpace(h2, map).spaces) > Len(heap.spaces)
  BY <1>2, NewSpaceReached
<1>4. Unused(NewSpace(h2, map), Len(NewSpace(h2, map).spaces))
  BY <1>2, NewSpaceUnused
<1>5. BindArguments(c, h, defaults, args, keys, values, rest) = NewSpace(h2, map)
  BY DEF BindArguments, map, all, h2, named, star, h1
<1> QED BY <1>3, <1>4, <1>5

-----------------------------------------------------------------------------
(***************************************************************************)
(* Call stacks.  A step changes the running frame, or the frame it returns *)
(* or unwinds to, and at most adds one; no frame that stays gets another   *)
(* object or other locals.                                                 *)
(***************************************************************************)
AsFrame(f) ==
    f = [object |-> f.object, code |-> f.code, instructions |-> f.instructions,
         locals |-> f.locals, stack |-> f.stack, blocks |-> f.blocks, pc |-> f.pc]
SameCall(f, g) == AsFrame(g) /\ g.object = f.object /\ g.locals = f.locals

FrameStep(h, fs) ==
    /\ Len(fs) \in Nat /\ Len(fs) <= Len(frames) + 1
    /\ \A i \in 1..Len(fs) :
        /\ i < Len(fs) /\ i < Len(frames) => fs[i] = frames[i]
        /\ i <= Len(frames) => fs[i].object = frames[i].object /\ fs[i].locals = frames[i].locals
        /\ i > Len(frames) =>
                /\ fs[i].locals > Len(heap.spaces)
                /\ KindOf(h, fs[i].object) = "Function" => Unused(h, fs[i].locals)

\* The call stack in the middle of a step: it differs in its last frame.
Near(fs) ==
    /\ IsSequence(fs) /\ Len(fs) = Len(frames) /\ fs # <<>>
    /\ \A i \in 1..Len(fs) : SameCall(frames[i], fs[i])
    /\ \A i \in 1..Len(fs) : i < Len(fs) => fs[i] = frames[i]

LEMMA SameCallOK ==
    ASSUME NEW f, NEW g, SameCall(f, g)
    PROVE  /\ \A n : SameCall(f, Drop(g, n))
           /\ \A ref : SameCall(f, PushOn(g, ref))
           /\ \A b : SameCall(f, PushBlock(g, b))
           /\ SameCall(f, DropBlock(g))
           /\ \A pc : SameCall(f, Jump(g, pc))
           /\ \A s : SameCall(f, [g EXCEPT !.stack = s])
           /\ \A j, traceback, exc, val : SameCall(f, Land(g, j, traceback, exc, val))
<1>1. g = [object |-> g.object, code |-> g.code, instructions |-> g.instructions,
           locals |-> g.locals, stack |-> g.stack, blocks |-> g.blocks, pc |-> g.pc]
  BY DEF SameCall, AsFrame
<1>2. \A stack, blocks, pc :
        LET x == [object |-> g.object, code |-> g.code, instructions |-> g.instructions,
                  locals |-> g.locals, stack |-> stack, blocks |-> blocks, pc |-> pc]
        IN  SameCall(f, x)
  BY DEF SameCall, AsFrame
<1>3. ASSUME NEW stack, NEW blocks, NEW pc
      PROVE  /\ SameCall(f, [g EXCEPT !.stack = stack])
             /\ SameCall(f, [g EXCEPT !.blocks = blocks])
             /\ SameCall(f, [g EXCEPT !.pc = pc])
             /\ SameCall(f, [g EXCEPT !.blocks = blocks, !.pc = pc, !.stack = stack])
  <2>1. [g EXCEPT !.stack = stack]
          = [object |-> g.object, code |-> g.code, instructions |-> g.instructions,
             locals |-> g.locals, stack |-> stack, blocks |-> g.blocks, pc |-> g.pc]
    BY <1>1
  <2>2. [g EXCEPT !.blocks = blocks]
          = [object |-> g.object, code |-> g.code, instructions |-> g.instructions,
             locals |-> g.locals, stack |-> g.stack, blocks |-> blocks, pc |-> g.pc]
    BY <1>1
  <2>3. [g EXCEPT !.pc = pc]
          = [object |-> g.object, code |-> g.code, instructions |-> g.instructions,
             locals |-> g.locals, stack |-> g.stack, blocks |-> g.blocks, pc |-> pc]
    BY <1>1
  <2>4. [g EXCEPT !.blocks = blocks, !.pc = pc, !.stack = stack]
          = [object |-> g.object, code |-> g.code, instructions |-> g.instructions,
             locals |-> g.locals, stack |-> stack, blocks |-> blocks, pc |-> pc]
    <3> DEFINE g1 == [g EXCEPT !.blocks = blocks]
               g2 == [g1 EXCEPT !.pc = pc]
               g3 == [g2 EXCEPT !.stack = stack]
    <3>1. g1 = [object |-> g.object, code |-> g.code, instructions |-> g.instructions,
                locals |-> g.locals, stack |-> g.stack, blocks |-> blocks, pc |-> g.pc]
      BY <2>2
    <3> HIDE DEF g1
    <3>2. g2 = [object |-> g.object, code |-> g.code, instructions |-> g.instructions,
                locals |-> g.locals, stack |-> g.stack, blocks |-> blocks, pc |-> pc]
      BY <3>1
    <3> HIDE DEF g2
    <3>3. g3 = [object |-> g.object, code |-> g.code, instructions |-> g.instructions,
                locals |-> g.locals, stack |-> stack, blocks |-> blocks, pc |-> pc]
      BY <3>2
    <3> QED BY <3>3 DEF g1, g2
  <2> QED BY <1>2, <2>1, <2>2, <2>3, <2>4
<1>4. /\ \A n : SameCall(f, Drop(g, n)) /\ \A ref : SameCall(f, PushOn(g, ref))
      /\ \A b : SameCall(f, PushBlock(g, b)) /\ SameCall(f, DropBlock(g))
      /\ \A pc : SameCall(f, Jump(g, pc)) /\ \A s : SameCall(f, [g EXCEPT !.stack = s])
  BY <1>3 DEF Drop, PushOn, PushBlock, DropBlock, Jump
<1>5. ASSUME NEW j, NEW traceback, NEW exc, NEW val
      PROVE  SameCall(f, Land(g, j, traceback, exc, val))
  BY <1>3 DEF Land
<1> QED BY <1>4, <1>5

LEMMA NearSelf ==
    ASSUME IInv, frames # <<>>
    PROVE  Near(frames) /\ SameCall(Top, Cur)
<1>1. IsSequence(frames) /\ \A i \in 1..Len(frames) : FrameOK(heap, frames[i])
  BY DEF IInv, RefsValid, FramesOK
<1>2. \A i \in 1..Len(frames) : SameCall(frames[i], frames[i])
  BY <1>1 DEF SameCall, AsFrame, FrameOK
<1>3. Len(frames) \in 1..Len(frames)
  BY FramesLen DEF IInv, RefsValid
<1>4. SameCall(Top, Top)
  BY <1>2, <1>3 DEF Top
<1>5. Cur = Jump(Top, Top.pc + 1)
  BY DEF Cur, Jump
<1>6. SameCall(Top, Cur)
  <2> DEFINE f == Top
             pc == f.pc + 1
  <2>1. SameCall(f, f) /\ Cur = Jump(f, pc)
    BY <1>4, <1>5
  <2> HIDE DEF f, pc
  <2>2. SameCall(f, Jump(f, pc))
    BY <2>1, SameCallOK
  <2> QED BY <2>1, <2>2 DEF f
<1> QED BY <1>1, <1>2, <1>6 DEF Near

\* A call stack with the last frame of one that is near replaced.
LEMMA NearLast ==
    ASSUME IInv, NEW fs, Near(fs), NEW f, SameCall(fs[Len(fs)], f),
           NEW gs, gs = [fs EXCEPT ![Len(fs)] = f]
    PROVE  Near(gs)
<1>1. IsSequence(fs) /\ Len(fs) \in Nat /\ Len(fs) = Len(frames)
  BY SequenceLen DEF Near
<1>2. Len(frames) \in 1..Len(frames) /\ frames # <<>>
  <2>1. frames # <<>>
    BY <1>1, EmptySeq, SequenceLen DEF Near, IsSequence, IInv, RefsValid, FramesOK
  <2> QED BY <2>1, FramesLen DEF IInv, RefsValid
<1>3. /\ IsSequence(gs) /\ Len(gs) = Len(fs)
      /\ \A i \in 1..Len(fs) : gs[i] = IF i = Len(fs) THEN f ELSE fs[i]
  <2>1. Len(fs) \in 1..Len(fs) /\ IsSequence(fs)
    BY <1>1, <1>2
  <2>2. IsSequence(gs)
    BY <2>1, LastReplaced
  <2>3. Len(gs) = Len(fs)
    BY <2>1, LastReplaced
  <2>4. \A i \in 1..Len(fs) : gs[i] = IF i = Len(fs) THEN f ELSE fs[i]
    BY <2>1, LastReplaced
  <2> QED BY <2>2, <2>3, <2>4
<1>4. gs # <<>>
  BY <1>1, <1>2, <1>3, EmptySeq
<1>5. SameCall(frames[Len(fs)], f)
  BY <1>1, <1>2 DEF Near, SameCall
<1> QED BY <1>1, <1>3, <1>4, <1>5 DEF Near

LEMMA NearFrameStep ==
    ASSUME NEW fs, Near(fs), NEW h
    PROVE  FrameStep(h, fs)
<1>1. Len(fs) \in Nat /\ Len(fs) = Len(frames)
  BY SequenceLen DEF Near
<1> QED BY <1>1 DEF Near, FrameStep, SameCall

\* unwind leaves the frames below the one that takes the exception.
LEMMA CutFrameStep ==
    ASSUME NEW fs, Near(fs), NEW i \in 1..Len(fs), NEW f, SameCall(fs[i], f), NEW h
    PROVE  FrameStep(h, Append(SubSeq(fs, 1, i - 1), f))
<1> DEFINE below == SubSeq(fs, 1, i - 1)
           gs == Append(below, f)
           S == {fs[k] : k \in 1..Len(fs)}
<1>1. fs \in Seq(S) /\ Len(fs) \in Nat /\ Len(fs) = Len(frames)
  BY SequenceLen DEF Near, IsSequence
<1> HIDE DEF S
<1>2. /\ i - 1 \in Int /\ i - 1 <= Len(fs)
  BY <1>1
<1>3. /\ below \in Seq(S) /\ Len(below) = i - 1
      /\ \A k \in 1..(i - 1) : below[k] = fs[k]
  BY <1>1, <1>2, PrefixProperties
<1>4. IsSequence(below)
  BY <1>3, SeqIsSequence
<1> HIDE DEF below
<1>5. /\ Len(gs) = i /\ gs[i] = f
      /\ \A k \in 1..(i - 1) : gs[k] = fs[k]
  BY <1>3, <1>4, AppendSequence
<1> HIDE DEF gs
<1>6. SameCall(frames[i], f)
  BY DEF Near, SameCall
<1>7. ASSUME NEW k \in 1..Len(gs)
      PROVE  /\ k < Len(gs) /\ k < Len(frames) => gs[k] = frames[k]
             /\ gs[k].object = frames[k].object /\ gs[k].locals = frames[k].locals
             /\ ~(k > Len(frames))
  <2>1. CASE k = i
    BY <1>1, <1>5, <1>6, <2>1 DEF SameCall
  <2>2. CASE k # i
    <3>1. k \in 1..(i - 1) /\ k < Len(fs) /\ k \in 1..Len(fs)
      BY <1>1, <1>5, <2>2
    <3> QED BY <1>1, <1>5, <3>1 DEF Near
  <2> QED BY <2>1, <2>2
<1>8. Len(gs) \in Nat /\ Len(gs) <= Len(frames) + 1
  BY <1>1, <1>5
<1> QED BY <1>7, <1>8 DEF FrameStep, gs, below

LEMMA CallFrameStep ==
    ASSUME NEW fs, Near(fs), NEW h, NEW f, f.locals > Len(heap.spaces),
           KindOf(h, f.object) = "Function" => Unused(h, f.locals)
    PROVE  FrameStep(h, Append(fs, f))
<1> DEFINE gs == Append(fs, f)
<1>1. Len(fs) \in Nat /\ Len(fs) = Len(frames) /\ IsSequence(fs)
  BY SequenceLen DEF Near
<1>2. /\ Len(gs) = Len(fs) + 1 /\ gs[Len(fs) + 1] = f
      /\ \A k \in 1..Len(fs) : gs[k] = fs[k]
  BY <1>1, AppendSequence
<1> HIDE DEF gs
<1>3. ASSUME NEW k \in 1..Len(gs), k <= Len(frames)
      PROVE  /\ k < Len(frames) => gs[k] = frames[k]
             /\ gs[k].object = frames[k].object /\ gs[k].locals = frames[k].locals
  <2>1. k \in 1..Len(fs) /\ gs[k] = fs[k]
    BY <1>1, <1>2, <1>3
  <2> QED BY <1>1, <2>1 DEF Near, SameCall
<1>4. ASSUME NEW k \in 1..Len(gs), k > Len(frames) PROVE gs[k] = f
  BY <1>1, <1>2, <1>4
<1> QED BY <1>1, <1>2, <1>3, <1>4 DEF FrameStep, gs

-----------------------------------------------------------------------------
(***************************************************************************)
(* Steps.                                                                  *)
(***************************************************************************)
Moved == Stepped(heap') /\ FrameStep(heap', frames') /\ modules' = modules

StableInv == IInv /\ Store(heap)

LEMMA ContinueMoved ==
    ASSUME NEW h, NEW fs, Stepped(h), FrameStep(h, fs), Continue(h, fs)
    PROVE  Moved
BY DEF Continue, Moved

LEMMA PanicMoved ==
    ASSUME StableInv, UNCHANGED <<heap, frames, modules>>
    PROVE  Moved
<1>1. Stepped(heap)
  BY ReachedSelf, ReachedStepped DEF StableInv
<1>2. Len(frames) \in Nat
  BY FramesLen DEF StableInv, IInv, RefsValid
<1>3. FrameStep(heap, frames)
  BY <1>2 DEF FrameStep
<1> QED BY <1>1, <1>3 DEF Moved

LEMMA NearReturn ==
    ASSUME StableInv, NEW fs, Near(fs), NEW result
    PROVE  Near(ReturnTo(fs, result))
<1> DEFINE f == fs[Len(fs)]
           g == PushOn(f, result)
<1>1. Len(fs) \in 1..Len(fs)
  <2>1. Len(fs) \in Nat /\ IsSequence(fs) /\ fs # <<>>
    BY SequenceLen DEF Near
  <2> QED BY <2>1, EmptySeq DEF IsSequence
<1>2. AsFrame(f)
  BY <1>1 DEF Near, SameCall
<1>3. SameCall(f, f)
  BY <1>2 DEF SameCall
<1> HIDE DEF f
<1>4. SameCall(f, g)
  BY <1>3, SameCallOK
<1>5. ReturnTo(fs, result) = [fs EXCEPT ![Len(fs)] = g]
  BY DEF ReturnTo, f
<1> HIDE DEF g
<1> QED BY <1>4, <1>5, NearLast DEF StableInv, f

LEMMA ReturnMoved ==
    ASSUME StableInv, NEW h, Stepped(h), NEW fs, Near(fs), NEW result,
           Continue(h, ReturnTo(fs, result))
    PROVE  Moved
BY NearReturn, NearFrameStep, ContinueMoved

LEMMA UnwindMoved ==
    ASSUME StableInv, NEW h, Reached(h), NEW fs, Near(fs), NEW traceback, NEW exc, NEW val,
           Unwind(h, fs, traceback, exc, val)
    PROVE  Moved
<1>1. ASSUME NEW i \in 1..Len(fs), NEW j,
             Continue(h, Append(SubSeq(fs, 1, i - 1), Land(fs[i], j, traceback, exc, val)))
      PROVE  Moved
  <2>1. SameCall(fs[i], fs[i])
    BY DEF Near, SameCall
  <2>2. SameCall(fs[i], Land(fs[i], j, traceback, exc, val))
    BY <2>1, SameCallOK
  <2>3. FrameStep(h, Append(SubSeq(fs, 1, i - 1), Land(fs[i], j, traceback, exc, val)))
    BY <2>2, CutFrameStep
  <2> QED BY <1>1, <2>3, ReachedStepped, ContinueMoved
<1>2. CASE Panic("UncaughtException")
  BY <1>2, PanicMoved DEF Panic
<1> QED BY <1>1, <1>2 DEF Unwind

LEMMA RaiseMoved ==
    ASSUME StableInv, NEW h, Reached(h), NEW fs, Near(fs), NEW class, Raise(h, fs, class)
    PROVE  Moved
<1> DEFINE h2 == NewInstance(h, NoName, class, StringOf("message"))
<1>1. StringOf("message").kind = "String"
  BY DEF StringOf, Content
<1>2. Reached(h2)
  BY <1>1, SimpleReached DEF StableInv
<1>3. Unwind(h2, fs, none, Newest(h2), none)
  BY DEF Raise
<1> HIDE DEF h2
<1> QED BY <1>2, <1>3, UnwindMoved

-----------------------------------------------------------------------------
(***************************************************************************)
(* Calls.                                                                  *)
(***************************************************************************)
LEMMA CallCodeMoved ==
    ASSUME StableInv, NEW h, Reached(h), NEW fs, Near(fs), NEW func, NEW args, NEW keys,
           NEW values, CallCode(h, fs, func, args, keys, values)
    PROVE  Moved
<1> DEFINE f  == h.objs[func].content
           id == h.objs[f.refs[1]].content.num
           c  == Code[id]
           defaults == h.spaces[f.num]
<1>1. CASE Panic("panic")
  BY <1>1, PanicMoved DEF Panic
<1>2. ASSUME NEW rest,
             LET h2 == BindArguments(c, h, defaults, args, keys, values, rest)
             IN  Continue(h2, Append(fs, NewFrame(func, id, c.instructions, Len(h2.spaces))))
      PROVE  Moved
  <2> DEFINE h2 == BindArguments(c, h, defaults, args, keys, values, rest)
             g  == NewFrame(func, id, c.instructions, Len(h2.spaces))
  <2>1. Reached(h2) /\ Len(h2.spaces) > Len(heap.spaces) /\ Unused(h2, Len(h2.spaces))
    BY BindArgumentsReached DEF StableInv
  <2>2. g.locals = Len(h2.spaces)
    BY DEF NewFrame
  <2>3. Continue(h2, Append(fs, g))
    BY <1>2
  <2> HIDE DEF h2, g
  <2>4. FrameStep(h2, Append(fs, g))
    BY <2>1, <2>2, CallFrameStep
  <2> QED BY <2>1, <2>3, <2>4, ReachedStepped, ContinueMoved
<1> HIDE DEF f, id, c, defaults
<1>3. \/ Panic("panic")
      \/ \E rest : LET h2 == BindArguments(c, h, defaults, args, keys, values, rest)
                   IN  Continue(h2, Append(fs, NewFrame(func, id, c.instructions,
                                                        Len(h2.spaces))))
  BY DEF CallCode, f, id, c, defaults
<1> QED BY <1>1, <1>2, <1>3

LEMMA BuildClassMoved ==
    ASSUME StableInv, NEW h, Reached(h), HeapOK(h), NEW fs, Near(fs),
           NEW args \in Seq(Refs(h)), BuildClass(h, fs, args)
    PROVE  Moved
<1> DEFINE id    == h.objs[h.objs[args[1]].content.refs[1]].content.num
           is    == Code[id].instructions
           bases == IF Len(args) = 2 THEN <<object>> ELSE SubSeq(args, 3, Len(args))
           h1    == NewSpace(h, EmptyMap)
           h2    == NewClass(h1, StringAt(h, args[2]), Len(h1.spaces), bases)
           cls   == Newest(h2)
           g     == NewFrame(cls, id, ClassBody(is, cls), Len(h1.spaces))
<1>1. CASE Panic("panic")
  BY <1>1, PanicMoved DEF Panic
<1>2. CASE Continue(h2, Append(fs, g))
  <2>1. bases \in Seq(Refs(h))
    <3>1. <<object>> \in Seq(Refs(h))
      BY PrimitiveRefs, SingletonSeq DEF object
    <3>2. SubSeq(args, 3, Len(args)) \in Seq(Refs(h))
      BY LenProperties, SliceProperties
    <3> QED BY <3>1, <3>2
  <2> HIDE DEF bases
  <2>2. Reached(h2) /\ KindOf(h2, cls) = "Class" /\ Len(h1.spaces) > Len(heap.spaces)
    BY <2>1, NewClassReached DEF StableInv
  <2>3. g.locals = Len(h1.spaces) /\ g.object = cls
    BY DEF NewFrame
  <2> HIDE DEF h2, cls, h1, g
  <2>4. KindOf(h2, g.object) # "Function"
    BY <2>2, <2>3
  <2>5. FrameStep(h2, Append(fs, g))
    BY <2>2, <2>3, <2>4, CallFrameStep
  <2> QED BY <1>2, <2>2, <2>5, ReachedStepped, ContinueMoved
<1> HIDE DEF h2, g
<1> QED BY <1>1, <1>2 DEF BuildClass, h2, g

LEMMA IterNextMoved ==
    ASSUME StableInv, NEW h, Reached(h), HeapOK(h), NEW fs, Near(fs),
           NEW args \in Seq(Refs(h)), IterNext(h, fs, args)
    PROVE  Moved
<1> DEFINE ref == args[1]
           it  == h.objs[ref].content
           container == h.objs[it.refs[1]]
           h2  == SetContent(h, ref, [it EXCEPT !.num = @ + 1])
           h1  == NewInstance(h, NoName, typeerror, Plain("OtherObject"))
<1>1. CASE Panic("panic")
  BY <1>1, PanicMoved DEF Panic
<1>2. CASE Raise(h, fs, stopiteration)
  BY <1>2, RaiseMoved
<1>3. CASE Raise(h1, fs, Newest(h1))
  <2>1. Plain("OtherObject").kind = "OtherObject"
    BY DEF Plain, Content
  <2>2. Reached(h1)
    BY <2>1, SimpleReached DEF StableInv
  <2> HIDE DEF h1
  <2> QED BY <1>3, <2>2, RaiseMoved
<1>4. CASE /\ Len(args) = 1 /\ KindOf(h, ref) = "RandomAccessIterator"
           /\ container.content.kind \in {"List", "Tuple"}
           /\ it.num < Len(container.content.refs)
           /\ Continue(h2, ReturnTo(fs, container.content.refs[it.num + 1]))
  <2>1. ref \in Refs(h)
    <3>1. Len(args) = 1
      BY <1>4
    <3>2. 1 \in 1..Len(args)
      BY <3>1
    <3> QED BY <3>2, ElementOfSeq
  <2>2. Stepped(h2)
    BY <1>4, <2>1, AdvanceStepped DEF StableInv
  <2> HIDE DEF h2, container, it
  <2> QED BY <1>4, <2>2, ReturnMoved
<1> HIDE DEF h1, h2
<1> QED BY <1>1, <1>2, <1>3, <1>4 DEF IterNext, Advance, RaiseNaming, h1, h2

LEMMA WriteStdoutMoved ==
    ASSUME StableInv, NEW fs, Near(fs), NEW h, Reached(h), NEW args, WriteStdout(h, fs, args)
    PROVE  Moved
<1>1. CASE Panic("panic")
  BY <1>1, PanicMoved DEF Panic
<1>2. CASE heap' = h /\ frames' = ReturnTo(fs, none) /\ modules' = modules
  <2>1. Stepped(h) /\ FrameStep(h, ReturnTo(fs, none))
    BY NearReturn, NearFrameStep, ReachedStepped
  <2> QED BY <1>2, <2>1 DEF Moved
<1> QED BY <1>1, <1>2 DEF WriteStdout

LEMMA CallMoved ==
    ASSUME StableInv, NEW h, Reached(h), HeapOK(h), NEW fs, Near(fs), NEW func,
           NEW args \in Seq(Refs(h)), NEW keys, NEW values,
           Call(h, fs, func, args, keys, values)
    PROVE  Moved
<1> DEFINE h2 == Instantiate(h, func)
           name == h.objs[func].content.str
<1>1. CASE Continue(h2, ReturnTo(fs, Newest(h2)))
  <2>1. Stepped(h2)
    BY InstantiateReached, ReachedStepped DEF StableInv
  <2> HIDE DEF h2
  <2> QED BY <1>1, <2>1, ReturnMoved
<1>2. CASE CallCode(h, fs, func, args, keys, values)
  BY <1>2, CallCodeMoved
<1>3. ASSUME NEW class, Raise(h, fs, class) PROVE Moved
  BY <1>3, RaiseMoved
<1>5. ASSUME NEW class, NEW ref, RaiseNaming(h, fs, ref, class) PROVE Moved
  BY <1>3, <1>5, PanicMoved DEF RaiseNaming, Panic
<1>4. CASE CallPrimitive(h, fs, name, args)
  <2>1. CASE IsSubclass(h, fs, args)
    BY <2>1, ReachedStepped, ReturnMoved, PanicMoved DEF IsSubclass, Panic
  <2>2. CASE IsInstance(h, fs, args)
    BY <2>2, ReachedStepped, ReturnMoved, PanicMoved DEF IsInstance, Panic
  <2> QED BY <1>3, <1>4, <2>1, <2>2, WriteStdoutMoved, BuildClassMoved, IterNextMoved
          DEF CallPrimitive
<1> HIDE DEF h2, name
<1> QED BY <1>1, <1>2, <1>4, <1>5 DEF Call, h2, name

-----------------------------------------------------------------------------
(***************************************************************************)
(* The running frame.                                                      *)
(***************************************************************************)
LEMMA NearWith ==
    ASSUME StableInv, frames # <<>>, NEW f, SameCall(Top, f)
    PROVE  Near(With(f))
<1>1. Near(frames) /\ SameCall(frames[Len(frames)], f)
  BY NearSelf DEF StableInv, Top
<1> QED BY <1>1, NearLast DEF StableInv, With

LEMMA GoMoved ==
    ASSUME StableInv, frames # <<>>, NEW h, Reached(h), NEW f, SameCall(Top, f),
           Continue(h, With(f))
    PROVE  Moved
BY NearWith, NearFrameStep, ReachedStepped, ContinueMoved

LEMMA CurSame ==
    ASSUME StableInv, frames # <<>>
    PROVE  SameCall(Top, Cur) /\ \A n : SameCall(Top, Drop(Cur, n))
BY NearSelf, SameCallOK DEF StableInv

LEMMA PopMoved ==
    ASSUME StableInv, frames # <<>>, NEW n, Pop(n)
    PROVE  Moved
BY CurSame, ReachedSelf, GoMoved DEF Pop, StableInv

LEMMA YieldMoved ==
    ASSUME StableInv, frames # <<>>, NEW h, Reached(h), NEW n, NEW ref, Yield(h, n, ref)
    PROVE  Moved
<1>1. SameCall(Top, PushOn(Drop(Cur, n), ref))
  BY CurSame, SameCallOK
<1> QED BY <1>1, GoMoved DEF Yield

LEMMA RaiseHereMoved ==
    ASSUME StableInv, frames # <<>>, NEW n, NEW class,
           \/ Raise(heap, With(Drop(Cur, n)), class) \/ Raise(heap, With(Cur), class)
    PROVE  Moved
BY CurSame, NearWith, ReachedSelf, RaiseMoved DEF StableInv

LEMMA BindHereMoved ==
    ASSUME StableInv, frames # <<>>, NEW space, NEW name, NEW ref, NEW n,
           Continue(Bind(heap, space, name, ref), With(Drop(Cur, n)))
    PROVE  Moved
BY CurSame, BindReached, GoMoved DEF StableInv

\* A panic leaves the store, the frames and the modules alone.
LEMMA Panicked == ASSUME StableInv, NEW why, Panic(why) PROVE Moved
BY PanicMoved DEF Panic

LEMMA HeapReached == ASSUME StableInv PROVE Reached(heap) /\ Store(heap) /\ HeapOK(heap)
BY ReachedSelf DEF StableInv, IInv, RefsValid

LEMMA AtFrames == ASSUME NEW op, At(op) PROVE frames # <<>>
BY DEF At, Fetched

-----------------------------------------------------------------------------
(***************************************************************************)
(* The instructions.                                                       *)
(***************************************************************************)
LEMMA StackStepMoved == ASSUME StableInv, StackStep PROVE Moved
<1>1. CASE PushImmediate
  BY <1>1, AtFrames, HeapReached, YieldMoved DEF PushImmediate
<1>2. CASE PopTop
  BY <1>2, AtFrames, PopMoved DEF PopTop
<1>3. CASE DupTop
  BY <1>3, AtFrames, HeapReached, YieldMoved DEF DupTop
<1>4. CASE Nop
  BY <1>4, AtFrames, HeapReached, CurSame, GoMoved DEF Nop
<1>5. CASE LoadConst
  BY <1>5, AtFrames, HeapReached, YieldMoved DEF LoadConst
<1>6. CASE BuildTuple
  BY <1>6, AtFrames, HeapReached, MakersReached, YieldMoved DEF BuildTuple
<1>7. CASE BuildConstKeyMap
  BY <1>7, AtFrames, HeapReached, MakersReached, YieldMoved, Panicked DEF BuildConstKeyMap
<1> QED BY <1>1, <1>2, <1>3, <1>4, <1>5, <1>6, <1>7 DEF StackStep

LEMMA LoadNameOrGlobalMoved ==
    ASSUME StableInv, frames # <<>>, LoadNameOrGlobal
    PROVE  Moved
<1> DEFINE ns == NewInstance(heap, Name, object, Plain("PrimitiveNamespace"))
           str == NewString(heap, "<module>")
<1>1. Plain("PrimitiveNamespace").kind = "PrimitiveNamespace"
  BY DEF Plain, Content
<1>2. Reached(ns) /\ Reached(str) /\ Reached(heap)
  BY <1>1, HeapReached, MakersReached, SimpleReached
<1> HIDE DEF ns, str
<1>3. \/ Yield(ns, 0, Newest(ns)) \/ Yield(str, 0, Newest(str))
      \/ \E ref : Yield(heap, 0, ref)
      \/ Panic("panic") \/ Raise(heap, With(Cur), nameerror)
  BY DEF LoadNameOrGlobal, ns, str
<1> QED BY <1>2, <1>3, YieldMoved, Panicked, RaiseHereMoved

LEMMA LoadAttrMoved == ASSUME StableInv, LoadAttr PROVE Moved
<1> DEFINE obj  == heap.objs[Nth(0)]
           tup  == NewTuple(heap, obj.bases)
           str  == NewString(heap, obj.name)
           prim == NewPrimitive(heap, Name, Name)
<1>1. frames # <<>>
  BY AtFrames DEF LoadAttr
<1>2. Reached(tup) /\ Reached(str) /\ Reached(prim) /\ Reached(heap)
  BY HeapReached, MakersReached
<1> HIDE DEF tup, str, prim, obj
<1>3. \/ Yield(tup, 1, Newest(tup)) \/ Yield(str, 1, Newest(str))
      \/ Yield(prim, 1, Newest(prim)) \/ \E ref : Yield(heap, 1, ref)
      \/ Raise(heap, With(Drop(Cur, 1)), nameerror)
  BY DEF LoadAttr, obj, tup, str, prim
<1> QED BY <1>1, <1>2, <1>3, YieldMoved, RaiseHereMoved

LEMMA NameStepMoved == ASSUME StableInv, NameStep PROVE Moved
<1>1. CASE StoreName
  BY <1>1, AtFrames, BindHereMoved DEF StoreName
<1>2. CASE StoreFast
  BY <1>2, AtFrames, BindHereMoved DEF StoreFast
<1>3. CASE LoadFast
  BY <1>3, AtFrames, HeapReached, YieldMoved DEF LoadFast
<1>4. CASE StoreGlobal
  BY <1>4, AtFrames, BindHereMoved, Panicked DEF StoreGlobal
<1>5. CASE LoadName
  BY <1>5, AtFrames, LoadNameOrGlobalMoved DEF LoadName
<1>6. CASE LoadGlobal
  BY <1>6, AtFrames, LoadNameOrGlobalMoved DEF LoadGlobal
<1>7. CASE StoreAttr
  BY <1>7, AtFrames, BindHereMoved, Panicked DEF StoreAttr
<1> QED BY <1>1, <1>2, <1>3, <1>4, <1>5, <1>6, <1>7, LoadAttrMoved DEF NameStep

LEMMA JumpStepMoved == ASSUME StableInv, JumpStep PROVE Moved
<1>0. Reached(heap)
  BY HeapReached
<1>1. CASE BinarySubscr
  BY <1>0, <1>1, AtFrames, YieldMoved, RaiseHereMoved DEF BinarySubscr
<1>2. CASE CompareOp
  BY <1>0, <1>2, AtFrames, YieldMoved, Panicked DEF CompareOp
<1>3. ASSUME frames # <<>>, NEW n, NEW pc,
             \/ Continue(heap, With(Jump(Cur, pc))) \/ Continue(heap, With(Jump(Drop(Cur, n), pc)))
      PROVE  Moved
  BY <1>0, <1>3, CurSame, SameCallOK, GoMoved
<1>4. CASE JumpAbsolute
  BY <1>3, <1>4, AtFrames DEF JumpAbsolute
<1>5. CASE JumpForward
  BY <1>3, <1>5, AtFrames DEF JumpForward
<1>6. CASE PopJumpIfFalse
  BY <1>3, <1>6, AtFrames, PopMoved, Panicked DEF PopJumpIfFalse
<1> QED BY <1>1, <1>2, <1>4, <1>5, <1>6 DEF JumpStep

LEMMA ForIterMoved == ASSUME StableInv, ForIter PROVE Moved
<1> DEFINE h == NewPrimitive(heap, NoName, "iter")
           f == PushBlock(Cur, ExceptPopGoto(stopiteration, 1, Cur.pc + Words(Arg)))
           none_ == <<>>
           args == <<Nth(0)>>
<1>1. At("ForIter")
  BY DEF ForIter
<1>2. /\ frames # <<>> /\ Instr.op = "ForIter" /\ (Pops <= Depth \/ ~(Pops \in Int))
  BY <1>1, Checked DEF StableInv
<1>3. Pops = 1
  BY <1>2 DEF Pops
<1>4. Nth(0) \in Refs(heap)
  BY <1>2, <1>3, NthOK, TopOK DEF StableInv
<1>5. Reached(h) /\ Made(heap, h)
  BY HeapReached, MakersReached, NewPrimitiveOK
<1> HIDE DEF h
<1>6. HeapOK(h) /\ Refs(heap) \subseteq Refs(h)
  BY <1>5, HeapReached, ExtendedSets DEF Made, Extended
<1>7. SameCall(Top, f)
  BY <1>2, CurSame, SameCallOK
<1>8. args \in Seq(Refs(h))
  BY <1>4, <1>6, SingletonSeq
<1>9. Call(h, With(f), Newest(h), args, none_, none_)
  BY DEF ForIter, h
<1> HIDE DEF f, args, none_
<1>10. Near(With(f))
  BY <1>2, <1>7, NearWith
<1> QED BY <1>5, <1>6, <1>8, <1>9, <1>10, CallMoved

LEMMA BlockStepMoved == ASSUME StableInv, BlockStep PROVE Moved
<1>0. Reached(heap) /\ HeapOK(heap)
  BY HeapReached
<1>1. ASSUME frames # <<>>, NEW b, Continue(heap, With(PushBlock(Cur, b))) PROVE Moved
  BY <1>0, <1>1, CurSame, SameCallOK, GoMoved
<1>2. CASE SetupLoop
  BY <1>1, <1>2, AtFrames DEF SetupLoop
<1>3. CASE SetupExcept
  BY <1>1, <1>3, AtFrames DEF SetupExcept
<1>4. CASE PopBlock
  BY <1>0, <1>4, AtFrames, CurSame, SameCallOK, GoMoved DEF PopBlock
<1>5. CASE GetIter
  <2>1. At("GetIter")
    BY <1>5 DEF GetIter
  <2>2. /\ frames # <<>> /\ Instr.op = "GetIter" /\ (Pops <= Depth \/ ~(Pops \in Int))
    BY <2>1, Checked DEF StableInv
  <2>3. Pops = 1
    BY <2>2 DEF Pops
  <2>4. Nth(0) \in Refs(heap)
    BY <2>2, <2>3, NthOK, TopOK DEF StableInv
  <2> DEFINE h == Iter(heap, Nth(0))
  <2>5. Reached(h)
    BY <1>0, <2>4, IterReached DEF StableInv
  <2>6. Yield(h, 1, Newest(h))
    BY <1>5 DEF GetIter
  <2> HIDE DEF h
  <2> QED BY <2>2, <2>5, <2>6, YieldMoved
<1>6. CASE PopExcept
  <2>1. frames # <<>>
    BY <1>6, AtFrames DEF PopExcept
  <2>2. SameCall(Top, DropBlock([Cur EXCEPT !.stack = <<>>]))
    BY <2>1, CurSame, SameCallOK
  <2> QED BY <1>0, <1>6, <2>1, <2>2, GoMoved, Panicked DEF PopExcept
<1>7. CASE EndFinally
  <2>1. frames # <<>>
    BY <1>7, AtFrames DEF EndFinally
  <2>2. Near(With(DropBlock(Drop(Cur, 3))))
    BY <2>1, CurSame, SameCallOK, NearWith
  <2> QED BY <1>0, <1>7, <2>1, <2>2, PopMoved, UnwindMoved, Panicked DEF EndFinally
<1>8. CASE RaiseVarargs
  <2>1. frames # <<>>
    BY <1>8, AtFrames DEF RaiseVarargs
  <2>2. Near(With(Drop(Cur, 1)))
    BY <2>1, CurSame, NearWith
  <2> QED BY <1>0, <1>8, <2>2, UnwindMoved, Panicked DEF RaiseVarargs
<1> QED BY <1>2, <1>3, <1>4, <1>5, <1>6, <1>7, <1>8, ForIterMoved DEF BlockStep

LEMMA MakeFunctionMoved == ASSUME StableInv, MakeFunction PROVE Moved
<1> DEFINE dict == heap.objs[Nth(2)].content
           n    == IF Arg = 2 THEN 3 ELSE 2
           defaults == IF Arg = 2
                       THEN MapOf(Texts(heap, DictKeys(dict)), DictValues(dict))
                       ELSE EmptyMap
           h == NewFunction(heap, StringAt(heap, Nth(0)), ModuleName(heap, Top.object),
                            Nth(1), defaults)
<1>1. frames # <<>>
  BY AtFrames DEF MakeFunction
<1>2. Reached(h)
  BY HeapReached, NewFunctionReached
<1> HIDE DEF h, n, defaults, dict
<1>3. \/ \E why : Panic(why)
      \/ Raise(heap, With(Drop(Cur, 1)), typeerror)
      \/ Yield(h, n, Newest(h))
  BY DEF MakeFunction, h, n, defaults, dict
<1> QED BY <1>1, <1>2, <1>3, YieldMoved, RaiseHereMoved, Panicked

LEMMA CallFunctionMoved == ASSUME StableInv, CallFunction PROVE Moved
<1> DEFINE n == Arg
           m == n + 1
           noKeys == <<>>
           args == Slice(n, 0)
<1>1. At("CallFunction")
  BY DEF CallFunction
<1>2. /\ frames # <<>> /\ Instr.op = "CallFunction" /\ n \in Nat
      /\ (Pops <= Depth \/ ~(Pops \in Int))
  BY <1>1, Checked DEF StableInv
<1>3. Pops = n + 1
  BY <1>2 DEF Pops
<1>4. Call(heap, With(Drop(Cur, m)), Nth(n), args, noKeys, noKeys)
  BY DEF CallFunction
<1>5. Depth \in Nat
  BY <1>2, TopOK DEF StableInv
<1> HIDE DEF n
<1>6. n + 0 <= Depth /\ 0 \in Nat
  BY <1>2, <1>3, <1>5
<1>7. args \in Seq(Refs(heap))
  BY <1>2, <1>6, SliceOK DEF StableInv
<1> HIDE DEF m, args, noKeys
<1>8. Near(With(Drop(Cur, m)))
  BY <1>2, CurSame, NearWith
<1> QED BY <1>4, <1>7, <1>8, HeapReached, CallMoved

LEMMA CallFunctionKwMoved == ASSUME StableInv, CallFunctionKw PROVE Moved
<1> DEFINE keys == heap.objs[Nth(0)].content.refs
           n == Len(keys)
           a == Arg
           m == a + 2
           args == Slice(a - n, n + 1)
           values == Slice(n, 1)
<1>1. At("CallFunctionKw")
  BY DEF CallFunctionKw
<1>2. /\ frames # <<>> /\ Instr.op = "CallFunctionKw" /\ a \in Nat
      /\ (Pops <= Depth \/ ~(Pops \in Int))
  BY <1>1, Checked DEF StableInv
<1>3. Pops = 1
  BY <1>2 DEF Pops
<1>4. Depth \in Nat /\ HeapOK(heap)
  BY <1>2, TopOK DEF StableInv
<1>5. Nth(0) \in Refs(heap)
  BY <1>2, <1>3, <1>4, NthOK DEF StableInv
<1>6. n \in Nat
  BY <1>4, <1>5, LenProperties DEF HeapOK, ObjectOK, ContentOK
<1>7. CASE Panic("panic") \/ Panic("StackTooSmall")
  BY <1>7, Panicked
<1>8. CASE /\ ~(a < n) /\ ~(Depth < a + 2)
           /\ Call(heap, With(Drop(Cur, m)), Nth(a + 1), args, keys, values)
  <2> HIDE DEF n, a
  <2>1. a - n \in Nat /\ n + 1 \in Nat /\ (a - n) + (n + 1) <= Depth
    BY <1>2, <1>4, <1>6, <1>8
  <2>2. args \in Seq(Refs(heap))
    BY <1>2, <2>1, SliceOK DEF StableInv
  <2> HIDE DEF m, args, values
  <2>3. Near(With(Drop(Cur, m)))
    BY <1>2, CurSame, NearWith
  <2> QED BY <1>8, <2>2, <2>3, HeapReached, CallMoved
<1> QED BY <1>7, <1>8 DEF CallFunctionKw

\* The frame that is returned to is the caller's, with the value on its stack.
LEMMA ReturnValueMoved == ASSUME StableInv, ReturnValue PROVE Moved
<1> DEFINE n    == Len(frames) - 1
           rest == SubSeq(frames, 1, n)
           ref  == Nth(0)
           S    == {frames[i] : i \in 1..Len(frames)}
<1>1. frames # <<>>
  BY AtFrames DEF ReturnValue
<1>2. /\ IsSequence(frames) /\ frames \in Seq(S) /\ Len(frames) \in Nat
      /\ \A i \in 1..Len(frames) : FrameOK(heap, frames[i])
  BY FramesLen DEF StableInv, IInv, RefsValid, FramesOK, IsSequence
<1>3. n \in Int /\ n <= Len(frames) /\ n \in Nat
  BY <1>1, <1>2, FramesLen DEF StableInv, IInv, RefsValid
<1> HIDE DEF S
<1>4. n = Len(frames) - 1
  OBVIOUS
<1> HIDE DEF n
<1>5. rest \in Seq(S) /\ Len(rest) = n /\ \A k \in 1..n : rest[k] = frames[k]
  BY <1>2, <1>3, PrefixProperties
<1>6. IsSequence(rest)
  BY <1>5, SeqIsSequence
<1> HIDE DEF rest, ref
<1>7. Stepped(heap)
  BY HeapReached, ReachedStepped
<1>8. CASE rest # <<>> /\ Continue(heap, ReturnTo(rest, ref))
  <2> DEFINE f  == rest[Len(rest)]
             g  == PushOn(f, ref)
             gs == [rest EXCEPT ![Len(rest)] = g]
  <2>1. n \in 1..n
    BY <1>3, <1>5, <1>6, <1>8, EmptySeq DEF IsSequence
  <2>2. f = frames[n] /\ AsFrame(frames[n])
    BY <1>2, <1>3, <1>5, <2>1 DEF AsFrame, FrameOK
  <2>3. SameCall(f, f)
    BY <2>2 DEF SameCall
  <2>4. ReturnTo(rest, ref) = gs
    BY DEF ReturnTo
  <2> HIDE DEF f
  <2>5. SameCall(f, g)
    BY <2>3, SameCallOK
  <2> HIDE DEF g
  <2>6. Len(gs) = n /\ \A i \in 1..n : gs[i] = IF i = n THEN g ELSE rest[i]
    BY <1>5, <1>6, <2>1, LastReplaced
  <2> HIDE DEF gs
  <2>7. FrameStep(heap, gs)
    BY <1>2, <1>4, <1>5, <2>2, <2>5, <2>6 DEF FrameStep, SameCall
  <2> QED BY <1>7, <1>8, <2>4, <2>7, ContinueMoved
<1>9. CASE rest = <<>> /\ frames' = rest /\ UNCHANGED <<heap, modules>>
  <2>1. Len(rest) = 0
    BY <1>9
  <2>2. FrameStep(heap, rest)
    BY <1>2, <2>1 DEF FrameStep
  <2> QED BY <1>7, <1>9, <2>2 DEF Moved
<1> QED BY <1>8, <1>9 DEF ReturnValue, rest, ref, n

LEMMA CallStepMoved == ASSUME StableInv, CallStep PROVE Moved
<1>1. CASE LoadBuildClass
  BY <1>1, AtFrames, HeapReached, MakersReached, YieldMoved DEF LoadBuildClass
<1> QED BY <1>1, MakeFunctionMoved, CallFunctionMoved, CallFunctionKwMoved, ReturnValueMoved
        DEF CallStep

\* A module starts on a call stack of its own, in a frame that is no call.
Started ==
    /\ Stepped(heap') /\ frames = <<>> /\ Len(frames') = 1
    /\ KindOf(heap', frames'[1].object) # "Function"

LEMMA StartModuleMoved == ASSUME StableInv, StartModule PROVE Moved \/ Started
<1> DEFINE name == Head(queue)
           code == ModuleCode(name)
           id   == heap.objs[code].content.num
           h0   == NewModule(heap, name, code)
           h1   == NewModule(h0, name, code)
           h2   == NewSpace(h1, EmptyMap)
           f    == NewFrame(Newest(h1), id, Code[id].instructions, Len(h2.spaces))
<1>1. CASE Panic("NotACodeObject")
  BY <1>1, Panicked
<1>2. CASE heap' = h2 /\ frames' = <<f>> /\ frames = <<>>
  <2>1. Reached(h0)
    BY HeapReached, MakersReached
  <2> HIDE DEF h0, name, code
  <2>2. Reached(h1) /\ KindOf(h1, Newest(h1)) = "Module"
    BY <2>1, HeapReached, MakersReached
  <2> HIDE DEF h1
  <2>3. Reached(h2) /\ h2.objs = h1.objs
    BY <2>2, HeapReached, NewSpaceReached
  <2>4. f.object = Newest(h1)
    BY DEF NewFrame
  <2> HIDE DEF h2, f
  <2>5. Len(<<f>>) = 1 /\ <<f>>[1] = f
    OBVIOUS
  <2>6. KindOf(h2, f.object) # "Function"
    BY <2>2, <2>3, <2>4 DEF KindOf
  <2> QED BY <1>2, <2>3, <2>5, <2>6, ReachedStepped DEF Started
<1> QED BY <1>1, <1>2 DEF StartModule

LEMMA NextMoved == ASSUME StableInv, [Next]_vars PROVE Moved \/ Started
<1>1. CASE Fail
  BY <1>1, Panicked DEF Fail
<1>2. CASE UNCHANGED vars
  BY <1>2, PanicMoved DEF vars
<1> QED BY <1>1, <1>2, StackStepMoved, NameStepMoved, JumpStepMoved, BlockStepMoved,
           CallStepMoved, StartModuleMoved DEF Next, Halted, Step

-----------------------------------------------------------------------------
(***************************************************************************)
(* What holds after a step that moved.                                     *)
(***************************************************************************)
LEMMA ObjectKept ==
    ASSUME StableInv, NEW h, Stepped(h), NEW r \in Refs(heap)
    PROVE  /\ h.objs[r].attrs = heap.objs[r].attrs
           /\ h.objs[r].class = heap.objs[r].class /\ h.objs[r].bases = heap.objs[r].bases
           /\ KindOf(h, r) = KindOf(heap, r)
           /\ KindOf(heap, r) = "Function" => h.objs[r] = heap.objs[r]
<1> DEFINE o == heap.objs[r]
           c == o.content
           c2 == [c EXCEPT !.num = c.num + 1]
           o2 == [o EXCEPT !.content = c2]
<1>1. ObjectOK(heap, o) /\ ContentOK(heap, c)
  BY HeapReached DEF HeapOK, ObjectOK
<1>2. o = [version |-> o.version, name |-> o.name, class |-> o.class,
           bases |-> o.bases, attrs |-> o.attrs, content |-> c]
  BY <1>1 DEF ObjectOK
<1>3. c = [kind |-> c.kind, refs |-> c.refs, num |-> c.num, str |-> c.str, stamp |-> c.stamp]
  BY <1>1 DEF ContentOK
<1>4. h.objs[r] = o \/ (c.kind = "RandomAccessIterator" /\ h.objs[r] = o2)
  <2>1. SameOrAdvanced(heap.objs[r], h.objs[r])
    BY DEF Stepped
  <2>2. h.objs[r] = o
        \/ (c.kind = "RandomAccessIterator" /\ h.objs[r] = [o EXCEPT !.content.num = @ + 1])
    BY <2>1 DEF SameOrAdvanced
  <2>3. [o EXCEPT !.content.num = @ + 1] = o2
    <3> HIDE DEF o
    <3> QED OBVIOUS
  <2> HIDE DEF o2
  <2> QED BY <2>2, <2>3
<1> HIDE DEF c
<1>5. c2 = [kind |-> c.kind, refs |-> c.refs, num |-> c.num + 1, str |-> c.str,
            stamp |-> c.stamp]
  BY <1>3
<1>6. c2.kind = c.kind
  BY <1>5
<1> HIDE DEF o, c2
<1>7. o2 = [version |-> o.version, name |-> o.name, class |-> o.class,
            bases |-> o.bases, attrs |-> o.attrs, content |-> c2]
  BY <1>2
<1>8. o2.attrs = o.attrs /\ o2.class = o.class /\ o2.bases = o.bases /\ o2.content = c2
  BY <1>7
<1> HIDE DEF o2
<1> QED BY <1>4, <1>6, <1>8 DEF KindOf, o, c

\* LocalsPrivate of any store, call stack and modules.
Private(h, fs, ms) ==
    \A i \in 1..Len(fs) :
        LET own == fs[i].locals
        IN  KindOf(h, fs[i].object) = "Function" =>
                /\ \A j \in 1..Len(fs) \ {i} : fs[j].locals # own
                /\ \A m \in DOMAIN ms : ms[m] # own
                /\ \A r \in Refs(h) :
                        /\ h.objs[r].attrs # own
                        /\ KindOf(h, r) = "Function" => h.objs[r].content.num # own

LEMMA MovedPrivate ==
    ASSUME StableInv, Private(heap, frames, modules), Moved
    PROVE  Private(heap', frames', modules')
<1> DEFINE h  == heap'
           fs == frames'
           last == Len(heap.spaces)
<1>1. Stepped(h) /\ FrameStep(h, fs) /\ modules' = modules
  BY DEF Moved
<1> HIDE DEF h, fs
<1>2. last \in Nat /\ Len(frames) \in Nat
  BY StoreLen, FramesLen DEF StableInv, IInv, RefsValid
<1>3. ASSUME NEW i \in 1..Len(frames)
      PROVE  /\ frames[i].locals \in 1..last /\ frames[i].object \in Refs(heap)
             /\ ~(frames[i].locals > last)
  <2>1. FrameOK(heap, frames[i])
    BY DEF StableInv, IInv, RefsValid, FramesOK
  <2>2. frames[i].locals \in 1..last /\ frames[i].object \in Refs(heap)
    BY <2>1 DEF FrameOK, Spaces
  <2> HIDE DEF last
  <2>3. ASSUME NEW n \in 1..last PROVE ~(n > last)
    BY <1>2
  <2> QED BY <2>2, <2>3
<1>4. \A m \in DOMAIN modules : modules[m] \in 1..last
  BY DEF StableInv, IInv, RefsValid, Spaces
<1>5. ASSUME NEW r \in Refs(h) \ Refs(heap)
      PROVE  /\ h.objs[r].attrs > last
             /\ KindOf(h, r) = "Function" => h.objs[r].content.num > last
  BY <1>1 DEF Stepped, NewOnesFresh, Fresh, KindOf
<1> SUFFICES ASSUME NEW i \in 1..Len(fs), KindOf(h, fs[i].object) = "Function"
             PROVE  /\ \A j \in 1..Len(fs) \ {i} : fs[j].locals # fs[i].locals
                    /\ \A m \in DOMAIN modules : modules[m] # fs[i].locals
                    /\ \A r \in Refs(h) :
                        /\ h.objs[r].attrs # fs[i].locals
                        /\ KindOf(h, r) = "Function" => h.objs[r].content.num # fs[i].locals
  BY <1>1 DEF Private, h, fs
<1>6. /\ Len(fs) \in Nat /\ Len(fs) <= Len(frames) + 1
      /\ \A j \in 1..Len(fs) :
            /\ j <= Len(frames) => fs[j].object = frames[j].object /\ fs[j].locals = frames[j].locals
            /\ j > Len(frames) =>
                    /\ fs[j].locals > last
                    /\ KindOf(h, fs[j].object) = "Function" => Unused(h, fs[j].locals)
  BY <1>1 DEF FrameStep
<1>7. CASE i <= Len(frames)
  <2> DEFINE own == frames[i].locals
  <2>1. /\ i \in 1..Len(frames) /\ fs[i].locals = own /\ fs[i].object = frames[i].object
        /\ own \in 1..last /\ frames[i].object \in Refs(heap)
    BY <1>2, <1>3, <1>6, <1>7
  <2>2. KindOf(heap, frames[i].object) = "Function"
    BY <1>1, <2>1, ObjectKept
  <2>3. /\ \A j \in 1..Len(frames) \ {i} : frames[j].locals # own
        /\ \A m \in DOMAIN modules : modules[m] # own
        /\ \A r \in Refs(heap) :
              /\ heap.objs[r].attrs # own
              /\ KindOf(heap, r) = "Function" => heap.objs[r].content.num # own
    BY <2>1, <2>2 DEF Private
  <2> HIDE DEF own
  <2>4. ASSUME NEW j \in 1..Len(fs) \ {i} PROVE fs[j].locals # own
    <3>1. CASE j <= Len(frames)
      <4>1. j \in 1..Len(frames) \ {i} /\ fs[j].locals = frames[j].locals
        BY <1>2, <1>6, <3>1
      <4> QED BY <2>3, <4>1
    <3>2. CASE j > Len(frames)
      <4>1. fs[j].locals > last
        BY <1>6, <3>2
      <4>2. own <= last
        BY <1>2, <2>1
      <4>3. ~(own > last)
        BY <1>2, <2>1, <4>2
      <4> QED BY <4>1, <4>3
    <3> QED BY <1>2, <1>6, <3>1, <3>2
  <2>5. ~(own > last)
    BY <1>2, <2>1
  <2>6. ASSUME NEW r \in Refs(h)
        PROVE  /\ h.objs[r].attrs # own
               /\ KindOf(h, r) = "Function" => h.objs[r].content.num # own
    <3>1. CASE r \in Refs(heap)
      BY <1>1, <2>3, <3>1, ObjectKept
    <3>2. CASE r \notin Refs(heap)
      BY <1>5, <2>5, <3>2
    <3> QED BY <3>1, <3>2
  <2> QED BY <2>1, <2>3, <2>4, <2>6
<1>8. CASE i > Len(frames)
  <2>1. fs[i].locals > last /\ Unused(h, fs[i].locals)
    BY <1>6, <1>8
  <2>2. ASSUME NEW j \in 1..Len(fs) \ {i} PROVE fs[j].locals # fs[i].locals
    <3>1. j \in 1..Len(frames) /\ fs[j].locals = frames[j].locals
      BY <1>2, <1>6, <1>8
    <3> QED BY <1>3, <2>1, <3>1
  <2>3. ASSUME NEW m \in DOMAIN modules PROVE modules[m] # fs[i].locals
    <3>1. ~(modules[m] > last)
      BY <1>2, <1>4
    <3> QED BY <2>1, <3>1
  <2> QED BY <2>1, <2>2, <2>3 DEF Unused
<1> QED BY <1>2, <1>6, <1>7, <1>8

LEMMA NextPrivate ==
    ASSUME StableInv, LocalsPrivate, [Next]_vars
    PROVE  LocalsPrivate'
<1>1. Private(heap, frames, modules)
  BY DEF LocalsPrivate, Private
<1>2. CASE Moved
  <2>1. Private(heap', frames', modules')
    BY <1>1, <1>2, MovedPrivate
  <2> QED BY <2>1 DEF LocalsPrivate, Private, KindOf, Refs
<1>3. CASE Started
  <2>1. \A i \in 1..Len(frames') : i = 1
    BY <1>3 DEF Started
  <2> QED BY <1>3, <2>1 DEF Started, LocalsPrivate, KindOf
<1> QED BY <1>2, <1>3, NextMoved

LEMMA NextStable == ASSUME StableInv, [Next]_vars PROVE StableInv'
<1>1. IInv'
  BY NextOK DEF StableInv
<1>2. Stepped(heap')
  BY NextMoved DEF Moved, Started
<1>3. Store(heap')
  BY <1>2 DEF Stepped
<1>4. Store(heap)'
  BY <1>3 DEF Store, Sound, WithinContainer, Refs, Spaces, Bases
<1> QED BY <1>1, <1>4 DEF StableInv

-----------------------------------------------------------------------------
(***************************************************************************)
(* The store that the programs start with.                                 *)
(***************************************************************************)
LEMMA PrimitiveObjectSound ==
    ASSUME NEW r \in 1..28
    PROVE  /\ \A i \in DOMAIN PrimitiveObject(r).bases : PrimitiveObject(r).bases[i] < r
           /\ PrimitiveObject(r).content.kind \notin {"Function", "RandomAccessIterator"}
<1>1. PrimitiveObject(r).bases = PrimitiveBases(r)
  BY DEF PrimitiveObject
<1>2. PrimitiveObject(r).content.kind \in {"None", "True", "False", "OtherObject", "Class"}
  BY DEF PrimitiveObject, Plain, Content
<1>3. \/ PrimitiveBases(r) = <<>>
      \/ \E b \in 1..28 : b < r /\ PrimitiveBases(r) = <<b>>
  <2> DEFINE Root(x) == x \in {object, none, true_obj, false_obj}
  <2>1. /\ object = 1 /\ none = 4 /\ int_type = 5 /\ bool_type = 6 /\ true_obj = 7
        /\ false_obj = 8 /\ baseexception = 20 /\ processorerror = 21 /\ exception = 22
        /\ nameerror = 23 /\ lookuperror = 27 /\ keyerror = 28
    BY DEF object, none, int_type, bool_type, true_obj, false_obj, baseexception,
           processorerror, exception, nameerror, lookuperror, keyerror
  <2>2. CASE Root(r)
    <3>1. r \in {object, none, true_obj, false_obj}
      BY <2>2
    <3>2. PrimitiveBases(r) = <<>>
      BY <2>1, <3>1 DEF PrimitiveBases
    <3> QED BY <3>2
  <2>3. CASE ~Root(r)
    <3> DEFINE b == CASE r = bool_type                     -> int_type
                      [] r \in {processorerror, exception} -> baseexception
                      [] r \in nameerror..lookuperror      -> exception
                      [] r = keyerror                      -> lookuperror
                      [] OTHER                             -> object
    <3>1. b \in 1..28 /\ b < r
      BY <2>1, <2>3
    <3>2. PrimitiveBases(r) = <<b>>
      <4>1. ~(r \in {object, none, true_obj, false_obj})
        BY <2>3
      <4>2. CASE r = bool_type
        BY <2>1, <4>1, <4>2 DEF PrimitiveBases
      <4>3. CASE r # bool_type /\ r \in {processorerror, exception}
        BY <2>1, <4>1, <4>3 DEF PrimitiveBases
      <4>4. CASE r # bool_type /\ r \notin {processorerror, exception} /\ r \in nameerror..lookuperror
        BY <2>1, <4>1, <4>4 DEF PrimitiveBases
      <4>5. CASE r = keyerror
        BY <2>1, <4>1, <4>5 DEF PrimitiveBases
      <4>6. CASE /\ r # bool_type /\ r \notin {processorerror, exception}
                 /\ r \notin nameerror..lookuperror /\ r # keyerror
        BY <2>1, <4>1, <4>6 DEF PrimitiveBases
      <4> QED BY <4>2, <4>3, <4>4, <4>5, <4>6
    <3> HIDE DEF b
    <3> QED BY <3>1, <3>2
  <2> QED BY <2>2, <2>3
<1>4. \A i \in DOMAIN <<>> : FALSE
  OBVIOUS
<1>5. ASSUME NEW b, b < r PROVE \A i \in DOMAIN <<b>> : <<b>>[i] < r
  BY <1>5
<1>6. ASSUME NEW i \in DOMAIN PrimitiveBases(r) PROVE PrimitiveBases(r)[i] < r
  <2>1. CASE PrimitiveBases(r) = <<>>
    BY <1>4, <2>1, Zenon
  <2>2. ASSUME NEW b \in 1..28, b < r, PrimitiveBases(r) = <<b>> PROVE PrimitiveBases(r)[i] < r
    BY <1>5, <2>2, Zenon
  <2> QED BY <1>3, <2>1, <2>2, Zenon
<1> QED BY <1>1, <1>2, <1>6

LEMMA ImageObjectSound ==
    ASSUME IsProgram(Programs[prog]), NEW i \in 1..Len(Image)
    PROVE  /\ ImageObject(i).bases = <<>>
           /\ ImageObject(i).content.kind \notin {"Function", "RandomAccessIterator"}
<1>1. IsImageContent(Programs[prog], Image[i])
  BY DEF IsProgram, Image
<1>2. Image[i].kind \in {"Int", "String", "Tuple", "List", "Code", "Opaque"}
  BY <1>1 DEF IsImageContent
<1> QED BY <1>2 DEF ImageObject

LEMMA LoadedObjects ==
    ASSUME IsProgram(Programs[prog])
    PROVE  /\ \A r \in Refs(LoadedHeap) :
              \/ r \in 1..28 /\ LoadedHeap.objs[r] = PrimitiveObject(r)
              \/ \E i \in 1..Len(Image) : LoadedHeap.objs[r] = ImageObject(i)
           /\ \A r \in 1..28 : LoadedHeap.objs[r] = PrimitiveObject(r)
<1> DEFINE h == LoadedHeap
           images == Len(Image)
           primObjs == [r \in 1..28 |-> PrimitiveObject(r)]
           imageObjs == [i \in 1..images |-> ImageObject(i)]
           Objs == {PrimitiveObject(r) : r \in 1..28} \cup {ImageObject(i) : i \in 1..images}
           objs == h.objs
           prims == 28
<1>1. images \in Nat
  BY SequenceLen DEF IsProgram, Image
<1>2. objs = primObjs \o imageObjs
  BY DEF LoadedHeap, PrimitiveHeap
<1> HIDE DEF images
<1>3. primObjs \in [1..28 -> Objs] /\ imageObjs \in [1..images -> Objs]
  OBVIOUS
<1>4. /\ \A r \in 1..28 : primObjs[r] = PrimitiveObject(r)
      /\ \A i \in 1..images : imageObjs[i] = ImageObject(i)
  OBVIOUS
<1>5. prims \in Nat
  OBVIOUS
<1> HIDE DEF h, objs, primObjs, imageObjs, Objs
<1>6. primObjs \in [1..prims -> Objs] /\ imageObjs \in [1..images -> Objs]
  BY <1>3
<1> HIDE DEF prims
<1>7. /\ \A r \in 1..prims : objs[r] = primObjs[r]
      /\ \A r \in 1..(prims + images) :
            ~(r \in 1..prims) => r - prims \in 1..images /\ objs[r] = imageObjs[r - prims]
  BY <1>1, <1>2, <1>5, <1>6, Joined
<1>8. Len(objs) = prims + images
  <2>1. Len(primObjs \o imageObjs) = prims + images
    BY <1>1, <1>5, <1>6, JoinedLen
  <2> QED BY <1>2, <2>1, Zenon
<1>9. Refs(h) = 1..(prims + images)
  BY <1>8 DEF Refs, objs
<1>10. ASSUME NEW r \in Refs(h)
       PROVE  \/ r \in 1..28 /\ objs[r] = PrimitiveObject(r)
              \/ \E i \in 1..images : objs[r] = ImageObject(i)
  <2>1. CASE r \in 1..prims
    BY <1>4, <1>7, <2>1 DEF prims
  <2>2. CASE r \notin 1..prims
    <3> DEFINE i == r - prims
    <3>1. i \in 1..images /\ objs[r] = imageObjs[i]
      BY <1>7, <1>9, <2>2
    <3> HIDE DEF i
    <3> QED BY <1>4, <3>1
  <2> QED BY <2>1, <2>2
<1>11. \A r \in 1..28 : objs[r] = PrimitiveObject(r)
  BY <1>4, <1>7 DEF prims
<1> QED BY <1>10, <1>11 DEF h, objs, images

LEMMA InitStable == ASSUME Init PROVE StableInv /\ LocalsPrivate
<1> DEFINE h == LoadedHeap
<1>1. prog \in 1..Len(Programs) /\ IsProgram(Programs[prog])
  BY ProgramsAssumption DEF Init
<1>2. heap = h /\ HeapOK(h)
  BY <1>1, LoadedHeapOK DEF Init
<1>3. \A r \in Refs(h) :
        \/ r \in 1..28 /\ h.objs[r] = PrimitiveObject(r)
        \/ \E i \in 1..Len(Image) : h.objs[r] = ImageObject(i)
  BY <1>1, LoadedObjects
<1> HIDE DEF h
<1>4. ASSUME NEW r \in Refs(h) PROVE Sound(h, r)
  <2>1. h.objs[r].attrs \in Spaces(h) \cup {NoRef}
    BY <1>2 DEF HeapOK, ObjectOK
  <2>2. \A b \in Bases(h, r) : b < r
    <3>1. CASE r \in 1..28 /\ h.objs[r] = PrimitiveObject(r)
      BY <3>1, PrimitiveObjectSound DEF Bases
    <3>2. CASE \E i \in 1..Len(Image) : h.objs[r] = ImageObject(i)
      <4>1. h.objs[r].bases = <<>>
        BY <1>1, <3>2, ImageObjectSound
      <4> QED BY <4>1 DEF Bases
    <3> QED BY <1>3, <3>1, <3>2
  <2>3. h.objs[r].content.kind \notin {"Function", "RandomAccessIterator"}
    BY <1>1, <1>3, PrimitiveObjectSound, ImageObjectSound
  <2> QED BY <2>1, <2>2, <2>3 DEF Sound, WithinContainer
<1>5. Store(heap)
  BY <1>2, <1>4 DEF Store, HeapOK
<1>6. IInv
  BY InitOK
<1>7. \A i \in 1..Len(frames) : FALSE
  <2>1. frames = <<>>
    BY DEF Init
  <2>2. Len(<<>>) = 0
    OBVIOUS
  <2> QED BY <2>1, <2>2
<1> QED BY <1>5, <1>6, <1>7 DEF StableInv, LocalsPrivate

-----------------------------------------------------------------------------
(***************************************************************************)
(* The theorems.                                                           *)
(***************************************************************************)
\* The inductive invariant of the object store.
THEOREM StoreInvariant == Spec => []StableInv
<1>1. Init => StableInv
  BY InitStable
<1>2. StableInv /\ [Next]_vars => StableInv'
  BY NextStable
<1> QED BY <1>1, <1>2, PTL DEF Spec

\* Whatever code runs, a class is made after its bases (build_class in
\* primitives/mod.rs makes all but the primitive ones), so that inheritance has
\* no cycle.
THEOREM InheritanceIsAcyclic == Spec => []BasesOlder
<1>1. StableInv => BasesOlder
  BY DEF StableInv, Store, Sound, BasesOlder
<1> QED BY <1>1, StoreInvariant, PTL

\* Whatever code runs, an iterator stays within its container and remembers its
\* version: iter (primitives/mod.rs) never finds that the container changed.
THEOREM IteratorsStayInRange == Spec => []IteratorsInRange
<1>1. StableInv => IteratorsInRange
  BY DEF StableInv, Store, Sound, WithinContainer, IteratorsInRange
<1> QED BY <1>1, StoreInvariant, PTL

\* Whatever code runs, no other frame, object, function or module shares the
\* locals of a call (call_function of processor/mod.rs clones the defaults).
THEOREM LocalsArePrivate == Spec => []LocalsPrivate
<1>1. Init => LocalsPrivate
  BY InitStable
<1>2. StableInv /\ LocalsPrivate /\ [Next]_vars => LocalsPrivate'
  BY NextPrivate
<1> QED BY <1>1, <1>2, StoreInvariant, PTL DEF Spec

LEMMA NextObjectsStable ==
    ASSUME StableInv, [Next]_vars
    PROVE  \A r \in Refs(heap) :
        \/ heap'.objs[r] = heap.objs[r]
        \/ /\ KindOf(heap, r) = "RandomAccessIterator"
           /\ heap'.objs[r] = [heap.objs[r] EXCEPT !.content.num = @ + 1]
<1>1. \A r \in Refs(heap) : SameOrAdvanced(heap.objs[r], heap'.objs[r])
  BY NextMoved DEF Moved, Started, Stepped
<1> QED BY <1>1 DEF SameOrAdvanced, KindOf

\* Whatever code runs, no step changes an object of the store, but that an
\* iterator that is called advances by one.
THEOREM StoreIsStable == Spec => ObjectsStable
<1>1. StableInv /\ [Next]_vars
        => [\A r \in Refs(heap) :
              \/ heap'.objs[r] = heap.objs[r]
              \/ /\ KindOf(heap, r) = "RandomAccessIterator"
                 /\ heap'.objs[r] = [heap.objs[r] EXCEPT !.content.num = @ + 1]]_vars
  BY NextObjectsStable
<1> QED BY <1>1, StoreInvariant, PTL DEF Spec, ObjectsStable

LEMMA NextCallersFrozen ==
    ASSUME StableInv, [Next]_vars
    PROVE  \A i \in 1..Len(frames') : i < Len(frames') /\ i < Len(frames)
                => frames'[i] = frames[i]
<1>1. CASE Moved
  BY <1>1 DEF Moved, FrameStep
<1>2. CASE Started
  BY <1>2 DEF Started
<1> QED BY <1>1, <1>2, NextMoved

\* Whatever code runs, a step leaves the frames below the one that runs, returns,
\* calls or takes an exception (state.rs and processor/mod.rs) as they are.
THEOREM CallersAreFrozen == Spec => CallersFrozen
<1>1. StableInv /\ [Next]_vars
        => [\A i \in 1..Len(frames') : i < Len(frames') /\ i < Len(frames)
                => frames'[i] = frames[i]]_vars
  BY NextCallersFrozen
<1> QED BY <1>1, StoreInvariant, PTL DEF Spec, CallersFrozen

-----------------------------------------------------------------------------
\* A subclass test says whether the one class can be reached from the other.
TestsReachability ==
    \A c, d \in Refs(heap) :
        NativeIsSubclass(heap, c, d)
            <=> d \in Reach(Len(heap.objs), [r \in Refs(heap) |-> Bases(heap, r)], c)

LEMMA TestsReach == ASSUME IInv, BasesOlder PROVE TestsReachability
<1> DEFINE n == Len(heap.objs)
           next == [r \in Refs(heap) |-> Bases(heap, r)]
<1>1. HeapOK(heap) /\ Refs(heap) = 1..n
  BY DEF IInv, RefsValid, Refs
<1>2. n \in Nat
  BY <1>1, SequenceLen DEF HeapOK
<1>3. \A r \in Refs(heap) : Bases(heap, r) \subseteq Refs(heap)
  <2> TAKE r \in Refs(heap)
  <2>1. heap.objs[r].bases \in Seq(Refs(heap))
    BY <1>1 DEF HeapOK, ObjectOK
  <2> QED BY <2>1, ElementOfSeq DEF Bases
<1>4. IsGraph(n, next)
  BY <1>1, <1>3 DEF IsGraph
<1>5. Older(n, next)
  BY <1>1 DEF Older, BasesOlder
<1> SUFFICES ASSUME NEW c \in Refs(heap)
             PROVE  Ancestors(heap, c) = Reach(n, next, c)
  BY DEF TestsReachability, NativeIsSubclass
<1>6. \A d \in 1..n : next[d] = Bases(heap, d)
  BY <1>1
<1>7. c \in 1..n
  BY <1>1
<1> HIDE DEF next
<1> QED BY <1>2, <1>4, <1>5, <1>6, <1>7, AncestorsReach

\* Whatever code runs, the recursion by which the model makes the subclass tests
\* of except, issubclass and the unwinding (native_issubclass, primitives/mod.rs)
\* is well-founded, and they test reachability along the bases.
THEOREM SubclassTestsAreRight == Spec => []TestsReachability
<1>1. IInv /\ BasesOlder => TestsReachability
  BY TestsReach
<1> QED BY <1>1, Invariant, InheritanceIsAcyclic, PTL

=============================================================================
