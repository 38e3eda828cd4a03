------------------------------ MODULE Objects ------------------------------
(***************************************************************************)
(* The object store of the virtual machine (src/src/objects/mod.rs).       *)
(*                                                                         *)
(* A heap is a record: heap.objs is ObjectStore.all_objects, indexed by    *)
(* ObjectRef (ids are handed out in sequence; the model counts from 1),    *)
(* and heap.spaces holds the hash maps from names to references that the   *)
(* code shares through Rc<RefCell<..>>: the attributes of an object, the   *)
(* locals of a frame, the globals of a module.  Two holders share a map    *)
(* when they hold the same index into heap.spaces.                         *)
(*                                                                         *)
(* Every operator is pure: it takes a heap and returns a heap, a reference *)
(* or a Boolean.  Strings are kept as whole TLA+ strings.                  *)
(***************************************************************************)
EXTENDS Integers, Sequences

NoRef  == 0      \* Option::None where a reference or a map is optional
NoName == ""     \* Option::None where a name is optional

EmptyMap == [x \in {} |-> NoRef]

\* HashMap::insert on a map from names to references.
Insert(map, name, ref) ==
    [x \in DOMAIN map \cup {name} |-> IF x = name THEN ref ELSE map[x]]

\* Mutant: the entries of `under` win.
UnderWins(map, under) ==
    [x \in DOMAIN map \cup DOMAIN under |->
        IF x \in DOMAIN under THEN under[x] ELSE map[x]]

\* The entries of `map` win over those of `under`.
Over(map, under) ==
    [x \in DOMAIN map \cup DOMAIN under |->
        IF x \in DOMAIN map THEN map[x] ELSE under[x]]

-----------------------------------------------------------------------------
(***************************************************************************)
(* ObjectContent.  One record shape serves every variant: `refs` are the   *)
(* references it holds, `num` its number, `str` its string, `stamp` the    *)
(* container version of an iterator.                                       *)
(*   Int(i)          num                Function(m, c, d)  str, <<c>>, num  *)
(*   String(s)       str                Module(c)          <<c>>           *)
(*   Tuple/List(v)   refs               PrimitiveFunction  str             *)
(*   Dict(pairs)     refs = the keys, then the values                      *)
(*   Code            num, an index into the program's code objects         *)
(*   RandomAccessIterator(c, i, v)      <<c>>, num, stamp                  *)
(* The default arguments of a Function are the map heap.spaces[num].       *)
(* Set, FrozenSet and Bytes are never examined by the machine: Opaque.     *)
(***************************************************************************)
Kinds == {"None", "True", "False", "Int", "String", "Tuple", "List", "Dict",
          "Code", "Opaque", "Function", "Module", "PrimitiveNamespace",
          "PrimitiveFunction", "Class", "RandomAccessIterator", "OtherObject"}

Content(kind, refs, num, str) ==
    [kind |-> kind, refs |-> refs, num |-> num, str |-> str, stamp |-> 0]

Plain(kind)           == Content(kind, <<>>, 0, "")
StringOf(s)           == Content("String", <<>>, 0, s)
IntOf(i)              == Content("Int", <<>>, i, "")
TupleOf(v)            == Content("Tuple", v, 0, "")
DictOf(keys, values)  == Content("Dict", keys \o values, 0, "")
CodeOf(id)            == Content("Code", <<>>, id, "")
ModuleOf(code)        == Content("Module", <<code>>, 0, "")
FunctionOf(module, code, defaults) == Content("Function", <<code>>, defaults, module)
PrimitiveFunctionOf(name)          == Content("PrimitiveFunction", <<>>, 0, name)
IteratorOn(container, index, version) ==
    [kind |-> "RandomAccessIterator", refs |-> <<container>>, num |-> index,
     str |-> "", stamp |-> version]

KindOf(h, ref) == h.objs[ref].content.kind
DictKeys(content)   == SubSeq(content.refs, 1, Len(content.refs) \div 2)
DictValues(content) == SubSeq(content.refs, Len(content.refs) \div 2 + 1, Len(content.refs))

-----------------------------------------------------------------------------
(***************************************************************************)
(* PrimitiveObjects::new: the objects that exist before any code is read,  *)
(* in the order in which they are allocated.                               *)
(***************************************************************************)
PrimitiveNames ==
    << "object", "type", "nonetype", "None", "int", "bool", "True", "False",
       "tuple", "list", "set", "frozenset", "dict", "bytes", "str", "iterator",
       "function", "code", "module", "BaseException", "ProcessorError",
       "Exception", "NameError", "AttributeError", "TypeError",
       "StopIteration", "LookupError", "KeyError" >>

object         == 1
type_          == 2
none_type      == 3
none           == 4
int_type       == 5
bool_type      == 6
true_obj       == 7
false_obj      == 8
tuple_type     == 9
list_type      == 10
set_type       == 11
dict_type      == 13
str_type       == 15
iterator_type  == 16
function_type  == 17
code_type      == 18
module_type    == 19
baseexception  == 20
processorerror == 21
exception      == 22
nameerror      == 23
typeerror      == 25
stopiteration  == 26
lookuperror    == 27
keyerror       == 28

\* Mutant: LookupError is made a subclass of KeyError, not the other way round.
PrimitiveBasesSwapped(r) ==
    CASE r = lookuperror -> <<keyerror>>
      [] r = keyerror    -> <<exception>>
      [] r \in {object, none, true_obj, false_obj} -> <<>>
      [] OTHER           -> <<object>>

\* The superclasses each primitive class is created with.
PrimitiveBases(r) ==
    CASE r \in {object, none, true_obj, false_obj} -> <<>>
      [] r = bool_type                   -> <<int_type>>
      [] r \in {processorerror, exception} -> <<baseexception>>
      [] r \in nameerror..lookuperror    -> <<exception>>
      [] r = keyerror                    -> <<lookuperror>>
      [] OTHER                           -> <<object>>

\* Only None, True and False are instances, with attributes of their own.
PrimitiveObject(r) ==
    [version |-> r,
     name    |-> PrimitiveNames[r],
     content |-> CASE r = none            -> Plain("None")
                   [] r = true_obj        -> Plain("True")
                   [] r = false_obj       -> Plain("False")
                   [] r \in {object, type_} -> Plain("OtherObject")
                   [] OTHER               -> Plain("Class"),
     class   |-> CASE r = none            -> none_type
                   [] r \in {true_obj, false_obj} -> bool_type
                   [] OTHER               -> type_,
     bases   |-> PrimitiveBases(r),
     attrs   |-> CASE r = none -> 1 [] r = true_obj -> 2 [] r = false_obj -> 3
                   [] OTHER -> NoRef]

PrimitiveHeap ==
    [objs   |-> [r \in 1..28 |-> PrimitiveObject(r)],
     spaces |-> [s \in 1..3 |-> EmptyMap]]

\* names_map: what __primitives__.<name> finds.  "type" and "iterator" are not
\* in it ("type" is inserted under the name "tuple", then overwritten).
NamesMap ==
    [n \in {PrimitiveNames[r] : r \in 1..28} \ {"type", "iterator"} |->
        CHOOSE r \in 1..28 : PrimitiveNames[r] = n]

-----------------------------------------------------------------------------
(***************************************************************************)
(* Creating objects.  Each Object::new_instance or new_class is stored at  *)
(* once by ObjectStore::allocate, so the newest reference is Newest(h).    *)
(* A version number is drawn for every object: as one object is stored per *)
(* version drawn, the version of an object equals its reference here.      *)
(***************************************************************************)
\* Mutant: the counter is read after it is incremented.
NextId(h) == Len(h.objs) + 1

Newest(h) == Len(h.objs)

NewSpace(h, map) == [h EXCEPT !.spaces = Append(@, map)]

\* Mutant: an object is stored under the id of the last one.
AllocateOverLast(h, name, class, bases, attrs, content) ==
    [h EXCEPT !.objs[Len(h.objs)] =
        [version |-> Len(h.objs), name |-> name, class |-> class,
         bases |-> bases, attrs |-> attrs, content |-> content]]

Allocate(h, name, class, bases, attrs, content) ==
    [h EXCEPT !.objs = Append(@,
        [version |-> Len(@) + 1, name |-> name, class |-> class,
         bases |-> bases, attrs |-> attrs, content |-> content])]

NewInstance(h, name, class, content) ==
    LET h2 == NewSpace(h, EmptyMap)
    IN  Allocate(h2, name, class, <<>>, Len(h2.spaces), content)

NewClass(h, name, attrs, bases) ==
    Allocate(h, name, type_, bases, attrs, Plain("Class"))

NewString(h, s)      == NewInstance(h, NoName, str_type, StringOf(s))
NewTuple(h, v)       == NewInstance(h, NoName, tuple_type, TupleOf(v))
NewDict(h, ks, vs)   == NewInstance(h, NoName, dict_type, DictOf(ks, vs))
NewModule(h, n, c)   == NewInstance(h, n, module_type, ModuleOf(c))
NewPrimitive(h, n, fname) ==
    NewInstance(h, n, function_type, PrimitiveFunctionOf(fname))
NewFunction(h, n, module, code, defaults) ==
    LET h2 == NewSpace(h, defaults)
    IN  NewInstance(h2, n, function_type, FunctionOf(module, code, Len(h2.spaces)))

\* Mutant: the iterator remembers its own version.
IterOwnVersion(h, ref) ==
    NewInstance(h, NoName, iterator_type, IteratorOn(ref, 0, Newest(h) + 1))

\* ObjectRef::iter: an iterator at index 0 that remembers its container's version.
Iter(h, ref) ==
    NewInstance(h, NoName, iterator_type, IteratorOn(ref, 0, h.objs[ref].version))

\* ObjectRef::new_instance, the call of a class: the class's attributes, if it
\* has any map of them, are copied into a map of the instance's own.
Instantiate(h, cls) ==
    LET own == IF h.objs[cls].attrs = NoRef THEN EmptyMap ELSE h.spaces[h.objs[cls].attrs]
        h2  == NewSpace(h, own)
    IN  Allocate(h2, NoName, cls, <<>>, Len(h2.spaces), Plain("OtherObject"))

-----------------------------------------------------------------------------
\* RefCell::borrow_mut().insert on a shared map.
Bind(h, space, name, ref) == [h EXCEPT !.spaces[space] = Insert(@, name, ref)]

\* deref_mut on an iterator: the only content that is ever replaced.
SetContent(h, ref, content) == [h EXCEPT !.objs[ref].content = content]

-----------------------------------------------------------------------------
\* The objects whose repr is within that of ref.  What is in sets is not known.
Shown(h, ref) ==
    LET content == h.objs[ref].content
    IN  CASE content.kind \in {"Tuple", "List", "Dict"} ->
                 {content.refs[i] : i \in 1..Len(content.refs)}
          [] content.kind = "OtherObject"          -> {h.objs[ref].class}
          [] content.kind = "RandomAccessIterator" -> {h.objs[content.refs[1]].class}
          [] OTHER                                 -> {}

\* ObjectRef::repr calls itself as deep as there are objects only if it never ends:
\* on object and type, instances of type, and on a list that is in itself.
ReprEnds(h, ref) ==
    LET depth[n \in 0..Len(h.objs)] ==
            IF n = 0 THEN {ref} ELSE UNION {Shown(h, r) : r \in depth[n - 1]}
    IN  depth[Len(h.objs)] = {}

-----------------------------------------------------------------------------
\* Option<Vec<ObjectRef>> `bases` is Some for classes, and for `object` and
\* `type`, and None for everything made by new_instance.
HasBases(h, ref) == KindOf(h, ref) = "Class" \/ ref \in {object, type_}

Bases(h, ref) == {h.objs[ref].bases[i] : i \in DOMAIN h.objs[ref].bases}

\* What the breadth-first search of native_issubclass reaches from `first`.
\* The recursion ends because a class is made after its bases (BasesOlder).
Ancestors(h, first) ==
    LET up[c \in 1..Len(h.objs)] == {c} \cup UNION {up[b] : b \in Bases(h, c)}
    IN  up[first]

NativeIsSubclass(h, first, second) == second \in Ancestors(h, first)
NativeIsInstance(h, first, second) ==
    NativeIsSubclass(h, h.objs[first].class, second)

\* The equality of CompareOp(Eq): names and contents; HashMaps by value.
SameContent(h, a, b) ==
    IF a.kind = "Function" /\ b.kind = "Function"
    THEN /\ [a EXCEPT !.num = 0] = [b EXCEPT !.num = 0]
         /\ h.spaces[a.num] = h.spaces[b.num]
    ELSE a = b
Equal(h, a, b) ==
    /\ h.objs[a].name = h.objs[b].name
    /\ SameContent(h, h.objs[a].content, h.objs[b].content)

\* ObjectRef::module: a function's module or a module's name; anything else panics.
HasModule(h, ref) == KindOf(h, ref) \in {"Function", "Module"}
ModuleName(h, ref) ==
    IF KindOf(h, ref) = "Function" THEN h.objs[ref].content.str ELSE h.objs[ref].name

=============================================================================
