------------------------------- MODULE Calls -------------------------------
(***************************************************************************)
(* Calls: call_function with its binding of arguments (processor/mod.rs,   *)
(* objects/mod.rs) and the primitive functions (primitives/mod.rs).        *)
(*                                                                         *)
(* In every operator below h is the store and fs the call stack when the   *)
(* call starts: the callee and its arguments are already popped from the   *)
(* last frame, which receives the result.                                  *)
(***************************************************************************)
EXTENDS Machine

Strings(h, refs) == \A i \in 1..Len(refs) : KindOf(h, refs[i]) = "String"
StringAt(h, ref) == h.objs[ref].content.str
Texts(h, refs)   == [i \in 1..Len(refs) |-> StringAt(h, refs[i])]

\* A HashMap filled by inserting names[i] -> refs[i] in order: the last wins.
LastAt(names, n, name) ==
    CHOOSE i \in 1..n : names[i] = name /\ \A j \in (i + 1)..n : names[j] # name
MapOf(names, refs) ==
    LET n == IF Len(names) < Len(refs) THEN Len(names) ELSE Len(refs)
    IN  [x \in {names[i] : i \in 1..n} |-> refs[LastAt(names, n, x)]]

Only(map, names) == [x \in DOMAIN map \cap names |-> map[x]]

\* raise, with a message that has the repr of ref: the stack overflows if that
\* does not end.
RaiseNaming(h, fs, ref, class) ==
    IF ReprEnds(h, ref) THEN Raise(h, fs, class) ELSE Panic("panic")

-----------------------------------------------------------------------------
(***************************************************************************)
(* Binding.  varnames holds the positional arguments, the keyword-only     *)
(* ones, then the name of *args and that of **kwargs.                      *)
(* get_varkwargs_name tests co_varkwargs where co_varargs decides whether  *)
(* a name of *args comes first: it always skips one name.                  *)
(***************************************************************************)
StarArgs(c)   == c.argcount + c.kwonlyargcount + 1
StarKwargs(c) == StarArgs(c) + 1
Keywords(c)   == {c.varnames[i] : i \in (c.argcount + 1)..(c.argcount + c.kwonlyargcount)}

\* Mutant: an unknown keyword is dropped.
RemainingNone(c, h, keys) == {}

\* Which keyword arguments no parameter names: they go to **kwargs.
Remaining(c, h, keys) ==
    {i \in 1..Len(keys) : StringAt(h, keys[i]) \notin Keywords(c)}

\* The panics of the binding: arity, slices and unwraps of varnames, keys.
Unbindable(c, h, defaults, args, keys) ==
    \/ IF c.varargs
       THEN \/ c.argcount > Len(args)
            \/ StarArgs(c) > Len(c.varnames)
            \/ c.varnames[StarArgs(c)] \in DOMAIN defaults
       ELSE c.argcount # Len(args)
    \/ c.argcount + c.kwonlyargcount > Len(c.varnames)
    \/ ~Strings(h, keys)
    \/ IF c.varkwargs THEN StarKwargs(c) > Len(c.varnames)
                      ELSE Remaining(c, h, keys) # {}

\* The new frame's locals: the defaults' clone, then *args, the keywords,
\* **kwargs and the positional arguments inserted over it in that order.
BindArguments(c, h, defaults, args, keys, values, rest) ==
    LET h1 == IF c.varargs
              THEN NewTuple(h, SubSeq(args, c.argcount + 1, Len(args)))
              ELSE h
        star == IF c.varargs
                THEN Insert(defaults, c.varnames[StarArgs(c)], Newest(h1))
                ELSE defaults
        named == Over(Only(MapOf(Texts(h, keys), values), Keywords(c)), star)
        h2 == IF c.varkwargs
              THEN NewDict(h1, [i \in 1..Len(rest) |-> keys[rest[i]]],
                               [i \in 1..Len(rest) |-> values[rest[i]]])
              ELSE h1
        all == IF c.varkwargs
               THEN Insert(named, c.varnames[StarKwargs(c)], Newest(h2))
               ELSE named
    IN  NewSpace(h2, Over(MapOf(c.varnames, SubSeq(args, 1, c.argcount)), all))

\* The indices in `set` in increasing order, as a sequence.
IsOrdering(rest, set) ==
    /\ {rest[k] : k \in 1..Len(rest)} = set
    /\ \A k \in 2..Len(rest) : rest[k - 1] < rest[k]

\* Mutant: the function's defaults become the locals, not a clone of them.
CallCodeSharing(h, fs, func, args, keys, values) ==
    LET f  == h.objs[func].content
        id == h.objs[f.refs[1]].content.num
    IN  Continue(h, Append(fs, NewFrame(func, id, Code[id].instructions, f.num)))

CallCode(h, fs, func, args, keys, values) ==
    LET f  == h.objs[func].content
        id == h.objs[f.refs[1]].content.num
        c  == Code[id]
        defaults == h.spaces[f.num]
    IN  \/ /\ Unbindable(c, h, defaults, args, keys)
           /\ Panic("panic")
        \/ /\ ~Unbindable(c, h, defaults, args, keys)
           /\ LET set == Remaining(c, h, keys)
              IN  \E rest \in [1..Cardinality(set) -> set] :
                    /\ IsOrdering(rest, set)
                    /\ LET h2 == BindArguments(c, h, defaults, args, keys, values, rest)
                       IN  Continue(h2, Append(fs, NewFrame(func, id, c.instructions,
                                                            Len(h2.spaces))))

-----------------------------------------------------------------------------
(***************************************************************************)
(* The primitives.  They ignore keyword arguments.                         *)
(***************************************************************************)
\* write_stdout: what is written is the content, one write per call.
WriteStdout(h, fs, args) ==
    IF /\ Len(args) = 1
       /\ KindOf(h, args[1]) \in {"String", "Int", "True", "False"}
    THEN /\ stdout' = Append(stdout, h.objs[args[1]].content)
         /\ frames' = ReturnTo(fs, none)
         /\ heap' = h
         /\ UNCHANGED <<prog, modules, queue, outcome>>
    ELSE Panic("panic")

(***************************************************************************)
(* build_class(func, name, bases...): run the function's code in a frame   *)
(* whose locals are the attributes of the new class.  The frame returns    *)
(* the class: the code's final "LOAD_CONST None; RETURN_VALUE" is replaced *)
(* after the Nops that follow it, if any, are dropped.                     *)
(***************************************************************************)
LastInstruction(is) ==
    CHOOSE k \in 0..Len(is) :
        /\ k # 0 => is[k].op # "Nop"
        /\ \A j \in (k + 1)..Len(is) : is[j].op = "Nop"
ClassBody(is, cls) ==
    SubSeq(is, 1, LastInstruction(is) - 2)
        \o <<Instruction("PushImmediate", cls), Instruction("ReturnValue", 0)>>

IsCodeFunction(h, ref) ==
    KindOf(h, ref) = "Function" /\ KindOf(h, h.objs[ref].content.refs[1]) = "Code"

\* Mutant: the first base is taken for one of the arguments before it.
BuildClassSkipping(h, fs, args) ==
    LET id    == h.objs[h.objs[args[1]].content.refs[1]].content.num
        bases == IF Len(args) <= 3 THEN <<object>> ELSE SubSeq(args, 4, Len(args))
        h1    == NewSpace(h, EmptyMap)
        h2    == NewClass(h1, StringAt(h, args[2]), Len(h1.spaces), bases)
        cls   == Newest(h2)
    IN  Continue(h2, Append(fs, NewFrame(cls, id, ClassBody(Code[id].instructions, cls),
                                         Len(h1.spaces))))

BuildClass(h, fs, args) ==
    IF /\ Len(args) >= 2
       /\ IsCodeFunction(h, args[1])
       /\ KindOf(h, args[2]) = "String"
    THEN LET id    == h.objs[h.objs[args[1]].content.refs[1]].content.num
             is    == Code[id].instructions
             bases == IF Len(args) = 2 THEN <<object>> ELSE SubSeq(args, 3, Len(args))
             h1    == NewSpace(h, EmptyMap)
             h2    == NewClass(h1, StringAt(h, args[2]), Len(h1.spaces), bases)
             cls   == Newest(h2)
         IN  IF LastInstruction(is) # 0 /\ is[LastInstruction(is)].op = "ReturnValue"
             THEN Continue(h2, Append(fs, NewFrame(cls, id, ClassBody(is, cls),
                                                   Len(h1.spaces))))
             ELSE Panic("panic")
    ELSE Panic("panic")

Bool(b) == IF b THEN true_obj ELSE false_obj

IsSubclass(h, fs, args) ==
    IF Len(args) = 2
    THEN Continue(h, ReturnTo(fs, Bool(NativeIsSubclass(h, args[1], args[2]))))
    ELSE Panic("panic")

IsInstance(h, fs, args) ==
    IF Len(args) = 2
    THEN Continue(h, ReturnTo(fs, Bool(NativeIsInstance(h, args[1], args[2]))))
    ELSE Panic("panic")

\* Mutant: the iterator does not advance.
AdvanceStuck(h, fs, ref) ==
    LET it        == h.objs[ref].content
        container == h.objs[it.refs[1]]
    IN  IF it.num < Len(container.content.refs)
        THEN Continue(h, ReturnTo(fs, container.content.refs[it.num + 1]))
        ELSE Raise(h, fs, stopiteration)

\* iter: the next value of an iterator over a list or a tuple, or StopIteration.
\* For anything else the exception's class is, in the code, an instance.
Advance(h, fs, ref) ==
    LET it        == h.objs[ref].content
        container == h.objs[it.refs[1]]
    IN  IF \/ container.version # it.stamp
           \/ container.content.kind \notin {"List", "Tuple"}
        THEN Panic("panic")
        ELSE IF it.num < Len(container.content.refs)
        THEN Continue(SetContent(h, ref, [it EXCEPT !.num = @ + 1]),
                      ReturnTo(fs, container.content.refs[it.num + 1]))
        ELSE Raise(h, fs, stopiteration)

IterNext(h, fs, args) ==
    IF Len(args) # 1 THEN Panic("panic")
    ELSE IF KindOf(h, args[1]) = "RandomAccessIterator" THEN Advance(h, fs, args[1])
    ELSE LET h1 == NewInstance(h, NoName, typeerror, Plain("OtherObject"))
         IN  RaiseNaming(h1, fs, args[1], Newest(h1))

CallPrimitive(h, fs, name, args) ==
    CASE name = "write_stdout" -> WriteStdout(h, fs, args)
      [] name = "build_class"  -> BuildClass(h, fs, args)
      [] name = "issubclass"   -> IsSubclass(h, fs, args)
      [] name = "isinstance"   -> IsInstance(h, fs, args)
      [] name = "iter"         -> IterNext(h, fs, args)
      [] OTHER                 -> Raise(h, fs, baseexception)

-----------------------------------------------------------------------------
\* call_function.  A class ignores its arguments; only functions see keywords.
Call(h, fs, func, args, keys, values) ==
    LET f == h.objs[func].content
    IN  CASE f.kind = "Class" ->
               LET h2 == Instantiate(h, func)
               IN  Continue(h2, ReturnTo(fs, Newest(h2)))
          [] f.kind = "Function" ->
               IF KindOf(h, f.refs[1]) = "Code"
               THEN CallCode(h, fs, func, args, keys, values)
               ELSE RaiseNaming(h, fs, f.refs[1], processorerror)
          [] f.kind = "PrimitiveFunction" -> CallPrimitive(h, fs, f.str, args)
          [] OTHER -> RaiseNaming(h, fs, func, typeerror)

=============================================================================
