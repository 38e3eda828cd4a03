------------------------------- MODULE Marshal ------------------------------
(***************************************************************************)
(* read_object (marshal/decode.rs): how a marshal stream becomes objects.  *)
(*                                                                         *)
(* The reader calls itself for the parts of a container.  `pending` is its *)
(* stack of such calls: the containers and code objects that have begun    *)
(* and whose parts are still being read.  A stream is a sequence of        *)
(* tokens, one for each type byte with what follows it up to the parts.    *)
(* Each token is a step, and so is each container that is complete.        *)
(***************************************************************************)
EXTENDS Integers, Sequences

Singletons == {"None", "True", "False"}
Leaves     == {"Int", "String", "Bytes"}
Containers == {"Tuple", "List", "Set", "FrozenSet", "Code"}
\* "Undecodable" is a 'u' whose bytes are not UTF-8, "Null" is the type byte '0',
\* and "Unknown" is any other byte without an arm, as 'a', 'A', 't', 'l', 'g', '.'.
Bad        == {"Undecodable", "Null", "Unknown"}

\* The numbers that fit four bytes: 2^32, or fewer.  Those of 'i' have a sign.
CONSTANT Longs
ASSUME LongsAssumption == Longs \in Nat \ {0}
Signed == -(Longs \div 2)..(Longs \div 2 - 1)

\* n is the length of a container, the index of a "Ref", and what was put into
\* the four bytes of an "Int".  text is what the bytes of 'z', 'Z' or 'u' decode to.
Token == {t \in [op : Singletons \cup Leaves \cup Containers \cup {"Ref"} \cup Bad,
                 flag : BOOLEAN, n : Int, text : STRING] :
             t.n \in IF t.op = "Int" THEN Signed ELSE Nat}

CodeParts == 9
NoRef     == 0
SingletonRef(op) == CASE op = "None" -> 1 [] op = "True" -> 2 [] op = "False" -> 3

VARIABLES
    heap,           \* ObjectStore.all_objects
    fresh,          \* CURRENT_REF_ID
    input,          \* the tokens that have not been read
    references,
    pending,        \* [op, at, want, got]: at is the reserved reference, if any
    result,         \* what the outermost call has returned
    status          \* "reading", or how it failed: "error" or "panic"

reader == <<input, references, pending, result, status>>
store  == <<heap, fresh>>

-----------------------------------------------------------------------------
Object(kind, items, num, text) == [kind |-> kind, items |-> items, num |-> num, text |-> text]

\* The references that an object holds.
Items(c) == IF c.kind = "Code" THEN c.consts \o c.freevars \o c.cellvars \o <<c.lnotab>>
            ELSE c.items

\* Nothing else is stored until the parts are there.
PrimitiveStore == [r \in {1, 2, 3} |->
    Object(CASE r = 1 -> "None" [] r = 2 -> "True" [] r = 3 -> "False", <<>>, 0, "")]

With(r, c) == [x \in DOMAIN heap \cup {r} |-> IF x = r THEN c ELSE heap[x]]

Innermost == pending[Len(pending)]
Outer     == SubSeq(pending, 1, Len(pending) - 1)
Complete  == pending # <<>> /\ Len(Innermost.got) = Innermost.want

Busy      == status = "reading" /\ result = NoRef
Tok       == Head(input)
At(ops)   == Busy /\ ~Complete /\ input # <<>> /\ Tok.op \in ops

\* Return to the call that reads the parts of the innermost of calls.
Return(calls, r) ==
    IF calls = <<>> THEN pending' = calls /\ result' = r
    ELSE /\ pending' = [calls EXCEPT ![Len(calls)].got = Append(@, r)]
         /\ UNCHANGED result

Remember(r, flag) == references' = IF flag THEN Append(references, r) ELSE references
Stop(how) == status' = how /\ UNCHANGED <<store, input, references, pending, result>>

\* Mutant: only the parts of a container are counted.
CountedNever == FALSE

\* The container's own reference is counted, except a frozenset's, for which
\* build_container is called with false.
Counted == Tok.flag /\ Tok.op # "FrozenSet"

-----------------------------------------------------------------------------
(***************************************************************************)
(* The arms of the match.                                                  *)
(***************************************************************************)
ReadSingleton ==
    /\ At(Singletons)
    /\ input' = Tail(input)
    /\ Return(pending, SingletonRef(Tok.op))
    /\ UNCHANGED <<store, references, status>>

\* A u32 is made of the four bytes, whatever the sign of what was put into them.
read_long(n) == n % Longs

ReadLeaf ==
    /\ At(Leaves)
    /\ heap' = With(fresh, Object(Tok.op, <<>>, IF Tok.op = "Int" THEN read_long(Tok.n) ELSE 0, Tok.text))
    /\ fresh' = fresh + 1
    /\ input' = Tail(input)
    /\ Remember(fresh, Tok.flag)
    /\ Return(pending, fresh)
    /\ UNCHANGED status

\* A reference is reserved before the parts are read.
ReadContainer ==
    /\ At(Containers)
    /\ input' = Tail(input)
    /\ Remember(fresh, Counted)
    /\ fresh' = IF Counted THEN fresh + 1 ELSE fresh
    /\ pending' = Append(pending,
           [op |-> Tok.op, at |-> IF Counted THEN fresh ELSE NoRef,
            want |-> IF Tok.op = "Code" THEN CodeParts ELSE Tok.n, got |-> <<>>])
    /\ UNCHANGED <<heap, result, status>>

ReadRef ==
    /\ At({"Ref"}) /\ Tok.n < Len(references)
    /\ input' = Tail(input)
    /\ Return(pending, references[Tok.n + 1])
    /\ UNCHANGED <<store, references, status>>

\* The end of the file is an error of I/O.
ReadError ==
    /\ Busy /\ ~Complete
    /\ input # <<>> => Tok.op \in {"Undecodable", "Null"}
    /\ Stop("error")

ReadPanic ==
    /\ \/ At({"Unknown"})
       \/ At({"Ref"}) /\ Tok.n >= Len(references)      \* assert!
    /\ Stop("panic")

-----------------------------------------------------------------------------
(***************************************************************************)
(* Containers whose parts have been read.                                  *)
(***************************************************************************)
\* deref_checktype!: the part is in the store and has the content expected.
Is(r, kind)  == r \in DOMAIN heap /\ heap[r].kind = kind
IsTexts(r)   == Is(r, "Tuple") /\ \A i \in 1..Len(heap[r].items) : Is(heap[r].items[i], "String")
TextsOf(r)   == [i \in 1..Len(heap[r].items) |-> heap[heap[r].items[i]].text]

IsCodeOf(parts) ==
    /\ Is(parts[1], "Bytes")
    /\ Is(parts[2], "Tuple")
    /\ IsTexts(parts[3]) /\ IsTexts(parts[4])
    /\ Is(parts[5], "Tuple") /\ Is(parts[6], "Tuple")
    /\ Is(parts[7], "String") /\ Is(parts[8], "String")

CodeOf(parts) ==
    [kind     |-> "Code",
     code     |-> heap[parts[1]].text,
     consts   |-> heap[parts[2]].items,
     names    |-> TextsOf(parts[3]),
     varnames |-> TextsOf(parts[4]),
     freevars |-> heap[parts[5]].items,
     cellvars |-> heap[parts[6]].items,
     filename |-> heap[parts[7]].text,
     name     |-> heap[parts[8]].text,
     lnotab   |-> parts[9]]

\* Mutants: the parts of a container are stored under another reference than
\* the one that was reserved; the list of references forgets what is complete.
BuildAnew ==
    /\ Busy /\ Complete
    /\ Innermost.op = "Code" => IsCodeOf(Innermost.got)
    /\ heap' = With(fresh, IF Innermost.op = "Code" THEN CodeOf(Innermost.got)
                           ELSE Object(Innermost.op, Innermost.got, 0, ""))
    /\ fresh' = fresh + 1
    /\ Return(Outer, fresh)
    /\ UNCHANGED <<input, references, status>>
BuildStaying ==
    /\ Busy /\ Complete
    /\ UNCHANGED <<store, reader>>

Build ==
    /\ Busy /\ Complete
    /\ Innermost.op = "Code" => IsCodeOf(Innermost.got)
    /\ Innermost.at \notin DOMAIN heap
    /\ LET r == IF Innermost.at = NoRef THEN fresh ELSE Innermost.at
       IN  /\ heap' = With(r, IF Innermost.op = "Code" THEN CodeOf(Innermost.got)
                              ELSE Object(Innermost.op, Innermost.got, 0, ""))
           /\ Return(Outer, r)
    /\ fresh' = IF Innermost.at = NoRef THEN fresh + 1 ELSE fresh
    /\ UNCHANGED <<input, references, status>>

\* A part of another type, or one that is still being read, or allocate_at
\* under a reference that has an object.
BuildPanic ==
    /\ Busy /\ Complete
    /\ \/ Innermost.op = "Code" /\ ~IsCodeOf(Innermost.got)
       \/ Innermost.at \in DOMAIN heap
    /\ Stop("panic")

Read == \/ ReadSingleton \/ ReadLeaf \/ ReadContainer \/ ReadRef \/ ReadError \/ ReadPanic
        \/ Build \/ BuildPanic

-----------------------------------------------------------------------------
(***************************************************************************)
(* A reference is reserved while its object is being read, and stored from *)
(* then on: never both, and no reference is ever neither.  No allocate_at  *)
(* can find its place taken, and every number given out will be filled.    *)
(***************************************************************************)
Reserved == {pending[i].at : i \in 1..Len(pending)} \ {NoRef}
Given    == 1..(fresh - 1)

ReservedOrStored ==
    /\ DOMAIN heap \cup Reserved = Given
    /\ DOMAIN heap \cap Reserved = {}
    /\ \A i, j \in 1..Len(pending) : pending[i].at = pending[j].at => i = j \/ pending[i].at = NoRef

=============================================================================
