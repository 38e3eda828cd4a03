# A verification project for pythonvm-rust

TLA+ models of the virtual machine in `src/` (a Python virtual machine for the
bytecode of CPython 3.6, written in Rust), model-checked with TLC and, for
every program and every bound, proved with TLAPS where that is said below.

The machine is one sequential process: there are no threads and no persistence.
What makes it hard is a pair of stacks in each frame (values and blocks) that
every instruction changes a little, non-local jumps that cut through both,
maps that frames, classes and modules share, and a call stack from which
exceptions remove frames. The sequences of legal instructions that lead to a
wrong state are long, and the repository's tests are ten Python programs.

## Inventory

| component | source | state | operations | what makes it correct |
|---|---|---|---|---|
| interpreter loop | `processor/mod.rs` run_code | program counter of each frame | one per instruction | compiled programs behave as in CPython; any code leaves the state well formed |
| value stack | `varstack.rs` | a vector per frame | push, pop, top, peek, pop_many, pop_all_and_get_n_last | each statement leaves the stack as it found it |
| frames, blocks | `processor/frame.rs` | object, code, locals, stack, blocks | Frame::new | blocks are on the stack exactly while they are in force |
| raising, unwinding | `state.rs` | the call stack | raise, unwind, return_value, raise_processor_error | the innermost block that takes the exception gets it; the frames below are untouched |
| calls, binding | `processor/mod.rs` call_function; `objects/mod.rs` Code | - | call a class, a function, a primitive | every parameter gets its argument, no argument is lost, locals are private |
| names, attributes | `processor/mod.rs` load_name, load_attr; setattr | shared maps | the load and store instructions | the right map is read and written |
| object store | `objects/mod.rs` | references to objects; two global counters | allocate, allocate_at, deref, new_instance, new_class, iter | no reference dangles, objects do not change |
| primitives | `primitives/mod.rs` | - | write_stdout, build_class, issubclass, isinstance, iter | iterators stay within their container |
| class search | `primitives/mod.rs` native_issubclass | visited set, queue | the loop's iterations | the answer is reachability, and comes |
| loading | `lib.rs`, get_module_code, call_main_code, call_module_code | the store, modules | read main, read builtins, run builtins, run main | each file has its own references, each module its own globals and call stack |
| unmarshaller | `marshal/decode.rs` | list of references, the calls under way | read_object | what is read is what CPython wrote; no reference is left without an object |
| instruction decoder | `processor/instructions.rs` | prefix, pending Nops | next | instructions and addresses agree with CPython's, jumps land |
| sandbox | `sandbox/mod.rs` | none | stdout, open_module | - |
| builtins | `pythonlib/builtins.py` | its globals | imports from `__primitives__`, print | - |
| command line | `bin.rs` | none | - | - |

They interact through calls on one `State` and one call stack. run_code takes
an instruction from the last frame; the instruction changes that frame, calls
call_function (which pushes a frame, or runs a primitive that returns at once
or raises), or raises through unwind, which pops frames. Sharing is through
reference-counted maps: the frame of a module and `state.modules` hold the same
map, and so do the frame of a class body and the class. The unmarshaller fills
the store before anything runs. EnvProxy provides the bytes of a module and
takes what is written.

The hazards, each at its line, are in PROJECT.json: blocks left behind or
removed too early; values of an enclosing statement destroyed; an exception
delivered to the wrong frame; a value returned to the wrong frame; defaults
shared between calls; a parameter bound from the wrong source; a stale or
overrun iterator; an endless search of the bases; a reference without an object,
or to another object than the one that was written; an instruction decoded under another
address, and a jump that lands beside its target.

## Modules

| module | models | about |
|---|---|---|
| `Objects` | `objects/mod.rs`, `native_issubclass` as an operator | objects, the store, the primitive objects, shared maps |
| `Machine` | `state.rs`, `frame.rs`, `varstack.rs` | variables, programs, frames, blocks, unwind, raise |
| `Calls` | call_function, `primitives/mod.rs` | binding of arguments, the primitives |
| `Interpreter` | run_code, call_main_code, call_module_code | one action per instruction, `Spec`, the properties of any code |
| `Binding` | Python's rules for calls (external) | what a call by any code must bind, refuse and start |
| `Discipline` | a verifier of bytecode (not in the source) | the stacks of a frame foretold for each address; the properties of code that can be verified |
| `Python` | CPython 3.6 (external), `pythonlib/builtins.py` | statements, their bytecode, what they do |
| `Compiled` | the image of a compiled program | `Interpreter` on `Python`, against what CPython does |
| `Script` | what CPython's output promises | abstract; `Compiled` implements it |
| `ClassGraph`, `Subclass` | native_issubclass, an action per iteration | `Spec`, over any graph |
| `Reachability` | what native_issubclass promises | abstract; `Subclass` implements it |
| `Wordcode`, `Decoder` | `instructions.rs` | units of code; the iterator, an action per turn; where jumps go |
| `Ceval` | how CPython fetches (external) | abstract; `Decoder` implements it |
| `Marshal` | `marshal/decode.rs` | read_object over a stream of tokens |
| `Loading` | `lib.rs`, get_module_code | `Marshal` twice over one store; `Spec` |
| `Dump` | CPython's writer (external) | the states of w_object on a graph, and the tokens it writes; when a store holds a graph |
| `StoreProofs`, `GraphProofs`, `InterpreterProofs`, `StabilityProofs`, `DisciplineProofs`, `SubclassProofs`, `DecoderProofs`, `LoadingProofs` | | theorems and proofs |
| `MCStructured`, `MCArbitrary`, `MCCalls`, `MCDivergence`, `MCSubclass`, `MCDecoder`, `MCLoading`, `Listing` | | instances for TLC |

`Machine` extends `Objects`, `Calls` extends `Machine`, `Interpreter` extends
`Calls`: the layers are those of the calls between the functions of the source.
`Loading` extends `Marshal` in the same way. The three parts of a run of the program
follow each other and share data, not time: `Loading` ends with a store, `Decoder`
makes the instructions of a frame from the bytes of a code object, and
`Interpreter` starts from a store whose codes are decoded. What one hands to
the next is stated on both sides: `Loading!ClosedWhenLoaded` and
`Decoder!ReadsLikeCPython` are proved, `Interpreter` assumes `ProgramsAssumption`.

### State

`heap` is `state.store` with the maps its objects share: `heap.objs[r]` is the
object with reference r, `heap.spaces[s]` a shared map. A reference is a
position in `objs`, which is what the counter of ObjectRef::new amounts to, since
nothing is freed; a map shared by two holders is one position in `spaces` that
both name. An object has its version, name, class, bases, attributes (a
position, or `NoRef`) and content. A content is a kind with references (`refs`),
a number (`num`: an integer's value, a code's id, an iterator's index, a
function's map of defaults), a string and the version an iterator remembers.
`frames` is the call stack; a frame has what the Rust struct has. `modules` is
`state.modules`, `queue` the modules that call_main_code has still to run,
`stdout` the sequence of writes, and `outcome` "running", "returned" or the
way the process panicked: with the name of a ProcessorError, with
"UncaughtException" at the end of unwind, or with "panic" for the other
`panic!`s and unwraps. A panic ends the process; nothing catches it.

A program, for the interpreter, is what is in the two files: the contents of the objects that
the unmarshaller stores, in order, and the code with its instructions decoded.
Sets, frozen sets and byte strings are one kind, "Opaque", which no instruction looks
into. Text and the wording of messages are left out. Of the repr that a message quotes there is
whether it ends (`ReprEnds`): that of an instance shows the class, and `object` and `type`
are instances of `type` to it, so that theirs never ends, the stack overflows and the process dies. What is in a
set is not known to the model and its repr is taken to end.

### Actions

Each instruction is an action that is enabled when its fetch and first checks
succeed; `Fail` is the action for the checks of `py_unwrap!`, `pop_stack!` and
`top_stack!`, which all end in raise_processor_error, that is in a panic. A
handler that panics after a few pops panics with the state before them: nothing
can see them any more. Instructions that call or raise contain the whole call:
`ForIter` allocates the primitive, pushes its block, runs iter and, when
the iterator is exhausted, the unwinding up to the block that takes the
exception. `StartModule` is call_module_code up to its first instruction;
`ReturnValue` of the last frame ends it.

`Subclass` has one action for each way through an iteration of the search.
`Objects!NativeIsSubclass` has its answer (a recursion over the bases); the
run `subclass` compares the two, and `AnswersLikeTheModel` proves them equal.

`Decoder` has a step for each `Some` of next() (`Filler`, a pending Nop, and
`Emit`, an instruction) and for each turn of its loop that reads an EXTENDED_ARG
(`Prefix`). `out` is what collect() has so far: a slot of it is what the program
counter counts. A unit is an opcode and a byte; the opcode is called by the
instruction it stands for, the byte has `Base` values. MachineTarget and
CPythonTarget say where a jump goes from its slot: by run_code's arithmetic, and by CPython's.

`Marshal` has a token for each type byte with what follows it up to its parts: its
length, its index or its text; the four bytes of an integer go through read_long, which
loses the sign (`read_long(n) == n % Longs`, where `Longs` is 2^32 or fewer).
read_object calls itself for the parts; `pending`
is the stack of these calls, and each holds the reference that was reserved, if
the object is counted, and the parts read so far. There is an action for each
group of arms that does the same (`ReadSingleton`, `ReadLeaf`, `ReadContainer`, `ReadRef`)
and `Build` for what follows the parts: the checks of a code object, allocate or allocate_at.
`ReadError` and `ReadPanic`, `BuildPanic` are the two ways to fail. `Loading` puts a
header in front, runs the reader on the main file and, with a new reader on the
same store, on builtins, and distinguishes the failures that run_file returns from those that
stop the process.

### Reference definitions

These say what is right, from CPython's side; they are external and none is
derived from the code they judge.

`Python` says what CPython does, twice: `Compile` gives the bytecode of a
statement and `Run` its effect (output and exception). A program
is a module that defines three exception classes (one with two bases) by class
statements and a function, and then has writes through `__primitives__`, prints, raises, names
that nothing defines, calls of the function, for loops over a tuple, and try statements with
handlers and an else. Before it the machine runs the whole of `pythonlib/builtins.py`, compiled, with the print
that the prints call.
`Supported` is the part of it on which the two agree: no loop inside a try
statement of the same frame, none of the latter inside a loop, nothing but writes in a
handler. The three violations of ExecutesLikePython below are one program outside each restriction.
A fourth one, `sure`, keeps an exception that the machine raised itself (NameError) away from
handlers of which none takes it: END_FINALLY then panics.

`Ceval` is CPython's fetch: EXTENDED_ARG shifts the argument and goes on; an
instruction is at the address of its first unit. `Dump` is CPython's marshal
writer: which objects get a flag and how those are numbered. Its recursion is a run of
states, one for each token and one for the end of each container, with the stack of the
calls under way. The kind of a node is what the type byte depends on. Those that the reader supports are None, True,
False, integers of 32 bits with a sign, byte strings, tuples, lists, sets, frozen sets, code, and text that is
ASCII of fewer than 256 characters or that is not interned and has no lone surrogate. The reader has no
arm for ASCII of 256 characters or more ("LongAscii": a long docstring), for interned text
that is not ASCII, for larger integers, for floats and complex numbers and for Ellipsis (`Unknown`,
the panic of decode.rs:254), and cannot decode a lone surrogate (`Undecodable`).
A graph may have any of them, but no dict, which CPython never puts into code. A graph may be infinite, a run
is not; `IsWritten` says of any file whether it is what CPython writes of such a graph. A part of that is which runs exist (`Regular`): an object
that is not flagged has one owner and is met once, and a code object does not hold itself.
`Holds` says that a store and a graph correspond from their roots, one object to one node, so that what
is shared stays shared and what is not stays apart. In `MCLoading` `RunOn` makes the
runs, and TLC confirms that they are what `IsWritten` describes (`AllAreWritten`).

`Binding` has the rules by which Python binds arguments, written from the language
reference, not from the code, and stated of the operands that CPython's compiler
pushes for a call, whatever code pushed them. They leave out keywords that name
positional parameters, which the machine does not support, and **kw without *args,
which is the finding `star_kwargs`.

`Discipline` has what a verifier of bytecode checks. A shape says for an address of a code
what is on the value stack there (anything, an iterator, an exception) and which try
statements are in force. `Obeys` says that a code keeps to given shapes: it starts
with nothing, every instruction finds what it needs, each address it leads to has the
shape that results, and the handlers of what is in force are there with what unwind pushes. The source
verifies nothing; the rules admit what CPython compiles within the limits above.
An except clause may be open below: what unwind found on the stack stays under the
exception until POP_EXCEPT empties it.

## Runs

| run | instance | shows |
|---|---|---|
| `structured` | every supported module with a compound statement of depth two, or two in a row, its bodies of at most two simple statements, with three functions for it to call: 504 programs | ExecutesLikePython; the codes can be verified (an assumption TLC evaluates), and RaisesExceptions, FollowsShapes, NoStaleHandler, LoopKeepsIterator, ReturnsCleanly; RunsTheScript: `Compiled` implements `Script` |
| `arbitrary` | all 17^3 sequences of three fragments of code that no compiler produced | TypeOK, RefsValid, BasesOlder, IteratorsInRange, LocalsPrivate, ObjectsStable, CallersFrozen |
| `calls` | signatures with up to two positional parameters, a keyword-only one with or without default, *args, **kw, times calls with up to three positional arguments and up to two keywords | CallsBindLikePython, CallsRefuseExtraArguments |
| `subclass` | all graphs of three classes with at most two bases each | SearchInv, AnswersReachability, AnswersLikeObjects; MeetsPromise: `Subclass` implements `Reachability` |
| `decoder` | every code of at most four units out of eleven, and codes that end within a unit; relative jumps without prefix | SlotsAccountFor, JumpsLand; ReadsLikeCPython: `Decoder` implements `Ceval` |
| `loading` | what CPython writes of graphs of three objects and of a module with a function, with negative integers and with each kind of object that the reader does not support, and streams and files it does not write | ReservedOrStored, ClosedWhenLoaded, ReadsWhatWasWritten, OnlyGrows, LoadEnds |
| `star_kwargs` | as `calls`, with signatures that have **kw and no *args | CallsAcceptLikePython is violated |
| `loop_in_try`, `try_in_loop`, `raise_in_handler` | one program each | ExecutesLikePython is violated |
| `far_jump` | one code, a jump over more than a byte counts | JumpsLand is violated |
| `frozenset` | one file, with a shared frozenset | ReadsWhatWasWritten is violated |

RaisesExceptions says that what RAISE_VARARGS finds on the stack is an instance of a class that
descends from BaseException, and `RaisesNoStopIteration`, which is a part of it: it is neither None
nor a StopIteration, and nothing but FOR_ITER calls iter. ReadsWhatWasWritten says that each of two files
that CPython wrote is read as the objects that were written, shared as they were, but for the signs of
integers, or refused, and refused only if one of them has an object that the reader does not support. LoadEnds says that loading
comes to an end, whether with a result, an error or a panic.

RunsTheScript, MeetsPromise and ReadsLikeCPython are refinements: the detailed
specification implies the abstract one, safety and liveness both, under a
mapping. `Script` sees stdout and the outcome of the machine, `Reachability` the
question and the answer of the search, `Ceval` the instructions and their
addresses, for which a Nop is nothing and a slot is an address; everything else the
detailed ones do is a stutter there.

What the violations show (each is a finding in PROJECT.json):

* `star_kwargs`: get_varkwargs_name tests co_varkwargs where it should test
  co_varargs, and looks one name too far.
* `loop_in_try`: FOR_ITER pushes a block each time it runs. A loop leaves blocks
  behind, the POP_BLOCK at the end of a try body removes one of them, and the
  handler stays in force after the statement: an exception raised after the
  statement enters it.
* `try_in_loop`: POP_EXCEPT empties the whole value stack, the iterator of the
  loop around the statement included.
* `raise_in_handler`: the handler's block is on the block stack while the handler
  runs, so that an exception raised in it enters it again, without end.
* `far_jump`: a relative jump with an EXTENDED_ARG lands one instruction short
  for each prefix. The decoder puts its Nops behind the instruction; run_code counts from the
  slot after the instruction, CPython from after its last unit.
* `frozenset`: a flagged frozenset is not counted among the references, so that
  later ones mean another object, or none.

### Bounds

MaxObjects, MaxFrames and MaxDepth stop the machine from being followed past a
store, a call stack or a stack of a given size (`WithinBounds`; `Halted` is the
stuttering step from there on, and of a process that has ended, so that TLC's
deadlock check stays on). In `structured` no program reaches them: RunsTheScript
would be violated if one did. The programs of `calls` have no jump and two frames at
most, fewer than the bounds allow. Of the violations, only `raise_in_handler` goes on
for ever, and its output is wrong on the second entry of the handler, far below them.
In `arbitrary` they cut the programs that loop: jumps backwards and
functions that call themselves; 50 objects are 25 primitive ones, 7 of the
image, 4 modules and some 14 of the program's own, enough for each fragment to run several
times, and 4 frames are enough to return, raise and unwind across two
suspended ones.
The depth of nesting in `structured` is two because every rule of the block
stack concerns a statement and the one around it; loops run zero, one and two
times because the block that FOR_ITER leaves behind per iteration makes zero,
one and more rounds differ. In `calls`, two positional parameters tell order from
identity, and one keyword known and one unknown meet every path of the binding.
The three classes of `subclass` allow self-loops, a cycle through a third class,
repeated bases and the same base reached twice.

In `decoder` a byte has eight values, so that three bits of prefix make a wide argument.
Four units hold two instructions with a prefix each, one with three,
and prefixes that nothing follows; the eleven units have each kind of jump, an argument that is adjusted, one whose range
is checked, one of which four bits count (MAKE_FUNCTION, which a prefix takes past them), and an opcode that is not supported. The codes
whose relative jumps have a prefix are left to `far_jump`; DecodesLikeCPython is proved for them too.
In `loading` the graphs have a root with two parts, one of which holds any of the three
objects and one a leaf or a container: a cycle, an object that two others
hold, one that holds itself, an object that the reader does not support, the integer -1 (`Longs` is 8: the least
integer is -4, and -1 is read as 7), and every set of flags that CPython can put on them.
The module has code within code, with names, an empty tuple and an lnotab that
are shared, in every choice of five more flags, and
once with each kind of constant, name or file that the reader does not support. The streams that CPython does not write are all those of up to three
tokens out of twelve, with and without a tuple around them, a module cut off anywhere, and code objects with each
part replaced by each token; they reach each error and panic. Texts are a few values,
compared and never looked into.

### Fairness

`Spec` has WF_vars(Step): run_code is a loop that nothing interrupts, no
instruction waits for anything, so an enabled step is taken. `Subclass!Spec` has
WF_vars(Search) for the same reason, `Decoder!Spec` WF_vars(Decode) for collect(),
which asks for instructions until there is none, and `Loading!Spec` WF_vars(Load):
read_object is a recursion over a file that ends, on one thread, and reads that
never return are I/O. The abstract specifications have the weak fairness of
their own steps, so that the refinements carry liveness: a program of the subset
writes all of its output and ends (RunsTheScript), the search answers (MeetsPromise),
decoding reaches the end of the code or refuses it (ReadsLikeCPython). LoadEnds
says that loading ends. RunsTheScript is
stated of compiled programs only: code in general may loop.

## Proofs

Each holds for every value of the constants: any number of programs with any code, any
bounds, any graph, any codes and any files.

| theorem | states |
|---|---|
| `InterpreterProofs!TypeCorrect`, `NoDanglingReference` | Spec => []TypeOK, Spec => []RefsValid; both from `Invariant` |
| `StoreProofs!CallOK` | a call with valid arguments, of whatever is called, keeps references valid |
| `StabilityProofs!InheritanceIsAcyclic`, `IteratorsStayInRange`, `LocalsArePrivate` | Spec => []BasesOlder, []IteratorsInRange, []LocalsPrivate |
| `StabilityProofs!StoreIsStable`, `CallersAreFrozen` | Spec => ObjectsStable, Spec => CallersFrozen |
| `StabilityProofs!SubclassTestsAreRight` | the subclass test of the interpreter is reachability along the bases in its store |
| `InterpreterProofs!CallsBind`, `CallsRefuse` | Spec => CallsBindLikePython, Spec => CallsRefuseExtraArguments |
| `DisciplineProofs!FramesFollowTheirShapes` | Spec /\ []RaisesNoStopIteration => [](Verified(prog) => FollowsShapes) |
| `DisciplineProofs!HandlersAreInForce`, `LoopsKeepTheirIterator`, `ReturnsAreClean` | the same of NoStaleHandler, LoopKeepsIterator, ReturnsCleanly |
| `SubclassProofs!TypeCorrect`, `SearchInvariant`, `AnswerIsRight` | Spec => []TypeOK, []SearchInv, []AnswersReachability |
| `SubclassProofs!AnswersLikeTheModel` | Spec => []AnswersLikeObjects: the loop of native_issubclass and the operator that stands for it in the interpreter agree |
| `SubclassProofs!KeepsPromise` | the search implements `Reachability`, but for liveness |
| `DecoderProofs!Accounted`, `ShortJumpsLand` | Spec => []SlotsAccountFor; []JumpsLand where relative jumps have no prefix |
| `DecoderProofs!DecodesLikeCPython` | the decoder implements `Ceval`, but for liveness |
| `LoadingProofs!TypeCorrect`, `EveryReferenceIsFilled`, `LoadedStoreIsClosed` | Spec => []TypeOK, []ReservedOrStored, []ClosedWhenLoaded; from `Invariant` |
| `LoadingProofs!StoreOnlyGrows` | Spec => OnlyGrows |
| `LoadingProofs!WhatIsWrittenIsRead` | Spec => []ReadsWhatWasWritten, where no frozenset is flagged in what CPython wrote (`NoneFlagged`): read but for the signs of integers, or refused for an object that is not supported |

Assumptions: `ProgramsAssumption` (a program is well formed: references are to
what the unmarshaller stored or to primitive objects, arguments are naturals, that of MAKE_FUNCTION the four flags it is decoded to, a code id exists),
`BoundsAssumption`, `GraphsAssumption`, `CodesAssumption`, `FilesAssumption` and `LongsAssumption` (the
constants are of their types). TLC evaluates them on every instance. `ShortJumpsLand` assumes
`RelativeJumpsShort`, which the run `far_jump` shows to be needed, and `WhatIsWrittenIsRead`
that no frozenset has the flag, which the run `frozenset` shows to be needed; files that
CPython did not write are not restricted. What
ProgramsAssumption says of the references in a program's image is `LoadedStoreIsClosed`.

The argument for the interpreter: the inductive invariant is
`TypeOK /\ RefsValid`. RefsValid alone does not say that an action's operands
exist, which comes from its guard (`Fault = NoFault` bounds the arguments and
the depth); and a reference is valid only together with what it leads to: a
Function's first reference and its map of defaults, a Code's id, a pair of
sequences in a Dict, which is why `ContentOK` has these. What a step does with the store, the
frames and the arguments of a call has its lemmas in `StoreProofs` (allocation, binding, the
primitive objects: a store stays valid and *extends* the store before, so that
frames that are valid over the one are valid over the other; pushes, pops, slices, blocks and
unwinding keep frames valid; so do the binding of arguments and each primitive).
`InterpreterProofs` then has one lemma per instruction and combines them.

The five properties of `StabilityProofs` have one argument. Every step *moves*
(`Moved`): it adds objects and maps, gives the objects it adds maps that it also added, advances
at most one iterator, and changes or adds the last frame or cuts the call stack and changes
the last that is left; a frame that stays keeps its object and its locals. The one exception is
the start of a module, on an empty call stack. ObjectsStable and CallersFrozen are parts of
this. The store's invariant (`Store`) says of each object that its bases are older, that its maps exist
and that an iterator is in its container; the last needs that containers do not change, which is
again `Moved`. LocalsPrivate is inductive with it: the map of a new
call is newer than each map that anything held before the step (`Unused`), and
what is added holds newer maps than those of the frames that stay.

The argument for calls: an instruction that calls a function hands call_function its operands in three
sequences, which are the positional arguments and the keywords of `Binding` (`InterpreterProofs`
computes the slices). CallCode fills one map from four sources. That the
result is what Python binds is an argument about the last source that writes a name: the parameters'
names are different (`WellFormed`), so that what a source writes under its own names stays, and a
default stays only where no keyword is written. The dictionary of **kw is an ordering of the keywords
that no parameter takes. `CallsRefuse` needs nothing of this: a surplus keyword or
positional argument fails the tests that precede the binding.

The argument for verified code: the invariant `DInv` says that the last frame has the stacks
of its address's shape and that each frame under it has them but for the result it waits for.
An address that a block sends control to must have the shape that unwind makes there, so that
coverage of the handlers (`Covered`) is carried along with the frames. The hard part is the blocks that FOR_ITER
leaves behind: under the blocks of the try statements in force there may be any number
of leftover ones (`Leftover`), loops' blocks and those that take StopIteration. They never take
an exception of a program that meets `RaisesNoStopIteration`, which says that RAISE_VARARGS raises
neither None nor a StopIteration, and that nothing but FOR_ITER calls iter. Without it
the theorem is false: a StopIteration raised by hand lands at the end of a loop that is long over.
The hypothesis is about what a program computes, so that no verifier can decide it, and TLC checks it on
`structured` as a part of RaisesExceptions; the theorems need nothing of the rest of that, since the machine raises an
object that is no exception like any other. That the machine's own exceptions are no StopIteration is proved: the bases of the
primitive classes are known in every store that is reached (`PrimitivesKept`), a new
class has older bases, and the subclass test is reachability (`SubclassTestsAreRight`).
From DInv the four theorems follow: a block of a try statement is not a leftover, hence is that
of a try in force at the program counter; the shape of FOR_ITER ends with the iterator; that of RETURN_VALUE
is closed and has one value and those that BUILD_CONST_KEY_MAP leaves.

`GraphProofs` proves that the recursion of `Objects!Ancestors` is reachability along the bases.
Reachability satisfies the equation of the recursion, so that a function which does exists, and where bases are
older than classes no other function does: the least class at which two of them differ has bases
at which they agree. That bases are older is BasesOlder, which is proved of every store.

The argument for the search: SearchInv is inductive with TypeOK. Everything
visited or queued is reachable, since Reachable is closed under bases. In the
other direction, the set of visited classes is closed under bases once the queue is
empty and the class searched for is not in it, hence is one of the sets
that the definition of Reachable quantifies over, and does not hold the class.
Each step that answers is then a step of `Reachability`, and the others change nothing there.

The argument for the decoder: what is decoded and what is prefixed add up to what is
read (`SlotsAccountFor`), so that the slot of an instruction is the address
of its first unit; the prefix that is accumulated is CPython's, so that a Prefix is a
step of `Ceval` that accumulates, Emit is its dispatch, and Filler is a stutter.
A short jump then lands since its argument counts from the slot that follows in both.

The argument for loading: a reference is given out once. `ReservedOrStored` says that it is
then in the store or reserved by exactly one of the calls in `pending`, never both, and `ReaderOK` that
the list of references, the parts read and the result hold only those given out. A store
is closed when no call is left to hold a reservation.

The argument for what is read: no induction over the graph is needed, since the reader
follows the writer step by step. `Mirrors` relates the reader to a state of the run that wrote
the file: the calls in `pending` are those of w_object that have
begun, container by container, and the parts read are those written; `references` are the
numbers of the flagged objects; what is in the store has the image of its object. The references are given out in the
order of `made`, in which an object without a flag is made at its end and a flagged one at its beginning, so that
the reference of an object is its place there, and different objects have different ones. Each token
of the file is then the next state's (`LoadsWritten` says so of both files, and is inductive with LoadInv):
a Ref means the object that the writer meant, an integer is read as `Image` says, the checks of a code object succeed,
and the only error or panic that is reached is at the token of an object that the reader does not support (`Followed`: the
reader mirrors the run, or it has stopped and the graph is not `Readable`). At the end of the run the root is the result and
everything reached from it is stored. From then on it is held, since the store only grows. A flagged
frozenset breaks `Mirrors` where `references` are compared: the writer numbers it and the reader does not.

Only model-checked: ExecutesLikePython and RunsTheScript (`Compile` and `Run` are recursive, and the
argument is an induction over statements; for the same reason it is checked, and not
proved, that what is compiled can be verified), RaisesExceptions (its part RaisesNoStopIteration is a hypothesis of
theorems), and, because liveness under fairness is out of the prover's reach, LoadEnds and the liveness that the three refinements carry.

## Not modelled, and why

* Files and I/O errors, `bin.rs`, the two implementations of EnvProxy: pure I/O. `Loading` has a
  module that is missing and a header that is wrong. The partial writes
  that write_stdout ignores are a hazard without a property: `stdout` is the sequence of what is given to write.
* Widths of integers: pending_nops is a u8 and the argument a usize, so that codes with more
  than 255 prefixes in a row overflow. Instances have a few units and small integers. The width of read_long is modelled (`Longs`).
* The memory that a length in a file asks for, and the depth of read_object's recursion.
* Text: wording of messages, formats of strings, repr and Debug, but for a repr that does not end. A text is one value.
* Which of an error and a panic stops loading is modelled and is not a property: decode.rs has an error type and panics
  on some malformed files all the same, which are hazards without a property.
* In compiled programs: `global`, attributes of instances, keyword arguments and defaults, module names that
  shadow builtins, and exceptions of the machine that no handler takes. `Interpreter` has the
  instructions for all of these, and `arbitrary` and `calls` run them. For the same reason
  the functional tests about attributes and arguments have no compiled counterpart.
* `examples/`, `LICENSE`, `Cargo.toml`.

Differences from Python that are translated but that no property is about: an
exception raised by the machine itself has a string as its content and makes
END_FINALLY panic when no handler matches; builtins are looked up before globals;
STORE_GLOBAL takes its name from varnames; BUILD_CONST_KEY_MAP leaves its values
on the stack; names in a class body that are not found panic; a missing
keyword-only argument is not refused; `raise C`, with a class in place of an instance, matches no handler.

## Plan

1. (done) `Objects`, `Machine`, `Calls`, `Interpreter`: the machine on arbitrary
   code; `Python` and `Compiled`: on compiled code; the calls; the search of
   the bases; the proofs that references are valid.
2. (done) `Decoder` against `Ceval`, with the refinement, its proof and a finding.
3. (done) `Marshal` and `Loading` against `Dump`: a graph that was written is read as that graph, signs aside, or
   refused for an object that is not supported; frozen sets as a finding; the store is closed.
4. (done) `Script`, which `Compiled` implements, and `Reachability`, which `Subclass` implements.
5. (done) Functions, classes and handlers that match through several bases, and the whole of
   `pythonlib/builtins.py`, in compiled programs.
6. (done) Proofs: BasesOlder, IteratorsInRange, LocalsPrivate, ObjectsStable, CallersFrozen; the
   decoder's addresses; the unmarshaller's references.
7. (done) Proofs: calls bind as in Python; the subclass tests are right; code that can be verified
   keeps its stacks, whatever it calls, raises and catches.
8. (done) Proofs: what CPython writes of any graph is read as that graph, signs aside, or refused. `Dump` is a run of
   states, so that the reader's `pending` and `references` are compared with it token by token.
9. Left: a runner of frames that decodes as it goes, composed from `Decoder` and `Interpreter`;
   the theorem that a program which is loaded satisfies ProgramsAssumption; globals and attributes in compiled programs.
