------------------------------- MODULE Loading ------------------------------
(***************************************************************************)
(* run_file (lib.rs) and get_module_code (processor/mod.rs): the file of   *)
(* the program is read, then that of builtins, into one store and each     *)
(* with references of its own.  The interpreter starts from the outcome    *)
(* "loaded".  What run_file returns as an error stops the process when it  *)
(* happens in builtins.                                                    *)
(***************************************************************************)
EXTENDS Marshal

CONSTANT Files      \* pairs of files: [main, builtins]

\* 12 bytes with the magic number of CPython 3.6, with another, or fewer.
Headers == {"good", "bad", "short", "missing"}
File == [header : Headers, tokens : Seq(Token)]

ASSUME FilesAssumption == \A f \in Files : f.main \in File /\ f.builtins \in File

VARIABLES
    files,
    phase,      \* "open main", "main", "open builtins", "builtins" or "done"
    main,       \* what the first file holds
    builtins,   \* the module object of the second
    outcome     \* "loading", "loaded", "error" or "panic"

loading == <<files, phase, main, builtins, outcome>>
vars    == <<heap, fresh, reader, loading>>

Init ==
    /\ files \in Files
    /\ heap = PrimitiveStore /\ fresh = 4
    /\ input = <<>> /\ references = <<>> /\ pending = <<>> /\ result = NoRef
    /\ status = "reading"
    /\ phase = "open main" /\ main = NoRef /\ builtins = NoRef
    /\ outcome = "loading"

Loads(p) == outcome = "loading" /\ phase = p

\* Mutant: the second file goes on with the references of the first.
StartKeepingReferences(file) ==
    /\ file.header = "good"
    /\ input' = file.tokens
    /\ pending' = <<>> /\ result' = NoRef /\ status' = "reading"
    /\ UNCHANGED <<store, references>>

\* Mutant: each file is read into a store of its own.
StartAfresh(file) ==
    /\ file.header = "good"
    /\ input' = file.tokens
    /\ references' = <<>> /\ pending' = <<>> /\ result' = NoRef /\ status' = "reading"
    /\ heap' = PrimitiveStore /\ fresh' = 4

\* A new reader on a file, after its header.
Start(file) ==
    /\ file.header = "good"
    /\ input' = file.tokens
    /\ references' = <<>> /\ pending' = <<>> /\ result' = NoRef /\ status' = "reading"
    /\ UNCHANGED store

OpenMain ==
    /\ Loads("open main")
    /\ Start(files.main)
    /\ phase' = "main"
    /\ UNCHANGED <<files, main, builtins, outcome>>

OpenBuiltins ==
    /\ Loads("open builtins")
    /\ Start(files.builtins)
    /\ phase' = "builtins"
    /\ UNCHANGED <<files, main, builtins, outcome>>

ReadObject ==
    /\ outcome = "loading" /\ phase \in {"main", "builtins"}
    /\ Read
    /\ UNCHANGED loading

MainRead ==
    /\ Loads("main") /\ status = "reading" /\ result # NoRef
    /\ main' = result
    /\ phase' = "open builtins"
    /\ UNCHANGED <<store, reader, files, builtins, outcome>>

BuiltinsRead ==
    /\ Loads("builtins") /\ status = "reading" /\ result # NoRef
    /\ heap' = With(fresh, Object("Module", <<result>>, 0, "builtins"))
    /\ fresh' = fresh + 1
    /\ builtins' = fresh
    /\ phase' = "done"
    /\ outcome' = "loaded"
    /\ UNCHANGED <<reader, files, main>>

Ends(how) == outcome' = how /\ UNCHANGED <<store, reader, files, phase, main, builtins>>

\* try!, for the program's own file.
MainError ==
    /\ \/ Loads("open main") /\ files.main.header = "short"
       \/ Loads("main") /\ status = "error"
    /\ Ends("error")

\* unwrap(), panic!, and raise_processor_error.
LoadPanic ==
    /\ \/ Loads("open main") /\ files.main.header \in {"bad", "missing"}
       \/ Loads("open builtins") /\ files.builtins.header # "good"
       \/ outcome = "loading" /\ status = "panic"
       \/ Loads("builtins") /\ status = "error"
    /\ Ends("panic")

Load == \/ OpenMain \/ OpenBuiltins \/ ReadObject \/ MainRead \/ BuiltinsRead
        \/ MainError \/ LoadPanic
Over == outcome # "loading" /\ UNCHANGED vars

Next == Load \/ Over

\* One thread, and files that end.
Spec == Init /\ [][Next]_vars /\ WF_vars(Load)

-----------------------------------------------------------------------------
TypeOK ==
    /\ files \in Files
    /\ fresh \in Nat \ {0} /\ DOMAIN heap \subseteq Given
    /\ input \in Seq(Token)
    /\ references \in Seq(Given) /\ result \in Given \cup {NoRef}
    /\ \A i \in 1..Len(pending) :
          pending[i].got \in Seq(Given) /\ pending[i].at \in Given \cup {NoRef}
    /\ main \in Given \cup {NoRef} /\ builtins \in Given \cup {NoRef}

\* The store from which the interpreter starts: no reserved reference has been
\* left over, and whatever the files hold, every reference that an object holds
\* has an object.
ClosedWhenLoaded ==
    outcome = "loaded" =>
        /\ DOMAIN heap = Given
        /\ main \in Given /\ builtins \in Given
        /\ \A r \in Given : \A i \in 1..Len(Items(heap[r])) : Items(heap[r])[i] \in Given

\* Reading never touches an object that is in the store: not those of the first
\* file while the second is read, and not one that others refer to already.
OnlyGrows ==
    [][\A r \in DOMAIN heap : r \in DOMAIN heap' /\ heap'[r] = heap[r]]_vars

\* Loading comes to an end, whatever is in the files.
LoadEnds == <>(outcome # "loading")
=============================================================================
