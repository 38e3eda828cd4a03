--------------------------- MODULE SubclassProofs ---------------------------
(***************************************************************************)
(* The search of native_issubclass answers reachability on every graph.    *)
(***************************************************************************)
EXTENDS Subclass, SequenceTheorems, TLAPS

Graph == INSTANCE GraphProofs

\* The elements of a list after its first is taken off, and after another list
\* is added at its back.
LEMMA TailElements ==
    ASSUME NEW S, NEW s \in Seq(S), s # <<>>
    PROVE  /\ Tail(s) \in Seq(S)
           /\ Head(s) \in S
           /\ Elements(s) = {Head(s)} \cup Elements(Tail(s))
<1>1. Tail(s) \in Seq(S) /\ Head(s) \in S /\ Len(s) \in Nat \ {0} /\ Len(Tail(s)) = Len(s) - 1
      /\ Head(s) = s[1] /\ \A i \in 1..(Len(s) - 1) : Tail(s)[i] = s[i + 1]
  BY SMT
<1>2. \A i \in 1..Len(s) : s[i] \in {Head(s)} \cup {Tail(s)[j] : j \in 1..Len(Tail(s))}
  <2> TAKE i \in 1..Len(s)
  <2>1. CASE i = 1
    BY <2>1, <1>1
  <2>2. CASE i # 1
    <3>1. i - 1 \in 1..Len(Tail(s)) /\ Tail(s)[i - 1] = s[i]
      BY <2>2, <1>1, SMT
    <3> QED BY <3>1
  <2> QED BY <2>1, <2>2
<1>3. \A j \in 1..Len(Tail(s)) : Tail(s)[j] \in {s[i] : i \in 1..Len(s)}
  <2> TAKE j \in 1..Len(Tail(s))
  <2>1. j + 1 \in 1..Len(s) /\ Tail(s)[j] = s[j + 1]
    BY <1>1, SMT
  <2> QED BY <2>1
<1>4. Head(s) \in {s[i] : i \in 1..Len(s)}
  BY <1>1
<1> QED BY <1>1, <1>2, <1>3, <1>4 DEF Elements

LEMMA ConcatElements ==
    ASSUME NEW S, NEW s \in Seq(S), NEW t \in Seq(S)
    PROVE  /\ s \o t \in Seq(S)
           /\ Elements(s \o t) = Elements(s) \cup Elements(t)
<1>1. s \o t \in Seq(S) /\ Len(s \o t) = Len(s) + Len(t) /\ Len(s) \in Nat /\ Len(t) \in Nat
  BY SMT
<1>2. \A i \in 1..Len(s) : (s \o t)[i] = s[i] /\ i \in 1..Len(s \o t)
  BY <1>1, SMT
<1>3. \A i \in 1..Len(t) : (s \o t)[Len(s) + i] = t[i] /\ Len(s) + i \in 1..Len(s \o t)
  BY <1>1, SMT
<1>4. \A i \in 1..Len(s \o t) : i \in 1..Len(s) \/ \E j \in 1..Len(t) : i = Len(s) + j
  <2> TAKE i \in 1..Len(s \o t)
  <2>1. i \in 1..Len(s) \/ (i - Len(s) \in 1..Len(t) /\ i = Len(s) + (i - Len(s)))
    BY <1>1, SMT
  <2> QED BY <2>1
<1>5. \A i \in 1..Len(s \o t) : (s \o t)[i] \in {s[k] : k \in 1..Len(s)} \cup {t[k] : k \in 1..Len(t)}
  BY <1>2, <1>3, <1>4
<1>6. /\ \A k \in 1..Len(s) : s[k] \in {(s \o t)[i] : i \in 1..Len(s \o t)}
      /\ \A k \in 1..Len(t) : t[k] \in {(s \o t)[i] : i \in 1..Len(s \o t)}
  BY <1>2, <1>3
<1> QED BY <1>1, <1>5, <1>6 DEF Elements

\* The classes that can be reached contain the first one and their own bases.
LEMMA ReachableClosed ==
    ASSUME TypeOK, NEW c \in Object
    PROVE  c \in Reachable(c) /\ Closed(Reachable(c))
<1>1. \A d \in Object : BasesOf(d) \subseteq Object
  BY DEF BasesOf, Elements, TypeOK
<1>2. c \in Reachable(c)
  BY DEF Reachable
<1>3. ASSUME NEW d \in Reachable(c), NEW e \in BasesOf(d), NEW S \in SUBSET Object,
             c \in S, Closed(S)
      PROVE  e \in S
  BY <1>3 DEF Reachable, Closed
<1>4. ASSUME NEW d \in Reachable(c), NEW e \in BasesOf(d)
      PROVE  e \in Reachable(c)
  BY <1>1, <1>3 DEF Reachable
<1> QED BY <1>2, <1>4 DEF Closed

\* Nothing outside a closed set can be reached from inside it.
LEMMA ReachableLeast ==
    ASSUME NEW c, NEW S \in SUBSET Object, c \in S, Closed(S)
    PROVE  Reachable(c) \subseteq S
BY DEF Reachable

-----------------------------------------------------------------------------
LEMMA InitTypeOK == ASSUME Init PROVE TypeOK
BY GraphsAssumption DEF Init, Asked, TypeOK

LEMMA NextTypeOK == ASSUME TypeOK, [Next]_vars PROVE TypeOK'
<1>1. CASE Skip
  BY <1>1, TailElements DEF Skip, TypeOK
<1>2. CASE Found
  <2>1. Candidate \in Object /\ Tail(to_visit) \in Seq(Object)
    BY <1>2, TailElements DEF Found, Candidate, TypeOK
  <2> QED BY <1>2, <2>1 DEF Found, TypeOK
<1>3. CASE Expand
  <2>1. Candidate \in Object /\ Tail(to_visit) \in Seq(Object)
    BY <1>3, TailElements DEF Expand, Candidate, TypeOK
  <2>2. bases[Candidate] \in Seq(Object)
    BY <2>1 DEF TypeOK
  <2>3. Tail(to_visit) \o bases[Candidate] \in Seq(Object)
    BY <2>1, <2>2, ConcatElements
  <2> QED BY <1>3, <2>1, <2>3 DEF Expand, TypeOK
<1>4. CASE Exhausted
  BY <1>4 DEF Exhausted, TypeOK
<1>5. CASE UNCHANGED vars
  BY <1>5 DEF vars, TypeOK
<1> QED BY <1>1, <1>2, <1>3, <1>4, <1>5 DEF Next, Search, Answered

\* The variables of the search keep their types.
THEOREM TypeCorrect == Spec => []TypeOK
<1>1. Init => TypeOK
  BY InitTypeOK
<1>2. TypeOK /\ [Next]_vars => TypeOK'
  BY NextTypeOK
<1> QED BY <1>1, <1>2, PTL DEF Spec

-----------------------------------------------------------------------------
LEMMA InitSearchInv == ASSUME Init PROVE SearchInv
<1>1. TypeOK
  BY InitTypeOK
<1>2. Queued = {first}
  BY DEF Init, Queued, Elements
<1>3. first \in Reachable(first)
  BY <1>1, ReachableClosed DEF TypeOK
<1> QED BY <1>2, <1>3 DEF Init, Asked, SearchInv

\* What taking the candidate off the list does to the set of queued classes.
LEMMA CandidateTaken ==
    ASSUME TypeOK, to_visit # <<>>
    PROVE  /\ Candidate \in Object
           /\ Tail(to_visit) \in Seq(Object)
           /\ Queued = {Candidate} \cup Elements(Tail(to_visit))
BY TailElements DEF TypeOK, Queued, Candidate

LEMMA SkipSearchInv == ASSUME TypeOK, SearchInv, Skip PROVE SearchInv'
<1> DEFINE rest == Elements(Tail(to_visit))
<1>1. Queued = {Candidate} \cup rest /\ Queued' = rest /\ Candidate \in visited
  BY CandidateTaken DEF Skip, Queued, Elements
<1>2. visited \cup Queued = visited \cup Queued'
  BY <1>1
<1>3. UNCHANGED <<bases, first, second, visited, result>> /\ result = "unknown"
  BY DEF Skip, Searching
<1> QED BY <1>2, <1>3 DEF SearchInv, Reachable, Closed, BasesOf, Elements

LEMMA FoundSearchInv == ASSUME TypeOK, SearchInv, Found PROVE SearchInv'
<1> DEFINE rest == Elements(Tail(to_visit))
<1>1. Queued = {Candidate} \cup rest /\ Queued' = rest
  BY CandidateTaken DEF Found, Queued, Elements
<1>2. visited' = visited \cup {Candidate}
  BY DEF Found
<1>3. visited \cup Queued = visited' \cup Queued'
  BY <1>1, <1>2
<1>4. UNCHANGED <<bases, first, second>> /\ result' = "true" /\ Candidate = second
  BY DEF Found
<1> QED BY <1>2, <1>3, <1>4 DEF SearchInv, Reachable, Closed, BasesOf, Elements

LEMMA ExpandSearchInv == ASSUME TypeOK, SearchInv, Expand PROVE SearchInv'
<1> DEFINE rest == Elements(Tail(to_visit))
<1>1. Queued = {Candidate} \cup rest /\ Candidate \in Object /\ Tail(to_visit) \in Seq(Object)
  BY CandidateTaken DEF Expand
<1>2. bases[Candidate] \in Seq(Object)
  BY <1>1 DEF TypeOK
<1>3. Queued' = rest \cup BasesOf(Candidate)
  <2>1. Queued' = Elements(Tail(to_visit) \o bases[Candidate])
    BY DEF Expand, Queued, Elements
  <2> QED BY <1>1, <1>2, <2>1, ConcatElements DEF BasesOf
<1>4. visited' = visited \cup {Candidate}
  BY DEF Expand
<1>5. UNCHANGED <<bases, first, second, result>> /\ result = "unknown" /\ Candidate # second
  BY DEF Expand, Searching
<1>6. visited' \cup Queued' = visited \cup Queued \cup BasesOf(Candidate)
  BY <1>1, <1>3, <1>4
<1>7. BasesOf(Candidate) \subseteq Reachable(first)
  BY <1>1, ReachableClosed DEF SearchInv, TypeOK, Closed
<1>8. \A c : BasesOf(c)' = BasesOf(c)
  BY <1>5 DEF BasesOf, Elements
<1>9. Reachable(first)' = Reachable(first)
  BY <1>5 DEF Reachable, Closed, BasesOf, Elements
<1> QED BY <1>4, <1>5, <1>6, <1>7, <1>8, <1>9 DEF SearchInv

LEMMA NextSearchInv == ASSUME TypeOK, SearchInv, [Next]_vars PROVE SearchInv'
<1>1. CASE Skip
  BY <1>1, SkipSearchInv
<1>2. CASE Found
  BY <1>2, FoundSearchInv
<1>3. CASE Expand
  BY <1>3, ExpandSearchInv
<1>4. CASE Exhausted
  BY <1>4 DEF Exhausted, Searching, SearchInv, Reachable, Closed, BasesOf, Elements, Queued
<1>5. CASE UNCHANGED vars
  BY <1>5 DEF vars, SearchInv, Reachable, Closed, BasesOf, Elements, Queued
<1> QED BY <1>1, <1>2, <1>3, <1>4, <1>5 DEF Next, Search, Answered

\* The inductive invariant of the search.
THEOREM SearchInvariant == Spec => []SearchInv
<1>1. Init => SearchInv
  BY InitSearchInv
<1>2. TypeOK /\ SearchInv /\ [Next]_vars => SearchInv'
  BY NextSearchInv
<1> QED BY <1>1, <1>2, TypeCorrect, PTL DEF Spec

LEMMA SearchInvSuffices == ASSUME TypeOK, SearchInv PROVE AnswersReachability
<1>1. CASE result = "true"
  BY <1>1 DEF SearchInv, AnswersReachability
<1>2. CASE result = "false"
  <2>1. Queued = {}
    BY <1>2 DEF SearchInv, Queued, Elements
  <2>2. visited \in SUBSET Object /\ first \in visited /\ second \notin visited
    BY <1>2, <2>1 DEF SearchInv, TypeOK
  <2>3. Closed(visited)
    BY <2>1, <2>2 DEF SearchInv, Closed
  <2>4. second \notin Reachable(first)
    BY <2>2, <2>3, ReachableLeast
  <2> QED BY <1>2, <2>4 DEF AnswersReachability
<1> QED BY <1>1, <1>2 DEF AnswersReachability, Searching, TypeOK

\* Whatever the inheritance graph, what native_issubclass returns is whether
\* the second class can be reached from the first.
THEOREM AnswerIsRight == Spec => []AnswersReachability
<1>1. TypeOK /\ SearchInv => AnswersReachability
  BY SearchInvSuffices
<1> QED BY <1>1, TypeCorrect, SearchInvariant, PTL

\* Every step of the search is the answer of the promise or unseen by it.
LEMMA StepsToPromise ==
    ASSUME TypeOK, AnswersReachability', [Next]_vars
    PROVE  [Promise!Answer]_<<Promise!question, result>>
<1>1. CASE Skip
  BY <1>1 DEF Skip, Promise!question
<1>2. CASE Expand
  BY <1>2 DEF Expand, Promise!question
<1>3. CASE UNCHANGED vars
  BY <1>3 DEF vars, Promise!question
<1>4. CASE Found
  <2>1. result = "unknown" /\ result' = "true" /\ UNCHANGED <<bases, first, second>>
    BY <1>4 DEF Found, Searching
  <2>2. second \in Reachable(first)
    BY <2>1 DEF AnswersReachability, Searching, Reachable, Closed, BasesOf
  <2>3. second \in Promise!Reachable(first)
    BY <2>2 DEF Reachable, Closed, BasesOf, Elements,
                Promise!Reachable, Promise!Closed, Promise!BasesOf, Promise!Elements
  <2> QED BY <2>1, <2>3 DEF Promise!Answer, Promise!question
<1>5. CASE Exhausted
  <2>1. result = "unknown" /\ result' = "false" /\ UNCHANGED <<bases, first, second>>
    BY <1>5 DEF Exhausted, Searching
  <2>2. second \notin Reachable(first)
    BY <2>1 DEF AnswersReachability, Searching, Reachable, Closed, BasesOf
  <2>3. second \notin Promise!Reachable(first)
    BY <2>2 DEF Reachable, Closed, BasesOf, Elements,
                Promise!Reachable, Promise!Closed, Promise!BasesOf, Promise!Elements
  <2> QED BY <2>1, <2>3 DEF Promise!Answer, Promise!question
<1> QED BY <1>1, <1>2, <1>3, <1>4, <1>5 DEF Next, Search, Answered

\* The safety part of MeetsPromise: on every graph, native_issubclass gives at
\* most one answer to the question it was asked, and that answer is right.
THEOREM KeepsPromise ==
    Spec => Promise!Init /\ [][Promise!Answer]_<<Promise!question, result>>
<1>1. Init => Promise!Init
  BY DEF Init, Asked, Promise!Init, Promise!Asked
<1>2. TypeOK /\ AnswersReachability' /\ [Next]_vars
        => [Promise!Answer]_<<Promise!question, result>>
  BY StepsToPromise
<1> QED BY <1>1, <1>2, TypeCorrect, AnswerIsRight, PTL DEF Spec

-----------------------------------------------------------------------------
(***************************************************************************)
(* The operator of the interpreter's model.                                *)
(***************************************************************************)
LEMMA AnswersLikeObjectsHolds ==
    ASSUME TypeOK, AnswersReachability PROVE AnswersLikeObjects
<1>1. SUFFICES ASSUME InStore, ~Searching
               PROVE  result = "true" <=> Objs!NativeIsSubclass(Store, first, second)
  BY DEF AnswersLikeObjects
<1> DEFINE n == Len(Store.objs)
           next == [c \in Object |-> BasesOf(c)]
<1>2. Len(bases) \in Nat /\ Object = 1..Len(bases)
  BY <1>1 DEF InStore, TypeOK
<1>3. n = Len(bases)
  <2>1. Store.objs \in Seq({[bases |-> bases[c]] : c \in Object})
    BY <1>2, SMT DEF Store
  <2>2. DOMAIN Store.objs = 1..Len(bases)
    BY <1>2 DEF Store
  <2> QED BY <1>2, <2>1, <2>2, SMT
<1>4. n \in Nat /\ Object = 1..n
  BY <1>2, <1>3
<1>5. \A c \in 1..n : next[c] = Graph!Bases(Store, c)
  <2> TAKE c \in 1..n
  <2>1. Store.objs[c].bases = bases[c] /\ c \in Object
    BY <1>4 DEF Store
  <2>2. DOMAIN bases[c] = 1..Len(bases[c])
    BY <2>1 DEF TypeOK
  <2> QED BY <2>1, <2>2 DEF Graph!Bases, BasesOf, Elements
<1>6. Graph!IsGraph(n, next)
  BY <1>4 DEF Graph!IsGraph, TypeOK, BasesOf, Elements
<1>7. Graph!Older(n, next)
  BY <1>1, <1>4 DEF Graph!Older, InStore
<1>8. Graph!Reach(n, next, first) = Reachable(first)
  BY <1>4 DEF Graph!Reach, Graph!ClosedUnder, Reachable, Closed, TypeOK
<1>9. first \in 1..n
  BY <1>4 DEF TypeOK
<1>10. Graph!Ancestors(Store, first) = Reachable(first)
  <2> HIDE DEF next
  <2> QED BY <1>4, <1>5, <1>6, <1>7, <1>8, <1>9, Graph!AncestorsReach
<1>11. Objs!NativeIsSubclass(Store, first, second) <=> second \in Reachable(first)
  BY <1>10 DEF Objs!NativeIsSubclass, Objs!Ancestors, Graph!Ancestors, Objs!Bases, Graph!Bases
<1> QED BY <1>1, <1>11 DEF AnswersReachability

\* On every store of any size, the search of native_issubclass answers what the
\* interpreter's model takes for its answer.
THEOREM AnswersLikeTheModel == Spec => []AnswersLikeObjects
<1>1. TypeOK /\ AnswersReachability => AnswersLikeObjects
  BY AnswersLikeObjectsHolds
<1> QED BY <1>1, TypeCorrect, AnswerIsRight, PTL

=============================================================================
