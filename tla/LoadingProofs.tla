---------------------------- MODULE LoadingProofs ---------------------------
(***************************************************************************)
(* Whatever is in the two files, the references that read_object reserves  *)
(* are filled, and the store that the interpreter starts from is closed.   *)
(* What CPython wrote in them is refused or is what is read.               *)
(***************************************************************************)
EXTENDS Dump, SequenceTheorems, TLAPS

(***************************************************************************)
(* Shapes: what the store, the stack of calls and their results hold are   *)
(* references that have been given out.                                    *)
(***************************************************************************)
CallOf(G) == {c \in [op : Containers, at : G \cup {NoRef}, want : Nat, got : Seq(G)] :
                 c.op = "Code" => c.want = CodeParts}

HeapOK ==
    /\ fresh \in Nat /\ fresh > 3
    /\ DOMAIN heap \subseteq Given
    /\ \A r \in DOMAIN heap : Items(heap[r]) \in Seq(Given)
ReaderOK ==
    /\ input \in Seq(Token)
    /\ references \in Seq(Given)
    /\ pending \in Seq(CallOf(Given))
    /\ result \in Given \cup {NoRef}
    /\ result # NoRef => pending = <<>>
ReaderInv == HeapOK /\ ReaderOK /\ ReservedOrStored

\* Given grows with fresh, and what is made of references in Given goes on to be.
LEMMA GivenGrows ==
    ASSUME fresh \in Nat, fresh > 3, fresh' = fresh \/ fresh' = fresh + 1
    PROVE  /\ fresh' \in Nat /\ fresh' > 3
           /\ Given \subseteq Given'
           /\ fresh' = fresh => Given' = Given
           /\ fresh' = fresh + 1 => Given' = Given \cup {fresh}
           /\ fresh \notin Given
           /\ NoRef \notin Given
           /\ 1 \in Given /\ 2 \in Given /\ 3 \in Given
BY DEF Given, NoRef

LEMMA CallsGrow ==
    ASSUME NEW G, NEW H, G \subseteq H
    PROVE  /\ Seq(G) \subseteq Seq(H)
           /\ CallOf(G) \subseteq CallOf(H)
           /\ Seq(CallOf(G)) \subseteq Seq(CallOf(H))
<1>1. Seq(G) \subseteq Seq(H)
  BY SeqMonotonic
<1>2. CallOf(G) \subseteq CallOf(H)
  BY <1>1 DEF CallOf
<1>3. Seq(CallOf(G)) \subseteq Seq(CallOf(H))
  BY <1>2, SeqMonotonic
<1> QED BY <1>1, <1>2, <1>3

\* A result goes to the call that waits for it, whose place is not changed.
LEMMA ReturnOK ==
    ASSUME NEW G, NEW calls \in Seq(CallOf(G)), NEW r \in G,
           Return(calls, r), result = NoRef
    PROVE  /\ pending' \in Seq(CallOf(G))
           /\ Len(pending') = Len(calls) /\ Len(calls) \in Nat
           /\ \A i \in 1..Len(calls) : pending'[i].at = calls[i].at
           /\ result' \in G \cup {NoRef}
           /\ result' # NoRef => pending' = <<>>
<1> DEFINE C == CallOf(G)
<1>1. CASE calls = <<>>
  <2>1. pending' = <<>> /\ result' = r /\ Len(calls) = 0
    BY <1>1 DEF Return
  <2> QED BY <1>1, <2>1
<1>2. CASE calls # <<>>
  <2> DEFINE n == Len(calls)
             c == [calls[n] EXCEPT !.got = Append(@, r)]
  <2>1. n \in Nat \ {0} /\ n \in 1..Len(calls)
    BY <1>2, EmptySeq
  <2>2. calls[n] \in C
    BY <2>1, ElementOfSeq
  <2>3. c \in C /\ c.at = calls[n].at
    <3>1. calls[n].got \in Seq(G)
      BY <2>2 DEF CallOf
    <3>2. Append(calls[n].got, r) \in Seq(G)
      BY <3>1
    <3> QED BY <2>2, <3>2 DEF CallOf
  <2>4. pending' = [calls EXCEPT ![n] = c] /\ result' = result
    BY <1>2 DEF Return
  <2> HIDE DEF c, n, C
  <2>5. /\ pending' \in Seq(C)
        /\ Len(pending') = Len(calls)
        /\ \A i \in 1..Len(calls) : pending'[i] = IF i = n THEN c ELSE calls[i]
    BY <2>1, <2>3, <2>4, ExceptSeq DEF C
  <2> QED BY <2>1, <2>3, <2>4, <2>5 DEF C
<1> QED BY <1>1, <1>2

\* The places that are reserved depend on the `at` of the calls only.
LEMMA SamePlaces ==
    ASSUME pending' \in Seq(CallOf(Given)'), pending \in Seq(CallOf(Given)),
           Len(pending') = Len(pending),
           \A i \in 1..Len(pending) : pending'[i].at = pending[i].at
    PROVE  /\ Reserved' = Reserved
           /\ (\A i, j \in 1..Len(pending) : pending[i].at = pending[j].at => i = j \/ pending[i].at = NoRef)
              => (\A i, j \in 1..Len(pending) : pending[i].at = pending[j].at => i = j \/ pending[i].at = NoRef)'
BY DEF Reserved

-----------------------------------------------------------------------------
LEMMA SingletonInv == ASSUME ReaderInv, ReadSingleton PROVE ReaderInv'
<1>1. /\ heap' = heap /\ fresh' = fresh /\ references' = references /\ input' = Tail(input)
      /\ Return(pending, SingletonRef(Tok.op)) /\ result = NoRef /\ input # <<>>
      /\ Tok.op \in Singletons
  BY DEF ReadSingleton, store, At, Busy
<1>2. fresh \in Nat /\ fresh > 3
  BY DEF ReaderInv, HeapOK
<1>3. Given' = Given /\ SingletonRef(Tok.op) \in Given
  BY <1>1, <1>2, GivenGrows DEF SingletonRef, Singletons
<1>4. pending \in Seq(CallOf(Given)) /\ input \in Seq(Token)
  BY DEF ReaderInv, ReaderOK
<1>5. /\ pending' \in Seq(CallOf(Given))
      /\ Len(pending') = Len(pending)
      /\ \A i \in 1..Len(pending) : pending'[i].at = pending[i].at
      /\ result' \in Given \cup {NoRef}
      /\ result' # NoRef => pending' = <<>>
  BY <1>1, <1>3, <1>4, ReturnOK
<1>6. HeapOK'
  BY <1>1, <1>3 DEF ReaderInv, HeapOK
<1>7. input' \in Seq(Token)
  BY <1>1, <1>4, HeadTailProperties
<1>8. ReaderOK'
  BY <1>1, <1>3, <1>5, <1>7 DEF ReaderInv, ReaderOK, CallOf
<1>9. ReservedOrStored'
  BY <1>1, <1>3, <1>4, <1>5, SamePlaces DEF ReaderInv, ReservedOrStored, CallOf
<1> QED BY <1>6, <1>8, <1>9 DEF ReaderInv

LEMMA RefInv == ASSUME ReaderInv, ReadRef PROVE ReaderInv'
<1>1. /\ heap' = heap /\ fresh' = fresh /\ references' = references /\ input' = Tail(input)
      /\ Return(pending, references[Tok.n + 1]) /\ result = NoRef /\ input # <<>>
      /\ Tok.n < Len(references) /\ Tok.op = "Ref"
  BY DEF ReadRef, store, At, Busy
<1>2. fresh \in Nat /\ fresh > 3
  BY DEF ReaderInv, HeapOK
<1>3. pending \in Seq(CallOf(Given)) /\ input \in Seq(Token) /\ references \in Seq(Given)
  BY DEF ReaderInv, ReaderOK
<1>4. Tok \in Token
  BY <1>1, <1>3, HeadTailProperties DEF Tok
<1>5. Given' = Given /\ references[Tok.n + 1] \in Given
  <2>1. Tok.n \in Nat /\ Len(references) \in Nat
    BY <1>1, <1>3, <1>4 DEF Token
  <2>2. Tok.n + 1 \in 1..Len(references)
    BY <1>1, <2>1
  <2> QED BY <1>1, <1>2, <1>3, <2>2, ElementOfSeq, GivenGrows
<1>6. /\ pending' \in Seq(CallOf(Given))
      /\ Len(pending') = Len(pending)
      /\ \A i \in 1..Len(pending) : pending'[i].at = pending[i].at
      /\ result' \in Given \cup {NoRef}
      /\ result' # NoRef => pending' = <<>>
  BY <1>1, <1>3, <1>5, ReturnOK
<1>7. HeapOK'
  BY <1>1, <1>5 DEF ReaderInv, HeapOK
<1>8. input' \in Seq(Token)
  BY <1>1, <1>3, HeadTailProperties
<1>9. ReaderOK'
  BY <1>1, <1>5, <1>6, <1>8 DEF ReaderInv, ReaderOK, CallOf
<1>10. ReservedOrStored'
  BY <1>1, <1>3, <1>5, <1>6, SamePlaces DEF ReaderInv, ReservedOrStored, CallOf
<1> QED BY <1>7, <1>9, <1>10 DEF ReaderInv

\* An object is added to the store, under a new reference or a reserved one.
LEMMA StoreOK ==
    ASSUME HeapOK, NEW r, NEW c, heap' = With(r, c), r \in Given', Items(c) \in Seq(Given'),
           fresh' = fresh \/ fresh' = fresh + 1
    PROVE  HeapOK' /\ DOMAIN heap' = DOMAIN heap \cup {r}
<1>1. fresh' \in Nat /\ fresh' > 3 /\ Given \subseteq Given'
  BY GivenGrows DEF HeapOK
<1>2. DOMAIN heap' = DOMAIN heap \cup {r}
  BY DEF With
<1>3. \A x \in DOMAIN heap' : heap'[x] = IF x = r THEN c ELSE heap[x]
  BY <1>2 DEF With
<1>4. Seq(Given) \subseteq Seq(Given')
  BY <1>1, CallsGrow
<1>5. \A x \in DOMAIN heap' : Items(heap'[x]) \in Seq(Given')
  BY <1>2, <1>3, <1>4 DEF HeapOK
<1> QED BY <1>1, <1>2, <1>5 DEF HeapOK

\* References are remembered as they are given out.
LEMMA RememberOK ==
    ASSUME NEW G, references \in Seq(G), NEW r \in G, NEW flag \in BOOLEAN, Remember(r, flag)
    PROVE  references' \in Seq(G)
BY AppendProperties DEF Remember

LEMMA LeafInv == ASSUME ReaderInv, ReadLeaf PROVE ReaderInv'
<1> DEFINE c == Object(Tok.op, <<>>, IF Tok.op = "Int" THEN read_long(Tok.n) ELSE 0, Tok.text)
<1>1. /\ heap' = With(fresh, c) /\ fresh' = fresh + 1 /\ input' = Tail(input)
      /\ Remember(fresh, Tok.flag)
      /\ Return(pending, fresh) /\ result = NoRef /\ input # <<>>
      /\ Tok.op \in Leaves
  BY DEF ReadLeaf, At, Busy
<1>2. fresh \in Nat /\ fresh > 3
  BY DEF ReaderInv, HeapOK
<1>3. /\ pending \in Seq(CallOf(Given)) /\ input \in Seq(Token) /\ references \in Seq(Given)
      /\ HeapOK
  BY DEF ReaderInv, ReaderOK
<1>4. Tok \in Token /\ input' \in Seq(Token)
  BY <1>1, <1>3, HeadTailProperties DEF Tok
<1>5. /\ Given \subseteq Given' /\ Given' = Given \cup {fresh} /\ fresh \notin Given
      /\ fresh \in Given'
  BY <1>1, <1>2, GivenGrows
<1>6. Items(c) \in Seq(Given')
  <2>1. Items(c) = <<>>
    BY <1>1 DEF Items, Object, Leaves
  <2> QED BY <2>1, EmptySeq
<1> HIDE DEF c
<1>7. HeapOK' /\ DOMAIN heap' = DOMAIN heap \cup {fresh}
  BY <1>1, <1>3, <1>5, <1>6, StoreOK
<1>8. pending \in Seq(CallOf(Given')) /\ references \in Seq(Given')
  BY <1>3, <1>5, CallsGrow
<1>9. /\ pending' \in Seq(CallOf(Given'))
      /\ Len(pending') = Len(pending)
      /\ \A i \in 1..Len(pending) : pending'[i].at = pending[i].at
      /\ result' \in Given' \cup {NoRef}
      /\ result' # NoRef => pending' = <<>>
  BY <1>1, <1>5, <1>8, ReturnOK
<1>10. references' \in Seq(Given')
  <2>1. Tok.flag \in BOOLEAN
    BY <1>4 DEF Token
  <2> QED BY <1>1, <1>5, <1>8, <2>1, RememberOK
<1>11. ReaderOK'
  BY <1>4, <1>9, <1>10 DEF ReaderOK, CallOf
<1>12. Reserved' = Reserved
  BY <1>3, <1>9, SamePlaces DEF CallOf
<1>13. ReservedOrStored'
  <2>1. ReservedOrStored
    BY DEF ReaderInv
  <2>2. fresh \notin Reserved
    BY <1>5, <2>1 DEF ReservedOrStored
  <2>3. DOMAIN heap' \cup Reserved' = Given' /\ DOMAIN heap' \cap Reserved' = {}
    BY <1>5, <1>7, <1>12, <2>1, <2>2 DEF ReservedOrStored
  <2>4. (\A i, j \in 1..Len(pending) : pending[i].at = pending[j].at => i = j \/ pending[i].at = NoRef)'
    BY <1>3, <1>9, <2>1, SamePlaces DEF ReservedOrStored, CallOf
  <2> QED BY <2>3, <2>4 DEF ReservedOrStored
<1> QED BY <1>7, <1>11, <1>13 DEF ReaderInv

LEMMA ContainerInv == ASSUME ReaderInv, ReadContainer PROVE ReaderInv'
<1> DEFINE c == [op |-> Tok.op, at |-> IF Counted THEN fresh ELSE NoRef,
                 want |-> IF Tok.op = "Code" THEN CodeParts ELSE Tok.n, got |-> <<>>]
<1>1. /\ heap' = heap /\ fresh' = (IF Counted THEN fresh + 1 ELSE fresh) /\ input' = Tail(input)
      /\ Remember(fresh, Counted)
      /\ pending' = Append(pending, c) /\ result' = result /\ result = NoRef /\ input # <<>>
      /\ Tok.op \in Containers
  BY DEF ReadContainer, At, Busy
<1>2. fresh \in Nat /\ fresh > 3
  BY DEF ReaderInv, HeapOK
<1>3. /\ pending \in Seq(CallOf(Given)) /\ input \in Seq(Token) /\ references \in Seq(Given)
      /\ HeapOK /\ ReservedOrStored
  BY DEF ReaderInv, ReaderOK
<1>4. Tok \in Token /\ input' \in Seq(Token)
  BY <1>1, <1>3, HeadTailProperties DEF Tok
<1>5. /\ Given \subseteq Given' /\ fresh \notin Given /\ NoRef \notin Given
      /\ Counted => Given' = Given \cup {fresh}
      /\ ~Counted => Given' = Given
      /\ fresh' \in Nat /\ fresh' > 3
  BY <1>1, <1>2, GivenGrows
<1>6. c \in CallOf(Given')
  <2>1. Tok.n \in Nat /\ CodeParts \in Nat
    BY <1>1, <1>4 DEF Token, CodeParts, Containers
  <2>2. <<>> \in Seq(Given')
    BY EmptySeq
  <2>3. (IF Counted THEN fresh ELSE NoRef) \in Given' \cup {NoRef}
    BY <1>5
  <2> QED BY <1>1, <2>1, <2>2, <2>3 DEF CallOf
<1>7. c.at = IF Counted THEN fresh ELSE NoRef
  OBVIOUS
<1> HIDE DEF c
<1>8. pending \in Seq(CallOf(Given')) /\ references \in Seq(Given') /\ Seq(Given) \subseteq Seq(Given')
  BY <1>3, <1>5, CallsGrow
<1>9. /\ pending' \in Seq(CallOf(Given')) /\ Len(pending) \in Nat
      /\ Len(pending') = Len(pending) + 1
      /\ \A i \in 1..Len(pending) : pending'[i] = pending[i]
      /\ pending'[Len(pending) + 1] = c
  BY <1>1, <1>6, <1>8, AppendProperties
<1>10. references' \in Seq(Given')
  <2>1. CASE Counted
    BY <1>1, <1>5, <1>8, <2>1, AppendProperties DEF Remember
  <2>2. CASE ~Counted
    BY <1>1, <1>8, <2>2 DEF Remember
  <2> QED BY <2>1, <2>2
<1>11. HeapOK'
  BY <1>1, <1>3, <1>5, <1>8 DEF HeapOK
<1>12. ReaderOK'
  BY <1>1, <1>4, <1>5, <1>9, <1>10 DEF ReaderInv, ReaderOK, CallOf
<1>13. Reserved' = IF Counted THEN Reserved \cup {fresh} ELSE Reserved
  <2>1. {pending'[i].at : i \in 1..Len(pending')} = {pending[i].at : i \in 1..Len(pending)} \cup {c.at}
    <3>1. \A i \in 1..Len(pending') : i \in 1..Len(pending) \/ i = Len(pending) + 1
      BY <1>9
    <3>2. \A i \in 1..Len(pending) : i \in 1..Len(pending')
      BY <1>9
    <3>3. Len(pending) + 1 \in 1..Len(pending')
      BY <1>9
    <3> QED BY <1>9, <3>1, <3>2, <3>3
  <2>2. fresh # NoRef
    BY <1>2 DEF NoRef
  <2> QED BY <1>7, <2>1, <2>2 DEF Reserved
<1>14. \A i \in 1..Len(pending) : pending[i].at # fresh
  <2> SUFFICES ASSUME NEW i \in 1..Len(pending), pending[i].at = fresh PROVE FALSE
    OBVIOUS
  <2>1. fresh # NoRef
    BY <1>2 DEF NoRef
  <2>2. fresh \in Reserved
    BY <2>1 DEF Reserved
  <2> QED BY <1>3, <1>5, <2>2 DEF ReservedOrStored
<1>15. ReservedOrStored'
  <2>1. fresh \notin DOMAIN heap
    BY <1>3, <1>5 DEF HeapOK
  <2>2. DOMAIN heap' \cup Reserved' = Given' /\ DOMAIN heap' \cap Reserved' = {}
    BY <1>1, <1>3, <1>5, <1>13, <2>1 DEF ReservedOrStored
  <2>3. \A i, j \in 1..Len(pending') :
            pending'[i].at = pending'[j].at => i = j \/ pending'[i].at = NoRef
    <3> TAKE i, j \in 1..Len(pending')
    <3>1. /\ i \in 1..Len(pending) \/ i = Len(pending) + 1
          /\ j \in 1..Len(pending) \/ j = Len(pending) + 1
      BY <1>9
    <3>2. CASE i \in 1..Len(pending) /\ j \in 1..Len(pending)
      BY <1>3, <1>9, <3>2 DEF ReservedOrStored
    <3>3. CASE i = Len(pending) + 1 \/ j = Len(pending) + 1
      BY <1>7, <1>9, <1>14, <3>1, <3>3
    <3> QED BY <3>1, <3>2, <3>3
  <2> QED BY <2>2, <2>3 DEF ReservedOrStored
<1> QED BY <1>11, <1>12, <1>15 DEF ReaderInv

-----------------------------------------------------------------------------
\* The parts of a code object: what it takes from them are references.
LEMMA CodeItems ==
    ASSUME HeapOK, NEW parts \in Seq(Given), Len(parts) = 9, IsCodeOf(parts)
    PROVE  Items(CodeOf(parts)) \in Seq(Given)
<1>1. \A r : Is(r, "Tuple") => heap[r].items \in Seq(Given)
  BY DEF Is, HeapOK, Items
<1>2. /\ heap[parts[2]].items \in Seq(Given)
      /\ heap[parts[5]].items \in Seq(Given)
      /\ heap[parts[6]].items \in Seq(Given)
  BY <1>1 DEF IsCodeOf
<1>3. <<parts[9]>> \in Seq(Given)
  <2>1. 9 \in 1..Len(parts)
    OBVIOUS
  <2>2. parts[9] \in Given
    BY <2>1, ElementOfSeq
  <2> QED BY <2>2
<1>4. Items(CodeOf(parts))
        = heap[parts[2]].items \o heap[parts[5]].items \o heap[parts[6]].items \o <<parts[9]>>
  BY DEF Items, CodeOf
<1> QED BY <1>2, <1>3, <1>4, ConcatProperties

LEMMA BuildInv == ASSUME ReaderInv, Build PROVE ReaderInv'
<1> DEFINE c == IF Innermost.op = "Code" THEN CodeOf(Innermost.got)
                ELSE Object(Innermost.op, Innermost.got, 0, "")
           r == IF Innermost.at = NoRef THEN fresh ELSE Innermost.at
           n == Len(pending)
<1>1. /\ heap' = With(r, c) /\ fresh' = (IF Innermost.at = NoRef THEN fresh + 1 ELSE fresh)
      /\ Return(Outer, r) /\ result = NoRef /\ input' = input /\ references' = references
      /\ pending # <<>> /\ Innermost.at \notin DOMAIN heap
      /\ Innermost.op = "Code" => IsCodeOf(Innermost.got)
      /\ Len(Innermost.got) = Innermost.want
  BY DEF Build, Busy, Complete
<1>2. fresh \in Nat /\ fresh > 3
  BY DEF ReaderInv, HeapOK
<1>3. /\ pending \in Seq(CallOf(Given)) /\ input \in Seq(Token) /\ references \in Seq(Given)
      /\ HeapOK /\ ReservedOrStored
  BY DEF ReaderInv, ReaderOK
<1>4. n \in Nat \ {0} /\ n \in 1..n /\ Innermost = pending[n] /\ Innermost \in CallOf(Given)
  <2>1. n \in Nat \ {0}
    BY <1>1, <1>3, EmptySeq
  <2>2. n \in 1..n
    BY <2>1
  <2> QED BY <2>1, <2>2, <1>3, ElementOfSeq DEF Innermost
<1>5. /\ Given \subseteq Given' /\ fresh \notin Given /\ NoRef \notin Given
      /\ Innermost.at = NoRef => Given' = Given \cup {fresh}
      /\ Innermost.at # NoRef => Given' = Given
      /\ fresh' = fresh \/ fresh' = fresh + 1
  BY <1>1, <1>2, GivenGrows
<1>6. r \in Given'
  BY <1>4, <1>5 DEF CallOf
<1>7. Items(c) \in Seq(Given')
  <2>1. Seq(Given) \subseteq Seq(Given')
    BY <1>5, CallsGrow
  <2>2. Innermost.got \in Seq(Given)
    BY <1>4 DEF CallOf
  <2>3. CASE Innermost.op = "Code"
    BY <2>1, <2>2, <2>3, <1>1, <1>3, <1>4, CodeItems DEF CallOf, CodeParts
  <2>4. CASE Innermost.op # "Code"
    BY <2>1, <2>2, <2>4 DEF Items, Object
  <2> QED BY <2>3, <2>4
<1> HIDE DEF c
<1>8. HeapOK' /\ DOMAIN heap' = DOMAIN heap \cup {r}
  BY <1>1, <1>3, <1>5, <1>6, <1>7, StoreOK
<1>9. /\ Outer \in Seq(CallOf(Given')) /\ Len(Outer) = n - 1
      /\ \A i \in 1..(n - 1) : Outer[i] = pending[i]
  <2>1. pending \in Seq(CallOf(Given'))
    BY <1>3, <1>5, CallsGrow
  <2>2. \A i \in 1..(n - 1) : pending[i] \in CallOf(Given')
    BY <2>1, <1>4, ElementOfSeq
  <2>3. /\ SubSeq(pending, 1, n - 1) \in Seq(CallOf(Given'))
        /\ Len(SubSeq(pending, 1, n - 1)) = IF 1 <= n - 1 THEN n - 1 - 1 + 1 ELSE 0
        /\ \A i \in 1..(n - 1 - 1 + 1) : SubSeq(pending, 1, n - 1)[i] = pending[1 + i - 1]
    <3>1. 1 \in Int /\ n - 1 \in Int
      BY <1>4
    <3> HIDE DEF n
    <3> QED BY <2>2, <3>1, SubSeqProperties
  <2>4. Outer = SubSeq(pending, 1, n - 1)
    BY DEF Outer
  <2>5. \A i \in 1..(n - 1) : i \in 1..(n - 1 - 1 + 1) /\ 1 + i - 1 = i
    BY <1>4
  <2> HIDE DEF n
  <2> QED BY <2>3, <2>4, <2>5, <1>4
<1>10. /\ pending' \in Seq(CallOf(Given'))
       /\ Len(pending') = n - 1
       /\ \A i \in 1..(n - 1) : pending'[i].at = pending[i].at
       /\ result' \in Given' \cup {NoRef}
       /\ result' # NoRef => pending' = <<>>
  BY <1>1, <1>6, <1>9, ReturnOK
<1>11. references \in Seq(Given')
  BY <1>3, <1>5, CallsGrow
<1>12. ReaderOK'
  BY <1>1, <1>3, <1>10, <1>11 DEF ReaderOK, CallOf
<1> HIDE DEF r
<1>13. /\ n \in 1..n /\ (\A i \in 1..(n - 1) : i \in 1..n /\ i # n)
       /\ \A i \in 1..n : i \in 1..(n - 1) \/ i = n
  BY <1>4
<1>14. Reserved = Reserved' \cup ({Innermost.at} \ {NoRef})
  BY <1>4, <1>10, <1>13 DEF Reserved
<1>15. Innermost.at # NoRef => Innermost.at \notin Reserved'
  <2> SUFFICES ASSUME Innermost.at # NoRef, Innermost.at \in Reserved' PROVE FALSE
    OBVIOUS
  <2>1. PICK i \in 1..(n - 1) : pending[i].at = Innermost.at
    BY <1>10 DEF Reserved
  <2> QED BY <2>1, <1>3, <1>4, <1>13 DEF ReservedOrStored
<1>16. ReservedOrStored'
  <2>1. DOMAIN heap' \cup Reserved' = Given' /\ DOMAIN heap' \cap Reserved' = {}
    <3>1. CASE Innermost.at = NoRef
      BY <3>1, <1>3, <1>5, <1>8, <1>14 DEF ReservedOrStored, r
    <3>2. CASE Innermost.at # NoRef
      BY <3>2, <1>3, <1>5, <1>8, <1>14, <1>15 DEF ReservedOrStored, r
    <3> QED BY <3>1, <3>2
  <2>2. \A i, j \in 1..Len(pending') :
            pending'[i].at = pending'[j].at => i = j \/ pending'[i].at = NoRef
    BY <1>3, <1>10, <1>13 DEF ReservedOrStored
  <2> QED BY <2>1, <2>2 DEF ReservedOrStored
<1> QED BY <1>8, <1>12, <1>16 DEF ReaderInv

LEMMA StopInv == ASSUME ReaderInv, NEW how, Stop(how) PROVE ReaderInv'
BY DEF ReaderInv, HeapOK, ReaderOK, ReservedOrStored, Reserved, Given, Stop, store, CallOf

LEMMA ReadInv == ASSUME ReaderInv, Read PROVE ReaderInv'
<1>1. CASE ReadError \/ ReadPanic \/ BuildPanic
  BY <1>1, StopInv DEF ReadError, ReadPanic, BuildPanic
<1> QED BY <1>1, SingletonInv, LeafInv, ContainerInv, RefInv, BuildInv DEF Read

-----------------------------------------------------------------------------
(***************************************************************************)
(* The two files.                                                          *)
(***************************************************************************)
LoadOK ==
    /\ files \in Files
    /\ phase \in {"open main", "main", "open builtins", "builtins", "done"}
    /\ main \in Given \cup {NoRef} /\ builtins \in Given \cup {NoRef}
    /\ phase = "open main" => pending = <<>>
    /\ phase = "open builtins" => pending = <<>>
    /\ phase \in {"open builtins", "builtins", "done"} => main \in Given
    /\ outcome = "loaded" => pending = <<>> /\ main \in Given /\ builtins \in Given
LoadInv == ReaderInv /\ LoadOK

LEMMA InitLoad == ASSUME Init PROVE LoadInv
<1>1. fresh = 4 /\ Given = {1, 2, 3}
  <2>1. fresh = 4
    BY DEF Init
  <2>2. 4 - 1 = 3 /\ 1..3 = {1, 2, 3}
    OBVIOUS
  <2> QED BY <2>1, <2>2 DEF Given
<1>2. DOMAIN heap = {1, 2, 3}
  BY DEF Init, PrimitiveStore
<1>3. \A r \in DOMAIN heap : Items(heap[r]) = <<>>
  <2>1. \A r \in {1, 2, 3} : PrimitiveStore[r].items = <<>> /\ PrimitiveStore[r].kind # "Code"
    BY DEF PrimitiveStore, Object
  <2>2. heap = PrimitiveStore
    BY DEF Init
  <2> QED BY <1>2, <2>1, <2>2 DEF Items
<1>4. HeapOK
  <2>1. \A r \in DOMAIN heap : Items(heap[r]) \in Seq(Given)
    BY <1>3, EmptySeq
  <2> QED BY <1>1, <1>2, <2>1 DEF HeapOK
<1>5. ReaderOK
  BY EmptySeq DEF Init, ReaderOK, NoRef
<1>6. ReservedOrStored
  <2>1. pending = <<>>
    BY DEF Init
  <2>2. Len(<<>>) = 0
    OBVIOUS
  <2>3. 1..Len(pending) = {}
    BY <2>1, <2>2
  <2>4. Reserved = {}
    BY <2>3 DEF Reserved
  <2> QED BY <1>1, <1>2, <2>3, <2>4 DEF ReservedOrStored
<1>7. LoadOK
  BY DEF Init, LoadOK
<1> QED BY <1>4, <1>5, <1>6, <1>7 DEF LoadInv, ReaderInv

LEMMA StartInv ==
    ASSUME LoadInv, pending = <<>>, NEW file \in File, Start(file)
    PROVE  ReaderInv' /\ pending' = <<>> /\ Given' = Given
<1>1. /\ heap' = heap /\ fresh' = fresh /\ input' = file.tokens /\ references' = <<>>
      /\ pending' = <<>> /\ result' = NoRef
  BY DEF Start, store
<1>2. file.tokens \in Seq(Token)
  BY DEF File
<1>3. Given' = Given
  BY <1>1 DEF Given
<1>4. HeapOK'
  BY <1>1, <1>3 DEF LoadInv, ReaderInv, HeapOK
<1>5. ReaderOK'
  BY <1>1, <1>2, EmptySeq DEF ReaderOK
<1>6. ReservedOrStored'
  BY <1>1, <1>3 DEF LoadInv, ReaderInv, ReservedOrStored, Reserved
<1> QED BY <1>1, <1>3, <1>4, <1>5, <1>6 DEF ReaderInv

LEMMA GivenOnlyGrows == ASSUME LoadInv, Read PROVE Given \subseteq Given'
<1>1. fresh \in Nat /\ fresh > 3
  BY DEF LoadInv, ReaderInv, HeapOK
<1>2. fresh' = fresh \/ fresh' = fresh + 1
  BY DEF Read, ReadSingleton, ReadLeaf, ReadContainer, ReadRef, ReadError, ReadPanic,
         Build, BuildPanic, Stop, store
<1> QED BY <1>1, <1>2, GivenGrows

LEMMA BuiltinsReadInv == ASSUME LoadInv, BuiltinsRead PROVE LoadInv'
<1> DEFINE c == Object("Module", <<result>>, 0, "builtins")
<1>1. /\ heap' = With(fresh, c) /\ fresh' = fresh + 1 /\ builtins' = fresh /\ result # NoRef
      /\ UNCHANGED reader /\ files' = files /\ main' = main /\ phase = "builtins" /\ phase' = "done"
      /\ outcome' = "loaded"
  BY DEF BuiltinsRead, Loads
<1>2. fresh \in Nat /\ fresh > 3 /\ HeapOK /\ ReaderOK /\ ReservedOrStored /\ LoadOK
  BY DEF LoadInv, ReaderInv, HeapOK
<1>3. Given \subseteq Given' /\ Given' = Given \cup {fresh} /\ fresh \notin Given /\ fresh \in Given'
  BY <1>1, <1>2, GivenGrows
<1>4. result \in Given /\ pending = <<>>
  BY <1>1, <1>2 DEF ReaderOK
<1>5. Items(c) \in Seq(Given')
  <2>1. Items(c) = <<result>>
    BY DEF Items, Object
  <2>2. <<result>> \in Seq(Given')
    BY <1>3, <1>4
  <2> QED BY <2>1, <2>2
<1> HIDE DEF c
<1>6. HeapOK' /\ DOMAIN heap' = DOMAIN heap \cup {fresh}
  BY <1>1, <1>2, <1>3, <1>5, StoreOK
<1>7. pending' = <<>> /\ references' = references /\ input' = input /\ result' = result
  BY <1>1, <1>4 DEF reader
<1>8. ReaderOK'
  <2>1. references \in Seq(Given')
    BY <1>2, <1>3, CallsGrow DEF ReaderOK
  <2>2. <<>> \in Seq(CallOf(Given)')
    BY EmptySeq
  <2> QED BY <1>2, <1>3, <1>4, <1>7, <2>1, <2>2 DEF ReaderOK
<1>9. ReservedOrStored'
  <2>1. Len(<<>>) = 0
    OBVIOUS
  <2>2. Reserved = {} /\ Reserved' = {}
    BY <1>4, <1>7, <2>1 DEF Reserved
  <2> QED BY <1>2, <1>3, <1>6, <1>7, <2>1, <2>2 DEF ReservedOrStored
<1>10. LoadOK'
  BY <1>1, <1>2, <1>3, <1>7 DEF LoadOK
<1> QED BY <1>6, <1>8, <1>9, <1>10 DEF LoadInv, ReaderInv

LEMMA SameReader ==
    ASSUME ReaderInv, UNCHANGED <<heap, fresh, input, references, pending, result, status>>
    PROVE  ReaderInv'
<1>1. Given' = Given /\ CallOf(Given)' = CallOf(Given) /\ Reserved' = Reserved
  BY DEF Given, CallOf, Reserved
<1>2. HeapOK'
  BY <1>1 DEF ReaderInv, HeapOK
<1>3. ReaderOK'
  BY <1>1 DEF ReaderInv, ReaderOK
<1>4. ReservedOrStored'
  BY <1>1 DEF ReaderInv, ReservedOrStored
<1> QED BY <1>2, <1>3, <1>4 DEF ReaderInv

LEMMA NextLoad == ASSUME LoadInv, [Next]_vars PROVE LoadInv'
<1>1. CASE OpenMain
  <2>1. files.main \in File /\ pending = <<>>
    BY <1>1, FilesAssumption DEF OpenMain, Loads, LoadInv, LoadOK
  <2>2. ReaderInv' /\ pending' = <<>> /\ Given' = Given
    BY <1>1, <2>1, StartInv DEF OpenMain
  <2> QED BY <1>1, <2>2 DEF OpenMain, Loads, LoadInv, LoadOK
<1>2. CASE OpenBuiltins
  <2>1. files.builtins \in File /\ pending = <<>>
    BY <1>2, FilesAssumption DEF OpenBuiltins, Loads, LoadInv, LoadOK
  <2>2. ReaderInv' /\ pending' = <<>> /\ Given' = Given
    BY <1>2, <2>1, StartInv DEF OpenBuiltins
  <2> QED BY <1>2, <2>2 DEF OpenBuiltins, Loads, LoadInv, LoadOK
<1>3. CASE ReadObject
  <2>1. ReaderInv' /\ Given \subseteq Given'
    BY <1>3, ReadInv, GivenOnlyGrows DEF ReadObject, LoadInv
  <2> QED BY <1>3, <2>1 DEF ReadObject, loading, LoadInv, LoadOK
<1>4. CASE MainRead
  <2>1. UNCHANGED <<heap, fresh, input, references, pending, result, status>>
    BY <1>4 DEF MainRead, store, reader
  <2>2. Given' = Given /\ CallOf(Given)' = CallOf(Given)
    BY <2>1 DEF Given, CallOf
  <2>3. ReaderInv'
    BY <2>1, <2>2, SameReader DEF LoadInv
  <2>4. result \in Given /\ pending = <<>>
    BY <1>4 DEF MainRead, LoadInv, ReaderInv, ReaderOK
  <2> QED BY <1>4, <2>1, <2>2, <2>3, <2>4 DEF MainRead, Loads, LoadInv, LoadOK
<1>5. CASE BuiltinsRead
  BY <1>5, BuiltinsReadInv
<1>6. CASE MainError \/ LoadPanic
  <2>1. /\ UNCHANGED <<heap, fresh, input, references, pending, result, status>>
        /\ UNCHANGED <<files, phase, main, builtins>> /\ outcome' # "loaded"
    BY <1>6 DEF MainError, LoadPanic, Ends, store, reader
  <2>2. Given' = Given /\ CallOf(Given)' = CallOf(Given)
    BY <2>1 DEF Given, CallOf
  <2>3. ReaderInv'
    BY <2>1, <2>2, SameReader DEF LoadInv
  <2> QED BY <2>1, <2>2, <2>3 DEF LoadInv, LoadOK
<1>7. CASE UNCHANGED vars
  <2>1. UNCHANGED <<heap, fresh, input, references, pending, result, status,
                    files, phase, main, builtins, outcome>>
    BY <1>7 DEF vars, reader, loading
  <2>2. Given' = Given /\ CallOf(Given)' = CallOf(Given)
    BY <2>1 DEF Given, CallOf
  <2>3. ReaderInv'
    BY <2>1, <2>2, SameReader DEF LoadInv
  <2> QED BY <2>1, <2>2, <2>3 DEF LoadInv, LoadOK
<1> QED BY <1>1, <1>2, <1>3, <1>4, <1>5, <1>6, <1>7 DEF Next, Load, Over

\* The inductive invariant of loading.
THEOREM Invariant == Spec => []LoadInv
<1>1. Init => LoadInv
  BY InitLoad
<1>2. LoadInv /\ [Next]_vars => LoadInv'
  BY NextLoad
<1> QED BY <1>1, <1>2, PTL DEF Spec

LEMMA LoadTyped == ASSUME LoadInv PROVE TypeOK
<1>1. ReaderOK /\ LoadOK /\ HeapOK
  BY DEF LoadInv, ReaderInv
<1>2. \A i \in 1..Len(pending) : pending[i] \in CallOf(Given)
  BY <1>1, ElementOfSeq DEF ReaderOK
<1>3. \A i \in 1..Len(pending) :
         pending[i].got \in Seq(Given) /\ pending[i].at \in Given \cup {NoRef}
  BY <1>2 DEF CallOf
<1>4. files \in Files /\ main \in Given \cup {NoRef} /\ builtins \in Given \cup {NoRef}
  BY <1>1 DEF LoadOK
<1>5. fresh \in Nat \ {0} /\ DOMAIN heap \subseteq Given
  BY <1>1 DEF HeapOK
<1>6. /\ input \in Seq(Token)
      /\ references \in Seq(Given) /\ result \in Given \cup {NoRef}
  BY <1>1 DEF ReaderOK
<1> QED BY <1>3, <1>4, <1>5, <1>6 DEF TypeOK

\* The reader's variables hold references that have been given out.
THEOREM TypeCorrect == Spec => []TypeOK
<1>1. LoadInv => TypeOK
  BY LoadTyped
<1> QED BY <1>1, Invariant, PTL

\* Whatever the files hold, each reference that read_object has given out is
\* either reserved by one container that is being read or has its object.
THEOREM EveryReferenceIsFilled == Spec => []ReservedOrStored
<1>1. LoadInv => ReservedOrStored
  BY DEF LoadInv, ReaderInv
<1> QED BY <1>1, Invariant, PTL

LEMMA LoadedIsClosed == ASSUME LoadInv PROVE ClosedWhenLoaded
<1> SUFFICES ASSUME outcome = "loaded"
             PROVE  /\ DOMAIN heap = Given
                    /\ main \in Given /\ builtins \in Given
                    /\ \A r \in Given : \A i \in 1..Len(Items(heap[r])) : Items(heap[r])[i] \in Given
  BY DEF ClosedWhenLoaded
<1>1. pending = <<>> /\ main \in Given /\ builtins \in Given
  BY DEF LoadInv, LoadOK
<1>2. Len(<<>>) = 0
  OBVIOUS
<1>3. Reserved = {}
  BY <1>1, <1>2 DEF Reserved
<1>4. DOMAIN heap = Given
  BY <1>3 DEF LoadInv, ReaderInv, ReservedOrStored
<1>5. \A r \in Given : Items(heap[r]) \in Seq(Given)
  BY <1>4 DEF LoadInv, ReaderInv, HeapOK
<1> QED BY <1>1, <1>4, <1>5, ElementOfSeq

\* The interpreter starts from a store without a dangling reference, whatever
\* was in the two files: what the module Machine assumes of a program's image.
THEOREM LoadedStoreIsClosed == Spec => []ClosedWhenLoaded
<1>1. LoadInv => ClosedWhenLoaded
  BY LoadedIsClosed
<1> QED BY <1>1, Invariant, PTL

-----------------------------------------------------------------------------
LEMMA NextGrows ==
    ASSUME LoadInv, [Next]_vars
    PROVE  \A r \in DOMAIN heap : r \in DOMAIN heap' /\ heap'[r] = heap[r]
<1>1. fresh \notin DOMAIN heap
  BY DEF LoadInv, ReaderInv, HeapOK, Given
<1>2. \A r, c : r \notin DOMAIN heap =>
          \A x \in DOMAIN heap : x \in DOMAIN With(r, c) /\ With(r, c)[x] = heap[x]
  BY DEF With
<1>3. heap' = heap \/ \E r, c : heap' = With(r, c) /\ r \notin DOMAIN heap
  <2>1. CASE ReadObject
    <3>1. CASE ReadLeaf
      BY <3>1, <1>1 DEF ReadLeaf
    <3>2. CASE Build
      BY <3>2, <1>1 DEF Build
    <3>3. CASE ReadSingleton \/ ReadContainer \/ ReadRef \/ ReadError \/ ReadPanic \/ BuildPanic
      BY <3>3 DEF ReadSingleton, ReadContainer, ReadRef, ReadError, ReadPanic, BuildPanic, Stop, store
    <3> QED BY <2>1, <3>1, <3>2, <3>3 DEF ReadObject, Read
  <2>2. CASE BuiltinsRead
    BY <2>2, <1>1 DEF BuiltinsRead
  <2>3. CASE OpenMain \/ OpenBuiltins \/ MainRead \/ MainError \/ LoadPanic \/ UNCHANGED vars
    BY <2>3 DEF OpenMain, OpenBuiltins, Start, MainRead, MainError, LoadPanic, Ends, vars, store
  <2> QED BY <2>1, <2>2, <2>3 DEF Next, Load, Over
<1> QED BY <1>2, <1>3

\* No step of loading changes an object that is in the store.
THEOREM StoreOnlyGrows == Spec => OnlyGrows
<1>1. LoadInv /\ [Next]_vars
        => [\A r \in DOMAIN heap : r \in DOMAIN heap' /\ heap'[r] = heap[r]]_vars
  BY NextGrows
<1> QED BY <1>1, Invariant, PTL DEF Spec, OnlyGrows

-----------------------------------------------------------------------------
(***************************************************************************)
(* What was written is what is read: the reader follows the writer, one    *)
(* step for each of its steps, and holds at each what the writer has       *)
(* written, under the references that `made` gives to the nodes.           *)
(***************************************************************************)
Distinct(s) == \A i, j \in 1..Len(s) : s[i] = s[j] => i = j

LEMMA PlaceOf ==
    ASSUME NEW s, Distinct(s), NEW i \in 1..Len(s)
    PROVE  Place(s, s[i]) = i
BY DEF Place, Distinct

LEMMA PlaceIn ==
    ASSUME NEW s, NEW v, Among(s, v)
    PROVE  Place(s, v) \in 1..Len(s) /\ s[Place(s, v)] = v
BY DEF Place, Among

LEMMA AppendPlace ==
    ASSUME NEW S, NEW s \in Seq(S), Distinct(s), NEW v \in S, ~Among(s, v)
    PROVE  /\ Append(s, v) \in Seq(S) /\ Len(Append(s, v)) = Len(s) + 1
           /\ Append(s, v)[Len(s) + 1] = v
           /\ \A i \in 1..Len(s) : Append(s, v)[i] = s[i]
           /\ Distinct(Append(s, v))
           /\ \A u : Among(Append(s, v), u) <=> Among(s, u) \/ u = v
           /\ \A u : Among(s, u) => Place(Append(s, v), u) = Place(s, u)
           /\ Place(Append(s, v), v) = Len(s) + 1
<1> DEFINE t == Append(s, v)
<1>1. /\ t \in Seq(S) /\ Len(t) = Len(s) + 1 /\ Len(s) \in Nat
      /\ t[Len(s) + 1] = v /\ \A i \in 1..Len(s) : t[i] = s[i]
  BY AppendProperties
<1> HIDE DEF t
<1>2. /\ \A i \in 1..Len(t) : i \in 1..Len(s) \/ i = Len(s) + 1
      /\ \A i \in 1..Len(s) : i \in 1..Len(t) /\ s[i] # v
      /\ Len(s) + 1 \in 1..Len(t)
  BY <1>1 DEF Among
<1>3. Distinct(t)
  BY <1>1, <1>2 DEF Distinct
<1>4. \A u : Among(t, u) <=> Among(s, u) \/ u = v
  BY <1>1, <1>2 DEF Among
<1>5. \A u : Among(s, u) => Place(t, u) = Place(s, u)
  <2> SUFFICES ASSUME NEW u, Among(s, u) PROVE Place(t, u) = Place(s, u)
    OBVIOUS
  <2>1. Place(s, u) \in 1..Len(s) /\ s[Place(s, u)] = u
    BY PlaceIn
  <2>2. Place(s, u) \in 1..Len(t) /\ t[Place(s, u)] = u
    BY <1>1, <1>2, <2>1
  <2> QED BY <1>3, <2>2, PlaceOf
<1>6. Place(t, v) = Len(s) + 1
  BY <1>1, <1>2, <1>3, PlaceOf
<1> QED BY <1>1, <1>3, <1>4, <1>5, <1>6 DEF t

-----------------------------------------------------------------------------
\* References are added to a map of the nodes, and those in it stay.
Grows(m, n) == DOMAIN m \subseteq DOMAIN n /\ \A u \in DOMAIN m : n[u] = m[u]

Adds(t, s, v)     == t = Append(s, v)
Gives(m, n, v, r) == Grows(m, n) /\ DOMAIN n = DOMAIN m \cup {v} /\ n[v] = r

LEMMA RefsGrow ==
    ASSUME NEW g, NEW s \in Seq(DOMAIN g.nodes), Distinct(s), NEW t,
           NEW v \in DOMAIN g.nodes, ~Among(s, v), Kind(g, v) \notin Singletons, Adds(t, s, v),
           NEW b, NEW m, m = RefsOf(g, s, b), NEW n, n = RefsOf(g, t, b),
           NEW r, r = b + (Len(s) + 1)
    PROVE  Gives(m, n, v, r) /\ v \notin DOMAIN m /\ Len(t) = Len(s) + 1
<1>1. /\ \A u : Among(t, u) <=> Among(s, u) \/ u = v
      /\ \A u : Among(s, u) => Place(t, u) = Place(s, u)
      /\ Place(t, v) = Len(s) + 1 /\ Len(t) = Len(s) + 1
  BY AppendPlace DEF Adds
<1> QED BY <1>1 DEF RefsOf, Grows, Gives

LEMMA RefsIn ==
    ASSUME NEW g, NEW s, NEW b, NEW v \in DOMAIN RefsOf(g, s, b)
    PROVE  /\ v \in DOMAIN g.nodes
           /\ Kind(g, v) \in Singletons => RefsOf(g, s, b)[v] = SingletonRef(Kind(g, v))
           /\ Kind(g, v) \notin Singletons =>
                Among(s, v) /\ RefsOf(g, s, b)[v] = b + Place(s, v)
BY DEF RefsOf

LEMMA InRefs ==
    ASSUME NEW g, NEW s, NEW b, NEW v \in DOMAIN g.nodes, Kind(g, v) \in Singletons \/ Among(s, v)
    PROVE  v \in DOMAIN RefsOf(g, s, b)
BY DEF RefsOf

\* No two nodes have one reference.
LEMMA RefsDiffer ==
    ASSUME NEW g, IsGraph(g), NEW s \in Seq(DOMAIN g.nodes), NEW b \in Nat, b >= 3,
           NEW u \in DOMAIN RefsOf(g, s, b), NEW v \in DOMAIN RefsOf(g, s, b),
           RefsOf(g, s, b)[u] = RefsOf(g, s, b)[v]
    PROVE  u = v
<1> DEFINE m == RefsOf(g, s, b)
<1>1. \A x \in DOMAIN m : Kind(g, x) \in Singletons => m[x] = SingletonRef(Kind(g, x)) /\ m[x] \in 1..3
  BY RefsIn DEF SingletonRef, Singletons
<1>2. \A x \in DOMAIN m : Kind(g, x) \notin Singletons =>
         Place(s, x) \in 1..Len(s) /\ s[Place(s, x)] = x /\ m[x] = b + Place(s, x)
  BY RefsIn, PlaceIn
<1>3. u \in DOMAIN g.nodes /\ v \in DOMAIN g.nodes
  BY RefsIn
<1>4. Len(s) \in Nat
  OBVIOUS
<1> HIDE DEF m
<1>5. CASE Kind(g, u) \in Singletons /\ Kind(g, v) \in Singletons
  <2>1. Kind(g, u) = Kind(g, v)
    BY <1>1, <1>5 DEF SingletonRef, Singletons, m
  <2> QED BY <1>3, <1>5, <2>1 DEF IsGraph, Unnumbered
<1>6. CASE Kind(g, u) \notin Singletons /\ Kind(g, v) \notin Singletons
  <2>1. b + Place(s, u) = b + Place(s, v)
    BY <1>2, <1>6 DEF m
  <2> QED BY <1>2, <1>4, <1>6, <2>1 DEF m
<1>7. CASE Kind(g, u) \in Singletons /\ Kind(g, v) \notin Singletons
  <2>1. m[u] \in 1..3 /\ m[v] = b + Place(s, v) /\ Place(s, v) \in 1..Len(s)
    BY <1>1, <1>2, <1>7 DEF m
  <2> QED BY <1>4, <2>1 DEF m
<1>8. CASE Kind(g, u) \notin Singletons /\ Kind(g, v) \in Singletons
  <2>1. m[v] \in 1..3 /\ m[u] = b + Place(s, u) /\ Place(s, u) \in 1..Len(s)
    BY <1>1, <1>2, <1>8 DEF m
  <2> QED BY <1>4, <2>1 DEF m
<1> QED BY <1>5, <1>6, <1>7, <1>8

LEMMA GraphNode ==
    ASSUME NEW g, IsGraph(g), NEW v \in DOMAIN g.nodes
    PROVE  /\ Kind(g, v) \in Singletons \cup Leaves \cup Containers \cup Unread
           /\ Parts(g, v) \in Seq(DOMAIN g.nodes)
           /\ \A i \in 1..Len(Parts(g, v)) : Parts(g, v)[i] \in DOMAIN g.nodes
           /\ Text(g, v) \in STRING
           /\ Kind(g, v) \notin Containers => Parts(g, v) = <<>>
           /\ Kind(g, v) \notin Leaves => Text(g, v) = ""
           /\ IF Kind(g, v) = "Int" THEN Num(g, v) \in Signed ELSE Num(g, v) = 0
           /\ Kind(g, v) = "Code" => IsCodeNode(g, Parts(g, v))
<1>1. Parts(g, v) \in Seq(DOMAIN g.nodes)
  BY DEF IsGraph, Parts
<1>2. \A i \in 1..Len(Parts(g, v)) : Parts(g, v)[i] \in DOMAIN g.nodes
  BY <1>1, ElementOfSeq
<1>3. g.nodes[v] \in [kind : Singletons \cup Leaves \cup Containers \cup Unread,
                      items : Seq(DOMAIN g.nodes), num : Signed \cup {0}, text : STRING]
  BY DEF IsGraph
<1>4. Kind(g, v) \in Singletons \cup Leaves \cup Containers \cup Unread /\ Text(g, v) \in STRING
  BY <1>3 DEF Kind, Text
<1> QED BY <1>1, <1>2, <1>4 DEF IsGraph

-----------------------------------------------------------------------------
\* A call of the reader and the call of the writer that it follows.
SameCall(g, m, c, p) ==
    /\ p.op = Kind(g, c.node)
    /\ p.want = Len(Parts(g, c.node))
    /\ Len(p.got) = c.done
    /\ \A j \in 1..c.done : Parts(g, c.node)[j] \in DOMAIN m /\ p.got[j] = m[Parts(g, c.node)[j]]
    /\ c.node \in g.flagged => c.node \in DOMAIN m
    /\ p.at = IF c.node \in g.flagged THEN m[c.node] ELSE NoRef
SameCalls(g, m, cs, ps) ==
    Len(ps) = Len(cs) /\ \A i \in 1..Len(cs) : SameCall(g, m, cs[i], ps[i])

\* What the object of a node is made of has its references.
Known(g, m, v) ==
    /\ \A i \in 1..Len(Parts(g, v)) : Parts(g, v)[i] \in DOMAIN m
    /\ Kind(g, v) = "Code" =>
          \A j \in 1..CodeParts : \A i \in 1..Len(Parts(g, Parts(g, v)[j])) :
             Parts(g, Parts(g, v)[j])[i] \in DOMAIN m
Stored(g, m, v) == /\ Kind(g, v) \notin Unread /\ Known(g, m, v)
                   /\ m[v] \in DOMAIN heap /\ heap[m[v]] = Image(g, m, v)

LEMMA SameCallGrows ==
    ASSUME NEW g, NEW m, NEW n, Grows(m, n), NEW c, NEW p, SameCall(g, m, c, p)
    PROVE  SameCall(g, n, c, p)
BY DEF SameCall, Grows

LEMMA SameCallsGrow ==
    ASSUME NEW g, NEW m, NEW n, Grows(m, n), NEW cs, NEW ps, SameCalls(g, m, cs, ps)
    PROVE  SameCalls(g, n, cs, ps)
BY SameCallGrows DEF SameCalls

LEMMA ImageGrows ==
    ASSUME NEW g, IsGraph(g), NEW m, NEW n, Grows(m, n), NEW v \in DOMAIN g.nodes, Known(g, m, v)
    PROVE  Known(g, n, v) /\ Image(g, n, v) = Image(g, m, v)
<1>1. Known(g, n, v)
  BY DEF Known, Grows
<1>2. CASE Kind(g, v) # "Code"
  <2>1. [i \in 1..Len(Parts(g, v)) |-> n[Parts(g, v)[i]]] = [i \in 1..Len(Parts(g, v)) |-> m[Parts(g, v)[i]]]
    BY DEF Known, Grows
  <2> QED BY <1>1, <1>2, <2>1 DEF Image
<1>3. CASE Kind(g, v) = "Code"
  <2> DEFINE p == Parts(g, v)
             refs(k, j) == [i \in 1..Len(Parts(g, p[j])) |-> k[Parts(g, p[j])[i]]]
  <2>1. \A j \in 1..CodeParts : refs(n, j) = refs(m, j)
    BY <1>3 DEF Known, Grows
  <2>2. refs(n, 2) = refs(m, 2) /\ refs(n, 5) = refs(m, 5) /\ refs(n, 6) = refs(m, 6)
    BY <2>1 DEF CodeParts
  <2>3. n[p[9]] = m[p[9]]
    <3>1. Len(p) = 9
      BY <1>3, GraphNode DEF IsCodeNode, CodeParts
    <3>2. 9 \in 1..Len(p)
      BY <3>1
    <3> QED BY <3>2 DEF Known, Grows
  <2> QED BY <1>1, <1>3, <2>2, <2>3 DEF Image
<1> QED BY <1>2, <1>3

\* What is stored stays so, whatever is added to the store and to the map.
LEMMA StoredGrows ==
    ASSUME NEW g, IsGraph(g), NEW m, NEW n, Grows(m, n), NEW v \in DOMAIN m, v \in DOMAIN g.nodes,
           Stored(g, m, v),
           \A r \in DOMAIN heap : r \in DOMAIN heap' /\ heap'[r] = heap[r]
    PROVE  Stored(g, n, v)'
<1>1. Known(g, n, v) /\ Image(g, n, v) = Image(g, m, v)
  BY ImageGrows DEF Stored
<1>2. n[v] = m[v]
  BY DEF Grows
<1>3. m[v] \in DOMAIN heap' /\ heap'[m[v]] = Image(g, m, v)
  BY DEF Stored
<1> QED BY <1>1, <1>2, <1>3 DEF Stored

-----------------------------------------------------------------------------
LEMMA ReturnShape ==
    ASSUME NEW G, NEW calls \in Seq(CallOf(G)), NEW r \in G, Return(calls, r), result = NoRef
    PROVE  /\ Len(pending') = Len(calls)
           /\ calls = <<>> => result' = r
           /\ calls # <<>> => result' = NoRef
           /\ \A i \in 1..Len(calls) :
                 /\ pending'[i].op = calls[i].op /\ pending'[i].want = calls[i].want
                 /\ pending'[i].at = calls[i].at
                 /\ i # Len(calls) => pending'[i].got = calls[i].got
                 /\ i = Len(calls) => pending'[i].got = Append(calls[i].got, r)
<1>1. CASE calls = <<>>
  BY <1>1 DEF Return
<1>2. CASE calls # <<>>
  <2> DEFINE n == Len(calls)
             c == [calls[n] EXCEPT !.got = Append(@, r)]
  <2>1. n \in Nat \ {0} /\ n \in 1..Len(calls)
    BY <1>2, EmptySeq
  <2>2. calls[n] \in CallOf(G)
    BY <2>1, ElementOfSeq
  <2>3. /\ c.op = calls[n].op /\ c.want = calls[n].want /\ c.at = calls[n].at
        /\ c.got = Append(calls[n].got, r)
    BY <2>2 DEF CallOf
  <2>4. pending' = [calls EXCEPT ![n] = c] /\ result' = result
    BY <1>2 DEF Return
  <2> HIDE DEF c
  <2>5. Len(pending') = Len(calls)
    BY <2>4
  <2>6. \A i \in 1..Len(calls) : pending'[i] = IF i = n THEN c ELSE calls[i]
    BY <2>1, <2>4
  <2> QED BY <1>2, <2>3, <2>4, <2>5, <2>6
<1> QED BY <1>1, <1>2

LEMMA WroteShape ==
    ASSUME NEW N, NEW calls \in Seq([node : N, done : Nat])
    PROVE  /\ Len(Wrote(calls)) = Len(calls)
           /\ Wrote(calls) = <<>> <=> calls = <<>>
           /\ \A i \in 1..Len(calls) :
                 /\ Wrote(calls)[i].node = calls[i].node
                 /\ i # Len(calls) => Wrote(calls)[i].done = calls[i].done
                 /\ i = Len(calls) => Wrote(calls)[i].done = calls[i].done + 1
<1>1. CASE calls = <<>>
  BY <1>1 DEF Wrote
<1>2. CASE calls # <<>>
  <2> DEFINE n == Len(calls)
             c == [calls[n] EXCEPT !.done = @ + 1]
  <2>1. n \in Nat \ {0} /\ n \in 1..Len(calls)
    BY <1>2, EmptySeq
  <2>2. calls[n] \in [node : N, done : Nat]
    BY <2>1, ElementOfSeq
  <2>3. c.node = calls[n].node /\ c.done = calls[n].done + 1
    BY <2>2
  <2>4. Wrote(calls) = [calls EXCEPT ![n] = c]
    BY <1>2 DEF Wrote
  <2> HIDE DEF c
  <2>5. Len(Wrote(calls)) = Len(calls)
    BY <2>4
  <2>6. \A i \in 1..Len(calls) : Wrote(calls)[i] = IF i = n THEN c ELSE calls[i]
    BY <2>1, <2>4
  <2>7. Wrote(calls) # <<>>
    BY <2>1, <2>5
  <2> QED BY <1>2, <2>3, <2>5, <2>6, <2>7
<1> QED BY <1>1, <1>2

Waits(g, cs, v) == cs # <<>> => Parts(g, cs[Len(cs)].node)[cs[Len(cs)].done + 1] = v

\* Both go on with the call that waited for the part.
LEMMA ReturnsAlike ==
    ASSUME NEW g, NEW m, NEW N, NEW cs \in Seq([node : N, done : Nat]),
           NEW G, NEW ps \in Seq(CallOf(G)), SameCalls(g, m, cs, ps),
           NEW v \in DOMAIN m, NEW r \in G, r = m[v], Return(ps, r), result = NoRef,
           Waits(g, cs, v)
    PROVE  /\ SameCalls(g, m, Wrote(cs), pending')
           /\ cs = <<>> => result' = m[v]
           /\ cs # <<>> => result' = NoRef
<1>1. Len(ps) = Len(cs) /\ (ps = <<>> <=> cs = <<>>) /\ Len(cs) \in Nat
  BY EmptySeq DEF SameCalls
<1>2. /\ Len(pending') = Len(ps)
      /\ ps = <<>> => result' = m[v]
      /\ ps # <<>> => result' = NoRef
      /\ \A i \in 1..Len(ps) :
            /\ pending'[i].op = ps[i].op /\ pending'[i].want = ps[i].want
            /\ pending'[i].at = ps[i].at
            /\ i # Len(ps) => pending'[i].got = ps[i].got
            /\ i = Len(ps) => pending'[i].got = Append(ps[i].got, m[v])
  BY ReturnShape
<1> DEFINE ws == Wrote(cs)
<1>3. /\ Len(ws) = Len(cs)
      /\ \A i \in 1..Len(cs) :
            /\ ws[i].node = cs[i].node
            /\ i # Len(cs) => ws[i].done = cs[i].done
            /\ i = Len(cs) => ws[i].done = cs[i].done + 1
  BY WroteShape
<1> HIDE DEF ws
<1>4. ASSUME NEW i \in 1..Len(cs) PROVE SameCall(g, m, ws[i], pending'[i])
  <2>1. SameCall(g, m, cs[i], ps[i])
    BY DEF SameCalls
  <2>2. CASE i # Len(cs)
    BY <1>1, <1>2, <1>3, <2>1, <2>2 DEF SameCall
  <2>3. CASE i = Len(cs)
    <3> DEFINE p == ps[i]
               q == pending'[i]
               c == cs[i]
               d == ws[i]
    <3>1. p.got \in Seq(G) /\ c.done \in Nat
      <4>1. p \in CallOf(G) /\ c \in [node : N, done : Nat]
        BY <1>1, ElementOfSeq
      <4> QED BY <4>1 DEF CallOf
    <3>2. /\ q.op = p.op /\ q.want = p.want /\ q.at = p.at /\ q.got = Append(p.got, m[v])
          /\ d.node = c.node /\ d.done = c.done + 1
      BY <1>1, <1>2, <1>3, <2>3
    <3>3. /\ p.op = Kind(g, c.node) /\ p.want = Len(Parts(g, c.node)) /\ Len(p.got) = c.done
          /\ \A j \in 1..c.done : Parts(g, c.node)[j] \in DOMAIN m /\ p.got[j] = m[Parts(g, c.node)[j]]
          /\ c.node \in g.flagged => c.node \in DOMAIN m
          /\ p.at = IF c.node \in g.flagged THEN m[c.node] ELSE NoRef
      BY <2>1 DEF SameCall
    <3>4. Parts(g, c.node)[c.done + 1] = v
      BY <1>1, <2>3, EmptySeq DEF Waits
    <3> HIDE DEF p, q, c, d
    <3>5. /\ Len(q.got) = c.done + 1 /\ q.got[c.done + 1] = m[v]
          /\ \A j \in 1..c.done : q.got[j] = p.got[j]
      <4>1. p.got \in Seq(G) /\ m[v] \in G /\ Len(p.got) = c.done /\ q.got = Append(p.got, m[v])
        BY <3>1, <3>2, <3>3
      <4> QED BY <4>1, AppendProperties
    <3>6. \A j \in 1..d.done : Parts(g, d.node)[j] \in DOMAIN m /\ q.got[j] = m[Parts(g, d.node)[j]]
      <4> TAKE j \in 1..d.done
      <4>1. j \in 1..c.done \/ j = c.done + 1
        BY <3>1, <3>2
      <4> QED BY <3>2, <3>3, <3>4, <3>5, <4>1
    <3>7. SameCall(g, m, d, q)
      BY <3>2, <3>3, <3>5, <3>6 DEF SameCall
    <3> QED BY <3>7 DEF d, q
  <2> QED BY <2>2, <2>3
<1> QED BY <1>1, <1>2, <1>3, <1>4 DEF SameCalls, ws

-----------------------------------------------------------------------------
(***************************************************************************)
(* The writer.                                                             *)
(***************************************************************************)
\* Each call but the innermost writes a part, and no node has two of them.
Chain(g, cs) ==
    /\ \A i \in 1..Len(cs) :
          /\ Kind(g, cs[i].node) \in Containers
          /\ cs[i].done <= Len(Parts(g, cs[i].node))
          /\ i = 1 => cs[i].node = g.root
    /\ \A i \in 1..(Len(cs) - 1) :
          /\ cs[i].done < Len(Parts(g, cs[i].node))
          /\ Parts(g, cs[i].node)[cs[i].done + 1] = cs[i + 1].node
    /\ \A i, j \in 1..Len(cs) : cs[i].node = cs[j].node => i = j

\* A node is made when it is begun, with a flag, and otherwise when it ends.
MadeOK(g, w) ==
    /\ Distinct(w.made)
    /\ \A i \in 1..Len(w.made) : Kind(g, w.made[i]) \notin Singletons
    /\ \A i \in 1..Len(w.index) : w.index[i] \in g.flagged /\ Among(w.made, w.index[i])
    /\ \A i \in 1..Len(w.calls) :
          w.calls[i].node \notin g.flagged => ~Among(w.made, w.calls[i].node)

WriterOK(g, w) == w \in WriterState(DOMAIN g.nodes) /\ Chain(g, w.calls) /\ MadeOK(g, w)

\* The calls around the innermost.
Fore(cs) == SubSeq(cs, 1, Len(cs) - 1)
Starts(cs, fs) == \A i \in 1..Len(fs) : fs[i] = cs[i]

LEMMA EndShape ==
    ASSUME NEW g, NEW N, NEW w \in WriterState(N), Finished(g, w)
    PROVE  /\ Step(g, w).calls = Wrote(Fore(w.calls))
           /\ Step(g, w).over = (Fore(w.calls) = <<>>)
           /\ Step(g, w).made = Grown(w.made, Inner(w).node, Inner(w).node \notin g.flagged)
           /\ Step(g, w).index = w.index /\ Step(g, w).at = w.at
BY DEF Step, End, Fore, WriterState

LEMMA ShortShape ==
    ASSUME NEW N, NEW w \in WriterState(N), NEW token
    PROVE  /\ WriteShort(w, token).calls = Wrote(w.calls)
           /\ WriteShort(w, token).over = (w.calls = <<>>)
           /\ WriteShort(w, token).made = w.made
           /\ WriteShort(w, token).index = w.index
           /\ WriteShort(w, token).at = w.at + 1
           /\ WriteShort(w, token).token = token
BY DEF WriteShort, WriterState

LEMMA LongShape ==
    ASSUME NEW g, NEW N, NEW w \in WriterState(N), NEW v
    PROVE  /\ WriteLong(g, w, v).calls =
                IF Kind(g, v) \notin Containers THEN Wrote(w.calls)
                ELSE Append(w.calls, [node |-> v, done |-> 0])
           /\ WriteLong(g, w, v).over = (Kind(g, v) \notin Containers /\ w.calls = <<>>)
           /\ WriteLong(g, w, v).made = Grown(w.made, v, Kind(g, v) \notin Containers \/ v \in g.flagged)
           /\ WriteLong(g, w, v).index = Grown(w.index, v, v \in g.flagged)
           /\ WriteLong(g, w, v).at = w.at + 1
BY DEF WriteLong, WriterState

LEMMA LongToken ==
    ASSUME NEW g, NEW N, NEW w \in WriterState(N), NEW v
    PROVE  LET token == WriteLong(g, w, v).token
           IN  /\ token.op = Op(Kind(g, v)) /\ token.flag = (v \in g.flagged)
               /\ token.text = Text(g, v)
               /\ Kind(g, v) = "Int" => token.n = Num(g, v)
               /\ Kind(g, v) \notin {"Int", "Code"} => token.n = Len(Parts(g, v))
<1> DEFINE k == IF Kind(g, v) = "Int" THEN Num(g, v)
                ELSE IF Kind(g, v) = "Code" THEN 0 ELSE Len(Parts(g, v))
<1>1. WriteLong(g, w, v).token = T(Op(Kind(g, v)), v \in g.flagged, k, Text(g, v))
  BY DEF WriteLong, WriterState
<1>2. /\ Kind(g, v) = "Int" => k = Num(g, v)
      /\ Kind(g, v) \notin {"Int", "Code"} => k = Len(Parts(g, v))
  OBVIOUS
<1> HIDE DEF k
<1> QED BY <1>1, <1>2 DEF T

LEMMA LeafShape ==
    ASSUME NEW g, NEW N, NEW w \in WriterState(N), NEW v, Kind(g, v) \in Leaves
    PROVE  /\ WriteLong(g, w, v).calls = Wrote(w.calls)
           /\ WriteLong(g, w, v).over = (w.calls = <<>>)
           /\ WriteLong(g, w, v).made = Append(w.made, v)
           /\ WriteLong(g, w, v).index = Grown(w.index, v, v \in g.flagged)
           /\ WriteLong(g, w, v).token.op = Kind(g, v)
           /\ WriteLong(g, w, v).token.flag = (v \in g.flagged)
           /\ WriteLong(g, w, v).token.text = Text(g, v)
           /\ Kind(g, v) = "Int" => WriteLong(g, w, v).token.n = Num(g, v)
<1>1. Kind(g, v) \notin Containers /\ Op(Kind(g, v)) = Kind(g, v)
  BY DEF Leaves, Containers, Op, Unread, Texts
<1> DEFINE x == WriteLong(g, w, v)
<1>2. /\ x.calls = IF Kind(g, v) \notin Containers THEN Wrote(w.calls)
                   ELSE Append(w.calls, [node |-> v, done |-> 0])
      /\ x.over = (Kind(g, v) \notin Containers /\ w.calls = <<>>)
      /\ x.made = Grown(w.made, v, Kind(g, v) \notin Containers \/ v \in g.flagged)
      /\ x.index = Grown(w.index, v, v \in g.flagged)
  BY LongShape
<1>3. /\ x.token.op = Op(Kind(g, v)) /\ x.token.flag = (v \in g.flagged)
      /\ x.token.text = Text(g, v)
      /\ Kind(g, v) = "Int" => x.token.n = Num(g, v)
  BY LongToken
<1> HIDE DEF x
<1>4. x.calls = Wrote(w.calls) /\ x.over = (w.calls = <<>>) /\ x.made = Append(w.made, v)
  BY <1>1, <1>2 DEF Grown
<1> QED BY <1>1, <1>2, <1>3, <1>4 DEF x

WroteBranch(g, w, v, x) ==
    /\ x.calls = Append(w.calls, [node |-> v, done |-> 0])
    /\ x.over = FALSE
    /\ x.made = Grown(w.made, v, v \in g.flagged)
    /\ x.index = Grown(w.index, v, v \in g.flagged)
    /\ x.token.op = Kind(g, v)
    /\ x.token.flag = (v \in g.flagged)
    /\ Kind(g, v) # "Code" => x.token.n = Len(Parts(g, v))

LEMMA BranchShape ==
    ASSUME NEW g, NEW N, NEW w \in WriterState(N), NEW v, Kind(g, v) \in Containers
    PROVE  WroteBranch(g, w, v, WriteLong(g, w, v))
<1>1. Kind(g, v) # "Int" /\ Op(Kind(g, v)) = Kind(g, v)
  BY DEF Containers, Op, Unread, Texts
<1>2. /\ WriteLong(g, w, v).calls = Append(w.calls, [node |-> v, done |-> 0])
      /\ WriteLong(g, w, v).over = FALSE
  BY DEF WriteLong, WriterState
<1>3. /\ WriteLong(g, w, v).made = Grown(w.made, v, v \in g.flagged)
      /\ WriteLong(g, w, v).index = Grown(w.index, v, v \in g.flagged)
  BY DEF WriteLong, WriterState, Grown
<1>4. LET token == WriteLong(g, w, v).token
      IN  /\ token.op = Op(Kind(g, v)) /\ token.flag = (v \in g.flagged)
          /\ Kind(g, v) \notin {"Int", "Code"} => token.n = Len(Parts(g, v))
  BY LongToken
<1> QED BY <1>1, <1>2, <1>3, <1>4 DEF WroteBranch

LEMMA WriterTypes ==
    ASSUME NEW N, NEW w \in WriterState(N)
    PROVE  /\ w.calls \in Seq([node : N, done : Nat]) /\ Len(w.calls) \in Nat
           /\ \A i \in 1..Len(w.calls) : w.calls[i].node \in N /\ w.calls[i].done \in Nat
           /\ w.made \in Seq(N) /\ Len(w.made) \in Nat /\ \A i \in 1..Len(w.made) : w.made[i] \in N
           /\ w.index \in Seq(N) /\ Len(w.index) \in Nat /\ \A i \in 1..Len(w.index) : w.index[i] \in N
           /\ w.at \in Nat /\ w.over \in BOOLEAN
<1>1. /\ w.calls \in Seq([node : N, done : Nat]) /\ w.made \in Seq(N) /\ w.index \in Seq(N)
      /\ w.at \in Nat /\ w.over \in BOOLEAN
  BY DEF WriterState
<1>2. \A i \in 1..Len(w.calls) : w.calls[i] \in [node : N, done : Nat]
  BY <1>1, ElementOfSeq
<1>3. /\ \A i \in 1..Len(w.made) : w.made[i] \in N
      /\ \A i \in 1..Len(w.index) : w.index[i] \in N
  BY <1>1, ElementOfSeq
<1> QED BY <1>1, <1>2, <1>3

LEMMA GraphLengths ==
    ASSUME NEW g, IsGraph(g), NEW v \in DOMAIN g.nodes
    PROVE  Len(Parts(g, v)) \in Nat
<1>1. Parts(g, v) \in Seq(DOMAIN g.nodes)
  BY GraphNode
<1> QED BY <1>1

\* What is written next is the root, or a part of the innermost call.
LEMMA CurrentNode ==
    ASSUME NEW g, IsGraph(g), NEW w, WriterOK(g, w), ~Finished(g, w)
    PROVE  /\ Current(g, w) \in DOMAIN g.nodes
           /\ w.calls = <<>> => Current(g, w) = g.root
           /\ w.calls # <<>> =>
                 /\ Len(w.calls) \in 1..Len(w.calls)
                 /\ Inner(w).done < Len(Parts(g, Inner(w).node))
                 /\ Parts(g, Inner(w).node)[Inner(w).done + 1] = Current(g, w)
<1>1. CASE w.calls = <<>>
  BY <1>1 DEF Current, IsGraph
<1>2. CASE w.calls # <<>>
  <2>1. w \in WriterState(DOMAIN g.nodes)
    BY DEF WriterOK
  <2>2. Len(w.calls) \in 1..Len(w.calls)
    BY <1>2, <2>1, WriterTypes, EmptySeq
  <2>3. Inner(w).node \in DOMAIN g.nodes /\ Inner(w).done \in Nat
    BY <2>1, <2>2, WriterTypes DEF Inner
  <2>4. Inner(w).done <= Len(Parts(g, Inner(w).node))
    BY <2>2 DEF WriterOK, Chain, Inner
  <2>5. /\ Inner(w).done # Len(Parts(g, Inner(w).node))
        /\ Current(g, w) = Parts(g, Inner(w).node)[Inner(w).done + 1]
    BY <1>2 DEF Finished, Current
  <2>6. Parts(g, Inner(w).node) \in Seq(DOMAIN g.nodes)
    BY <2>3, GraphNode
  <2> HIDE DEF Inner
  <2>7. Inner(w).done < Len(Parts(g, Inner(w).node)) /\ Inner(w).done + 1 \in 1..Len(Parts(g, Inner(w).node))
    BY <2>3, <2>4, <2>5, <2>6
  <2>8. Parts(g, Inner(w).node)[Inner(w).done + 1] \in DOMAIN g.nodes
    BY <2>6, <2>7, ElementOfSeq
  <2> QED BY <1>2, <2>2, <2>5, <2>7, <2>8
<1> QED BY <1>1, <1>2

LEMMA ChainWrote ==
    ASSUME NEW g, NEW N, NEW cs \in Seq([node : N, done : Nat]), Chain(g, cs),
           \A v \in N : Len(Parts(g, v)) \in Nat,
           cs # <<>> => cs[Len(cs)].done < Len(Parts(g, cs[Len(cs)].node))
    PROVE  Chain(g, Wrote(cs))
<1> DEFINE ws == Wrote(cs)
<1>1. /\ Len(ws) = Len(cs) /\ Len(cs) \in Nat
      /\ \A i \in 1..Len(cs) :
            /\ ws[i].node = cs[i].node
            /\ i # Len(cs) => ws[i].done = cs[i].done
            /\ i = Len(cs) => ws[i].done = cs[i].done + 1
  <2>1. Len(cs) \in Nat
    OBVIOUS
  <2> HIDE DEF ws
  <2> QED BY <2>1, WroteShape DEF ws
<1>2. \A i \in 1..Len(cs) : cs[i].done \in Nat /\ Len(Parts(g, cs[i].node)) \in Nat
  <2> TAKE i \in 1..Len(cs)
  <2>1. cs[i] \in [node : N, done : Nat]
    BY ElementOfSeq
  <2> QED BY <2>1
<1> HIDE DEF ws
<1>3. \A i \in 1..Len(cs) : ws[i].done <= Len(Parts(g, ws[i].node))
  <2> TAKE i \in 1..Len(cs)
  <2>1. CASE i # Len(cs)
    BY <1>1, <2>1 DEF Chain
  <2>2. CASE i = Len(cs)
    <3>1. cs # <<>> /\ cs[i].done < Len(Parts(g, cs[i].node))
      BY <2>2, EmptySeq
    <3> QED BY <1>1, <1>2, <2>2, <3>1
  <2> QED BY <2>1, <2>2
<1>4. \A i \in 1..(Len(cs) - 1) : i \in 1..Len(cs) /\ i + 1 \in 1..Len(cs) /\ i # Len(cs)
  BY <1>1
<1> QED BY <1>1, <1>3, <1>4 DEF Chain, ws

LEMMA ChainFront ==
    ASSUME NEW g, NEW N, NEW cs \in Seq([node : N, done : Nat]), Chain(g, cs), cs # <<>>
    PROVE  /\ Fore(cs) \in Seq([node : N, done : Nat]) /\ Chain(g, Fore(cs))
           /\ Len(Fore(cs)) = Len(cs) - 1 /\ Starts(cs, Fore(cs))
           /\ Fore(cs) # <<>> =>
                /\ Fore(cs)[Len(Fore(cs))].done < Len(Parts(g, Fore(cs)[Len(Fore(cs))].node))
                /\ Parts(g, Fore(cs)[Len(Fore(cs))].node)[Fore(cs)[Len(Fore(cs))].done + 1]
                     = cs[Len(cs)].node
           /\ Fore(cs) = <<>> => cs[Len(cs)].node = g.root
<1> DEFINE fs == SubSeq(cs, 1, Len(cs) - 1)
           n == Len(cs)
<1>1. n \in Nat \ {0}
  BY EmptySeq
<1>2. fs \in Seq([node : N, done : Nat]) /\ Len(fs) = n - 1 /\ \A i \in 1..(n - 1) : fs[i] = cs[i]
  <2>1. \A i \in 1..(n - 1) : cs[i] \in [node : N, done : Nat]
    <3>1. \A i \in 1..(n - 1) : i \in 1..n
      <4> HIDE DEF n
      <4> QED BY <1>1
    <3> QED BY <3>1, ElementOfSeq
  <2>2. /\ fs \in Seq([node : N, done : Nat])
        /\ Len(fs) = IF 1 <= n - 1 THEN n - 1 - 1 + 1 ELSE 0
        /\ \A i \in 1..(n - 1 - 1 + 1) : fs[i] = cs[1 + i - 1]
    <3>1. 1 \in Int /\ n - 1 \in Int
      BY <1>1
    <3> HIDE DEF n
    <3> QED BY <2>1, <3>1, SubSeqProperties DEF n
  <2>3. \A i \in 1..(n - 1) : i \in 1..(n - 1 - 1 + 1) /\ 1 + i - 1 = i
    BY <1>1
  <2> HIDE DEF n, fs
  <2> QED BY <2>2, <2>3, <1>1
<1> HIDE DEF fs, n
<1>3. /\ \A i \in 1..(n - 1) : i \in 1..n
      /\ \A i \in 1..(n - 1 - 1) : i \in 1..(n - 1) /\ i + 1 \in 1..(n - 1)
      /\ n - 1 # 0 => n - 1 \in 1..(n - 1) /\ n - 1 + 1 = n
      /\ n - 1 = 0 => n = 1 /\ n \in 1..n
  BY <1>1
<1>4. fs = <<>> <=> n - 1 = 0
  BY <1>2, EmptySeq
<1>5. Chain(g, fs)
  <2>1. \A i \in 1..(n - 1) : cs[i].node = fs[i].node /\ cs[i].done = fs[i].done
    BY <1>2
  <2>2. \A i \in 1..(Len(fs) - 1) :
           /\ fs[i].done < Len(Parts(g, fs[i].node))
           /\ Parts(g, fs[i].node)[fs[i].done + 1] = fs[i + 1].node
    <3> TAKE i \in 1..(Len(fs) - 1)
    <3>1. i \in 1..(n - 1) /\ i + 1 \in 1..(n - 1) /\ fs[i] = cs[i] /\ fs[i + 1] = cs[i + 1]
      BY <1>2, <1>3
    <3> QED BY <3>1 DEF Chain, n
  <2>3. \A i \in 1..Len(fs) :
          /\ Kind(g, fs[i].node) \in Containers
          /\ fs[i].done <= Len(Parts(g, fs[i].node))
          /\ i = 1 => fs[i].node = g.root
    BY <1>2, <1>3, <2>1 DEF Chain, n
  <2>4. \A i, j \in 1..Len(fs) : fs[i].node = fs[j].node => i = j
    BY <1>2, <1>3, <2>1 DEF Chain, n
  <2> QED BY <2>2, <2>3, <2>4 DEF Chain
<1>6. fs # <<>> => /\ fs[Len(fs)].done < Len(Parts(g, fs[Len(fs)].node))
                   /\ Parts(g, fs[Len(fs)].node)[fs[Len(fs)].done + 1] = cs[Len(cs)].node
  <2> SUFFICES ASSUME fs # <<>>
               PROVE  /\ fs[n - 1].done < Len(Parts(g, fs[n - 1].node))
                      /\ Parts(g, fs[n - 1].node)[fs[n - 1].done + 1] = cs[n].node
    BY <1>2 DEF n
  <2>1. n - 1 \in 1..(n - 1) /\ n - 1 + 1 = n /\ fs[n - 1] = cs[n - 1]
    BY <1>2, <1>3, <1>4
  <2>2. /\ cs[n - 1].done < Len(Parts(g, cs[n - 1].node))
        /\ Parts(g, cs[n - 1].node)[cs[n - 1].done + 1] = cs[n - 1 + 1].node
    BY <2>1 DEF Chain, n
  <2> QED BY <2>1, <2>2
<1>7. fs = <<>> => cs[Len(cs)].node = g.root
  BY <1>3, <1>4 DEF Chain, n
<1>8. Fore(cs) = fs /\ Starts(cs, fs)
  BY <1>2 DEF fs, Fore, Starts
<1> QED BY <1>2, <1>5, <1>6, <1>7, <1>8 DEF n

IsFront(g, N, cs, fs) ==
    /\ fs \in Seq([node : N, done : Nat]) /\ Len(fs) = Len(cs) - 1
    /\ \A i \in 1..Len(fs) : fs[i] = cs[i]
    /\ Waits(g, fs, cs[Len(cs)].node)
    /\ fs = <<>> => cs[Len(cs)].node = g.root

LEMMA Front ==
    ASSUME NEW g, NEW N, NEW cs \in Seq([node : N, done : Nat]), Chain(g, cs), cs # <<>>
    PROVE  IsFront(g, N, cs, Fore(cs))
<1>1. /\ Fore(cs) \in Seq([node : N, done : Nat])
      /\ Len(Fore(cs)) = Len(cs) - 1 /\ Starts(cs, Fore(cs))
  BY ChainFront
<1>2. Waits(g, Fore(cs), cs[Len(cs)].node)
  BY ChainFront DEF Waits
<1>3. Fore(cs) = <<>> => cs[Len(cs)].node = g.root
  BY ChainFront
<1> QED BY <1>1, <1>2, <1>3 DEF IsFront, Starts

LEMMA ChainAppend ==
    ASSUME NEW g, NEW N, NEW cs \in Seq([node : N, done : Nat]), Chain(g, cs),
           NEW v \in N, Kind(g, v) \in Containers, Len(Parts(g, v)) \in Nat,
           \A i \in 1..Len(cs) : cs[i].node # v,
           cs = <<>> => v = g.root,
           cs # <<>> => /\ cs[Len(cs)].done < Len(Parts(g, cs[Len(cs)].node))
                        /\ Parts(g, cs[Len(cs)].node)[cs[Len(cs)].done + 1] = v
    PROVE  Chain(g, Append(cs, [node |-> v, done |-> 0]))
<1> DEFINE c == [node |-> v, done |-> 0]
           as == Append(cs, c)
           n == Len(cs)
<1>1. n \in Nat /\ (n = 0 <=> cs = <<>>)
  BY EmptySeq
<1>2. Len(as) = n + 1 /\ as[n + 1] = c /\ \A i \in 1..n : as[i] = cs[i]
  BY AppendProperties
<1>3. c.node = v /\ c.done = 0
  OBVIOUS
<1> HIDE DEF c, as
<1>4. /\ \A i \in 1..(n + 1) : i \in 1..n \/ i = n + 1
      /\ \A i \in 1..(n + 1 - 1) : (i \in 1..(n - 1) /\ i + 1 \in 1..n) \/ (i = n /\ n # 0)
      /\ \A i \in 1..(n - 1) : i \in 1..n
      /\ n # 0 => n \in 1..n
      /\ n + 1 = 1 => n = 0
  BY <1>1
<1> HIDE DEF n
<1>5. \A i \in 1..Len(as) :
          /\ Kind(g, as[i].node) \in Containers
          /\ as[i].done <= Len(Parts(g, as[i].node))
          /\ i = 1 => as[i].node = g.root
  <2> TAKE i \in 1..Len(as)
  <2>1. CASE i \in 1..n
    BY <1>2, <2>1 DEF Chain, n
  <2>2. CASE i = n + 1
    <3>1. 0 <= Len(Parts(g, v))
      OBVIOUS
    <3> QED BY <1>1, <1>2, <1>3, <1>4, <2>2, <3>1
  <2> QED BY <1>2, <1>4, <2>1, <2>2
<1>6. \A i \in 1..(Len(as) - 1) :
          /\ as[i].done < Len(Parts(g, as[i].node))
          /\ Parts(g, as[i].node)[as[i].done + 1] = as[i + 1].node
  <2> TAKE i \in 1..(Len(as) - 1)
  <2>1. CASE i \in 1..(n - 1) /\ i + 1 \in 1..n
    BY <1>2, <1>4, <2>1 DEF Chain, n
  <2>2. CASE i = n /\ n # 0
    <3>1. cs[n].done < Len(Parts(g, cs[n].node)) /\ Parts(g, cs[n].node)[cs[n].done + 1] = v
      BY <1>1, <2>2 DEF n
    <3>2. as[i] = cs[n] /\ as[i + 1] = c
      BY <1>2, <1>4, <2>2
    <3>3. as[i + 1].node = v
      BY <1>3, <3>2
    <3> QED BY <3>1, <3>2, <3>3
  <2>3. i \in 1..(n + 1 - 1)
    BY <1>1, <1>2
  <2>4. (i \in 1..(n - 1) /\ i + 1 \in 1..n) \/ (i = n /\ n # 0)
    BY <1>4, <2>3
  <2> QED BY <2>1, <2>2, <2>4
<1>7. \A i, j \in 1..Len(as) : as[i].node = as[j].node => i = j
  <2> TAKE i, j \in 1..Len(as)
  <2>1. /\ \A k \in 1..n : as[k] = cs[k] /\ cs[k].node # v
        /\ as[n + 1].node = v
        /\ i \in 1..n \/ i = n + 1
        /\ j \in 1..n \/ j = n + 1
    BY <1>2, <1>3, <1>4 DEF n
  <2>2. \A k, l \in 1..n : cs[k].node = cs[l].node => k = l
    BY DEF Chain, n
  <2> QED BY <2>1, <2>2
<1> QED BY <1>5, <1>6, <1>7 DEF Chain, as, c

\* Nodes are added to the list of what is made, and calls begin or end.
LEMMA MadeGrows ==
    ASSUME NEW g, NEW N, NEW w \in WriterState(N), MadeOK(g, w), NEW x,
           NEW v \in N, ~Among(w.made, v), Kind(g, v) \notin Singletons,
           x.made = Append(w.made, v) \/ x.made = w.made,
           \/ x.index = w.index
           \/ x.index = Append(w.index, v) /\ v \in g.flagged /\ x.made = Append(w.made, v),
           \A i \in 1..Len(x.calls) :
              \/ \E j \in 1..Len(w.calls) : x.calls[i].node = w.calls[j].node /\ w.calls[j].node # v
              \/ x.calls[i].node = v /\ (v \in g.flagged \/ x.made = w.made)
    PROVE  MadeOK(g, x)
<1>1. w.made \in Seq(N) /\ w.index \in Seq(N) /\ Distinct(w.made) /\ Len(w.index) \in Nat
  BY WriterTypes DEF MadeOK
<1>2. /\ Distinct(x.made)
      /\ \A u : Among(x.made, u) => Among(w.made, u) \/ (x.made # w.made /\ u = v)
      /\ \A u : Among(w.made, u) \/ (x.made = Append(w.made, v) /\ u = v) => Among(x.made, u)
      /\ \A i \in 1..Len(x.made) : (i \in 1..Len(w.made) /\ x.made[i] = w.made[i]) \/ x.made[i] = v
  <2> DEFINE t == Append(w.made, v)
  <2>1. /\ Distinct(t) /\ Len(t) = Len(w.made) + 1 /\ t[Len(w.made) + 1] = v
        /\ \A i \in 1..Len(w.made) : t[i] = w.made[i]
        /\ \A u : Among(t, u) <=> Among(w.made, u) \/ u = v
    BY <1>1, AppendPlace
  <2> HIDE DEF t
  <2>2. \A i \in 1..(Len(w.made) + 1) : i \in 1..Len(w.made) \/ i = Len(w.made) + 1
    <3>1. Len(w.made) \in Nat
      BY WriterTypes
    <3> QED BY <3>1
  <2>3. t # w.made
    <3>1. Len(w.made) \in Nat
      BY WriterTypes
    <3> QED BY <2>1, <3>1
  <2>4. CASE x.made = t
    BY <2>1, <2>2, <2>3, <2>4
  <2>5. CASE x.made = w.made
    BY <1>1, <2>3, <2>5 DEF t
  <2> QED BY <2>4, <2>5 DEF t
<1>3. \A i \in 1..Len(x.made) : Kind(g, x.made[i]) \notin Singletons
  BY <1>2 DEF MadeOK
<1>4. \A i \in 1..Len(x.index) : x.index[i] \in g.flagged /\ Among(x.made, x.index[i])
  <2>1. CASE x.index = w.index
    BY <1>2, <2>1 DEF MadeOK
  <2>2. CASE x.index = Append(w.index, v) /\ v \in g.flagged /\ x.made = Append(w.made, v)
    <3>1. /\ Len(x.index) = Len(w.index) + 1 /\ x.index[Len(w.index) + 1] = v
          /\ \A i \in 1..Len(w.index) : x.index[i] = w.index[i]
      BY <1>1, <2>2, AppendProperties
    <3>2. \A i \in 1..Len(x.index) : i \in 1..Len(w.index) \/ i = Len(w.index) + 1
      BY <1>1, <3>1
    <3>3. Among(x.made, v)
      BY <1>2, <2>2
    <3> QED BY <1>2, <2>2, <3>1, <3>2, <3>3 DEF MadeOK
  <2> QED BY <2>1, <2>2
<1>5. \A i \in 1..Len(x.calls) : x.calls[i].node \notin g.flagged => ~Among(x.made, x.calls[i].node)
  BY <1>2 DEF MadeOK
<1> QED BY <1>2, <1>3, <1>4, <1>5 DEF MadeOK

LEMMA WriterEnds ==
    ASSUME NEW g, IsGraph(g), NEW w, WriterOK(g, w), Finished(g, w),
           Step(g, w) \in WriterState(DOMAIN g.nodes)
    PROVE  WriterOK(g, Step(g, w))
<1> DEFINE x  == Step(g, w)
           N  == DOMAIN g.nodes
           v  == Inner(w).node
           fs == Fore(w.calls)
<1>1. w \in WriterState(N) /\ Chain(g, w.calls) /\ MadeOK(g, w)
  BY DEF WriterOK
<1>2. /\ x.calls = Wrote(fs) /\ x.made = Grown(w.made, v, v \notin g.flagged) /\ x.index = w.index
  BY <1>1, EndShape
<1>3. /\ w.calls \in Seq([node : N, done : Nat]) /\ w.calls # <<>> /\ Len(w.calls) \in Nat \ {0}
      /\ Len(w.calls) \in 1..Len(w.calls) /\ v \in N
  <2>1. w.calls \in Seq([node : N, done : Nat]) /\ w.calls # <<>> /\ Len(w.calls) \in Nat
    BY <1>1, WriterTypes DEF Finished
  <2>2. Len(w.calls) \in 1..Len(w.calls)
    BY <2>1, EmptySeq
  <2>3. Len(w.calls) \in Nat \ {0}
    BY <2>1, <2>2
  <2>4. \A i \in 1..Len(w.calls) : w.calls[i].node \in N
    BY <1>1, WriterTypes
  <2>5. v \in N
    BY <2>2, <2>4 DEF Inner
  <2> QED BY <2>1, <2>2, <2>3, <2>5
<1>4. /\ fs \in Seq([node : N, done : Nat]) /\ Chain(g, fs)
      /\ Len(fs) = Len(w.calls) - 1 /\ \A i \in 1..Len(fs) : fs[i] = w.calls[i]
      /\ fs # <<>> => fs[Len(fs)].done < Len(Parts(g, fs[Len(fs)].node))
  <2>1. /\ fs \in Seq([node : N, done : Nat]) /\ Chain(g, fs)
        /\ Len(fs) = Len(w.calls) - 1 /\ Starts(w.calls, fs)
        /\ fs # <<>> => fs[Len(fs)].done < Len(Parts(g, fs[Len(fs)].node))
    BY <1>1, <1>3, ChainFront
  <2> QED BY <2>1 DEF Starts
<1>5. \A u \in N : Len(Parts(g, u)) \in Nat
  BY GraphLengths
<1> HIDE DEF fs, x
<1>6. Chain(g, x.calls)
  BY <1>2, <1>4, <1>5, ChainWrote
<1>7. \A i \in 1..Len(x.calls) :
         \E j \in 1..Len(w.calls) : x.calls[i].node = w.calls[j].node /\ w.calls[j].node # v
  <2> TAKE i \in 1..Len(x.calls)
  <2>0. Len(x.calls) = Len(fs) /\ \A k \in 1..Len(fs) : x.calls[k].node = fs[k].node
    <3>1. fs \in Seq([node : N, done : Nat])
      BY <1>4
    <3>2. Len(Wrote(fs)) = Len(fs) /\ \A k \in 1..Len(fs) : Wrote(fs)[k].node = fs[k].node
      BY <3>1, WroteShape
    <3>3. x.calls = Wrote(fs)
      BY <1>2
    <3> QED BY <3>2, <3>3
  <2>1. i \in 1..Len(fs) /\ x.calls[i].node = fs[i].node
    BY <2>0
  <2>2. i \in 1..Len(w.calls) /\ i # Len(w.calls) /\ fs[i] = w.calls[i]
    <3>1. fs[i] = w.calls[i]
      BY <1>4, <2>1
    <3>2. Len(w.calls) \in Nat \ {0} /\ Len(fs) = Len(w.calls) - 1
      BY <1>3, <1>4
    <3>3. i \in 1..(Len(w.calls) - 1)
      BY <2>1, <3>2
    <3> DEFINE l == Len(w.calls)
    <3>4. l \in Nat \ {0} /\ i \in 1..(l - 1)
      BY <3>2, <3>3
    <3> HIDE DEF l
    <3>5. i \in 1..l /\ i # l
      BY <3>4
    <3> QED BY <3>1, <3>5 DEF l
  <2>3. w.calls[i].node # v
    BY <1>1, <1>3, <2>2 DEF Chain, Inner
  <2> QED BY <2>1, <2>2, <2>3
<1>8. Kind(g, v) \in Containers /\ Kind(g, v) \notin Singletons
  BY <1>1, <1>3 DEF Chain, Inner, Containers, Singletons
<1> HIDE DEF v
<1>9. CASE v \notin g.flagged
  <2>1. ~Among(w.made, v)
    BY <1>1, <1>3, <1>9 DEF MadeOK, Inner, v
  <2>2. x.made = Append(w.made, v)
    BY <1>2, <1>9 DEF Grown
  <2>3. MadeOK(g, x)
    BY <1>1, <1>2, <1>3, <1>7, <1>8, <2>1, <2>2, MadeGrows, SMTT(30)
  <2> QED BY <1>6, <2>3 DEF WriterOK, x
<1>10. CASE v \in g.flagged
  <2>1. x.made = w.made
    BY <1>2, <1>10 DEF Grown
  <2>2. MadeOK(g, x)
    BY <1>1, <1>2, <1>7, <2>1 DEF MadeOK
  <2> QED BY <1>6, <2>2 DEF WriterOK, x
<1> QED BY <1>9, <1>10

LEMMA WriterShort ==
    ASSUME NEW g, IsGraph(g), NEW w, WriterOK(g, w), ~Finished(g, w), NEW token,
           WriteShort(w, token) \in WriterState(DOMAIN g.nodes)
    PROVE  WriterOK(g, WriteShort(w, token))
<1> DEFINE x == WriteShort(w, token)
           N == DOMAIN g.nodes
<1>1. w \in WriterState(N) /\ Chain(g, w.calls) /\ MadeOK(g, w)
  BY DEF WriterOK
<1>2. x.calls = Wrote(w.calls) /\ x.made = w.made /\ x.index = w.index
  BY <1>1, ShortShape
<1>3. w.calls \in Seq([node : N, done : Nat])
  BY <1>1, WriterTypes
<1>4. \A u \in N : Len(Parts(g, u)) \in Nat
  BY GraphLengths
<1>5. w.calls # <<>> => w.calls[Len(w.calls)].done < Len(Parts(g, w.calls[Len(w.calls)].node))
  BY CurrentNode DEF Inner
<1> HIDE DEF x
<1>6. Chain(g, x.calls)
  BY <1>1, <1>2, <1>3, <1>4, <1>5, ChainWrote
<1>7. Len(x.calls) = Len(w.calls) /\ \A i \in 1..Len(w.calls) : x.calls[i].node = w.calls[i].node
  <2>1. /\ Len(Wrote(w.calls)) = Len(w.calls)
        /\ \A i \in 1..Len(w.calls) : Wrote(w.calls)[i].node = w.calls[i].node
    BY <1>3, WroteShape
  <2> QED BY <1>2, <2>1
<1>8. MadeOK(g, x)
  BY <1>1, <1>2, <1>7 DEF MadeOK
<1> QED BY <1>6, <1>8 DEF WriterOK, x

LEMMA WriterLong ==
    ASSUME NEW g, IsGraph(g), NEW w, WriterOK(g, w), ~Finished(g, w),
           NEW v, v = Current(g, w), Kind(g, v) \notin Singletons,
           ~Among(w.made, v), ~Begun(w, v),
           WriteLong(g, w, v) \in WriterState(DOMAIN g.nodes)
    PROVE  WriterOK(g, WriteLong(g, w, v))
<1> DEFINE x == WriteLong(g, w, v)
           N == DOMAIN g.nodes
           leaf == Kind(g, v) \notin Containers
           flag == v \in g.flagged
<1>1. w \in WriterState(N) /\ Chain(g, w.calls) /\ MadeOK(g, w)
  BY DEF WriterOK
<1>2. /\ x.calls = IF leaf THEN Wrote(w.calls) ELSE Append(w.calls, [node |-> v, done |-> 0])
      /\ x.made = Grown(w.made, v, leaf \/ flag) /\ x.index = Grown(w.index, v, flag)
  BY <1>1, LongShape
<1>3. w.calls \in Seq([node : N, done : Nat]) /\ Len(w.calls) \in Nat
  BY <1>1, WriterTypes
<1>4. (\A u \in N : Len(Parts(g, u)) \in Nat) /\ v \in N
  BY CurrentNode, GraphLengths
<1>5. /\ w.calls = <<>> => v = g.root
      /\ w.calls # <<>> => /\ w.calls[Len(w.calls)].done < Len(Parts(g, w.calls[Len(w.calls)].node))
                           /\ Parts(g, w.calls[Len(w.calls)].node)[w.calls[Len(w.calls)].done + 1] = v
  BY CurrentNode DEF Inner
<1> HIDE DEF x, leaf, flag
<1>6. Chain(g, x.calls)
  <2>1. CASE leaf
    BY <1>1, <1>2, <1>3, <1>4, <1>5, <2>1, ChainWrote
  <2>2. CASE ~leaf
    <3>1. Kind(g, v) \in Containers
      BY <2>2 DEF leaf
    <3>2. \A i \in 1..Len(w.calls) : w.calls[i].node # v
      BY DEF Begun
    <3> QED BY <1>1, <1>2, <1>3, <1>4, <1>5, <2>2, <3>1, <3>2, ChainAppend
  <2> QED BY <2>1, <2>2
<1>7. \A i \in 1..Len(x.calls) :
         \/ \E j \in 1..Len(w.calls) : x.calls[i].node = w.calls[j].node /\ w.calls[j].node # v
         \/ x.calls[i].node = v /\ (v \in g.flagged \/ x.made = w.made)
  <2> TAKE i \in 1..Len(x.calls)
  <2>1. CASE leaf
    <3>0. Len(x.calls) = Len(w.calls) /\ \A k \in 1..Len(w.calls) : x.calls[k].node = w.calls[k].node
      BY <1>2, <1>3, <2>1, WroteShape
    <3>1. i \in 1..Len(w.calls) /\ x.calls[i].node = w.calls[i].node
      BY <3>0
    <3> QED BY <3>1 DEF Begun
  <2>2. CASE ~leaf
    <3> DEFINE c == [node |-> v, done |-> 0]
    <3>1. c.node = v /\ x.calls = Append(w.calls, c)
      BY <1>2, <2>2
    <3> HIDE DEF c
    <3>2. /\ Len(x.calls) = Len(w.calls) + 1 /\ x.calls[Len(w.calls) + 1] = c
          /\ \A j \in 1..Len(w.calls) : x.calls[j] = w.calls[j]
      BY <1>3, <3>1, AppendProperties
    <3>3. i \in 1..Len(w.calls) \/ i = Len(w.calls) + 1
      BY <1>3, <3>2
    <3>4. CASE i \in 1..Len(w.calls)
      BY <3>2, <3>4 DEF Begun
    <3>5. CASE i = Len(w.calls) + 1
      BY <1>2, <3>1, <3>2, <3>5, <2>2 DEF flag, Grown
    <3> QED BY <3>3, <3>4, <3>5
  <2> QED BY <2>1, <2>2
<1>8. /\ x.made = Append(w.made, v) \/ x.made = w.made
      /\ \/ x.index = w.index
         \/ x.index = Append(w.index, v) /\ v \in g.flagged /\ x.made = Append(w.made, v)
  BY <1>2 DEF Grown, flag
<1>9. MadeOK(g, x)
  BY <1>1, <1>4, <1>7, <1>8, MadeGrows
<1> QED BY <1>6, <1>9 DEF WriterOK, x

LEMMA WriterKept ==
    ASSUME NEW g, IsGraph(g), NEW w, WriterOK(g, w), Regular(g, w),
           Step(g, w) \in WriterState(DOMAIN g.nodes)
    PROVE  WriterOK(g, Step(g, w))
<1>1. CASE Finished(g, w)
  BY <1>1, WriterEnds
<1>2. CASE ~Finished(g, w)
  <2> DEFINE v == Current(g, w)
  <2>1. CASE Kind(g, v) \in Unnumbered \/ Among(w.index, v)
    <3>1. PICK token : Step(g, w) = WriteShort(w, token)
      BY <1>2, <2>1 DEF Step
    <3> QED BY <1>2, <3>1, WriterShort
  <2>2. CASE Kind(g, v) \notin Unnumbered /\ ~Among(w.index, v)
    <3>1. Step(g, w) = WriteLong(g, w, v)
      BY <1>2, <2>2 DEF Step
    <3>2. ~Among(w.made, v) /\ ~Begun(w, v)
      BY <1>2, <2>2 DEF Regular
    <3>3. Kind(g, v) \notin Singletons
      BY <2>2 DEF Unnumbered
    <3> QED BY <1>2, <3>1, <3>2, <3>3, WriterLong
  <2> QED BY <2>1, <2>2
<1> QED BY <1>1, <1>2

-----------------------------------------------------------------------------
(***************************************************************************)
(* The reader and the writer at the same place.                            *)
(***************************************************************************)
SameIndex(m, index, refs) ==
    /\ Len(refs) = Len(index)
    /\ \A i \in 1..Len(index) : index[i] \in DOMAIN m /\ refs[i] = m[index[i]]
Rest(tokens, at, s) ==
    /\ Len(s) = Len(tokens) - at
    /\ \A i \in 1..Len(s) : s[i] = tokens[at + i]
AllStored(g, m, w) == \A v \in DOMAIN m : Begun(w, v) \/ Stored(g, m, v)
Answers(g, m, w) ==
    /\ w.over => g.root \in DOMAIN m /\ result = m[g.root]
    /\ ~w.over => result = NoRef

\* Of the references, those up to base were given out before.
Mirrors(g, w, base, tokens) ==
    /\ WriterOK(g, w)
    /\ base \in Nat /\ base >= 3 /\ fresh = base + (Len(w.made) + 1)
    /\ SameCalls(g, RefsOf(g, w.made, base), w.calls, pending)
    /\ SameIndex(RefsOf(g, w.made, base), w.index, references)
    /\ AllStored(g, RefsOf(g, w.made, base), w)
    /\ Answers(g, RefsOf(g, w.made, base), w)
    /\ Rest(tokens, w.at, input)
    /\ status = "reading"

\* The writer goes on from w, and what it writes is in the file.
Writes(g, w, tokens) ==
    /\ IsGraph(g) /\ ~FrozenSetFlagged(g) /\ tokens \in Seq(Token)
    /\ ~w.over /\ Regular(g, w)
    /\ Step(g, w) \in WriterState(DOMAIN g.nodes)
    /\ Step(g, w).at > 0 =>
          Step(g, w).at <= Len(tokens) /\ tokens[Step(g, w).at] = Step(g, w).token

LEMMA RestOf ==
    ASSUME NEW S, NEW tokens \in Seq(S), NEW s \in Seq(S), NEW k \in Nat,
           Rest(tokens, k, s), k + 1 <= Len(tokens)
    PROVE  s # <<>> /\ Head(s) = tokens[k + 1] /\ Rest(tokens, k + 1, Tail(s))
<1>1. Len(s) = Len(tokens) - k /\ Len(tokens) \in Nat /\ Len(s) \in Nat
  BY DEF Rest
<1>2. Len(s) \in Nat \ {0} /\ 1 \in 1..Len(s)
  BY <1>1
<1>3. s # <<>>
  BY <1>2, EmptySeq
<1>4. Head(s) = s[1] /\ Len(Tail(s)) = Len(s) - 1 /\ \A i \in 1..Len(Tail(s)) : Tail(s)[i] = s[i + 1]
  BY <1>3, HeadTailProperties
<1>5. Head(s) = tokens[k + 1]
  BY <1>2, <1>4 DEF Rest
<1> DEFINE t == Tail(s)
           l == Len(t)
           n == Len(s)
<1>6. l = n - 1 /\ n = Len(tokens) - k /\ n \in Nat \ {0} /\ Len(tokens) \in Nat
  BY <1>1, <1>2, <1>4
<1>7. \A i \in 1..l : t[i] = s[i + 1]
  BY <1>4
<1> HIDE DEF t, l, n
<1>8. l = Len(tokens) - (k + 1) /\ \A i \in 1..l : i + 1 \in 1..n /\ k + (i + 1) = k + 1 + i
  BY <1>6
<1>9. \A i \in 1..n : s[i] = tokens[k + i]
  BY DEF Rest, n
<1>10. \A i \in 1..l : t[i] = tokens[k + 1 + i]
  BY <1>7, <1>8, <1>9
<1> QED BY <1>3, <1>5, <1>8, <1>10 DEF Rest, l, t

LEMMA StepCases ==
    ASSUME NEW g, NEW w, ~Finished(g, w)
    PROVE  LET v == Current(g, w)
           IN  /\ Kind(g, v) \in Unnumbered =>
                     Step(g, w) = WriteShort(w, T(Op(Kind(g, v)), FALSE, 0, ""))
               /\ Kind(g, v) \notin Unnumbered /\ Among(w.index, v) =>
                     Step(g, w) = WriteShort(w, T("Ref", FALSE, Place(w.index, v) - 1, ""))
               /\ Kind(g, v) \notin Unnumbered /\ ~Among(w.index, v) =>
                     Step(g, w) = WriteLong(g, w, v)
BY DEF Step

\* The next token of the file is the one that the writer writes.
LEMMA NextToken ==
    ASSUME ReaderInv, NEW g, NEW w, NEW base, NEW tokens,
           Mirrors(g, w, base, tokens), Writes(g, w, tokens), ~Finished(g, w)
    PROVE  /\ input # <<>> /\ Tok = Step(g, w).token /\ Tok \in Token
           /\ Step(g, w).at = w.at + 1
           /\ Rest(tokens, Step(g, w).at, Tail(input))
<1> DEFINE v == Current(g, w)
<1>1. w \in WriterState(DOMAIN g.nodes) /\ w.at \in Nat
  BY WriterTypes DEF Mirrors, WriterOK
<1>2. Step(g, w).at = w.at + 1
  <2>1. CASE Kind(g, v) \in Unnumbered \/ Among(w.index, v)
    <3>1. PICK token : Step(g, w) = WriteShort(w, token)
      BY <2>1, StepCases
    <3> QED BY <1>1, <3>1, ShortShape
  <2>2. CASE Kind(g, v) \notin Unnumbered /\ ~Among(w.index, v)
    <3>1. Step(g, w) = WriteLong(g, w, v)
      BY <2>2, StepCases
    <3>2. WriteLong(g, w, v).at = w.at + 1
      BY <1>1 DEF WriteLong, WriterState
    <3> QED BY <3>1, <3>2
  <2> QED BY <2>1, <2>2
<1>3. w.at + 1 <= Len(tokens) /\ tokens[w.at + 1] = Step(g, w).token
  <2>1. w.at + 1 > 0
    BY <1>1
  <2> QED BY <1>2, <2>1 DEF Writes
<1>4. input \in Seq(Token) /\ tokens \in Seq(Token) /\ Rest(tokens, w.at, input)
  BY DEF ReaderInv, ReaderOK, Writes, Mirrors
<1>5. input # <<>> /\ Head(input) = tokens[w.at + 1] /\ Rest(tokens, w.at + 1, Tail(input))
  BY <1>1, <1>3, <1>4, RestOf
<1>6. Head(input) \in Token
  BY <1>4, <1>5, HeadTailProperties
<1> QED BY <1>2, <1>3, <1>5, <1>6 DEF Tok

\* They end a container together.
LEMMA EndTogether ==
    ASSUME ReaderInv, NEW g, NEW w, NEW base, NEW tokens,
           Mirrors(g, w, base, tokens), Writes(g, w, tokens)
    PROVE  /\ Busy /\ (Complete <=> Finished(g, w))
           /\ Len(pending) = Len(w.calls) /\ (pending = <<>> <=> w.calls = <<>>)
           /\ w.calls # <<>> =>
                 /\ Len(w.calls) \in 1..Len(w.calls)
                 /\ SameCall(g, RefsOf(g, w.made, base), Inner(w), Innermost)
<1>1. Busy
  BY DEF Mirrors, Answers, Writes, Busy
<1>2. pending \in Seq(CallOf(Given)) /\ w.calls \in Seq([node : DOMAIN g.nodes, done : Nat])
  BY WriterTypes DEF ReaderInv, ReaderOK, Mirrors, WriterOK
<1>3. Len(pending) = Len(w.calls) /\ (pending = <<>> <=> w.calls = <<>>)
  BY <1>2, EmptySeq DEF Mirrors, SameCalls
<1>4. ASSUME w.calls # <<>>
      PROVE  /\ Len(w.calls) \in 1..Len(w.calls)
             /\ SameCall(g, RefsOf(g, w.made, base), Inner(w), Innermost)
  <2>1. Len(w.calls) \in Nat \ {0}
    BY <1>2, <1>4, EmptySeq
  <2>2. Len(w.calls) \in 1..Len(w.calls)
    BY <2>1
  <2> QED BY <1>3, <2>2 DEF Mirrors, SameCalls, Inner, Innermost
<1>5. Complete <=> Finished(g, w)
  BY <1>3, <1>4 DEF Complete, Finished, SameCall
<1> QED BY <1>1, <1>3, <1>4, <1>5

LEMMA WhichRead ==
    ASSUME Read, Busy, ~Complete, input # <<>>
    PROVE  /\ Tok.op \in Singletons => ReadSingleton
           /\ Tok.op \in Leaves => ReadLeaf
           /\ Tok.op \in Containers => ReadContainer
           /\ Tok.op = "Ref" /\ ~(Tok.n >= Len(references)) => ReadRef
           /\ Tok.op = "Undecodable" => ReadError
           /\ Tok.op = "Unknown" => ReadPanic
<1>1. /\ ReadSingleton => Tok.op \in Singletons
      /\ ReadLeaf => Tok.op \in Leaves
      /\ ReadContainer => Tok.op \in Containers
      /\ ReadRef => Tok.op = "Ref"
      /\ ReadError => Tok.op \in {"Undecodable", "Null"}
      /\ ReadPanic => Tok.op = "Unknown" \/ (Tok.op = "Ref" /\ Tok.n >= Len(references))
      /\ ~Build /\ ~BuildPanic
  BY DEF ReadSingleton, ReadLeaf, ReadContainer, ReadRef, ReadError, ReadPanic, Build, BuildPanic, At
<1> QED BY <1>1 DEF Read, Singletons, Leaves, Containers

-----------------------------------------------------------------------------
\* Nothing is made: the nodes have the references that they had.
LEMMA ShortKept ==
    ASSUME ReaderInv, NEW g, NEW w, NEW base, NEW tokens,
           Mirrors(g, w, base, tokens), Writes(g, w, tokens), ~Finished(g, w),
           NEW token, Step(g, w) = WriteShort(w, token),
           Current(g, w) \in DOMAIN RefsOf(g, w.made, base),
           RefsOf(g, w.made, base)[Current(g, w)] \in Given,
           Return(pending, RefsOf(g, w.made, base)[Current(g, w)]),
           input' = Tail(input), UNCHANGED <<heap, fresh, references, status>>
    PROVE  Mirrors(g, Step(g, w), base, tokens)'
<1> DEFINE m == RefsOf(g, w.made, base)
           x == Step(g, w)
           v == Current(g, w)
<1>1. /\ x.calls = Wrote(w.calls) /\ x.over = (w.calls = <<>>) /\ x.made = w.made
      /\ x.index = w.index
  BY ShortShape DEF Mirrors, WriterOK
<1>2. WriterOK(g, x)
  BY WriterKept DEF Mirrors, Writes
<1>3. Rest(tokens, x.at, Tail(input))
  BY NextToken
<1>4. /\ w.calls \in Seq([node : DOMAIN g.nodes, done : Nat])
      /\ pending \in Seq(CallOf(Given)) /\ result = NoRef
      /\ SameCalls(g, m, w.calls, pending)
      /\ v \in DOMAIN m /\ m[v] \in Given /\ Return(pending, m[v])
  BY WriterTypes DEF ReaderInv, ReaderOK, Mirrors, WriterOK, Answers, Writes
<1>5. Waits(g, w.calls, v) /\ (w.calls = <<>> => v = g.root)
  BY CurrentNode DEF Mirrors, Writes, Inner, Waits
<1> HIDE DEF m, x, v
<1>6. /\ SameCalls(g, m, Wrote(w.calls), pending')
      /\ w.calls = <<>> => result' = m[v]
      /\ w.calls # <<>> => result' = NoRef
  BY <1>4, <1>5, ReturnsAlike
<1>7. AllStored(g, m, w) /\ SameIndex(m, w.index, references)
  BY DEF Mirrors, m
<1>8. \A u : Begun(x, u) <=> Begun(w, u)
  <2>1. /\ Len(Wrote(w.calls)) = Len(w.calls)
        /\ \A i \in 1..Len(w.calls) : Wrote(w.calls)[i].node = w.calls[i].node
    BY <1>4, WroteShape
  <2> QED BY <1>1, <2>1 DEF Begun
<1>9. AllStored(g, m, x)'
  BY <1>7, <1>8 DEF AllStored, Stored
<1>10. Answers(g, m, x)'
  BY <1>1, <1>5, <1>6 DEF Answers, m, v
<1>11. /\ base \in Nat /\ base >= 3 /\ fresh = base + (Len(w.made) + 1) /\ status = "reading"
  BY DEF Mirrors
<1>12. m = RefsOf(g, x.made, base)
  BY <1>1 DEF m
<1> QED BY <1>1, <1>2, <1>3, <1>6, <1>7, <1>9, <1>10, <1>11, <1>12 DEF Mirrors, x

LEMMA FollowsSingleton ==
    ASSUME ReaderInv, NEW g, NEW w, NEW base, NEW tokens,
           Mirrors(g, w, base, tokens), Writes(g, w, tokens), ~Finished(g, w),
           Kind(g, Current(g, w)) \in Singletons, Read
    PROVE  Mirrors(g, Step(g, w), base, tokens)'
<1> DEFINE v == Current(g, w)
           token == T(Op(Kind(g, v)), FALSE, 0, "")
<1>0. Kind(g, v) \in Unnumbered /\ Op(Kind(g, v)) = Kind(g, v)
  BY DEF Unnumbered, Op, Singletons, Unread, Texts
<1>1. Step(g, w) = WriteShort(w, token)
  BY <1>0, StepCases
<1>2. input # <<>> /\ Tok = token /\ Busy /\ ~Complete
  <2>1. WriteShort(w, token).token = token
    BY ShortShape DEF Mirrors, WriterOK
  <2> QED BY <1>1, <2>1, NextToken, EndTogether
<1>3. Tok.op = Kind(g, v)
  BY <1>0, <1>2 DEF T
<1>4. ReadSingleton
  BY <1>2, <1>3, WhichRead
<1>5. v \in DOMAIN g.nodes
  BY CurrentNode DEF Mirrors, Writes
<1>6. v \in DOMAIN RefsOf(g, w.made, base) /\ RefsOf(g, w.made, base)[v] = SingletonRef(Tok.op)
  BY <1>3, <1>5, InRefs, RefsIn
<1>7. SingletonRef(Tok.op) \in Given
  <2>1. SingletonRef(Tok.op) \in {1, 2, 3}
    BY <1>3 DEF SingletonRef, Singletons
  <2>2. {1, 2, 3} \subseteq Given
    BY GivenGrows DEF ReaderInv, HeapOK, Given
  <2> QED BY <2>1, <2>2
<1> HIDE DEF v, token
<1> QED BY <1>1, <1>4, <1>6, <1>7, ShortKept DEF ReadSingleton, store, v

LEMMA FollowsRef ==
    ASSUME ReaderInv, NEW g, NEW w, NEW base, NEW tokens,
           Mirrors(g, w, base, tokens), Writes(g, w, tokens), ~Finished(g, w),
           Kind(g, Current(g, w)) \notin Unnumbered, Among(w.index, Current(g, w)), Read
    PROVE  Mirrors(g, Step(g, w), base, tokens)'
<1> DEFINE v == Current(g, w)
           m == RefsOf(g, w.made, base)
           n == Place(w.index, v)
           token == T("Ref", FALSE, n - 1, "")
<1>1. Step(g, w) = WriteShort(w, token)
  BY StepCases
<1>2. input # <<>> /\ Tok = token /\ Busy /\ ~Complete
  <2>1. WriteShort(w, token).token = token
    BY ShortShape DEF Mirrors, WriterOK
  <2> QED BY <1>1, <2>1, NextToken, EndTogether
<1>3. Tok.op = "Ref" /\ Tok.n = n - 1
  BY <1>2 DEF T
<1>4. n \in 1..Len(w.index) /\ w.index[n] = v
  BY PlaceIn
<1>5. /\ Len(references) = Len(w.index) /\ v \in DOMAIN m /\ references[n] = m[v]
  BY <1>4 DEF Mirrors, SameIndex
<1>6. references \in Seq(Given) /\ Len(references) \in Nat
  BY DEF ReaderInv, ReaderOK
<1> HIDE DEF v, token, n, m
<1>7. ~(Tok.n >= Len(references)) /\ Tok.n + 1 = n /\ n \in 1..Len(references)
  BY <1>3, <1>4, <1>5, <1>6
<1>8. ReadRef
  BY <1>2, <1>3, <1>7, WhichRead
<1>9. m[v] \in Given
  BY <1>5, <1>6, <1>7, ElementOfSeq
<1> QED BY <1>1, <1>5, <1>7, <1>8, <1>9, ShortKept DEF ReadRef, store, v, m

-----------------------------------------------------------------------------
\* An object is added to those of the store.
LEMMA AddedToStore ==
    ASSUME NEW r, NEW c, heap' = With(r, c), r \notin DOMAIN heap
    PROVE  /\ r \in DOMAIN heap' /\ heap'[r] = c
           /\ \A q \in DOMAIN heap : q \in DOMAIN heap' /\ heap'[q] = heap[q]
BY DEF With

LEMMA IndexGrows ==
    ASSUME NEW N, NEW index \in Seq(N), NEW G, references \in Seq(G), NEW v \in N, NEW r \in G,
           NEW m, NEW n, SameIndex(m, index, references), Grows(m, n),
           NEW flag \in BOOLEAN, flag => v \in DOMAIN n /\ n[v] = r, Remember(r, flag)
    PROVE  SameIndex(n, Grown(index, v, flag), references')
<1>1. SameIndex(n, index, references)
  BY DEF SameIndex, Grows
<1>2. CASE ~flag
  BY <1>1, <1>2 DEF Grown, Remember
<1>3. CASE flag
  <2> DEFINE s == Append(index, v)
             t == Append(references, r)
  <2>1. /\ Len(s) = Len(index) + 1 /\ s[Len(index) + 1] = v /\ \A i \in 1..Len(index) : s[i] = index[i]
        /\ Len(t) = Len(references) + 1 /\ t[Len(references) + 1] = r
        /\ \A i \in 1..Len(references) : t[i] = references[i]
        /\ Len(index) \in Nat
    BY AppendProperties
  <2>2. Grown(index, v, flag) = s /\ references' = t
    BY <1>3 DEF Grown, Remember
  <2> HIDE DEF s, t
  <2>3. \A i \in 1..Len(s) : i \in 1..Len(index) \/ i = Len(index) + 1
    BY <2>1
  <2>4. SameIndex(n, s, t)
    BY <1>1, <1>3, <2>1, <2>3 DEF SameIndex
  <2> QED BY <2>2, <2>4
<1> QED BY <1>2, <1>3

\* What read_long makes of a number with a sign.
LEMMA ReadLong ==
    ASSUME NEW n \in Signed
    PROVE  read_long(n) = IF n < 0 THEN n + Longs ELSE n
<1> DEFINE L == Longs
<1>1. L \in Nat \ {0} /\ n \in Int /\ 0 - L <= n /\ n < L
  BY LongsAssumption DEF Signed
<1> HIDE DEF L
<1>2. CASE n >= 0
  <2>1. n % L = n
    BY <1>1, <1>2
  <2> QED BY <1>1, <1>2, <2>1 DEF read_long, L
<1>3. CASE n < 0
  <2>1. n % L = n + L
    BY <1>1, <1>3
  <2> QED BY <1>1, <1>3, <2>1 DEF read_long, L
<1> QED BY <1>1, <1>2, <1>3

LEMMA FollowsLeaf ==
    ASSUME ReaderInv, NEW g, NEW w, NEW base, NEW tokens,
           Mirrors(g, w, base, tokens), Writes(g, w, tokens), ~Finished(g, w),
           Kind(g, Current(g, w)) \in Leaves, ~Among(w.index, Current(g, w)), Read
    PROVE  Mirrors(g, Step(g, w), base, tokens)'
<1> SUFFICES ASSUME NEW v, v = Current(g, w), NEW x, x = Step(g, w),
                    NEW m, m = RefsOf(g, w.made, base),
                    NEW n, n = RefsOf(g, x.made, base),
                    NEW num, num = IF Num(g, v) < 0 THEN Num(g, v) + Longs ELSE Num(g, v)
             PROVE  Mirrors(g, x, base, tokens)'
  OBVIOUS
<1> DEFINE flag == v \in g.flagged
<1>1. Kind(g, v) \notin Unnumbered /\ Kind(g, v) \notin Singletons /\ Kind(g, v) \notin Containers
  BY DEF Unnumbered, Singletons, Leaves, Containers
<1>2. x = WriteLong(g, w, v)
  BY <1>1, StepCases
<1>3. /\ IsGraph(g) /\ w \in WriterState(DOMAIN g.nodes) /\ Distinct(w.made) /\ WriterOK(g, w)
      /\ v \in DOMAIN g.nodes /\ ~Among(w.made, v) /\ ~Begun(w, v)
  BY <1>1, CurrentNode DEF Mirrors, Writes, WriterOK, MadeOK, Regular
<1>4. /\ x.calls = Wrote(w.calls) /\ x.over = (w.calls = <<>>)
      /\ x.made = Append(w.made, v) /\ x.index = Grown(w.index, v, flag)
      /\ x.token.op = Kind(g, v) /\ x.token.flag = flag /\ x.token.text = Text(g, v)
      /\ Kind(g, v) = "Int" => x.token.n = Num(g, v)
  <2>1. w \in WriterState(DOMAIN g.nodes) /\ Kind(g, v) \in Leaves
    BY <1>3
  <2> QED BY <1>2, <2>1, LeafShape
<1>5. input # <<>> /\ Tok = x.token /\ Busy /\ ~Complete
  BY NextToken, EndTogether
<1>6. /\ Tok.op = Kind(g, v) /\ Tok.flag = flag /\ Tok.text = Text(g, v)
      /\ (IF Tok.op = "Int" THEN read_long(Tok.n) ELSE 0) = num
  <2>1. IF Kind(g, v) = "Int" THEN Num(g, v) \in Signed ELSE Num(g, v) = 0
    BY <1>3, GraphNode
  <2>2. Kind(g, v) = "Int" => read_long(Num(g, v)) = num
    BY <2>1, ReadLong
  <2>3. Kind(g, v) # "Int" => num = 0
    BY <2>1
  <2> QED BY <1>4, <1>5, <2>2, <2>3
<1> HIDE DEF flag
<1>7. /\ heap' = With(fresh, Object(Kind(g, v), <<>>, num, Text(g, v))) /\ fresh' = fresh + 1
      /\ Remember(fresh, flag) /\ Return(pending, fresh)
      /\ input' = Tail(input) /\ status' = status
  <2>1. ReadLeaf
    BY <1>5, <1>6, WhichRead
  <2> QED BY <1>6, <2>1 DEF ReadLeaf
<1>8. /\ w.calls \in Seq([node : DOMAIN g.nodes, done : Nat])
      /\ w.made \in Seq(DOMAIN g.nodes) /\ w.index \in Seq(DOMAIN g.nodes) /\ Len(w.made) \in Nat
  BY <1>3, WriterTypes
<1>9. /\ base \in Nat /\ base >= 3 /\ fresh = base + (Len(w.made) + 1) /\ status = "reading"
      /\ SameCalls(g, m, w.calls, pending) /\ SameIndex(m, w.index, references)
      /\ AllStored(g, m, w)
  BY DEF Mirrors
<1>10. /\ Given \subseteq Given' /\ fresh \in Given' /\ fresh \notin DOMAIN heap
       /\ result = NoRef /\ references \in Seq(Given') /\ pending \in Seq(CallOf(Given'))
  <2>1. fresh \in Nat /\ fresh > 3 /\ DOMAIN heap \subseteq Given
    BY DEF ReaderInv, HeapOK
  <2>2. Given \subseteq Given' /\ fresh \in Given' /\ fresh \notin DOMAIN heap
    BY <1>7, <2>1, GivenGrows
  <2>3. references \in Seq(Given) /\ pending \in Seq(CallOf(Given))
    BY DEF ReaderInv, ReaderOK
  <2>4. references \in Seq(Given') /\ pending \in Seq(CallOf(Given'))
    BY <2>2, <2>3, CallsGrow
  <2> QED BY <1>5, <2>2, <2>4 DEF Busy
<1>11. /\ Grows(m, n) /\ DOMAIN n = DOMAIN m \cup {v} /\ n[v] = fresh
       /\ Len(x.made) = Len(w.made) + 1
  <2>1. /\ w.made \in Seq(DOMAIN g.nodes) /\ Distinct(w.made) /\ v \in DOMAIN g.nodes
        /\ ~Among(w.made, v) /\ Kind(g, v) \notin Singletons
        /\ fresh = base + (Len(w.made) + 1) /\ Adds(x.made, w.made, v)
    BY <1>1, <1>3, <1>4, <1>8, <1>9 DEF Adds
  <2>2. Gives(m, n, v, fresh) /\ Len(x.made) = Len(w.made) + 1
    BY <2>1, RefsGrow
  <2> QED BY <2>2 DEF Gives
<1>12. /\ fresh \in DOMAIN heap' /\ heap'[fresh] = Object(Kind(g, v), <<>>, num, Text(g, v))
       /\ \A q \in DOMAIN heap : q \in DOMAIN heap' /\ heap'[q] = heap[q]
  BY <1>7, <1>10, AddedToStore
<1>13. Waits(g, w.calls, v) /\ (w.calls = <<>> => v = g.root)
  BY CurrentNode DEF Mirrors, Writes, Inner, Waits
<1>14. WriterOK(g, x)
  BY WriterKept DEF Mirrors, Writes
<1>15. Rest(tokens, x.at, Tail(input))
  BY NextToken
<1>16. Parts(g, v) = <<>>
  BY <1>1, <1>3, GraphNode
<1>17. SameCalls(g, n, Wrote(w.calls), pending') /\ (w.calls = <<>> => result' = n[v])
       /\ (w.calls # <<>> => result' = NoRef)
  <2>1. SameCalls(g, n, w.calls, pending)
    BY <1>9, <1>11, SameCallsGrow
  <2>2. v \in DOMAIN n
    BY <1>11
  <2>3. /\ w.calls \in Seq([node : DOMAIN g.nodes, done : Nat]) /\ pending \in Seq(CallOf(Given'))
        /\ fresh \in Given' /\ fresh = n[v] /\ Return(pending, fresh) /\ result = NoRef
        /\ Waits(g, w.calls, v)
    BY <1>7, <1>8, <1>10, <1>11, <1>13
  <2>4. /\ SameCalls(g, n, Wrote(w.calls), pending')
        /\ w.calls = <<>> => result' = n[v]
        /\ w.calls # <<>> => result' = NoRef
    BY <2>1, <2>2, <2>3, ReturnsAlike, ZenonT(60)
  <2> QED BY <2>4
<1>18. SameIndex(n, x.index, references')
  <2>1. /\ w.index \in Seq(DOMAIN g.nodes) /\ references \in Seq(Given') /\ v \in DOMAIN g.nodes
        /\ fresh \in Given'
    BY <1>3, <1>8, <1>10
  <2>2. SameIndex(m, w.index, references) /\ Grows(m, n) /\ Remember(fresh, flag)
    BY <1>7, <1>9, <1>11
  <2>3. flag => v \in DOMAIN n /\ n[v] = fresh
    BY <1>11
  <2>5. flag \in BOOLEAN
    BY DEF flag
  <2>4. SameIndex(n, Grown(w.index, v, flag), references')
    BY <2>1, <2>2, <2>3, <2>5, IndexGrows
  <2> QED BY <1>4, <2>4
<1>19. Stored(g, n, v)'
  <2>1. Known(g, n, v)
    BY <1>1, <1>16 DEF Known, Containers
  <2>2. Image(g, n, v) = Object(Kind(g, v), <<>>, num, Text(g, v))
    <3>1. [i \in 1..Len(Parts(g, v)) |-> n[Parts(g, v)[i]]] = <<>>
      BY <1>16
    <3>2. Kind(g, v) # "Code"
      BY <1>1 DEF Containers
    <3> QED BY <3>1, <3>2 DEF Image
  <2>3. Kind(g, v) \notin Unread
    BY DEF Leaves, Unread, Texts
  <2> QED BY <1>11, <1>12, <2>1, <2>2, <2>3 DEF Stored
<1>20. \A u : Begun(x, u) <=> Begun(w, u)
  <2>1. /\ Len(Wrote(w.calls)) = Len(w.calls)
        /\ \A i \in 1..Len(w.calls) : Wrote(w.calls)[i].node = w.calls[i].node
    BY <1>8, WroteShape
  <2> QED BY <1>4, <2>1 DEF Begun
<1>21. AllStored(g, n, x)'
  <2>1. ASSUME NEW u \in DOMAIN m, ~Begun(x, u) PROVE Stored(g, n, u)'
    <3>1. Stored(g, m, u)
      BY <1>9, <1>20, <2>1 DEF AllStored
    <3>2. u \in DOMAIN g.nodes
      BY RefsIn
    <3> QED BY <1>3, <1>11, <1>12, <3>1, <3>2, StoredGrows
  <2> QED BY <1>11, <1>19, <2>1 DEF AllStored
<1>22. Answers(g, n, x)'
  BY <1>4, <1>11, <1>13, <1>17 DEF Answers
<1>24. fresh' = base + (Len(x.made) + 1)
  BY <1>4, <1>7, <1>8, <1>9, <1>11
<1>25. input' = Tail(input) /\ status' = "reading"
  BY <1>7, <1>9
<1> QED BY <1>4, <1>9, <1>14, <1>15, <1>17, <1>18, <1>21, <1>22, <1>24, <1>25 DEF Mirrors

LEMMA CallsBegin ==
    ASSUME NEW g, NEW n, NEW N, NEW cs \in Seq(N), NEW P, NEW ps \in Seq(P), SameCalls(g, n, cs, ps),
           NEW c \in N, NEW p \in P, SameCall(g, n, c, p)
    PROVE  SameCalls(g, n, Append(cs, c), Append(ps, p))
<1> DEFINE ds == Append(cs, c)
           qs == Append(ps, p)
<1>1. /\ Len(ds) = Len(cs) + 1 /\ ds[Len(cs) + 1] = c /\ \A i \in 1..Len(cs) : ds[i] = cs[i]
      /\ Len(qs) = Len(ps) + 1 /\ qs[Len(ps) + 1] = p /\ \A i \in 1..Len(ps) : qs[i] = ps[i]
      /\ Len(cs) \in Nat /\ Len(ps) = Len(cs)
  BY AppendProperties DEF SameCalls
<1> HIDE DEF ds, qs
<1>2. \A i \in 1..Len(ds) : i \in 1..Len(cs) \/ i = Len(cs) + 1
  BY <1>1
<1>3. SameCalls(g, n, ds, qs)
  BY <1>1, <1>2 DEF SameCalls
<1> QED BY <1>3 DEF ds, qs

\* Of what is begun the place is reserved, with a flag.
LEMMA BegunAlike ==
    ASSUME NEW g, IsGraph(g), NEW v \in DOMAIN g.nodes, Kind(g, v) \in Containers, NEW n, NEW r,
           v \in g.flagged => v \in DOMAIN n /\ n[v] = r, NEW p,
           p = [op |-> Kind(g, v), at |-> IF v \in g.flagged THEN r ELSE NoRef,
                want |-> Len(Parts(g, v)), got |-> <<>>],
           NEW c, c = [node |-> v, done |-> 0]
    PROVE  SameCall(g, n, c, p)
<1>1. /\ p.op = Kind(g, v) /\ p.want = Len(Parts(g, v)) /\ p.got = <<>>
      /\ p.at = IF v \in g.flagged THEN r ELSE NoRef
      /\ c.node = v /\ c.done = 0
  OBVIOUS
<1>2. Len(p.got) = 0 /\ \A j \in 1..c.done : FALSE
  BY <1>1, EmptySeq
<1> QED BY <1>1, <1>2 DEF SameCall

LEMMA BeginsAlike ==
    ASSUME ReaderInv, NEW g, NEW w, NEW base, NEW tokens,
           Mirrors(g, w, base, tokens), Writes(g, w, tokens), ~Finished(g, w),
           Kind(g, Current(g, w)) \in Containers, ~Among(w.index, Current(g, w)), Read
    PROVE  /\ heap' = heap /\ input' = Tail(input) /\ result' = NoRef /\ status' = "reading"
           /\ fresh' = IF Current(g, w) \in g.flagged THEN fresh + 1 ELSE fresh
           /\ Remember(fresh, Current(g, w) \in g.flagged)
           /\ pending' = Append(pending,
                [op |-> Kind(g, Current(g, w)),
                 at |-> IF Current(g, w) \in g.flagged THEN fresh ELSE NoRef,
                 want |-> Len(Parts(g, Current(g, w))), got |-> <<>>])
<1> SUFFICES ASSUME NEW v, v = Current(g, w)
             PROVE  /\ heap' = heap /\ input' = Tail(input) /\ result' = NoRef /\ status' = "reading"
                    /\ fresh' = IF v \in g.flagged THEN fresh + 1 ELSE fresh
                    /\ Remember(fresh, v \in g.flagged)
                    /\ pending' = Append(pending,
                         [op |-> Kind(g, v), at |-> IF v \in g.flagged THEN fresh ELSE NoRef,
                          want |-> Len(Parts(g, v)), got |-> <<>>])
  OBVIOUS
<1>1. Kind(g, v) \notin Unnumbered
  BY DEF Unnumbered, Singletons, Containers
<1>2. Step(g, w) = WriteLong(g, w, v)
  BY <1>1, StepCases
<1>3. /\ IsGraph(g) /\ w \in WriterState(DOMAIN g.nodes) /\ v \in DOMAIN g.nodes
      /\ ~FrozenSetFlagged(g)
  BY CurrentNode DEF Mirrors, Writes, WriterOK
<1>4. /\ Step(g, w).token.op = Kind(g, v) /\ Step(g, w).token.flag = (v \in g.flagged)
      /\ Kind(g, v) # "Code" => Step(g, w).token.n = Len(Parts(g, v))
  <2>1. w \in WriterState(DOMAIN g.nodes) /\ Kind(g, v) \in Containers
    BY <1>3
  <2>2. WroteBranch(g, w, v, WriteLong(g, w, v))
    BY <2>1, BranchShape
  <2> QED BY <1>2, <2>2 DEF WroteBranch
<1>5. input # <<>> /\ Tok = Step(g, w).token /\ Busy /\ ~Complete
  BY NextToken, EndTogether
<1>6. /\ Tok.op = Kind(g, v) /\ Tok.flag = (v \in g.flagged)
      /\ Kind(g, v) # "Code" => Tok.n = Len(Parts(g, v))
  BY <1>4, <1>5
<1>7. ReadContainer
  BY <1>5, <1>6, WhichRead
<1>8. Counted <=> v \in g.flagged
  BY <1>6, <1>3 DEF Counted, FrozenSetFlagged
<1>9. (IF Tok.op = "Code" THEN CodeParts ELSE Tok.n) = Len(Parts(g, v))
  <2>1. Kind(g, v) = "Code" => IsCodeNode(g, Parts(g, v))
    BY <1>3, GraphNode
  <2>2. Kind(g, v) = "Code" => Len(Parts(g, v)) = CodeParts
    BY <2>1 DEF IsCodeNode
  <2> QED BY <1>6, <2>2
<1>10. result = NoRef /\ status = "reading"
  BY <1>5 DEF Busy
<1>11. /\ heap' = heap /\ input' = Tail(input) /\ result' = NoRef /\ status' = "reading"
       /\ fresh' = IF Counted THEN fresh + 1 ELSE fresh
       /\ Remember(fresh, Counted)
       /\ pending' = Append(pending,
            [op |-> Tok.op, at |-> IF Counted THEN fresh ELSE NoRef,
             want |-> IF Tok.op = "Code" THEN CodeParts ELSE Tok.n, got |-> <<>>])
  BY <1>7, <1>10 DEF ReadContainer
<1>12. Remember(fresh, v \in g.flagged)
  BY <1>8, <1>11 DEF Remember
<1>13. pending' = Append(pending,
         [op |-> Kind(g, v), at |-> IF v \in g.flagged THEN fresh ELSE NoRef,
          want |-> Len(Parts(g, v)), got |-> <<>>])
  BY <1>6, <1>8, <1>9, <1>11
<1> QED BY <1>8, <1>11, <1>12, <1>13

LEMMA FollowsBegin ==
    ASSUME ReaderInv, NEW g, NEW w, NEW base, NEW tokens,
           Mirrors(g, w, base, tokens), Writes(g, w, tokens), ~Finished(g, w),
           Kind(g, Current(g, w)) \in Containers, ~Among(w.index, Current(g, w)), Read
    PROVE  Mirrors(g, Step(g, w), base, tokens)'
<1> SUFFICES ASSUME NEW v, v = Current(g, w), NEW x, x = Step(g, w),
                    NEW m, m = RefsOf(g, w.made, base),
                    NEW n, n = RefsOf(g, x.made, base)
             PROVE  Mirrors(g, x, base, tokens)'
  OBVIOUS
<1> DEFINE flag == v \in g.flagged
           c == [node |-> v, done |-> 0]
           p == [op |-> Kind(g, v), at |-> IF v \in g.flagged THEN fresh ELSE NoRef,
                 want |-> Len(Parts(g, v)), got |-> <<>>]
<1>1. Kind(g, v) \notin Unnumbered /\ Kind(g, v) \notin Singletons /\ Kind(g, v) \in Containers
  BY DEF Unnumbered, Singletons, Containers
<1>2. x = WriteLong(g, w, v)
  BY <1>1, StepCases
<1>3. /\ IsGraph(g) /\ w \in WriterState(DOMAIN g.nodes) /\ Distinct(w.made) /\ WriterOK(g, w)
      /\ v \in DOMAIN g.nodes /\ ~Among(w.made, v) /\ ~Begun(w, v)
  BY <1>1, CurrentNode DEF Mirrors, Writes, WriterOK, MadeOK, Regular
<1>4. /\ x.calls = Append(w.calls, c) /\ x.over = FALSE
      /\ x.made = Grown(w.made, v, flag) /\ x.index = Grown(w.index, v, flag)
  <2>1. w \in WriterState(DOMAIN g.nodes) /\ Kind(g, v) \in Containers
    BY <1>1, <1>3
  <2>2. WroteBranch(g, w, v, x)
    BY <1>2, <2>1, BranchShape
  <2> QED BY <2>2 DEF WroteBranch
<1>5. /\ heap' = heap /\ input' = Tail(input) /\ result' = NoRef /\ status' = "reading"
      /\ fresh' = (IF flag THEN fresh + 1 ELSE fresh)
      /\ Remember(fresh, flag)
      /\ pending' = Append(pending, p)
  BY BeginsAlike
<1>6. /\ flag \in BOOLEAN /\ c.node = v /\ c.done = 0 /\ c \in [node : DOMAIN g.nodes, done : Nat]
  BY <1>3
<1>7. /\ w.calls \in Seq([node : DOMAIN g.nodes, done : Nat]) /\ Len(w.calls) \in Nat
      /\ w.made \in Seq(DOMAIN g.nodes) /\ w.index \in Seq(DOMAIN g.nodes) /\ Len(w.made) \in Nat
  BY <1>3, WriterTypes
<1>8. /\ base \in Nat /\ base >= 3 /\ fresh = base + (Len(w.made) + 1)
      /\ SameCalls(g, m, w.calls, pending) /\ SameIndex(m, w.index, references)
      /\ AllStored(g, m, w)
  BY DEF Mirrors
<1>9. references \in Seq(Given \cup {fresh}) /\ pending \in Seq(CallOf(Given)) /\ fresh \in Given \cup {fresh}
  <2>1. references \in Seq(Given) /\ pending \in Seq(CallOf(Given))
    BY DEF ReaderInv, ReaderOK
  <2> DEFINE H == Given \cup {fresh}
  <2>2. Given \subseteq H /\ fresh \in H
    OBVIOUS
  <2> HIDE DEF H
  <2>3. references \in Seq(H)
    BY <2>1, <2>2, CallsGrow
  <2> QED BY <2>1, <2>2, <2>3 DEF H
<1> HIDE DEF flag, c, p
<1>10. /\ Grows(m, n) /\ DOMAIN n \subseteq DOMAIN m \cup {v}
       /\ flag => v \in DOMAIN n /\ n[v] = fresh /\ Len(x.made) = Len(w.made) + 1
       /\ ~flag => x.made = w.made
  <2>1. CASE flag
    <3>1. /\ w.made \in Seq(DOMAIN g.nodes) /\ Distinct(w.made) /\ v \in DOMAIN g.nodes
          /\ ~Among(w.made, v) /\ Kind(g, v) \notin Singletons
          /\ fresh = base + (Len(w.made) + 1) /\ Adds(x.made, w.made, v)
      BY <1>1, <1>3, <1>4, <1>7, <1>8, <2>1 DEF Adds, Grown
    <3>2. Gives(m, n, v, fresh) /\ Len(x.made) = Len(w.made) + 1
      BY <3>1, RefsGrow
    <3> QED BY <2>1, <3>2 DEF Gives
  <2>2. CASE ~flag
    <3>1. x.made = w.made
      BY <1>4, <2>2 DEF Grown
    <3>2. n = m
      BY <3>1
    <3> QED BY <2>2, <3>1, <3>2 DEF Grows
  <2> QED BY <2>1, <2>2
<1>11. SameCalls(g, n, x.calls, pending')
  <2>1. SameCalls(g, n, w.calls, pending)
    BY <1>8, <1>10, SameCallsGrow
  <2>2. SameCall(g, n, c, p)
    BY <1>1, <1>3, <1>10, BegunAlike DEF flag, c, p
  <2>3. SameCalls(g, n, Append(w.calls, c), Append(pending, p))
    <3> DEFINE P == CallOf(Given) \cup {p}
               N == [node : DOMAIN g.nodes, done : Nat]
    <3>1. CallOf(Given) \subseteq P /\ p \in P /\ w.calls \in Seq(N) /\ c \in N
      BY <1>6, <1>7
    <3> HIDE DEF P, N
    <3>2. pending \in Seq(P)
      BY <1>9, <3>1, SeqMonotonic
    <3> QED BY <2>1, <2>2, <3>1, <3>2, CallsBegin
  <2> QED BY <1>4, <1>5, <2>3
<1>12. SameIndex(n, x.index, references')
  <2>1. w.index \in Seq(DOMAIN g.nodes) /\ v \in DOMAIN g.nodes /\ flag \in BOOLEAN
    BY <1>3, <1>6, <1>7
  <2>2. SameIndex(m, w.index, references) /\ Grows(m, n) /\ Remember(fresh, flag)
    BY <1>5, <1>8, <1>10
  <2>3. flag => v \in DOMAIN n /\ n[v] = fresh
    BY <1>10
  <2>4. SameIndex(n, Grown(w.index, v, flag), references')
    BY <1>9, <2>1, <2>2, <2>3, IndexGrows
  <2> QED BY <1>4, <2>4
<1>13. Begun(x, v) /\ \A u : Begun(w, u) => Begun(x, u)
  <2>1. /\ Len(x.calls) = Len(w.calls) + 1 /\ x.calls[Len(w.calls) + 1] = c
        /\ \A i \in 1..Len(w.calls) : x.calls[i] = w.calls[i]
    BY <1>4, <1>6, <1>7, AppendProperties
  <2>2. Len(w.calls) + 1 \in 1..Len(x.calls) /\ \A i \in 1..Len(w.calls) : i \in 1..Len(x.calls)
    BY <1>7, <2>1
  <2> QED BY <1>6, <2>1, <2>2 DEF Begun
<1>14. AllStored(g, n, x)'
  <2>1. ASSUME NEW u \in DOMAIN m, ~Begun(x, u) PROVE Stored(g, n, u)'
    <3>1. Stored(g, m, u)
      BY <1>8, <1>13, <2>1 DEF AllStored
    <3>2. u \in DOMAIN g.nodes
      BY RefsIn
    <3>3. \A r \in DOMAIN heap : r \in DOMAIN heap' /\ heap'[r] = heap[r]
      BY <1>5
    <3> QED BY <1>3, <1>10, <3>1, <3>2, <3>3, StoredGrows
  <2> QED BY <1>10, <1>13, <2>1 DEF AllStored
<1>15. Answers(g, n, x)'
  BY <1>4, <1>5 DEF Answers
<1>16. fresh' = base + (Len(x.made) + 1)
  <2>0. Len(w.made) \in Nat /\ base \in Nat /\ fresh = base + (Len(w.made) + 1)
    BY <1>7, <1>8
  <2>1. CASE flag
    <3>1. fresh' = fresh + 1 /\ Len(x.made) = Len(w.made) + 1
      BY <1>5, <1>10, <2>1
    <3> QED BY <2>0, <3>1
  <2>2. CASE ~flag
    <3>1. fresh' = fresh /\ x.made = w.made
      BY <1>5, <1>10, <2>2
    <3> QED BY <2>0, <3>1
  <2> QED BY <2>1, <2>2
<1>17. WriterOK(g, x)
  BY WriterKept DEF Mirrors, Writes
<1>18. Rest(tokens, x.at, Tail(input))
  BY NextToken
<1> QED BY <1>5, <1>8, <1>11, <1>12, <1>14, <1>15, <1>16, <1>17, <1>18 DEF Mirrors

-----------------------------------------------------------------------------
(***************************************************************************)
(* The end of a container.                                                 *)
(***************************************************************************)
RefsTo(g, m, u) == [i \in 1..Len(Parts(g, u)) |-> m[Parts(g, u)[i]]]
TextsIn(g, u)   == [i \in 1..Len(Parts(g, u)) |-> Text(g, Parts(g, u)[i])]
TextsStored(g, m) == \A u \in DOMAIN m : Kind(g, u) \in Texts => Stored(g, m, u) /\ Kind(g, u) = "String"

LEMMA StoredObject ==
    ASSUME NEW g, NEW m, NEW u, Stored(g, m, u), Kind(g, u) # "Code"
    PROVE  /\ m[u] \in DOMAIN heap /\ heap[m[u]].kind = Kind(g, u)
           /\ heap[m[u]].items = RefsTo(g, m, u) /\ heap[m[u]].text = Text(g, u)
<1> DEFINE num == IF Num(g, u) < 0 THEN Num(g, u) + Longs ELSE Num(g, u)
<1>1. heap[m[u]] = Object(Kind(g, u), RefsTo(g, m, u), num, Text(g, u)) /\ m[u] \in DOMAIN heap
  BY DEF Stored, Image, RefsTo
<1> HIDE DEF num
<1> QED BY <1>1 DEF Object

LEMMA StoredTexts ==
    ASSUME NEW g, IsGraph(g), NEW m, NEW u \in DOMAIN g.nodes, Stored(g, m, u), Kind(g, u) = "Tuple",
           AreTexts(g, u), TextsStored(g, m)
    PROVE  IsTexts(m[u]) /\ TextsOf(m[u]) = TextsIn(g, u)
<1>1. /\ m[u] \in DOMAIN heap /\ heap[m[u]].kind = "Tuple"
      /\ heap[m[u]].items = RefsTo(g, m, u)
  BY StoredObject
<1>2. Len(Parts(g, u)) \in Nat
  BY GraphLengths
<1>3. Len(RefsTo(g, m, u)) = Len(Parts(g, u))
  BY <1>2 DEF RefsTo
<1>4. \A i \in 1..Len(Parts(g, u)) :
         RefsTo(g, m, u)[i] = m[Parts(g, u)[i]] /\ Parts(g, u)[i] \in DOMAIN m
            /\ Kind(g, Parts(g, u)[i]) \in Texts
  BY DEF RefsTo, Stored, Known, AreTexts
<1>5. \A i \in 1..Len(Parts(g, u)) :
         /\ m[Parts(g, u)[i]] \in DOMAIN heap
         /\ heap[m[Parts(g, u)[i]]].kind = "String"
         /\ heap[m[Parts(g, u)[i]]].text = Text(g, Parts(g, u)[i])
  <2> TAKE i \in 1..Len(Parts(g, u))
  <2>1. Stored(g, m, Parts(g, u)[i]) /\ Kind(g, Parts(g, u)[i]) = "String"
    BY <1>4 DEF TextsStored
  <2> QED BY <2>1, StoredObject
<1>6. IsTexts(m[u])
  BY <1>1, <1>3, <1>4, <1>5 DEF IsTexts, Is
<1>7. TextsOf(m[u]) = TextsIn(g, u)
  BY <1>1, <1>3, <1>4, <1>5 DEF TextsOf, TextsIn
<1> QED BY <1>6, <1>7

\* The parts of the code object v are stored under the references of parts.
Gathered(g, m, v, parts) ==
    \A j \in 1..CodeParts : /\ Parts(g, v)[j] \in DOMAIN m /\ parts[j] = m[Parts(g, v)[j]]
                            /\ Stored(g, m, Parts(g, v)[j])

LEMMA CodeBuilt ==
    ASSUME NEW g, IsGraph(g), NEW v \in DOMAIN g.nodes, Kind(g, v) = "Code", NEW m,
           DOMAIN m \subseteq DOMAIN g.nodes, TextsStored(g, m),
           NEW parts, Gathered(g, m, v, parts)
    PROVE  IsCodeOf(parts) /\ CodeOf(parts) = Image(g, m, v) /\ Known(g, m, v)
<1> DEFINE p == Parts(g, v)
<1>1. IsCodeNode(g, p) /\ Len(p) = CodeParts
  BY GraphNode DEF IsCodeNode
<1>2. /\ Kind(g, p[1]) = "Bytes"
      /\ Kind(g, p[2]) = "Tuple" /\ Kind(g, p[3]) = "Tuple" /\ Kind(g, p[4]) = "Tuple"
      /\ Kind(g, p[5]) = "Tuple" /\ Kind(g, p[6]) = "Tuple"
      /\ AreTexts(g, p[3]) /\ AreTexts(g, p[4])
      /\ Kind(g, p[7]) = "String" /\ Kind(g, p[8]) = "String"
  <2>1. \A i \in {7, 8} : Kind(g, p[i]) \in Texts /\ p[i] \in DOMAIN m
    BY <1>1 DEF IsCodeNode, Gathered, CodeParts
  <2>2. \A i \in {7, 8} : Kind(g, p[i]) = "String"
    BY <2>1 DEF TextsStored
  <2> QED BY <1>1, <2>2 DEF IsCodeNode
<1>3. \A j \in 1..9 : p[j] \in DOMAIN g.nodes /\ parts[j] = m[p[j]] /\ Stored(g, m, p[j])
  BY DEF Gathered, CodeParts
<1> HIDE DEF p
<1>4. \A j \in {1, 2, 5, 6, 7, 8} :
         /\ parts[j] \in DOMAIN heap /\ heap[parts[j]].kind = Kind(g, p[j])
         /\ heap[parts[j]].items = RefsTo(g, m, p[j]) /\ heap[parts[j]].text = Text(g, p[j])
  <2> TAKE j \in {1, 2, 5, 6, 7, 8}
  <2>1. Stored(g, m, p[j]) /\ Kind(g, p[j]) # "Code" /\ parts[j] = m[p[j]]
    BY <1>2, <1>3
  <2> QED BY <2>1, StoredObject
<1>5. \A j \in {3, 4} : IsTexts(parts[j]) /\ TextsOf(parts[j]) = TextsIn(g, p[j])
  <2> TAKE j \in {3, 4}
  <2>1. /\ Stored(g, m, p[j]) /\ Kind(g, p[j]) = "Tuple" /\ parts[j] = m[p[j]] /\ AreTexts(g, p[j])
        /\ p[j] \in DOMAIN g.nodes
    BY <1>2, <1>3
  <2> QED BY <2>1, StoredTexts
<1>6. IsCodeOf(parts)
  BY <1>2, <1>4, <1>5 DEF IsCodeOf, Is
<1>7. CodeOf(parts) = Image(g, m, v)
  <2>1. CodeOf(parts) = [kind     |-> "Code",
                         code     |-> Text(g, p[1]),
                         consts   |-> RefsTo(g, m, p[2]),
                         names    |-> TextsIn(g, p[3]),
                         varnames |-> TextsIn(g, p[4]),
                         freevars |-> RefsTo(g, m, p[5]),
                         cellvars |-> RefsTo(g, m, p[6]),
                         filename |-> Text(g, p[7]),
                         name     |-> Text(g, p[8]),
                         lnotab   |-> m[p[9]]]
    BY <1>3, <1>4, <1>5 DEF CodeOf
  <2> QED BY <2>1 DEF Image, RefsTo, TextsIn, p
<1>8. Known(g, m, v)
  <2>1. \A i \in 1..Len(p) : p[i] \in DOMAIN m
    BY <1>1 DEF Gathered, p
  <2>2. \A j \in 1..CodeParts : \A i \in 1..Len(Parts(g, p[j])) : Parts(g, p[j])[i] \in DOMAIN m
    BY <1>3 DEF Stored, Known, CodeParts
  <2> QED BY <2>1, <2>2 DEF Known, p
<1> QED BY <1>6, <1>7, <1>8

LEMMA WhichBuild ==
    ASSUME Read, Complete
    PROVE  Build \/ BuildPanic
BY DEF Read, At, ReadSingleton, ReadLeaf, ReadContainer, ReadRef, ReadError, ReadPanic

\* What is begun has parts, so what has none and is there is stored.
LEMMA TextsOfWriter ==
    ASSUME NEW g, NEW w, Chain(g, w.calls), NEW m, AllStored(g, m, w)
    PROVE  TextsStored(g, m)
<1> SUFFICES ASSUME NEW u \in DOMAIN m, Kind(g, u) \in Texts
             PROVE  Stored(g, m, u) /\ Kind(g, u) = "String"
  BY DEF TextsStored
<1>1. ~Begun(w, u)
  BY DEF Chain, Begun, Containers, Texts
<1>2. Stored(g, m, u)
  BY <1>1 DEF AllStored
<1> QED BY <1>2 DEF Stored, Unread

\* The container is stored, under the reference that was reserved if there is one.
Builds(g, m, v, r) ==
    /\ heap' = With(r, Image(g, m, v)) /\ r \notin DOMAIN heap /\ Known(g, m, v)
    /\ Return(Outer, r)
    /\ fresh' = IF v \in g.flagged THEN fresh ELSE fresh + 1
    /\ UNCHANGED <<input, references, status>>

LEMMA EndsAlike ==
    ASSUME ReaderInv, NEW g, NEW w, NEW base, NEW tokens,
           Mirrors(g, w, base, tokens), Writes(g, w, tokens), Finished(g, w), Read,
           NEW v, v = Inner(w).node, NEW m, m = RefsOf(g, w.made, base),
           NEW r, r = IF v \in g.flagged THEN m[v] ELSE fresh
    PROVE  Builds(g, m, v, r) /\ v \in DOMAIN g.nodes /\ Kind(g, v) \in Containers /\ r \in Given'
<1> DEFINE p == Innermost
<1>1. /\ Complete /\ w.calls # <<>> /\ Len(w.calls) \in 1..Len(w.calls)
      /\ Len(pending) = Len(w.calls) /\ SameCall(g, m, Inner(w), p)
  BY EndTogether DEF Finished
<1>2. /\ IsGraph(g) /\ w \in WriterState(DOMAIN g.nodes) /\ Chain(g, w.calls) /\ AllStored(g, m, w)
      /\ Regular(g, w)
  BY DEF Mirrors, Writes, WriterOK
<1>3. v \in DOMAIN g.nodes /\ Kind(g, v) \in Containers
  BY <1>1, <1>2, WriterTypes DEF Inner, Chain
<1>4. Inner(w).done = Len(Parts(g, v))
  BY DEF Finished
<1>5. /\ p.op = Kind(g, v) /\ Len(p.got) = Len(Parts(g, v))
      /\ \A j \in 1..Len(Parts(g, v)) : Parts(g, v)[j] \in DOMAIN m /\ p.got[j] = m[Parts(g, v)[j]]
      /\ v \in g.flagged => v \in DOMAIN m
      /\ p.at = IF v \in g.flagged THEN m[v] ELSE NoRef
  BY <1>1, <1>4 DEF SameCall
<1>6. p \in CallOf(Given) /\ p.got \in Seq(Given)
  <2>1. pending \in Seq(CallOf(Given)) /\ Len(pending) \in 1..Len(pending)
    BY <1>1 DEF ReaderInv, ReaderOK
  <2>2. p \in CallOf(Given)
    BY <2>1, ElementOfSeq DEF Innermost
  <2> QED BY <2>2 DEF CallOf
<1>7. v \in g.flagged => p.at # NoRef
  <2> SUFFICES ASSUME v \in g.flagged PROVE p.at # NoRef
    OBVIOUS
  <2>1. v \in DOMAIN RefsOf(g, w.made, base) /\ Kind(g, v) \notin Singletons
    BY <1>3, <1>5 DEF Singletons, Containers
  <2>2. Among(w.made, v) /\ m[v] = base + Place(w.made, v)
    BY <2>1, RefsIn
  <2>3. Place(w.made, v) \in 1..Len(w.made) /\ base \in Nat
    BY <2>2, PlaceIn DEF Mirrors
  <2>4. base + Place(w.made, v) # 0
    BY <2>3
  <2> QED BY <1>5, <2>2, <2>4 DEF NoRef
<1>8. p.at \notin DOMAIN heap
  <2>1. DOMAIN heap \subseteq Given /\ DOMAIN heap \cap Reserved = {} /\ NoRef \notin Given
    BY DEF ReaderInv, HeapOK, ReservedOrStored, Given, NoRef
  <2>2. p.at # NoRef => p.at \in Reserved
    BY <1>1 DEF Reserved, Innermost
  <2> QED BY <2>1, <2>2
<1>9. Kind(g, v) = "Code" => IsCodeOf(p.got) /\ CodeOf(p.got) = Image(g, m, v) /\ Known(g, m, v)
  <2> SUFFICES ASSUME Kind(g, v) = "Code"
               PROVE  IsCodeOf(p.got) /\ CodeOf(p.got) = Image(g, m, v) /\ Known(g, m, v)
    OBVIOUS
  <2>1. Len(Parts(g, v)) = CodeParts
    BY <1>2, <1>3, GraphNode DEF IsCodeNode
  <2>2. \A j \in 1..CodeParts : ~Begun(w, Parts(g, v)[j])
    BY <1>2 DEF Regular
  <2>3. Gathered(g, m, v, p.got)
    BY <1>2, <1>5, <2>1, <2>2 DEF Gathered, AllStored
  <2>4. TextsStored(g, m)
    BY <1>2, TextsOfWriter
  <2>5. DOMAIN m \subseteq DOMAIN g.nodes
    BY RefsIn
  <2> QED BY <1>2, <1>3, <2>3, <2>4, <2>5, CodeBuilt
<1>10. Kind(g, v) # "Code" => Object(Kind(g, v), p.got, 0, "") = Image(g, m, v) /\ Known(g, m, v)
  <2> SUFFICES ASSUME Kind(g, v) # "Code"
               PROVE  Object(Kind(g, v), p.got, 0, "") = Image(g, m, v) /\ Known(g, m, v)
    OBVIOUS
  <2>1. Text(g, v) = "" /\ Num(g, v) = 0
    BY <1>2, <1>3, GraphNode DEF Leaves, Containers
  <2>2. p.got = [j \in 1..Len(p.got) |-> p.got[j]]
    BY <1>6
  <2>3. p.got = RefsTo(g, m, v)
    BY <1>5, <2>2 DEF RefsTo
  <2>4. Known(g, m, v)
    BY <1>5 DEF Known
  <2> DEFINE num == IF Num(g, v) < 0 THEN Num(g, v) + Longs ELSE Num(g, v)
  <2>5. Image(g, m, v) = Object(Kind(g, v), RefsTo(g, m, v), num, Text(g, v))
    BY DEF Image, RefsTo
  <2>6. \A n : n = 0 => (IF n < 0 THEN n + Longs ELSE n) = 0
    OBVIOUS
  <2>7. num = 0
    BY <2>1, <2>6
  <2> HIDE DEF num
  <2> QED BY <2>1, <2>3, <2>4, <2>5, <2>7
<1> HIDE DEF p
<1>11. Build
  <2>1. ~BuildPanic
    BY <1>5, <1>8, <1>9 DEF BuildPanic, p
  <2> QED BY <1>1, <2>1, WhichBuild
<1>12. (p.at = NoRef <=> v \notin g.flagged) /\ r = IF p.at = NoRef THEN fresh ELSE p.at
  BY <1>5, <1>7
<1>13. /\ heap' = With(r, IF p.op = "Code" THEN CodeOf(p.got) ELSE Object(p.op, p.got, 0, ""))
       /\ Return(Outer, r)
       /\ fresh' = IF p.at = NoRef THEN fresh + 1 ELSE fresh
       /\ UNCHANGED <<input, references, status>>
  BY <1>11, <1>12 DEF Build, p
<1>14. (IF p.op = "Code" THEN CodeOf(p.got) ELSE Object(p.op, p.got, 0, "")) = Image(g, m, v) /\ Known(g, m, v)
  BY <1>5, <1>9, <1>10
<1>15. r \notin DOMAIN heap /\ r \in Given'
  <2>1. fresh \in Nat /\ fresh > 3 /\ DOMAIN heap \subseteq Given /\ (fresh' = fresh \/ fresh' = fresh + 1)
    BY <1>13 DEF ReaderInv, HeapOK
  <2>2. Given \subseteq Given' /\ fresh \notin Given /\ (fresh' = fresh + 1 => fresh \in Given')
    BY <2>1, GivenGrows
  <2>3. p.at \in Given \cup {NoRef}
    BY <1>6 DEF CallOf
  <2>4. CASE p.at = NoRef
    BY <1>12, <1>13, <2>1, <2>2, <2>4
  <2>5. CASE p.at # NoRef
    BY <1>8, <1>12, <2>2, <2>3, <2>5
  <2> QED BY <2>4, <2>5
<1>16. fresh' = IF v \in g.flagged THEN fresh ELSE fresh + 1
  BY <1>12, <1>13
<1> QED BY <1>3, <1>13, <1>14, <1>15, <1>16 DEF Builds

LEMMA OuterOK ==
    ASSUME NEW G, pending \in Seq(CallOf(G)), pending # <<>>
    PROVE  /\ Outer \in Seq(CallOf(G)) /\ Len(Outer) = Len(pending) - 1
           /\ \A i \in 1..Len(Outer) : Outer[i] = pending[i]
<1> DEFINE n == Len(pending)
           C == CallOf(G)
           s == pending
<1>1. n \in Nat \ {0} /\ s \in Seq(C)
  BY EmptySeq
<1>2. \A i \in 1..n : s[i] \in C
  BY <1>1, ElementOfSeq
<1>3. Outer = SubSeq(s, 1, n - 1)
  BY DEF Outer
<1> HIDE DEF n, C, s
<1>4. \A i \in 1..(n - 1) : s[i] \in C
  <2>1. \A i \in 1..(n - 1) : i \in 1..n
    BY <1>1
  <2> QED BY <1>2, <2>1
<1>5. /\ SubSeq(s, 1, n - 1) \in Seq(C)
      /\ Len(SubSeq(s, 1, n - 1)) = IF 1 <= n - 1 THEN n - 1 - 1 + 1 ELSE 0
      /\ \A i \in 1..(n - 1 - 1 + 1) : SubSeq(s, 1, n - 1)[i] = s[1 + i - 1]
  <2>1. 1 \in Int /\ n - 1 \in Int
    BY <1>1
  <2> QED BY <1>4, <2>1, SubSeqProperties
<1>6. /\ (IF 1 <= n - 1 THEN n - 1 - 1 + 1 ELSE 0) = n - 1
      /\ \A i \in 1..(n - 1) : i \in 1..(n - 1 - 1 + 1) /\ 1 + i - 1 = i
  BY <1>1
<1>7. Outer \in Seq(C) /\ Len(Outer) = n - 1 /\ \A i \in 1..(n - 1) : Outer[i] = s[i]
  BY <1>3, <1>5, <1>6
<1> QED BY <1>7 DEF n, C, s

LEMMA FollowsEnd ==
    ASSUME ReaderInv, NEW g, NEW w, NEW base, NEW tokens,
           Mirrors(g, w, base, tokens), Writes(g, w, tokens), Finished(g, w), Read
    PROVE  Mirrors(g, Step(g, w), base, tokens)'
<1> SUFFICES ASSUME NEW v, v = Inner(w).node, NEW x, x = Step(g, w),
                    NEW m, m = RefsOf(g, w.made, base),
                    NEW n, n = RefsOf(g, x.made, base),
                    NEW fs, fs = Fore(w.calls)
             PROVE  Mirrors(g, x, base, tokens)'
  OBVIOUS
<1> DEFINE r == IF v \in g.flagged THEN m[v] ELSE fresh
<1>1. /\ IsGraph(g) /\ w \in WriterState(DOMAIN g.nodes) /\ Distinct(w.made) /\ WriterOK(g, w)
      /\ Chain(g, w.calls) /\ MadeOK(g, w) /\ w.calls # <<>>
  BY DEF Mirrors, Writes, WriterOK, MadeOK, Finished
<1>2. Builds(g, m, v, r) /\ v \in DOMAIN g.nodes /\ Kind(g, v) \in Containers /\ r \in Given'
  BY EndsAlike
<1> HIDE DEF r
<1>3. /\ heap' = With(r, Image(g, m, v)) /\ r \notin DOMAIN heap /\ Known(g, m, v)
      /\ Return(Outer, r) /\ input' = input /\ references' = references /\ status' = status
  BY <1>2 DEF Builds
<1>4. /\ x.calls = Wrote(fs) /\ x.over = (fs = <<>>)
      /\ x.made = Grown(w.made, v, v \notin g.flagged) /\ x.index = w.index /\ x.at = w.at
  BY <1>1, EndShape
<1>5. /\ w.calls \in Seq([node : DOMAIN g.nodes, done : Nat]) /\ Len(w.calls) \in Nat
      /\ w.made \in Seq(DOMAIN g.nodes) /\ Len(w.made) \in Nat
  BY <1>1, WriterTypes
<1>6. /\ base \in Nat /\ base >= 3 /\ fresh = base + (Len(w.made) + 1) /\ status = "reading"
      /\ SameCalls(g, m, w.calls, pending) /\ SameIndex(m, w.index, references)
      /\ AllStored(g, m, w) /\ Rest(tokens, w.at, input)
  BY DEF Mirrors
<1>7. /\ Len(w.calls) \in 1..Len(w.calls) /\ Busy /\ Complete
      /\ Len(pending) = Len(w.calls) /\ SameCall(g, m, Inner(w), Innermost)
  BY <1>1, EndTogether
<1>8. Kind(g, v) \notin Singletons
  BY <1>2 DEF Singletons, Containers
<1>9. /\ Grows(m, n) /\ DOMAIN n = DOMAIN m \cup {v} /\ n[v] = r
      /\ fresh' = base + (Len(x.made) + 1)
  <2>1. CASE v \notin g.flagged
    <3>1. ~Among(w.made, v)
      BY <1>1, <1>7, <2>1 DEF MadeOK, Inner
    <3>2. /\ w.made \in Seq(DOMAIN g.nodes) /\ Distinct(w.made) /\ v \in DOMAIN g.nodes
          /\ fresh = base + (Len(w.made) + 1) /\ Adds(x.made, w.made, v)
      BY <1>1, <1>2, <1>4, <1>5, <1>6, <2>1 DEF Adds, Grown
    <3>3. Gives(m, n, v, fresh) /\ Len(x.made) = Len(w.made) + 1
      BY <1>8, <3>1, <3>2, RefsGrow
    <3>4. r = fresh
      BY <2>1 DEF r
    <3>5. fresh' = fresh + 1
      BY <1>2, <2>1 DEF Builds
    <3>6. fresh' = base + (Len(x.made) + 1)
      <4>1. Len(w.made) \in Nat /\ base \in Nat /\ fresh = base + (Len(w.made) + 1)
        BY <1>5, <1>6
      <4> QED BY <3>3, <3>5, <4>1
    <3> QED BY <3>3, <3>4, <3>6 DEF Gives
  <2>2. CASE v \in g.flagged
    <3>1. x.made = w.made
      BY <1>4, <2>2 DEF Grown
    <3>2. n = m
      BY <3>1
    <3>3. r = m[v] /\ v \in DOMAIN m
      BY <1>7, <2>2 DEF r, SameCall
    <3>4. fresh' = fresh
      BY <1>2, <2>2 DEF Builds
    <3> QED BY <1>6, <3>1, <3>2, <3>3, <3>4 DEF Grows
  <2> QED BY <2>1, <2>2
<1>10. /\ r \in DOMAIN heap' /\ heap'[r] = Image(g, m, v)
       /\ \A q \in DOMAIN heap : q \in DOMAIN heap' /\ heap'[q] = heap[q]
  BY <1>3, AddedToStore
<1>11. /\ fs \in Seq([node : DOMAIN g.nodes, done : Nat]) /\ Len(fs) = Len(w.calls) - 1
       /\ \A i \in 1..Len(fs) : fs[i] = w.calls[i]
       /\ Waits(g, fs, v) /\ (fs = <<>> => v = g.root)
  <2>1. w.calls \in Seq([node : DOMAIN g.nodes, done : Nat]) /\ Chain(g, w.calls) /\ w.calls # <<>>
    BY <1>1, <1>5
  <2>2. IsFront(g, DOMAIN g.nodes, w.calls, Fore(w.calls))
    BY <2>1, Front
  <2> QED BY <2>2 DEF IsFront, Inner
<1>12. /\ Outer \in Seq(CallOf(Given')) /\ Len(Outer) = Len(fs) /\ result = NoRef
       /\ \A i \in 1..Len(Outer) : Outer[i] = pending[i]
  <2>1. Given \subseteq Given'
    <3>1. fresh \in Nat /\ fresh > 3 /\ (fresh' = fresh \/ fresh' = fresh + 1)
      BY <1>2 DEF ReaderInv, HeapOK, Builds
    <3> QED BY <3>1, GivenGrows
  <2>2. pending \in Seq(CallOf(Given)) /\ pending # <<>>
    BY <1>7 DEF ReaderInv, ReaderOK, Complete
  <2>3. pending \in Seq(CallOf(Given'))
    BY <2>1, <2>2, CallsGrow
  <2>4. /\ Outer \in Seq(CallOf(Given')) /\ Len(Outer) = Len(pending) - 1
        /\ \A i \in 1..Len(Outer) : Outer[i] = pending[i]
    BY <2>2, <2>3, OuterOK
  <2> QED BY <1>7, <1>11, <2>4 DEF Busy
<1>13. /\ SameCalls(g, n, Wrote(fs), pending')
       /\ fs = <<>> => result' = n[v]
       /\ fs # <<>> => result' = NoRef
  <2>1. \A i \in 1..Len(fs) : i \in 1..Len(w.calls)
    BY <1>5, <1>11
  <2>2. SameCalls(g, m, fs, Outer)
    BY <1>6, <1>11, <1>12, <2>1 DEF SameCalls
  <2>3. SameCalls(g, n, fs, Outer)
    BY <1>9, <2>2, SameCallsGrow
  <2>4. /\ fs \in Seq([node : DOMAIN g.nodes, done : Nat]) /\ Outer \in Seq(CallOf(Given'))
        /\ r \in Given' /\ r = n[v] /\ Return(Outer, r) /\ result = NoRef
        /\ Waits(g, fs, v) /\ v \in DOMAIN n
    BY <1>2, <1>3, <1>9, <1>11, <1>12
  <2> QED BY <2>3, <2>4, ReturnsAlike, ZenonT(60)
<1>14. SameIndex(n, x.index, references')
  BY <1>3, <1>4, <1>6, <1>9 DEF SameIndex, Grows
<1>15. \A u : Begun(w, u) => Begun(x, u) \/ u = v
  <2>0. fs \in Seq([node : DOMAIN g.nodes, done : Nat])
    BY <1>11
  <2>1. Len(x.calls) = Len(fs) /\ \A i \in 1..Len(fs) : x.calls[i].node = fs[i].node
    <3>1. Len(Wrote(fs)) = Len(fs) /\ \A i \in 1..Len(fs) : Wrote(fs)[i].node = fs[i].node
      BY <2>0, WroteShape
    <3> QED BY <1>4, <3>1
  <2>2. \A i \in 1..Len(w.calls) : i \in 1..Len(fs) \/ i = Len(w.calls)
    BY <1>5, <1>11
  <2> QED BY <1>11, <2>1, <2>2 DEF Begun, Inner
<1>16. AllStored(g, n, x)'
  <2>1. ASSUME NEW u \in DOMAIN m, ~Begun(x, u), u # v PROVE Stored(g, n, u)'
    <3>1. Stored(g, m, u)
      BY <1>6, <1>15, <2>1 DEF AllStored
    <3>2. u \in DOMAIN g.nodes
      BY RefsIn
    <3> QED BY <1>1, <1>9, <1>10, <3>1, <3>2, StoredGrows
  <2>2. Stored(g, n, v)'
    <3>1. Known(g, n, v) /\ Image(g, n, v) = Image(g, m, v)
      BY <1>1, <1>2, <1>3, <1>9, ImageGrows
    <3>2. Kind(g, v) \notin Unread
      BY <1>2 DEF Containers, Unread, Texts
    <3> QED BY <1>9, <1>10, <3>1, <3>2 DEF Stored
  <2> QED BY <1>9, <2>1, <2>2 DEF AllStored
<1>17. Answers(g, n, x)'
  BY <1>4, <1>9, <1>11, <1>13 DEF Answers
<1>18. WriterOK(g, x)
  BY WriterKept DEF Mirrors, Writes
<1>19. Rest(tokens, x.at, input')
  BY <1>3, <1>4, <1>6
<1> QED BY <1>3, <1>4, <1>6, <1>9, <1>13, <1>14, <1>16, <1>17, <1>18, <1>19 DEF Mirrors

-----------------------------------------------------------------------------
\* The writer begins something that the reader has no arm for.
AtUnread(g, w) == ~Finished(g, w) /\ Kind(g, Current(g, w)) \in Unread

\* While the writer goes on the reader follows it, and when it is over it stops.
LEMMA Follows ==
    ASSUME ReaderInv, NEW g, NEW w, NEW base, NEW tokens,
           Mirrors(g, w, base, tokens), Writes(g, w, tokens), ~AtUnread(g, w), Read
    PROVE  Mirrors(g, Step(g, w), base, tokens)'
<1>1. CASE Finished(g, w)
  BY <1>1, FollowsEnd
<1>2. CASE ~Finished(g, w)
  <2> DEFINE v == Current(g, w)
  <2>1. Kind(g, v) \in Singletons \cup Leaves \cup Containers
    BY <1>2, CurrentNode, GraphNode DEF Mirrors, Writes, AtUnread
  <2>2. CASE Kind(g, v) \in Singletons
    BY <1>2, <2>2, FollowsSingleton
  <2>3. CASE Kind(g, v) \notin Singletons /\ Among(w.index, v)
    <3>1. Kind(g, v) \notin Unnumbered
      BY <1>2, <2>3 DEF Unnumbered, AtUnread, Unread
    <3> QED BY <1>2, <2>3, <3>1, FollowsRef
  <2>4. CASE Kind(g, v) \in Leaves /\ ~Among(w.index, v)
    BY <1>2, <2>4, FollowsLeaf
  <2>5. CASE Kind(g, v) \in Containers /\ ~Among(w.index, v)
    BY <1>2, <2>5, FollowsBegin
  <2> QED BY <2>1, <2>2, <2>3, <2>4, <2>5
<1> QED BY <1>1, <1>2

\* What has been begun once has been read, so that it is met for the first time.
LEMMA StopsAtUnread ==
    ASSUME ReaderInv, NEW g, NEW w, NEW base, NEW tokens,
           Mirrors(g, w, base, tokens), Writes(g, w, tokens), AtUnread(g, w), Read
    PROVE  status' # "reading" /\ ~Readable(g)
<1> DEFINE v == Current(g, w)
           m == RefsOf(g, w.made, base)
<1>1. /\ w \in WriterState(DOMAIN g.nodes) /\ v \in DOMAIN g.nodes /\ Kind(g, v) \in Unread
      /\ ~Finished(g, w) /\ Chain(g, w.calls)
  BY CurrentNode DEF Mirrors, Writes, WriterOK, AtUnread
<1>2. ~Among(w.index, v)
  <2> SUFFICES ASSUME Among(w.index, v) PROVE FALSE
    OBVIOUS
  <2>1. v \in DOMAIN m
    BY DEF Among, Mirrors, SameIndex
  <2>2. ~Begun(w, v)
    BY <1>1 DEF Chain, Begun, Containers, Unread, Texts
  <2>3. Stored(g, m, v)
    BY <2>1, <2>2 DEF Mirrors, AllStored
  <2> QED BY <1>1, <2>3 DEF Stored
<1>3. Step(g, w).token.op = Op(Kind(g, v))
  <2>1. CASE Kind(g, v) \in Unnumbered
    <3> DEFINE token == T(Op(Kind(g, v)), FALSE, 0, "")
    <3>1. Step(g, w) = WriteShort(w, token) /\ token.op = Op(Kind(g, v))
      BY <1>1, <2>1, StepCases DEF T
    <3> HIDE DEF token
    <3> QED BY <1>1, <3>1, ShortShape
  <2>2. CASE Kind(g, v) \notin Unnumbered
    <3>1. Step(g, w) = WriteLong(g, w, v)
      BY <1>1, <1>2, <2>2, StepCases
    <3> QED BY <1>1, <3>1, LongToken
  <2> QED BY <2>1, <2>2
<1>4. input # <<>> /\ Tok = Step(g, w).token /\ Busy /\ ~Complete
  BY <1>1, NextToken, EndTogether
<1>5. Tok.op \in {"Undecodable", "Unknown"}
  BY <1>1, <1>3, <1>4 DEF Op
<1>6. ReadError \/ ReadPanic
  BY <1>4, <1>5, WhichRead
<1>7. status' # "reading"
  BY <1>6 DEF ReadError, ReadPanic, Stop
<1> QED BY <1>1, <1>7 DEF Readable

-----------------------------------------------------------------------------
(***************************************************************************)
(* The two files of CPython.                                               *)
(***************************************************************************)
StoreGrows == \A r \in DOMAIN heap : r \in DOMAIN heap' /\ heap'[r] = heap[r]
HasPrimitives == \A r \in {1, 2, 3} : r \in DOMAIN heap /\ heap[r] = PrimitiveStore[r]

\* The reader is where the writer was at some place of its run.
Mirrored(from, file) ==
    \E base : \E k \in 1..Len(from.run) : Mirrors(from.graph, from.run[k], base, file.tokens)

LEMMA RunStates ==
    ASSUME NEW from, NEW file, IsWritten(from, file)
    PROVE  /\ Len(from.run) \in Nat \ {0} /\ Last(from).over /\ IsGraph(from.graph)
           /\ \A k \in 1..Len(from.run) : from.run[k] \in WriterState(DOMAIN from.graph.nodes)
<1>1. from.run \in Seq(WriterState(DOMAIN from.graph.nodes)) /\ from.run # <<>>
  BY DEF IsWritten
<1>2. Len(from.run) \in Nat \ {0}
  BY <1>1, EmptySeq
<1> QED BY <1>1, <1>2, ElementOfSeq DEF IsWritten

LEMMA WithoutParts ==
    ASSUME NEW g, NEW m, NEW v, Parts(g, v) = <<>>, Kind(g, v) # "Code", Num(g, v) = 0
    PROVE  Known(g, m, v) /\ Image(g, m, v) = Object(Kind(g, v), <<>>, 0, Text(g, v))
<1>1. [i \in 1..Len(Parts(g, v)) |-> m[Parts(g, v)[i]]] = <<>>
  OBVIOUS
<1>2. Known(g, m, v)
  BY DEF Known
<1> QED BY <1>1, <1>2 DEF Image

LEMMA PrimitiveStored ==
    ASSUME HasPrimitives, NEW g, IsGraph(g), NEW v \in DOMAIN g.nodes, Kind(g, v) \in Singletons,
           NEW m, m[v] = SingletonRef(Kind(g, v))
    PROVE  Stored(g, m, v)
<1>1. Parts(g, v) = <<>> /\ Text(g, v) = "" /\ Num(g, v) = 0
  BY GraphNode DEF Singletons, Leaves, Containers
<1>2. Kind(g, v) # "Code" /\ Kind(g, v) \notin Unread
  BY DEF Singletons, Unread, Texts
<1>3. Known(g, m, v) /\ Image(g, m, v) = Object(Kind(g, v), <<>>, 0, "")
  BY <1>1, <1>2, WithoutParts
<1>4. SingletonRef(Kind(g, v)) \in {1, 2, 3}
  BY DEF SingletonRef, Singletons
<1>5. PrimitiveStore[SingletonRef(Kind(g, v))] = Object(Kind(g, v), <<>>, 0, "")
  <2>1. CASE Kind(g, v) = "None"
    BY <2>1 DEF SingletonRef, PrimitiveStore
  <2>2. CASE Kind(g, v) = "True"
    BY <2>2 DEF SingletonRef, PrimitiveStore
  <2>3. CASE Kind(g, v) = "False"
    BY <2>3 DEF SingletonRef, PrimitiveStore
  <2> QED BY <2>1, <2>2, <2>3 DEF Singletons
<1> QED BY <1>2, <1>3, <1>4, <1>5 DEF Stored, HasPrimitives

LEMMA StartMirrors ==
    ASSUME HeapOK, HasPrimitives, NEW from, NEW file, IsWritten(from, file), Start(file)
    PROVE  Mirrored(from, file)'
<1> SUFFICES ASSUME NEW base, base = fresh - 1
             PROVE  Mirrored(from, file)'
  OBVIOUS
<1> DEFINE g == from.graph
           w == from.run[1]
           m == RefsOf(g, w.made, base)
<1>1. /\ w.calls = <<>> /\ w.over = FALSE /\ w.index = <<>> /\ w.made = <<>> /\ w.at = 0
  <2>1. w = NotBegun
    BY DEF IsWritten
  <2> HIDE DEF w
  <2> QED BY <2>1 DEF NotBegun
<1>2. Len(<<>>) = 0
  OBVIOUS
<1>3. /\ heap' = heap /\ fresh' = fresh /\ input' = file.tokens /\ references' = <<>>
      /\ pending' = <<>> /\ result' = NoRef /\ status' = "reading"
  BY DEF Start, store
<1>4. IsGraph(g) /\ w \in WriterState(DOMAIN g.nodes) /\ 1 \in 1..Len(from.run)
  <2>1. 1 \in 1..Len(from.run)
    BY RunStates
  <2> QED BY <2>1, RunStates
<1>5. base \in Nat /\ base >= 3 /\ fresh' = base + (Len(<<>>) + 1)
  BY <1>2, <1>3 DEF HeapOK
<1>6. \A v \in DOMAIN m : v \in DOMAIN g.nodes /\ Kind(g, v) \in Singletons /\ m[v] = SingletonRef(Kind(g, v))
  BY <1>1, <1>2, RefsIn DEF Among
<1> HIDE DEF g, w, m
<1>7. AllStored(g, m, w)
  BY <1>4, <1>6, PrimitiveStored DEF AllStored
<1>8. AllStored(g, m, w)'
  BY <1>3, <1>7 DEF AllStored, Stored
<1>9. WriterOK(g, w)
  BY <1>1, <1>2, <1>4 DEF WriterOK, Chain, MadeOK, Distinct
<1>10. SameCalls(g, m, w.calls, pending') /\ SameIndex(m, w.index, references')
  BY <1>1, <1>2, <1>3 DEF SameCalls, SameIndex
<1>11. Answers(g, m, w)'
  BY <1>1, <1>3 DEF Answers
<1>12. Rest(file.tokens, w.at, input')
  <2>1. \A i \in 1..Len(file.tokens) : 0 + i = i
    OBVIOUS
  <2>2. Len(file.tokens) = Len(file.tokens) - 0
    BY DEF IsWritten
  <2> QED BY <1>1, <1>3, <2>1, <2>2 DEF Rest
<1>13. Mirrors(g, w, base, file.tokens)'
  BY <1>1, <1>3, <1>5, <1>8, <1>9, <1>10, <1>11, <1>12 DEF Mirrors, m
<1> QED BY <1>4, <1>13 DEF Mirrored, g, w

\* Until it is over the writer goes on, to what it wrote next.
LEMMA WriterGoesOn ==
    ASSUME NEW from, NEW file, IsWritten(from, file), file.tokens \in Seq(Token),
           ~FrozenSetFlagged(from.graph), NEW k \in 1..Len(from.run), ~from.run[k].over
    PROVE  /\ Writes(from.graph, from.run[k], file.tokens)
           /\ k + 1 \in 1..Len(from.run) /\ from.run[k + 1] = Step(from.graph, from.run[k])
<1> DEFINE n == Len(from.run)
           w == from.run[k]
           x == from.run[k + 1]
           g == from.graph
<1>1. n \in Nat \ {0} /\ from.run[n].over /\ IsGraph(g)
  BY RunStates DEF Last
<1>2. k # n
  BY <1>1
<1>3. k \in 1..(n - 1) /\ k + 1 \in 1..n
  <2>1. k \in 1..n
    OBVIOUS
  <2> HIDE DEF n
  <2> QED BY <1>1, <1>2, <2>1
<1>4. Regular(g, w) /\ x = Step(g, w)
  BY <1>3 DEF IsWritten
<1>5. x \in WriterState(DOMAIN g.nodes)
  BY <1>3, RunStates
<1>6. x.at > 0 => x.at <= Len(file.tokens) /\ file.tokens[x.at] = x.token
  BY <1>3 DEF IsWritten
<1> HIDE DEF n, w, x, g
<1>7. Writes(g, w, file.tokens)
  <2>1. ~w.over
    BY DEF w
  <2>2. ~FrozenSetFlagged(g)
    BY DEF g
  <2> QED BY <1>1, <1>4, <1>5, <1>6, <2>1, <2>2 DEF Writes
<1> QED BY <1>3, <1>4, <1>7 DEF n, w, x, g

LEMMA OverAtTheEnd ==
    ASSUME NEW from, NEW file, IsWritten(from, file), NEW k \in 1..Len(from.run), from.run[k].over
    PROVE  from.run[k] = Last(from)
<1> DEFINE n == Len(from.run)
<1>1. n \in Nat \ {0} /\ k \in 1..n
  BY RunStates
<1>2. \A i \in 1..(n - 1) : ~from.run[i].over
  BY DEF IsWritten
<1>3. k = n
  <2> HIDE DEF n
  <2>1. k \in 1..(n - 1) \/ k = n
    BY <1>1
  <2> QED BY <1>2, <2>1
<1> QED BY <1>3 DEF Last

\* Where the writer is over the reader has its result, which holds the graph.
LEMMA OverHolds ==
    ASSUME ReaderInv, NEW g, IsGraph(g), NEW w, NEW base, NEW tokens, Mirrors(g, w, base, tokens), w.over
    PROVE  /\ base \in Given /\ result # NoRef
           /\ Holds(g, RefsOf(g, w.made, base), result)
<1> SUFFICES ASSUME NEW m, m = RefsOf(g, w.made, base)
             PROVE  base \in Given /\ result # NoRef /\ Holds(g, m, result)
  OBVIOUS
<1>1. /\ w \in WriterState(DOMAIN g.nodes) /\ base \in Nat /\ base >= 3
      /\ fresh = base + (Len(w.made) + 1) /\ AllStored(g, m, w) /\ SameCalls(g, m, w.calls, pending)
      /\ g.root \in DOMAIN m /\ result = m[g.root]
  BY DEF Mirrors, WriterOK, Answers
<1>2. w.made \in Seq(DOMAIN g.nodes) /\ Len(w.made) \in Nat /\ Len(w.calls) \in Nat
  BY <1>1, WriterTypes
<1>3. base \in Given
  <2>1. base \in Nat /\ base >= 3 /\ fresh = base + (Len(w.made) + 1) /\ Len(w.made) \in Nat
    BY <1>1, <1>2
  <2> QED BY <2>1 DEF Given
<1>4. result # NoRef
  <2>1. CASE Kind(g, g.root) \in Singletons
    <3>1. result = SingletonRef(Kind(g, g.root))
      BY <1>1, <2>1, RefsIn
    <3> QED BY <2>1, <3>1 DEF SingletonRef, Singletons, NoRef
  <2>2. CASE Kind(g, g.root) \notin Singletons
    <3>1. Among(w.made, g.root) /\ result = base + Place(w.made, g.root)
      BY <1>1, <2>2, RefsIn
    <3>2. Place(w.made, g.root) \in 1..Len(w.made)
      BY <3>1, PlaceIn
    <3>3. base \in Nat
      BY <1>1
    <3> QED BY <3>1, <3>2, <3>3 DEF NoRef
  <2> QED BY <2>1, <2>2
<1>5. \A u : ~Begun(w, u)
  <2>1. pending = <<>> /\ Len(<<>>) = 0
    BY <1>4 DEF ReaderInv, ReaderOK
  <2>2. Len(w.calls) = 0
    BY <1>1, <2>1 DEF SameCalls
  <2> QED BY <2>2 DEF Begun
<1>6. \A v \in DOMAIN m : Stored(g, m, v)
  BY <1>1, <1>5 DEF AllStored
<1>7. \A u, v \in DOMAIN m : m[u] = m[v] => u = v
  <2> SUFFICES ASSUME NEW u \in DOMAIN m, NEW v \in DOMAIN m, m[u] = m[v] PROVE u = v
    OBVIOUS
  <2>1. base \in Nat /\ base >= 3 /\ w.made \in Seq(DOMAIN g.nodes)
    BY <1>1, <1>2
  <2> QED BY <2>1, RefsDiffer
<1>8. Holds(g, m, result)
  BY <1>1, <1>6, <1>7 DEF Holds, Stored, Known
<1> QED BY <1>3, <1>4, <1>8

-----------------------------------------------------------------------------
LEMMA MirroredReads ==
    ASSUME ReaderInv, NEW from, NEW file, IsWritten(from, file), file.tokens \in Seq(Token),
           ~FrozenSetFlagged(from.graph), Mirrored(from, file), Read
    PROVE  Mirrored(from, file)' \/ (status' # "reading" /\ ~Readable(from.graph))
<1>0. PICK base : \E k \in 1..Len(from.run) : Mirrors(from.graph, from.run[k], base, file.tokens)
  BY DEF Mirrored
<1>1. PICK k \in 1..Len(from.run) : Mirrors(from.graph, from.run[k], base, file.tokens)
  BY <1>0
<1>2. ~from.run[k].over
  <2>1. Busy
    BY DEF Read, At, ReadSingleton, ReadLeaf, ReadContainer, ReadRef, ReadError, ReadPanic, Build, BuildPanic
  <2> QED BY <1>1, <2>1, OverHolds, RunStates DEF Busy
<1>3. /\ Writes(from.graph, from.run[k], file.tokens)
      /\ k + 1 \in 1..Len(from.run) /\ from.run[k + 1] = Step(from.graph, from.run[k])
  BY <1>2, WriterGoesOn
<1>4. CASE ~AtUnread(from.graph, from.run[k])
  <2>1. Mirrors(from.graph, from.run[k + 1], base, file.tokens)'
    BY <1>1, <1>3, <1>4, Follows
  <2> QED BY <1>3, <2>1 DEF Mirrored
<1>5. CASE AtUnread(from.graph, from.run[k])
  BY <1>1, <1>3, <1>5, StopsAtUnread
<1> QED BY <1>4, <1>5

LEMMA MirroredResult ==
    ASSUME ReaderInv, NEW from, NEW file, IsWritten(from, file), Mirrored(from, file)
    PROVE  status = "reading" /\ (result # NoRef => HoldsWritten(from, result))
<1>0. PICK base : \E k \in 1..Len(from.run) : Mirrors(from.graph, from.run[k], base, file.tokens)
  BY DEF Mirrored
<1>1. PICK k \in 1..Len(from.run) : Mirrors(from.graph, from.run[k], base, file.tokens)
  BY <1>0
<1>2. status = "reading"
  BY <1>1 DEF Mirrors
<1>3. ASSUME result # NoRef PROVE HoldsWritten(from, result)
  <2>1. from.run[k].over /\ IsGraph(from.graph)
    BY <1>1, <1>3, RunStates DEF Mirrors, Answers
  <2>2. from.run[k] = Last(from)
    BY <2>1, OverAtTheEnd
  <2> QED BY <1>1, <2>1, <2>2, OverHolds DEF HoldsWritten
<1> QED BY <1>2, <1>3

\* What the store holds it goes on to hold.
LEMMA HoldsOn ==
    ASSUME NEW from, NEW ref, HoldsWritten(from, ref), StoreGrows, Given \subseteq Given'
    PROVE  HoldsWritten(from, ref)'
<1>1. PICK base \in Given : Holds(from.graph, RefsOf(from.graph, Last(from).made, base), ref)
  BY DEF HoldsWritten
<1> DEFINE m == RefsOf(from.graph, Last(from).made, base)
<1> HIDE DEF m
<1>2. Holds(from.graph, m, ref)'
  BY <1>1 DEF Holds, StoreGrows, m
<1> QED BY <1>1, <1>2 DEF HoldsWritten, m

-----------------------------------------------------------------------------
Written1 == IsWritten(files.from[1], files.main)
Written2 == IsWritten(files.from[2], files.builtins)

\* The reader is with the writer, or it has stopped at what it does not support.
Followed(from, file) == Mirrored(from, file) \/ (status # "reading" /\ ~Readable(from.graph))

Readable1 == Written1 /\ Readable(files.from[1].graph)
Readable2 == Written2 /\ Readable(files.from[2].graph)

\* A file of CPython is followed while it is read, and held from then on.
LoadsWritten ==
    /\ HasPrimitives
    /\ phase \in {"open main", "open builtins"} => status = "reading"
    /\ phase = "main" /\ Written1 => Followed(files.from[1], files.main)
    /\ phase \in {"open builtins", "builtins", "done"} /\ Written1 => HoldsWritten(files.from[1], main)
    /\ phase = "builtins" /\ Written2 => Followed(files.from[2], files.builtins)
    /\ phase = "done" /\ Written2 => HoldsWritten(files.from[2], heap[builtins].items[1])
    /\ phase = "done" => outcome = "loaded" /\ builtins \in DOMAIN heap
    /\ outcome = "loaded" => phase = "done"
    /\ outcome \in {"error", "panic"} => ~(Readable1 /\ Readable2)

LEMMA PrimitivesStay ==
    ASSUME HasPrimitives, StoreGrows
    PROVE  HasPrimitives'
BY DEF HasPrimitives, StoreGrows

LEMMA WrittenHeader ==
    ASSUME NEW from, NEW file, IsWritten(from, file)
    PROVE  file.header = "good"
BY DEF IsWritten

\* The reference of a file of CPython does not change, nor what is in its objects.
LEMMA GivenStays ==
    ASSUME LoadInv, [Next]_vars
    PROVE  Given \subseteq Given'
<1>1. CASE ReadObject
  BY <1>1, GivenOnlyGrows DEF ReadObject
<1>2. CASE BuiltinsRead
  <2>1. fresh' = fresh + 1 /\ fresh \in Nat /\ fresh > 3
    BY <1>2 DEF BuiltinsRead, LoadInv, ReaderInv, HeapOK
  <2> QED BY <2>1, GivenGrows
<1>3. CASE OpenMain \/ OpenBuiltins \/ MainRead \/ MainError \/ LoadPanic \/ UNCHANGED vars
  <2>1. fresh' = fresh
    BY <1>3 DEF OpenMain, OpenBuiltins, Start, MainRead, MainError, LoadPanic, Ends, vars, store
  <2> QED BY <2>1 DEF Given
<1> QED BY <1>1, <1>2, <1>3 DEF Next, Load, Over

LEMMA InitWritten == ASSUME Init PROVE LoadsWritten
<1>1. HasPrimitives
  BY DEF Init, HasPrimitives, PrimitiveStore
<1> QED BY <1>1 DEF Init, LoadsWritten

\* Of what is read, what the first file holds is held on.
LEMMA MainHeld ==
    ASSUME LoadInv, [Next]_vars, HoldsWritten(files.from[1], main), files' = files, main' = main
    PROVE  HoldsWritten(files.from[1], main)'
<1>1. StoreGrows /\ Given \subseteq Given'
  BY NextGrows, GivenStays DEF StoreGrows
<1> DEFINE from == files.from[1]
           ref == main
<1>2. from' = from /\ ref' = ref
  OBVIOUS
<1> HIDE DEF from, ref
<1>3. PICK f, r : f = from /\ r = ref
  OBVIOUS
<1>4. HoldsWritten(f, r)'
  BY <1>1, <1>3, HoldsOn DEF from, ref
<1> QED BY <1>2, <1>3, <1>4 DEF from, ref

LEMMA MirrorStarts ==
    ASSUME LoadInv, LoadsWritten, NEW f, NEW file, IsWritten(f, file), Start(file)
    PROVE  Followed(f, file)'
BY StartMirrors DEF LoadInv, ReaderInv, LoadsWritten, Followed

LEMMA OpenMainWritten ==
    ASSUME LoadInv, LoadsWritten, HasPrimitives', OpenMain
    PROVE  LoadsWritten'
<1>1. /\ phase' = "main" /\ outcome' = "loading" /\ files' = files /\ Start(files.main)
  BY DEF OpenMain, Loads
<1>2. ASSUME Written1 PROVE Followed(files.from[1], files.main)'
  <2>1. PICK f, file : f = files.from[1] /\ file = files.main
    OBVIOUS
  <2>2. Followed(f, file)'
    BY <1>1, <1>2, <2>1, MirrorStarts DEF Written1
  <2>3. f = files'.from[1] /\ file = files'.main
    BY <1>1, <2>1
  <2> QED BY <2>2, <2>3
<1>3. Written1' <=> Written1
  BY <1>1 DEF Written1
<1> QED BY <1>1, <1>2, <1>3 DEF LoadsWritten

LEMMA OpenBuiltinsWritten ==
    ASSUME LoadInv, LoadsWritten, HasPrimitives', OpenBuiltins
    PROVE  LoadsWritten'
<1>1. /\ phase = "open builtins" /\ phase' = "builtins" /\ outcome' = "loading" /\ files' = files
      /\ main' = main /\ Start(files.builtins)
  BY DEF OpenBuiltins, Loads
<1>2. ASSUME Written2 PROVE Followed(files.from[2], files.builtins)'
  <2>1. PICK f, file : f = files.from[2] /\ file = files.builtins
    OBVIOUS
  <2>2. Followed(f, file)'
    BY <1>1, <1>2, <2>1, MirrorStarts DEF Written2
  <2>3. f = files'.from[2] /\ file = files'.builtins
    BY <1>1, <2>1
  <2> QED BY <2>2, <2>3
<1>3. ASSUME Written1 PROVE HoldsWritten(files.from[1], main)'
  <2>1. HoldsWritten(files.from[1], main) /\ Next
    BY <1>1, <1>3 DEF LoadsWritten, Next, Load
  <2> QED BY <1>1, <2>1, MainHeld
<1>4. (Written1' <=> Written1) /\ (Written2' <=> Written2)
  BY <1>1 DEF Written1, Written2
<1> QED BY <1>1, <1>2, <1>3, <1>4 DEF LoadsWritten

LEMMA FilesTyped ==
    ASSUME LoadInv
    PROVE  files \in Files /\ files.main.tokens \in Seq(Token) /\ files.builtins.tokens \in Seq(Token)
BY FilesAssumption DEF LoadInv, LoadOK, File

LEMMA ReadObjectWritten ==
    ASSUME LoadInv, LoadsWritten, HasPrimitives', NoneFlagged(files), ReadObject
    PROVE  LoadsWritten'
<1>1. /\ phase \in {"main", "builtins"} /\ phase' = phase /\ outcome = "loading" /\ outcome' = outcome
      /\ files' = files /\ main' = main /\ Read /\ status = "reading"
  BY DEF ReadObject, loading, Read, At, ReadSingleton, ReadLeaf, ReadContainer, ReadRef, ReadError,
         ReadPanic, Build, BuildPanic, Busy
<1>2. /\ Written1 => ~FrozenSetFlagged(files.from[1].graph)
      /\ Written2 => ~FrozenSetFlagged(files.from[2].graph)
      /\ ReaderInv
  BY DEF NoneFlagged, LoadInv, Written1, Written2
<1>3. ASSUME Written1, phase = "main" PROVE Followed(files.from[1], files.main)'
  <2>1. PICK f, file : f = files.from[1] /\ file = files.main
    OBVIOUS
  <2>2. /\ IsWritten(f, file) /\ file.tokens \in Seq(Token) /\ ~FrozenSetFlagged(f.graph)
        /\ Mirrored(f, file)
    BY <1>1, <1>2, <1>3, <2>1, FilesTyped DEF Written1, LoadsWritten, Followed
  <2>3. Followed(f, file)'
    BY <1>1, <1>2, <2>2, MirroredReads DEF Followed
  <2>4. f = files'.from[1] /\ file = files'.main
    BY <1>1, <2>1
  <2> QED BY <2>3, <2>4
<1>4. ASSUME Written2, phase = "builtins" PROVE Followed(files.from[2], files.builtins)'
  <2>1. PICK f, file : f = files.from[2] /\ file = files.builtins
    OBVIOUS
  <2>2. /\ IsWritten(f, file) /\ file.tokens \in Seq(Token) /\ ~FrozenSetFlagged(f.graph)
        /\ Mirrored(f, file)
    BY <1>1, <1>2, <1>4, <2>1, FilesTyped DEF Written2, LoadsWritten, Followed
  <2>3. Followed(f, file)'
    BY <1>1, <1>2, <2>2, MirroredReads DEF Followed
  <2>4. f = files'.from[2] /\ file = files'.builtins
    BY <1>1, <2>1
  <2> QED BY <2>3, <2>4
<1>5. ASSUME Written1, phase = "builtins" PROVE HoldsWritten(files.from[1], main)'
  <2>1. HoldsWritten(files.from[1], main) /\ Next
    BY <1>5 DEF LoadsWritten, Next, Load
  <2> QED BY <1>1, <2>1, MainHeld
<1>6. (Written1' <=> Written1) /\ (Written2' <=> Written2)
  BY <1>1 DEF Written1, Written2
<1> QED BY <1>1, <1>3, <1>4, <1>5, <1>6 DEF LoadsWritten

LEMMA MainReadWritten ==
    ASSUME LoadInv, LoadsWritten, HasPrimitives', StoreGrows, MainRead
    PROVE  LoadsWritten'
<1>1. /\ phase = "main" /\ phase' = "open builtins" /\ outcome' = "loading" /\ files' = files
      /\ main' = result /\ result # NoRef /\ status = "reading" /\ status' = "reading"
      /\ Given' = Given
  BY DEF MainRead, Loads, store, reader, Given
<1>2. ASSUME Written1 PROVE HoldsWritten(files.from[1], main)'
  <2>1. PICK f, file, r : f = files.from[1] /\ file = files.main /\ r = result
    OBVIOUS
  <2>2. IsWritten(f, file) /\ Mirrored(f, file) /\ ReaderInv
    BY <1>1, <1>2, <2>1 DEF Written1, LoadsWritten, LoadInv, Followed
  <2>3. HoldsWritten(f, r)
    BY <1>1, <2>1, <2>2, MirroredResult
  <2>4. HoldsWritten(f, r)'
    BY <1>1, <2>3, HoldsOn
  <2>5. f = files'.from[1] /\ r = main'
    BY <1>1, <2>1
  <2> QED BY <2>4, <2>5
<1>3. /\ (Written1' <=> Written1) /\ (Written2' <=> Written2)
      /\ (Readable1' <=> Readable1) /\ (Readable2' <=> Readable2)
  BY <1>1 DEF Written1, Written2, Readable1, Readable2, Readable
<1> QED BY <1>1, <1>2, <1>3 DEF LoadsWritten

LEMMA BuiltinsReadWritten ==
    ASSUME LoadInv, LoadsWritten, HasPrimitives', StoreGrows, Given \subseteq Given', BuiltinsRead
    PROVE  LoadsWritten'
<1> DEFINE c == Object("Module", <<result>>, 0, "builtins")
<1>1. /\ phase = "builtins" /\ phase' = "done" /\ outcome' = "loaded" /\ files' = files
      /\ main' = main /\ result # NoRef /\ status = "reading" /\ heap' = With(fresh, c)
      /\ builtins' = fresh
  BY DEF BuiltinsRead, Loads
<1>2. builtins' \in DOMAIN heap' /\ heap'[builtins'] = c
  BY <1>1 DEF With
<1>3. c.items[1] = result
  BY DEF Object
<1> HIDE DEF c
<1>4. heap'[builtins'].items[1] = result
  BY <1>2, <1>3
<1>5. ASSUME Written2 PROVE HoldsWritten(files.from[2], heap[builtins].items[1])'
  <2>1. PICK f, file, r : f = files.from[2] /\ file = files.builtins /\ r = result
    OBVIOUS
  <2>2. IsWritten(f, file) /\ Mirrored(f, file) /\ ReaderInv
    BY <1>1, <1>5, <2>1 DEF Written2, LoadsWritten, LoadInv, Followed
  <2>3. HoldsWritten(f, r)
    BY <1>1, <2>1, <2>2, MirroredResult
  <2>4. HoldsWritten(f, r)'
    BY <2>3, HoldsOn
  <2>5. f = files'.from[2] /\ r = heap'[builtins'].items[1]
    BY <1>1, <1>4, <2>1
  <2> QED BY <2>4, <2>5
<1>6. ASSUME Written1 PROVE HoldsWritten(files.from[1], main)'
  <2>1. HoldsWritten(files.from[1], main) /\ Next
    BY <1>1, <1>6 DEF LoadsWritten, Next, Load
  <2> QED BY <1>1, <2>1, MainHeld
<1>7. (Written1' <=> Written1) /\ (Written2' <=> Written2)
  BY <1>1 DEF Written1, Written2
<1> QED BY <1>1, <1>2, <1>5, <1>6, <1>7 DEF LoadsWritten

\* No step fails on a file of CPython in which all is supported.
LEMMA EndsUnwritten ==
    ASSUME LoadInv, LoadsWritten, MainError \/ LoadPanic
    PROVE  ~(Readable1 /\ Readable2)
<1> SUFFICES ASSUME Readable1, Readable2 PROVE FALSE
  OBVIOUS
<1>1. files.main.header = "good" /\ files.builtins.header = "good"
  BY WrittenHeader DEF Readable1, Readable2, Written1, Written2
<1>2. phase = "main" => status = "reading"
  BY MirroredResult DEF LoadsWritten, LoadInv, Readable1, Written1, Followed
<1>3. phase = "builtins" => status = "reading"
  BY MirroredResult DEF LoadsWritten, LoadInv, Readable2, Written2, Followed
<1>4. outcome = "loading" => status = "reading"
  BY <1>2, <1>3 DEF LoadsWritten, LoadInv, LoadOK
<1>5. outcome = "loading"
  BY DEF MainError, LoadPanic, Loads
<1> QED BY <1>1, <1>4, <1>5 DEF MainError, LoadPanic, Loads

LEMMA SameWritten ==
    ASSUME LoadInv, LoadsWritten, HasPrimitives', StoreGrows, [Next]_vars,
           UNCHANGED <<heap, fresh, input, references, pending, result, status>>,
           UNCHANGED <<files, phase, main, builtins>>,
           outcome' = outcome \/ outcome = "loading",
           outcome' = "loaded" => outcome = "loaded",
           outcome' # outcome => ~(Readable1 /\ Readable2)
    PROVE  LoadsWritten'
<1>1. /\ (Written1' <=> Written1) /\ (Written2' <=> Written2)
      /\ (Readable1' <=> Readable1) /\ (Readable2' <=> Readable2)
  BY DEF Written1, Written2, Readable1, Readable2, Readable
<1>2. \A f, file : Followed(f, file)' <=> Followed(f, file)
  BY DEF Followed, Mirrored, Mirrors, SameCalls, SameCall, SameIndex, AllStored, Stored, Answers
<1>3. \A f, r : HoldsWritten(f, r)' <=> HoldsWritten(f, r)
  BY DEF HoldsWritten, Holds, Given
<1> QED BY <1>1, <1>2, <1>3 DEF LoadsWritten

LEMMA NextWritten ==
    ASSUME LoadInv, LoadsWritten, \A f \in Files : NoneFlagged(f), [Next]_vars
    PROVE  LoadsWritten'
<1>1. StoreGrows /\ Given \subseteq Given'
  BY NextGrows, GivenStays DEF StoreGrows
<1>2. HasPrimitives'
  BY <1>1, PrimitivesStay DEF LoadsWritten
<1>0. NoneFlagged(files)
  BY FilesTyped
<1>3. CASE MainError \/ LoadPanic
  <2>1. /\ UNCHANGED <<heap, fresh, input, references, pending, result, status>>
        /\ UNCHANGED <<files, phase, main, builtins>> /\ outcome' # "loaded" /\ outcome = "loading"
    BY <1>3 DEF MainError, LoadPanic, Ends, store, reader, Loads
  <2>2. ~(Readable1 /\ Readable2)
    BY <1>3, EndsUnwritten
  <2> QED BY <1>1, <1>2, <2>1, <2>2, SameWritten
<1>4. CASE UNCHANGED vars
  <2>1. UNCHANGED <<heap, fresh, input, references, pending, result, status,
                    files, phase, main, builtins, outcome>>
    BY <1>4 DEF vars, reader, loading
  <2> QED BY <1>1, <1>2, <2>1, SameWritten
<1> QED BY <1>0, <1>1, <1>2, <1>3, <1>4, OpenMainWritten, OpenBuiltinsWritten, ReadObjectWritten,
           MainReadWritten, BuiltinsReadWritten DEF Next, Load, Over

LEMMA WrittenIsRead ==
    ASSUME LoadsWritten
    PROVE  ReadsWhatWasWritten
BY DEF LoadsWritten, ReadsWhatWasWritten, Written1, Written2, Readable1, Readable2

\* Of whatever graph CPython writes, of whatever size, and however its parts are
\* shared: read_object never makes other objects than those written, nor shares
\* them otherwise, but it drops the sign of an integer.  It refuses a graph only
\* if that has an object for which it has no arm, or text that it cannot decode,
\* such as ASCII of 256 characters or a float.  The theorem asks that no
\* frozenset has the flag of a reference.
THEOREM WhatIsWrittenIsRead == (\A f \in Files : NoneFlagged(f)) => (Spec => []ReadsWhatWasWritten)
<1> SUFFICES ASSUME \A f \in Files : NoneFlagged(f) PROVE Spec => []ReadsWhatWasWritten
  OBVIOUS
<1>1. Init => LoadsWritten
  BY InitWritten
<1>2. LoadInv /\ LoadInv' /\ LoadsWritten /\ [Next]_vars => LoadsWritten'
  BY NextWritten
<1>3. LoadsWritten => ReadsWhatWasWritten
  BY WrittenIsRead
<1> QED BY <1>1, <1>2, <1>3, Invariant, PTL DEF Spec
=============================================================================
