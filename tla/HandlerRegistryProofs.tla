------------------------ MODULE HandlerRegistryProofs ------------------------
(***************************************************************************)
(* Proofs about HandlerRegistry, for any finite number of goroutines, any  *)
(* width of the counter and any bounds.  Every dispatch under way has in   *)
(* order what it has called and what it still has to call, and all that it *)
(* owes is there (Sound); the order is that of the additions because ids   *)
(* are, as long as the counter does not wrap (InStep).                     *)
(***************************************************************************)
EXTENDS HandlerRegistry, FiniteSetTheorems, SequenceTheorems, TLAPS

Frames == [rest : Seq(Nat), called : Seq(Nat), kept : SUBSET Nat]

Registry ==
    /\ nextID \in 0..(Width - 1) /\ added \in Nat
    /\ Ids \subseteq 0..(Width - 1)
    /\ \A id \in Ids : handlers[id] \in 1..added
    /\ wants \in [Goroutines -> {"nothing", "add", "remove", "clear"}]
    /\ stack \in [Goroutines -> Seq(Frames)]

\* The additions that are under way are within the bound.
Bounded == Adding \in Nat /\ added + Adding <= MaxAdds

\* The counter does not wrap.
Narrow == MaxAdds < Width

\* Without a wrap an id is the number of the addition.
InStep == Narrow => nextID = added /\ \A id \in Ids : handlers[id] = id

\* What a dispatch calls, all in all.
All(f) == f.called \o f.rest

Sound(f) == f.kept \subseteq ToSet(All(f)) /\ (Narrow => Ascending(All(f)))

AllSound == \A g \in Goroutines : \A i \in DOMAIN stack[g] : Sound(stack[g][i])

Inv == Registry /\ Bounded /\ InStep /\ AllSound

-----------------------------------------------------------------------------
(* The snapshot *)

\* A set of naturals that is not empty has a least element.
LEMMA LeastElement ==
  ASSUME NEW T, T \subseteq Nat, T # {}
  PROVE  \E n \in T : \A m \in T : n <= m
  <1>1. \E n \in T : \A m \in T : <<m, n>> \notin OpToRel(<, Nat)
    BY NatLessThanWellFounded, WFMin
  <1>2. PICK n \in T : \A m \in T : <<m, n>> \notin OpToRel(<, Nat)
    BY <1>1
  <1>3. ASSUME NEW m \in T PROVE n <= m
    <2>1. <<m, n>> \notin OpToRel(<, Nat)
      BY <1>2
    <2>2. <<m, n>> \in Nat \X Nat => ~ (m < n)
      BY <2>1 DEF OpToRel
    <2> QED BY <2>2
  <1> QED BY <1>3

\* Finitely many numbers can be put in order: the least, then the others.
LEMMA Sortable ==
  \A n \in Nat : \A S \in SUBSET Nat :
    IsFiniteSet(S) /\ Cardinality(S) = n => \E q \in [1..n -> S] : Ascending(q)
  <1> DEFINE Sorted(n) == \A S \in SUBSET Nat :
               IsFiniteSet(S) /\ Cardinality(S) = n => \E q \in [1..n -> S] : Ascending(q)
             Bad == {n \in Nat : ~ Sorted(n)}
  <1> SUFFICES ASSUME Bad # {} PROVE FALSE
    OBVIOUS
  <1>1. PICK n \in Bad : \A m \in Bad : n <= m
    <2> HIDE DEF Sorted
    <2> QED BY LeastElement
  <1>2. PICK S \in SUBSET Nat : /\ IsFiniteSet(S) /\ Cardinality(S) = n
                                /\ ~ \E q \in [1..n -> S] : Ascending(q)
    BY <1>1
  <1>3. S # {}
    <2>1. SUFFICES ASSUME S = {} PROVE FALSE
      OBVIOUS
    <2>2. n = 0
      BY <1>2, <2>1, FS_EmptySet
    <2>3. [i \in 1..0 |-> 0] \in [1..n -> S] /\ Ascending([i \in 1..0 |-> 0])
      BY <2>2 DEF Ascending
    <2> QED BY <1>2, <2>3
  <1>4. PICK least \in S : \A m \in S : least <= m
    BY <1>3, LeastElement
  <1>5. /\ IsFiniteSet(S \ {least}) /\ Cardinality(S \ {least}) = n - 1
        /\ n - 1 \in Nat /\ S \ {least} \in SUBSET Nat
    <2>1. IsFiniteSet(S \ {least}) /\ Cardinality(S \ {least}) = Cardinality(S) - 1
      BY <1>2, <1>4, FS_RemoveElement
    <2>2. Cardinality(S \ {least}) \in Nat /\ n \in Nat
      BY <2>1, FS_CardinalityType
    <2> QED BY <1>2, <2>1, <2>2
  <1>6. Sorted(n - 1)
    <2>1. n - 1 \notin Bad
      BY <1>1, <1>5
    <2> HIDE DEF Sorted
    <2> QED BY <1>5, <2>1
  <1>7. PICK q \in [1..(n - 1) -> S \ {least}] : Ascending(q)
    BY <1>5, <1>6
  <1> DEFINE r == [i \in 1..n |-> IF i = 1 THEN least ELSE q[i - 1]]
  <1>8. r \in [1..n -> S]
    BY <1>4, <1>7, <1>5
  <1>9. Ascending(r)
    <2> SUFFICES ASSUME NEW i \in 1..n, NEW j \in 1..n, i < j PROVE r[i] < r[j]
      BY DEF Ascending
    <2>1. j - 1 \in 1..(n - 1) /\ r[j] = q[j - 1]
      BY <1>5
    <2>2. CASE i = 1
      <3>1. q[j - 1] \in S \ {least} /\ r[i] = least
        BY <1>7, <2>1, <2>2
      <3>2. least \in Nat /\ q[j - 1] \in Nat /\ least <= q[j - 1] /\ least # q[j - 1]
        BY <1>4, <3>1
      <3> QED BY ONLY <2>1, <3>1, <3>2
    <2>3. CASE i # 1
      <3>1. i - 1 \in 1..(n - 1) /\ r[i] = q[i - 1] /\ i - 1 < j - 1
        BY <1>5, <2>3
      <3>2. q[i - 1] < q[j - 1]
        BY <1>7, <2>1, <3>1 DEF Ascending
      <3> QED BY ONLY <2>1, <3>1, <3>2
    <2> QED BY <2>2, <2>3
  <1> QED BY <1>2, <1>8, <1>9

\* The queue of a snapshot has every id once, in ascending order.
LEMMA QueueSorts ==
  ASSUME NEW S \in SUBSET Nat, IsFiniteSet(S)
  PROVE  /\ Queue(S) \in Seq(S) /\ Ascending(Queue(S))
         /\ ToSet(Queue(S)) = S
  <1> DEFINE n == Cardinality(S)
             q == Queue(S)
  <1>1. n \in Nat
    BY FS_CardinalityType
  <1>2. q \in [1..n -> S] /\ Ascending(q)
    BY <1>1, Sortable DEF Queue
  <1>3. q \in Injection(1..n, S)
    <2> SUFFICES ASSUME NEW i \in 1..n, NEW j \in 1..n, q[i] = q[j] PROVE i = j
      BY <1>2 DEF Injection, IsInjective
    <2>1. q[i] \in Nat
      BY <1>2
    <2>2. (i < j => q[i] < q[j]) /\ (j < i => q[j] < q[i])
      BY <1>2 DEF Ascending
    <2> QED BY <1>1, <2>1, <2>2
  <1>4. Cardinality(1..n) = n
    BY <1>1, FS_Interval
  <1>5. q \in Surjection(1..n, S)
    BY <1>3, <1>4, FS_Injection
  <1>6. ToSet(q) = S
    BY <1>2, <1>5 DEF ToSet, Surjection
  <1>7. q \in Seq(S)
    BY <1>1, <1>2
  <1> QED BY <1>2, <1>6, <1>7

\* A dispatch begins with every handler there is, in order.
LEMMA FrameSound ==
  ASSUME Registry, InStep
  PROVE  Frame \in Frames /\ Sound(Frame)
  <1> USE WidthAssumption
  <1>1. IsFiniteSet(Ids) /\ Ids \in SUBSET Nat
    <2>1. IsFiniteSet(0..(Width - 1)) /\ 0 \in Int /\ Width - 1 \in Int
      BY FS_Interval
    <2>2. IsFiniteSet(Ids)
      BY <2>1, FS_Subset DEF Registry
    <2>3. Ids \in SUBSET Nat
      BY DEF Registry
    <2> QED BY <2>2, <2>3
  <1> DEFINE q == Queue(Ids)
             rest == [i \in DOMAIN q |-> handlers[q[i]]]
  <1>2. q \in Seq(Ids) /\ Ascending(q) /\ ToSet(q) = Ids
    BY <1>1, QueueSorts
  <1> HIDE DEF q
  <1>3. PICK n \in Nat : q \in [1..n -> Ids]
    BY <1>2
  <1>4. rest \in [1..n -> Nat]
    <2>1. \A id \in Ids : handlers[id] \in Nat
      BY DEF Registry
    <2> QED BY <1>3, <2>1
  <1>5. rest \in Seq(Nat)
    BY <1>3, <1>4
  <1>6. Frame = [rest |-> rest, called |-> <<>>, kept |-> {handlers[id] : id \in Ids}]
    BY DEF Frame, q
  <1>7. All(Frame) = rest
    BY <1>5, <1>6, ConcatEmptySeq DEF All
  <1>8. Frame.kept \subseteq ToSet(rest)
    BY <1>2, <1>6 DEF ToSet
  <1>9. Narrow => Ascending(rest)
    BY <1>2, <1>3 DEF InStep, Ascending
  <1>10. Frame \in Frames
    <2>1. \A id \in Ids : handlers[id] \in Nat
      BY DEF Registry
    <2>2. {handlers[id] : id \in Ids} \in SUBSET Nat
      BY <2>1
    <2>3. <<>> \in Seq(Nat)
      OBVIOUS
    <2> QED BY ONLY <1>5, <1>6, <2>2, <2>3 DEF Frames
  <1> QED BY <1>7, <1>8, <1>9, <1>10 DEF Sound

-----------------------------------------------------------------------------
\* No handler, no dispatch.
LEMMA InvInit == Init => Inv
  <1> SUFFICES ASSUME Init PROVE Inv
    OBVIOUS
  <1> USE WidthAssumption, BoundsAssumption DEF Init
  <1>1. Registry
    BY DEF Registry, Ids
  <1>2. Bounded
    <2>1. {g \in Goroutines : wants[g] = "add"} = {}
      OBVIOUS
    <2>2. Adding = 0
      BY <2>1, FS_EmptySet DEF Adding
    <2> QED BY <2>2 DEF Bounded
  <1>3. InStep /\ AllSound
    BY DEF InStep, Ids, AllSound
  <1> QED BY <1>1, <1>2, <1>3 DEF Inv

\* What a change of the handlers leaves of the dispatches under way.
LEMMA Forgotten ==
  ASSUME Registry, AllSound, NEW gone, Forget(gone)
  PROVE  stack' \in [Goroutines -> Seq(Frames)] /\ AllSound'
  <1> USE DEF Registry
  <1> DEFINE left(f) == [f EXCEPT !.kept = @ \ gone]
  <1>1. stack' = [g \in Goroutines |-> [i \in DOMAIN stack[g] |-> left(stack[g][i])]]
    BY DEF Forget
  <1>2. ASSUME NEW f \in Frames, Sound(f) PROVE left(f) \in Frames /\ Sound(left(f))
    <2>1. left(f) \in Frames /\ All(left(f)) = All(f) /\ left(f).kept \subseteq f.kept
      BY DEF Frames, All
    <2> QED BY <1>2, <2>1 DEF Sound
  <1>3. ASSUME NEW g \in Goroutines
        PROVE  /\ stack'[g] \in Seq(Frames)
               /\ \A i \in DOMAIN stack'[g] : Sound(stack'[g][i])
    <2>1. PICK n \in Nat : stack[g] \in [1..n -> Frames]
      OBVIOUS
    <2>2. \A i \in 1..n : left(stack[g][i]) \in Frames /\ Sound(left(stack[g][i]))
      BY <1>2, <2>1 DEF AllSound
    <2> HIDE DEF left
    <2>3. stack'[g] \in [1..n -> Frames] /\ \A i \in 1..n : Sound(stack'[g][i])
      BY <1>1, <2>1, <2>2
    <2> QED BY <2>3
  <1> HIDE DEF left
  <1> QED BY <1>1, <1>3 DEF AllSound

\* A stack that changes at its top only.
LEMMA TopStep ==
  ASSUME Inv, NEW g \in Goroutines, NEW s \in Seq(Frames),
         \A i \in DOMAIN s : Sound(s[i]),
         stack' = [stack EXCEPT ![g] = s], UNCHANGED <<handlers, nextID, added, wants>>
  PROVE  Inv'
  <1> USE DEF Inv
  <1>1. Registry'
    BY DEF Registry, Ids
  <1>2. Bounded' /\ InStep'
    BY DEF Bounded, Adding, InStep, Ids
  <1>3. AllSound'
    BY DEF Registry, AllSound
  <1> QED BY <1>1, <1>2, <1>3

\* A dispatch begins with a snapshot that owes what is in it.
LEMMA DispatchStep == ASSUME Inv, NEW g \in Goroutines, Dispatch(g) PROVE Inv'
  <1> DEFINE s == Append(stack[g], Frame)
  <1>1. Frame \in Frames /\ Sound(Frame)
    BY FrameSound DEF Inv
  <1>2. stack[g] \in Seq(Frames) /\ \A i \in DOMAIN stack[g] : Sound(stack[g][i])
    BY DEF Inv, Registry, AllSound
  <1>3. s \in Seq(Frames) /\ \A i \in DOMAIN s : Sound(s[i])
    BY <1>1, <1>2, AppendProperties
  <1>4. stack' = [stack EXCEPT ![g] = s] /\ UNCHANGED <<handlers, nextID, added, wants>>
    BY DEF Dispatch, Inv, Registry
  <1> HIDE DEF s
  <1> QED BY <1>3, <1>4, TopStep

\* Calling the next of a queue leaves the whole as it is.
LEMMA CallsNext ==
  ASSUME NEW c \in Seq(Nat), NEW r \in Seq(Nat), r # <<>>
  PROVE  Append(c, Head(r)) \o Tail(r) = c \o r
  <1>1. Head(r) \in Nat /\ Tail(r) \in Seq(Nat) /\ r = <<Head(r)>> \o Tail(r)
    BY HeadTailProperties
  <1>2. Append(c, Head(r)) = c \o <<Head(r)>>
    BY <1>1, AppendIsConcat
  <1>3. <<Head(r)>> \in Seq(Nat)
    BY <1>1
  <1>4. (c \o <<Head(r)>>) \o Tail(r) = c \o (<<Head(r)>> \o Tail(r))
    BY <1>1, <1>3, ConcatAssociative
  <1> QED BY <1>1, <1>2, <1>4

\* The handler that is called moves from what is left to what was called.
LEMMA CallStep == ASSUME Inv, NEW g \in Goroutines, CallNext(g) PROVE Inv'
  <1> DEFINE f == Top(g)
             f1 == [f EXCEPT !.rest = Tail(f.rest), !.called = Append(@, Head(f.rest))]
             s == Append(Front(stack[g]), f1)
  <1>1. /\ stack[g] # <<>> /\ f.rest # <<>>
        /\ stack' = [stack EXCEPT ![g] = s] /\ UNCHANGED <<handlers, nextID, added, wants>>
    BY DEF CallNext, After
  <1>2. stack[g] \in Seq(Frames) /\ \A i \in DOMAIN stack[g] : Sound(stack[g][i])
    BY DEF Inv, Registry, AllSound
  <1>3. /\ Front(stack[g]) \in Seq(Frames)
        /\ \A i \in DOMAIN Front(stack[g]) : Sound(Front(stack[g])[i])
        /\ f \in Frames /\ Sound(f)
    BY <1>1, <1>2 DEF Front, Top, Last
  <1>4. /\ f1 \in Frames /\ f1.kept = f.kept
        /\ f1.rest = Tail(f.rest) /\ f1.called = Append(f.called, Head(f.rest))
    <2>1. f.called \in Seq(Nat) /\ f.rest \in Seq(Nat)
      BY <1>3 DEF Frames
    <2>2. Tail(f.rest) \in Seq(Nat) /\ Append(f.called, Head(f.rest)) \in Seq(Nat)
      BY <1>1, <2>1, HeadTailProperties, AppendProperties
    <2> QED BY <1>3, <2>2 DEF Frames
  <1>5. All(f1) = All(f)
    <2>1. f.called \in Seq(Nat) /\ f.rest \in Seq(Nat) /\ f.rest # <<>>
      BY <1>1, <1>3 DEF Frames
    <2> QED BY <1>4, <2>1, CallsNext DEF All
  <1>6. Sound(f1)
    BY <1>3, <1>4, <1>5 DEF Sound
  <1> HIDE DEF f1
  <1>7. s \in Seq(Frames) /\ \A i \in DOMAIN s : Sound(s[i])
    BY <1>3, <1>4, <1>6, AppendProperties
  <1> HIDE DEF s
  <1> QED BY <1>1, <1>7, TopStep

\* A dispatch that has nothing left to call ends.
LEMMA EndStep == ASSUME Inv, NEW g \in Goroutines, DispatchEnds(g) PROVE Inv'
  <1> DEFINE s == Front(stack[g])
  <1>1. stack[g] \in Seq(Frames) /\ \A i \in DOMAIN stack[g] : Sound(stack[g][i])
    BY DEF Inv, Registry, AllSound
  <1>2. /\ stack[g] # <<>>
        /\ stack' = [stack EXCEPT ![g] = s] /\ UNCHANGED <<handlers, nextID, added, wants>>
    BY DEF DispatchEnds, Inv, Registry
  <1>3. s \in Seq(Frames) /\ \A i \in DOMAIN s : Sound(s[i])
    BY <1>1, <1>2 DEF Front
  <1> HIDE DEF s
  <1> QED BY <1>2, <1>3, TopStep

\* Below the bound there is room for one more.
LEMMA NoMore ==
  ASSUME NEW a \in Nat, NEW n \in Nat, NEW m \in Nat, NEW bound \in Nat, a + n <= bound
  PROVE  /\ m \in {n, n - 1} => a + m <= bound
         /\ a + n < bound /\ m \in {n, n + 1} => a + m <= bound
  OBVIOUS

\* How a change of mind changes the number of additions under way.
LEMMA AddingChanges ==
  ASSUME Registry, NEW g \in Goroutines, NEW w, wants' = [wants EXCEPT ![g] = w]
  PROVE  /\ Adding \in Nat /\ Adding' \in Nat
         /\ w = "add" => Adding' \in {Adding, Adding + 1}
         /\ w # "add" => Adding' \in {Adding, Adding - 1}
         /\ w # "add" /\ wants[g] = "add" => Adding' = Adding - 1
  <1> DEFINE A == {h \in Goroutines : wants[h] = "add"}
             B == {h \in Goroutines : wants'[h] = "add"}
  <1>1. IsFiniteSet(A) /\ IsFiniteSet(B)
    BY GoroutinesAssumption, FS_Subset
  <1>2. /\ w = "add" => B = A \cup {g}
        /\ w # "add" => B = A \ {g}
        /\ g \in A <=> wants[g] = "add"
    BY DEF Registry
  <1>3. Adding = Cardinality(A) /\ Adding' = Cardinality(B)
    BY DEF Adding
  <1> HIDE DEF A, B
  <1>4. Cardinality(A) \in Nat /\ Cardinality(B) \in Nat
    BY <1>1, FS_CardinalityType
  <1>5. Cardinality(A \cup {g}) = (IF g \in A THEN Cardinality(A) ELSE Cardinality(A) + 1)
    BY <1>1, FS_AddElement
  <1>6. Cardinality(A \ {g}) = (IF g \in A THEN Cardinality(A) - 1 ELSE Cardinality(A))
    BY <1>1, FS_RemoveElement
  <1> QED BY <1>2, <1>3, <1>4, <1>5, <1>6

\* A handler, or an idle goroutine, sets out to change the registry.
LEMMA WantStep == ASSUME Inv, NEW g \in Goroutines, Want(g) PROVE Inv'
  <1> USE DEF Inv
  <1>1. PICK w \in {"add", "remove", "clear"} :
          /\ w = "add" => added + Adding < MaxAdds
          /\ wants' = [wants EXCEPT ![g] = w]
    BY DEF Want
  <1>2. UNCHANGED <<handlers, nextID, added, stack>>
    BY DEF Want
  <1>3. Registry'
    BY <1>1, <1>2 DEF Registry, Ids
  <1>4. Bounded'
    <2>1. added \in Nat /\ MaxAdds \in Nat /\ added + Adding <= MaxAdds
      BY BoundsAssumption DEF Registry, Bounded
    <2>2. /\ Adding \in Nat /\ Adding' \in Nat
          /\ w = "add" => Adding' \in {Adding, Adding + 1}
          /\ w # "add" => Adding' \in {Adding, Adding - 1}
      BY <1>1, AddingChanges
    <2>3. added' = added
      BY <1>2
    <2>4. added' + Adding' <= MaxAdds
      <3>1. CASE w = "add"
        BY <1>1, <2>1, <2>2, <2>3, <3>1, NoMore
      <3>2. CASE w # "add"
        BY <2>1, <2>2, <2>3, <3>2, NoMore
      <3> QED BY <3>1, <3>2
    <2> QED BY <2>2, <2>4 DEF Bounded
  <1>5. InStep' /\ AllSound'
    BY <1>2 DEF InStep, Ids, AllSound
  <1> QED BY <1>3, <1>4, <1>5

\* The counter goes on by one, as long as it does not wrap.
LEMMA Follows ==
  ASSUME NEW id \in 0..(Width - 1)
  PROVE  /\ Following(id) \in 0..(Width - 1)
         /\ id + 1 < Width => Following(id) = id + 1
  BY WidthAssumption DEF Following

\* A handler is added: below the wrap its id is new.
LEMMA AddStep == ASSUME Inv, NEW g \in Goroutines, AddEventHandler(g) PROVE Inv'
  <1> USE DEF Inv
  <1>1. /\ wants[g] = "add" /\ wants' = [wants EXCEPT ![g] = "nothing"]
        /\ nextID' = Following(nextID) /\ added' = added + 1
        /\ handlers' = [id \in Ids \cup {nextID'} |->
                            IF id = nextID' THEN added' ELSE handlers[id]]
        /\ Forget({handlers[id] : id \in Ids \cap {nextID'}})
    BY DEF AddEventHandler, Done
  <1>2. stack' \in [Goroutines -> Seq(Frames)] /\ AllSound'
    BY <1>1, Forgotten
  <1>3. /\ nextID \in 0..(Width - 1) /\ added \in Nat /\ Width \in Nat /\ MaxAdds \in Nat
        /\ nextID' \in 0..(Width - 1) /\ (nextID + 1 < Width => nextID' = nextID + 1)
    BY <1>1, Follows, WidthAssumption, BoundsAssumption DEF Registry
  <1>4. Ids' = Ids \cup {nextID'}
    BY <1>1 DEF Ids
  <1>5. Bounded' /\ added' <= MaxAdds
    <2>1. Adding \in Nat /\ Adding' \in Nat /\ Adding' = Adding - 1
      <3>1. "nothing" # "add"
        OBVIOUS
      <3> QED BY <1>1, <3>1, AddingChanges, Zenon
    <2> QED BY <1>1, <1>3, <2>1 DEF Bounded
  <1>6. Registry'
    <2>1. \A id \in Ids' : handlers'[id] \in 1..added'
      BY <1>1, <1>3, <1>4 DEF Registry
    <2>2. Ids' \subseteq 0..(Width - 1)
      BY <1>3, <1>4 DEF Registry
    <2>3. /\ wants' \in [Goroutines -> {"nothing", "add", "remove", "clear"}]
          /\ added' \in Nat
      BY <1>1, <1>3 DEF Registry
    <2> QED BY <1>2, <1>3, <2>1, <2>2, <2>3 DEF Registry
  <1>7. InStep'
    <2> SUFFICES ASSUME Narrow
                 PROVE  nextID' = added' /\ \A id \in Ids' : handlers'[id] = id
      BY DEF InStep, Narrow
    <2>1. nextID = added /\ \A id \in Ids : handlers[id] = id
      BY DEF InStep
    <2>2. nextID' = added'
      BY <1>1, <1>3, <1>5, <2>1 DEF Narrow
    <2> QED BY <1>1, <1>4, <2>1, <2>2
  <1> QED BY <1>2, <1>5, <1>6, <1>7

\* Removing handlers leaves the others and the dispatches of the others alone.
LEMMA RemoveStep ==
  ASSUME Inv, NEW g \in Goroutines, RemoveEventHandler(g) \/ RemoveEventHandlers(g)
  PROVE  Inv'
  <1> USE DEF Inv
  <1>1. PICK some \in SUBSET Ids, gone \in SUBSET Nat :
          handlers' = [i \in some |-> handlers[i]] /\ Forget(gone)
    <2>1. CASE RemoveEventHandler(g)
      <3>1. \A id \in Ids : handlers[id] \in Nat
        BY DEF Registry
      <3> QED BY <2>1, <3>1 DEF RemoveEventHandler
    <2>2. CASE RemoveEventHandlers(g)
      <3>0. \A id \in Ids : handlers[id] \in Nat
        BY DEF Registry
      <3>1. handlers' = [i \in {} |-> handlers[i]] /\ Forget({handlers[id] : id \in Ids})
        BY <2>2 DEF RemoveEventHandlers
      <3> QED BY <3>0, <3>1
    <2> QED BY <2>1, <2>2
  <1>2. stack' \in [Goroutines -> Seq(Frames)] /\ AllSound'
    BY <1>1, Forgotten
  <1>3. /\ UNCHANGED <<nextID, added>> /\ wants' = [wants EXCEPT ![g] = "nothing"]
        /\ Ids' \subseteq Ids /\ \A id \in Ids' : handlers'[id] = handlers[id]
    BY <1>1 DEF RemoveEventHandler, RemoveEventHandlers, Done, Ids
  <1>4. Registry'
    BY <1>2, <1>3 DEF Registry
  <1>5. Bounded'
    <2>1. Adding \in Nat /\ Adding' \in Nat /\ Adding' \in {Adding, Adding - 1}
      <3>1. PICK w \in {"nothing"} : wants' = [wants EXCEPT ![g] = w]
        BY <1>3
      <3>2. w # "add"
        OBVIOUS
      <3>3. /\ Adding \in Nat /\ Adding' \in Nat
            /\ w # "add" => Adding' \in {Adding, Adding - 1}
        BY <3>1, AddingChanges
      <3> QED BY <3>2, <3>3
    <2>2. added \in Nat /\ MaxAdds \in Nat /\ added + Adding <= MaxAdds
      BY BoundsAssumption DEF Registry, Bounded
    <2>3. added' = added
      BY <1>3
    <2>4. added' + Adding' <= MaxAdds
      BY <2>1, <2>2, <2>3, NoMore
    <2> QED BY <2>1, <2>4 DEF Bounded
  <1>6. InStep'
    BY <1>3 DEF InStep
  <1> QED BY <1>2, <1>4, <1>5, <1>6

\* Every step keeps Inv.
LEMMA InvStep == Inv /\ [Next]_vars => Inv'
  <1> SUFFICES ASSUME Inv, [Next]_vars PROVE Inv'
    OBVIOUS
  <1>1. ASSUME NEW g \in Goroutines, Dispatch(g) PROVE Inv'
    BY <1>1, DispatchStep
  <1>2. ASSUME NEW g \in Goroutines, CallNext(g) PROVE Inv'
    BY <1>2, CallStep
  <1>3. ASSUME NEW g \in Goroutines, DispatchEnds(g) PROVE Inv'
    BY <1>3, EndStep
  <1>4. ASSUME NEW g \in Goroutines, Want(g) PROVE Inv'
    BY <1>4, WantStep
  <1>5. ASSUME NEW g \in Goroutines, Change(g) PROVE Inv'
    BY <1>5, AddStep, RemoveStep DEF Change
  <1>6. CASE UNCHANGED vars
    BY <1>6 DEF vars, Inv, Registry, Ids, Bounded, Adding, InStep, AllSound
  <1> QED BY <1>1, <1>2, <1>3, <1>4, <1>5, <1>6 DEF Next

\* Inv holds in every reachable state.
LEMMA Invariance == Spec => []Inv
  BY InvInit, InvStep, PTL DEF Spec

-----------------------------------------------------------------------------
\* Every dispatch calls handlers in the order of their addition and none twice
\* (govka.go 72, 182-196), for as long as the ids of the additions, 2^32 in the
\* code, do not run out.
THEOREM InOrder == ASSUME MaxAdds < Width PROVE Spec => []InOrderOnce
  <1>1. Inv => InOrderOnce
    BY DEF Inv, AllSound, Sound, Narrow, All, InOrderOnce
  <1> QED BY <1>1, Invariance, PTL

\* A dispatch that ends has called every handler that was there from beginning to
\* end (govka.go 182-206), also when the ids wrap.
THEOREM AllCalled == Spec => []NobodyMissed
  <1>1. Inv => NobodyMissed
    <2> SUFFICES ASSUME Inv, NEW g \in Goroutines, stack[g] # <<>>, Top(g).rest = <<>>
                 PROVE  Top(g).kept \subseteq ToSet(Top(g).called)
      BY DEF NobodyMissed
    <2>1. stack[g] \in Seq(Frames) /\ \A i \in DOMAIN stack[g] : Sound(stack[g][i])
      BY DEF Inv, Registry, AllSound
    <2>2. Top(g) \in Frames /\ Sound(Top(g))
      BY <2>1 DEF Top, Last
    <2>3. All(Top(g)) = Top(g).called
      BY <2>2, ConcatEmptySeq DEF All, Frames
    <2> QED BY <2>2, <2>3 DEF Sound
  <1> QED BY <1>1, Invariance, PTL
=============================================================================
