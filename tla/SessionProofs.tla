-------------------------- MODULE SessionProofs --------------------------
(***************************************************************************)
(* Proofs about how a session is kept.  First FileStorage, for any         *)
(* goroutines, any File values for the path, in one process or in several, *)
(* and any sessions: the path is only ever replaced by what a rename puts  *)
(* there, so what a temporary file holds at that moment (WholeWhenRenamed) *)
(* decides whether File is a register; for that nobody else may have a     *)
(* file of the same name (NamesOwn).  The mutex matters for goroutines of  *)
(* one File (Exclusion).                                                   *)
(*                                                                         *)
(* Then Echo, the program that stores the session, and the Login it        *)
(* contains, for any requests and callbacks: a callback that was let in    *)
(* was looked at before (LetIn), what Login returns rests on the callback  *)
(* it took (ResultEarned), and every session that is about can be          *)
(* refreshed if it has a refresh token (Refreshable, SessionsWhole).       *)
(***************************************************************************)
EXTENDS FileStorage, Echo, TLAPS

Inside(g) == pc[g] \notin {"idle", "store", "load"}

\* The mutex of a File belongs to the goroutine that is inside.
Exclusion == /\ \A g \in Goroutines : Inside(g) => mu[FileOf(g)] = g
             /\ \A f \in Files : mu[f] # NotFound => FileOf(mu[f]) = f

\* A goroutine has a temporary file from its creation to its end, and no other
\* goroutine has that file.
NamesOwn ==
    /\ \A g \in Goroutines :
         /\ name[g] # NotFound <=>
              pc[g] \in {"chmod", "write", "writing", "close", "rename", "cleanup"}
         /\ name[g] # NotFound => disk[name[g]] # NotFound
    /\ \A g, h \in Goroutines : name[g] = name[h] => g = h \/ name[g] = NotFound

\* A temporary file that is going to be renamed has the whole session.
WholeWhenRenamed ==
    \A g \in Goroutines : pc[g] \in {"close", "rename"} => disk[name[g]] = arg[g]

\* A session to be stored is there as long as it is stored.
Given == \A g \in Goroutines : pc[g] \in Storing => arg[g] \in Data

\* Goroutines of one File are never inside together.
OneInside ==
    \A g, h \in Goroutines : Inside(g) /\ Inside(h) /\ FileOf(g) = FileOf(h) => g = h

Inv == TypeOK /\ Exclusion /\ NamesOwn /\ WholeWhenRenamed /\ Given

-----------------------------------------------------------------------------
\* Every step keeps the types, given who is inside.
LEMMA TypeStep == Inv /\ [Next]_vars => TypeOK'
  <1> SUFFICES ASSUME Inv, [Next]_vars PROVE TypeOK'
    OBVIOUS
  <1> USE FileOfAssumption, ContentsAssumption, FreeAssumption
      DEF Inv, TypeOK, Contents, Goto, Inside, Exclusion
  <1>1. ASSUME NEW g \in Goroutines, CallStore(g) PROVE TypeOK'
    BY <1>1 DEF CallStore
  <1>2. ASSUME NEW g \in Goroutines, CallLoad(g) PROVE TypeOK'
    BY <1>2 DEF CallLoad
  <1>3. ASSUME NEW g \in Goroutines, Lock(g) PROVE TypeOK'
    BY <1>3 DEF Lock
  <1>4. ASSUME NEW g \in Goroutines, CreateTemp(g) PROVE TypeOK'
    BY <1>4 DEF CreateTemp
  <1>5. ASSUME NEW g \in Goroutines, ChmodOrClose(g) \/ WriteSome(g) PROVE TypeOK'
    BY <1>5 DEF ChmodOrClose, WriteSome, PathWhile
  <1>6. ASSUME NEW g \in Goroutines, WriteRest(g) PROVE TypeOK'
    <2>1. name[g] \in Names /\ arg[g] \in Contents
      BY <1>6 DEF WriteRest, NamesOwn
    <2>2. disk' \in [Names -> Contents]
      BY <1>6, <2>1 DEF WriteRest
    <2> QED BY <1>6, <2>2 DEF WriteRest
  <1>7. ASSUME NEW g \in Goroutines, StoreFails(g) PROVE TypeOK'
    BY <1>7 DEF StoreFails, AfterFailure
  <1>c. ASSUME NEW g \in Goroutines, Cleanup(g) \/ RemoveFails(g) PROVE TypeOK'
    BY <1>c DEF Cleanup, RemoveFails
  <1>8. ASSUME NEW g \in Goroutines, Rename(g) PROVE TypeOK'
    BY <1>8 DEF Rename, NamesOwn
  <1>9. ASSUME NEW g \in Goroutines, Read(g) PROVE TypeOK'
    BY <1>9 DEF Read
  <1>f. ASSUME NEW g \in Goroutines, ReadFails(g) PROVE TypeOK'
    BY <1>f DEF ReadFails
  <1>10. ASSUME NEW g \in Goroutines, Return(g) PROVE TypeOK'
    BY <1>10 DEF Return, Unlocked
  <1>11. ASSUME NEW f \in Files, Crash(f) PROVE TypeOK'
    BY <1>11 DEF Crash
  <1>12. CASE UNCHANGED vars
    BY <1>12 DEF vars
  <1> QED
    BY <1>1, <1>2, <1>3, <1>4, <1>5, <1>6, <1>7, <1>c, <1>8, <1>9, <1>f, <1>10,
       <1>11, <1>12
    DEF Next, CallStep, StoreStep

\* Initially the file has a session or is not there, and nobody is inside.
LEMMA InvInit == Init => Inv
  BY ContentsAssumption
  DEF Init, Inv, TypeOK, Contents, Exclusion, NamesOwn, WholeWhenRenamed, Given, Inside,
      Storing

\* Every step keeps the mutex with the goroutine inside and names apart, and
\* brings only what is whole to a rename.
LEMMA InvStep == Inv /\ [Next]_vars => Inv'
  <1> SUFFICES ASSUME Inv, [Next]_vars PROVE Inv'
    OBVIOUS
  <1>t. TypeOK'
    BY TypeStep
  <1> USE FileOfAssumption, ContentsAssumption, FreeAssumption, <1>t
      DEF Inv, TypeOK, Exclusion, NamesOwn, WholeWhenRenamed, Given, Storing, Inside, Goto
  <1>1. ASSUME NEW g \in Goroutines, CallStore(g) \/ CallLoad(g) PROVE Inv'
    BY <1>1 DEF CallStore, CallLoad
  <1>2. ASSUME NEW g \in Goroutines, Lock(g) PROVE Inv'
    BY <1>2 DEF Lock
  <1>3. ASSUME NEW g \in Goroutines, CreateTemp(g) PROVE Inv'
    BY <1>3 DEF CreateTemp
  <1>4. ASSUME NEW g \in Goroutines, ChmodOrClose(g) \/ WriteSome(g) \/ WriteRest(g) PROVE Inv'
    BY <1>4 DEF ChmodOrClose, WriteSome, PathWhile, WriteRest
  <1>5. ASSUME NEW g \in Goroutines, StoreFails(g) PROVE Inv'
    BY <1>5 DEF StoreFails, AfterFailure
  <1>c. ASSUME NEW g \in Goroutines, Cleanup(g) \/ RemoveFails(g) PROVE Inv'
    BY <1>c DEF Cleanup, RemoveFails
  <1>6. ASSUME NEW g \in Goroutines, Rename(g) \/ Read(g) \/ ReadFails(g) PROVE Inv'
    BY <1>6 DEF Rename, Read, ReadFails
  <1>7. ASSUME NEW g \in Goroutines, Return(g) PROVE Inv'
    BY <1>7 DEF Return, Unlocked
  <1>8. ASSUME NEW f \in Files, Crash(f) PROVE Inv'
    BY <1>8 DEF Crash
  <1>9. CASE UNCHANGED vars
    BY <1>9 DEF vars
  <1> QED
    BY <1>1, <1>2, <1>3, <1>4, <1>5, <1>c, <1>6, <1>7, <1>8, <1>9
    DEF Next, CallStep, StoreStep

\* Inv holds in every state of every behaviour.
LEMMA Invariance == Spec => []Inv
  BY InvInit, InvStep, PTL DEF Spec

\* Type correctness: every variable keeps its type, and who holds a mutex is in a
\* call (storage.go 41-97).
THEOREM TypeCorrect == Spec => []TypeOK
  <1>1. Inv => TypeOK
    BY DEF Inv
  <1> QED BY <1>1, Invariance, PTL

\* A temporary file that has nobody stays where it is until it has a name again,
\* and only a step that lets go of a name while the file is there adds one.
LEMMA LitterStep ==
  ASSUME Inv, NEW g \in Goroutines,
         \/ CallStore(g) \/ CallLoad(g) \/ Lock(g) \/ Read(g) \/ ReadFails(g) \/ Return(g)
         \/ CreateTemp(g) \/ ChmodOrClose(g) \/ WriteSome(g) \/ WriteRest(g)
         \/ Rename(g) \/ StoreFails(g) \/ Cleanup(g)
  PROVE  Litter' \subseteq Litter
  <1> USE DEF Inv, TypeOK, NamesOwn, Litter
  <1>1. CASE \/ CallStore(g) \/ CallLoad(g) \/ Lock(g) \/ Read(g) \/ ReadFails(g)
             \/ ChmodOrClose(g) \/ WriteSome(g) \/ StoreFails(g)
    BY <1>1 DEF CallStore, CallLoad, Lock, Read, ReadFails, ChmodOrClose, WriteSome, StoreFails
  <1>2. CASE Return(g)
    <2>1. name[g] = NotFound
      BY <1>2 DEF Return, Goto
    <2> QED BY <1>2, <2>1 DEF Return
  <1>3. CASE CreateTemp(g)
    <2>1. CASE UNCHANGED <<disk, name>>
      BY <2>1
    <2>2. CASE Goto(g, "create", "chmod")
      <3>1. PICK n \in Names : /\ disk' = [disk EXCEPT ![n] = Torn]
                               /\ name' = [name EXCEPT ![g] = n]
        BY <1>3, <2>2 DEF CreateTemp, Goto
      <3>2. name[g] = NotFound
        BY <2>2 DEF Goto
      <3> QED BY <3>1, <3>2, FreeAssumption
    <2> QED BY <1>3, <2>1, <2>2 DEF CreateTemp
  <1>4. CASE WriteRest(g)
    <2>1. /\ name' = name
          /\ \A n \in Names : disk'[n] # NotFound => disk[n] # NotFound \/ n = name[g]
      BY <1>4 DEF WriteRest
    <2> QED BY <2>1
  <1>5. CASE Rename(g)
    BY <1>5 DEF Rename, Goto
  <1>6. CASE Cleanup(g)
    BY <1>6 DEF Cleanup, Goto
  <1> QED BY <1>1, <1>2, <1>3, <1>4, <1>5, <1>6

\* An error at any system call leaves no temporary file to nobody, unless it
\* cannot be removed either; else only a process that dies does (storage.go 69-93).
THEOREM NothingLeft == Spec => NoLeftovers
  <1> DEFINE Step == \/ Litter' \subseteq Litter
                     \/ \E f \in Files : Crash(f)
                     \/ \E g \in Goroutines : RemoveFails(g)
  <1>1. Inv /\ [Next]_vars => [Step]_vars
    <2>1. ASSUME Inv, NEW g \in Goroutines,
                 CallStore(g) \/ CallLoad(g) \/ Lock(g) \/ CallStep(g)
          PROVE  Step
      BY <2>1, LitterStep DEF CallStep, StoreStep
    <2>2. ASSUME NEW f \in Files, Crash(f) PROVE Step
      BY <2>2
    <2> QED BY <2>1, <2>2 DEF Next
  <1> HIDE DEF Step
  <1>2. Spec => [][Step]_vars
    BY <1>1, Invariance, PTL DEF Spec
  <1> QED BY <1>2 DEF NoLeftovers, Step

\* File.mu keeps goroutines that use one File apart, on every way out and when
\* another process dies (storage.go 42-43, 56-57).
THEOREM MutualExclusion == Spec => []OneInside
  <1>1. Inv => OneInside
    BY DEF Inv, Exclusion, OneInside
  <1> QED BY <1>1, Invariance, PTL

-----------------------------------------------------------------------------
\* Moving a goroutine from one step to another moves its operation alone.
LEMMA OperationOf ==
  ASSUME TypeOK, NEW g \in Goroutines, NEW from, NEW to, Goto(g, from, to)
  PROVE  /\ \A h \in Goroutines \ {g} : Operation'[h] = Operation[h]
         /\ Operation[g] =
                IF from \in Storing THEN "storing"
                ELSE IF from \in {"load", "read"} THEN "loading" ELSE from
         /\ Operation'[g] =
                IF to \in Storing THEN "storing"
                ELSE IF to \in {"load", "read"} THEN "loading" ELSE to
  BY DEF TypeOK, Goto, Operation

\* What changes the operation of one goroutine, as a function.
LEMMA OperationMoved ==
  ASSUME TypeOK, NEW g \in Goroutines, NEW op,
         \A h \in Goroutines \ {g} : Operation'[h] = Operation[h],
         Operation'[g] = op
  PROVE  Operation' = [Operation EXCEPT ![g] = op]
  BY DEF Operation

\* A step of one goroutine is a step of the register, or changes nothing there.
LEMMA CallRegisters ==
  ASSUME Inv, NEW g \in Goroutines,
         CallStore(g) \/ CallLoad(g) \/ Lock(g) \/ CallStep(g)
  PROVE  [Register!Next]_(Register!vars)
  <1> USE DEF Inv, TypeOK, Storing
  <1>s. ASSUME UNCHANGED <<path, arg, got>>, Operation' = Operation
        PROVE  UNCHANGED Register!vars
    BY <1>s DEF Register!vars
  <1>k. ASSUME \A h \in Goroutines : Operation'[h] = Operation[h]
        PROVE  Operation' = Operation
    BY <1>k DEF Operation
  <1>1. CASE CallStore(g)
    <2>1. Operation[g] = "idle" /\ Operation' = [Operation EXCEPT ![g] = "storing"]
      BY <1>1, OperationOf, OperationMoved DEF CallStore
    <2> QED BY <1>1, <2>1 DEF CallStore, Register!Next, Register!CallStore, Register!Call
  <1>2. CASE CallLoad(g)
    <2>1. Operation[g] = "idle" /\ Operation' = [Operation EXCEPT ![g] = "loading"]
      BY <1>2, OperationOf, OperationMoved DEF CallLoad
    <2> QED BY <1>2, <2>1 DEF CallLoad, Register!Next, Register!CallLoad, Register!Call
  <1>3. CASE Lock(g)
    <2>1. \A h \in Goroutines : Operation'[h] = Operation[h]
      <3>1. CASE Goto(g, "store", "create")
        BY <3>1, OperationOf
      <3>2. CASE Goto(g, "load", "read")
        BY <3>2, OperationOf
      <3> QED BY <1>3, <3>1, <3>2 DEF Lock
    <2> QED BY <1>3, <2>1, <1>k, <1>s DEF Lock
  <1>4. CASE CreateTemp(g) /\ Goto(g, "create", "chmod")
    <2>1. \A h \in Goroutines : Operation'[h] = Operation[h]
      BY <1>4, OperationOf
    <2> QED BY <1>4, <2>1, <1>k, <1>s DEF CreateTemp
  <1>5. CASE \/ CreateTemp(g) /\ Goto(g, "create", "failed")
             \/ Cleanup(g) \/ RemoveFails(g) \/ ReadFails(g)
    <2>1. \/ Goto(g, "create", "failed")
          \/ Goto(g, "cleanup", "failed")
          \/ Goto(g, "read", "failed")
      BY <1>5 DEF Cleanup, RemoveFails, ReadFails
    <2>2. Operation[g] \in {"storing", "loading"} /\ Operation' = [Operation EXCEPT ![g] = "failed"]
      BY <2>1, OperationOf, OperationMoved
    <2> QED BY <1>5, <2>2
      DEF CreateTemp, Cleanup, RemoveFails, ReadFails, Register!Next, Register!Fails
  <1>6. CASE ChmodOrClose(g) \/ WriteSome(g) \/ WriteRest(g) \/ StoreFails(g)
    <2>1. \A h \in Goroutines : Operation'[h] = Operation[h]
      <3>1. PICK from \in {"chmod", "write", "writing", "close", "rename"},
                 to \in {"write", "writing", "close", "rename", "cleanup"} : Goto(g, from, to)
        BY <1>6 DEF ChmodOrClose, WriteSome, WriteRest, StoreFails, AfterFailure
      <3> QED BY <3>1, OperationOf
    <2> QED BY <1>6, <2>1, <1>k, <1>s
      DEF ChmodOrClose, WriteSome, PathWhile, WriteRest, StoreFails
  <1>7. CASE Rename(g)
    <2>1. Operation[g] = "storing" /\ Operation' = [Operation EXCEPT ![g] = "stored"]
      BY <1>7, OperationOf, OperationMoved DEF Rename
    <2>2. path' = arg[g]
      BY <1>7 DEF Rename, Goto, WholeWhenRenamed
    <2> QED BY <1>7, <2>1, <2>2 DEF Rename, Register!Next, Register!Store
  <1>8. CASE Read(g)
    <2>1. Operation[g] = "loading" /\ Operation' = [Operation EXCEPT ![g] = "loaded"]
      BY <1>8, OperationOf, OperationMoved DEF Read
    <2> QED BY <1>8, <2>1 DEF Read, Register!Next, Register!Load
  <1>9. CASE Return(g)
    <2>1. /\ Operation[g] \in {"stored", "failed", "loaded"}
          /\ Operation' = [Operation EXCEPT ![g] = "idle"]
      <3>1. CASE Goto(g, "stored", "idle")
        BY <3>1, OperationOf, OperationMoved
      <3>2. CASE Goto(g, "failed", "idle")
        BY <3>2, OperationOf, OperationMoved
      <3>3. CASE Goto(g, "loaded", "idle")
        BY <3>3, OperationOf, OperationMoved
      <3> QED BY <1>9, <3>1, <3>2, <3>3 DEF Return
    <2> QED BY <1>9, <2>1 DEF Return, Register!Next, Register!Return
  <1> QED
    BY <1>1, <1>2, <1>3, <1>4, <1>5, <1>6, <1>7, <1>8, <1>9
    DEF CallStep, StoreStep, CreateTemp

\* Whoever dies, the register stays, with the calls of the others.
LEMMA CrashRegisters == ASSUME Inv, NEW f \in Files, Crash(f) PROVE Register!Next
  <1> DEFINE dead == {g \in Goroutines : FileOf(g) = f}
  <1>1. Operation' = [g \in Goroutines |-> IF g \in dead THEN "idle" ELSE Operation[g]]
    BY DEF Crash, Operation, Storing
  <1>2. /\ arg' = [g \in Goroutines |-> IF g \in dead THEN NotFound ELSE arg[g]]
        /\ got' = [g \in Goroutines |-> IF g \in dead THEN NotFound ELSE got[g]]
        /\ path' = path
    BY DEF Crash
  <1>3. dead \in SUBSET Goroutines
    OBVIOUS
  <1> QED BY <1>1, <1>2, <1>3 DEF Register!Next, Register!Crash

\* Refinement: File is an atomic register.  Whatever fails and whoever dies, the
\* path names a whole session, the last one that was stored, and a load gets
\* what the path had at one instant of the load (storage.go 41-97).
THEOREM Refinement == Spec => ImplementsRegister
  <1>1. Init => Register!Init
    BY DEF Init, Register!Init, Operation, Storing
  <1>2. Inv /\ [Next]_vars => [Register!Next]_(Register!vars)
    <2> SUFFICES ASSUME Inv, [Next]_vars PROVE [Register!Next]_(Register!vars)
      OBVIOUS
    <2>1. CASE UNCHANGED vars
      BY <2>1 DEF vars, Operation, Register!vars
    <2> QED BY <2>1, CallRegisters, CrashRegisters DEF Next
  <1> QED BY <1>1, <1>2, Invariance, PTL DEF Spec, ImplementsRegister, Register!Spec

-----------------------------------------------------------------------------
(* The program around it *)

\* The variables that others than main and its login leave alone.
EchoTypes ==
    /\ query \in [Requests -> Callback]
    /\ req \in [Requests -> {"away", "hand", "done"}]
    /\ page \in [Requests -> {"none", "badRequest", "signedIn", "failed"}]
    /\ results \in Requests \cup {None} /\ chosen \in Requests \cup {None}
    /\ at \in {"idle", "waiting", "exchange", "closing", "returned"}
    /\ prog \in Progs
    /\ renewal \in Renewals /\ issued \in Nat /\ mislaid \in BOOLEAN

\* A callback with the state of the flow and something in it, whose page is written.
LetIn(r) == /\ req[r] # "away" /\ ~Rejected(r)
            /\ page[r] = PageFor(r)

CallbacksLetIn ==
    /\ \A r \in Requests : req[r] = "hand" => LetIn(r)
    /\ results # None => LetIn(results)
    /\ chosen # None => LetIn(chosen)

\* Login returns what the callback it took carried.
ResultEarned ==
    /\ at \in {"idle", "waiting", "exchange"} => result = "none"
    /\ at = "exchange" => chosen # None
    /\ at \in {"closing", "returned"} /\ chosen # None =>
          \/ result = "denied" /\ query[chosen].carries = "error"
          \/ /\ result \in {"token", "noDevice", "cutOff", "refused"}
             /\ query[chosen].carries = "code"
    /\ at = "idle" => chosen = None
    /\ at = "waiting" => chosen = None

Refreshable(s) == s \in Session /\ (s.refresh => s.device /\ s.client)

\* prog says that a client has the session, or that the program has it to save.
Using == prog \in {"connect", "wait", "disconnect"}

SessionsWhole ==
    /\ session # None => Refreshable(session) /\ session.pair = 0
    /\ stored \in Session => Refreshable(stored)
    /\ prog \in {"save", "connect", "wait", "disconnect"} => Refreshable(sess)
    /\ Using => stored \in Session

\* Only the session in the file is renewed, and by one client.
RenewalsOwn ==
    /\ stored \notin Session => issued = 0 /\ ~mislaid
    /\ prog = "save" => stored = None /\ sess.pair = 0
    /\ prog = "login" => stored = None
    /\ loop = "polling" => prog \in {"wait", "disconnect"}
    /\ renewal # "none" => prog = "connect" \/ loop = "polling"

\* Where the newest pair is.
PairsKept ==
    /\ ~mislaid /\ stored \in Session /\ renewal \in {"none", "asked"} => stored.pair = issued
    /\ ~mislaid /\ Using /\ renewal \in {"none", "asked"} => stored = sess
    /\ renewal = "save" => sess.pair = issued

EchoInv == /\ EchoTypes /\ CallbacksLetIn /\ ResultEarned
           /\ SessionsWhole /\ RenewalsOwn /\ PairsKept

-----------------------------------------------------------------------------
\* No callback has come, nothing is stored.
LEMMA EchoStarts == EchoInit => EchoInv
  <1> SUFFICES ASSUME EchoInit PROVE EchoInv
    OBVIOUS
  <1> USE DEF EchoInit, LoginInit
  <1>1. EchoTypes
    BY DEF EchoTypes, Progs, Renewals
  <1>2. CallbacksLetIn /\ ResultEarned
    BY DEF CallbacksLetIn, ResultEarned
  <1>3. SessionsWhole /\ RenewalsOwn /\ PairsKept
    <2>1. stored \in {None, Unreadable} /\ session = None /\ prog = "load"
      OBVIOUS
    <2>2. stored \notin Session
      BY <2>1, UnreadableAssumption, NoneAssumption
    <2> QED BY <2>1, <2>2 DEF SessionsWhole, RenewalsOwn, PairsKept, Using
  <1> QED BY <1>1, <1>2, <1>3 DEF EchoInv

\* Whoever gets a session gets one that can be refreshed if it is meant to be, with
\* the first pair or, by a renewal, with the newest.
LEMMA GivenWhole ==
    /\ Refreshable(FromToken) /\ FromToken.pair = 0
    /\ \A refresh \in BOOLEAN : Refreshable(Signed(refresh)) /\ Signed(refresh).pair = 0
    /\ \A refresh \in BOOLEAN, n \in Nat :
          LET s == [Signed(refresh) EXCEPT !.pair = n] IN Refreshable(s) /\ s.pair = n
  BY DEF Refreshable, FromToken, Signed, Session

\* A request arrives, or its handler hands the callback over.
LEMMA HandlerStep ==
  ASSUME EchoInv, NEW r \in Requests, Arrive(r) \/ Hand(r), UNCHANGED mainVars
  PROVE  EchoInv'
  <1> USE DEF EchoInv, EchoTypes, CallbacksLetIn, LetIn, Rejected, PageFor, Ours
  <1>1. /\ UNCHANGED <<query, at, chosen, expired, aborted, failing, result, session>>
        /\ UNCHANGED mainVars
        /\ results' = results \/ (results = None /\ results' = r /\ req[r] = "hand")
    BY DEF Arrive, Hand
  <1>2. /\ req' \in [Requests -> {"away", "hand", "done"}]
        /\ page' \in [Requests -> {"none", "badRequest", "signedIn", "failed"}]
    BY DEF Arrive, Hand
  <1>3. \A q \in Requests : LetIn(q) => LetIn(q)'
    BY <1>1 DEF Arrive, Hand
  <1>4. \A q \in Requests : req'[q] = "hand" => LetIn(q)'
    BY <1>1, <1>3 DEF Arrive, Hand
  <1>5. EchoTypes' /\ CallbacksLetIn'
    BY <1>1, <1>2, <1>3, <1>4, NoneAssumption DEF mainVars, renewalVars
  <1>6. ResultEarned' /\ SessionsWhole'
    BY <1>1 DEF ResultEarned, SessionsWhole, Refreshable, Using, mainVars
  <1>7. RenewalsOwn' /\ PairsKept'
    BY <1>1 DEF RenewalsOwn, PairsKept, Using, mainVars, renewalVars
  <1> QED BY <1>5, <1>6, <1>7

\* The timer, the caller's context or the server: no callback is touched.
LEMMA AsideStep ==
  ASSUME EchoInv, Expire \/ Abort \/ ServerFails, UNCHANGED mainVars
  PROVE  EchoInv'
  <1>1. UNCHANGED <<query, req, page, results, at, chosen, result, session, mainVars>>
    BY DEF Expire, Abort, ServerFails
  <1> QED
    BY <1>1
    DEF EchoInv, EchoTypes, CallbacksLetIn, LetIn, Rejected, PageFor, Ours, ResultEarned,
        SessionsWhole, Refreshable, Using, RenewalsOwn, PairsKept, mainVars, renewalVars

\* A step of Login takes the callback that waits, and returns what it carries.
LEMMA SignInStep == ASSUME EchoInv, Begin \/ LoginStep, UNCHANGED mainVars PROVE EchoInv'
  <1> USE DEF EchoInv, EchoTypes
  <1>1. UNCHANGED <<query, req, page>> /\ UNCHANGED mainVars
    BY DEF Begin, LoginStep, TakeResult, TakeServerError, TakeDone, Exchange, Shutdown
  <1>2. /\ results' \in {results, None} /\ chosen' \in {chosen, results}
        /\ at' \in {"waiting", "exchange", "closing", "returned"}
    BY DEF Begin, LoginStep, TakeResult, TakeServerError, TakeDone, Exchange, Shutdown, ReturnWith
  <1>3. EchoTypes'
    BY <1>1, <1>2 DEF mainVars, renewalVars
  <1>4. CallbacksLetIn'
    BY <1>1, <1>2 DEF CallbacksLetIn, LetIn, Rejected, PageFor, Ours
  <1>5. ResultEarned'
    <2>1. CASE Begin
      BY <2>1 DEF Begin, ResultEarned
    <2>2. CASE TakeResult
      BY <2>2, NoneAssumption DEF TakeResult, ResultEarned
    <2>3. CASE TakeServerError \/ TakeDone
      BY <2>3 DEF TakeServerError, TakeDone, ReturnWith, ResultEarned
    <2>4. CASE Shutdown
      BY <2>4 DEF Shutdown, ResultEarned
    <2>5. CASE Exchange
      <3> DEFINE cb == query[chosen]
      <3>1. /\ at = "exchange" /\ at' = "closing" /\ chosen' = chosen /\ query' = query
            /\ \/ Objection(cb) # "none" /\ result' = Objection(cb)
               \/ Objection(cb) = "none" /\ result' \in {"cutOff", "refused", "token"}
        BY <2>5 DEF Exchange, ReturnWith
      <3>2. cb \in Callback /\ chosen # None
        BY <3>1, NoneAssumption DEF ResultEarned
      <3>3. cb.ours /\ cb.carries # "nothing"
        BY <3>2 DEF CallbacksLetIn, LetIn, Rejected, Ours
      <3>4. \/ cb.carries = "error" /\ Objection(cb) = "denied"
            \/ cb.carries = "code" /\ Objection(cb) \in {"noDevice", "none"}
        BY <3>2, <3>3 DEF Objection, Callback
      <3> HIDE DEF cb
      <3>5. \/ result' = "denied" /\ cb.carries = "error"
            \/ result' \in {"token", "noDevice", "cutOff", "refused"} /\ cb.carries = "code"
        BY <3>1, <3>4
      <3> QED BY <3>1, <3>5 DEF ResultEarned, cb
    <2> QED BY <2>1, <2>2, <2>3, <2>4, <2>5 DEF LoginStep
  <1>6. session' # None => Refreshable(session') /\ session'.pair = 0
    <2>1. session' = session \/ \E refresh \in BOOLEAN : session' = Signed(refresh)
      BY DEF Begin, LoginStep, TakeResult, TakeServerError, TakeDone, Exchange, Shutdown
    <2> QED BY <2>1, GivenWhole DEF SessionsWhole
  <1>7. SessionsWhole'
    BY <1>1, <1>6 DEF SessionsWhole, Refreshable, Using, mainVars
  <1>8. RenewalsOwn' /\ PairsKept'
    BY <1>1 DEF RenewalsOwn, PairsKept, Using, mainVars, renewalVars
  <1> QED BY <1>3, <1>4, <1>5, <1>7, <1>8

\* A step of main while nothing happens in its login.
LEMMA MainProgress ==
  ASSUME EchoInv, UNCHANGED <<query, req, page, results, at, chosen, result, session>>,
         \/ Load \/ SignedIn \/ Save \/ Connect \/ Interrupted \/ Disconnected
         \/ LoopFails \/ Stop \/ LoopStops
  PROVE  EchoInv'
  <1> USE DEF EchoInv
  <1>1. CallbacksLetIn' /\ ResultEarned'
    BY DEF CallbacksLetIn, LetIn, Rejected, PageFor, Ours, ResultEarned
  <1>2. prog' \in Progs /\ UNCHANGED renewalVars
    BY DEF Load, SignedIn, Save, Unsaved, Connect, Interrupted, Disconnected, LoopFails,
           Stop, LoopStops, EchoTypes, Progs
  <1>3. EchoTypes'
    BY <1>2 DEF EchoTypes, renewalVars
  <1>4. SessionsWhole' /\ RenewalsOwn' /\ PairsKept'
    <2> USE DEF SessionsWhole, RenewalsOwn, PairsKept, Using, renewalVars
    <2>1. CASE Load
      <3>1. /\ prog = "load" /\ stored' = stored /\ session' = session /\ loop' = loop
            /\ \/ stored \in Session /\ sess' = stored /\ prog' = "connect"
               \/ prog' = "ended"
               \/ stored = None /\ sess' = FromToken /\ prog' = "save"
               \/ stored = None /\ prog' = "login"
        BY <2>1 DEF Load
      <3>2. Refreshable(stored') <=> Refreshable(stored)
        BY <3>1 DEF Refreshable
      <3>3. renewal = "none" /\ loop # "polling"
        BY <3>1
      <3> QED BY <1>2, <3>1, <3>2, <3>3, GivenWhole
    <2>2. CASE SignedIn
      <3>1. renewal = "none" /\ loop # "polling"
        BY <2>2 DEF SignedIn
      <3> QED BY <1>2, <2>2, <3>1 DEF SignedIn, Refreshable
    <2>3. CASE Save
      <3>1. /\ renewal = "none" /\ loop # "polling" /\ issued = 0 /\ ~mislaid
            /\ sess \in Session /\ sess.pair = 0
        BY <2>3, NoneAssumption DEF Save, Refreshable
      <3> QED BY <1>2, <2>3, <3>1 DEF Save, Unsaved, Refreshable
    <2>4. CASE Connect \/ Interrupted \/ Disconnected
      BY <1>2, <2>4 DEF Connect, Interrupted, Disconnected, Refreshable
    <2>5. CASE LoopFails \/ Stop \/ LoopStops
      BY <1>2, <2>5 DEF LoopFails, Stop, LoopStops, Refreshable
    <2> QED BY <2>1, <2>2, <2>3, <2>4, <2>5
  <1> QED BY <1>1, <1>3, <1>4

\* A step of a renewal: the session in the file is the one it starts from, and is
\* the newest again when it is saved.
LEMMA RenewalStep == ASSUME EchoInv, Ask \/ Renew PROVE EchoInv'
  <1> USE DEF EchoInv
  <1>1. UNCHANGED <<loginVars, prog, loop>>
    BY DEF Ask, Renew, Rotate, Answered, NoAnswer, SaveRenewal
  <1>2. CallbacksLetIn' /\ ResultEarned'
    BY <1>1 DEF CallbacksLetIn, LetIn, Rejected, PageFor, Ours, ResultEarned, loginVars
  <1>3. EchoTypes'
    <2>1. renewal' \in Renewals
      BY DEF Ask, Renew, Rotate, Answered, NoAnswer, SaveRenewal, Renewals
    <2>2. issued' \in Nat
      BY DEF EchoTypes, Ask, Renew, Rotate, Answered, NoAnswer, SaveRenewal
    <2>3. mislaid' \in BOOLEAN
      BY DEF EchoTypes, Ask, Renew, Rotate, Answered, NoAnswer, SaveRenewal
    <2> QED BY <1>1, <2>1, <2>2, <2>3 DEF EchoTypes, loginVars
  <1>4. renewal # "none" \/ Ask => Using
    BY DEF RenewalsOwn, Using, Ask
  <1>5. stored \in Session /\ Refreshable(stored) /\ Refreshable(sess) /\ Using /\ prog # "save"
    BY <1>4 DEF SessionsWhole, Using, Renew, Rotate, Answered, NoAnswer, SaveRenewal
  <1>6. SessionsWhole' /\ RenewalsOwn' /\ PairsKept'
    <2> USE DEF SessionsWhole, RenewalsOwn, PairsKept, Using, EchoTypes
    <2>1. CASE Ask
      BY <1>1, <1>5, <2>1 DEF Ask, Refreshable, loginVars
    <2>2. CASE Rotate
      BY <1>1, <1>5, <2>2 DEF Rotate, Refreshable, loginVars
    <2>3. CASE Answered
      <3>1. PICK refresh \in BOOLEAN : sess' = [Signed(refresh) EXCEPT !.pair = issued]
        BY <2>3 DEF Answered
      <3>2. Refreshable(sess') /\ sess'.pair = issued
        BY <3>1, GivenWhole
      <3> QED BY <1>1, <1>5, <2>3, <3>2 DEF Answered, Refreshable, loginVars
    <2>4. CASE NoAnswer
      BY <1>1, <1>5, <2>4 DEF NoAnswer, Refreshable, loginVars
    <2>5. CASE SaveRenewal
      BY <1>1, <1>5, <2>5 DEF SaveRenewal, Refreshable, loginVars
    <2> QED BY <2>1, <2>2, <2>3, <2>4, <2>5 DEF Renew
  <1> QED BY <1>2, <1>3, <1>6

\* The program starts again: only what it stored is left, and the callbacks that
\* are to come.
LEMMA RestartStep == ASSUME EchoInv, Restart PROVE EchoInv'
  <1> USE DEF EchoInv, Restart
  <1>1. EchoTypes' /\ CallbacksLetIn' /\ ResultEarned'
    BY DEF EchoTypes, Progs, Renewals, CallbacksLetIn, ResultEarned
  <1>2. SessionsWhole'
    BY DEF SessionsWhole, Refreshable, Using
  <1>3. RenewalsOwn' /\ PairsKept'
    <2>1. renewal # "none" => stored \in Session
      BY DEF RenewalsOwn, SessionsWhole, Using
    <2> QED BY <2>1 DEF RenewalsOwn, PairsKept, Using, EchoTypes, Renewals
  <1> QED BY <1>1, <1>2, <1>3

\* Every step keeps the invariant.
LEMMA EchoStep == EchoInv /\ [EchoNext]_echoVars => EchoInv'
  <1> SUFFICES ASSUME EchoInv, [EchoNext]_echoVars PROVE EchoInv'
    OBVIOUS
  <1>1. CASE SignIn
    BY <1>1, SignInStep DEF SignIn
  <1>2. CASE \/ Load \/ SignedIn \/ Save \/ Connect \/ Interrupted \/ Disconnected
             \/ LoopFails \/ Stop \/ LoopStops
    <2>1. UNCHANGED <<query, req, page, results, at, chosen, result, session>>
      BY <1>2 DEF Load, SignedIn, Save, Connect, Interrupted, Disconnected, LoopFails, Stop,
                  LoopStops, loginVars
    <2> QED BY <1>2, <2>1, MainProgress
  <1>3. CASE Signal
    BY <1>3, AsideStep DEF Signal
  <1>4. CASE Restart
    BY <1>4, RestartStep
  <1>5. CASE Around /\ UNCHANGED mainVars
    BY <1>5, AsideStep, HandlerStep DEF Around
  <1>6. CASE UNCHANGED echoVars
    BY <1>6
    DEF echoVars, loginVars, mainVars, EchoInv, EchoTypes, CallbacksLetIn, LetIn, Rejected, PageFor,
        Ours, ResultEarned, SessionsWhole, RenewalsOwn, PairsKept, Using, Refreshable, renewalVars
  <1>7. CASE Ask \/ Renew
    BY <1>7, RenewalStep
  <1> QED
    BY <1>1, <1>2, <1>3, <1>4, <1>5, <1>6, <1>7 DEF EchoNext, MainStep

\* EchoInv holds in every reachable state.
LEMMA EchoInvariance == EchoSpec => []EchoInv
  BY EchoStarts, EchoStep, PTL DEF EchoSpec

-----------------------------------------------------------------------------
\* Whoever else sends requests to the listener, Login takes a callback that has
\* the state of its flow and something in it (login.go 85-92, 117): the handler
\* compared the state before it handed the callback over.
THEOREM TakesOurs == EchoSpec => []OnlyOurCallback
  <1>1. EchoInv => OnlyOurCallback
    BY DEF EchoInv, CallbacksLetIn, LetIn, Rejected, Ours, OnlyOurCallback
  <1> QED BY <1>1, EchoInvariance, PTL

\* The page that the browser got before Login looked at the callback says that the
\* login failed exactly when Login returns the error the callback carries (login.go
\* 93-99, vkid.go 265-277).  It says that it succeeded whenever Login gets as far as
\* to try the exchange, or finds no device id, also when that fails.
THEOREM ShownTrue == EchoSpec => []PageAgrees
  <1>1. EchoInv => PageAgrees
    BY DEF EchoInv, CallbacksLetIn, LetIn, ResultEarned, PageFor, PageAgrees
  <1> QED BY <1>1, EchoInvariance, PTL

\* Wherever the program dies or restarts, there is a session in the file once a client
\* uses one, and neither has a refresh token that it cannot use (main.go 107-137).
\* Between renewals the file has the client's own session and the newest pair, unless
\* an answer or a save was lost since it last had that (govka.go 365-376).
THEOREM Kept == EchoSpec => []KeptBeforeUse
  <1>1. EchoInv => KeptBeforeUse
    BY DEF EchoInv, EchoTypes, SessionsWhole, PairsKept, Using, Refreshable, KeptBeforeUse
  <1> QED BY <1>1, EchoInvariance, PTL
=============================================================================
