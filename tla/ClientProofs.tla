---------------------------- MODULE ClientProofs ----------------------------
(***************************************************************************)
(* Proofs about Client, for any set of goroutines and of loops, whatever   *)
(* handlers do.  What a goroutine waits for is pinned down by where it is: *)
(* who asks (AsksWhere), who is caught in its own flight (CaughtTelling),  *)
(* who holds a loop (HoldsWhere), whom a follower joined (JoinedFlies) and *)
(* who starts a claimed loop (ReadyClaimed).  FailedWhy says what a failed *)
(* flight means to a loop that leads it.                                   *)
(***************************************************************************)
EXTENDS Client, TLAPS

TypeOK ==
    /\ L!TypeOK
    /\ leader \in Goroutines \cup {None}
    /\ phase \in [Goroutines -> F!Phases]
    /\ joined \in [Goroutines -> Goroutines \cup {None}]
    /\ err \in BOOLEAN /\ lost \in BOOLEAN
    /\ {failed, offline, caught} \subseteq SUBSET Goroutines

AsksWhere ==
    /\ \A c \in Callers : phase[c] # "idle" => cpc[c] \in {"idle", "verify"}
    /\ \A l \in Loops : phase[l] # "idle" => lpc[l] \in {"polling", "refresh"}

CaughtTelling == \A g \in caught : phase[g] = "telling" /\ held[g] = None

HoldsWhere == \A g \in Goroutines : held[g] # None =>
    \/ Handling(g)
    \/ g \in Callers /\ cpc[g] = "leaving" /\ phase[g] = "idle"

JoinedFlies ==
    /\ leader # None => phase[leader] \in {"leading", "telling"}
    /\ \A f \in Goroutines : phase[f] = "waiting" =>
         /\ joined[f] \in Goroutines
         /\ phase[joined[f]] \in {"leading", "telling", "leaving"}

ReadyClaimed ==
    /\ \A l \in Loops : lpc[l] = "ready" => \E c \in Callers : mine[c] = l
    /\ \A c \in Callers : mine[c] # None => cpc[c] = "announce"

\* A flight that a loop led and that failed has lost the session, was failed by
\* the network or VK ID, or was ended by the stop of that loop.
FailedWhy == \A l \in Loops \cap failed :
    phase[l] = "leaving" /\ (lost \/ l \in offline \cup cancelled)

Inv == /\ TypeOK /\ AsksWhere /\ CaughtTelling /\ HoldsWhere /\ JoinedFlies
       /\ ReadyClaimed /\ FailedWhy

-----------------------------------------------------------------------------
\* None is no goroutine, and callers are no loops.
LEMMA Members ==
  /\ Goroutines = Callers \cup Loops /\ L!Goroutines = Goroutines
  /\ None \notin Goroutines /\ None \notin Callers /\ None \notin Loops
  /\ \A l \in Loops : l \notin Callers
  BY NoneAssumption, DisjointAssumption DEF Goroutines, L!Goroutines

\* Everybody is idle, nobody waits.
LEMMA InvInit == Init => Inv
  <1> SUFFICES ASSUME Init PROVE Inv
    OBVIOUS
  <1> USE Members DEF Init, L!Init, F!Init
  <1>1. TypeOK
    BY DEF TypeOK, L!TypeOK, L!CallerStates, L!LoopStates, F!Phases, Goroutines
  <1>2. AsksWhere /\ CaughtTelling /\ HoldsWhere
    BY DEF AsksWhere, CaughtTelling, HoldsWhere, Goroutines
  <1>3. JoinedFlies /\ ReadyClaimed /\ FailedWhy
    BY DEF JoinedFlies, ReadyClaimed, FailedWhy
  <1> QED BY <1>1, <1>2, <1>3 DEF Inv

-----------------------------------------------------------------------------
\* Connect, on a caller that asks for no token.
LEMMA ConnectKeeps ==
  ASSUME Inv, NEW c \in Callers, CallerGoesOn(c) \/ (CallerCalls(c) /\ L!ConnectCheck(c))
  PROVE  Inv'
  <1> USE Members DEF Inv, TypeOK, L!TypeOK, L!CallerStates, L!LoopStates, Free
  <1>1. /\ phase[c] = "idle"
        /\ L!ConnectCheck(c) \/ L!ConnectStep(c)
        /\ UNCHANGED <<leader, phase, joined, err, failed, lost, offline, caught, held>>
    BY DEF CallerGoesOn, CallerCalls, flights, L!ConnectStep, L!ConnectCheck, L!ConnectVerify,
           L!ConnectClaim, L!ConnectRefused, L!ConnectSpawn
  <1>2. CASE L!ConnectCheck(c) \/ L!ConnectVerify(c) \/ L!ConnectRefused(c)
    <2>1. PICK next \in {"verify", "claim", "idle"} :
            /\ cpc' = [cpc EXCEPT ![c] = next]
            /\ cpc[c] \in {"idle", "verify", "claim"}
            /\ UNCHANGED <<connected, slot, loggedOut, cancelled, lpc, mine>>
      BY <1>2 DEF L!ConnectCheck, L!ConnectVerify, L!ConnectRefused
    <2>2. TypeOK'
      BY <1>1, <2>1
    <2>3. AsksWhere'
      BY <1>1, <2>1 DEF AsksWhere
    <2>7. CaughtTelling'
      BY <1>1, <2>1 DEF CaughtTelling
    <2>4. JoinedFlies' /\ FailedWhy'
      BY <1>1, <2>1 DEF JoinedFlies, FailedWhy
    <2>5. HoldsWhere'
      BY <1>1, <2>1 DEF HoldsWhere, Handling, L!Dispatching
    <2>6. ReadyClaimed'
      BY <1>1, <2>1 DEF ReadyClaimed
    <2> QED BY <2>2, <2>3, <2>4, <2>5, <2>6, <2>7
  <1>3. CASE L!ConnectClaim(c)
    <2>1. PICK l \in Loops :
            /\ L!Fresh(l) /\ slot' = l
            /\ mine' = [mine EXCEPT ![c] = l] /\ lpc' = [lpc EXCEPT ![l] = "ready"]
            /\ cancelled' = cancelled \ {l}
      BY <1>3 DEF L!ConnectClaim
    <2>2. /\ cpc[c] = "claim" /\ cpc' = [cpc EXCEPT ![c] = "announce"]
          /\ connected' = TRUE /\ loggedOut' = loggedOut /\ lpc[l] = "done" /\ phase[l] = "idle"
      BY <1>3, <2>1 DEF L!ConnectClaim, L!Fresh, L!Closed, AsksWhere
    <2>3. TypeOK'
      BY <1>1, <2>1, <2>2
    <2>4. AsksWhere' /\ CaughtTelling' /\ JoinedFlies' /\ FailedWhy'
      BY <1>1, <2>1, <2>2 DEF AsksWhere, CaughtTelling, JoinedFlies, FailedWhy
    <2>5. ReadyClaimed'
      BY <1>1, <2>1, <2>2 DEF ReadyClaimed
    <2>6. HoldsWhere'
      BY <1>1, <2>1, <2>2 DEF HoldsWhere, Handling, L!Dispatching
    <2> QED BY <2>3, <2>4, <2>5, <2>6
  <1>4. CASE L!ConnectSpawn(c)
    <2>1. /\ cpc[c] = "announce" /\ held[c] = None
          /\ lpc' = [l \in Loops |-> IF l = mine[c] THEN "polling" ELSE lpc[l]]
          /\ mine' = [mine EXCEPT ![c] = None] /\ cpc' = [cpc EXCEPT ![c] = "idle"]
          /\ UNCHANGED <<connected, slot, loggedOut, cancelled>>
      BY <1>4 DEF L!ConnectSpawn, L!NewLoop, L!AfterSpawn
    <2>2. TypeOK'
      BY <1>1, <2>1
    <2>3. AsksWhere' /\ CaughtTelling' /\ JoinedFlies' /\ FailedWhy'
      BY <1>1, <2>1 DEF AsksWhere, CaughtTelling, JoinedFlies, FailedWhy
    <2>4. ReadyClaimed'
      BY <1>1, <2>1 DEF ReadyClaimed
    <2>5. HoldsWhere'
      BY <1>1, <2>1 DEF HoldsWhere, Handling, L!Dispatching
    <2> QED BY <2>2, <2>3, <2>4, <2>5
  <1> QED BY <1>1, <1>2, <1>3, <1>4 DEF L!ConnectStep

\* Taking the slot, by a goroutine that then waits for the loop it took.
LEMMA TakeKeeps ==
  ASSUME Inv, NEW g \in Goroutines, L!TakeSlot(g),
         UNCHANGED <<connected, loggedOut, cancelled, lpc, mine, leader, phase, joined, err,
                     failed, lost, offline, caught>>,
         g \notin caught,
         \/ Handling(g) /\ cpc' = cpc
         \/ /\ g \in Callers /\ cpc[g] = "idle" /\ phase[g] = "idle"
            /\ cpc' = [cpc EXCEPT ![g] = "leaving"]
  PROVE  Inv'
  <1> USE Members DEF Inv, TypeOK, L!TypeOK, L!CallerStates, L!LoopStates, Free
  <1>1. held' = [held EXCEPT ![g] = slot] /\ slot' = None
    BY DEF L!TakeSlot
  <1>2. TypeOK'
    BY <1>1
  <1>3. AsksWhere' /\ CaughtTelling' /\ JoinedFlies' /\ FailedWhy'
    BY <1>1 DEF AsksWhere, CaughtTelling, JoinedFlies, FailedWhy
  <1>4. ReadyClaimed'
    BY <1>1 DEF ReadyClaimed
  <1>5. HoldsWhere'
    BY <1>1 DEF HoldsWhere, Handling, L!Dispatching
  <1> QED BY <1>2, <1>3, <1>4, <1>5

\* The rest of a Disconnect: it cancels, waits and returns.
LEMMA DisconnectKeeps ==
  ASSUME Inv, NEW g \in Goroutines, DisconnectGoesOn(g)
  PROVE  Inv'
  <1> USE Members DEF Inv, TypeOK, L!TypeOK, L!CallerStates, L!LoopStates, Free
  <1>1. UNCHANGED <<connected, slot, loggedOut, lpc, mine, leader, phase, joined, err,
                    failed, lost, offline, caught>>
    BY DEF DisconnectGoesOn, flights, L!DisconnectStep, L!Cancel, L!Await, L!DisconnectReturns
  <1>2. CASE L!DisconnectStep(g)
    <2>0. cpc' = cpc /\ cancelled \subseteq cancelled' /\ cancelled' \subseteq Loops
      <3>1. CASE L!Cancel(g)
        <4>1. cpc' = cpc /\ cancelled' = cancelled \cup {held[g]} /\ held[g] # None
          BY <3>1 DEF L!Cancel
        <4> QED BY <4>1
      <3>2. CASE L!Await(g)
        BY <3>2 DEF L!Await
      <3> QED BY <1>2, <3>1, <3>2 DEF L!DisconnectStep
    <2>1. /\ held' \in [Goroutines -> Loops \cup {None}]
          /\ \A h \in Goroutines : held'[h] \in {held[h], None}
      <3>1. CASE L!Cancel(g)
        BY <3>1 DEF L!Cancel
      <3>2. CASE L!Await(g)
        BY <3>2 DEF L!Await
      <3> QED BY <1>2, <3>1, <3>2 DEF L!DisconnectStep
    <2>2. TypeOK'
      BY <1>1, <2>0, <2>1
    <2>3. AsksWhere' /\ CaughtTelling'
      BY <1>1, <2>0, <2>1 DEF AsksWhere, CaughtTelling
    <2>4. JoinedFlies' /\ FailedWhy' /\ ReadyClaimed'
      BY <1>1, <2>0, <2>1 DEF JoinedFlies, FailedWhy, ReadyClaimed
    <2>5. HoldsWhere'
      BY <1>1, <2>0, <2>1 DEF HoldsWhere, Handling, L!Dispatching
    <2> QED BY <2>2, <2>3, <2>4, <2>5
  <1>3. CASE g \in Callers /\ L!DisconnectReturns(g)
    <2>1. /\ cpc[g] = "leaving" /\ held[g] = None /\ cpc' = [cpc EXCEPT ![g] = "idle"]
          /\ UNCHANGED <<cancelled, held>>
      BY <1>3 DEF L!DisconnectReturns
    <2>2. TypeOK'
      BY <1>1, <2>1
    <2>3. AsksWhere' /\ CaughtTelling'
      BY <1>1, <2>1 DEF AsksWhere, CaughtTelling
    <2>4. JoinedFlies' /\ FailedWhy'
      BY <1>1, <2>1 DEF JoinedFlies, FailedWhy
    <2>5. HoldsWhere'
      BY <1>1, <2>1 DEF HoldsWhere, Handling, L!Dispatching
    <2>6. ReadyClaimed'
      BY <1>1, <2>1 DEF ReadyClaimed
    <2> QED BY <2>2, <2>3, <2>4, <2>5, <2>6
  <1> QED BY <1>2, <1>3 DEF DisconnectGoesOn

\* A loop moves that asks for no token, and may start the next one.
LEMMA LoopKeeps ==
  ASSUME Inv, NEW l \in Loops, LoopGoesOn(l)
  PROVE  Inv'
  <1> USE Members DEF Inv, TypeOK, L!TypeOK, L!CallerStates, L!LoopStates, Free
  <1>1. /\ phase[l] = "idle"
        /\ UNCHANGED <<cpc, mine, held, leader, phase, joined, err, failed, lost, offline, caught>>
    BY DEF LoopGoesOn, flights, L!Reclaim, L!Bereft, L!GiveUp, L!LoopEnds
  <1>2. CASE L!Reclaim(l)
    <2>1. PICK n \in Loops : /\ L!Fresh(n) /\ slot' = n
                             /\ lpc' = [lpc EXCEPT ![l] = "done", ![n] = "polling"]
                             /\ cancelled' = cancelled \ {n}
      BY <1>2 DEF L!Reclaim, L!Ended
    <2>2. /\ lpc[n] = "done" /\ phase[n] = "idle" /\ lpc[l] = "reclaim"
          /\ connected' = TRUE /\ loggedOut' = loggedOut
      BY <1>2, <2>1 DEF L!Fresh, L!Closed, L!Reclaim, L!Reconnected, AsksWhere
    <2>3. TypeOK'
      BY <1>1, <2>1, <2>2
    <2>4. AsksWhere' /\ CaughtTelling' /\ JoinedFlies' /\ FailedWhy'
      BY <1>1, <2>1, <2>2 DEF AsksWhere, CaughtTelling, JoinedFlies, FailedWhy
    <2>5. ReadyClaimed'
      BY <1>1, <2>1, <2>2 DEF ReadyClaimed
    <2>6. HoldsWhere'
      BY <1>1, <2>1, <2>2 DEF HoldsWhere, Handling, L!Dispatching
    <2> QED BY <2>3, <2>4, <2>5, <2>6
  <1>3. CASE L!Bereft(l) \/ L!GiveUp(l) \/ L!LoopEnds(l)
    <2>1. /\ lpc' = [lpc EXCEPT ![l] = lpc'[l]] /\ lpc'[l] \in {"done", "goodbye"}
          /\ lpc[l] \in {"reclaim", "giveUp"} \/ held[l] = None
          /\ lpc[l] \in {"reclaim", "giveUp", "report", "goodbye"}
          /\ UNCHANGED <<connected, slot, cancelled>> /\ loggedOut' \in BOOLEAN
      BY <1>3 DEF L!Bereft, L!GiveUp, L!LoopEnds, L!Ended
    <2>2. TypeOK'
      BY <1>1, <2>1
    <2>3. AsksWhere' /\ CaughtTelling' /\ JoinedFlies' /\ FailedWhy'
      BY <1>1, <2>1 DEF AsksWhere, CaughtTelling, JoinedFlies, FailedWhy
    <2>4. ReadyClaimed'
      BY <1>1, <2>1 DEF ReadyClaimed
    <2>5. HoldsWhere'
      BY <1>1, <2>1 DEF HoldsWhere, Handling, L!Dispatching
    <2> QED BY <2>2, <2>3, <2>4, <2>5
  <1> QED BY <1>2, <1>3 DEF LoopGoesOn

\* A poller returns; an authorization failure makes its loop ask for a flight.
LEMMA StopKeeps ==
  ASSUME Inv, NEW l \in Loops, StopPolling(l)
  PROVE  Inv'
  <1> USE Members DEF Inv, TypeOK, L!TypeOK, L!CallerStates, L!LoopStates, Free, F!Phases
  <1>1. /\ lpc[l] = "polling" /\ phase[l] = "idle" /\ held[l] = None
        /\ connected' = FALSE /\ UNCHANGED <<slot, loggedOut, cancelled, cpc, mine, held>>
        /\ UNCHANGED <<leader, joined, err, failed, lost, offline, caught>>
    BY DEF StopPolling, flights, L!StopPolling, F!Ask, F!Goto
  <1>7. PICK next \in {"refresh", "report"} :
          /\ lpc' = [lpc EXCEPT ![l] = next]
          /\ phase' = IF next = "refresh" THEN [phase EXCEPT ![l] = "asking"] ELSE phase
    BY DEF StopPolling, flights, L!StopPolling, F!Ask, F!Goto
  <1>2. TypeOK'
    <2>1. phase' \in [Goroutines -> F!Phases]
      BY <1>1, <1>7
    <2>2. L!TypeOK'
      BY <1>1, <1>7
    <2> QED BY <1>1, <2>1, <2>2
  <1>3. AsksWhere' /\ CaughtTelling' /\ FailedWhy'
    BY <1>1, <1>7 DEF AsksWhere, CaughtTelling, FailedWhy
  <1>4. JoinedFlies'
    BY <1>1, <1>7 DEF JoinedFlies
  <1>5. ReadyClaimed'
    BY <1>1, <1>7 DEF ReadyClaimed
  <1>6. HoldsWhere'
    BY <1>1, <1>7 DEF HoldsWhere, Handling, L!Dispatching
  <1> QED BY <1>2, <1>3, <1>4, <1>5, <1>6

\* Disconnect is called, by the application or in a handler.
LEMMA CallKeeps ==
  ASSUME Inv, NEW g \in Goroutines,
         HandlerDisconnects(g) \/ (g \in Callers /\ CallerCalls(g) /\ L!CallDisconnect(g))
  PROVE  Inv'
  <1>1. CASE HandlerDisconnects(g)
    BY <1>1, TakeKeeps DEF HandlerDisconnects, flights
  <1>2. CASE g \in Callers /\ CallerCalls(g) /\ L!CallDisconnect(g)
    <2>1. g \notin caught
      BY <1>2 DEF CallerCalls, Free, Inv, CaughtTelling
    <2> QED BY <1>2, <2>1, TakeKeeps DEF CallerCalls, L!CallDisconnect, flights, Free
  <1> QED BY <1>1, <1>2

-----------------------------------------------------------------------------
\* The steps of a flight that leave the life cycle alone, and a handler that asks.
LEMMA AskKeeps ==
  ASSUME Inv, NEW g \in Goroutines, Ask(g) \/ HandlerAsks(g)
  PROVE  Inv'
  <1> USE Members DEF Inv, TypeOK, L!TypeOK, F!Phases
  <1>1. UNCHANGED <<connected, slot, loggedOut, cancelled, cpc, lpc, mine, held,
                    leader, joined, err, failed, lost, offline>>
    BY DEF Ask, HandlerAsks, lifecycle, flights, F!Ask
  <1>2. CASE Ask(g)
    <2>1. /\ phase[g] = "idle" /\ phase' = [phase EXCEPT ![g] = "asking"]
          /\ held[g] = None /\ Calling(g) /\ caught' = caught
      BY <1>2 DEF Ask, F!Ask, F!Goto
    <2>2. TypeOK'
      BY <1>1, <2>1
    <2>3. AsksWhere' /\ CaughtTelling' /\ FailedWhy'
      BY <1>1, <2>1 DEF AsksWhere, CaughtTelling, FailedWhy, Calling
    <2>4. HoldsWhere'
      BY <1>1, <2>1 DEF HoldsWhere, Handling, Free, L!Dispatching
    <2>5. JoinedFlies' /\ ReadyClaimed'
      BY <1>1, <2>1 DEF JoinedFlies, ReadyClaimed
    <2> QED BY <2>2, <2>3, <2>4, <2>5
  <1>3. CASE HandlerAsks(g)
    <2>1. /\ phase[g] = "telling" /\ held[g] = None
          /\ caught' = caught \cup {g} /\ phase' = phase
      BY <1>3 DEF HandlerAsks, Reenters, Busy, flights
    <2>2. TypeOK'
      BY <1>1, <2>1
    <2>3. AsksWhere' /\ CaughtTelling' /\ FailedWhy'
      BY <1>1, <2>1 DEF AsksWhere, CaughtTelling, FailedWhy
    <2>4. HoldsWhere'
      BY <1>1, <2>1 DEF HoldsWhere, Handling, Free, L!Dispatching
    <2>5. JoinedFlies' /\ ReadyClaimed'
      BY <1>1, <2>1 DEF JoinedFlies, ReadyClaimed
    <2> QED BY <2>2, <2>3, <2>4, <2>5
  <1> QED BY <1>2, <1>3

\* A goroutine that asks leads a flight or joins the one under way.
LEMMA EnterKeeps ==
  ASSUME Inv, NEW p \in Goroutines, Enter(p)
  PROVE  Inv'
  <1> USE Members DEF Inv, TypeOK, L!TypeOK, F!Phases
  <1>1. UNCHANGED <<connected, slot, loggedOut, cancelled, cpc, lpc, mine, held,
                    err, failed, lost, offline, caught>>
    BY DEF Enter, lifecycle, F!Lead, F!Join
  <1>2. PICK next \in {"leading", "waiting"} :
          /\ phase[p] = "asking" /\ phase' = [phase EXCEPT ![p] = next]
          /\ \/ next = "leading" /\ leader = None /\ leader' = p /\ joined' = joined
             \/ /\ next = "waiting" /\ leader \in Goroutines /\ leader' = leader
                /\ joined' = [joined EXCEPT ![p] = leader]
    BY DEF Enter, F!Lead, F!Join, F!Goto
  <1>3. TypeOK'
    BY <1>1, <1>2
  <1>4. AsksWhere' /\ CaughtTelling' /\ FailedWhy'
    BY <1>1, <1>2 DEF AsksWhere, CaughtTelling, FailedWhy
  <1>5. HoldsWhere'
    BY <1>1, <1>2 DEF HoldsWhere, Handling, Free, L!Dispatching
  <1>6. JoinedFlies'
    BY <1>1, <1>2 DEF JoinedFlies
  <1>7. ReadyClaimed'
    BY <1>1, <1>2 DEF ReadyClaimed
  <1> QED BY <1>3, <1>4, <1>5, <1>6, <1>7

\* The flight comes to an end, or tells its handlers.
LEMMA FlightKeeps ==
  ASSUME Inv, NEW p \in Goroutines, Renewed(p) \/ NotRenewed(p) \/ Told(p)
  PROVE  Inv'
  <1> USE Members DEF Inv, TypeOK, L!TypeOK, F!Phases
  <1>1. UNCHANGED <<connected, slot, loggedOut, cancelled, cpc, lpc, mine, held,
                    joined, caught>>
    BY DEF Renewed, NotRenewed, Told, lifecycle, F!Succeeds, F!Finish
  <1>2. held[p] = None /\ p \notin caught
    BY DEF Renewed, NotRenewed, Told, F!Succeeds, F!Finish, Busy, HoldsWhere, Handling,
           Free, CaughtTelling
  <1>3. CASE Renewed(p)
    <2>1. /\ phase[p] = "leading" /\ phase' = [phase EXCEPT ![p] = "telling"]
          /\ ~lost /\ lost' \in BOOLEAN /\ UNCHANGED <<leader, err, failed, offline>>
      BY <1>3 DEF Renewed, F!Succeeds, F!Goto
    <2>2. TypeOK'
      BY <1>1, <2>1
    <2>3. AsksWhere' /\ CaughtTelling' /\ FailedWhy'
      BY <1>1, <2>1 DEF AsksWhere, CaughtTelling, FailedWhy
    <2>4. HoldsWhere'
      BY <1>1, <1>2, <2>1 DEF HoldsWhere, Handling, Free, L!Dispatching
    <2>5. JoinedFlies'
      BY <1>1, <2>1 DEF JoinedFlies
    <2>6. ReadyClaimed'
      BY <1>1, <2>1 DEF ReadyClaimed
    <2> QED BY <2>2, <2>3, <2>4, <2>5, <2>6
  <1>4. CASE NotRenewed(p) \/ Told(p)
    <2>1. /\ phase[p] \in {"leading", "telling"} /\ phase' = [phase EXCEPT ![p] = "leaving"]
          /\ leader' = None /\ err' \in BOOLEAN
          /\ lost' \in BOOLEAN /\ (lost => lost')
          /\ offline' \in {offline, offline \cup {p}}
      BY <1>4 DEF NotRenewed, Told, F!Finish, F!Goto
    <2>2. /\ failed' \subseteq failed \cup {p} /\ failed \subseteq failed'
          /\ p \in Loops \cap failed' => lost' \/ p \in offline' \cup cancelled
      <3>1. CASE NotRenewed(p)
        BY <3>1 DEF NotRenewed, F!Finish, MayEnd
      <3>2. CASE Told(p)
        <4>1. failed' = failed /\ phase[p] = "telling"
          BY <3>2 DEF Told, F!Finish
        <4> QED BY <4>1 DEF FailedWhy
      <3> QED BY <1>4, <3>1, <3>2
    <2>3. TypeOK'
      BY <1>1, <2>1, <2>2
    <2>4. AsksWhere' /\ CaughtTelling'
      BY <1>1, <1>2, <2>1 DEF AsksWhere, CaughtTelling
    <2>5. FailedWhy'
      BY <1>1, <2>1, <2>2 DEF FailedWhy
    <2>6. HoldsWhere'
      BY <1>1, <1>2, <2>1 DEF HoldsWhere, Handling, Free, L!Dispatching
    <2>7. JoinedFlies'
      BY <1>1, <2>1 DEF JoinedFlies
    <2>8. ReadyClaimed'
      BY <1>1, <2>1 DEF ReadyClaimed
    <2> QED BY <2>3, <2>4, <2>5, <2>6, <2>7, <2>8
  <1> QED BY <1>3, <1>4

\* do returns, and with it the tryRefresh of a loop.
LEMMA ReturnKeeps ==
  ASSUME Inv, NEW p \in Goroutines, Return(p)
  PROVE  Inv'
  <1> USE Members DEF Inv, TypeOK, L!TypeOK, F!Phases
  <1>1. /\ UNCHANGED <<connected, slot, loggedOut, cancelled, cpc, mine, held,
                       leader, err, lost, caught>>
        /\ offline' = offline \ {p}
        /\ phase[p] \in {"leaving", "woken"}
        /\ failed' \in {failed, failed \ {p}}
    BY DEF Return, lifecycle, F!Wake, F!Return, L!Refreshed
  <1>2. /\ lpc' \in [Loops -> L!LoopStates]
        /\ \A l \in Loops : \/ lpc'[l] = lpc[l]
                            \/ /\ l = p /\ lpc[l] = "refresh"
                               /\ lpc'[l] \in {"report", "reclaim", "giveUp"}
    <2>1. CASE p \in Loops /\ lpc[p] = "refresh"
      <3>1. PICK next \in {"report", "reclaim", "giveUp"} : lpc' = [lpc EXCEPT ![p] = next]
        BY <2>1 DEF Return, L!Refreshed
      <3> QED BY <2>1, <3>1 DEF L!LoopStates
    <2>2. CASE ~(p \in Loops /\ lpc[p] = "refresh")
      BY <2>2 DEF Return, lifecycle
    <2> QED BY <2>1, <2>2
  <1>3. /\ phase' \in [Goroutines -> F!Phases] /\ phase'[p] = "idle"
        /\ joined' \in [Goroutines -> Goroutines \cup {None}]
        /\ \A g \in Goroutines : \/ phase'[g] = phase[g]
                                 \/ phase[g] = "waiting" /\ phase'[g] = "woken"
                                 \/ g = p
        /\ \A f \in Goroutines : phase'[f] = "waiting" =>
             phase[f] = "waiting" /\ joined'[f] = joined[f]
                /\ (joined[f] = p => phase[p] # "leaving")
    <2>1. CASE F!Wake(p)
      BY <2>1 DEF F!Wake, F!Followers
    <2>2. CASE F!Return(p)
      BY <2>2 DEF F!Return, F!Goto
    <2> QED BY <2>1, <2>2 DEF Return
  <1>4. held[p] = None /\ p \notin caught
    BY <1>1 DEF HoldsWhere, Handling, Free, CaughtTelling
  <1>5. TypeOK'
    BY <1>1, <1>2, <1>3
  <1>6. AsksWhere' /\ CaughtTelling'
    BY <1>1, <1>2, <1>3, <1>4 DEF AsksWhere, CaughtTelling
  <1>7. FailedWhy'
    <2>1. p \in failed => failed' = failed \ {p} \/ p \notin Loops
      BY <1>1 DEF Return, F!Wake, F!Return, FailedWhy
    <2>2. \A l \in Loops \cap failed' : phase'[l] = "leaving"
      BY <1>1, <1>3, <2>1 DEF FailedWhy
    <2>3. p \notin Loops \cap failed'
      BY <1>3, <2>2
    <2> QED BY <1>1, <2>2, <2>3 DEF FailedWhy
  <1>8. HoldsWhere'
    BY <1>1, <1>2, <1>3, <1>4 DEF HoldsWhere, Handling, Free, L!Dispatching
  <1>9. JoinedFlies'
    BY <1>1, <1>3 DEF JoinedFlies
  <1>10. ReadyClaimed'
    BY <1>1, <1>2 DEF ReadyClaimed
  <1> QED BY <1>5, <1>6, <1>7, <1>8, <1>9, <1>10

-----------------------------------------------------------------------------
\* Every step keeps Inv.
LEMMA InvStep == Inv /\ [Next]_vars => Inv'
  <1> SUFFICES ASSUME Inv, [Next]_vars PROVE Inv'
    OBVIOUS
  <1>1. ASSUME NEW c \in Callers, CallerCalls(c) \/ CallerGoesOn(c) PROVE Inv'
    <2>1. c \in Goroutines
      BY Members
    <2> QED BY <1>1, <2>1, ConnectKeeps, CallKeeps DEF CallerCalls
  <1>2. ASSUME NEW g \in Goroutines, DisconnectGoesOn(g) \/ HandlerDisconnects(g) PROVE Inv'
    BY <1>2, DisconnectKeeps, CallKeeps
  <1>3. ASSUME NEW g \in Goroutines, Ask(g) \/ HandlerAsks(g) PROVE Inv'
    BY <1>3, AskKeeps
  <1>4. ASSUME NEW g \in Goroutines, RefreshGoesOn(g) PROVE Inv'
    BY <1>4, EnterKeeps, FlightKeeps, ReturnKeeps DEF RefreshGoesOn
  <1>5. ASSUME NEW l \in Loops, StopPolling(l) \/ LoopGoesOn(l) PROVE Inv'
    BY <1>5, StopKeeps, LoopKeeps
  <1>6. CASE UNCHANGED vars
    <2>1. UNCHANGED <<connected, slot, loggedOut, cancelled, cpc, lpc, mine, held,
                      leader, phase, joined, err, failed, lost, offline, caught>>
      BY <1>6 DEF vars, lifecycle, flights
    <2> QED BY <2>1 DEF Inv, TypeOK, L!TypeOK, AsksWhere, CaughtTelling, HoldsWhere, Handling,
                        Free, L!Dispatching, JoinedFlies, ReadyClaimed, FailedWhy
  <1> QED BY <1>1, <1>2, <1>3, <1>4, <1>5, <1>6 DEF Next

\* Inv holds in every reachable state.
LEMMA Invariance == Spec => []Inv
  BY InvInit, InvStep, PTL DEF Spec

\* Type correctness: every variable of the client and of its flights keeps its
\* type.
THEOREM TypeCorrect == Spec => []TypeOK
  <1>1. Inv => TypeOK
    BY DEF Inv
  <1> QED BY <1>1, Invariance, PTL

\* Only a loop that returns from its refresh gives up.
LEMMA GivesUpReturning ==
  ASSUME Inv, [Next]_vars, NEW l \in Loops, lpc[l] = "refresh", lpc'[l] = "giveUp"
  PROVE  Return(l)
  <1> USE Members DEF Inv, TypeOK, L!TypeOK
  <1>1. ASSUME NEW c \in Callers, CallerCalls(c) \/ CallerGoesOn(c) PROVE FALSE
    <2>1. CASE lpc' = lpc
      BY <2>1
    <2>2. CASE L!ConnectClaim(c)
      BY <2>2 DEF L!ConnectClaim
    <2>3. CASE L!ConnectSpawn(c)
      BY <2>3 DEF L!ConnectSpawn
    <2> QED BY <1>1, <2>1, <2>2, <2>3
      DEF CallerCalls, CallerGoesOn, L!ConnectStep, L!ConnectCheck, L!ConnectVerify,
          L!ConnectRefused, L!CallDisconnect
  <1>2. ASSUME NEW g \in Goroutines,
               \/ DisconnectGoesOn(g) \/ HandlerDisconnects(g) \/ Ask(g) \/ HandlerAsks(g)
               \/ Enter(g) \/ Renewed(g) \/ NotRenewed(g) \/ Told(g)
        PROVE  lpc' = lpc
    BY <1>2 DEF DisconnectGoesOn, HandlerDisconnects, Ask, HandlerAsks, Enter, Renewed,
                NotRenewed, Told, L!DisconnectStep, L!Cancel, L!Await, L!DisconnectReturns,
                lifecycle
  <1>3. ASSUME NEW p \in Goroutines, Return(p), p # l PROVE FALSE
    BY <1>3 DEF Return, L!Refreshed, lifecycle
  <1>4. ASSUME NEW k \in Loops, StopPolling(k) \/ LoopGoesOn(k) PROVE FALSE
    <2>1. k # l
      BY <1>4 DEF StopPolling, LoopGoesOn, L!StopPolling, L!Reclaim, L!Bereft, L!GiveUp, L!LoopEnds
    <2>2. CASE L!Reclaim(k)
      BY <2>1, <2>2 DEF L!Reclaim
    <2>3. CASE L!StopPolling(k) \/ L!Bereft(k) \/ L!GiveUp(k) \/ L!LoopEnds(k)
      BY <2>1, <2>3 DEF L!StopPolling, L!Bereft, L!GiveUp, L!LoopEnds
    <2> QED BY <1>4, <2>2, <2>3 DEF StopPolling, LoopGoesOn
  <1>5. lpc' # lpc
    OBVIOUS
  <1>6. CASE UNCHANGED vars
    BY <1>5, <1>6 DEF vars, lifecycle
  <1> QED BY <1>1, <1>2, <1>3, <1>4, <1>5, <1>6 DEF Next, RefreshGoesOn

\* A loop gives the session up for what became of the flight that it led or heard
\* of: it cannot be refreshed any more, or the network or VK ID failed the refresh.
THEOREM GivesUpForCause == Spec => GivesUpForItsFlight
  <1>1. ASSUME Inv, [Next]_vars, NEW l \in Loops, lpc[l] = "refresh", lpc'[l] = "giveUp"
        PROVE  lost \/ l \in offline \/ phase[l] = "woken"
    <2>1. Return(l) /\ l \in Goroutines
      BY <1>1, GivesUpReturning, Members
    <2>2. L!Refreshed(l) /\ Result(l)
      BY <1>1, <2>1 DEF Return
    <2>3. l \notin cancelled
      BY <1>1, <2>2 DEF L!Refreshed, Inv, TypeOK, L!TypeOK
    <2> QED BY <2>2, <2>3, <1>1 DEF Result, Inv, FailedWhy
  <1> DEFINE Step == \A l \in Loops : lpc[l] = "refresh" /\ lpc'[l] = "giveUp"
                        => lost \/ l \in offline \/ phase[l] = "woken"
  <1>2. Inv /\ [Next]_vars => [Step]_vars
    BY <1>1
  <1> HIDE DEF Step
  <1>3. Spec => [][Step]_vars
    BY <1>2, Invariance, PTL DEF Spec
  <1> QED BY <1>3 DEF GivesUpForItsFlight, Step

-----------------------------------------------------------------------------
\* Whom a goroutine waits for, case by case: Inv makes the cases exclusive.
LEMMA WaitsWhom ==
  ASSUME Inv, NEW g \in Goroutines, g \notin caught
  PROVE  /\ held[g] # None => WaitsOn(g) = held[g]
         /\ held[g] = None /\ phase[g] = "waiting" => WaitsOn(g) = joined[g]
         /\ held[g] = None /\ phase[g] # "waiting" /\ g \in Loops /\ lpc[g] = "ready"
              => WaitsOn(g) = Starter(g)
         /\ held[g] = None /\ phase[g] # "waiting" /\ ~(g \in Loops /\ lpc[g] = "ready")
              => WaitsOn(g) = None
  <1>0. /\ held[g] # None \/ phase[g] = "waiting" => ~(g \in Loops /\ lpc[g] = "ready")
        /\ held[g] # None => phase[g] # "waiting"
    BY Members DEF Inv, TypeOK, L!TypeOK, HoldsWhere, AsksWhere, Handling, Free, L!Dispatching
  <1> USE <1>0
  <1>1. CASE held[g] # None
    BY <1>1 DEF WaitsOn
  <1>2. CASE held[g] = None /\ phase[g] = "waiting"
    BY <1>2 DEF WaitsOn
  <1>3. CASE held[g] = None /\ phase[g] # "waiting" /\ g \in Loops /\ lpc[g] = "ready"
    BY <1>3 DEF WaitsOn
  <1>4. CASE held[g] = None /\ phase[g] # "waiting" /\ ~(g \in Loops /\ lpc[g] = "ready")
    BY <1>4 DEF WaitsOn
  <1> QED BY <1>1, <1>2, <1>3, <1>4

\* Goroutines that wait for each other have a handler among them that made a
\* call which waits.
LEMMA CycleHasHandler ==
  ASSUME Inv, NEW S \in SUBSET Goroutines, \A g \in S : WaitsOn(g) \in S, S # {}
  PROVE  \E h \in S : Handling(h) /\ Busy(h)
  <1> SUFFICES ASSUME \A h \in S : ~(Handling(h) /\ Busy(h))
               PROVE  FALSE
    OBVIOUS
  <1> USE Members DEF Inv, TypeOK, L!TypeOK
  <1>1. \A h \in S : /\ h \notin caught
                     /\ held[h] # None => h \in Callers /\ phase[h] = "idle"
                                          /\ cpc[h] = "leaving"
    BY DEF CaughtTelling, Handling, Busy, HoldsWhere
  <1>2. \A h \in S : WaitsOn(h) # None
    OBVIOUS
  <1>3. ASSUME NEW h \in S, held[h] = None, phase[h] = "waiting"
        PROVE  FALSE
    <2>1. WaitsOn(h) = joined[h] /\ joined[h] \in S
      BY <1>1, <1>3, WaitsWhom
    <2>2. PICK q \in S : phase[q] \in {"leading", "telling", "leaving"}
      BY <1>3, <2>1 DEF JoinedFlies
    <2>3. held[q] = None /\ ~(q \in Loops /\ lpc[q] = "ready")
      BY <1>1, <2>2 DEF AsksWhere
    <2> QED BY <1>1, <1>2, <2>2, <2>3, WaitsWhom
  <1>4. ASSUME NEW l \in S, l \in Loops, lpc[l] = "ready", held[l] = None
        PROVE  FALSE
    <2>1. PICK c \in S : c \in Callers /\ mine[c] = l
      BY <1>1, <1>3, <1>4, WaitsWhom DEF ReadyClaimed, Starter
    <2>2. cpc[c] = "announce" /\ c \notin Loops
      BY <2>1 DEF ReadyClaimed
    <2>3. held[c] = None
      BY <1>1, <2>2
    <2>4. phase[c] # "waiting"
      BY <1>3, <2>3
    <2> QED BY <1>1, <1>2, <2>2, <2>3, <2>4, WaitsWhom
  <1>5. \A h \in S : held[h] # None
    BY <1>1, <1>2, <1>3, <1>4, WaitsWhom
  <1>6. \A h \in S : h \in Callers /\ held[h] \in Loops /\ held[h] \in S
    BY <1>1, <1>5, WaitsWhom
  <1> QED BY <1>6

\* Goroutines that wait for each other, for ever, are there only when a handler
\* called Disconnect or the API: locks, flights and done channels alone do not
\* bring it about.
THEOREM NoOtherDeadlock == Spec => []DeadlockNeedsHandler
  <1>1. Inv => DeadlockNeedsHandler
    <2> SUFFICES ASSUME Inv, Deadlocked # {}
                 PROVE  \E g \in Deadlocked : Handling(g) /\ Busy(g)
      BY DEF DeadlockNeedsHandler
    <2>1. PICK S \in SUBSET Goroutines : S # {} /\ \A g \in S : WaitsOn(g) \in S
      BY DEF Deadlocked
    <2>2. S \subseteq Deadlocked
      BY <2>1 DEF Deadlocked
    <2> QED BY <2>1, <2>2, CycleHasHandler
  <1> QED BY <1>1, Invariance, PTL

-----------------------------------------------------------------------------
\* A handler disconnects where Lifecycle has one that may.
LEMMA HandlerPlace ==
  ASSUME Inv, NEW g \in Goroutines, Handling(g)
  PROVE  L!InHandler(g)
  BY Members DEF Inv, AsksWhere, Handling, Free, L!InHandler, L!Dispatching

\* Every step is one of Lifecycle or leaves its variables alone.
LEMMA LifecycleStep == Inv /\ [Next]_vars => [L!Next]_(L!vars)
  <1> SUFFICES ASSUME Inv, Next \/ UNCHANGED vars PROVE L!Next \/ UNCHANGED L!vars
    BY DEF L!vars, vars
  <1> USE DEF L!Next
  <1>1. ASSUME NEW c \in Callers, CallerCalls(c) \/ CallerGoesOn(c) PROVE L!Next
    BY <1>1 DEF CallerCalls, CallerGoesOn
  <1>2. ASSUME NEW g \in Goroutines, DisconnectGoesOn(g) PROVE L!Next
    BY <1>2, Members DEF DisconnectGoesOn
  <1>3. ASSUME NEW g \in Goroutines, HandlerDisconnects(g) PROVE L!Next
    BY <1>3, Members, HandlerPlace DEF HandlerDisconnects, L!HandlerDisconnects
  <1>4. ASSUME NEW g \in Goroutines,
               Ask(g) \/ HandlerAsks(g) \/ Enter(g) \/ Renewed(g) \/ NotRenewed(g) \/ Told(g)
        PROVE  UNCHANGED L!vars
    BY <1>4 DEF Ask, HandlerAsks, Enter, Renewed, NotRenewed, Told, lifecycle, L!vars
  <1>5. ASSUME NEW p \in Goroutines, Return(p) PROVE L!Next \/ UNCHANGED L!vars
    BY <1>5 DEF Return, lifecycle, L!vars, L!LoopStep
  <1>6. ASSUME NEW l \in Loops, StopPolling(l) \/ LoopGoesOn(l) PROVE L!Next
    BY <1>6 DEF StopPolling, LoopGoesOn, L!LoopStep
  <1>7. CASE UNCHANGED vars
    BY <1>7 DEF vars, lifecycle, L!vars
  <1> QED BY <1>1, <1>2, <1>3, <1>4, <1>5, <1>6, <1>7 DEF Next, RefreshGoesOn

\* Flights under way, their contexts and handlers in them let the life cycle do
\* nothing that Lifecycle does not do: what is proved there is true of the client.
THEOREM LifecycleKept == Spec => L!Spec
  <1>1. Init => L!Init
    BY DEF Init
  <1> QED BY <1>1, LifecycleStep, Invariance, PTL DEF Spec, L!Spec
=============================================================================
