--------------------------- MODULE LifecycleProofs ---------------------------
(***************************************************************************)
(* Proofs about Lifecycle, for any set of callers and of loops, with or    *)
(* without handlers that call Disconnect.  The inductive invariant is Inv: *)
(* the safety properties are not inductive without ConnectOwnsLoop (which  *)
(* Connect starts which loop), Reachable (a live loop leaves no other loop *)
(* in the slot) and TakenIsGone (a loop that was taken is not in the slot).*)
(***************************************************************************)
EXTENDS Lifecycle, TLAPS

ConnectOwnsLoop ==
    /\ \A c \in Callers : cpc[c] = "announce" => lpc[mine[c]] = "ready"
    /\ \A c, d \in Callers : cpc[c] = "announce" /\ cpc[d] = "announce" => c = d

Reachable ==
    \A l \in Loops : Live(l) => \/ slot = l
                                \/ slot = None /\ \E g \in Goroutines : held[g] = l

TakenIsGone == \A g \in Goroutines : held[g] # None => held[g] # slot

Inv == /\ TypeOK
       /\ OneLoop
       /\ ConnectedMeansLive
       /\ ConnectOwnsLoop
       /\ Reachable
       /\ TakenIsGone

-----------------------------------------------------------------------------
\* None is no goroutine, no caller and no loop.
LEMMA NoneIsNoLoop == None \notin Loops /\ None \notin Callers
  BY NoneAssumption DEF Goroutines

\* Every step keeps the types.
LEMMA TypeStep == TypeOK /\ [Next]_vars => TypeOK'
  <1> SUFFICES ASSUME TypeOK, [Next]_vars PROVE TypeOK'
    OBVIOUS
  <1> USE NoneIsNoLoop DEF TypeOK, CallerStates, LoopStates, Goroutines
  <1>1. ASSUME NEW c \in Callers, ConnectCheck(c) PROVE TypeOK'
    BY <1>1 DEF ConnectCheck
  <1>2. ASSUME NEW c \in Callers, ConnectVerify(c) PROVE TypeOK'
    BY <1>2 DEF ConnectVerify
  <1>3. ASSUME NEW c \in Callers, ConnectClaim(c) PROVE TypeOK'
    BY <1>3 DEF ConnectClaim
  <1>4. ASSUME NEW c \in Callers, ConnectRefused(c) PROVE TypeOK'
    BY <1>4 DEF ConnectRefused
  <1>5. ASSUME NEW c \in Callers, ConnectSpawn(c) PROVE TypeOK'
    BY <1>5 DEF ConnectSpawn, NewLoop, AfterSpawn
  <1>6. ASSUME NEW c \in Callers, CallDisconnect(c) \/ CallLogout(c) PROVE TypeOK'
    BY <1>6 DEF CallDisconnect, CallLogout, TakeSlot
  <1>7. ASSUME NEW c \in Callers, DisconnectReturns(c) \/ LogoutStep(c) PROVE TypeOK'
    BY <1>7 DEF DisconnectReturns, LogoutStep, LogoutFlag, LogoutRevoke, LogoutReturns
  <1>8. ASSUME NEW g \in Goroutines, DisconnectStep(g) \/ HandlerDisconnects(g)
        PROVE TypeOK'
    BY <1>8 DEF DisconnectStep, Cancel, Await, HandlerDisconnects, TakeSlot
  <1>9. ASSUME NEW l \in Loops, StopPolling(l) PROVE TypeOK'
    <2>1. PICK next \in {"refresh", "report"} : lpc' = [lpc EXCEPT ![l] = next]
      BY <1>9 DEF StopPolling
    <2>2. lpc' \in [Loops -> LoopStates]
      BY <2>1
    <2> QED BY <1>9, <2>2 DEF StopPolling
  <1>10. ASSUME NEW l \in Loops, Refreshed(l) PROVE TypeOK'
    <2>1. CASE l \in cancelled
      BY <1>10, <2>1 DEF Refreshed
    <2>2. CASE l \notin cancelled
      BY <1>10, <2>2 DEF Refreshed
    <2> QED BY <2>1, <2>2
  <1>11. ASSUME NEW l \in Loops, Reclaim(l) PROVE TypeOK'
    BY <1>11 DEF Reclaim, Ended, Reconnected
  <1>12. ASSUME NEW l \in Loops, Bereft(l) \/ GiveUp(l) \/ LoopEnds(l) PROVE TypeOK'
    BY <1>12 DEF Bereft, Ended, GiveUp, LoopEnds
  <1>13. CASE UNCHANGED vars
    BY <1>13 DEF vars
  <1> QED
    BY <1>1, <1>2, <1>3, <1>4, <1>5, <1>6, <1>7, <1>8, <1>9, <1>10, <1>11, <1>12, <1>13
    DEF Next, ConnectStep, LoopStep

\* Type correctness: every variable keeps its type, and a Connect that
\* announces has a loop to start.
THEOREM TypeCorrect == Spec => []TypeOK
  <1>1. Init => TypeOK
    BY NoneIsNoLoop DEF Init, TypeOK, CallerStates, LoopStates
  <1> QED BY <1>1, TypeStep, PTL DEF Spec

-----------------------------------------------------------------------------
\* Initially there is no loop at all.
LEMMA InvInit == Init => Inv
  BY NoneIsNoLoop
  DEF Init, Inv, TypeOK, CallerStates, LoopStates, OneLoop, ConnectedMeansLive,
      ConnectOwnsLoop, Reachable, TakenIsGone, Live

\* Under Inv no loop is live when connected is clear, nor when the loop of the
\* slot is past polling.
LEMMA NobodyLive ==
  ASSUME Inv,
         \/ ~connected
         \/ \E l \in Loops : slot = l /\ ~Live(l)
  PROVE  \A k \in Loops : ~Live(k)
  BY NoneIsNoLoop DEF Inv, ConnectedMeansLive, Reachable

\* A step that moves no loop into, out of or within its live states and keeps
\* connected, mine, held and the slot keeps Inv.
LEMMA QuietStep ==
  ASSUME Inv, TypeOK',
         connected' = connected, slot' = slot, mine' = mine, held' = held,
         \A l \in Loops : \/ lpc'[l] = lpc[l]
                         \/ {lpc[l], lpc'[l]} \cap {"ready", "polling"} = {},
         \A c \in Callers : cpc'[c] = "announce" => cpc[c] = "announce"
  PROVE  Inv'
  <1> USE DEF Inv
  <1>1. \A l \in Loops : Live(l)' <=> Live(l)
    BY DEF Live
  <1>2. OneLoop' /\ ConnectedMeansLive'
    BY <1>1 DEF OneLoop, ConnectedMeansLive
  <1>3. ConnectOwnsLoop'
    BY DEF ConnectOwnsLoop, Live, TypeOK
  <1>4. Reachable' /\ TakenIsGone'
    BY <1>1 DEF Reachable, TakenIsGone
  <1> QED BY <1>2, <1>3, <1>4

\* Taking the slot keeps Inv, whoever takes it.
LEMMA TakeStep ==
  ASSUME Inv, TypeOK', NEW g \in Goroutines, TakeSlot(g),
         UNCHANGED <<connected, lpc, mine>>,
         \A c \in Callers : cpc'[c] = "announce" => cpc[c] = "announce"
  PROVE  Inv'
  <1> USE DEF Inv, TakeSlot
  <1>1. \A l \in Loops : Live(l)' <=> Live(l)
    BY DEF Live
  <1>2. OneLoop' /\ ConnectedMeansLive' /\ ConnectOwnsLoop'
    BY <1>1 DEF OneLoop, ConnectedMeansLive, ConnectOwnsLoop
  <1>3. Reachable'
    <2> SUFFICES ASSUME NEW l \in Loops, Live(l)
                 PROVE  slot' = None /\ \E h \in Goroutines : held'[h] = l
      BY <1>1 DEF Reachable
    <2>1. CASE slot = l
      BY <2>1 DEF TypeOK
    <2>2. CASE slot # l
      BY <2>2, NoneIsNoLoop DEF Reachable, TypeOK
    <2> QED BY <2>1, <2>2
  <1>4. TakenIsGone'
    BY DEF TakenIsGone
  <1> QED BY <1>2, <1>3, <1>4

\* A loop that enters the slot as the only live one keeps Inv.
LEMMA StartStep ==
  ASSUME Inv, TypeOK',
         NEW l \in Loops, Fresh(l),
         slot' = l, connected' = TRUE, held' = held,
         Live(l)',
         \A k \in Loops : k # l => ~Live(k)',
         ConnectOwnsLoop'
  PROVE  Inv'
  <1>1. OneLoop' /\ ConnectedMeansLive'
    BY DEF OneLoop, ConnectedMeansLive
  <1>2. Reachable' /\ TakenIsGone'
    BY DEF Reachable, TakenIsGone, Fresh
  <1> QED BY <1>1, <1>2 DEF Inv

\* Every step keeps Inv.
LEMMA InvStep == Inv /\ [Next]_vars => Inv'
  <1> SUFFICES ASSUME Inv, [Next]_vars PROVE Inv'
    OBVIOUS
  <1>t. TypeOK /\ TypeOK'
    BY TypeStep DEF Inv
  <1>1. ASSUME NEW c \in Callers, ConnectCheck(c) \/ ConnectVerify(c) \/ ConnectRefused(c)
        PROVE  Inv'
    BY <1>1, <1>t, QuietStep DEF ConnectCheck, ConnectVerify, ConnectRefused, TypeOK
  <1>2. ASSUME NEW c \in Callers, ConnectClaim(c) PROVE Inv'
    <2>1. \A k \in Loops : ~Live(k)
      BY <1>2, NobodyLive DEF ConnectClaim, StillFree
    <2>2. \A d \in Callers : cpc[d] # "announce"
      BY <2>1, <1>t DEF Inv, ConnectOwnsLoop, Live, TypeOK
    <2>3. PICK l \in Loops :
            /\ Fresh(l)
            /\ slot' = l
            /\ mine' = [mine EXCEPT ![c] = l]
            /\ lpc' = [lpc EXCEPT ![l] = "ready"]
      BY <1>2 DEF ConnectClaim
    <2>4. Live(l)' /\ \A k \in Loops : k # l => ~Live(k)'
      BY <2>1, <2>3, <1>t DEF Live, TypeOK
    <2>5. ConnectOwnsLoop'
      BY <1>2, <2>2, <2>3, <1>t DEF ConnectClaim, ConnectOwnsLoop, TypeOK
    <2> QED
      BY <1>2, <1>t, <2>3, <2>4, <2>5, StartStep DEF ConnectClaim
  <1>3. ASSUME NEW c \in Callers, ConnectSpawn(c) PROVE Inv'
    <2> USE <1>3, <1>t DEF ConnectSpawn, NewLoop, AfterSpawn
    <2>1. mine[c] \in Loops /\ lpc[mine[c]] = "ready"
      BY DEF Inv, ConnectOwnsLoop, TypeOK
    <2>2. \A l \in Loops : Live(l)' <=> Live(l)
      BY <2>1 DEF Live, TypeOK
    <2>3. OneLoop' /\ ConnectedMeansLive' /\ Reachable' /\ TakenIsGone'
      BY <2>2 DEF Inv, OneLoop, ConnectedMeansLive, Reachable, TakenIsGone
    <2>4. ConnectOwnsLoop'
      BY DEF Inv, ConnectOwnsLoop, TypeOK
    <2> QED BY <2>3, <2>4 DEF Inv
  <1>4. ASSUME NEW c \in Callers, CallDisconnect(c) \/ CallLogout(c) PROVE Inv'
    BY <1>4, <1>t, TakeStep DEF CallDisconnect, CallLogout, TypeOK, Goroutines
  <1>5. ASSUME NEW c \in Callers, DisconnectReturns(c) \/ LogoutStep(c) PROVE Inv'
    BY <1>5, <1>t, QuietStep
    DEF DisconnectReturns, LogoutStep, LogoutFlag, LogoutRevoke, LogoutReturns, TypeOK
  <1>6. ASSUME NEW g \in Goroutines, Cancel(g) PROVE Inv'
    BY <1>6, <1>t, QuietStep DEF Cancel
  <1>7. ASSUME NEW g \in Goroutines, Await(g) PROVE Inv'
    <2> USE <1>7, <1>t DEF Await
    <2>1. \A l \in Loops : Live(l)' <=> Live(l)
      BY DEF Live
    <2>2. OneLoop' /\ ConnectedMeansLive' /\ ConnectOwnsLoop' /\ TakenIsGone'
      BY <2>1 DEF Inv, OneLoop, ConnectedMeansLive, ConnectOwnsLoop, TakenIsGone, TypeOK
    <2>3. Reachable'
      BY <2>1 DEF Inv, Reachable, MayReturn, Closed, Live, TypeOK
    <2> QED BY <2>2, <2>3 DEF Inv
  <1>8. ASSUME NEW g \in Goroutines, HandlerDisconnects(g) PROVE Inv'
    BY <1>8, <1>t, TakeStep DEF HandlerDisconnects
  <1>9. ASSUME NEW l \in Loops, StopPolling(l) PROVE Inv'
    <2> USE <1>9, <1>t DEF StopPolling
    <2>1. \A k \in Loops : ~Live(k)'
      BY DEF Inv, OneLoop, Live, TypeOK
    <2>2. OneLoop' /\ ConnectedMeansLive' /\ Reachable'
      BY <2>1 DEF OneLoop, ConnectedMeansLive, Reachable
    <2>3. \A c \in Callers : cpc[c] # "announce"
      <3> SUFFICES ASSUME NEW c \in Callers, cpc[c] = "announce" PROVE FALSE
        OBVIOUS
      <3>1. mine[c] \in Loops /\ lpc[mine[c]] = "ready"
        BY DEF Inv, ConnectOwnsLoop, TypeOK
      <3> QED BY <3>1 DEF Inv, OneLoop, Live
    <2>4. ConnectOwnsLoop' /\ TakenIsGone'
      BY <2>3 DEF Inv, ConnectOwnsLoop, TakenIsGone
    <2> QED BY <2>2, <2>4 DEF Inv
  <1>10. ASSUME NEW l \in Loops, Refreshed(l) PROVE Inv'
    <2>1. PICK next \in {"report", "reclaim", "giveUp"} : lpc' = [lpc EXCEPT ![l] = next]
      BY <1>10 DEF Refreshed
    <2>2. \A k \in Loops : \/ lpc'[k] = lpc[k]
                            \/ {lpc[k], lpc'[k]} \cap {"ready", "polling"} = {}
      BY <1>10, <2>1, <1>t DEF Refreshed, TypeOK
    <2> QED BY <1>10, <2>2, <1>t, QuietStep DEF Refreshed
  <1>11. ASSUME NEW l \in Loops, Reclaim(l) PROVE Inv'
    <2>1. \A k \in Loops : ~Live(k)
      BY <1>11, NobodyLive DEF Reclaim, Ended, Reconnected, StillMine, Live
    <2>2. \A d \in Callers : cpc[d] # "announce"
      BY <2>1, <1>t DEF Inv, ConnectOwnsLoop, Live, TypeOK
    <2>3. PICK n \in Loops :
            /\ Fresh(n)
            /\ slot' = n
            /\ lpc' = [lpc EXCEPT ![l] = "done", ![n] = "polling"]
      BY <1>11 DEF Reclaim, Ended, Reconnected
    <2>4. Live(n)' /\ \A k \in Loops : k # n => ~Live(k)'
      BY <2>1, <2>3, <1>t DEF Live, TypeOK
    <2>5. ConnectOwnsLoop'
      BY <1>11, <2>2 DEF Reclaim, Ended, Reconnected, ConnectOwnsLoop
    <2> QED
      BY <1>11, <1>t, <2>3, <2>4, <2>5, StartStep DEF Reclaim, Ended, Reconnected
  <1>12. ASSUME NEW l \in Loops, Bereft(l) \/ GiveUp(l) \/ LoopEnds(l) PROVE Inv'
    <2>1. \A k \in Loops : \/ lpc'[k] = lpc[k]
                            \/ {lpc[k], lpc'[k]} \cap {"ready", "polling"} = {}
      BY <1>12, <1>t DEF Bereft, Ended, GiveUp, LoopEnds, TypeOK
    <2> QED BY <1>12, <2>1, <1>t, QuietStep DEF Bereft, Ended, GiveUp, LoopEnds
  <1>13. CASE UNCHANGED vars
    BY <1>13, <1>t, QuietStep DEF vars
  <1> QED
    BY <1>1, <1>2, <1>3, <1>4, <1>5, <1>6, <1>7, <1>8, <1>9, <1>10, <1>11, <1>12, <1>13
    DEF Next, ConnectStep, DisconnectStep, LoopStep

\* The inductive invariant holds in every reachable state.
LEMMA Invariance == Spec => []Inv
  BY InvInit, InvStep, PTL DEF Spec

-----------------------------------------------------------------------------
\* There are never two loops polling the server.
THEOREM NeverTwoLoops == Spec => []OneLoop
  <1>1. Inv => OneLoop
    BY DEF Inv
  <1> QED BY <1>1, Invariance, PTL

\* connected is set exactly while a loop runs or is about to be started.
THEOREM ConnectedIsTrue == Spec => []ConnectedMeansLive
  <1>1. Inv => ConnectedMeansLive
    BY DEF Inv
  <1> QED BY <1>1, Invariance, PTL

\* A loop that runs is in the slot, cancelled, or in the hands of a Disconnect.
THEOREM NoOrphanLoop == Spec => []Stoppable
  <1>1. Inv => Stoppable
    BY DEF Inv, Reachable, Stoppable
  <1> QED BY <1>1, Invariance, PTL

\* A loop that a Disconnect took starts no successor after its refresh.
THEOREM DisconnectHolds == Spec => DisconnectIsFinal
  <1>1. Inv /\ [Next]_vars =>
          [\A l \in Loops, g \in Goroutines :
              held[g] = l /\ lpc[l] = "reclaim" /\ lpc'[l] # "reclaim"
                  => \A k \in Loops : Live(k)' => Live(k)]_vars
    <2> SUFFICES ASSUME Inv, Next, NEW l \in Loops, NEW g \in Goroutines,
                        held[g] = l, lpc[l] = "reclaim", lpc'[l] # "reclaim",
                        NEW k \in Loops, Live(k)'
                 PROVE  Live(k)
      OBVIOUS
    <2>1. ~StillMine(l)
      BY NoneIsNoLoop DEF Inv, TakenIsGone, StillMine
    <2>2. lpc' = [lpc EXCEPT ![l] = "done"]
      <3> USE DEF Inv, TypeOK
      <3>1. ASSUME NEW c \in Callers, ConnectCheck(c) \/ ConnectStep(c) PROVE FALSE
        <4>1. ASSUME NEW n \in Loops, Fresh(n) PROVE n # l
          BY <4>1 DEF Fresh
        <4>2. ASSUME cpc[c] = "announce" PROVE mine[c] \in Loops /\ mine[c] # l
          BY <4>2 DEF ConnectOwnsLoop
        <4> QED
          BY <3>1, <4>1, <4>2
          DEF ConnectCheck, ConnectStep, ConnectVerify, ConnectClaim, ConnectRefused,
              ConnectSpawn, NewLoop
      <3>2. ASSUME NEW c \in Callers,
                   \/ CallDisconnect(c) \/ CallLogout(c)
                   \/ DisconnectReturns(c) \/ LogoutStep(c)
            PROVE  FALSE
        BY <3>2 DEF CallDisconnect, CallLogout, DisconnectReturns, LogoutStep,
                    LogoutFlag, LogoutRevoke, LogoutReturns
      <3>3. ASSUME NEW h \in Goroutines, DisconnectStep(h) \/ HandlerDisconnects(h)
            PROVE  FALSE
        BY <3>3 DEF DisconnectStep, Cancel, Await, HandlerDisconnects
      <3>4. ASSUME NEW m \in Loops, LoopStep(m), m # l PROVE FALSE
        <4>1. ASSUME Reclaim(m) PROVE FALSE
          BY <3>4, <4>1 DEF Reclaim, Ended, Reconnected, Fresh, Closed
        <4>2. ASSUME Refreshed(m) PROVE FALSE
          BY <3>4, <4>2 DEF Refreshed
        <4> QED
          BY <3>4, <4>1, <4>2 DEF LoopStep, StopPolling, Bereft, Ended, GiveUp, LoopEnds
      <3>5. LoopStep(l)
        BY <3>1, <3>2, <3>3, <3>4 DEF Next
      <3> QED
        BY <3>5, <2>1 DEF LoopStep, StopPolling, Refreshed, Reclaim, Ended, Bereft, GiveUp, LoopEnds
    <2> QED BY <2>2 DEF Inv, TypeOK, Live
  <1> QED BY <1>1, Invariance, PTL DEF Spec, DisconnectIsFinal

-----------------------------------------------------------------------------
\* The client implements the single loop: every step of Lifecycle is a step of
\* SingleLoop or leaves its variables alone.
THEOREM Refinement == Spec => ImplementsSingleLoop
  <1>1. Init => Abstract!Init
    BY DEF Init, Abstract!Init, Live
  <1>2. Inv /\ [Next]_vars => [Abstract!Next]_(Abstract!vars)
    <2> SUFFICES ASSUME Inv, [Next]_vars PROVE [Abstract!Next]_(Abstract!vars)
      OBVIOUS
    <2> DEFINE Same == /\ \A l \in Loops : Live(l)' <=> Live(l)
                       /\ UNCHANGED <<slot, held>>
    <2>s. ASSUME Same PROVE [Abstract!Next]_(Abstract!vars)
      BY <2>s DEF Abstract!vars
    <2>0. TypeOK
      BY DEF Inv
    <2>1. ASSUME NEW c \in Callers, ConnectCheck(c) \/ ConnectVerify(c) \/ ConnectRefused(c)
          PROVE  Same
      BY <2>1 DEF ConnectCheck, ConnectVerify, ConnectRefused, Live
    <2>2. ASSUME NEW c \in Callers, ConnectClaim(c) PROVE Abstract!Next
      <3>1. \A k \in Loops : ~Live(k)
        BY <2>2, NobodyLive DEF ConnectClaim, StillFree
      <3>2. PICK l \in Loops : Fresh(l) /\ slot' = l /\ lpc' = [lpc EXCEPT ![l] = "ready"]
        BY <2>2 DEF ConnectClaim
      <3>3. \A k \in Loops : Live(k)' <=> k = l
        BY <3>1, <3>2, <2>0 DEF Live, TypeOK
      <3>4. Abstract!Start(l)
        BY <2>2, <3>1, <3>2, <3>3 DEF Abstract!Start, ConnectClaim, Fresh
      <3> QED BY <3>4 DEF Abstract!Next
    <2>3. ASSUME NEW c \in Callers, ConnectSpawn(c) PROVE Same
      <3>1. mine[c] \in Loops /\ lpc[mine[c]] = "ready"
        BY <2>3 DEF Inv, ConnectOwnsLoop, TypeOK, ConnectSpawn
      <3> QED BY <2>3, <3>1, <2>0 DEF ConnectSpawn, NewLoop, AfterSpawn, Live, TypeOK
    <2>4. ASSUME NEW g \in Goroutines, TakeSlot(g), lpc' = lpc PROVE Abstract!Next
      <3>1. Abstract!Take(g)
        BY <2>4 DEF TakeSlot, Abstract!Take, Live
      <3> QED BY <3>1 DEF Abstract!Next
    <2>5. ASSUME NEW c \in Callers, CallDisconnect(c) \/ CallLogout(c) PROVE Abstract!Next
      BY <2>4, <2>5 DEF CallDisconnect, CallLogout, Goroutines
    <2>6. ASSUME NEW c \in Callers, DisconnectReturns(c) \/ LogoutStep(c) PROVE Same
      BY <2>6 DEF DisconnectReturns, LogoutStep, LogoutFlag, LogoutRevoke, LogoutReturns, Live
    <2>7. ASSUME NEW g \in Goroutines, Cancel(g) PROVE Same
      BY <2>7 DEF Cancel, Live
    <2>8. ASSUME NEW g \in Goroutines, Await(g) PROVE Abstract!Next
      <3>1. held[g] # None /\ ~Live(held[g]) /\ UNCHANGED <<slot, lpc>>
        BY <2>8, <2>0, NoneIsNoLoop DEF Await, MayReturn, Closed, Live, TypeOK
      <3>2. Abstract!Return(g)
        BY <2>8, <3>1 DEF Await, Abstract!Return, Live
      <3> QED BY <3>2 DEF Abstract!Next
    <2>9. ASSUME NEW g \in Goroutines, HandlerDisconnects(g) PROVE Abstract!Next
      BY <2>4, <2>9 DEF HandlerDisconnects
    <2>10. ASSUME NEW l \in Loops, StopPolling(l) PROVE Abstract!Next
      <3>1. Live(l) /\ \A k \in Loops : ~Live(k)'
        BY <2>10, <2>0 DEF Inv, OneLoop, StopPolling, Live, TypeOK
      <3>2. Abstract!Stop
        BY <2>10, <3>1 DEF Abstract!Stop, StopPolling
      <3> QED BY <3>2 DEF Abstract!Next
    <2>11. ASSUME NEW l \in Loops, Reclaim(l) PROVE Abstract!Next
      <3>1. \A k \in Loops : ~Live(k)
        BY <2>11, NobodyLive DEF Reclaim, Ended, Reconnected, StillMine, Live
      <3>2. PICK n \in Loops : /\ Fresh(n)
                               /\ slot' = n
                               /\ lpc' = [lpc EXCEPT ![l] = "done", ![n] = "polling"]
        BY <2>11 DEF Reclaim, Ended, Reconnected
      <3>3. \A k \in Loops : Live(k)' <=> k = n
        BY <3>1, <3>2, <2>0 DEF Live, TypeOK
      <3>4. Abstract!Start(n)
        BY <2>11, <3>1, <3>2, <3>3 DEF Abstract!Start, Reclaim, Fresh
      <3> QED BY <3>4 DEF Abstract!Next
    <2>12. ASSUME NEW l \in Loops, Refreshed(l) PROVE Same
      <3>1. PICK next \in {"report", "reclaim", "giveUp"} : lpc' = [lpc EXCEPT ![l] = next]
        BY <2>12 DEF Refreshed
      <3> QED BY <2>12, <3>1, <2>0 DEF Refreshed, Live, TypeOK
    <2>13. ASSUME NEW l \in Loops, Bereft(l) \/ GiveUp(l) \/ LoopEnds(l) PROVE Same
      BY <2>13, <2>0 DEF Bereft, Ended, GiveUp, LoopEnds, Live, TypeOK
    <2>14. CASE UNCHANGED vars
      BY <2>14, <2>s DEF vars, Live
    <2> QED
      BY <2>s, <2>1, <2>2, <2>3, <2>5, <2>6, <2>7, <2>8, <2>9, <2>10, <2>11, <2>12, <2>13,
         <2>14
      DEF Next, ConnectStep, DisconnectStep, LoopStep
  <1> QED BY <1>1, <1>2, Invariance, PTL DEF Spec, ImplementsSingleLoop, Abstract!Spec
=============================================================================
