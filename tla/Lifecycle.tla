------------------------------ MODULE Lifecycle ------------------------------
(***************************************************************************)
(* The connection life cycle of a client (govka.go): any number of         *)
(* goroutines call Connect, Disconnect and Logout on one Client while its  *)
(* long poll loops run, fail, refresh the token and start over.            *)
(*                                                                         *)
(* One step is one critical section of connMu, one operation on a context  *)
(* or a channel, or the run of something that is not modelled here: the    *)
(* users.get call of Connect, Poller.Run, the token refresh, the handlers. *)
(* Handlers run on the goroutine that dispatches; between the step that    *)
(* starts a dispatch and the one that ends it a handler may call           *)
(* Disconnect itself, when HandlersDisconnect says so.                     *)
(*                                                                         *)
(* A loop is one execution of run with its context and its done channel;   *)
(* its identity is used again once it has ended and nobody refers to it.   *)
(***************************************************************************)

CONSTANTS Callers,              \* goroutines of the application
          Loops,                \* identities of loops; bounds those in use
          None,
          HandlersDisconnect    \* do handlers call Disconnect?

Goroutines == Callers \cup Loops

ASSUME NoneAssumption == None \notin Goroutines
ASSUME DisjointAssumption == Callers \cap Loops = {}
ASSUME HandlersAssumption == HandlersDisconnect \in BOOLEAN

VARIABLES connected,    \* Client.connected
          slot,         \* Client.cancel and Client.done: the loop they belong to
          loggedOut,    \* Client.loggedOut
          cancelled,    \* loops whose context is cancelled
          cpc,          \* where each caller is
          lpc,          \* where each loop is
          mine,         \* the loop a Connect claimed and has not started yet
          held          \* the loop a Disconnect of the goroutine took

vars == <<connected, slot, loggedOut, cancelled, cpc, lpc, mine, held>>

-----------------------------------------------------------------------------
CallerStates == {"idle", "verify", "claim", "announce",   \* Connect
                 "leaving",                               \* Disconnect
                 "logout", "revoke", "goodbye"}           \* Logout

LoopStates == {"done",      \* its done channel is closed; the initial value too
               "ready",     \* claimed by a Connect, run not started yet
               "polling",   \* in Poller.Run and the handlers it calls
               "refresh",   \* in tryRefresh after an authorization failure
               "giveUp",    \* the refresh failed
               "reclaim",   \* the refresh succeeded
               "report",    \* dispatching Disconnected
               "goodbye"}   \* dispatching LoggedOut

Live(l) == lpc[l] \in {"ready", "polling"}

\* <-done returns.
Closed(l) == lpc[l] = "done"

\* An identity that nothing in memory refers to.
Fresh(l) == /\ Closed(l)
            /\ slot # l
            /\ \A g \in Goroutines : held[g] # l

\* The goroutine dispatches an event of the life cycle.
Dispatching(g) == \/ g \in Callers /\ cpc[g] \in {"announce", "goodbye"}
                  \/ g \in Loops /\ lpc[g] \in {"report", "goodbye"}

\* The goroutine is where a handler may be running: it may also dispatch an
\* update, or a TokenRefreshed on the way of any API call or of tryRefresh.
InHandler(g) == \/ Dispatching(g)
                \/ g \in Callers /\ cpc[g] \in {"idle", "verify"}
                \/ g \in Loops /\ lpc[g] \in {"polling", "refresh"}

Init == /\ connected = FALSE
        /\ slot = None
        /\ loggedOut = FALSE
        /\ cancelled = {}
        /\ cpc = [c \in Callers |-> "idle"]
        /\ lpc = [l \in Loops |-> "done"]
        /\ mine = [c \in Callers |-> None]
        /\ held = [g \in Goroutines |-> None]

-----------------------------------------------------------------------------
(* Connect *)

\* The first look at connected and loggedOut; an error leaves the caller idle.
ConnectCheck(c) ==
    /\ cpc[c] = "idle" /\ held[c] = None
    /\ ~connected /\ ~loggedOut
    /\ cpc' = [cpc EXCEPT ![c] = "verify"]
    /\ UNCHANGED <<connected, slot, loggedOut, cancelled, lpc, mine, held>>

\* users.get, with no lock held: the session is good or Connect fails.
ConnectVerify(c) ==
    /\ cpc[c] = "verify"
    /\ held[c] = None
    /\ \E next \in {"claim", "idle"} : cpc' = [cpc EXCEPT ![c] = next]
    /\ UNCHANGED <<connected, slot, loggedOut, cancelled, lpc, mine, held>>

\* Fault: Connect does not look again.
StillFree_Unchecked == TRUE

\* The second look is at connected only.
StillFree == ~connected

\* A new context and done channel go into the slot, whatever it held.
ConnectClaim(c) ==
    /\ cpc[c] = "claim"
    /\ StillFree
    /\ \E l \in Loops :
         /\ Fresh(l)
         /\ slot' = l
         /\ mine' = [mine EXCEPT ![c] = l]
         /\ lpc' = [lpc EXCEPT ![l] = "ready"]
         /\ cancelled' = cancelled \ {l}
    /\ connected' = TRUE
    /\ cpc' = [cpc EXCEPT ![c] = "announce"]
    /\ UNCHANGED <<loggedOut, held>>

\* Somebody else connected meanwhile: ErrAlreadyConnected.
ConnectRefused(c) ==
    /\ cpc[c] = "claim"
    /\ ~StillFree
    /\ cpc' = [cpc EXCEPT ![c] = "idle"]
    /\ UNCHANGED <<connected, slot, loggedOut, cancelled, lpc, mine, held>>

AfterSpawn == "idle"

\* The context and the done channel are locals of Connect.
NewLoop(c) == mine[c]

\* The handlers of Connected are through: go c.run, and Connect returns.
ConnectSpawn(c) ==
    /\ cpc[c] = "announce"
    /\ held[c] = None
    /\ lpc' = [l \in Loops |-> IF l = NewLoop(c) THEN "polling" ELSE lpc[l]]
    /\ mine' = [mine EXCEPT ![c] = None]
    /\ cpc' = [cpc EXCEPT ![c] = AfterSpawn]
    /\ UNCHANGED <<connected, slot, loggedOut, cancelled, held>>

-----------------------------------------------------------------------------
(* Disconnect, on a goroutine of its own or inside a handler *)

TakeSlot(g) ==
    /\ held[g] = None
    /\ held' = [held EXCEPT ![g] = slot]
    /\ slot' = None

\* cancel(), outside the lock.
Cancel(g) ==
    /\ held[g] # None
    /\ held[g] \notin cancelled
    /\ cancelled' = cancelled \cup {held[g]}
    /\ UNCHANGED <<connected, slot, loggedOut, cpc, lpc, mine, held>>

\* Fault: Disconnect cancels and does not wait.
MayReturn_AtOnce(g) == TRUE

\* <-done of the goroutine returns.
MayReturn(g) == Closed(held[g])

Await(g) ==
    /\ held[g] \in cancelled
    /\ MayReturn(g)
    /\ held' = [held EXCEPT ![g] = None]
    /\ UNCHANGED <<connected, slot, loggedOut, cancelled, cpc, lpc, mine>>

CallDisconnect(c) ==
    /\ cpc[c] = "idle"
    /\ TakeSlot(c)
    /\ cpc' = [cpc EXCEPT ![c] = "leaving"]
    /\ UNCHANGED <<connected, loggedOut, cancelled, lpc, mine>>

DisconnectReturns(c) ==
    /\ cpc[c] = "leaving"
    /\ held[c] = None
    /\ cpc' = [cpc EXCEPT ![c] = "idle"]
    /\ UNCHANGED <<connected, slot, loggedOut, cancelled, lpc, mine, held>>

HandlerDisconnects(g) ==
    /\ HandlersDisconnect
    /\ InHandler(g)
    /\ TakeSlot(g)
    /\ UNCHANGED <<connected, loggedOut, cancelled, cpc, lpc, mine>>

-----------------------------------------------------------------------------
(* Logout *)

CallLogout(c) ==
    /\ cpc[c] = "idle"
    /\ TakeSlot(c)
    /\ cpc' = [cpc EXCEPT ![c] = "logout"]
    /\ UNCHANGED <<connected, loggedOut, cancelled, lpc, mine>>

\* Its Disconnect is through.
LogoutFlag(c) ==
    /\ cpc[c] = "logout"
    /\ held[c] = None
    /\ loggedOut' = TRUE
    /\ cpc' = [cpc EXCEPT ![c] = "revoke"]
    /\ UNCHANGED <<connected, slot, cancelled, lpc, mine, held>>

\* The VK ID logout call, made or not needed; its error ends Logout silently.
LogoutRevoke(c) ==
    /\ cpc[c] = "revoke"
    /\ \E next \in {"goodbye", "idle"} : cpc' = [cpc EXCEPT ![c] = next]
    /\ UNCHANGED <<connected, slot, loggedOut, cancelled, lpc, mine, held>>

LogoutReturns(c) ==
    /\ cpc[c] = "goodbye"
    /\ held[c] = None
    /\ cpc' = [cpc EXCEPT ![c] = "idle"]
    /\ UNCHANGED <<connected, slot, loggedOut, cancelled, lpc, mine, held>>

-----------------------------------------------------------------------------
(* run *)

\* Poller.Run returned and connected is cleared.  Run reports a cancelled
\* context only when it is; it may have failed otherwise just before.
StopPolling(l) ==
    /\ lpc[l] = "polling"
    /\ held[l] = None
    /\ \E next \in {"refresh", "report"} : lpc' = [lpc EXCEPT ![l] = next]
    /\ connected' = FALSE
    /\ UNCHANGED <<slot, loggedOut, cancelled, cpc, mine, held>>

\* tryRefresh returned; its result counts only if the context is still alive.
Refreshed(l) ==
    /\ lpc[l] = "refresh"
    /\ held[l] = None
    /\ \E next \in IF l \in cancelled THEN {"report"} ELSE {"reclaim", "giveUp"} :
         lpc' = [lpc EXCEPT ![l] = next]
    /\ UNCHANGED <<connected, slot, loggedOut, cancelled, cpc, mine, held>>

\* Fault: the slot is not compared.
StillMine_Unchecked(l) == TRUE

\* Fault: the loop asks whether anybody connected meanwhile.
StillMine_NotConnected(l) == ~connected

\* c.done == done.
StillMine(l) == slot = l

\* Fault: the reconnect forgets connected.
Reconnected_Forgotten == connected

Reconnected == TRUE

\* defer close(done)
Ended == "done"

\* A new context and done channel, and a new run: the old one returns.
Reclaim(l) ==
    /\ lpc[l] = "reclaim"
    /\ StillMine(l)
    /\ \E n \in Loops :
         /\ Fresh(n)
         /\ slot' = n
         /\ lpc' = [lpc EXCEPT ![l] = Ended, ![n] = "polling"]
         /\ cancelled' = cancelled \ {n}
    /\ connected' = Reconnected
    /\ UNCHANGED <<loggedOut, cpc, mine, held>>

\* The slot was taken: the loop returns without an event.
Bereft(l) ==
    /\ lpc[l] = "reclaim"
    /\ ~StillMine(l)
    /\ lpc' = [lpc EXCEPT ![l] = Ended]
    /\ UNCHANGED <<connected, slot, loggedOut, cancelled, cpc, mine, held>>

GiveUp(l) ==
    /\ lpc[l] = "giveUp"
    /\ loggedOut' = TRUE
    /\ lpc' = [lpc EXCEPT ![l] = "goodbye"]
    /\ UNCHANGED <<connected, slot, cancelled, cpc, mine, held>>

\* The handlers of Disconnected or LoggedOut are through: close(done).
LoopEnds(l) ==
    /\ lpc[l] \in {"report", "goodbye"}
    /\ held[l] = None
    /\ lpc' = [lpc EXCEPT ![l] = Ended]
    /\ UNCHANGED <<connected, slot, loggedOut, cancelled, cpc, mine, held>>

-----------------------------------------------------------------------------
ConnectStep(c) == \/ ConnectVerify(c) \/ ConnectClaim(c)
                  \/ ConnectRefused(c) \/ ConnectSpawn(c)

LogoutStep(c) == LogoutFlag(c) \/ LogoutRevoke(c) \/ LogoutReturns(c)

DisconnectStep(g) == Cancel(g) \/ Await(g)

LoopStep(l) == \/ StopPolling(l) \/ Refreshed(l) \/ Reclaim(l) \/ Bereft(l)
               \/ GiveUp(l) \/ LoopEnds(l)

Next == \/ \E c \in Callers : \/ ConnectCheck(c) \/ ConnectStep(c)
                              \/ CallDisconnect(c) \/ DisconnectReturns(c)
                              \/ CallLogout(c) \/ LogoutStep(c)
        \/ \E g \in Goroutines : DisconnectStep(g) \/ HandlerDisconnects(g)
        \/ \E l \in Loops : LoopStep(l)

Spec == Init /\ [][Next]_vars

(***************************************************************************)
(* The Go scheduler runs every goroutine that can go on: the calls in      *)
(* progress, the loops that are past Poller.Run, and a loop whose context  *)
(* is cancelled, because Poller.Run passes it to every wait it makes.      *)
(* Whether the application calls anything and whether a healthy loop ever  *)
(* stops is left open.  Network calls and handlers are assumed to return.  *)
(***************************************************************************)
Fairness ==
    /\ \A c \in Callers : WF_vars(\/ ConnectStep(c) \/ DisconnectReturns(c)
                                  \/ LogoutStep(c))
    /\ \A g \in Goroutines : WF_vars(DisconnectStep(g))
    /\ \A l \in Loops : /\ WF_vars(l \in cancelled /\ LoopStep(l))
                        /\ WF_vars(lpc[l] # "polling" /\ LoopStep(l))

FairSpec == Spec /\ Fairness

-----------------------------------------------------------------------------
(* Correctness *)

\* Every variable has its type, and a Connect that announces has its loop.
TypeOK ==
    /\ connected \in BOOLEAN
    /\ slot \in Loops \cup {None}
    /\ loggedOut \in BOOLEAN
    /\ cancelled \subseteq Loops
    /\ cpc \in [Callers -> CallerStates]
    /\ lpc \in [Loops -> LoopStates]
    /\ mine \in [Callers -> Loops \cup {None}]
    /\ held \in [Goroutines -> Loops \cup {None}]
    /\ \A c \in Callers : cpc[c] = "announce" => mine[c] \in Loops

\* However Connect, Disconnect and the reconnect after a refresh interleave,
\* there are never two loops polling the server (govka.go 221-315).
OneLoop == \A l, k \in Loops : Live(l) /\ Live(k) => l = k

\* IsConnected tells the truth: connected is set exactly while a loop runs or
\* is about to be started, though each side is written in another place.
ConnectedMeansLive == connected <=> \E l \in Loops : Live(l)

\* No orphan: a loop that runs can be stopped, because it is the one in the
\* slot, or it is cancelled, or a Disconnect that took it is about to cancel.
Stoppable == \A l \in Loops :
    Live(l) => \/ slot = l
               \/ l \in cancelled
               \/ \E g \in Goroutines : held[g] = l

\* A loop whose slot was taken by a Disconnect, even if its refresh then
\* succeeds, starts no successor (the test at govka.go 282).
DisconnectIsFinal ==
    [][\A l \in Loops, g \in Goroutines :
            held[g] = l /\ lpc[l] = "reclaim" /\ lpc'[l] # "reclaim"
                => \A k \in Loops : Live(k)' => Live(k)]_vars

\* The client is a single loop with a handle, as SingleLoop describes it.
Abstract == INSTANCE SingleLoop WITH
                running <- {l \in Loops : Live(l)},
                handle <- slot,
                waiting <- held
ImplementsSingleLoop == Abstract!Spec

-----------------------------------------------------------------------------
(* What the documentation says and the code does not keep *)

\* events.go 25: "The client stops after emitting it".  Once the LoggedOut of
\* a loop is out no loop starts.
LoggedOutIsLast ==
    [][(\E l \in Loops : lpc[l] = "goodbye" /\ lpc'[l] = "done")
            => \A k \in Loops : ~Live(k)']_vars

\* govka.go 303: "stops the long poll loop and waits for it to finish".  A
\* Disconnect called while a loop runs waits for that loop.
DisconnectWaits ==
    [][\A c \in Callers, l \in Loops :
            cpc[c] = "idle" /\ cpc'[c] = "leaving" /\ Live(l)
                => held'[c] = l]_vars

\* events.go 19: a loop that ends and leaves no loop behind reports it.
EveryStopReported ==
    [][\A l \in Loops : lpc[l] = "reclaim" /\ lpc'[l] = "done"
            => \E k \in Loops : Live(k)']_vars

\* govka.go 303-304: Disconnect "is safe to call when not connected": it
\* returns.
SafeWhenNotConnected ==
    \A l \in Loops : held[l] # None /\ ~connected ~> held[l] = None

\* govka.go 220: once connected, "events flow until Disconnect is called or
\* the session dies": a loop that was claimed gets to run.
ConnectedLoopRuns ==
    \A l \in Loops : lpc[l] = "ready" ~> lpc[l] = "polling"

\* govka.go 72: "Handlers run synchronously on the long poll goroutine", so
\* there is one goroutine in the handlers at a time.
HandlersSerial ==
    \A g, h \in Goroutines : Dispatching(g) /\ Dispatching(h) => g = h
=============================================================================
