------------------------------- MODULE Client -------------------------------
(***************************************************************************)
(* The client as its goroutines see it (govka.go): the life cycle of       *)
(* Lifecycle joined with the flights that TokenRefresh implements.  Every  *)
(* goroutine that calls the API asks for a token first and may lead a      *)
(* refresh or wait for one; a flight runs under the context of its leader  *)
(* and no other, and calls the handlers of TokenRefreshed on its way; what *)
(* it comes to decides what becomes of a loop that lost its authorization. *)
(*                                                                         *)
(* A refresh fails when its context ends, when the network or VK ID fails  *)
(* it in passing, or when the session is lost: the server withdrew it, an  *)
(* answer had no refresh token, or the one that had it did not arrive.     *)
(***************************************************************************)

CONSTANTS Callers,              \* goroutines of the application
          Loops,
          None,
          HandlersDisconnect,   \* do handlers call Disconnect?
          HandlersAsk           \* do handlers of TokenRefreshed call the API?

ASSUME NoneAssumption == None \notin Callers \cup Loops
ASSUME DisjointAssumption == Callers \cap Loops = {}
ASSUME HandlersAssumption == {HandlersDisconnect, HandlersAsk} \subseteq BOOLEAN

VARIABLES connected, slot, loggedOut, cancelled, cpc, lpc, mine, held,
          leader, phase, joined, err, failed,
          lost,     \* the session cannot be refreshed any more
          offline,  \* goroutines whose flight the network or VK ID failed in passing
          caught    \* goroutines whose handler asked for a token inside its flight

lifecycle == <<connected, slot, loggedOut, cancelled, cpc, lpc, mine, held>>
flights == <<leader, phase, joined, err, failed>>
vars == <<lifecycle, flights, lost, offline, caught>>

L == INSTANCE Lifecycle

Goroutines == L!Goroutines

F == INSTANCE Flights WITH Procs <- Goroutines

Init == /\ L!Init /\ F!Init
        /\ lost = FALSE /\ offline = {} /\ caught = {}

-----------------------------------------------------------------------------
\* The goroutine is not asking for a token.
Free(g) == phase[g] = "idle"

\* The context of what the goroutine does may be done: the application ends
\* that of a call at any time, Disconnect that of a loop.
MayEnd(g) == g \in Callers \cup cancelled

\* The handlers of TokenRefreshed run, or those of another event.
Handling(g) ==
    \/ phase[g] = "telling"
    \/ Free(g) /\ (L!Dispatching(g) \/ (g \in Loops /\ lpc[g] = "polling"))

\* A handler is in the middle of a call that waits.
Busy(g) == held[g] # None \/ g \in caught

-----------------------------------------------------------------------------
(* The life cycle, while the goroutine is free *)

CallerGoesOn(c) ==
    /\ Free(c)
    /\ L!ConnectStep(c)
    /\ UNCHANGED <<flights, lost, offline, caught>>

CallerCalls(c) ==
    /\ Free(c)
    /\ L!ConnectCheck(c) \/ L!CallDisconnect(c)
    /\ UNCHANGED <<flights, lost, offline, caught>>

DisconnectGoesOn(g) ==
    /\ L!DisconnectStep(g) \/ (g \in Callers /\ L!DisconnectReturns(g))
    /\ UNCHANGED <<flights, lost, offline, caught>>

HandlerDisconnects(g) ==
    /\ HandlersDisconnect
    /\ Handling(g) /\ g \notin caught
    /\ L!TakeSlot(g)
    /\ UNCHANGED <<connected, loggedOut, cancelled, cpc, lpc, mine>>
    /\ UNCHANGED <<flights, lost, offline, caught>>

\* Poller.Run returns; with an authorization failure the loop asks for a flight.
StopPolling(l) ==
    /\ Free(l)
    /\ L!StopPolling(l)
    /\ IF lpc'[l] = "refresh" THEN F!Ask(l) ELSE UNCHANGED flights
    /\ UNCHANGED <<lost, offline, caught>>

LoopGoesOn(l) ==
    /\ Free(l)
    /\ L!Reclaim(l) \/ L!Bereft(l) \/ L!GiveUp(l) \/ L!LoopEnds(l)
    /\ UNCHANGED <<flights, lost, offline, caught>>

-----------------------------------------------------------------------------
(* Asking for a token *)

\* An API call of the application, users.get, a call of the poller, or a call
\* that a handler makes.
Calling(g) == \/ g \in Callers /\ cpc[g] \in {"idle", "verify"}
              \/ g \in Loops /\ lpc[g] = "polling"

\* Token sees that little time is left, as it may after any call.
Ask(g) ==
    /\ Calling(g) /\ held[g] = None
    /\ F!Ask(g)
    /\ UNCHANGED <<lifecycle, lost, offline, caught>>

Enter(p) ==
    /\ F!Lead(p) \/ F!Join(p)
    /\ UNCHANGED <<lifecycle, lost, offline, caught>>

\* The new session may come without a refresh token.
Renewed(p) ==
    /\ ~lost
    /\ F!Succeeds(p)
    /\ lost' \in BOOLEAN
    /\ UNCHANGED <<lifecycle, offline, caught>>

\* The server refuses, the context ends the request, or the network or VK ID
\* fails it in passing (no connection, a timeout, 5xx, slow_down), before or
\* after the server rotated the pair.
NotRenewed(p) ==
    /\ F!Finish(p, TRUE)
    /\ lost' \in {lost, TRUE}
    /\ offline' \in {offline, offline \cup {p}}
    /\ lost' \/ MayEnd(p) \/ p \in offline'
    /\ UNCHANGED <<lifecycle, caught>>

\* Fault: the flight itself needs a token for what it does.
Reenters_Leading(p) == phase[p] = "leading"

\* A handler of TokenRefreshed calls the API...
Reenters(p) == HandlersAsk /\ phase[p] = "telling" /\ ~Busy(p)

\* ... when little time is left of the token again: it waits for the flight
\* that it runs in.
HandlerAsks(p) ==
    /\ Reenters(p)
    /\ caught' = caught \cup {p}
    /\ UNCHANGED <<lifecycle, flights, lost, offline>>

Told(p) ==
    /\ ~Busy(p)
    /\ F!Finish(p, FALSE)
    /\ UNCHANGED <<lifecycle, lost, offline, caught>>

\* Fault: the leader reads singleflight.err, too.
Result_Shared(p) == err

\* What singleflight.do returns: the leader's own error or singleflight.err.
Result(p) == IF phase[p] = "woken" THEN err ELSE p \in failed

\* do returns.  Token gives its caller some token whatever happened; run goes
\* by the error.
Return(p) ==
    /\ F!Wake(p) \/ F!Return(p)
    /\ IF p \in Loops /\ lpc[p] = "refresh"
       THEN /\ L!Refreshed(p)
            /\ lpc'[p] = "reclaim" => ~Result(p)
            /\ lpc'[p] = "giveUp" => Result(p)
       ELSE UNCHANGED lifecycle
    /\ offline' = offline \ {p}
    /\ UNCHANGED <<lost, caught>>

RefreshGoesOn(p) == \/ Enter(p) \/ Renewed(p) \/ NotRenewed(p) \/ Told(p)
                    \/ Return(p)

-----------------------------------------------------------------------------
Next == \/ \E c \in Callers : CallerCalls(c) \/ CallerGoesOn(c)
        \/ \E g \in Goroutines : \/ DisconnectGoesOn(g) \/ HandlerDisconnects(g)
                                 \/ Ask(g) \/ HandlerAsks(g) \/ RefreshGoesOn(g)
        \/ \E l \in Loops : StopPolling(l) \/ LoopGoesOn(l)

Spec == Init /\ [][Next]_vars

(***************************************************************************)
(* Goroutines that can go on do.  A call, a handler and a cancelled Run    *)
(* ask for a bounded number of tokens before they go on: strong fairness   *)
(* of the steps that asking interrupts.                                    *)
(***************************************************************************)
FairSpec == /\ Spec
            /\ \A c \in Callers : SF_vars(CallerGoesOn(c))
            /\ \A g \in Goroutines : WF_vars(DisconnectGoesOn(g)) /\ SF_vars(RefreshGoesOn(g))
            /\ \A l \in Loops : SF_vars((l \in cancelled /\ StopPolling(l)) \/ LoopGoesOn(l))

-----------------------------------------------------------------------------
(* Correctness *)

\* The Connect that has to start a loop.
Starter(l) == CHOOSE c \in Callers : mine[c] = l

\* Whom a goroutine waits for: the loop that its Disconnect took, the leader
\* of the flight it joined, itself when a handler of its own flight asked for
\* a token; and a loop that was claimed, for the Connect that has to start it.
WaitsOn(g) ==
    CASE g \in caught -> g
      [] held[g] # None -> held[g]
      [] phase[g] = "waiting" -> joined[g]
      [] g \in Loops /\ lpc[g] = "ready" -> Starter(g)
      [] OTHER -> None

\* Goroutines that wait for each other.
Deadlocked == UNION {S \in SUBSET Goroutines : \A g \in S : WaitsOn(g) \in S}

\* However calls, flights, contexts and the stop of a loop meet, whoever waits
\* comes back, a Disconnect among them, unless goroutines wait for each other.
WaitEnds == \A g \in Goroutines :
    WaitsOn(g) # None ~> (WaitsOn(g) = None \/ g \in Deadlocked)

\* Locks, flights and done channels alone never make goroutines wait for each
\* other: somebody among them called Disconnect or the API in a handler.
DeadlockNeedsHandler ==
    Deadlocked # {} => \E g \in Deadlocked : Handling(g) /\ Busy(g)

\* A loop gives the session up for what became of the flight that it led or
\* heard of, and for nothing else: not for its own stop, nor for a flight that
\* failed after its own succeeded.
GivesUpForItsFlight ==
    [][\A l \in Loops : lpc[l] = "refresh" /\ lpc'[l] = "giveUp"
            => lost \/ l \in offline \/ phase[l] = "woken"]_vars

\* govka.go 215: "the session was found invalid".  A loop logs the client out
\* only when the session cannot be refreshed any more; one that VK ID could not
\* be reached for, or whose flight a caller's context ended, is still good.
LoggedOutOnlyWhenLost ==
    [][\A l \in Loops : lpc[l] = "refresh" /\ lpc'[l] = "giveUp" => lost]_vars
=============================================================================
