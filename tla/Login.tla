-------------------------------- MODULE Login --------------------------------
(***************************************************************************)
(* vkid.Login (vkid/login.go): a program waits for a browser to bring back *)
(* an authorization.  The callback handlers of the local HTTP server run   *)
(* concurrently with each other, with the timer of the login, with the     *)
(* caller's context and with Login itself; then Flow.Exchange (vkid.go)    *)
(* trades the code for tokens.                                             *)
(*                                                                         *)
(* A callback is a request to the redirect URI: with the state of the flow *)
(* or with another, with a code, with an error, or with neither.  Echo is   *)
(* a program around this login.                                            *)
(***************************************************************************)
EXTENDS Naturals

CONSTANTS Requests,     \* HTTP requests the server may get
          None

Callback == {cb \in [ours : BOOLEAN,         \* its state is flow.State
                     carries : {"code", "error", "nothing"},
                     device : BOOLEAN] :     \* it has a device id
                cb.carries # "code" => cb.device}

\* What a session needs to be refreshed, and whether it has it, and which of the
\* pairs of tokens that VK ID gave for this login is in it.
Session == [refresh : BOOLEAN, device : BOOLEAN, client : BOOLEAN, pair : Nat]

ASSUME NoneAssumption == None \notin Requests \cup Session

VARIABLES query,    \* what each request carries
          req,      \* where the handler of each request is
          page,     \* what the browser of each request was shown
          results,  \* the request whose callback is in the channel, or None
          at,       \* where Login is
          chosen,   \* the request whose callback Login took, or None
          expired,  \* the timer of the login went off
          aborted,  \* the caller's context is done
          failing,  \* the HTTP server stopped by itself
          result,   \* what Login returned
          session   \* the session of the token it returned, or None

loginVars == <<query, req, page, results, at, chosen, expired, aborted, failing, result, session>>

LoginInit ==
    /\ query \in [Requests -> Callback]
    /\ req = [r \in Requests |-> "away"]
    /\ page = [r \in Requests |-> "none"]
    /\ results = None
    /\ at = "idle"
    /\ chosen = None
    /\ expired = FALSE /\ aborted = FALSE /\ failing = FALSE
    /\ result = "none" /\ session = None

-----------------------------------------------------------------------------
(* The callback handler *)

\* Fault: the state is not compared.
Ours_Unchecked(r) == TRUE

Ours(r) == query[r].ours

Rejected(r) == query[r].carries = "nothing" \/ ~Ours(r)

\* Fault: the page is the one for success whatever the callback carries.
PageFor_Success(r) == "signedIn"

PageFor(r) == IF query[r].carries = "error" THEN "failed" ELSE "signedIn"

\* A request gets to the server while it listens.
Arrive(r) ==
    /\ at \in {"waiting", "exchange"} /\ ~failing
    /\ req[r] = "away"
    /\ req' = [req EXCEPT ![r] = IF Rejected(r) THEN "done" ELSE "hand"]
    /\ page' = [page EXCEPT ![r] = IF Rejected(r) THEN "badRequest" ELSE PageFor(r)]
    /\ UNCHANGED <<query, results, at, chosen, expired, aborted, failing, result, session>>

\* Fault: the send to the channel waits for a receiver.
HandsOver_Waits(r) == results = None

\* select with a default: a callback that finds the channel full is dropped.
HandsOver(r) == TRUE

Hand(r) ==
    /\ req[r] = "hand"
    /\ HandsOver(r)
    /\ results' = IF results = None THEN r ELSE results
    /\ req' = [req EXCEPT ![r] = "done"]
    /\ UNCHANGED <<query, page, at, chosen, expired, aborted, failing, result, session>>

-----------------------------------------------------------------------------
(* Login *)

\* The timer of the login goes off.
Expire == at # "idle" /\ ~expired /\ expired' = TRUE
          /\ UNCHANGED <<query, req, page, results, at, chosen, aborted, failing, result, session>>

Abort == ~aborted /\ aborted' = TRUE
         /\ UNCHANGED <<query, req, page, results, at, chosen, expired, failing, result, session>>

ServerFails ==
    /\ ~failing /\ at = "waiting" /\ failing' = TRUE
    /\ UNCHANGED <<query, req, page, results, at, chosen, expired, aborted, result, session>>

\* A flow with fresh values, a listener, the server and the timer; without a
\* client id, a loopback redirect URI or a free port there is no login.
Begin ==
    /\ at = "idle"
    /\ \/ at' = "waiting" /\ UNCHANGED result
       \/ at' = "returned" /\ result' = "notStarted"
    /\ UNCHANGED <<query, req, page, results, chosen, expired, aborted, failing, session>>

\* The context of the login, with its timeout.
CtxDone == expired \/ aborted

\* The server shuts down: it waits for its handlers, two seconds at most.
ReturnWith(r) == at' = "closing" /\ result' = r

\* select takes any of the cases that are ready.
TakeResult ==
    /\ at = "waiting" /\ results # None
    /\ chosen' = results
    /\ results' = None
    /\ at' = "exchange"
    /\ UNCHANGED <<query, req, page, expired, aborted, failing, result, session>>

TakeServerError ==
    /\ at = "waiting" /\ failing
    /\ ReturnWith("serverError")
    /\ UNCHANGED <<query, req, page, results, chosen, expired, aborted, failing, session>>

\* Fault: the timeout is left out of the context.
GivesUp_Aborted == aborted

GivesUp == CtxDone

TakeDone ==
    /\ at = "waiting" /\ GivesUp
    /\ \/ expired /\ ReturnWith("timeout")
       \/ aborted /\ ReturnWith("canceled")
    /\ UNCHANGED <<query, req, page, results, chosen, expired, aborted, failing, session>>

\* Token.Session: VK ID names the access and the refresh token; the device id
\* comes from the callback, the client id from the configuration.
Signed(refresh) == [refresh |-> refresh, device |-> TRUE, client |-> TRUE, pair |-> 0]

\* Exchange looks at the callback once more.
Objection(cb) ==
    CASE cb.carries = "error" -> "denied"
      [] cb.carries # "error" /\ ~cb.ours -> "mismatch"
      [] cb.carries = "nothing" /\ cb.ours -> "noCode"
      [] cb.carries = "code" /\ cb.ours /\ ~cb.device -> "noDevice"
      [] OTHER -> "none"

\* It posts the code under the context of the login.  "refused" is an error of
\* VK ID, whatever the status, another status than 200, or an answer that is no
\* token.
Exchange ==
    /\ at = "exchange"
    /\ LET objection == Objection(query[chosen]) IN
       \/ objection # "none" /\ ReturnWith(objection) /\ UNCHANGED session
       \/ /\ objection = "none"
          /\ \/ CtxDone /\ ReturnWith("cutOff") /\ UNCHANGED session
             \/ ~CtxDone /\ ReturnWith("refused") /\ UNCHANGED session
             \/ /\ ~CtxDone /\ ReturnWith("token")
                /\ \E refresh \in BOOLEAN : session' = Signed(refresh)
    /\ UNCHANGED <<query, req, page, results, chosen, expired, aborted, failing>>

Shutdown ==
    /\ at = "closing"
    /\ at' = "returned"
    /\ UNCHANGED <<query, req, page, results, chosen, expired, aborted, failing, result, session>>

LoginStep == TakeResult \/ TakeServerError \/ TakeDone \/ Exchange \/ Shutdown

\* What others do while Login waits.
Around == Expire \/ ServerFails \/ \E r \in Requests : Arrive(r) \/ Hand(r)

-----------------------------------------------------------------------------
(* Correctness *)

\* Whoever else sends requests to the listener, the callback that Login takes
\* has the state of its flow and something to exchange or to report.
OnlyOurCallback == chosen # None => /\ query[chosen].ours
                                    /\ query[chosen].carries # "nothing"

\* What the browser of the callback that Login took was shown, before Login looked
\* at it, and what Login returns: it was shown a failure exactly when Login returns
\* the error that the callback carries, and success whatever else the exchange
\* comes to, a refusal or a timeout included.  Whoever was shown neither brought
\* no callback that Login takes.
PageAgrees == at \in {"closing", "returned"} /\ chosen # None =>
    /\ page[chosen] = "failed" <=> result = "denied"
    /\ page[chosen] = "signedIn" <=> result \in {"token", "noDevice", "cutOff", "refused"}

\* Login returns, whenever the callbacks come and if none comes.
LoginReturns == at = "waiting" ~> at \notin {"waiting", "exchange"}

\* A handler returns although Login took another callback or none.
HandlersReturn == \A r \in Requests : req[r] = "hand" ~> req[r] # "hand"

-----------------------------------------------------------------------------
(* What the documentation says and the code does not keep *)

\* login.go 19: "Timeout bounds the wait for the callback".  The exchange of a
\* callback that came in time is not cut off by it.
TimeoutBoundsWaitOnly == result = "cutOff" => aborted
=============================================================================
