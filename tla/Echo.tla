-------------------------------- MODULE Echo --------------------------------
(***************************************************************************)
(* The program of examples/echo/main.go: it loads the session of the last  *)
(* run or gets one, from the -token flag or by vkid.Login, keeps it in the *)
(* Storage, connects a client with it and waits for a signal.  It may be   *)
(* killed at any time and is started again when it has ended.              *)
(*                                                                         *)
(* The client is its long poll loop and the renewals of its tokens, which  *)
(* Connect and the loop ask for and which go to the same Storage;          *)
(* Lifecycle and Client say how the loop is started, stopped and lost, and *)
(* TokenRefresh how callers share a renewal.  aborted is the context of    *)
(* the signals.                                                            *)
(***************************************************************************)
EXTENDS Login

CONSTANTS Unreadable,    \* a file that is no session
          MaxPair        \* bound: VK ID gives at most so many new pairs for a login

ASSUME UnreadableAssumption == Unreadable \notin Session \cup {None}

ASSUME MaxPairAssumption == MaxPair \in Nat

VARIABLES prog,     \* where main is
          stored,   \* the session in the file, None, or Unreadable
          sess,     \* the session of main, then of its client, or None
          loop,     \* the long poll loop
          renewal,  \* where the renewal of the client's tokens is
          issued,   \* the newest pair VK ID has given for the login
          mislaid   \* history: since the file last had the newest pair, an answer
                    \* of VK ID or a save of the client was lost

renewalVars == <<renewal, issued, mislaid>>
mainVars == <<prog, stored, sess, loop, renewalVars>>
echoVars == <<loginVars, mainVars>>

Progs == {"load", "login", "save", "connect", "wait", "disconnect", "ended"}

Loops == {"none", "polling", "telling", "done"}    \* telling: in the handler of LoggedOut

\* asked: the request is on its way; answer: VK ID's answer is; save: the client has
\* the new session and writes it.
Renewals == {"none", "asked", "answer", "save"}

\* session.FromToken
FromToken == [refresh |-> FALSE, device |-> FALSE, client |-> FALSE, pair |-> 0]

EchoInit == /\ LoginInit
            /\ prog = "load"
            /\ stored \in {None, Unreadable}
            /\ sess = None
            /\ loop = "none"
            /\ renewal = "none" /\ issued = 0 /\ mislaid = FALSE

-----------------------------------------------------------------------------
(* loadOrLogin *)

\* A session is used, an error but ErrNotFound is the end.
Load ==
    /\ prog = "load"
    /\ \/ /\ stored \in Session
          /\ sess' = stored /\ prog' = "connect"
       \/ prog' = "ended" /\ UNCHANGED sess
       \/ /\ stored = None
          /\ \/ sess' = FromToken /\ prog' = "save"
             \/ prog' = "login" /\ UNCHANGED sess
    /\ UNCHANGED <<loginVars, stored, loop, renewalVars>>

SignIn ==
    /\ prog = "login"
    /\ Begin \/ LoginStep
    /\ UNCHANGED mainVars

SignedIn ==
    /\ prog = "login" /\ at = "returned"
    /\ sess' = session
    /\ prog' = IF session = None THEN "ended" ELSE "save"
    /\ UNCHANGED <<loginVars, stored, loop, renewalVars>>

\* Fault: an error of Save is only logged.
Unsaved_Ignored == "connect"

Unsaved == "ended"

Save ==
    /\ prog = "save"
    /\ \/ stored' = sess /\ prog' = "connect"
       \/ prog' = Unsaved /\ UNCHANGED stored
    /\ UNCHANGED <<loginVars, sess, loop, renewalVars>>

-----------------------------------------------------------------------------
(* The client renews its tokens *)

\* The calls of Connect do so, and the loop and its handlers, one at a time.  Once
\* the context is done no request is sent; one that VK ID has not got when the client
\* gives it up does not get there.
Ask ==
    /\ renewal = "none"
    /\ sess \in Session /\ sess.refresh /\ sess.device
    /\ \/ prog = "connect" /\ ~aborted
       \/ prog = "wait" /\ loop = "polling"
    /\ renewal' = "asked"
    /\ UNCHANGED <<loginVars, prog, stored, sess, loop, issued, mislaid>>

\* VK ID gives a new pair for its newest one, and none for an older one.
Rotate ==
    /\ renewal = "asked"
    /\ sess.pair = issued /\ issued < MaxPair
    /\ issued' = issued + 1
    /\ renewal' = "answer"
    /\ UNCHANGED <<loginVars, prog, stored, sess, loop, mislaid>>

\* The client takes the new session; the answer names a refresh token or none.
Answered ==
    /\ renewal = "answer"
    /\ \E refresh \in BOOLEAN :
           sess' = [Signed(refresh) EXCEPT !.pair = issued]
    /\ renewal' = "save"
    /\ UNCHANGED <<loginVars, prog, stored, loop, issued, mislaid>>

\* No answer comes, or another one than a token.
NoAnswer ==
    /\ renewal \in {"asked", "answer"}
    /\ renewal' = "none"
    /\ mislaid' = (mislaid \/ renewal = "answer")
    /\ UNCHANGED <<loginVars, prog, stored, sess, loop, issued>>

\* An error of Save is logged, and the client goes on with the new session.
SaveRenewal ==
    /\ renewal = "save"
    /\ \/ stored' = sess /\ mislaid' = FALSE
       \/ mislaid' = TRUE /\ UNCHANGED stored
    /\ renewal' = "none"
    /\ UNCHANGED <<loginVars, prog, sess, loop, issued>>

Renew == Rotate \/ Answered \/ NoAnswer \/ SaveRenewal

-----------------------------------------------------------------------------
(* main with its client *)

\* Connect fails when VK does not accept the session or the context is done.
Connect ==
    /\ prog = "connect" /\ renewal = "none"
    /\ \/ ~aborted /\ prog' = "wait" /\ loop' = "polling"
       \/ prog' = "ended" /\ UNCHANGED loop
    /\ UNCHANGED <<loginVars, stored, sess, renewalVars>>

\* The loop fails for good: an error that cannot be retried, or LoggedOut.
LoopFails ==
    /\ loop = "polling" /\ renewal = "none"
    /\ loop' \in {"done", "telling"}
    /\ UNCHANGED <<loginVars, prog, stored, sess, renewalVars>>

\* Fault: the handler of LoggedOut only logs.
StoppedBy_Logged == aborted

\* The handler of LoggedOut calls stop.
StoppedBy == TRUE

Stop ==
    /\ loop = "telling"
    /\ aborted' = StoppedBy
    /\ loop' = "done"
    /\ UNCHANGED <<query, req, page, results, at, chosen, expired, failing, result, session>>
    /\ UNCHANGED <<prog, stored, sess, renewalVars>>

\* <-ctx.Done()
Interrupted ==
    /\ prog = "wait" /\ aborted
    /\ prog' = "disconnect"
    /\ UNCHANGED <<loginVars, stored, sess, loop, renewalVars>>

\* The loop sees its context cancelled.
LoopStops ==
    /\ prog = "disconnect" /\ loop = "polling" /\ renewal = "none"
    /\ loop' = "done"
    /\ UNCHANGED <<loginVars, prog, stored, sess, renewalVars>>

\* Disconnect has waited for the loop.
Disconnected ==
    /\ prog = "disconnect" /\ loop = "done"
    /\ prog' = "ended"
    /\ UNCHANGED <<loginVars, stored, sess, loop, renewalVars>>

-----------------------------------------------------------------------------
\* A signal.
Signal == /\ prog # "ended" /\ Abort
          /\ UNCHANGED mainVars

\* The program is killed, or has ended, and starts again; the callbacks that are
\* to come stay.
Restart ==
    /\ prog' = "load" /\ sess' = None /\ loop' = "none"
    /\ renewal' = "none"
    /\ mislaid' = (mislaid \/ renewal \in {"answer", "save"})
    /\ req' = [r \in Requests |-> "away"]
    /\ page' = [r \in Requests |-> "none"]
    /\ results' = None /\ at' = "idle" /\ chosen' = None
    /\ expired' = FALSE /\ aborted' = FALSE /\ failing' = FALSE
    /\ result' = "none" /\ session' = None
    /\ UNCHANGED <<query, stored, issued>>

MainStep == \/ Load \/ SignIn \/ SignedIn \/ Save \/ Connect
            \/ Interrupted \/ Disconnected

EchoNext == \/ MainStep \/ Ask \/ Renew \/ LoopFails \/ Stop \/ LoopStops
            \/ Signal \/ Restart
            \/ Around /\ UNCHANGED mainVars

EchoSpec == EchoInit /\ [][EchoNext]_echoVars

\* Time passes; main, the handlers, the loop and the renewals go on when they can: a
\* request is answered or fails.  Nobody has to renew anything, to call back, to send
\* a signal or to start the program again.
FairEchoSpec ==
    /\ EchoSpec
    /\ WF_echoVars(MainStep) /\ WF_echoVars(Renew) /\ WF_echoVars(Stop \/ LoopStops)
    /\ WF_echoVars(Expire /\ UNCHANGED mainVars)
    /\ \A r \in Requests : WF_echoVars(Hand(r) /\ UNCHANGED mainVars)

-----------------------------------------------------------------------------
(* Correctness *)

\* Whenever the program dies, what it signed in for is not lost once a client uses
\* it: what the client goes on from is in the file, and can be refreshed if VK ID
\* gave a refresh token.  Between two renewals the file has the client's session
\* and VK ID's newest pair, unless since it last had that an answer of VK ID was
\* lost, a save of the client failed (govka.go 373-375 goes on after that), or the
\* program was killed between VK ID's rotation and the save.
KeptBeforeUse == prog \in {"connect", "wait", "disconnect"} =>
    /\ stored \in Session /\ (stored.refresh => stored.device /\ stored.client)
    /\ sess.refresh => sess.device /\ sess.client
    /\ renewal = "none" /\ ~mislaid => stored = sess /\ sess.pair = issued

\* A signal ends the program wherever it is, in the middle of a login or of a
\* Connect, and so does the LoggedOut of its client, whose handler runs on the
\* goroutine that Disconnect waits for (main.go 84-86, 97-103).
ProgramEnds == aborted \/ loop = "telling"
                   ~> prog = "ended" \/ (prog = "load" /\ ~aborted)
=============================================================================
