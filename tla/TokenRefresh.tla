---------------------------- MODULE TokenRefresh ----------------------------
(***************************************************************************)
(* The refresh of VK ID tokens: the Token and tryRefresh methods of the    *)
(* client with the singleflight that coalesces them (govka.go), and        *)
(* RefreshSession (vkid/vkid.go) against a server that rotates the pair of *)
(* access and refresh token at every refresh and accepts the newest only.  *)
(*                                                                         *)
(* A pair is a number, counting the rotations.  A session is its pair, and *)
(* whether it has a refresh token, a user id and little time left.         *)
(***************************************************************************)
EXTENDS Naturals

CONSTANTS Procs,            \* goroutines that ask for tokens
          None,
          MaxPair           \* bounds the rotations

ASSUME NoneAssumption == None \notin Procs
ASSUME BoundAssumption == MaxPair \in Nat \ {0}

VARIABLES srv,      \* the newest pair the server issued
          stored,   \* the session in the Storage
          sess,     \* Client.sess
          wait,     \* singleflight.wait: the leader of the flight, or None
          err,      \* singleflight.err: did the last flight fail?
          pc,       \* where each goroutine is
          copy,     \* the session a leader cloned and then refreshed, or None
          flight,   \* the leader whose wait group a follower waits on
          failed,   \* did the flight that the goroutine led or joined fail?
          faults    \* what went wrong so far; history, read by the properties only

vars == <<srv, stored, sess, wait, err, pc, copy, flight, failed, faults>>

Session == [pair : 1..MaxPair, renewable : BOOLEAN, user : BOOLEAN, soon : BOOLEAN]

States == {"idle",
           "token",                             \* Token wants a refresh
           "auth",                              \* run wants a refresh
           "clone", "post", "reply", "install", \* the flight
           "save", "notify", "finish", "wake",
           "join", "woken",                     \* a follower
           "me"}                                \* Connect knows the user id

InFlight(p) == pc[p] \in {"clone", "post", "reply", "install", "save", "notify", "finish"}

Copied(p) == pc[p] \in {"post", "reply", "install", "save", "notify"}

Goto(p, state) == pc' = [pc EXCEPT ![p] = state]

Init == /\ srv = 1
        /\ sess \in {s \in Session : s.pair = 1 /\ s.renewable /\ ~s.soon}
        /\ stored = sess
        /\ wait = None
        /\ err = FALSE
        /\ pc = [p \in Procs |-> "idle"]
        /\ copy = [p \in Procs |-> None]
        /\ flight = [p \in Procs |-> None]
        /\ failed = [p \in Procs |-> FALSE]
        /\ faults = {}

-----------------------------------------------------------------------------
(* Asking *)

\* Less than the leeway is left of the access token.
Expires ==
    /\ ~sess.soon
    /\ sess' = [sess EXCEPT !.soon = TRUE]
    /\ UNCHANGED <<srv, stored, wait, err, pc, copy, flight, failed, faults>>

\* Token sees a session that needs a refresh; otherwise it returns at once.
TokenCheck(p) ==
    /\ pc[p] = "idle"
    /\ sess.renewable /\ sess.soon
    /\ Goto(p, "token")
    /\ UNCHANGED <<srv, stored, sess, wait, err, copy, flight, failed, faults>>

\* run got an authorization failure from the poller.
AuthFailed(p) ==
    /\ pc[p] = "idle"
    /\ Goto(p, "auth")
    /\ UNCHANGED <<srv, stored, sess, wait, err, copy, flight, failed, faults>>

-----------------------------------------------------------------------------
(* singleflight.do *)

\* Fault: the flight is not looked for.
FlightFree_Unchecked == TRUE

FlightFree == wait = None

Lead(p) ==
    /\ pc[p] \in {"token", "auth"}
    /\ FlightFree
    /\ wait' = p
    /\ Goto(p, "clone")
    /\ UNCHANGED <<srv, stored, sess, err, copy, flight, failed, faults>>

Joined == wait

Join(p) ==
    /\ pc[p] \in {"token", "auth"}
    /\ ~FlightFree
    /\ flight' = [flight EXCEPT ![p] = Joined]
    /\ Goto(p, "join")
    /\ UNCHANGED <<srv, stored, sess, wait, err, copy, failed, faults>>

\* The leader publishes its result and ends the flight...
Finish(p) ==
    /\ pc[p] = "finish"
    /\ err' = failed[p]
    /\ wait' = None
    /\ Goto(p, "wake")
    /\ UNCHANGED <<srv, stored, sess, copy, flight, failed, faults>>

\* Fault: the leader returns without waking anybody.
Followers_None(p) == {}

Followers(p) == {f \in Procs : pc[f] = "join" /\ flight[f] = p}

\* ... then wakes its followers with wg.Done and returns.
Wake(p) ==
    /\ pc[p] = "wake"
    /\ pc' = [q \in Procs |-> IF q = p THEN "idle"
                              ELSE IF q \in Followers(p) THEN "woken" ELSE pc[q]]
    /\ failed' = [q \in Procs |-> IF q = p THEN FALSE
                                  ELSE IF q \in Followers(p) THEN failed[p] ELSE failed[q]]
    /\ UNCHANGED <<srv, stored, sess, wait, err, copy, flight, faults>>

\* A follower reads singleflight.err and returns.
Told(p) ==
    /\ pc[p] = "woken"
    /\ Goto(p, "idle")
    /\ flight' = [flight EXCEPT ![p] = None]
    /\ failed' = [failed EXCEPT ![p] = FALSE]
    /\ UNCHANGED <<srv, stored, sess, wait, err, copy, faults>>

-----------------------------------------------------------------------------
(* The function in flight: tryRefresh *)

\* It returns: its local copy is forgotten.
End(p, fails) ==
    /\ failed' = [failed EXCEPT ![p] = fails]
    /\ copy' = [copy EXCEPT ![p] = None]
    /\ Goto(p, "finish")

\* The session is copied under the read lock; it may not be refreshable.
Clone(p) ==
    /\ pc[p] = "clone"
    /\ \/ /\ sess.renewable
          /\ copy' = [copy EXCEPT ![p] = sess]
          /\ Goto(p, "post")
          /\ UNCHANGED failed
       \/ ~sess.renewable /\ End(p, TRUE)
    /\ UNCHANGED <<srv, stored, sess, wait, err, flight, faults>>

\* The server gets the newest pair and rotates it.
Rotate(p) ==
    /\ pc[p] = "post"
    /\ copy[p].pair = srv
    /\ srv < MaxPair
    /\ srv' = srv + 1
    /\ Goto(p, "reply")
    /\ UNCHANGED <<stored, sess, wait, err, copy, flight, failed, faults>>

\* The request does not get there, or the server refuses it: an old pair.
Refused(p) ==
    /\ pc[p] = "post"
    /\ End(p, TRUE)
    /\ UNCHANGED <<srv, stored, sess, wait, err, flight, faults>>

\* The answer replaces the whole session, but a user id it does not name stays.
Reply(p) ==
    /\ pc[p] = "reply"
    /\ \E named, renewable \in BOOLEAN :
         copy' = [copy EXCEPT ![p] = [pair |-> srv, renewable |-> renewable,
                                      user |-> named \/ @.user, soon |-> FALSE]]
    /\ Goto(p, "install")
    /\ UNCHANGED <<srv, stored, sess, wait, err, flight, failed, faults>>

\* It gets lost after the server rotated: a timeout, a cancelled context.
ReplyLost(p) ==
    /\ pc[p] = "reply"
    /\ End(p, TRUE)
    /\ faults' = faults \cup {"replyLost"}
    /\ UNCHANGED <<srv, stored, sess, wait, err, flight>>

\* Fault: the session that the client uses stays as it was.
Installed_Unchanged(p) == sess

Installed(p) == copy[p]

\* c.sess = s.  From here on copy and sess are one object.
Install(p) ==
    /\ pc[p] = "install"
    /\ sess' = Installed(p)
    /\ Goto(p, "save")
    /\ UNCHANGED <<srv, stored, wait, err, copy, flight, failed, faults>>

\* Fault: the new session does not get to the Storage.
Saved_Never(p) == stored

\* What the storage holds after session.Save.
Saved(p) == copy[p]

Save(p) ==
    /\ pc[p] = "save"
    /\ stored' = Saved(p)
    /\ Goto(p, "notify")
    /\ UNCHANGED <<srv, sess, wait, err, copy, flight, failed, faults>>

\* An error of Save is logged and the refresh goes on.
SaveFails(p) ==
    /\ pc[p] = "save"
    /\ Goto(p, "notify")
    /\ faults' = faults \cup {"saveFailed"}
    /\ UNCHANGED <<srv, stored, sess, wait, err, copy, flight, failed>>

\* TokenRefreshed is dispatched, inside the flight.
Notify(p) ==
    /\ pc[p] = "notify"
    /\ End(p, FALSE)
    /\ UNCHANGED <<srv, stored, sess, wait, err, flight, faults>>

-----------------------------------------------------------------------------
(* Connect stores the user id it learnt from users.get into c.sess *)

ConnectLearns(p) ==
    /\ pc[p] = "idle"
    /\ Goto(p, "me")
    /\ UNCHANGED <<srv, stored, sess, wait, err, copy, flight, failed, faults>>

\* The session a leader has installed is the same object.
Published(p) == pc[p] \in {"save", "notify"}

ConnectSetsUser(p) ==
    /\ pc[p] = "me"
    /\ sess' = [sess EXCEPT !.user = TRUE]
    /\ copy' = [q \in Procs |-> IF Published(q) THEN [copy[q] EXCEPT !.user = TRUE]
                                                ELSE copy[q]]
    /\ Goto(p, "idle")
    /\ UNCHANGED <<srv, stored, wait, err, flight, failed, faults>>

\* The process dies and starts again with what the Storage holds.
Restart ==
    /\ \E soon \in BOOLEAN : sess' = [stored EXCEPT !.soon = soon]
    /\ wait' = None
    /\ err' = FALSE
    /\ pc' = [p \in Procs |-> "idle"]
    /\ copy' = [p \in Procs |-> None]
    /\ flight' = [p \in Procs |-> None]
    /\ failed' = [p \in Procs |-> FALSE]
    /\ faults' = faults \cup {"restart"}
    /\ UNCHANGED <<srv, stored>>

-----------------------------------------------------------------------------
FlightStep(p) == \/ Clone(p) \/ Rotate(p) \/ Refused(p) \/ Reply(p) \/ ReplyLost(p)
                 \/ Install(p) \/ Save(p) \/ SaveFails(p) \/ Notify(p)

DoStep(p) == Lead(p) \/ Join(p) \/ Finish(p) \/ Wake(p) \/ Told(p)

Next == \/ Expires
        \/ Restart
        \/ \E p \in Procs : \/ TokenCheck(p) \/ AuthFailed(p)
                            \/ DoStep(p) \/ FlightStep(p)
                            \/ ConnectLearns(p) \/ ConnectSetsUser(p)

Spec == Init /\ [][Next]_vars

(***************************************************************************)
(* Goroutines that can go on do; HTTP requests end because the context or  *)
(* the client's timeout ends them; handlers return.  Nobody has to ask.    *)
(***************************************************************************)
FairSpec == Spec /\ \A p \in Procs : WF_vars(DoStep(p) \/ FlightStep(p))

-----------------------------------------------------------------------------
(* Correctness *)

\* Every variable has its type; a follower has a flight to
\* wait for, a leader at work has its copy of the session.
TypeOK ==
    /\ srv \in 1..MaxPair
    /\ stored \in Session
    /\ sess \in Session
    /\ wait \in Procs \cup {None}
    /\ err \in BOOLEAN
    /\ pc \in [Procs -> States]
    /\ copy \in [Procs -> Session \cup {None}]
    /\ flight \in [Procs -> Procs \cup {None}]
    /\ failed \in [Procs -> BOOLEAN]
    /\ faults \subseteq {"replyLost", "saveFailed", "restart"}
    /\ \A p \in Procs : pc[p] = "join" => flight[p] \in Procs
    /\ \A p \in Procs : Copied(p) => copy[p] \in Session

\* There is one flight at a time, and singleflight.wait belongs to it
\* (govka.go 436-458).
OneFlight == \A p \in Procs : InFlight(p) <=> wait = p

\* A refresh request carries the pair the client holds now, although it was
\* copied before and the lock was dropped (govka.go 359-365).
CurrentPairSent == \A p \in Procs : pc[p] = "post" => copy[p].pair = sess.pair

\* vkid.go 297: "never reuse the old one".  A refresh request carries the
\* newest pair the server issued, until an answer gets lost or the process is
\* restarted for the first time: from then on the client may be left with an older
\* one, and the property says nothing of it any more.
NeverReuse ==
    \A p \in Procs : pc[p] = "post" =>
        copy[p].pair = srv \/ faults \cap {"replyLost", "restart"} # {}

\* As long as no save fails, the Storage holds the pair the client uses between
\* flights, and wherever an answer gets lost or the process dies it is at most
\* one rotation behind the server.
StorageKeepsUp ==
    "saveFailed" \notin faults => /\ wait = None => stored.pair = sess.pair
                                  /\ srv <= stored.pair + 1

NotBack == /\ stored'.pair >= stored.pair
           /\ sess'.pair >= sess.pair \/ sess'.pair = stored.pair

\* Neither the session nor the Storage goes back to an older pair, whichever
\* goroutine refreshes; a restart goes back to the Storage.
NeverBack == [][NotBack]_vars

\* Where a goroutine is for those who know of flights only.
Phase(p) ==
    CASE pc[p] \in {"token", "auth"} -> "asking"
      [] pc[p] \in {"clone", "post", "reply", "install", "save"} -> "leading"
      [] pc[p] = "notify" -> "telling"
      [] pc[p] = "finish" -> IF failed[p] THEN "leading" ELSE "telling"
      [] pc[p] = "wake" -> "leaving"
      [] pc[p] = "join" -> "waiting"
      [] pc[p] = "woken" -> "woken"
      [] pc[p] \in {"idle", "me"} -> "idle"

\* Seen from outside, the flights are those that Flights describes: nobody
\* returns without the end of the flight he led or joined, whatever the steps
\* of a refresh interleave with (govka.go 429-458).
Abstract == INSTANCE Flights WITH
    leader <- wait,
    phase <- [p \in Procs |-> Phase(p)],
    joined <- flight,
    failed <- {p \in Procs : pc[p] = "wake" /\ failed[p]}
ImplementsFlights == Abstract!Spec

\* A Token or tryRefresh call that waits for a refresh returns, whether it
\* leads the flight or joins it, and whatever goes wrong.
RefreshReturns == \A p \in Procs : pc[p] \in {"token", "auth"} ~> pc[p] = "idle"

-----------------------------------------------------------------------------
(* What the documentation says and the code does not keep *)

\* govka.go 353: "refreshes the VK ID token once, coalescing concurrent calls".
\* A follower is told what its own flight came to.
FollowerTold == \A p \in Procs : pc[p] = "woken" => err = failed[p]

\* govka.go 332-333: Token "refreshes VK ID tokens shortly before they expire".
\* A token that was just renewed is not renewed again for a Token call.
OnlyWhenSoon ==
    [][\A p \in Procs : pc[p] = "token" /\ pc'[p] = "clone" => sess.soon]_vars

\* events.go 31-32: the session "has already been persisted" when
\* TokenRefreshed is emitted.
PersistedWhenTold == \A p \in Procs : pc[p] = "notify" => stored.pair = copy[p].pair

\* The user id that Connect learnt stays (events.go 75-76 relies on it for the
\* sender of outgoing messages).
UserKept == [][sess.user => sess'.user]_vars

\* The design asks for a clean "go test -race": nobody reads the session
\* outside the lock while Connect writes to it.
NoRace == ~\E p, q \in Procs : Published(p) /\ pc[q] = "me" /\ ~sess.user
=============================================================================
