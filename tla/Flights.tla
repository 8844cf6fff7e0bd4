------------------------------- MODULE Flights -------------------------------
(***************************************************************************)
(* What singleflight.do promises its callers (govka.go 429-458): whoever   *)
(* finds no flight leads one, everybody else waits for the one under way,  *)
(* and all return with a result.  What happens in a flight is left open,   *)
(* but that a successful one ends with the handlers of TokenRefreshed.     *)
(***************************************************************************)
CONSTANTS Procs,    \* goroutines that ask for a refresh
          None

VARIABLES leader,   \* of the flight under way, or None
          phase,    \* where each goroutine is
          joined,   \* the leader a follower waits for
          err,      \* did the flight that ended last fail?
          failed    \* leaders whose flight failed

vars == <<leader, phase, joined, err, failed>>

Phases == {"idle", "asking", "leading", "telling", "leaving",  \* leader
           "waiting", "woken"}                                 \* follower

Goto(p, next) == phase' = [phase EXCEPT ![p] = next]

Init == /\ leader = None
        /\ phase = [p \in Procs |-> "idle"]
        /\ joined = [p \in Procs |-> None]
        /\ err = FALSE
        /\ failed = {}

Ask(p) ==
    /\ phase[p] = "idle"
    /\ Goto(p, "asking")
    /\ UNCHANGED <<leader, joined, err, failed>>

Lead(p) ==
    /\ phase[p] = "asking" /\ leader = None
    /\ leader' = p
    /\ Goto(p, "leading")
    /\ UNCHANGED <<joined, err, failed>>

Join(p) ==
    /\ phase[p] = "asking" /\ leader # None
    /\ joined' = [joined EXCEPT ![p] = leader]
    /\ Goto(p, "waiting")
    /\ UNCHANGED <<leader, err, failed>>

Succeeds(p) ==
    /\ phase[p] = "leading"
    /\ Goto(p, "telling")
    /\ UNCHANGED <<leader, joined, err, failed>>

\* The flight ends, with an error or when the handlers are through.
Finish(p, fails) ==
    /\ phase[p] = IF fails THEN "leading" ELSE "telling"
    /\ err' = fails
    /\ failed' = IF fails THEN failed \cup {p} ELSE failed
    /\ leader' = None
    /\ Goto(p, "leaving")
    /\ UNCHANGED joined

\* Fault: the leader returns without waking anybody.
Followers_None(p) == {}

Followers(p) == {f \in Procs : phase[f] = "waiting" /\ joined[f] = p}

\* The leader returns; its followers wake.
Wake(p) ==
    /\ phase[p] = "leaving"
    /\ phase' = [q \in Procs |-> IF q = p THEN "idle"
                                 ELSE IF q \in Followers(p) THEN "woken" ELSE phase[q]]
    /\ failed' = failed \ {p}
    /\ UNCHANGED <<leader, joined, err>>

\* A follower returns, with err.
Return(p) ==
    /\ phase[p] = "woken"
    /\ Goto(p, "idle")
    /\ joined' = [joined EXCEPT ![p] = None]
    /\ UNCHANGED <<leader, err, failed>>

\* The process dies and starts again.
Restart ==
    /\ leader' = None
    /\ phase' = [p \in Procs |-> "idle"]
    /\ joined' = [p \in Procs |-> None]
    /\ err' = FALSE
    /\ failed' = {}

Step(p) == \/ Ask(p) \/ Lead(p) \/ Join(p) \/ Succeeds(p)
           \/ Finish(p, TRUE) \/ Finish(p, FALSE) \/ Wake(p) \/ Return(p)

Next == Restart \/ \E p \in Procs : Step(p)

Spec == Init /\ [][Next]_vars
=============================================================================
