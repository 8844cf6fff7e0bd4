----------------------------- MODULE SingleLoop -----------------------------
(***************************************************************************)
(* What the client promises about its long poll loop, with no word on how: *)
(* at most one loop runs at a time, it can be stopped through the handle   *)
(* the client keeps, and whoever took that handle away to stop the loop    *)
(* comes back only when the loop no longer runs, and for as long as        *)
(* somebody waits for a loop the loop does not run again.                  *)
(***************************************************************************)

CONSTANTS Goroutines,   \* whoever may ask for a stop
          Loops,        \* identities of loops, reused
          None

VARIABLES running,      \* the set of loops that run
          handle,       \* the loop a stop request would take, or None
          waiting       \* for each goroutine the loop it waits for, or None

vars == <<running, handle, waiting>>

Init == /\ running = {}
        /\ handle = None
        /\ waiting = [g \in Goroutines |-> None]

\* A loop that nobody waits for starts, when no other loop runs.
Start(l) == /\ running = {}
            /\ \A g \in Goroutines : waiting[g] # l
            /\ running' = {l}
            /\ handle' = l
            /\ UNCHANGED waiting

\* The loop stops: because it was told to, or by itself.
Stop == /\ running # {}
        /\ running' = {}
        /\ UNCHANGED <<handle, waiting>>

\* A goroutine takes the handle; with no handle there is nothing to wait for.
Take(g) == /\ waiting[g] = None
           /\ waiting' = [waiting EXCEPT ![g] = handle]
           /\ handle' = None
           /\ UNCHANGED running

\* The goroutine comes back: the loop it waited for does not run.
Return(g) == /\ waiting[g] # None
             /\ waiting[g] \notin running
             /\ waiting' = [waiting EXCEPT ![g] = None]
             /\ UNCHANGED <<running, handle>>

Next == \/ \E l \in Loops : Start(l)
        \/ Stop
        \/ \E g \in Goroutines : Take(g) \/ Return(g)

Spec == Init /\ [][Next]_vars
=============================================================================
