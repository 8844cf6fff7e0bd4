--------------------------- MODULE AtomicRegister ---------------------------
(***************************************************************************)
(* What a session storage promises: every store and every load takes       *)
(* effect at one instant between its call and its return, and one that     *)
(* returns an error has none, whenever the process dies.                   *)
(***************************************************************************)
CONSTANTS Goroutines, Data, NotFound

VARIABLES value,    \* the stored session, or NotFound
          op,       \* what each goroutine is doing
          arg,      \* the session it stores
          got       \* the session it loaded

vars == <<value, op, arg, got>>

Init == /\ value \in Data \cup {NotFound}
        /\ op = [g \in Goroutines |-> "idle"]
        /\ arg = [g \in Goroutines |-> NotFound]
        /\ got = [g \in Goroutines |-> NotFound]

Call(g, kind) == op[g] = "idle" /\ op' = [op EXCEPT ![g] = kind]

CallStore(g) == /\ Call(g, "storing")
                /\ \E d \in Data : arg' = [arg EXCEPT ![g] = d]
                /\ UNCHANGED <<value, got>>

CallLoad(g) == Call(g, "loading") /\ UNCHANGED <<value, arg, got>>

Store(g) == /\ op[g] = "storing"
            /\ value' = arg[g]
            /\ op' = [op EXCEPT ![g] = "stored"]
            /\ UNCHANGED <<arg, got>>

Fails(g) == /\ op[g] \in {"storing", "loading"}
            /\ op' = [op EXCEPT ![g] = "failed"]
            /\ UNCHANGED <<value, arg, got>>

Load(g) == /\ op[g] = "loading"
           /\ got' = [got EXCEPT ![g] = value]
           /\ op' = [op EXCEPT ![g] = "loaded"]
           /\ UNCHANGED <<value, arg>>

Return(g) == /\ op[g] \in {"stored", "failed", "loaded"}
             /\ op' = [op EXCEPT ![g] = "idle"]
             /\ arg' = [arg EXCEPT ![g] = NotFound]
             /\ got' = [got EXCEPT ![g] = NotFound]
             /\ UNCHANGED value

\* A set of goroutines dies; the stored session does not.
Crash == \E dead \in SUBSET Goroutines :
            /\ op' = [g \in Goroutines |-> IF g \in dead THEN "idle" ELSE op[g]]
            /\ arg' = [g \in Goroutines |-> IF g \in dead THEN NotFound ELSE arg[g]]
            /\ got' = [g \in Goroutines |-> IF g \in dead THEN NotFound ELSE got[g]]
            /\ UNCHANGED value

Next == \/ Crash
        \/ \E g \in Goroutines : \/ CallStore(g) \/ CallLoad(g) \/ Store(g)
                                 \/ Fails(g) \/ Load(g) \/ Return(g)

Spec == Init /\ [][Next]_vars
=============================================================================
