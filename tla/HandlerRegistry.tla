--------------------------- MODULE HandlerRegistry ---------------------------
(***************************************************************************)
(* The event handlers of a client (govka.go): goroutines dispatch events   *)
(* while the application and the handlers themselves add and remove        *)
(* handlers, and a handler may make its goroutine dispatch once more (by   *)
(* Logout, say) before it returns or panics.                               *)
(*                                                                         *)
(* One step is one critical section of handlersMu, or one handler call.    *)
(* Ids are those of a counter of Width values.                             *)
(***************************************************************************)
EXTENDS Integers, FiniteSets, SequencesExt

CONSTANTS Goroutines,
          Width,        \* how many values the counter has: 2^32
          MaxAdds,      \* bounds the handlers that are ever added
          MaxDepth      \* bounds the dispatches inside dispatches

ASSUME WidthAssumption == Width \in Nat \ {0}
ASSUME GoroutinesAssumption == IsFiniteSet(Goroutines)
ASSUME BoundsAssumption == MaxAdds \in Nat /\ MaxDepth \in Nat \ {0}

VARIABLES handlers,     \* id -> handler, a handler being its number of addition
          nextID,       \* the last id that was given out
          added,        \* how many handlers were added
          stack,        \* the dispatches of each goroutine, the innermost last
          wants         \* what the running handler of a goroutine wants to do

vars == <<handlers, nextID, added, stack, wants>>

Init == /\ handlers = [id \in {} |-> 0]
        /\ nextID = 0
        /\ added = 0
        /\ stack = [g \in Goroutines |-> <<>>]
        /\ wants = [g \in Goroutines |-> "nothing"]

Ids == DOMAIN handlers

-----------------------------------------------------------------------------
(* A dispatch: the handlers still to be called, those it has called, and    *)
(* those that were there when it began and have not been removed since.     *)

\* Fault: the newest handler comes first.
Queue_Newest(ids) == SetToSortSeq(ids, >)

Ascending(seq) == \A i, j \in DOMAIN seq : i < j => seq[i] < seq[j]

\* The ids of the snapshot, sorted.
Queue(ids) == CHOOSE seq \in [1..Cardinality(ids) -> ids] : Ascending(seq)

Frame == [rest |-> [i \in DOMAIN Queue(Ids) |-> handlers[Queue(Ids)[i]]],
          called |-> <<>>,
          kept |-> {handlers[id] : id \in Ids}]

Top(g) == Last(stack[g])

Running(g) == stack[g] # <<>> /\ Top(g).called # <<>>

\* Fault: the read lock is held until the handlers are through.
Locked_Throughout == \E g \in Goroutines : stack[g] # <<>>

\* handlersMu is free whenever a handler runs.
Locked == FALSE

\* The snapshot, on an idle goroutine or inside a running handler.
Dispatch(g) ==
    /\ stack[g] = <<>> \/ Running(g)
    /\ wants[g] = "nothing"
    /\ Len(stack[g]) < MaxDepth
    /\ stack' = [stack EXCEPT ![g] = Append(@, Frame)]
    /\ UNCHANGED <<handlers, nextID, added, wants>>

\* Fault: a panic ends the dispatch.
After_Panic(rest) == {rest, <<>>}

\* What may be left to call after a handler returned or panicked.
After(rest) == {rest}

\* The handler before has returned, or panicked and was recovered.
CallNext(g) ==
    /\ stack[g] # <<>> /\ wants[g] = "nothing"
    /\ Top(g).rest # <<>>
    /\ \E rest \in After(Tail(Top(g).rest)) :
         LET called == Append(Top(g).called, Head(Top(g).rest)) IN
         stack' = [stack EXCEPT ![g] =
                     Append(Front(@), [Top(g) EXCEPT !.rest = rest, !.called = called])]
    /\ UNCHANGED <<handlers, nextID, added, wants>>

DispatchEnds(g) ==
    /\ stack[g] # <<>> /\ wants[g] = "nothing"
    /\ Top(g).rest = <<>>
    /\ stack' = [stack EXCEPT ![g] = Front(@)]
    /\ UNCHANGED <<handlers, nextID, added, wants>>

-----------------------------------------------------------------------------
(* Changes, by a running handler or by a goroutine that dispatches nothing *)

Adding == Cardinality({g \in Goroutines : wants[g] = "add"})

Want(g) ==
    /\ wants[g] = "nothing"
    /\ stack[g] = <<>> \/ Running(g)
    /\ \E w \in {"add", "remove", "clear"} :
         /\ w = "add" => added + Adding < MaxAdds
         /\ wants' = [wants EXCEPT ![g] = w]
    /\ UNCHANGED <<handlers, nextID, added, stack>>

Done(g) == wants' = [wants EXCEPT ![g] = "nothing"]

\* The handlers that are gone are not kept by any dispatch under way.
Forget(gone) ==
    stack' = [g \in Goroutines |->
        [i \in DOMAIN stack[g] |-> [stack[g][i] EXCEPT !.kept = @ \ gone]]]

Following(id) == (id + 1) % Width

\* An id that comes round again replaces the handler that has it.
AddEventHandler(g) ==
    /\ wants[g] = "add" /\ ~Locked
    /\ nextID' = Following(nextID)
    /\ added' = added + 1
    /\ handlers' = [id \in Ids \cup {nextID'} |->
                        IF id = nextID' THEN added' ELSE handlers[id]]
    /\ Forget({handlers[id] : id \in Ids \cap {nextID'}})
    /\ Done(g)

\* An id that is not there changes nothing.
RemoveEventHandler(g) ==
    /\ wants[g] = "remove" /\ ~Locked
    /\ \E id \in 0..(Width - 1) :
         /\ handlers' = [i \in Ids \ {id} |-> handlers[i]]
         /\ Forget({handlers[i] : i \in Ids \cap {id}})
    /\ Done(g)
    /\ UNCHANGED <<nextID, added>>

\* A new map; the counter goes on.
RemoveEventHandlers(g) ==
    /\ wants[g] = "clear" /\ ~Locked
    /\ handlers' = [id \in {} |-> 0]
    /\ Forget({handlers[id] : id \in Ids})
    /\ Done(g)
    /\ UNCHANGED <<nextID, added>>

-----------------------------------------------------------------------------
Change(g) == \/ AddEventHandler(g) \/ RemoveEventHandler(g) \/ RemoveEventHandlers(g)

Next == \E g \in Goroutines : \/ Dispatch(g) \/ CallNext(g) \/ DispatchEnds(g)
                              \/ Want(g) \/ Change(g)

Spec == Init /\ [][Next]_vars

\* A goroutine that waits for the mutex gets it.
FairSpec == Spec /\ \A g \in Goroutines : WF_vars(Change(g))

-----------------------------------------------------------------------------
(* Correctness *)

\* Every variable has its type, and no handler is registered twice.
TypeOK ==
    /\ nextID \in 0..(Width - 1) /\ added \in 0..MaxAdds
    /\ Ids \subseteq 0..(Width - 1)
    /\ IsInjective(handlers)
    /\ \A id \in Ids : handlers[id] \in 1..added
    /\ wants \in [Goroutines -> {"nothing", "add", "remove", "clear"}]
    /\ \A g \in Goroutines : Len(stack[g]) <= MaxDepth

\* Every dispatch, also one inside a handler, calls handlers in the order in
\* which they were added and none twice, whoever adds and removes meanwhile
\* (govka.go 72, 182-196).
InOrderOnce ==
    \A g \in Goroutines : \A i \in DOMAIN stack[g] :
        Ascending(stack[g][i].called \o stack[g][i].rest)

\* A dispatch that ends has called every handler that was registered from its
\* beginning to its end: removing one, adding one or a panic costs no other
\* handler the event.
NobodyMissed ==
    \A g \in Goroutines : stack[g] # <<>> /\ Top(g).rest = <<>>
        => Top(g).kept \subseteq ToSet(Top(g).called)

\* A handler may add and remove handlers while it is called: it gets through.
ChangesReturn == \A g \in Goroutines : wants[g] # "nothing" ~> wants[g] = "nothing"
=============================================================================
