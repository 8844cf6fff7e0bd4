----------------------------- MODULE UpdateFeed -----------------------------
(***************************************************************************)
(* What the poller promises to the handlers: every update of the account,  *)
(* once and in order, from the first time the poller asks the server on,   *)
(* except those the server itself says it no longer has.                   *)
(***************************************************************************)
EXTENDS Integers

CONSTANTS MaxHead,  \* bounds the updates
          Unset     \* the position before the server was ever asked

VARIABLES head,     \* the newest update; updates are numbered from 1
          floor,    \* the server has the updates after this one
          lost,     \* the server forgot about the client
          pos,      \* everything up to here has been dealt with
          shown     \* the last update that was handed to the handlers

vars == <<head, floor, lost, pos, shown>>

Init == head = 0 /\ floor = 0 /\ lost = FALSE /\ pos = Unset /\ shown = 0

Publish == head < MaxHead /\ head' = head + 1 /\ UNCHANGED <<floor, lost, pos, shown>>

Truncate == floor' \in floor..head /\ UNCHANGED <<head, lost, pos, shown>>

Forget == lost' = TRUE /\ UNCHANGED <<head, floor, pos, shown>>

\* The next update reaches the handlers.
Hand == /\ pos \in 0..(head - 1)
        /\ pos' = pos + 1
        /\ shown' = pos + 1
        /\ UNCHANGED <<head, floor, lost>>

\* Updates are passed over, for a reason that lies with the server.
PassOver == /\ pos = Unset \/ pos < floor \/ lost
            /\ pos' \in 0..head
            /\ pos # Unset => pos' >= pos
            /\ lost' \in {lost, FALSE}
            /\ UNCHANGED <<head, floor, shown>>

Next == Publish \/ Truncate \/ Forget \/ Hand \/ PassOver

Spec == Init /\ [][Next]_vars
=============================================================================
