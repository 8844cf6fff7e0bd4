------------------------------- MODULE Intake -------------------------------
(***************************************************************************)
(* What happens to the updates of one answer of the long poll server on    *)
(* their way to the handlers: Decode, then handleUpdate of the client with *)
(* its look at the session and, when asked for, the call that hydrates a   *)
(* message (govka.go), while other goroutines learn or lose the user id of *)
(* the session (TokenRefresh says how).                                    *)
(***************************************************************************)
EXTENDS WireFormat

CONSTANTS Meanings,     \* what the server may want to say
          Me,           \* the user of the account
          MaxUpdates,   \* bounds the updates of an answer
          Hydrate       \* Config.HydrateMessages

\* The server means what its table has room for, and sends out what the user
\* wrote.
Parameters ==
    /\ Me \in Nat \ {0} /\ MaxUpdates \in Nat \ {0} /\ Hydrate \in BOOLEAN
    /\ \A m \in Meanings : Documented(m)
    /\ \A m \in Meanings : m.type = "Message" => (m.outgoing <=> m.sender = Me)

ASSUME ParametersAssumption == Parameters

VARIABLES pc,       \* where the poll goroutine is
          left,     \* updates of the answer that are not handed out yet
          means,    \* what the server meant by the one at hand
          update,   \* that update
          evt,      \* what became of it
          full,     \* Message.Full is set
          calls,    \* messages.getById calls made for the answer
          user      \* Session.UserID, or 0

vars == <<pc, left, means, update, evt, full, calls, user>>

Nothing == [type |-> "none"]

Init == /\ pc = "poll" /\ left = 0
        /\ means = Nothing /\ update = <<>> /\ evt = Nothing
        /\ full = FALSE /\ calls = 0
        /\ user \in {0, Me}

-----------------------------------------------------------------------------
\* An answer with updates has arrived.
Answered ==
    /\ pc = "poll"
    /\ left' \in 1..MaxUpdates
    /\ calls' = 0
    /\ pc' = "updates"
    /\ UNCHANGED <<means, update, evt, full, user>>

\* Fault: whatever has no sender gets the user id.
Own_All(e) == e.from = 0

Own(e) == e.outgoing /\ e.from = 0

\* handleUpdate names the user the sender of an outgoing message.
Handled(e) ==
    IF e.type = "Message" /\ Own(e) THEN [e EXCEPT !.from = user] ELSE e

Take ==
    /\ pc = "updates" /\ left > 0
    /\ \E m \in Meanings, s \in Spellings, n \in 0..9 :
         /\ means' = m
         /\ update' = Cut(Wire(m, s), n)
    /\ evt' = Handled(DecodeUpdate(update'))
    /\ full' = FALSE
    /\ pc' = IF evt'.type = "Message" /\ Hydrate THEN "hydrate" ELSE "dispatch"
    /\ UNCHANGED <<left, calls, user>>

\* messages.getById answers with the message, which names its sender.
Hydrated ==
    /\ pc = "hydrate"
    /\ evt' = IF evt.from = 0 THEN [evt EXCEPT !.from = means.sender] ELSE evt
    /\ full' = TRUE
    /\ calls' = calls + 1
    /\ pc' = "dispatch"
    /\ UNCHANGED <<left, means, update, user>>

\* An error, or the message is gone: the event goes out as it is.
HydrateFails ==
    /\ pc = "hydrate"
    /\ calls' = calls + 1
    /\ pc' = "dispatch"
    /\ UNCHANGED <<left, means, update, evt, full, user>>

\* The handlers get the event.
Dispatch ==
    /\ pc = "dispatch"
    /\ left' = left - 1
    /\ means' = Nothing /\ update' = <<>> /\ evt' = Nothing /\ full' = FALSE
    /\ pc' = IF left = 1 THEN "poll" ELSE "updates"
    /\ UNCHANGED <<calls, user>>

\* Connect learns the id; a refresh that was under way may drop it again.
UserChanges ==
    /\ user' \in {0, Me} \ {user}
    /\ UNCHANGED <<pc, left, means, update, evt, full, calls>>

Next == Answered \/ Take \/ Hydrated \/ HydrateFails \/ Dispatch \/ UserChanges

Spec == Init /\ [][Next]_vars

-----------------------------------------------------------------------------
(* Correctness *)

\* Every variable has its type: the handlers get structs of events.go, with
\* every field in its range, and at most one call is made for an update.
TypeOK ==
    /\ pc \in {"poll", "updates", "hydrate", "dispatch"}
    /\ left \in 0..MaxUpdates
    /\ calls \in Nat /\ pc # "poll" => calls <= MaxUpdates - left + 1
    /\ means \in Meanings \cup {Nothing} /\ user \in {0, Me}
    /\ pc \in {"hydrate", "dispatch"} <=> evt # Nothing
    /\ pc = "dispatch" => Declared(evt)
    /\ pc = "hydrate" => Hydrate /\ evt.type = "Message"
    /\ full => pc = "dispatch" /\ evt.type = "Message"

\* The handlers see a message with the sender it has or with none: never with
\* another, whatever was cut off, looked up in the session while that changed,
\* or fetched; and with its sender once it was hydrated.
NeverMisattributed ==
    pc = "dispatch" /\ evt.type = "Message"
        => evt.from \in IF full THEN {means.sender} ELSE {0, means.sender}

\* A whole update, its numbers plain or quoted, is read as the table of the
\* documentation says.
ReadAsDocumented ==
    pc = "dispatch" /\ (\E s \in Spellings : update = Wire(means, s))
        => \A f \in DOMAIN evt : f \in DOMAIN means => evt[f] = means[f]

\* The ids, kinds and counts that an event is about.
Identity == {"id", "user", "users", "peer", "chat", "local", "typ", "info", "call", "count"}

\* The ids that come out as 0 where the update ends before them: the peer of changed
\* flags, the call of a Call and what changed in a chat (decode.go 129, 230, 263).
LeftOpen(e, f, u) ==
    \/ e.type = "MessageFlags" /\ f = "peer" /\ 3 \notin DOMAIN u
    \/ e.type = "ChatInfo" /\ f = "info" /\ 3 \notin DOMAIN u
    \/ e.type = "Call" /\ f = "call" /\ 2 \notin DOMAIN u

\* A short update comes out raw with all that it had, or as an event of its own kind
\* about the same subject: but for the three ids above, which are then 0, no id is
\* missing from it or another.
NothingMadeUp ==
    pc = "dispatch" =>
        \/ evt.type = "RawUpdate" /\ evt.raw = update
        \/ /\ evt.type = means.type
           /\ \A f \in Identity \cap DOMAIN evt :
                 evt[f] = means[f] \/ (LeftOpen(evt, f, update) /\ evt[f] = 0)

-----------------------------------------------------------------------------
(* What the documentation says and the code does not keep *)

\* govka.go 63-64: hydration costs "one API call per poll cycle that contained
\* messages".
OneCallPerCycle == calls <= 1

\* events.go 110-111: "The remaining fields are present only when VK includes
\* the extra fields; check Peer != 0 before relying on them".
PeerMeansExtra ==
    evt.type = "MessageFlags" /\ evt.peer # 0 => evt.date # {}

\* events.go 210-211: RawUpdate is delivered "for events whose layout did not match
\* expectations".  An update that ends before one of its ids comes out raw, unless it
\* is about flags, whose peer may be missing.
ShortComesOutRaw ==
    pc = "dispatch" /\ evt.type \notin {"RawUpdate", "MessageFlags"}
        => \A f \in Identity \cap DOMAIN evt : evt[f] = means[f]
=============================================================================
