------------------------------- MODULE Poller -------------------------------
(***************************************************************************)
(* The long poll loop (longpoll/poller.go, server.go) against a server     *)
(* that publishes updates, forgets old ones, lets keys expire and loses    *)
(* answers.  The poller belongs to the client and keeps its server and ts  *)
(* from one Run to the next; Lifecycle shows that Runs do not overlap.     *)
(*                                                                         *)
(* The ts is a position in the history: ts n stands for "everything up to  *)
(* update n".  One step is one critical section of Poller.mu, one answer   *)
(* of the server, or one handler call.                                     *)
(***************************************************************************)
EXTENDS Integers

CONSTANTS MaxHead,      \* bounds the updates
          Unset,        \* no ts yet
          MaxFaults,    \* bounds the expired keys and forgotten clients
          Fatal         \* may an answer be one that ends Run?

ASSUME BoundAssumption == MaxHead \in Nat /\ MaxFaults \in Nat
ASSUME UnsetAssumption == Unset \notin Int
ASSUME FatalAssumption == Fatal \in BOOLEAN

VARIABLES head, floor, lost,    \* the server: see UpdateFeed
          keyValid,     \* the key the poller has is good
          faults,       \* how many faults happened
          pc,           \* where Run is
          known,        \* Poller.server is set
          ts,           \* Poller.ts
          oldTS,        \* the ts to restore after a refresh for failed: 2
          fetch,        \* why the server is asked for: none yet, or a failed
          resp,         \* the answer of the last poll
          upto,         \* the last update of the batch being handed out
          next,         \* the next update to hand out
          cancelled,    \* the context of Run is cancelled
          result,       \* what Run returned
          shown         \* the last update that was handed to the handlers

server == <<head, floor, lost, keyValid, faults>>
poller == <<known, ts, oldTS, fetch>>
batch == <<upto, next, shown>>
vars == <<server, poller, batch, pc, resp, cancelled, result>>

Positions == 0..MaxHead

Init == /\ head = 0 /\ floor = 0 /\ lost = FALSE /\ keyValid = FALSE /\ faults = 0
        /\ known = FALSE /\ ts = Unset /\ oldTS = Unset /\ fetch = "none"
        /\ upto = 0 /\ next = 1 /\ shown = 0
        /\ pc = "stopped" /\ cancelled = FALSE /\ result = "none"
        /\ resp = [failed |-> 0, ts |-> 0]

-----------------------------------------------------------------------------
(* The server and the application *)

Publish ==
    /\ head < MaxHead
    /\ head' = head + 1
    /\ UNCHANGED <<floor, lost, keyValid, faults, poller, batch, pc, resp, cancelled, result>>

Truncate ==
    /\ floor' \in (floor + 1)..head
    /\ UNCHANGED <<head, lost, keyValid, faults, poller, batch, pc, resp, cancelled, result>>

KeyExpires ==
    /\ keyValid /\ faults < MaxFaults
    /\ keyValid' = FALSE
    /\ faults' = faults + 1
    /\ UNCHANGED <<head, floor, lost, poller, batch, pc, resp, cancelled, result>>

Forget ==
    /\ ~lost /\ faults < MaxFaults
    /\ lost' = TRUE
    /\ faults' = faults + 1
    /\ UNCHANGED <<head, floor, keyValid, poller, batch, pc, resp, cancelled, result>>

\* Run, in a new loop with a new context.
Start ==
    /\ pc = "stopped"
    /\ pc' = "top"
    /\ cancelled' = FALSE
    /\ result' = "none"
    /\ UNCHANGED <<server, poller, batch, resp>>

Cancel ==
    /\ pc # "stopped" /\ ~cancelled
    /\ cancelled' = TRUE
    /\ UNCHANGED <<server, poller, batch, pc, resp, result>>

-----------------------------------------------------------------------------
(* Run *)

Return(r) == pc' = "stopped" /\ result' = r

\* Fault: Run is given the background context.
CtxDone_Never == FALSE

\* ctx.Err() # nil, in Run and in everything that gets its context.
CtxDone == cancelled

\* The top of the loop: a cancelled context, no server yet, or a poll.
Top ==
    /\ pc = "top"
    /\ \/ CtxDone /\ Return("canceled")
       \/ ~CtxDone /\ known /\ pc' = "poll" /\ UNCHANGED result
       \/ ~CtxDone /\ ~known /\ pc' = "fetch" /\ UNCHANGED result
    /\ UNCHANGED <<server, poller, batch, resp, cancelled>>

\* What the server answers to a poll at position t.
Answers(t) ==
    IF ~keyValid THEN {[failed |-> 2, ts |-> 0]}
    ELSE IF lost THEN {[failed |-> f, ts |-> 0] : f \in {3, 5}}
    ELSE IF t < floor THEN {[failed |-> 1, ts |-> n] : n \in floor..head}
    ELSE {[failed |-> 0, ts |-> n] : n \in t..head}

VersionRefused == [failed |-> 4, ts |-> 0]

\* With nothing new the server answers too, when the wait is over.  A request
\* whose context is done gets no answer.
Answer ==
    /\ pc = "poll" /\ ~CtxDone
    /\ resp' \in Answers(ts) \cup IF Fatal THEN {VersionRefused} ELSE {}
    /\ pc' = "answer"
    /\ UNCHANGED <<server, poller, batch, cancelled, result>>

\* No answer arrives, or none that can be used: pause, unless cancelled.
PollFails ==
    /\ pc = "poll"
    /\ \/ CtxDone /\ Return("canceled")
       \/ ~CtxDone /\ pc' = "pause" /\ UNCHANGED result
    /\ UNCHANGED <<server, poller, batch, resp, cancelled>>

\* backoff: the sleep ends by itself or with the context.
Resume ==
    /\ pc = "pause"
    /\ \/ CtxDone /\ Return("canceled") /\ fetch' = "none"
       \/ /\ pc' = IF fetch = "none" THEN "top" ELSE "fetch"
          /\ UNCHANGED <<result, fetch>>
    /\ UNCHANGED <<server, known, ts, oldTS, batch, resp, cancelled>>

\* Fault: the ts of the answer waits until the handlers are through.
Acknowledged_Later(r) == ts

\* The ts that an answer with updates sets before the handlers run.
Acknowledged(r) == r.ts

Updates ==
    /\ pc = "answer" /\ resp.failed = 0
    /\ ts' = Acknowledged(resp)
    /\ next' = ts + 1
    /\ upto' = resp.ts
    /\ pc' = "deliver"
    /\ UNCHANGED <<server, known, oldTS, fetch, shown, resp, cancelled, result>>

\* One handler call; the context is not looked at before the batch ends.
Deliver ==
    /\ pc = "deliver" /\ next <= upto
    /\ shown' = next
    /\ next' = next + 1
    /\ UNCHANGED <<server, poller, upto, pc, resp, cancelled, result>>

Delivered ==
    /\ pc = "deliver" /\ next > upto
    /\ pc' = "top"
    /\ UNCHANGED <<server, poller, batch, resp, cancelled, result>>

\* Fault: the ts that comes with failed: 1 is left out.
OutdatedTS_Ignored == ts

\* failed: 1 brings the ts to go on with; one that brings none changes nothing.
OutdatedTS == IF resp.ts # Unset THEN resp.ts ELSE ts

HistoryOutdated ==
    /\ pc = "answer" /\ resp.failed = 1
    /\ ts' = OutdatedTS
    /\ pc' = "top"
    /\ UNCHANGED <<server, known, oldTS, fetch, batch, resp, cancelled, result>>

\* Fault: the ts of the new server is taken for every code.
Keeps_None == {}

\* The codes that keep the ts while the server is asked for again.
Keeps == {2}

ServerOutdated ==
    /\ pc = "answer" /\ resp.failed \in {2, 3, 5}
    /\ fetch' = IF resp.failed \in Keeps THEN "keep" ELSE "take"
    /\ oldTS' = ts
    /\ pc' = "fetch"
    /\ UNCHANGED <<server, known, ts, batch, resp, cancelled, result>>

BadVersion ==
    /\ pc = "answer" /\ resp.failed = 4
    /\ Return("badVersion")
    /\ UNCHANGED <<server, poller, batch, resp, cancelled>>

ServerTS == head

\* messages.getLongPollServer: the key and the ts of now.
FetchServer ==
    /\ pc = "fetch" /\ ~CtxDone
    /\ known' = TRUE
    /\ keyValid' = TRUE
    /\ lost' = (lost /\ fetch = "keep")
    /\ ts' = ServerTS
    /\ pc' = IF fetch = "keep" THEN "restore" ELSE "top"
    /\ fetch' = IF fetch = "keep" THEN "keep" ELSE "none"
    /\ UNCHANGED <<head, floor, faults, oldTS, batch, resp, cancelled, result>>

\* The ts is put back, unless there was none.
RestoreTS ==
    /\ pc = "restore"
    /\ ts' = IF oldTS = Unset THEN ts ELSE oldTS
    /\ fetch' = "none"
    /\ pc' = "top"
    /\ UNCHANGED <<server, known, oldTS, batch, resp, cancelled, result>>

\* The errors that end Run: fatal() counts every exceeded deadline too.
FetchErrors == IF CtxDone THEN {"canceled"}
               ELSE IF Fatal THEN {"auth", "deadline"} ELSE {}

\* Any other error is followed by a pause.
FetchFails ==
    /\ pc = "fetch"
    /\ \/ /\ \E e \in FetchErrors : Return(e)
          /\ fetch' = "none"
       \/ /\ ~CtxDone
          /\ pc' = "pause"
          /\ UNCHANGED <<fetch, result>>
    /\ UNCHANGED <<server, known, ts, oldTS, batch, resp, cancelled>>

-----------------------------------------------------------------------------
Environment == Publish \/ Truncate \/ KeyExpires \/ Forget

RunStep == \/ Top \/ Answer \/ PollFails \/ Resume
           \/ Updates \/ Deliver \/ Delivered
           \/ HistoryOutdated \/ ServerOutdated \/ BadVersion
           \/ FetchServer \/ RestoreTS \/ FetchFails

Next == Environment \/ Start \/ Cancel \/ RunStep

Spec == Init /\ [][Next]_vars

(***************************************************************************)
(* Run goes on while it can; requests that are made again and again get    *)
(* through again and again.                                                *)
(***************************************************************************)
FairSpec == Spec /\ WF_vars(RunStep) /\ SF_vars(Answer) /\ SF_vars(FetchServer)
                 /\ SF_vars(pc = "poll" /\ Answer /\ resp'.ts = head)

-----------------------------------------------------------------------------
(* Correctness *)

\* Every variable has its type; a poller that knows its server has a ts.
TypeOK ==
    /\ head \in Positions /\ floor \in 0..head /\ lost \in BOOLEAN
    /\ keyValid \in BOOLEAN /\ faults \in 0..MaxFaults
    /\ pc \in {"stopped", "top", "poll", "answer", "deliver", "pause", "fetch", "restore"}
    /\ known \in BOOLEAN
    /\ {ts, oldTS} \subseteq Positions \cup {Unset}
    /\ fetch \in {"none", "keep", "take"}
    /\ resp \in [failed : 0..5, ts : Positions]
    /\ upto \in Positions /\ next \in 1..(MaxHead + 1) /\ shown \in Positions
    /\ cancelled \in BOOLEAN
    /\ result \in {"none", "canceled", "auth", "deadline", "badVersion"}
    /\ known => ts # Unset

\* Everything up to here was handed to the handlers or given up by the server.
Position == IF pc = "restore" THEN oldTS
            ELSE IF pc = "deliver" THEN next - 1 ELSE ts

\* Updates reach the handlers once, in order and without a gap that the server
\* did not cause, across expired keys, lost answers, Disconnect and Connect.
Feed == INSTANCE UpdateFeed WITH pos <- Position
ImplementsUpdateFeed == Feed!Spec

\* The ts is never ahead of the server's history, nor behind what was handed
\* out, so that no update is asked for twice.
NeverAskedTwice == pc = "poll" => ts \in shown..head

\* A cancelled Run returns.
CancelStops == cancelled ~> pc = "stopped"

\* While Run goes on, every update is handed out or given up by the server.
KeepsUp == \A n \in 1..MaxHead :
    head >= n ~> pc = "stopped" \/ (Position # Unset /\ Position >= n)

-----------------------------------------------------------------------------
(* What the documentation says and the code does not keep *)

\* poller.go 103-105: everything but ErrBadVersion, API errors that cannot be
\* retried and a cancellation "is retried with backoff": a timeout too.
TimeoutRetried == result # "deadline"

\* poller.go 89: TS "returns the last acknowledged ts", which never goes back.
TSNeverBack == [][ts # Unset => ts' >= ts]_vars
=============================================================================
