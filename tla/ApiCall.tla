------------------------------- MODULE ApiCall -------------------------------
(***************************************************************************)
(* Calls of the API client (api/client.go, execute.go, limiter.go):        *)
(* several goroutines send messages (messages.go) or run scripts through   *)
(* one client; each attempt asks the token source for a token, waits for   *)
(* its slot in the limiter and posts; transient failures are tried again   *)
(* after a pause.                                                          *)
(*                                                                         *)
(* Time is relative: a slot is a number of ticks from now, a timer one of  *)
(* ticks that are left of it.                                              *)
(***************************************************************************)
EXTENDS Integers

CONSTANTS Callers,
          Scripts,      \* callers that run scripts; the others send messages
          MaxRetries,   \* Config.MaxRetries: negative for no retries at all
          Interval,     \* ticks between two slots; 0 when there is no limiter
          Second,       \* ticks of a second
          MaxAhead,     \* bounds the slots given out in advance
          MaxToken      \* bounds the refreshes of the token

ASSUME RetriesAssumption == MaxRetries \in Int
ASSUME ScriptsAssumption == Scripts \subseteq Callers
ASSUME SecondAssumption == Second \in Nat \ {0}
ASSUME BoundsAssumption == {Interval, MaxAhead, MaxToken} \subseteq Nat

VARIABLES free,         \* limiter.next: the next free slot, 0 when it has passed
          token,        \* what the token source has now, counting refreshes
          pc, attempt,
          slot,         \* the slot reserved for the attempt
          pause,        \* what is left of the pause between two attempts
          rested,       \* how long that pause, or the last one, has lasted
          tok,          \* the token taken for the attempt
          answer,       \* what came of the attempt, then of the call
          cancelled,    \* the context of the call is cancelled
          posts,        \* how often the server did what the call asks for
          done          \* calls of which the server did everything

timer == <<pause, rested>>
vars == <<free, token, pc, attempt, slot, timer, tok, answer, cancelled, posts, done>>

States == {"idle", "token", "reserve", "wait", "send", "decide", "pause"}
\* What an attempt gets: an answer with a response, execute_errors or both, or
\* with neither; an authorization failure; an error that is tried again (API
\* errors 1, 6 and 10, timeouts); any other.
Replies == {"response", "failures", "partial", "empty", "auth", "transient", "other"}

Results == {"none", "ok", "auth", "partial", "failed"}

Init == /\ free = 0
        /\ token = 0
        /\ pc = [c \in Callers |-> "idle"]
        /\ attempt = [c \in Callers |-> 0]
        /\ slot = [c \in Callers |-> -Interval]
        /\ pause = [c \in Callers |-> 0]
        /\ rested = [c \in Callers |-> 0]
        /\ tok = [c \in Callers |-> 0]
        /\ answer = [c \in Callers |-> "none"]
        /\ cancelled = {}
        /\ posts = [c \in Callers |-> 0]
        /\ done = {}

Goto(c, from, to) == pc[c] = from /\ pc' = [pc EXCEPT ![c] = to]

\* The locals of the call and its context are gone; the server remembers the
\* random_id.
Return(c, from, result) ==
    /\ Goto(c, from, "idle")
    /\ answer' = [answer EXCEPT ![c] = result]
    /\ attempt' = [attempt EXCEPT ![c] = 0]
    /\ tok' = [tok EXCEPT ![c] = 0]
    /\ pause' = [pause EXCEPT ![c] = 0] /\ rested' = [rested EXCEPT ![c] = 0]
    /\ cancelled' = cancelled \ {c}
    /\ IF c \in Scripts THEN posts' = [posts EXCEPT ![c] = 0] /\ done' = done \ {c}
                        ELSE UNCHANGED <<posts, done>>
    /\ UNCHANGED <<free, token, slot>>

-----------------------------------------------------------------------------
\* A slot this long past keeps nobody away any more.
Later(t) == IF t > -Interval THEN t - 1 ELSE t

Tick == /\ free' = IF free > 0 THEN free - 1 ELSE 0
        /\ slot' = [c \in Callers |-> Later(slot[c])]
        /\ pause' = [c \in Callers |-> IF pause[c] > 0 THEN pause[c] - 1 ELSE 0]
        /\ rested' = [c \in Callers |-> IF pause[c] > 0 THEN rested[c] + 1 ELSE rested[c]]
        /\ <<free, slot, pause>>' # <<free, slot, pause>>
        /\ UNCHANGED <<token, pc, attempt, tok, answer, cancelled, posts, done>>

\* Some goroutine refreshes the token.
Refresh == /\ token < MaxToken
           /\ token' = token + 1
           /\ UNCHANGED <<free, pc, attempt, slot, timer, tok, answer, cancelled, posts, done>>

\* A message is sent with a random_id of its own or, with WithRandomID, once
\* more with that of the call before.
Call(c) ==
    /\ Goto(c, "idle", "token")
    /\ answer' = [answer EXCEPT ![c] = "none"]
    /\ \/ UNCHANGED <<posts, done>>
       \/ posts' = [posts EXCEPT ![c] = 0] /\ done' = done \ {c}
    /\ UNCHANGED <<free, token, attempt, slot, timer, tok, cancelled>>

CancelCall(c) ==
    /\ pc[c] # "idle" /\ c \notin cancelled
    /\ cancelled' = cancelled \cup {c}
    /\ UNCHANGED <<free, token, pc, attempt, slot, timer, tok, answer, posts, done>>

TakeToken(c) ==
    /\ Goto(c, "token", "reserve")
    /\ tok' = [tok EXCEPT ![c] = token]
    /\ UNCHANGED <<free, token, attempt, slot, timer, answer, cancelled, posts, done>>

\* The token source may have none; that of Client never fails.
NoToken(c) == Return(c, "token", "failed")

\* Fault: a request that need not wait takes no slot.
FreeAfter_NoWait(at) == IF at = 0 THEN 0 ELSE at + Interval

FreeAfter(at) == at + Interval

\* limiter.wait, under its mutex.  The slot stays taken whatever happens next.
Reserve(c) ==
    /\ free <= MaxAhead
    /\ Goto(c, "reserve", "wait")
    /\ slot' = [slot EXCEPT ![c] = free]
    /\ free' = FreeAfter(free)
    /\ UNCHANGED <<token, attempt, timer, tok, answer, cancelled, posts, done>>

Waited(c) ==
    /\ slot[c] <= 0
    /\ Goto(c, "wait", "send")
    /\ UNCHANGED <<free, token, attempt, slot, timer, tok, answer, cancelled, posts, done>>

WaitCancelled(c) ==
    /\ c \in cancelled /\ slot[c] > 0
    /\ Return(c, "wait", "failed")

\* Fault: every attempt has a random_id of its own.
MadeAlready_NewID(c) == FALSE

\* The server knows the random_id of a message it made.
MadeAlready(c) == c \notin Scripts /\ posts[c] > 0

\* What the server may do and answer: a script may fail in part; whatever
\* stands in between may answer for it, and the answer may get lost after the
\* work is done.
Served(c) ==
    IF c \in cancelled THEN [reply : {"other", "transient"}, made : BOOLEAN, whole : BOOLEAN]
    ELSE IF tok[c] < token THEN [reply : {"auth", "transient"}, made : {FALSE}, whole : {FALSE}]
    ELSE [reply : {"response"}, made : {TRUE}, whole : {TRUE}]
         \cup [reply : {"empty", "transient", "other"}, made : BOOLEAN, whole : BOOLEAN]
         \cup IF c \in Scripts
              THEN [reply : {"failures", "partial"}, made : {TRUE}, whole : {FALSE}] ELSE {}

\* The POST.
Send(c) ==
    /\ Goto(c, "send", "decide")
    /\ \E s \in Served(c) :
         /\ s.made \/ ~s.whole
         /\ c \notin Scripts => s.made = s.whole
         /\ answer' = [answer EXCEPT ![c] = s.reply]
         /\ IF s.made /\ ~MadeAlready(c)
            THEN /\ posts' = [posts EXCEPT ![c] = @ + 1]
                 /\ done' = IF s.whole THEN done \cup {c} ELSE done \ {c}
            ELSE UNCHANGED <<posts, done>>
    /\ UNCHANGED <<free, token, attempt, slot, timer, tok, cancelled>>

\* New takes 0 for the default.
Retries == IF MaxRetries = 0 THEN 3 ELSE MaxRetries

TriesAgain(c) == attempt[c] < Retries /\ answer[c] = "transient"

\* Fault: an answer without a response passes.
Envelope_Lenient(reply) == reply \in {"response", "failures", "partial", "empty"}

\* decodeEnvelope gives an envelope and no error.
Envelope(reply) == reply \in {"response", "failures", "partial"}

\* Call: the response may not fit what the caller wants to decode it into.
Called == {"ok", "failed"}

\* Execute tells of the failures of a script when it has decoded the response.
Executed(reply) ==
    CASE reply = "failures" -> {"partial"}
      [] reply = "partial" -> {"partial", "failed"}
      [] OTHER -> {"ok", "failed"}

\* What the caller makes of the last attempt.
Outcomes(c) ==
    IF ~Envelope(answer[c]) THEN {IF answer[c] = "auth" THEN "auth" ELSE "failed"}
    ELSE IF c \in Scripts THEN Executed(answer[c]) ELSE Called

\* Fault: every pause is a second.
Backoff_Alike(a) == 1

\* The bit of time.Second, 5^9 * 2^9 nanoseconds, that a shift by a moves to the
\* sign of 64 bits.
Negative(a) == a \in 34..54 /\ (5^9 \div 2^(54 - a)) % 2 = 1

\* The seconds that the pause after an attempt lasts: a timer of no or negative
\* length goes off at once.
Backoff(a) == IF a < 4 THEN 2^a
              ELSE IF Negative(a) \/ a >= 55 THEN 0 ELSE 10

Decide(c) ==
    /\ \/ /\ TriesAgain(c)
          /\ Goto(c, "decide", "pause")
          /\ answer' = [answer EXCEPT ![c] = "none"]
          /\ pause' = [pause EXCEPT ![c] = Backoff(attempt[c]) * Second]
          /\ rested' = [rested EXCEPT ![c] = 0]
          /\ UNCHANGED <<free, token, attempt, slot, tok, cancelled, posts, done>>
       \/ /\ ~TriesAgain(c)
          /\ \E result \in Outcomes(c) : Return(c, "decide", result)

\* Fault: the attempts are not counted.
NextAttempt_Same(c) == attempt[c]

NextAttempt(c) == attempt[c] + 1

\* The pause ends, by its timer or with the context.
Resume(c) ==
    /\ pause[c] = 0
    /\ Goto(c, "pause", "token")
    /\ attempt' = [attempt EXCEPT ![c] = NextAttempt(c)]
    /\ UNCHANGED <<free, token, slot, timer, tok, answer, cancelled, posts, done>>

PauseCancelled(c) ==
    /\ c \in cancelled
    /\ Return(c, "pause", "failed")

Step(c) == \/ TakeToken(c) \/ NoToken(c)
           \/ Reserve(c) \/ Waited(c) \/ WaitCancelled(c) \/ Send(c)
           \/ Decide(c) \/ Resume(c) \/ PauseCancelled(c)

Next == \/ Tick
        \/ Refresh
        \/ \E c \in Callers : Call(c) \/ CancelCall(c) \/ Step(c)

Spec == Init /\ [][Next]_vars

\* Time passes, and a goroutine that can go on does; the mutex of the limiter
\* and the requests return.
FairSpec == Spec /\ WF_vars(Tick) /\ \A c \in Callers : WF_vars(Step(c)) /\ SF_vars(Reserve(c))

-----------------------------------------------------------------------------
(* Correctness *)

\* Every variable has its type; the retries stay within Config.MaxRetries.
TypeOK ==
    /\ free \in Nat /\ token \in 0..MaxToken
    /\ pc \in [Callers -> States]
    /\ attempt \in [Callers -> Nat] /\ \A c \in Callers : attempt[c] > 0 => attempt[c] <= Retries
    /\ pause \in [Callers -> Nat] /\ rested \in [Callers -> Nat]
    /\ slot \in [Callers -> Int] /\ tok \in [Callers -> 0..MaxToken]
    /\ answer \in [Callers -> Replies \cup Results]
    /\ cancelled \subseteq Callers /\ done \subseteq Callers
    /\ posts \in [Callers -> Nat]

\* A message is made at most once of its random_id, however often an answer was
\* lost and the call tried again or repeated: the random_id is drawn before the
\* first attempt (messages.go 72, client.go 144).  A script has none: it may run
\* once for each attempt.
SentOnce == \A c \in Callers : posts[c] <= IF c \in Scripts THEN attempt[c] + 1 ELSE 1

\* A call that returns without an error was carried out, all of it, by the
\* attempt that was answered or by one before whose answer was lost.
OkMeansDone ==
    [][\A c \in Callers : pc[c] = "decide" /\ answer'[c] = "ok" => c \in done]_vars

\* A call that is tried again pauses for a second first, and then twice as long as
\* it has paused before, up to ten seconds: as long as attempts are below 34, from
\* where on the shift of time.Second overflows 64 bits (client.go 144-175).
PausesDouble ==
    [][\A c \in Callers : pc[c] = "decide" /\ pc'[c] = "pause" /\ attempt[c] < 34 =>
          LET most == 10 * Second
              twice == IF 2 * rested[c] > most THEN most ELSE 2 * rested[c]
          IN pause'[c] = IF attempt[c] = 0 THEN Second ELSE twice]_vars

\* limiter.go 9: requests are spaced evenly.  Slots are at least an interval
\* apart, also those of calls that gave up waiting, and none lies in the past.
SlotsSpaced ==
    [][\A c, d \in Callers :
          c # d /\ pc[c] = "reserve" /\ pc'[c] = "wait"
              => slot'[c] >= 0 /\ slot'[c] - slot[d] >= Interval]_vars

\* Every call returns.
CallReturns == \A c \in Callers : pc[c] # "idle" ~> pc[c] = "idle"

-----------------------------------------------------------------------------
(* What the documentation says and the code does not keep *)

\* The design (212): "On API error 5 it refreshes once and retries".  A call
\* does not fail with error 5 while the client has a newer token.
StaleTokenRetried ==
    [][\A c \in Callers : pc[c] = "decide" /\ answer'[c] = "auth" /\ attempt[c] = 0
            => token = tok[c]]_vars

\* execute.go 28-30: "When some inner calls failed, the returned error is
\* ExecuteErrors".
FailuresReported ==
    [][\A c \in Callers : pc[c] = "decide" /\ answer[c] \in {"failures", "partial"}
            => answer'[c] = "partial"]_vars

\* client.go 113-114: "Transient errors are retried with backoff up to
\* Config.MaxRetries times".  No attempt follows another without a pause.
RetriedWithBackoff ==
    [][\A c \in Callers : pc[c] = "decide" /\ pc'[c] = "pause" => pause'[c] > 0]_vars
=============================================================================
