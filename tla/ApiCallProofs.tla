---------------------------- MODULE ApiCallProofs ----------------------------
(***************************************************************************)
(* Proofs about ApiCall, for any callers, scripts, retries, interval and   *)
(* bounds.  A message counts on the server knowing its random_id           *)
(* (MessageOnce), a script on one run per attempt (RunsPerAttempt); what a *)
(* caller is told rests on what the answer stands for (AnswerEarned); the  *)
(* limiter keeps every slot an interval before the next (SlotsBehind); and *)
(* what is left of a pause and what has passed of it are its whole length, *)
(* which the next attempt remembers (RestsTrue).                           *)
(***************************************************************************)
EXTENDS ApiCall, TLAPS

\* A caller that pauses has a retry left.
RetryLeft == \A c \in Callers : pc[c] = "pause" => attempt[c] < Retries

\* The attempt under way has been posted.
Posted(c) == pc[c] \in {"decide", "pause"}

RunsPerAttempt == \A c \in Scripts :
    posts[c] <= IF Posted(c) THEN attempt[c] + 1 ELSE attempt[c]

MessageOnce == \A c \in Callers \ Scripts :
    posts[c] \in {0, 1} /\ (posts[c] = 1 => c \in done)

\* A response stands for something that was done whole; only a script can fail
\* in part.
AnswerEarned == \A c \in Callers : pc[c] = "decide" =>
    /\ answer[c] \in Replies
    /\ answer[c] = "response" => c \in done
    /\ c \notin Scripts => answer[c] \notin {"failures", "partial"}

SlotsBehind == \A c \in Callers : slot[c] + Interval <= free

\* How long the pause after an attempt lasts, in ticks.
Length(a) == Backoff(a) * Second

RestsTrue == \A c \in Callers :
    /\ pc[c] = "pause" => pause[c] + rested[c] = Length(attempt[c])
    /\ pc[c] # "pause" => pause[c] = 0 /\ (attempt[c] > 0 => rested[c] = Length(attempt[c] - 1))
    /\ pc[c] = "idle" => attempt[c] = 0

Inv == /\ TypeOK /\ RetryLeft /\ RunsPerAttempt /\ MessageOnce /\ AnswerEarned /\ SlotsBehind
       /\ RestsTrue

-----------------------------------------------------------------------------
\* The pauses: one second, two, four, eight, then ten as long as the shift fits.
LEMMA Pauses ==
    /\ Backoff(0) = 1 /\ Backoff(1) = 2 /\ Backoff(2) = 4 /\ Backoff(3) = 8
    /\ \A a \in 4..33 : Backoff(a) = 10
  <1>1. 2^0 = 1 /\ 2^1 = 2 /\ 2^2 = 4 /\ 2^3 = 8
    OBVIOUS
  <1>2. \A a \in 4..33 : ~Negative(a)
    BY DEF Negative
  <1> QED BY <1>1, <1>2 DEF Backoff

\* Every pause is a number of ticks, none where the shift overflows.
LEMMA LengthType == \A a \in Nat : Length(a) \in Nat
  <1> SUFFICES ASSUME NEW a \in Nat PROVE Length(a) \in Nat
    OBVIOUS
  <1>1. Backoff(a) \in {1, 2, 4, 8, 10, 0}
    <2>1. CASE a < 4
      BY <2>1, Pauses
    <2>2. CASE a >= 4
      BY <2>2 DEF Backoff
    <2> QED BY <2>1, <2>2
  <1> QED BY <1>1, SecondAssumption DEF Length

\* Nothing was posted and no slot given out yet.
LEMMA InvInit == Init => Inv
  <1> SUFFICES ASSUME Init PROVE Inv
    OBVIOUS
  <1> USE BoundsAssumption, ScriptsAssumption, RetriesAssumption DEF Init
  <1>1. TypeOK
    BY DEF TypeOK, States, Replies, Results
  <1>2. RetryLeft /\ RunsPerAttempt /\ MessageOnce /\ AnswerEarned /\ RestsTrue
    BY DEF RetryLeft, RunsPerAttempt, Posted, MessageOnce, AnswerEarned, RestsTrue
  <1>3. SlotsBehind
    <2> SUFFICES ASSUME NEW c \in Callers PROVE slot[c] + Interval <= free
      BY DEF SlotsBehind
    <2>1. slot[c] = -Interval /\ free = 0 /\ Interval \in Nat
      OBVIOUS
    <2>2. \A i \in Nat : -i + i <= 0
      OBVIOUS
    <2> QED BY ONLY <2>1, <2>2
  <1> QED BY <1>1, <1>2, <1>3 DEF Inv

\* Time takes the slots and the next free one closer alike, but not past now.
LEMMA TickStep == ASSUME Inv, Tick PROVE Inv'
  <1> USE BoundsAssumption DEF Inv, TypeOK
  <1>1. /\ free' = (IF free > 0 THEN free - 1 ELSE 0)
        /\ slot' = [c \in Callers |-> Later(slot[c])]
        /\ pause' = [c \in Callers |-> IF pause[c] > 0 THEN pause[c] - 1 ELSE 0]
        /\ rested' = [c \in Callers |-> IF pause[c] > 0 THEN rested[c] + 1 ELSE rested[c]]
        /\ UNCHANGED <<token, pc, attempt, tok, answer, cancelled, posts, done>>
    BY DEF Tick
  <1>2. \A c \in Callers : slot'[c] \in Int /\ slot'[c] + Interval <= free'
    <2> SUFFICES ASSUME NEW c \in Callers
                 PROVE  slot'[c] \in Int /\ slot'[c] + Interval <= free'
      OBVIOUS
    <2>1. slot[c] \in Int /\ slot[c] + Interval <= free /\ slot'[c] = Later(slot[c])
      BY <1>1 DEF SlotsBehind
    <2> QED BY <1>1, <2>1 DEF Later
  <1>4. \A c \in Callers :
          /\ pause'[c] \in Nat /\ rested'[c] \in Nat
          /\ pause'[c] + rested'[c] = pause[c] + rested[c]
          /\ pause[c] = 0 => pause'[c] = 0 /\ rested'[c] = rested[c]
    BY <1>1
  <1>3. TypeOK'
    BY <1>1, <1>2, <1>4
  <1>5. RestsTrue'
    BY <1>1, <1>4 DEF RestsTrue, Length
  <1> QED
    BY <1>1, <1>2, <1>3, <1>5
    DEF RetryLeft, RunsPerAttempt, Posted, MessageOnce, AnswerEarned, SlotsBehind

\* A refresh of the token, or the end of a context, changes nothing of a call.
LEMMA AsideStep ==
  ASSUME Inv, Refresh \/ \E c \in Callers : CancelCall(c)
  PROVE  Inv'
  <1> USE BoundsAssumption DEF Inv
  <1>1. UNCHANGED <<free, pc, attempt, slot, pause, rested, tok, answer, posts, done>>
    BY DEF Refresh, CancelCall, timer
  <1>2. token' \in 0..MaxToken /\ cancelled' \subseteq Callers
    BY DEF Refresh, CancelCall, TypeOK
  <1>3. TypeOK'
    BY <1>1, <1>2 DEF TypeOK
  <1> QED
    BY <1>1, <1>3
    DEF RetryLeft, RunsPerAttempt, Posted, MessageOnce, AnswerEarned, SlotsBehind,
        RestsTrue, Length

\* A caller moves between two places before its POST.
LEMMA BeforePost ==
  ASSUME Inv, NEW c \in Callers, TakeToken(c) \/ Reserve(c) \/ Waited(c)
  PROVE  Inv'
  <1> USE BoundsAssumption, ScriptsAssumption DEF Inv, TypeOK, States, Goto
  <1>1. /\ UNCHANGED <<attempt, pause, rested, answer, cancelled, posts, done>>
        /\ pc' = [pc EXCEPT ![c] = pc'[c]]
        /\ pc[c] \in {"token", "reserve", "wait"} /\ pc'[c] \in {"reserve", "wait", "send"}
    BY DEF TakeToken, Reserve, Waited, timer
  <1>2. TypeOK'
    BY <1>1 DEF TakeToken, Reserve, Waited, FreeAfter
  <1>3. SlotsBehind'
    BY DEF TakeToken, Reserve, Waited, FreeAfter, SlotsBehind
  <1>4. RetryLeft' /\ AnswerEarned' /\ MessageOnce'
    BY <1>1 DEF RetryLeft, AnswerEarned, MessageOnce
  <1>5. RunsPerAttempt'
    BY <1>1 DEF RunsPerAttempt, Posted
  <1>6. RestsTrue'
    BY <1>1 DEF RestsTrue, Length
  <1> QED BY <1>2, <1>3, <1>4, <1>5, <1>6

\* The call is tried once more: the next attempt has not been posted yet.
LEMMA ResumeStep == ASSUME Inv, NEW c \in Callers, Resume(c) PROVE Inv'
  <1> USE BoundsAssumption, ScriptsAssumption, RetriesAssumption
      DEF Inv, TypeOK, States, Goto
  <1>1. /\ pc[c] = "pause" /\ pc' = [pc EXCEPT ![c] = "token"]
        /\ attempt' = [attempt EXCEPT ![c] = attempt[c] + 1]
        /\ pause[c] = 0
        /\ UNCHANGED <<free, token, slot, pause, rested, tok, answer, cancelled, posts, done>>
    BY DEF Resume, NextAttempt, timer
  <1>2. Retries \in Int
    BY DEF Retries
  <1>3. attempt[c] < Retries
    BY <1>1 DEF RetryLeft
  <1>4. TypeOK'
    BY <1>1, <1>2, <1>3
  <1>5. RunsPerAttempt'
    BY <1>1 DEF RunsPerAttempt, Posted
  <1>6. RetryLeft' /\ AnswerEarned' /\ MessageOnce' /\ SlotsBehind'
    BY <1>1 DEF RetryLeft, AnswerEarned, MessageOnce, SlotsBehind
  <1>7. RestsTrue'
    <2>1. rested[c] = Length(attempt[c]) /\ attempt'[c] - 1 = attempt[c]
      BY <1>1 DEF RestsTrue
    <2> QED BY <1>1, <2>1 DEF RestsTrue, Length
  <1> QED BY <1>4, <1>5, <1>6, <1>7

\* A call begins: its message is new, or the one of the call before.
LEMMA CallStep == ASSUME Inv, NEW c \in Callers, Call(c) PROVE Inv'
  <1> USE BoundsAssumption, ScriptsAssumption DEF Inv, TypeOK, States, Goto
  <1>1. /\ pc[c] = "idle" /\ pc' = [pc EXCEPT ![c] = "token"]
        /\ answer' = [answer EXCEPT ![c] = "none"]
        /\ \/ UNCHANGED <<posts, done>>
           \/ posts' = [posts EXCEPT ![c] = 0] /\ done' = done \ {c}
        /\ UNCHANGED <<free, token, attempt, slot, pause, rested, tok, cancelled>>
    BY DEF Call, timer
  <1>2. TypeOK'
    BY <1>1 DEF Results
  <1>3. RetryLeft' /\ SlotsBehind'
    BY <1>1 DEF RetryLeft, SlotsBehind
  <1>4. RunsPerAttempt'
    BY <1>1 DEF RunsPerAttempt, Posted
  <1>5. MessageOnce'
    BY <1>1 DEF MessageOnce
  <1>6. AnswerEarned'
    BY <1>1 DEF AnswerEarned
  <1>7. RestsTrue'
    BY <1>1 DEF RestsTrue, Length
  <1> QED BY <1>2, <1>3, <1>4, <1>5, <1>6, <1>7

\* A call returns: a script leaves nothing behind, a message stays made.
LEMMA ReturnStep ==
  ASSUME Inv, NEW c \in Callers, NEW from, NEW result \in Results, Return(c, from, result)
  PROVE  Inv'
  <1> USE BoundsAssumption, ScriptsAssumption DEF Inv, TypeOK, States, Goto
  <1>1. /\ pc' = [pc EXCEPT ![c] = "idle"]
        /\ answer' = [answer EXCEPT ![c] = result]
        /\ attempt' = [attempt EXCEPT ![c] = 0] /\ tok' = [tok EXCEPT ![c] = 0]
        /\ pause' = [pause EXCEPT ![c] = 0] /\ rested' = [rested EXCEPT ![c] = 0]
        /\ cancelled' = cancelled \ {c}
        /\ IF c \in Scripts THEN posts' = [posts EXCEPT ![c] = 0] /\ done' = done \ {c}
                            ELSE UNCHANGED <<posts, done>>
        /\ UNCHANGED <<free, token, slot>>
    BY DEF Return
  <1>2. TypeOK'
    BY <1>1
  <1>3. RetryLeft' /\ SlotsBehind'
    BY <1>1 DEF RetryLeft, SlotsBehind
  <1>4. RunsPerAttempt'
    BY <1>1 DEF RunsPerAttempt, Posted
  <1>5. MessageOnce'
    BY <1>1 DEF MessageOnce
  <1>6. AnswerEarned'
    BY <1>1 DEF AnswerEarned
  <1>7. RestsTrue'
    BY <1>1 DEF RestsTrue, Length
  <1> QED BY <1>2, <1>3, <1>4, <1>5, <1>6, <1>7

\* What the server may do is a reply; a response means all was done, and only a
\* script fails in part.
LEMMA ServedTrue ==
  ASSUME NEW c \in Callers, NEW s \in Served(c)
  PROVE  /\ s.reply \in Replies /\ s.made \in BOOLEAN /\ s.whole \in BOOLEAN
         /\ s.reply = "response" => s.made /\ s.whole
         /\ c \notin Scripts => s.reply \notin {"failures", "partial"}
  <1>1. CASE c \in cancelled
    BY <1>1 DEF Served, Replies
  <1>2. CASE c \notin cancelled /\ tok[c] < token
    BY <1>2 DEF Served, Replies
  <1>3. CASE c \notin cancelled /\ ~(tok[c] < token)
    BY <1>3 DEF Served, Replies
  <1> QED BY <1>1, <1>2, <1>3

\* The POST: the server makes a message it does not know, and runs a script again.
LEMMA SendStep == ASSUME Inv, NEW c \in Callers, Send(c) PROVE Inv'
  <1> USE BoundsAssumption, ScriptsAssumption DEF Inv, TypeOK, States, Goto
  <1>1. PICK s \in Served(c) :
          /\ s.made \/ ~s.whole
          /\ c \notin Scripts => s.made = s.whole
          /\ answer' = [answer EXCEPT ![c] = s.reply]
          /\ IF s.made /\ ~MadeAlready(c)
             THEN /\ posts' = [posts EXCEPT ![c] = @ + 1]
                  /\ done' = IF s.whole THEN done \cup {c} ELSE done \ {c}
             ELSE UNCHANGED <<posts, done>>
    BY DEF Send
  <1>2. /\ pc[c] = "send" /\ pc' = [pc EXCEPT ![c] = "decide"]
        /\ UNCHANGED <<free, token, attempt, slot, pause, rested, tok, cancelled>>
    BY DEF Send, timer
  <1>3. /\ s.reply \in Replies
        /\ s.reply = "response" => s.made /\ s.whole
        /\ c \notin Scripts => s.reply \notin {"failures", "partial"}
    BY ServedTrue
  <1>4. /\ posts' \in [Callers -> Nat] /\ done' \subseteq Callers
        /\ \A d \in Callers \ {c} : posts'[d] = posts[d] /\ (d \in done' <=> d \in done)
        /\ posts'[c] <= posts[c] + 1
    BY <1>1
  <1>5. c \in Callers \ Scripts =>
          posts'[c] \in {0, 1} /\ (posts'[c] = 1 => c \in done') /\ (s.made => c \in done')
    BY <1>1 DEF MadeAlready, MessageOnce
  <1>6. c \in Scripts /\ s.made /\ s.whole => c \in done'
    BY <1>1 DEF MadeAlready
  <1>7. TypeOK'
    BY <1>1, <1>2, <1>3, <1>4
  <1>8. RetryLeft' /\ SlotsBehind'
    BY <1>2 DEF RetryLeft, SlotsBehind
  <1>9. RunsPerAttempt'
    <2> SUFFICES ASSUME NEW d \in Scripts
                 PROVE  posts'[d] <= IF Posted(d)' THEN attempt'[d] + 1 ELSE attempt'[d]
      BY DEF RunsPerAttempt
    <2>1. CASE d = c
      <3>1. posts[c] <= attempt[c] /\ attempt'[c] = attempt[c] /\ Posted(c)'
        BY <1>2, <2>1 DEF RunsPerAttempt, Posted
      <3>2. posts[c] \in Nat /\ posts'[c] \in Nat /\ attempt[c] \in Nat
        BY <1>4
      <3> QED BY ONLY <1>4, <2>1, <3>1, <3>2
    <2>2. CASE d # c
      BY <1>2, <1>4, <2>2 DEF RunsPerAttempt, Posted
    <2> QED BY <2>1, <2>2
  <1>10. MessageOnce'
    BY <1>2, <1>4, <1>5 DEF MessageOnce
  <1>11. AnswerEarned'
    BY <1>1, <1>2, <1>3, <1>4, <1>5, <1>6 DEF AnswerEarned
  <1>12. RestsTrue'
    BY <1>2 DEF RestsTrue, Length
  <1> QED BY <1>7, <1>8, <1>9, <1>10, <1>11, <1>12

\* A call ends with what its last attempt came to, or is tried again.
LEMMA DecideStep == ASSUME Inv, NEW c \in Callers, Decide(c) PROVE Inv'
  <1>1. CASE TriesAgain(c) /\ Goto(c, "decide", "pause")
             /\ answer' = [answer EXCEPT ![c] = "none"]
             /\ pause' = [pause EXCEPT ![c] = Backoff(attempt[c]) * Second]
             /\ rested' = [rested EXCEPT ![c] = 0]
             /\ UNCHANGED <<free, token, attempt, slot, tok, cancelled, posts, done>>
    <2> USE BoundsAssumption, ScriptsAssumption DEF Inv, TypeOK, States, Goto
    <2>1. /\ pc[c] = "decide" /\ pc' = [pc EXCEPT ![c] = "pause"]
          /\ attempt[c] < Retries
          /\ answer' = [answer EXCEPT ![c] = "none"]
          /\ pause' = [pause EXCEPT ![c] = Length(attempt[c])]
          /\ rested' = [rested EXCEPT ![c] = 0]
          /\ UNCHANGED <<free, token, attempt, slot, tok, cancelled, posts, done>>
      BY <1>1 DEF TriesAgain, Length
    <2>6. Length(attempt[c]) \in Nat
      BY LengthType
    <2>2. TypeOK'
      BY <2>1, <2>6 DEF Results
    <2>3. RetryLeft' /\ SlotsBehind'
      BY <2>1 DEF RetryLeft, SlotsBehind
    <2>4. RunsPerAttempt'
      BY <2>1 DEF RunsPerAttempt, Posted
    <2>5. MessageOnce' /\ AnswerEarned'
      BY <2>1 DEF MessageOnce, AnswerEarned
    <2>7. RestsTrue'
      <3>1. pause'[c] + rested'[c] = Length(attempt'[c])
        BY <2>1, <2>6
      <3> QED BY <2>1, <3>1 DEF RestsTrue, Length
    <2> QED BY <2>2, <2>3, <2>4, <2>5, <2>7
  <1>2. CASE \E result \in Outcomes(c) : Return(c, "decide", result)
    <2>1. PICK result \in Outcomes(c) : Return(c, "decide", result)
      BY <1>2
    <2>2. result \in Results
      BY DEF Outcomes, Executed, Called, Results
    <2> QED BY <2>1, <2>2, ReturnStep
  <1> QED BY <1>1, <1>2 DEF Decide

\* Every step keeps the invariant.
LEMMA InvStep == Inv /\ [Next]_vars => Inv'
  <1> SUFFICES ASSUME Inv, [Next]_vars PROVE Inv'
    OBVIOUS
  <1>1. CASE Tick
    BY <1>1, TickStep
  <1>2. CASE Refresh \/ \E c \in Callers : CancelCall(c)
    BY <1>2, AsideStep
  <1>3. ASSUME NEW c \in Callers, Call(c) PROVE Inv'
    BY <1>3, CallStep
  <1>4. ASSUME NEW c \in Callers, TakeToken(c) \/ Reserve(c) \/ Waited(c) PROVE Inv'
    BY <1>4, BeforePost
  <1>5. ASSUME NEW c \in Callers, NoToken(c) \/ WaitCancelled(c) \/ PauseCancelled(c)
        PROVE  Inv'
    BY <1>5, ReturnStep DEF NoToken, WaitCancelled, PauseCancelled, Results
  <1>6. ASSUME NEW c \in Callers, Send(c) PROVE Inv'
    BY <1>6, SendStep
  <1>7. ASSUME NEW c \in Callers, Decide(c) PROVE Inv'
    BY <1>7, DecideStep
  <1>8. ASSUME NEW c \in Callers, Resume(c) PROVE Inv'
    BY <1>8, ResumeStep
  <1>9. CASE UNCHANGED vars
    BY <1>9
    DEF vars, timer, Inv, TypeOK, RetryLeft, RunsPerAttempt, Posted, MessageOnce,
        AnswerEarned, SlotsBehind, RestsTrue, Length
  <1> QED
    BY <1>1, <1>2, <1>3, <1>4, <1>5, <1>6, <1>7, <1>8, <1>9 DEF Next, Step

\* Inv holds in every reachable state.
LEMMA Invariance == Spec => []Inv
  BY InvInit, InvStep, PTL DEF Spec

-----------------------------------------------------------------------------
\* Every variable has its type, and attempts stay within Config.MaxRetries
\* (client.go 144).
THEOREM TypeCorrect == Spec => []TypeOK
  <1>1. Inv => TypeOK
    BY DEF Inv
  <1> QED BY <1>1, Invariance, PTL

\* However often an attempt is lost, tried again or repeated by the caller, the
\* server makes a message once (messages.go 72, client.go 144), and runs a script
\* once per attempt.
THEOREM MadeOnce == Spec => []SentOnce
  <1>1. Inv => SentOnce
    <2> SUFFICES ASSUME Inv, NEW c \in Callers
                 PROVE  posts[c] <= IF c \in Scripts THEN attempt[c] + 1 ELSE 1
      BY DEF SentOnce
    <2>1. posts[c] \in Nat /\ attempt[c] \in Nat
      BY DEF Inv, TypeOK
    <2>2. CASE c \in Scripts
      BY <2>1, <2>2 DEF Inv, RunsPerAttempt
    <2>3. CASE c \notin Scripts
      BY <2>1, <2>3 DEF Inv, MessageOnce
    <2> QED BY <2>2, <2>3
  <1> QED BY <1>1, Invariance, PTL

\* A call that returns without an error was carried out, all of it: by the
\* attempt that was answered or by an earlier one whose answer was lost
\* (client.go 144-167, execute.go 36-46).
THEOREM OkEarned == Spec => OkMeansDone
  <1>1. Inv /\ [Next]_vars =>
          [\A c \in Callers : pc[c] = "decide" /\ answer'[c] = "ok" => c \in done]_vars
    <2> SUFFICES ASSUME Inv, Next, NEW c \in Callers, pc[c] = "decide", answer'[c] = "ok"
                 PROVE  c \in done
      OBVIOUS
    <2>1. answer \in [Callers -> Replies \cup Results] /\ answer[c] \in Replies
      BY DEF Inv, TypeOK, AnswerEarned
    <2>2. answer[c] # "ok"
      BY <2>1 DEF Replies
    <2>3. ASSUME NEW d \in Callers, Decide(d), d = c PROVE c \in done
      <3>1. PICK result \in Outcomes(c) : Return(c, "decide", result)
        BY <2>1, <2>3 DEF Decide
      <3>2. "ok" \in Outcomes(c)
        BY <2>1, <3>1 DEF Return
      <3>3. answer[c] = "response"
        BY <2>1, <3>2 DEF Outcomes, Envelope, Executed, Called, Inv, AnswerEarned, Replies
      <3> QED BY <3>3 DEF Inv, AnswerEarned
    <2>4. \A d \in Callers : Call(d) \/ Step(d) => d = c /\ Decide(d)
      <3> SUFFICES ASSUME NEW d \in Callers, Call(d) \/ Step(d) PROVE d = c /\ Decide(d)
        OBVIOUS
      <3>1. d # c => answer'[c] = answer[c]
        BY <2>1 DEF Call, Step, TakeToken, NoToken, Reserve, Waited, WaitCancelled, Send, Decide,
                    Resume, PauseCancelled, Return
      <3>2. pc[d] = "decide" => Decide(d)
        BY DEF Call, Step, TakeToken, NoToken, Reserve, Waited, WaitCancelled, Send,
               Resume, PauseCancelled, Return, Goto
      <3> QED BY <2>2, <3>1, <3>2
    <2>5. answer' # answer
      BY <2>2
    <2>6. \E d \in Callers : Call(d) \/ Step(d)
      BY <2>5 DEF Next, Tick, Refresh, CancelCall
    <2> QED BY <2>3, <2>4, <2>6
  <1> QED BY <1>1, Invariance, PTL DEF Spec, OkMeansDone

\* limiter.go 9: the slot that is given out lies an interval behind every other,
\* also those of calls that gave up waiting, and not in the past.
THEOREM EvenlySpaced == Spec => SlotsSpaced
  <1>1. Inv /\ [Next]_vars =>
          [\A c, d \in Callers :
             c # d /\ pc[c] = "reserve" /\ pc'[c] = "wait"
               => slot'[c] >= 0 /\ slot'[c] - slot[d] >= Interval]_vars
    <2> SUFFICES ASSUME Inv, Next, NEW c \in Callers, NEW d \in Callers,
                        c # d, pc[c] = "reserve", pc'[c] = "wait"
                 PROVE  slot'[c] >= 0 /\ slot'[c] - slot[d] >= Interval
      OBVIOUS
    <2> USE BoundsAssumption
    <2>1. /\ pc \in [Callers -> States] /\ slot \in [Callers -> Int] /\ free \in Nat
          /\ slot[d] + Interval <= free
      BY DEF Inv, TypeOK, SlotsBehind
    <2>2. Reserve(c)
      <3>1. ASSUME NEW e \in Callers, e # c, Call(e) \/ CancelCall(e) \/ Step(e)
            PROVE  FALSE
        BY <2>1, <3>1
        DEF Call, CancelCall, Step, TakeToken, NoToken, Reserve, Waited, WaitCancelled, Send,
            Decide, Resume, PauseCancelled, Return, Goto
      <3>2. Call(c) \/ CancelCall(c) \/ Step(c)
        BY <3>1 DEF Next, Tick, Refresh
      <3> QED
        BY <3>2
        DEF Call, CancelCall, Step, TakeToken, NoToken, Waited, WaitCancelled, Send, Decide,
            Resume, PauseCancelled, Return, Goto
    <2>3. slot'[c] = free
      BY <2>1, <2>2 DEF Reserve
    <2> QED BY <2>1, <2>3
  <1> QED BY <1>1, Invariance, PTL DEF Spec, SlotsSpaced

\* client.go 144-175: whatever is between its attempts, a call that is tried again
\* pauses twice as long as before, from a second up to ten, as far as the attempts
\* for which the shift fits 64 bits.
THEOREM PausesGrow == Spec => PausesDouble
  <1> DEFINE most == 10 * Second
             Grows(c) == pause'[c] = IF attempt[c] = 0 THEN Second
                                     ELSE IF 2 * rested[c] > most THEN most ELSE 2 * rested[c]
             Grow == \A c \in Callers :
                       pc[c] = "decide" /\ pc'[c] = "pause" /\ attempt[c] < 34 => Grows(c)
  <1>1. ASSUME Inv, Next, NEW c \in Callers,
               pc[c] = "decide", pc'[c] = "pause", attempt[c] < 34
        PROVE  Grows(c)
    <2> USE SecondAssumption
    <2>1. /\ attempt[c] \in 0..33 /\ rested[c] \in Nat /\ pc \in [Callers -> States]
          /\ pause \in [Callers -> Nat]
          /\ attempt[c] > 0 => rested[c] = Length(attempt[c] - 1)
      <3>1. TypeOK /\ RestsTrue
        BY <1>1 DEF Inv
      <3>2. /\ attempt[c] \in Nat /\ rested[c] \in Nat /\ pc \in [Callers -> States]
            /\ pause \in [Callers -> Nat]
        BY <3>1 DEF TypeOK
      <3>3. attempt[c] > 0 => rested[c] = Length(attempt[c] - 1)
        BY <1>1, <3>1 DEF RestsTrue
      <3> QED BY <1>1, <3>2, <3>3
    <2>2. PICK d \in Callers : Call(d) \/ CancelCall(d) \/ Step(d)
      BY <1>1 DEF Next, Tick, Refresh
    <2>3. d = c /\ Decide(c)
      <3>1. pc'[d] # pc[d] /\ d = c
        BY <1>1, <2>1, <2>2
        DEF Call, CancelCall, Step, TakeToken, NoToken, Reserve, Waited, WaitCancelled, Send,
            Decide, Resume, PauseCancelled, Return, Goto
      <3> QED
        BY <1>1, <2>1, <2>2, <3>1
        DEF Call, CancelCall, Step, TakeToken, NoToken, Reserve, Waited, WaitCancelled, Send,
            Resume, PauseCancelled, Return, Goto
    <2>4. pause'[c] = Length(attempt[c])
      BY <1>1, <2>1, <2>3 DEF Decide, Return, Goto, Length
    <2>5. CASE attempt[c] = 0
      BY <2>4, <2>5, Pauses DEF Length
    <2>6. CASE attempt[c] > 0
      <3>1. \/ Backoff(attempt[c] - 1) = 1 /\ Backoff(attempt[c]) = 2
            \/ Backoff(attempt[c] - 1) = 2 /\ Backoff(attempt[c]) = 4
            \/ Backoff(attempt[c] - 1) = 4 /\ Backoff(attempt[c]) = 8
            \/ Backoff(attempt[c] - 1) \in {8, 10} /\ Backoff(attempt[c]) = 10
        BY <2>1, <2>6, Pauses
      <3> QED BY <2>1, <2>4, <2>6, <3>1 DEF Length
    <2> QED BY <2>1, <2>5, <2>6
  <1>2. Inv /\ [Next]_vars => [Grow]_vars
    BY <1>1
  <1> HIDE DEF Grow
  <1>3. Spec => [][Grow]_vars
    BY <1>2, Invariance, PTL DEF Spec
  <1> QED BY <1>3 DEF PausesDouble, Grow
=============================================================================
