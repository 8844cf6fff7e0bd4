---------------------------- MODULE PollerProofs ----------------------------
(***************************************************************************)
(* Proofs about Poller, for any number of updates and faults.  That an     *)
(* update is neither lost nor repeated rests on what Run knows between two *)
(* steps: why it asks for the server (Asking), what an answer still says   *)
(* when it is looked at (AnswerHolds), and how far a batch is              *)
(* (BatchInStep).                                                          *)
(***************************************************************************)
EXTENDS Poller, TLAPS

\* A ts to put back is remembered only on the way to a server; a fetch without
\* a reason is the first one; a client that has to take the ts of the server
\* was forgotten by it.
Asking ==
    /\ fetch # "none" => pc \in {"fetch", "pause", "restore"}
    /\ fetch = "take" => lost /\ known
    /\ fetch = "keep" => known /\ oldTS # Unset /\ (pc # "restore" => oldTS = ts)
    /\ pc = "restore" => fetch = "keep"
    /\ pc = "fetch" /\ fetch = "none" => ~known
    /\ known <=> ts # Unset
    /\ pc \in {"poll", "answer", "deliver"} => known

\* The server moves on while an answer is under way, and the answer stays true.
AnswerHolds == pc = "answer" =>
    /\ resp.failed \in {0, 1} => resp.ts \in ts..head
    /\ resp.failed = 1 => ts < floor
    /\ resp.failed \in {3, 5} => lost

\* The ts is that of the batch, and what was handed out is what comes before.
BatchInStep == pc = "deliver" => ts = upto /\ next \in 1..(upto + 1)

\* Nothing beyond the history was dealt with, everything handed out was.
InHistory == /\ shown <= head
             /\ Position # Unset => Position \in shown..head
             /\ oldTS # Unset => oldTS <= head
             /\ ts # Unset => ts <= head

Inv == TypeOK /\ Asking /\ AnswerHolds /\ BatchInStep /\ InHistory

-----------------------------------------------------------------------------
\* An answer is what it is made of.
LEMMA ResponseOf ==
  ASSUME NEW f \in 0..5, NEW n \in Positions
  PROVE  LET r == [failed |-> f, ts |-> n]
         IN r \in [failed : 0..5, ts : Positions] /\ r.failed = f /\ r.ts = n
  OBVIOUS

\* What the server answers is a response, true of its history when it answers.
LEMMA AnswersTrue ==
  ASSUME TypeOK, NEW t \in 0..head, NEW r \in Answers(t)
  PROVE  /\ r \in [failed : 0..5, ts : Positions]
         /\ r.failed \in {0, 1} => r.ts \in t..head
         /\ r.failed = 1 => t < floor
         /\ r.failed \in {3, 5} => lost
         /\ r.failed # 4
  <1> USE BoundAssumption DEF TypeOK, Positions
  <1>1. CASE ~keyValid
    <2>1. r = [failed |-> 2, ts |-> 0]
      BY <1>1 DEF Answers
    <2>2. 0 \in Positions
      OBVIOUS
    <2> QED BY <2>1, <2>2, ResponseOf
  <1>2. CASE keyValid /\ lost
    <2>1. PICK f \in {3, 5} : r = [failed |-> f, ts |-> 0]
      BY <1>2 DEF Answers
    <2>2. 0 \in Positions /\ f \in 0..5
      OBVIOUS
    <2> QED BY <1>2, <2>1, <2>2, ResponseOf
  <1>3. CASE keyValid /\ ~lost /\ t < floor
    <2>1. Answers(t) = {[failed |-> 1, ts |-> n] : n \in floor..head}
      BY <1>3 DEF Answers
    <2>2. PICK n \in floor..head : r = [failed |-> 1, ts |-> n]
      BY <2>1
    <2>3. n \in Positions /\ n \in t..head
      BY <1>3
    <2> QED BY <1>3, <2>2, <2>3, ResponseOf
  <1>4. CASE keyValid /\ ~lost /\ ~(t < floor)
    <2>1. Answers(t) = {[failed |-> 0, ts |-> n] : n \in t..head}
      BY <1>4 DEF Answers
    <2>2. PICK n \in t..head : r = [failed |-> 0, ts |-> n]
      BY <2>1
    <2>3. n \in Positions
      OBVIOUS
    <2> QED BY <2>2, <2>3, ResponseOf
  <1> QED BY <1>1, <1>2, <1>3, <1>4

\* A step that leaves Run and what it works with alone, while the server's
\* history only grows and is cut, and forgets only if Run does not rely on it.
LEMMA ServerStep ==
  ASSUME Inv, TypeOK', UNCHANGED <<poller, batch, pc, resp>>,
         head' >= head, floor' >= floor, lost => lost'
  PROVE  Inv'
  <1> USE UnsetAssumption DEF Inv, TypeOK, Positions, poller, batch
  <1>1. Asking' BY DEF Asking
  <1>2. AnswerHolds'
    BY DEF AnswerHolds, Asking
  <1>3. BatchInStep' BY DEF BatchInStep
  <1>4. InHistory' BY DEF InHistory, Position
  <1> QED BY <1>1, <1>2, <1>3, <1>4

\* Initially nothing was published and the server was not asked.
LEMMA InvInit == Init => Inv
  <1> SUFFICES ASSUME Init PROVE Inv
    OBVIOUS
  <1> USE BoundAssumption, UnsetAssumption DEF Init
  <1>1. TypeOK
    <2>1. 0 \in Positions /\ 0 \in 0..5
      BY DEF Positions
    <2>2. resp \in [failed : 0..5, ts : Positions]
      BY <2>1, ResponseOf
    <2>3. {lost, keyValid, known, cancelled} \subseteq BOOLEAN
      BY Zenon
    <2> QED BY <2>1, <2>2, <2>3 DEF TypeOK, Positions
  <1>2. Asking /\ AnswerHolds /\ BatchInStep
    BY DEF Asking, AnswerHolds, BatchInStep
  <1>3. InHistory
    BY DEF InHistory, Position
  <1> QED BY <1>1, <1>2, <1>3 DEF Inv

-----------------------------------------------------------------------------
\* Every step keeps the types, given what Run knows.
LEMMA TypeStep == Inv /\ [Next]_vars => TypeOK'
  <1> SUFFICES ASSUME Inv, [Next]_vars PROVE TypeOK'
    OBVIOUS
  <1> USE BoundAssumption, UnsetAssumption
      DEF Inv, TypeOK, Positions, server, poller, batch
  <1>1. CASE Environment
    <2>1. CASE Publish \/ Truncate
      BY <2>1 DEF Publish, Truncate
    <2>2. CASE KeyExpires
      <3>1. keyValid' \in BOOLEAN
        BY <2>2, Zenon DEF KeyExpires
      <3>2. faults' \in 0..MaxFaults
        BY <2>2 DEF KeyExpires
      <3> QED BY <2>2, <3>1, <3>2 DEF KeyExpires
    <2>3. CASE Forget
      BY <2>3 DEF Forget
    <2> QED BY <1>1, <2>1, <2>2, <2>3 DEF Environment
  <1>2. CASE Start \/ Cancel
    <2>1. CASE Start
      BY <2>1 DEF Start
    <2>2. CASE Cancel
      BY <2>2 DEF Cancel
    <2> QED BY <1>2, <2>1, <2>2
  <1>3. CASE Top \/ PollFails \/ Resume
    BY <1>3 DEF Top, PollFails, Resume, Return
  <1>4. CASE Answer
    <2>1. ts \in 0..head
      BY <1>4 DEF Answer, Asking, InHistory
    <2>2. resp' \in [failed : 0..5, ts : Positions]
      <3>1. CASE resp' \in Answers(ts)
        BY <2>1, <3>1, AnswersTrue
      <3>2. CASE resp' = VersionRefused
        BY <3>2, ResponseOf DEF VersionRefused
      <3> QED BY <1>4, <3>1, <3>2 DEF Answer
    <2> QED BY <1>4, <2>2 DEF Answer
  <1>5. CASE Updates
    <2>1. ts \in Int /\ ts \in 0..MaxHead
      BY <1>5 DEF Updates, Asking
    <2> QED BY <1>5, <2>1 DEF Updates, Acknowledged
  <1>6. CASE Deliver \/ Delivered
    BY <1>6 DEF Deliver, Delivered
  <1>7. CASE HistoryOutdated
    BY <1>7 DEF HistoryOutdated, OutdatedTS
  <1>8. CASE ServerOutdated
    BY <1>8 DEF ServerOutdated, Keeps
  <1>9. CASE BadVersion
    BY <1>9 DEF BadVersion, Return
  <1>10. CASE FetchServer
    BY <1>10 DEF FetchServer, ServerTS
  <1>11. CASE RestoreTS
    BY <1>11 DEF RestoreTS
  <1>12. CASE FetchFails
    BY <1>12 DEF FetchFails, FetchErrors, Return
  <1>13. CASE UNCHANGED vars
    BY <1>13 DEF vars
  <1> QED
    BY <1>1, <1>2, <1>3, <1>4, <1>5, <1>6, <1>7, <1>8, <1>9, <1>10, <1>11, <1>12, <1>13
    DEF Next, RunStep

\* A step that moves Run on without touching the ts keeps what is known of it.
LEMMA InvStep == Inv /\ [Next]_vars => Inv'
  <1> SUFFICES ASSUME Inv, [Next]_vars PROVE Inv'
    OBVIOUS
  <1>t. TypeOK'
    BY TypeStep
  <1> USE BoundAssumption, UnsetAssumption, <1>t
      DEF Inv, TypeOK, Positions, server, poller, batch
  <1>1. CASE Environment
    <2>1. /\ UNCHANGED <<poller, batch, pc, resp>>
          /\ head' >= head /\ floor' >= floor /\ (lost => lost')
      BY <1>1 DEF Environment, Publish, Truncate, KeyExpires, Forget
    <2> QED BY <2>1, ServerStep
  <1>2. CASE Top \/ Start \/ Cancel \/ PollFails \/ Resume \/ BadVersion \/ FetchFails
    <2>1. Asking'
      BY <1>2
      DEF Asking, Start, Cancel, Top, PollFails, Resume, BadVersion, FetchFails, Return
    <2>2. AnswerHolds' /\ BatchInStep'
      BY <1>2
      DEF AnswerHolds, BatchInStep, Start, Cancel, Top, PollFails, Resume, BadVersion,
          FetchFails, Return
    <2>3. InHistory'
      BY <1>2
      DEF InHistory, Position, Start, Cancel, Top, PollFails, Resume, BadVersion,
          FetchFails, Return
    <2> QED BY <2>1, <2>2, <2>3
  <1>3. CASE Answer
    <2>1. ts \in 0..head /\ pc = "poll" /\ pc' = "answer"
      BY <1>3 DEF Answer, Asking, InHistory
    <2>2. UNCHANGED <<server, poller, batch>>
      BY <1>3 DEF Answer
    <2>3. AnswerHolds'
      <3>1. CASE resp' \in Answers(ts)
        BY <2>1, <2>2, <3>1, AnswersTrue DEF AnswerHolds
      <3>2. CASE resp' = VersionRefused
        BY <2>1, <3>2, ResponseOf DEF AnswerHolds, VersionRefused
      <3> QED BY <1>3, <3>1, <3>2 DEF Answer
    <2>4. Asking' /\ BatchInStep'
      BY <2>1, <2>2 DEF Asking, BatchInStep
    <2>5. InHistory'
      BY <2>1, <2>2 DEF InHistory, Position
    <2> QED BY <2>3, <2>4, <2>5
  <1>4. CASE Updates
    <2>1. ts \in 0..head /\ resp.ts \in ts..head
      BY <1>4 DEF Updates, Asking, InHistory, AnswerHolds
    <2>2. Asking' /\ AnswerHolds' /\ BatchInStep'
      BY <1>4, <2>1 DEF Updates, Acknowledged, Asking, AnswerHolds, BatchInStep
    <2>3. InHistory'
      BY <1>4, <2>1 DEF Updates, Acknowledged, InHistory, Position
    <2> QED BY <2>2, <2>3
  <1>5. CASE Deliver
    <2>1. Asking' /\ AnswerHolds' /\ BatchInStep'
      BY <1>5 DEF Deliver, Asking, AnswerHolds, BatchInStep
    <2>2. InHistory'
      BY <1>5 DEF Deliver, InHistory, Position, BatchInStep, Asking
    <2> QED BY <2>1, <2>2
  <1>6. CASE Delivered
    <2>1. Asking' /\ AnswerHolds' /\ BatchInStep'
      BY <1>6 DEF Delivered, Asking, AnswerHolds, BatchInStep
    <2>2. InHistory'
      BY <1>6 DEF Delivered, InHistory, Position, BatchInStep, Asking
    <2> QED BY <2>1, <2>2
  <1>7. CASE HistoryOutdated
    <2>1. ts \in 0..head /\ resp.ts \in ts..head
      BY <1>7 DEF HistoryOutdated, Asking, InHistory, AnswerHolds
    <2>2. Asking' /\ AnswerHolds' /\ BatchInStep'
      BY <1>7, <2>1 DEF HistoryOutdated, OutdatedTS, Asking, AnswerHolds, BatchInStep
    <2>3. InHistory'
      BY <1>7, <2>1 DEF HistoryOutdated, OutdatedTS, InHistory, Position
    <2> QED BY <2>2, <2>3
  <1>8. CASE ServerOutdated
    <2>1. Asking' /\ AnswerHolds' /\ BatchInStep'
      BY <1>8 DEF ServerOutdated, Keeps, Asking, AnswerHolds, BatchInStep
    <2>2. InHistory'
      BY <1>8 DEF ServerOutdated, InHistory, Position
    <2> QED BY <2>1, <2>2
  <1>9. CASE FetchServer
    <2>1. Asking' /\ AnswerHolds' /\ BatchInStep'
      BY <1>9 DEF FetchServer, ServerTS, Asking, AnswerHolds, BatchInStep
    <2>2. InHistory'
      BY <1>9 DEF FetchServer, ServerTS, InHistory, Position, Asking
    <2> QED BY <2>1, <2>2
  <1>10. CASE RestoreTS
    <2>1. Asking' /\ AnswerHolds' /\ BatchInStep'
      BY <1>10 DEF RestoreTS, Asking, AnswerHolds, BatchInStep
    <2>2. InHistory'
      BY <1>10 DEF RestoreTS, InHistory, Position, Asking
    <2> QED BY <2>1, <2>2
  <1>11. CASE UNCHANGED vars
    <2>1. UNCHANGED <<poller, batch, pc, resp>> /\ UNCHANGED <<head, floor, lost>>
      BY <1>11 DEF vars
    <2> QED BY <2>1, ServerStep
  <1> QED
    BY <1>1, <1>2, <1>3, <1>4, <1>5, <1>6, <1>7, <1>8, <1>9, <1>10, <1>11 DEF Next, RunStep

\* Inv holds in every state of every behaviour.
LEMMA Invariance == Spec => []Inv
  BY InvInit, InvStep, PTL DEF Spec

-----------------------------------------------------------------------------
\* Type correctness: every variable keeps its type, and a poller that knows its
\* server has a ts (poller.go 66-75).
THEOREM TypeCorrect == Spec => []TypeOK
  <1>1. Inv => TypeOK
    BY DEF Inv
  <1> QED BY <1>1, Invariance, PTL

\* The ts of a poll is within the server's history and not before what was
\* handed out, for any number of updates and faults and any order of answers,
\* failures, cancellations and Runs (poller.go 106-148).
THEOREM NothingTwice == Spec => []NeverAskedTwice
  <1>1. Inv => NeverAskedTwice
    BY DEF Inv, Asking, InHistory, Position, NeverAskedTwice
  <1> QED BY <1>1, Invariance, PTL

-----------------------------------------------------------------------------
\* What the server does is what UpdateFeed lets it do.
LEMMA ServerFeeds == ASSUME Inv, Environment PROVE [Feed!Next]_(Feed!vars)
  <1> USE DEF Inv, TypeOK, Positions, poller, batch, Feed!Next
  <1>1. Position' = Position /\ shown' = shown
    BY DEF Environment, Publish, Truncate, KeyExpires, Forget, Position
  <1>2. CASE Publish
    BY <1>1, <1>2 DEF Publish, Feed!Publish
  <1>3. CASE Truncate
    BY <1>1, <1>3 DEF Truncate, Feed!Truncate
  <1>4. CASE KeyExpires
    BY <1>1, <1>4 DEF KeyExpires, Feed!vars
  <1>5. CASE Forget
    BY <1>1, <1>5 DEF Forget, Feed!Forget
  <1> QED BY <1>2, <1>3, <1>4, <1>5 DEF Environment

\* Every step of Run hands out the next update, passes over what the server gave
\* up, or does nothing that a handler could see.
LEMMA RunFeeds == ASSUME Inv, RunStep PROVE [Feed!Next]_(Feed!vars)
  <1> USE UnsetAssumption DEF Inv, TypeOK, Positions, server, poller, batch
  <1>s. ASSUME UNCHANGED <<head, floor, lost, shown>>, Position' = Position
        PROVE  UNCHANGED Feed!vars
    BY <1>s DEF Feed!vars
  <1>1. CASE Top \/ Answer \/ PollFails \/ Resume \/ BadVersion \/ FetchFails
    <2>1. UNCHANGED <<head, floor, lost, shown>>
      BY <1>1 DEF Top, Answer, PollFails, Resume, BadVersion, FetchFails
    <2>2. Position' = Position
      BY <1>1 DEF Top, Answer, PollFails, Resume, BadVersion, FetchFails, Return, Position
    <2> QED BY <1>s, <2>1, <2>2
  <1>2. CASE Updates
    <2>1. Position' = Position
      BY <1>2 DEF Updates, Position, Asking
    <2> QED BY <1>2, <1>s, <2>1 DEF Updates
  <1>3. CASE Deliver
    <2>1. Position \in 0..(head - 1) /\ Position' = Position + 1 /\ shown' = Position + 1
      BY <1>3 DEF Deliver, Position, BatchInStep, InHistory
    <2> QED BY <1>3, <2>1 DEF Deliver, Feed!Next, Feed!Hand
  <1>4. CASE Delivered \/ ServerOutdated \/ RestoreTS
    <2>1. Position' = Position
      BY <1>4 DEF Delivered, ServerOutdated, RestoreTS, Position, BatchInStep, Asking
    <2>2. UNCHANGED <<head, floor, lost, shown>>
      BY <1>4 DEF Delivered, ServerOutdated, RestoreTS
    <2> QED BY <1>s, <2>1, <2>2
  <1>5. CASE HistoryOutdated
    <2>1. Position = ts /\ Position' = resp.ts /\ UNCHANGED <<head, floor, lost, shown>>
      BY <1>5 DEF HistoryOutdated, OutdatedTS, Position
    <2>2. ts < floor /\ resp.ts \in ts..head /\ ts \in 0..head
      BY <1>5 DEF HistoryOutdated, AnswerHolds, Asking, InHistory
    <2>3. Position < floor /\ Position' \in 0..head /\ Position' >= Position
      BY <2>1, <2>2
    <2> QED BY <2>1, <2>3 DEF Feed!Next, Feed!PassOver
  <1>6. CASE FetchServer
    <2>1. UNCHANGED <<head, floor, shown>> /\ Position = ts
      BY <1>6 DEF FetchServer, Position
    <2>2. CASE fetch = "keep"
      <3>1. Position' = Position /\ lost' = lost
        BY <1>6, <2>2 DEF FetchServer, Position, Asking
      <3> QED BY <1>s, <2>1, <3>1
    <2>3. CASE fetch # "keep"
      <3>1. Position' = head /\ lost' = FALSE
        BY <1>6, <2>3 DEF FetchServer, ServerTS, Position
      <3>2. Position = Unset \/ lost
        BY <1>6, <2>1, <2>3 DEF FetchServer, Asking
      <3>3. Position' \in 0..head /\ (Position # Unset => Position' >= Position)
        BY <2>1, <3>1 DEF InHistory
      <3> QED BY <2>1, <3>1, <3>2, <3>3 DEF Feed!Next, Feed!PassOver
    <2> QED BY <2>2, <2>3
  <1> QED BY <1>1, <1>2, <1>3, <1>4, <1>5, <1>6 DEF RunStep

\* Refinement: every behaviour of the loop and its server is one of UpdateFeed.
\* Updates reach the handlers once, in order and without a gap that the server
\* did not cause, across Runs (poller.go 106-260).
THEOREM Refinement == Spec => ImplementsUpdateFeed
  <1>1. Init => Feed!Init
    BY UnsetAssumption DEF Init, Feed!Init, Position
  <1>2. Inv /\ [Next]_vars => [Feed!Next]_(Feed!vars)
    <2> SUFFICES ASSUME Inv, [Next]_vars PROVE [Feed!Next]_(Feed!vars)
      OBVIOUS
    <2>1. CASE Start \/ Cancel \/ UNCHANGED vars
      <3>1. UNCHANGED <<head, floor, lost, shown>> /\ Position' = Position
        BY <2>1 DEF Start, Cancel, vars, server, poller, batch, Position
      <3> QED BY <3>1 DEF Feed!vars
    <2> QED BY <2>1, ServerFeeds, RunFeeds DEF Next
  <1> QED BY <1>1, <1>2, Invariance, PTL DEF Spec, ImplementsUpdateFeed, Feed!Spec
=============================================================================
