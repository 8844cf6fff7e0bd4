------------------------- MODULE TokenRefreshProofs -------------------------
(***************************************************************************)
(* Proofs about TokenRefresh, for any set of goroutines and any number of  *)
(* rotations.  The safety properties are not inductive: they also need to  *)
(* know what pair a leader holds after the request (CopyIsNewest,          *)
(* SavingIsShared) and that only a flight between the rotation and the     *)
(* save has the server, the client and the Storage out of step (InStep,    *)
(* StoredInStep).                                                          *)
(***************************************************************************)
EXTENDS TokenRefresh, TLAPS

CopyIsNewest == \A p \in Procs : pc[p] \in {"install", "save"} => copy[p].pair = srv

SavingIsShared == \A p \in Procs : pc[p] = "save" => sess.pair = copy[p].pair

NoneAhead == sess.pair <= srv /\ stored.pair <= srv

InStep == \/ faults \cap {"replyLost", "restart"} # {}
          \/ sess.pair = srv
          \/ \E p \in Procs : pc[p] \in {"reply", "install"}

StoredInStep == "saveFailed" \notin faults =>
    /\ stored.pair = sess.pair \/ \E p \in Procs : pc[p] = "save"
    /\ srv <= stored.pair + 1

Inv == /\ TypeOK
       /\ OneFlight
       /\ CurrentPairSent
       /\ CopyIsNewest
       /\ SavingIsShared
       /\ NoneAhead
       /\ InStep
       /\ StoredInStep

-----------------------------------------------------------------------------
\* A changed user or soon field leaves a session of the same pair.
LEMMA SameSession ==
  ASSUME NEW s \in Session, NEW b \in BOOLEAN
  PROVE  /\ [s EXCEPT !.user = b] \in Session
         /\ [s EXCEPT !.soon = b] \in Session
         /\ [s EXCEPT !.user = b].pair = s.pair
         /\ [s EXCEPT !.soon = b].pair = s.pair
  BY DEF Session

\* A rotation within the bound stays within it.
LEMMA OneMore == ASSUME NEW n \in 1..MaxPair, n < MaxPair PROVE n + 1 \in 1..MaxPair
  BY BoundAssumption

\* None is no goroutine.
LEMMA NoneIsNobody == None \notin Procs
  BY NoneAssumption

\* Every step keeps the types.
LEMMA TypeStep == TypeOK /\ [Next]_vars => TypeOK'
  <1> SUFFICES ASSUME TypeOK, [Next]_vars PROVE TypeOK'
    OBVIOUS
  <1> USE NoneIsNobody DEF TypeOK, States, Copied, Goto, End
  <1>1. CASE Expires
    <2>1. sess' \in Session
      BY <1>1, SameSession DEF Expires
    <2> QED BY <1>1, <2>1 DEF Expires
  <1>2. CASE Restart
    <2>1. sess' \in Session
      <3>1. PICK soon \in BOOLEAN : sess' = [stored EXCEPT !.soon = soon]
        BY <1>2 DEF Restart
      <3> QED BY <3>1, SameSession
    <2> QED BY <1>2, <2>1 DEF Restart
  <1>3. ASSUME NEW p \in Procs, TokenCheck(p) \/ AuthFailed(p) \/ ConnectLearns(p)
        PROVE  TypeOK'
    <2>1. CASE TokenCheck(p)
      BY <2>1 DEF TokenCheck
    <2>2. CASE AuthFailed(p)
      BY <2>2 DEF AuthFailed
    <2>3. CASE ConnectLearns(p)
      BY <2>3 DEF ConnectLearns
    <2> QED BY <1>3, <2>1, <2>2, <2>3
  <1>4. ASSUME NEW p \in Procs, Lead(p) PROVE TypeOK'
    BY <1>4 DEF Lead
  <1>5. ASSUME NEW p \in Procs, Join(p) PROVE TypeOK'
    BY <1>5 DEF Join, FlightFree, Joined
  <1>6. ASSUME NEW p \in Procs, Finish(p) PROVE TypeOK'
    BY <1>6 DEF Finish
  <1>7. ASSUME NEW p \in Procs, Wake(p) PROVE TypeOK'
    BY <1>7 DEF Wake, Followers
  <1>8. ASSUME NEW p \in Procs, Told(p) PROVE TypeOK'
    BY <1>8 DEF Told
  <1>9. ASSUME NEW p \in Procs, Clone(p) PROVE TypeOK'
    <2>1. CASE sess.renewable
      <3>1. /\ copy' = [copy EXCEPT ![p] = sess]
            /\ pc' = [pc EXCEPT ![p] = "post"]
            /\ UNCHANGED <<srv, stored, sess, wait, err, flight, failed, faults>>
        BY <1>9, <2>1 DEF Clone
      <3> QED BY <3>1
    <2>2. CASE ~sess.renewable
      BY <1>9, <2>2 DEF Clone
    <2> QED BY <2>1, <2>2
  <1>10. ASSUME NEW p \in Procs, Rotate(p) PROVE TypeOK'
    <2>1. srv < MaxPair /\ srv' = srv + 1
      BY <1>10 DEF Rotate
    <2>2. srv' \in 1..MaxPair
      BY <2>1, OneMore
    <2> QED BY <1>10, <2>2 DEF Rotate
  <1>11. ASSUME NEW p \in Procs, Refused(p) \/ ReplyLost(p) \/ Notify(p) PROVE TypeOK'
    <2>1. CASE Refused(p)
      BY <2>1 DEF Refused
    <2>2. CASE ReplyLost(p)
      BY <2>2 DEF ReplyLost
    <2>3. CASE Notify(p)
      BY <2>3 DEF Notify
    <2> QED BY <1>11, <2>1, <2>2, <2>3
  <1>12. ASSUME NEW p \in Procs, Reply(p) PROVE TypeOK'
    <2>1. PICK named, renewable \in BOOLEAN :
            copy' = [copy EXCEPT ![p] = [pair |-> srv, renewable |-> renewable,
                                         user |-> named \/ @.user, soon |-> FALSE]]
      BY <1>12 DEF Reply
    <2>2. copy[p] \in Session
      BY <1>12 DEF Reply
    <2>3. [pair |-> srv, renewable |-> renewable,
           user |-> named \/ copy[p].user, soon |-> FALSE] \in Session
      BY <2>2 DEF Session
    <2>4. copy' \in [Procs -> Session \cup {None}] /\ copy'[p] \in Session
      BY <2>1, <2>3
    <2> QED BY <1>12, <2>1, <2>4 DEF Reply
  <1>13. ASSUME NEW p \in Procs, Install(p) PROVE TypeOK'
    BY <1>13 DEF Install, Installed
  <1>14. ASSUME NEW p \in Procs, Save(p) \/ SaveFails(p) PROVE TypeOK'
    BY <1>14 DEF Save, Saved, SaveFails
  <1>15. ASSUME NEW p \in Procs, ConnectSetsUser(p) PROVE TypeOK'
    <2>1. sess' \in Session
      BY <1>15, SameSession DEF ConnectSetsUser
    <2>2. \A q \in Procs : Published(q) => [copy[q] EXCEPT !.user = TRUE] \in Session
      BY SameSession DEF Published
    <2>3. /\ copy' \in [Procs -> Session \cup {None}]
          /\ \A q \in Procs : copy[q] \in Session => copy'[q] \in Session
      BY <1>15, <2>2, SameSession DEF ConnectSetsUser
    <2>4. pc' \in [Procs -> States] /\ \A q \in Procs : Copied(q)' => Copied(q)
      BY <1>15 DEF ConnectSetsUser
    <2> QED BY <1>15, <2>1, <2>3, <2>4 DEF ConnectSetsUser
  <1>16. CASE UNCHANGED vars
    BY <1>16 DEF vars
  <1> QED
    BY <1>1, <1>2, <1>3, <1>4, <1>5, <1>6, <1>7, <1>8, <1>9, <1>10, <1>11, <1>12, <1>13,
       <1>14, <1>15, <1>16 DEF Next, DoStep, FlightStep

\* Type correctness: every variable keeps its type, a follower has a flight to
\* wait for, and a leader at work its copy of the session (govka.go 353-381).
THEOREM TypeCorrect == Spec => []TypeOK
  <1>1. Init => TypeOK
    BY NoneIsNobody, BoundAssumption DEF Init, TypeOK, States, Copied, Session
  <1> QED BY <1>1, TypeStep, PTL DEF Spec

-----------------------------------------------------------------------------
\* Initially nobody is in a flight and everybody has the first pair.
LEMMA InvInit == Init => Inv
  <1> SUFFICES ASSUME Init PROVE Inv
    OBVIOUS
  <1>1. TypeOK
    BY NoneIsNobody, BoundAssumption DEF Init, TypeOK, States, Copied, Session
  <1>2. \A p \in Procs : pc[p] = "idle"
    BY DEF Init
  <1>3. srv = 1 /\ sess.pair = 1 /\ stored.pair = 1 /\ wait \notin Procs
    BY NoneIsNobody DEF Init
  <1> QED
    BY <1>1, <1>2, <1>3
    DEF Inv, OneFlight, InFlight, CurrentPairSent, CopyIsNewest, SavingIsShared, NoneAhead,
        InStep, StoredInStep

\* A session has a pair, and pairs are numbers.
LEMMA Pairs ==
  ASSUME TypeOK
  PROVE  /\ srv \in Nat /\ sess.pair \in Nat /\ stored.pair \in Nat
         /\ \A p \in Procs : Copied(p) => copy[p].pair \in Nat
  <1>1. \A n \in 1..MaxPair : n \in Nat
    BY BoundAssumption
  <1>2. \A s \in Session : s.pair \in Nat
    BY <1>1 DEF Session
  <1> QED BY <1>1, <1>2 DEF TypeOK

\* Every number is at most the next.
LEMMA Successor == ASSUME NEW n \in Nat PROVE n <= n + 1 /\ n + 1 <= n + 1
  OBVIOUS

\* Who is in the flight is there alone.
LEMMA Alone ==
  ASSUME OneFlight, NEW p \in Procs, InFlight(p)
  PROVE  \A q \in Procs : InFlight(q) => q = p
  BY DEF OneFlight

\* A step that changes no pair and moves nobody into, out of or within the
\* flight keeps Inv.
LEMMA QuietStep ==
  ASSUME Inv, TypeOK',
         srv' = srv, wait' = wait, faults' = faults, stored' = stored,
         sess'.pair = sess.pair,
         \A p \in Procs : InFlight(p)' <=> InFlight(p),
         \A p \in Procs : \A s \in {"post", "reply", "install", "save"} :
                            pc'[p] = s <=> pc[p] = s,
         \A p \in Procs : pc[p] \in {"post", "install", "save"} => copy'[p].pair = copy[p].pair
  PROVE  Inv'
  <1>1. OneFlight'
    BY DEF Inv, OneFlight
  <1>2. CurrentPairSent' /\ CopyIsNewest' /\ SavingIsShared'
    BY DEF Inv, CurrentPairSent, CopyIsNewest, SavingIsShared
  <1>3. NoneAhead' /\ InStep' /\ StoredInStep'
    BY DEF Inv, NoneAhead, InStep, StoredInStep
  <1> QED BY <1>1, <1>2, <1>3 DEF Inv

\* A leader that leaves the request without a rotation, or that loses the
\* answer to one, or that is through: it goes on to the end of the flight.
LEMMA EndStep ==
  ASSUME Inv, TypeOK', NEW p \in Procs, NEW fails \in BOOLEAN,
         End(p, fails),
         UNCHANGED <<srv, stored, sess, wait, err, flight>>,
         \/ pc[p] \in {"clone", "post", "notify"} /\ faults' = faults
         \/ pc[p] = "reply" /\ faults' = faults \cup {"replyLost"}
  PROVE  Inv'
  <1>1. pc' = [pc EXCEPT ![p] = "finish"] /\ \A q \in Procs : q # p => copy'[q] = copy[q]
    BY DEF End, Goto, Inv, TypeOK
  <1>2. pc \in [Procs -> States]
    BY DEF Inv, TypeOK
  <1>3. OneFlight'
    BY <1>1, <1>2 DEF Inv, OneFlight, InFlight
  <1>4. CurrentPairSent' /\ CopyIsNewest' /\ SavingIsShared' /\ NoneAhead'
    BY <1>1, <1>2 DEF Inv, CurrentPairSent, CopyIsNewest, SavingIsShared, NoneAhead
  <1>5. InStep'
    BY <1>1, <1>2 DEF Inv, InStep
  <1>6. StoredInStep'
    BY <1>1, <1>2 DEF Inv, StoredInStep
  <1> QED BY <1>3, <1>4, <1>5, <1>6 DEF Inv

\* Every step keeps Inv.
LEMMA InvStep == Inv /\ [Next]_vars => Inv'
  <1> SUFFICES ASSUME Inv, [Next]_vars PROVE Inv'
    OBVIOUS
  <1>t. TypeOK /\ TypeOK' /\ pc \in [Procs -> States]
    BY TypeStep DEF Inv, TypeOK
  <1>p. /\ srv \in Nat /\ sess.pair \in Nat /\ stored.pair \in Nat
        /\ \A p \in Procs : Copied(p) => copy[p].pair \in Nat
    BY <1>t, Pairs
  <1>a. \A p, q \in Procs : InFlight(p) /\ InFlight(q) => p = q
    BY Alone DEF Inv
  <1>1. CASE Expires
    <2>1. sess'.pair = sess.pair
      BY <1>1, <1>t, SameSession DEF Expires, TypeOK
    <2> QED BY <1>1, <1>t, <2>1, QuietStep DEF Expires, InFlight
  <1>2. CASE Restart
    <2>1. PICK soon \in BOOLEAN : sess' = [stored EXCEPT !.soon = soon]
      BY <1>2 DEF Restart
    <2>2. sess'.pair = stored.pair
      BY <1>t, <2>1, SameSession DEF TypeOK
    <2>3. /\ \A p \in Procs : pc'[p] = "idle"
          /\ wait' \notin Procs
          /\ srv' = srv /\ stored' = stored /\ faults' = faults \cup {"restart"}
      BY <1>2, NoneIsNobody DEF Restart
    <2>4. OneFlight'
      BY <2>3 DEF OneFlight, InFlight
    <2>5. CurrentPairSent' /\ CopyIsNewest' /\ SavingIsShared'
      BY <2>3 DEF CurrentPairSent, CopyIsNewest, SavingIsShared
    <2>6. NoneAhead' /\ InStep' /\ StoredInStep'
      BY <2>2, <2>3 DEF Inv, NoneAhead, InStep, StoredInStep
    <2> QED BY <1>t, <2>4, <2>5, <2>6 DEF Inv
  <1>3. ASSUME NEW p \in Procs, TokenCheck(p) \/ AuthFailed(p) \/ ConnectLearns(p)
        PROVE  Inv'
    <2>1. PICK s \in {"token", "auth", "me"} : pc' = [pc EXCEPT ![p] = s]
      BY <1>3 DEF TokenCheck, AuthFailed, ConnectLearns, Goto
    <2>2. pc[p] = "idle" /\ UNCHANGED <<srv, stored, sess, wait, copy, faults>>
      BY <1>3 DEF TokenCheck, AuthFailed, ConnectLearns
    <2> QED BY <1>t, <2>1, <2>2, QuietStep DEF InFlight
  <1>4. ASSUME NEW p \in Procs, Lead(p) PROVE Inv'
    <2>1. /\ pc[p] \in {"token", "auth"} /\ pc' = [pc EXCEPT ![p] = "clone"]
          /\ wait = None /\ wait' = p
          /\ UNCHANGED <<srv, stored, sess, copy, faults>>
      BY <1>4 DEF Lead, FlightFree, Goto
    <2>2. OneFlight'
      BY <1>t, <2>1, NoneIsNobody DEF Inv, OneFlight, InFlight
    <2>3. CurrentPairSent' /\ CopyIsNewest' /\ SavingIsShared' /\ NoneAhead'
      BY <1>t, <2>1 DEF Inv, CurrentPairSent, CopyIsNewest, SavingIsShared, NoneAhead
    <2>4. InStep' /\ StoredInStep'
      BY <1>t, <2>1 DEF Inv, InStep, StoredInStep
    <2> QED BY <1>t, <2>2, <2>3, <2>4 DEF Inv
  <1>5. ASSUME NEW p \in Procs, Join(p) \/ Told(p) PROVE Inv'
    <2>1. PICK s \in {"join", "idle"} : pc' = [pc EXCEPT ![p] = s]
      BY <1>5 DEF Join, Told, Goto
    <2>2. /\ pc[p] \in {"token", "auth", "woken"}
          /\ UNCHANGED <<srv, stored, sess, wait, copy, faults>>
      BY <1>5 DEF Join, Told
    <2> QED BY <1>t, <2>1, <2>2, QuietStep DEF InFlight
  <1>6. ASSUME NEW p \in Procs, Finish(p) PROVE Inv'
    <2>1. /\ pc[p] = "finish" /\ pc' = [pc EXCEPT ![p] = "wake"] /\ wait' = None
          /\ UNCHANGED <<srv, stored, sess, copy, faults>>
      BY <1>6 DEF Finish, Goto
    <2>2. OneFlight'
      BY <1>t, <1>a, <2>1, NoneIsNobody DEF OneFlight, InFlight
    <2>3. CurrentPairSent' /\ CopyIsNewest' /\ SavingIsShared' /\ NoneAhead'
      BY <1>t, <2>1 DEF Inv, CurrentPairSent, CopyIsNewest, SavingIsShared, NoneAhead
    <2>4. InStep' /\ StoredInStep'
      BY <1>t, <2>1 DEF Inv, InStep, StoredInStep
    <2> QED BY <1>t, <2>2, <2>3, <2>4 DEF Inv
  <1>7. ASSUME NEW p \in Procs, Wake(p) PROVE Inv'
    <2>1. /\ pc[p] = "wake" /\ UNCHANGED <<srv, stored, sess, wait, copy, faults>>
          /\ \A q \in Procs : \/ pc'[q] = pc[q]
                              \/ pc[q] \in {"wake", "join"} /\ pc'[q] \in {"idle", "woken"}
      BY <1>7 DEF Wake, Followers
    <2> QED BY <1>t, <2>1, QuietStep DEF InFlight
  <1>8. ASSUME NEW p \in Procs, Clone(p) PROVE Inv'
    <2>1. CASE sess.renewable
      <3>1. /\ pc[p] = "clone" /\ pc' = [pc EXCEPT ![p] = "post"]
            /\ copy' = [copy EXCEPT ![p] = sess]
            /\ UNCHANGED <<srv, stored, sess, wait, faults>>
        BY <1>8, <2>1 DEF Clone, Goto, End
      <3>2. OneFlight'
        BY <1>t, <3>1 DEF Inv, OneFlight, InFlight
      <3>3. CurrentPairSent' /\ CopyIsNewest' /\ SavingIsShared' /\ NoneAhead'
        BY <1>t, <3>1
        DEF Inv, TypeOK, CurrentPairSent, CopyIsNewest, SavingIsShared, NoneAhead
      <3>4. InStep' /\ StoredInStep'
        BY <1>t, <3>1 DEF Inv, InStep, StoredInStep
      <3> QED BY <1>t, <3>2, <3>3, <3>4 DEF Inv
    <2>2. CASE ~sess.renewable
      <3>1. End(p, TRUE) /\ pc[p] = "clone"
            /\ UNCHANGED <<srv, stored, sess, wait, err, flight, faults>>
        BY <1>8, <2>2 DEF Clone
      <3> QED BY <1>t, <3>1, EndStep
    <2> QED BY <2>1, <2>2
  <1>9. ASSUME NEW p \in Procs, Rotate(p) PROVE Inv'
    <2>1. /\ pc[p] = "post" /\ pc' = [pc EXCEPT ![p] = "reply"]
          /\ copy[p].pair = srv /\ srv' = srv + 1
          /\ UNCHANGED <<stored, sess, wait, copy, faults>>
      BY <1>9 DEF Rotate, Goto
    <2>2. \A q \in Procs : pc[q] \notin {"install", "save"}
      BY <1>a, <2>1 DEF InFlight
    <2>3. OneFlight'
      BY <1>t, <2>1 DEF Inv, OneFlight, InFlight
    <2>4. CurrentPairSent' /\ CopyIsNewest' /\ SavingIsShared'
      BY <1>t, <2>1, <2>2 DEF Inv, CurrentPairSent, CopyIsNewest, SavingIsShared
    <2>5. sess.pair = srv
      BY <2>1 DEF Inv, CurrentPairSent
    <2>6. NoneAhead'
      BY <1>p, <2>1 DEF Inv, NoneAhead
    <2>7. InStep'
      BY <1>t, <2>1 DEF InStep
    <2>8. StoredInStep'
      <3>1. ASSUME "saveFailed" \notin faults PROVE stored.pair = srv
        BY <2>2, <2>5, <3>1 DEF Inv, StoredInStep
      <3>2. ASSUME "saveFailed" \notin faults
            PROVE  stored'.pair = sess'.pair /\ srv' <= stored'.pair + 1
        <4>1. stored'.pair = srv /\ sess'.pair = srv /\ srv' = srv + 1
          BY <2>1, <2>5, <3>1, <3>2
        <4>2. srv + 1 <= srv + 1
          BY <1>p, Successor
        <4> QED BY <4>1, <4>2
      <3> QED BY <2>1, <3>2 DEF StoredInStep
    <2> QED BY <1>t, <2>3, <2>4, <2>6, <2>7, <2>8 DEF Inv
  <1>10. ASSUME NEW p \in Procs, Refused(p) \/ ReplyLost(p) \/ Notify(p) PROVE Inv'
    BY <1>10, <1>t, EndStep DEF Refused, ReplyLost, Notify
  <1>11. ASSUME NEW p \in Procs, Reply(p) PROVE Inv'
    <2>0. PICK named, renewable \in BOOLEAN :
            copy' = [copy EXCEPT ![p] = [pair |-> srv, renewable |-> renewable,
                                         user |-> named \/ @.user, soon |-> FALSE]]
      BY <1>11 DEF Reply
    <2>1. /\ pc[p] = "reply" /\ pc' = [pc EXCEPT ![p] = "install"]
          /\ copy'[p].pair = srv /\ \A q \in Procs : q # p => copy'[q] = copy[q]
          /\ UNCHANGED <<srv, stored, sess, wait, faults>>
      <3>1. copy'[p].pair = srv /\ \A q \in Procs : q # p => copy'[q] = copy[q]
        BY <2>0, <1>t DEF TypeOK
      <3> QED BY <1>11, <3>1 DEF Reply, Goto
    <2>2. OneFlight'
      BY <1>t, <2>1 DEF Inv, OneFlight, InFlight
    <2>3. CurrentPairSent' /\ CopyIsNewest' /\ SavingIsShared' /\ NoneAhead'
      BY <1>t, <2>1 DEF Inv, CurrentPairSent, CopyIsNewest, SavingIsShared, NoneAhead
    <2>4. InStep' /\ StoredInStep'
      BY <1>t, <2>1 DEF Inv, InStep, StoredInStep
    <2> QED BY <1>t, <2>2, <2>3, <2>4 DEF Inv
  <1>12. ASSUME NEW p \in Procs, Install(p) PROVE Inv'
    <2>1. /\ pc[p] = "install" /\ pc' = [pc EXCEPT ![p] = "save"]
          /\ sess' = copy[p] /\ UNCHANGED <<srv, stored, wait, copy, faults>>
      BY <1>12 DEF Install, Installed, Goto
    <2>2. copy[p].pair = srv /\ sess'.pair = srv
      BY <2>1 DEF Inv, CopyIsNewest
    <2>3. \A q \in Procs : pc[q] \notin {"post", "reply", "save"}
      BY <1>a, <2>1 DEF InFlight
    <2>4. OneFlight'
      BY <1>t, <2>1 DEF Inv, OneFlight, InFlight
    <2>5. CurrentPairSent' /\ CopyIsNewest' /\ SavingIsShared' /\ NoneAhead'
      BY <1>t, <1>p, <2>1, <2>2, <2>3
      DEF Inv, CurrentPairSent, CopyIsNewest, SavingIsShared, NoneAhead
    <2>6. InStep' /\ StoredInStep'
      BY <1>t, <2>1, <2>2 DEF Inv, InStep, StoredInStep
    <2> QED BY <1>t, <2>4, <2>5, <2>6 DEF Inv
  <1>13. ASSUME NEW p \in Procs, Save(p) \/ SaveFails(p) PROVE Inv'
    <2>1. /\ pc[p] = "save" /\ pc' = [pc EXCEPT ![p] = "notify"]
          /\ UNCHANGED <<srv, sess, wait, copy>>
          /\ \/ stored' = copy[p] /\ faults' = faults
             \/ stored' = stored /\ faults' = faults \cup {"saveFailed"}
      BY <1>13 DEF Save, Saved, SaveFails, Goto
    <2>2. copy[p].pair = srv /\ sess.pair = srv
      BY <2>1 DEF Inv, CopyIsNewest, SavingIsShared
    <2>3. OneFlight'
      BY <1>t, <2>1 DEF Inv, OneFlight, InFlight
    <2>4. CurrentPairSent' /\ CopyIsNewest' /\ SavingIsShared'
      BY <1>t, <2>1 DEF Inv, CurrentPairSent, CopyIsNewest, SavingIsShared
    <2>5. NoneAhead' /\ InStep'
      BY <1>p, <2>1, <2>2 DEF Inv, NoneAhead, InStep
    <2>6. StoredInStep'
      <3>1. CASE stored' = copy[p]
        <4>1. stored'.pair = srv /\ sess'.pair = srv /\ srv' = srv
          BY <2>1, <2>2, <3>1
        <4>2. srv <= srv + 1
          BY <1>p, Successor
        <4> QED BY <4>1, <4>2 DEF StoredInStep
      <3>2. CASE faults' = faults \cup {"saveFailed"}
        BY <3>2 DEF StoredInStep
      <3> QED BY <2>1, <3>1, <3>2
    <2> QED BY <1>t, <2>3, <2>4, <2>5, <2>6 DEF Inv
  <1>14. ASSUME NEW p \in Procs, ConnectSetsUser(p) PROVE Inv'
    <2>1. /\ pc[p] = "me" /\ pc' = [pc EXCEPT ![p] = "idle"]
          /\ UNCHANGED <<srv, stored, wait, faults>>
      BY <1>14 DEF ConnectSetsUser, Goto
    <2>2. sess'.pair = sess.pair
      BY <1>14, <1>t, SameSession DEF ConnectSetsUser, TypeOK
    <2>3. \A q \in Procs : Published(q) => [copy[q] EXCEPT !.user = TRUE].pair = copy[q].pair
      BY <1>t, SameSession DEF Published, Copied, TypeOK
    <2>4. \A q \in Procs : Copied(q) => copy'[q].pair = copy[q].pair
      BY <1>14, <2>3 DEF ConnectSetsUser
    <2> QED BY <1>t, <2>1, <2>2, <2>4, QuietStep DEF InFlight, Copied
  <1>15. CASE UNCHANGED vars
    BY <1>15, <1>t, QuietStep DEF vars, InFlight
  <1> QED
    BY <1>1, <1>2, <1>3, <1>4, <1>5, <1>6, <1>7, <1>8, <1>9, <1>10, <1>11, <1>12, <1>13,
       <1>14, <1>15 DEF Next, DoStep, FlightStep

\* Inv holds in every state.
LEMMA InvCorrect == Spec => []Inv
  <1> QED BY InvInit, InvStep, PTL DEF Spec

-----------------------------------------------------------------------------
\* However many goroutines want a refresh, there is one flight at a time, and
\* singleflight.wait belongs to it (govka.go 436-458).
THEOREM NeverTwoFlights == Spec => []OneFlight
  <1>1. Inv => OneFlight
    BY DEF Inv
  <1> QED BY <1>1, InvCorrect, PTL

\* A refresh request carries the pair the client holds at that time, although
\* the session was copied before (govka.go 359-365).
THEOREM RequestIsCurrent == Spec => []CurrentPairSent
  <1>1. Inv => CurrentPairSent
    BY DEF Inv
  <1> QED BY <1>1, InvCorrect, PTL

\* No used refresh token is sent again as long as no answer got lost and the
\* process was not restarted (vkid.go 297).
THEOREM UsedPairsStay == Spec => []NeverReuse
  <1>1. Inv => NeverReuse
    <2> SUFFICES ASSUME Inv, NEW p \in Procs, pc[p] = "post",
                        faults \cap {"replyLost", "restart"} = {}
                 PROVE  copy[p].pair = srv
      BY DEF NeverReuse
    <2>1. \A q \in Procs : pc[q] \notin {"reply", "install"}
      BY Alone DEF Inv, InFlight
    <2> QED BY <2>1 DEF Inv, InStep, CurrentPairSent
  <1> QED BY <1>1, InvCorrect, PTL

\* The Storage has the client's pair between flights and is never more than one
\* rotation behind the server, as long as no save fails (govka.go 372-376).
THEOREM StorageIsClose == Spec => []StorageKeepsUp
  <1>1. Inv => StorageKeepsUp
    <2> SUFFICES ASSUME Inv PROVE StorageKeepsUp
      OBVIOUS
    <2>1. wait = None => \A q \in Procs : pc[q] # "save"
      BY NoneIsNobody DEF Inv, OneFlight, InFlight
    <2> QED BY <2>1 DEF Inv, StoredInStep, StorageKeepsUp
  <1> QED BY <1>1, InvCorrect, PTL

\* Neither the session nor the Storage goes back to an older pair, whichever
\* goroutine refreshes and however often; a restart goes back to the Storage.
THEOREM NoWayBack == Spec => NeverBack
  <1>1. Inv /\ [Next]_vars => [NotBack]_vars
    <2> SUFFICES ASSUME Inv, [Next]_vars PROVE NotBack
      OBVIOUS
    <2> USE DEF NotBack
    <2>t. TypeOK
      BY DEF Inv
    <2>p. /\ srv >= sess.pair /\ srv >= stored.pair
          /\ sess.pair >= sess.pair /\ stored.pair >= stored.pair
      BY <2>t, Pairs DEF Inv, NoneAhead
    <2>1. CASE Expires
      <3>1. sess'.pair = sess.pair /\ stored' = stored
        BY <2>1, <2>t, SameSession DEF Expires, TypeOK
      <3> QED BY <2>p, <3>1
    <2>2. CASE Restart
      <3>1. PICK soon \in BOOLEAN : sess' = [stored EXCEPT !.soon = soon]
        BY <2>2 DEF Restart
      <3>2. sess'.pair = stored.pair /\ stored' = stored
        BY <2>2, <2>t, <3>1, SameSession DEF Restart, TypeOK
      <3> QED BY <2>p, <3>2
    <2>3. ASSUME NEW p \in Procs, Install(p) PROVE NotBack
      <3>1. stored' = stored /\ sess' = copy[p] /\ copy[p].pair = srv
        BY <2>3 DEF Install, Installed, Inv, CopyIsNewest
      <3> QED BY <2>p, <3>1
    <2>4. ASSUME NEW p \in Procs, Save(p) PROVE NotBack
      <3>1. sess' = sess /\ stored' = copy[p] /\ copy[p].pair = srv
        BY <2>4 DEF Save, Saved, Inv, CopyIsNewest
      <3> QED BY <2>p, <3>1
    <2>5. ASSUME NEW p \in Procs, ConnectSetsUser(p) PROVE NotBack
      <3>1. sess'.pair = sess.pair /\ stored' = stored
        BY <2>5, <2>t, SameSession DEF ConnectSetsUser, TypeOK
      <3> QED BY <2>p, <3>1
    <2>6. CASE UNCHANGED <<sess, stored>>
      BY <2>p, <2>6
    <2>7. ASSUME NEW p \in Procs,
                 \/ TokenCheck(p) \/ AuthFailed(p) \/ ConnectLearns(p) \/ DoStep(p)
                 \/ Clone(p) \/ Rotate(p) \/ Refused(p) \/ Reply(p) \/ ReplyLost(p)
                 \/ SaveFails(p) \/ Notify(p)
          PROVE  UNCHANGED <<sess, stored>>
      BY <2>7
      DEF TokenCheck, AuthFailed, ConnectLearns, DoStep, Lead, Join, Finish, Wake, Told,
          Clone, Rotate, Refused, Reply, ReplyLost, SaveFails, Notify
    <2> QED BY <2>1, <2>2, <2>3, <2>4, <2>5, <2>6, <2>7 DEF Next, FlightStep, vars
  <1> QED BY <1>1, InvCorrect, PTL DEF Spec, NeverBack

-----------------------------------------------------------------------------
\* Where a goroutine is depends on its own pc and failed.
LEMMA PhaseKept ==
  ASSUME NEW q \in Procs, pc'[q] = pc[q], failed'[q] = failed[q]
  PROVE  Phase(q)' = Phase(q)
  BY DEF Phase

\* The refresh implements the flights: every step of TokenRefresh is a step of
\* Flights or leaves its variables alone (govka.go 429-458).
THEOREM FlightsRefined == Spec => ImplementsFlights
  <1> DEFINE phase == [q \in Procs |-> Phase(q)]
             lost == {q \in Procs : pc[q] = "wake" /\ failed[q]}
             Moves(p, to) == phase' = [phase EXCEPT ![p] = to]
  <1>1. Init => Abstract!Init
    BY DEF Init, Abstract!Init, Phase
  <1>2. TypeOK /\ [Next]_vars => [Abstract!Next]_(Abstract!vars)
    <2> SUFFICES ASSUME TypeOK, [Next]_vars PROVE [Abstract!Next]_(Abstract!vars)
      OBVIOUS
    <2>t. /\ pc \in [Procs -> States] /\ failed \in [Procs -> BOOLEAN]
          /\ flight \in [Procs -> Procs \cup {None}]
      BY DEF TypeOK
    <2>m. ASSUME NEW p \in Procs, NEW to,
                 Phase(p)' = to,
                 \A q \in Procs \ {p} : pc'[q] = pc[q] /\ failed'[q] = failed[q]
          PROVE  Moves(p, to)
      <3>1. \A q \in Procs \ {p} : Phase(q)' = Phase(q)
        BY <2>m, PhaseKept
      <3> QED BY <2>m, <3>1
    <2>1. ASSUME NEW p \in Procs, TokenCheck(p) \/ AuthFailed(p) PROVE Abstract!Ask(p)
      <3>1. Phase(p) = "idle" /\ Phase(p)' = "asking" /\ lost' = lost
        BY <2>1, <2>t DEF TokenCheck, AuthFailed, Goto, Phase
      <3>2. Moves(p, "asking")
        BY <2>1, <2>t, <2>m, <3>1 DEF TokenCheck, AuthFailed, Goto
      <3> QED BY <2>1, <3>1, <3>2 DEF TokenCheck, AuthFailed, Abstract!Ask, Abstract!Goto
    <2>2. ASSUME NEW p \in Procs, Lead(p) PROVE Abstract!Lead(p)
      <3>1. Phase(p) = "asking" /\ Phase(p)' = "leading" /\ lost' = lost
        BY <2>2, <2>t DEF Lead, Goto, Phase
      <3>2. Moves(p, "leading")
        BY <2>2, <2>t, <2>m, <3>1 DEF Lead, Goto
      <3> QED BY <2>2, <3>1, <3>2 DEF Lead, FlightFree, Abstract!Lead, Abstract!Goto
    <2>3. ASSUME NEW p \in Procs, Join(p) PROVE Abstract!Join(p)
      <3>1. Phase(p) = "asking" /\ Phase(p)' = "waiting" /\ lost' = lost
        BY <2>3, <2>t DEF Join, Goto, Phase
      <3>2. Moves(p, "waiting")
        BY <2>3, <2>t, <2>m, <3>1 DEF Join, Goto
      <3> QED BY <2>3, <3>1, <3>2 DEF Join, FlightFree, Joined, Abstract!Join, Abstract!Goto
    <2>4. ASSUME NEW p \in Procs, Save(p) \/ SaveFails(p) PROVE Abstract!Succeeds(p)
      <3>1. Phase(p) = "leading" /\ Phase(p)' = "telling" /\ lost' = lost
        BY <2>4, <2>t DEF Save, SaveFails, Goto, Phase
      <3>2. Moves(p, "telling")
        BY <2>4, <2>t, <2>m, <3>1 DEF Save, SaveFails, Goto
      <3> QED BY <2>4, <3>1, <3>2 DEF Save, SaveFails, Abstract!Succeeds, Abstract!Goto
    <2>5. ASSUME NEW p \in Procs, Finish(p) PROVE Abstract!Finish(p, failed[p])
      <3>1. /\ Phase(p) = IF failed[p] THEN "leading" ELSE "telling"
            /\ Phase(p)' = "leaving"
        BY <2>5, <2>t DEF Finish, Goto, Phase
      <3>2. lost' = IF failed[p] THEN lost \cup {p} ELSE lost
        BY <2>5, <2>t DEF Finish, Goto
      <3>3. Moves(p, "leaving")
        BY <2>5, <2>t, <2>m, <3>1 DEF Finish, Goto
      <3> QED BY <2>5, <3>1, <3>2, <3>3 DEF Finish, Abstract!Finish, Abstract!Goto
    <2>6. ASSUME NEW p \in Procs, Wake(p) PROVE Abstract!Wake(p)
      <3>1. Abstract!Followers(p) = Followers(p)
        BY <2>t DEF Abstract!Followers, Followers, Phase, States
      <3>2. Phase(p) = "leaving" /\ Phase(p)' = "idle"
        BY <2>6, <2>t DEF Wake, Phase
      <3>3. \A q \in Procs \ {p} : q \in Followers(p) => Phase(q)' = "woken"
        BY <2>6, <2>t DEF Wake, Phase
      <3>4. \A q \in Procs \ {p} : q \notin Followers(p) => Phase(q)' = Phase(q)
        BY <2>6, <2>t, PhaseKept DEF Wake
      <3>5. lost' = lost \ {p}
        BY <2>6, <2>t DEF Wake, Followers
      <3>6. phase' = [q \in Procs |-> IF q = p THEN "idle"
                                      ELSE IF q \in Abstract!Followers(p) THEN "woken"
                                      ELSE phase[q]]
        BY <3>1, <3>2, <3>3, <3>4
      <3> QED BY <2>6, <3>2, <3>5, <3>6 DEF Wake, Abstract!Wake
    <2>7. ASSUME NEW p \in Procs, Told(p) PROVE Abstract!Return(p)
      <3>1. Phase(p) = "woken" /\ Phase(p)' = "idle" /\ lost' = lost
        BY <2>7, <2>t DEF Told, Goto, Phase
      <3>2. Moves(p, "idle")
        BY <2>7, <2>t, <2>m, <3>1 DEF Told, Goto
      <3> QED BY <2>7, <3>1, <3>2 DEF Told, Abstract!Return, Abstract!Goto
    <2>8. CASE Restart
      <3>1. phase' = [q \in Procs |-> "idle"] /\ lost' = {}
        BY <2>8 DEF Restart, Phase
      <3> QED BY <2>8, <3>1 DEF Restart, Abstract!Restart, Abstract!Next
    <2>s. ASSUME UNCHANGED <<wait, err, flight>>, lost' = lost,
                 \A q \in Procs : Phase(q)' = Phase(q)
          PROVE  UNCHANGED Abstract!vars
      BY <2>s DEF Abstract!vars
    <2>9. ASSUME NEW p \in Procs,
                 \/ Clone(p) \/ Rotate(p) \/ Refused(p) \/ Reply(p) \/ ReplyLost(p)
                 \/ Install(p) \/ Notify(p) \/ ConnectLearns(p) \/ ConnectSetsUser(p)
          PROVE  UNCHANGED Abstract!vars
      <3>1. /\ UNCHANGED <<wait, err, flight>>
            /\ \A q \in Procs \ {p} : pc'[q] = pc[q] /\ failed'[q] = failed[q]
            /\ Phase(p)' = Phase(p) /\ pc[p] # "wake" /\ pc'[p] # "wake"
        BY <2>9, <2>t
        DEF Clone, Rotate, Refused, Reply, ReplyLost, Install, Notify, ConnectLearns,
            ConnectSetsUser, End, Goto, Phase
      <3>2. \A q \in Procs \ {p} : Phase(q)' = Phase(q)
        BY <3>1, PhaseKept
      <3>3. lost' = lost
        BY <3>1
      <3> QED BY <2>s, <3>1, <3>2, <3>3
    <2>10. CASE Expires \/ UNCHANGED vars
      <3>1. UNCHANGED <<wait, err, flight, pc, failed>>
        BY <2>10 DEF Expires, vars
      <3>2. \A q \in Procs : Phase(q)' = Phase(q)
        BY <3>1, PhaseKept
      <3> QED BY <2>s, <3>1, <3>2
    <2>11. ASSUME NEW p \in Procs,
                  \/ TokenCheck(p) \/ AuthFailed(p) \/ DoStep(p) \/ Save(p) \/ SaveFails(p)
           PROVE  Abstract!Next
      <3>1. CASE Finish(p)
        <4>1. Abstract!Finish(p, TRUE) \/ Abstract!Finish(p, FALSE)
          <5>1. Abstract!Finish(p, failed[p])
            BY <2>5, <3>1
          <5>2. failed[p] = TRUE \/ failed[p] = FALSE
            BY <2>t
          <5> QED BY <5>1, <5>2 DEF Abstract!Finish
        <4> QED BY <4>1 DEF Abstract!Next, Abstract!Step
      <3>2. CASE ~Finish(p)
        <4>1. \/ Abstract!Ask(p) \/ Abstract!Lead(p) \/ Abstract!Join(p)
              \/ Abstract!Succeeds(p) \/ Abstract!Wake(p) \/ Abstract!Return(p)
          BY <2>11, <3>2, <2>1, <2>2, <2>3, <2>4, <2>6, <2>7 DEF DoStep
        <4> QED BY <4>1 DEF Abstract!Next, Abstract!Step
      <3> QED BY <3>1, <3>2
    <2> QED BY <2>8, <2>9, <2>10, <2>11 DEF Next, FlightStep
  <1> QED BY <1>1, <1>2, TypeCorrect, PTL DEF Spec, ImplementsFlights, Abstract!Spec
=============================================================================
