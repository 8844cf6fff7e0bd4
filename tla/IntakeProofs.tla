---------------------------- MODULE IntakeProofs ----------------------------
(***************************************************************************)
(* Proofs about Intake, Decode and WireFormat, for any meanings that the   *)
(* table of the documentation has room for, any user and any number of     *)
(* updates.  First that every event is read right, whatever is cut off     *)
(* (AllRead); then that what is known of an event (Understood) stays true  *)
(* on its way to the handlers, where only the sender may still be named.   *)
(***************************************************************************)
EXTENDS Intake, SequenceTheorems, FiniteSetTheorems, TLAPS

\* u is w or a part of it, with position 1 if it has position 2: it is a beginning.
Part(u, w) ==
    /\ DOMAIN u \subseteq DOMAIN w /\ \A i \in DOMAIN u : u[i] = w[i]
    /\ 2 \in DOMAIN u /\ 1 \in DOMAIN w => 1 \in DOMAIN u

\* The event says what was meant.
Same(e, m) == \A f \in DOMAIN e : f \in DOMAIN m => e[f] = m[f]

\* The event is raw or about what the update is about.
Truthful(m, u, e) ==
    \/ e.type = "RawUpdate" /\ e.raw = u
    \/ /\ e.type = m.type
       /\ \A f \in Identity \cap DOMAIN e :
             e[f] = m[f] \/ (LeftOpen(e, f, u) /\ e[f] = 0)

\* What is shown of the event that an update becomes.
Right(m, w, u, e) ==
    /\ Declared(e)
    /\ Truthful(m, u, e)
    /\ u = w => Same(e, m)

\* A position has the number n or is not there.
Number(u, i, n) ==
    /\ IsInt(u, i) <=> i \in DOMAIN u
    /\ int(u, i) = IF i \in DOMAIN u THEN n ELSE 0
    /\ optional(u, i) = IF i \in DOMAIN u THEN {n} ELSE {}

\* A position has a text, or an object, or is not there.
Text(u, i) == str(u, i) = IF i \in DOMAIN u THEN "words" ELSE NoText

Map(u, i, map) == object(u, i) = IF i \in DOMAIN u THEN map ELSE <<>>

-----------------------------------------------------------------------------
(* What the server lays out is there to be read *)

\* A text is not the absence of one.
LEMMA WordsAreText == "words" # NoText
  BY DEF NoText

\* What the kinds of a field are made of.
LEMMA FieldParts == Words.kind = "words" /\ \A n, s : Spelt(n, s).kind = s /\ Spelt(n, s).n = n
  BY DEF Words, Field, Spelt

\* A position where the server laid out a number has it, plain or quoted.
LEMMA NumberAt ==
  ASSUME NEW u, NEW w, Part(u, w), NEW i \in DOMAIN w,
         NEW n, NEW s \in Spellings, w[i] = Spelt(n, s)
  PROVE  Number(u, i, n)
  <1>1. i \in DOMAIN u => u[i].kind = s /\ u[i].n = n
    BY FieldParts DEF Part
  <1>2. IsInt(u, i) <=> i \in DOMAIN u
    BY <1>1 DEF IsInt, Numeric
  <1> QED BY <1>1, <1>2 DEF Number, int, optional

\* A position where the server laid out an object has it.
LEMMA ObjectAt ==
  ASSUME NEW u, NEW w, Part(u, w), NEW i \in DOMAIN w, NEW map, w[i] = Object(map)
  PROVE  Map(u, i, map)
  BY DEF Part, Map, object, Object, Field

\* A position where the server laid out a text has it.
LEMMA WordsAt ==
  ASSUME NEW u, NEW w, Part(u, w), NEW i \in DOMAIN w, w[i] = Words
  PROVE  Text(u, i)
  BY FieldParts DEF str, Part, Text

\* An update is read right if it is whenever decode gets to read it: it comes out
\* raw only if the code or a required field is cut off.
LEMMA Readable ==
  ASSUME NEW m, NEW w, NEW u, NEW c \in Int, NEW s \in Spellings, Part(u, w),
         0 \in DOMAIN w, w[0] = Spelt(c, s), Complete(c, w),
         Complete(c, u) => Right(m, w, u, decode(c, u))
  PROVE  Right(m, w, u, DecodeUpdate(u))
  <1>1. Number(u, 0, c)
    BY NumberAt
  <1>2. CASE IsInt(u, 0) /\ Complete(c, u)
    BY <1>1, <1>2 DEF DecodeUpdate, Number
  <1>3. CASE ~ (IsInt(u, 0) /\ Complete(c, u))
    <2>1. u # w
      BY <1>1, <1>3 DEF Number
    <2>2. DecodeUpdate(u) = Raw(0, u) \/ DecodeUpdate(u) = Raw(c, u)
      BY <1>1, <1>3 DEF DecodeUpdate, Number
    <2> QED BY <2>1, <2>2 DEF Right, Raw, Declared, RawStruct, Truthful
  <1> QED BY <1>2, <1>3

\* Numbers that are laid out one after another stand in that order after the code.
LEMMA SpelledOut ==
  ASSUME NEW s, NEW q \in Seq(Int)
  PROVE  /\ DOMAIN Fields(Spell(q, s)) = 0..(Len(q) - 1)
         /\ \A i \in 0..(Len(q) - 1) : Fields(Spell(q, s))[i] = Spelt(q[i + 1], s)
  BY DEF Fields, Spell

\* Only updates about flags are cut short by the server.
LEMMA Whole == \A m, s : m.type # "MessageFlags" => Wire(m, s) = Fields(Layout(m, s))
  BY DEF Wire

\* An update of numbers has each in its place.
LEMMA NumbersAt ==
  ASSUME NEW q \in Seq(Int), NEW s \in Spellings, NEW w, w = Fields(Spell(q, s)), NEW u, Part(u, w)
  PROVE  /\ DOMAIN w = 0..(Len(q) - 1)
         /\ Len(q) # 0 => w[0] = Spelt(q[1], s)
         /\ \A i \in 0..(Len(q) - 1) : Number(u, i, q[i + 1]) /\ Number(w, i, q[i + 1])
  <1>1. /\ DOMAIN w = 0..(Len(q) - 1)
        /\ \A i \in 0..(Len(q) - 1) : w[i] = Spelt(q[i + 1], s)
    BY SpelledOut
  <1>2. Part(w, w)
    BY DEF Part
  <1>3. ASSUME NEW i \in 0..(Len(q) - 1) PROVE Number(u, i, q[i + 1]) /\ Number(w, i, q[i + 1])
    BY <1>1, <1>2, NumberAt
  <1>4. Len(q) # 0 => w[0] = Spelt(q[1], s)
    BY <1>1, LenProperties
  <1> QED BY <1>1, <1>3, <1>4

\* An update of a code and two numbers.
LEMMA Three ==
  ASSUME NEW c \in Int, NEW a \in Int, NEW b \in Int, NEW s \in Spellings,
         NEW w, w = Fields(Spell(<<c, a, b>>, s)), NEW u, Part(u, w)
  PROVE  /\ DOMAIN w = 0..2 /\ w[0] = Spelt(c, s)
         /\ Number(u, 1, a) /\ Number(w, 1, a)
         /\ Number(u, 2, b) /\ Number(w, 2, b)
  <1> DEFINE q == <<c, a, b>>
  <1>1. w = Fields(Spell(q, s)) /\ q \in Seq(Int) /\ Len(q) = 3 /\ q[1] = c /\ q[2] = a /\ q[3] = b
    OBVIOUS
  <1> HIDE DEF q
  <1>2. 0..(Len(q) - 1) = 0..2 /\ Len(q) # 0
    BY <1>1
  <1>3. /\ DOMAIN w = 0..2 /\ w[0] = Spelt(c, s)
        /\ \A i \in 0..2 : Number(u, i, q[i + 1]) /\ Number(w, i, q[i + 1])
    BY <1>1, <1>2, NumbersAt
  <1>4. /\ Number(u, 1, q[1 + 1]) /\ Number(w, 1, q[1 + 1])
        /\ Number(u, 2, q[2 + 1]) /\ Number(w, 2, q[2 + 1])
    BY <1>3
  <1> QED BY <1>1, <1>3, <1>4

\* An update of a code and three numbers.
LEMMA Four ==
  ASSUME NEW c \in Int, NEW a \in Int, NEW b \in Int, NEW d \in Int, NEW s \in Spellings,
         NEW w, w = Fields(Spell(<<c, a, b, d>>, s)), NEW u, Part(u, w)
  PROVE  /\ DOMAIN w = 0..3 /\ w[0] = Spelt(c, s)
         /\ Number(u, 1, a) /\ Number(w, 1, a)
         /\ Number(u, 2, b) /\ Number(w, 2, b)
         /\ Number(u, 3, d) /\ Number(w, 3, d)
  <1> DEFINE q == <<c, a, b, d>>
  <1>1. /\ w = Fields(Spell(q, s)) /\ q \in Seq(Int) /\ Len(q) = 4
        /\ q[1] = c /\ q[2] = a /\ q[3] = b /\ q[4] = d
    OBVIOUS
  <1> HIDE DEF q
  <1>2. 0..(Len(q) - 1) = 0..3 /\ Len(q) # 0
    BY <1>1
  <1>3. /\ DOMAIN w = 0..3 /\ w[0] = Spelt(c, s)
        /\ \A i \in 0..3 : Number(u, i, q[i + 1]) /\ Number(w, i, q[i + 1])
    BY <1>1, <1>2, NumbersAt
  <1>4. /\ Number(u, 1, q[1 + 1]) /\ Number(w, 1, q[1 + 1])
        /\ Number(u, 2, q[2 + 1]) /\ Number(w, 2, q[2 + 1])
        /\ Number(u, 3, q[3 + 1]) /\ Number(w, 3, q[3 + 1])
    BY <1>3
  <1> QED BY <1>1, <1>3, <1>4

-----------------------------------------------------------------------------
(* The events *)

\* Events 6, 7, 13, 14, 20 and 21 (decode.go peerEvent).
LEMMA PeerRead ==
  ASSUME NEW c \in {6, 7, 13, 14, 20, 21},
         NEW m \in [type : {PeerEvents[c]}, peer : Int, local : Int],
         NEW s \in Spellings, NEW w, w = Wire(m, s), NEW u, Part(u, w)
  PROVE  Right(m, w, u, DecodeUpdate(u))
  <1>1. /\ m.type = PeerEvents[c] /\ m.peer \in Int /\ m.local \in Int
        /\ DOMAIN m = {"type", "peer", "local"}
    OBVIOUS
  <1>2. Numbers(m) = <<c, m.peer, m.local>>
    BY <1>1 DEF PeerEvents, Numbers
  <1>3. m.type # "MessageFlags"
    BY <1>1 DEF PeerEvents
  <1>4. Layout(m, s) = Spell(<<c, m.peer, m.local>>, s)
    BY <1>1, <1>2 DEF PeerEvents, Layout
  <1>5. /\ DOMAIN w = 0..2 /\ w[0] = Spelt(c, s)
        /\ Number(u, 1, m.peer) /\ Number(w, 1, m.peer)
        /\ Number(u, 2, m.local) /\ Number(w, 2, m.local)
    BY <1>1, <1>4, <1>3, Three, Whole
  <1>6. Required(c) = {1, 2} /\ c \in Known
    BY DEF Required, Known
  <1>7. Complete(c, w)
    BY <1>5, <1>6 DEF Complete, Ints, Number
  <1>8. ASSUME Complete(c, u) PROVE Right(m, w, u, decode(c, u))
    <2>1. int(u, 1) = m.peer /\ int(u, 2) = m.local
      BY <1>5, <1>6, <1>8 DEF Complete, Ints, Number
    <2>2. decode(c, u) = [type |-> PeerEvents[c], peer |-> m.peer, local |-> m.local]
      BY <2>1 DEF decode, PeerEvents, PeerEvent
    <2>3. decode(c, u) = m
      BY <2>2, <1>1
    <2>4. m \in PeerStructs
      BY <1>1 DEF PeerStructs, PeerEvents
    <2> QED BY <2>3, <2>4 DEF Right, Declared, Truthful, Same
  <1> QED BY <1>5, <1>7, <1>8, Readable

\* Events 10 to 12: which code is which operation.
LEMMA DialogRead ==
  ASSUME NEW m \in [type : {"DialogFlags"}, op : Ops, peer : Int, flags : Int],
         NEW s \in Spellings, NEW w, w = Wire(m, s), NEW u, Part(u, w)
  PROVE  Right(m, w, u, DecodeUpdate(u))
  <1> DEFINE c == DialogCodes[m.op]
  <1>1. m.type = "DialogFlags" /\ m.op \in Ops /\ m.peer \in Int /\ m.flags \in Int
    OBVIOUS
  <1>2. c \in 10..12 /\ FlagsOp(c) = m.op
    BY <1>1 DEF DialogCodes, FlagsOp, Ops
  <1>3. Layout(m, s) = Spell(<<c, m.peer, m.flags>>, s)
    BY <1>1 DEF Layout, Numbers
  <1> HIDE DEF c
  <1>4. /\ DOMAIN w = 0..2 /\ w[0] = Spelt(c, s)
        /\ Number(u, 1, m.peer) /\ Number(w, 1, m.peer)
        /\ Number(u, 2, m.flags) /\ Number(w, 2, m.flags)
    BY <1>1, <1>2, <1>3, Three, Whole
  <1>5. Required(c) = {1, 2} /\ c \in Known
    BY <1>2 DEF Required, Known
  <1>6. Complete(c, w)
    BY <1>2, <1>4, <1>5 DEF Complete, Ints, Number
  <1>7. ASSUME Complete(c, u) PROVE Right(m, w, u, decode(c, u))
    <2>1. int(u, 1) = m.peer /\ int(u, 2) = m.flags
      BY <1>4, <1>5, <1>7 DEF Complete, Ints, Number
    <2>2. decode(c, u) = [type |-> "DialogFlags", op |-> m.op, peer |-> m.peer, flags |-> m.flags]
      BY <2>1, <1>2 DEF decode, PeerEvents, DialogFlags
    <2>3. decode(c, u) = m
      BY <2>2, <1>1
    <2>4. m \in PeerStructs
      BY <1>1 DEF PeerStructs
    <2> QED BY <2>3, <2>4 DEF Right, Declared, Truthful, Same
  <1> QED BY <1>2, <1>4, <1>6, <1>7, Readable

\* Whatever the number, ChatChanged gets a truth value.
LEMMA ChangedStruct ==
  ASSUME NEW chat \in Int, NEW n
  PROVE  [type |-> "ChatChanged", chat |-> chat, self |-> n = 1] \in PeerStructs
  BY DEF PeerStructs

\* Whatever the number, UserOffline gets a truth value.
LEMMA OfflineStruct ==
  ASSUME NEW who \in Int, NEW n, NEW time \in Int
  PROVE  [type |-> "UserOffline", user |-> who, timeout |-> n = 1, time |-> time]
            \in PresenceStructs
  BY DEF PresenceStructs

\* Events 51 and 52.
LEMMA ChatRead ==
  ASSUME NEW m \in [type : {"ChatChanged"}, chat : Int, self : BOOLEAN]
                   \cup [type : {"ChatInfo"}, typ : Int, peer : Int, info : Int],
         NEW s \in Spellings, NEW w, w = Wire(m, s), NEW u, Part(u, w)
  PROVE  Right(m, w, u, DecodeUpdate(u))
  <1>1. CASE m.type = "ChatChanged"
    <2> DEFINE self == IF m.self THEN 1 ELSE 0
    <2>1. m.chat \in Int /\ m.self \in BOOLEAN /\ DOMAIN m = {"type", "chat", "self"}
      BY <1>1
    <2>2. Layout(m, s) = Spell(<<51, m.chat, self>>, s)
      BY <1>1 DEF Layout, Numbers
    <2>3. self \in Int /\ (self = 1) = m.self
      BY <2>1
    <2> HIDE DEF self
    <2>4. /\ DOMAIN w = 0..2 /\ w[0] = Spelt(51, s)
          /\ Number(u, 1, m.chat) /\ Number(w, 1, m.chat)
          /\ Number(u, 2, self) /\ Number(w, 2, self)
      BY <1>1, <2>1, <2>2, <2>3, Three, Whole
    <2>5. Complete(51, w)
      BY <2>4 DEF Complete, Required, Known, Ints, Number
    <2>6. ASSUME Complete(51, u) PROVE Right(m, w, u, decode(51, u))
      <3>1. int(u, 1) = m.chat /\ (u = w => int(u, 2) = self)
        BY <2>4, <2>6 DEF Complete, Required, Ints, Number
      <3>2. decode(51, u) = [type |-> "ChatChanged", chat |-> m.chat, self |-> int(u, 2) = 1]
        BY <3>1 DEF decode, PeerEvents, ChatEvent
      <3>3. decode(51, u) \in PeerStructs
        BY <3>2, <2>1, ChangedStruct
      <3>4. u = w => Same(decode(51, u), m)
        BY <3>1, <3>2, <2>1, <2>3, <1>1 DEF Same
      <3> QED BY <3>2, <3>3, <3>4, <1>1, <2>1 DEF Right, Declared, Truthful, Identity, LeftOpen
    <2> QED BY <2>4, <2>5, <2>6, Readable
  <1>2. CASE m.type = "ChatInfo"
    <2>1. m.typ \in Int /\ m.peer \in Int /\ m.info \in Int
          /\ DOMAIN m = {"type", "typ", "peer", "info"}
      BY <1>2
    <2>2. Layout(m, s) = Spell(<<52, m.typ, m.peer, m.info>>, s)
      BY <1>2 DEF Layout, Numbers
    <2>3. /\ DOMAIN w = 0..3 /\ w[0] = Spelt(52, s)
          /\ Number(u, 1, m.typ) /\ Number(w, 1, m.typ)
          /\ Number(u, 2, m.peer) /\ Number(w, 2, m.peer) /\ Number(u, 3, m.info)
      BY <1>2, <2>1, <2>2, Four, Whole
    <2>4. Complete(52, w)
      BY <2>3 DEF Complete, Required, Known, Ints, Number
    <2>5. ASSUME Complete(52, u) PROVE Right(m, w, u, decode(52, u))
      <3>1. /\ int(u, 1) = m.typ /\ int(u, 2) = m.peer /\ int(u, 3) \in Int
            /\ int(u, 3) = IF 3 \in DOMAIN u THEN m.info ELSE 0
            /\ u = w => int(u, 3) = m.info
        BY <2>1, <2>3, <2>5 DEF Complete, Required, Ints, Number
      <3>2. decode(52, u) = [type |-> "ChatInfo", typ |-> m.typ, peer |-> m.peer,
                             info |-> int(u, 3)]
        BY <3>1 DEF decode, PeerEvents, ChatEvent
      <3>3. Declared(decode(52, u)) /\ (u = w => Same(decode(52, u), m))
        BY <3>1, <3>2, <2>1, <1>2 DEF Declared, PeerStructs, Same
      <3>4. Truthful(m, u, decode(52, u))
        BY <3>1, <3>2, <2>1, <1>2 DEF Truthful, Identity, LeftOpen
      <3> QED BY <3>3, <3>4 DEF Right
    <2> QED BY <2>3, <2>4, <2>5, Readable
  <1> QED BY <1>1, <1>2

\* Events 8 and 9: the sign of the user id and the low byte of the extra field.
LEMMA PresenceRead ==
  ASSUME NEW m \in PresenceStructs,
         NEW s \in Spellings, NEW w, w = Wire(m, s), NEW u, Part(u, w)
  PROVE  Right(m, w, u, DecodeUpdate(u))
  <1>1. CASE m.type = "UserOnline"
    <2>1. /\ m.user \in Int /\ m.platform \in 0..255 /\ m.time \in Int
          /\ DOMAIN m = {"type", "user", "platform", "time"}
      BY <1>1 DEF PresenceStructs
    <2>2. Layout(m, s) = Spell(<<8, -m.user, Extra(m.platform), m.time>>, s)
      BY <1>1 DEF Layout, Numbers
    <2>3. Extra(m.platform) \in Int /\ Extra(m.platform) % 256 = m.platform
      BY <2>1 DEF Extra
    <2>4. /\ DOMAIN w = 0..3 /\ w[0] = Spelt(8, s)
          /\ Number(u, 1, -m.user) /\ Number(w, 1, -m.user)
          /\ Number(u, 2, Extra(m.platform)) /\ Number(u, 3, m.time)
      BY <1>1, <2>1, <2>2, <2>3, Four, Whole
    <2>5. Complete(8, w)
      BY <2>4 DEF Complete, Required, Known, Ints, Number
    <2>6. ASSUME Complete(8, u) PROVE Right(m, w, u, decode(8, u))
      <3>1. /\ -int(u, 1) = m.user /\ int(u, 2) % 256 \in 0..255 /\ int(u, 3) \in Int
            /\ u = w => int(u, 2) % 256 = m.platform /\ int(u, 3) = m.time
        BY <2>1, <2>3, <2>4, <2>6 DEF Complete, Required, Ints, Number
      <3>2. decode(8, u) = [type |-> "UserOnline", user |-> m.user,
                            platform |-> int(u, 2) % 256, time |-> int(u, 3)]
        BY <3>1 DEF decode, PeerEvents, Presence
      <3> QED
        BY <3>1, <3>2, <2>1, <1>1
        DEF Right, Declared, PresenceStructs, Truthful, Same, Identity, LeftOpen
    <2> QED BY <2>4, <2>5, <2>6, Readable
  <1>2. CASE m.type = "UserOffline"
    <2> DEFINE timeout == IF m.timeout THEN 1 ELSE 0
    <2>1. /\ m.user \in Int /\ m.timeout \in BOOLEAN /\ m.time \in Int
          /\ DOMAIN m = {"type", "user", "timeout", "time"}
      BY <1>2 DEF PresenceStructs
    <2>2. Layout(m, s) = Spell(<<9, -m.user, timeout, m.time>>, s)
      BY <1>2 DEF Layout, Numbers
    <2>3. timeout \in Int /\ (timeout = 1) = m.timeout
      BY <2>1
    <2> HIDE DEF timeout
    <2>4. /\ DOMAIN w = 0..3 /\ w[0] = Spelt(9, s)
          /\ Number(u, 1, -m.user) /\ Number(w, 1, -m.user)
          /\ Number(u, 2, timeout) /\ Number(u, 3, m.time)
      BY <1>2, <2>1, <2>2, <2>3, Four, Whole
    <2>5. Complete(9, w)
      BY <2>4 DEF Complete, Required, Known, Ints, Number
    <2>6. ASSUME Complete(9, u) PROVE Right(m, w, u, decode(9, u))
      <3>1. /\ -int(u, 1) = m.user /\ int(u, 3) \in Int
            /\ u = w => int(u, 2) = timeout /\ int(u, 3) = m.time
        BY <2>1, <2>4, <2>6 DEF Complete, Required, Ints, Number
      <3>2. decode(9, u) = [type |-> "UserOffline", user |-> m.user,
                            timeout |-> int(u, 2) = 1, time |-> int(u, 3)]
        BY <3>1 DEF decode, PeerEvents, Presence
      <3>3. decode(9, u) \in PresenceStructs
        BY <3>1, <3>2, <2>1, OfflineStruct
      <3>4. u = w => Same(decode(9, u), m)
        BY <3>1, <3>2, <2>1, <2>3, <1>2 DEF Same
      <3> QED BY <3>2, <3>3, <3>4, <1>2, <2>1 DEF Right, Declared, Truthful, Identity, LeftOpen
    <2> QED BY <2>4, <2>5, <2>6, Readable
  <1> QED BY <1>1, <1>2 DEF PresenceStructs

\* Events 70, 80 and 114.
LEMMA OtherRead ==
  ASSUME NEW m \in OtherStructs, NEW s \in Spellings, NEW w, w = Wire(m, s), NEW u, Part(u, w)
  PROVE  Right(m, w, u, DecodeUpdate(u))
  <1>1. CASE m.type = "Call"
    <2>1. m.user \in Int /\ m.call \in Int /\ DOMAIN m = {"type", "user", "call"}
      BY <1>1 DEF OtherStructs
    <2>2. Layout(m, s) = Spell(<<70, m.user, m.call>>, s)
      BY <1>1 DEF Layout, Numbers
    <2>3. /\ DOMAIN w = 0..2 /\ w[0] = Spelt(70, s)
          /\ Number(u, 1, m.user) /\ Number(w, 1, m.user) /\ Number(u, 2, m.call)
      BY <1>1, <2>1, <2>2, Three, Whole
    <2>4. Complete(70, w)
      BY <2>3 DEF Complete, Known, Required, Ints, Number
    <2>5. ASSUME Complete(70, u) PROVE Right(m, w, u, decode(70, u))
      <3>1. /\ int(u, 1) = m.user /\ int(u, 2) \in Int
            /\ int(u, 2) = IF 2 \in DOMAIN u THEN m.call ELSE 0
            /\ u = w => int(u, 2) = m.call
        BY <2>1, <2>3, <2>5 DEF Complete, Required, Ints, Number
      <3>2. decode(70, u) = [type |-> "Call", user |-> m.user, call |-> int(u, 2)]
        BY <3>1 DEF decode, PeerEvents
      <3>3. Declared(decode(70, u)) /\ (u = w => Same(decode(70, u), m))
        BY <3>1, <3>2, <2>1, <1>1 DEF Declared, OtherStructs, Same
      <3>4. Truthful(m, u, decode(70, u))
        BY <3>1, <3>2, <2>1, <1>1 DEF Truthful, Identity, LeftOpen
      <3> QED BY <3>3, <3>4 DEF Right
    <2> QED BY <2>3, <2>4, <2>5, Readable
  <1>2. CASE m.type = "Counter"
    <2>1. m.count \in Int /\ m = [type |-> "Counter", count |-> m.count]
      BY <1>2 DEF OtherStructs
    <2>2. Layout(m, s) = Spell(<<80, m.count, 0>>, s)
      BY <1>2 DEF Layout, Numbers
    <2>3. DOMAIN w = 0..2 /\ w[0] = Spelt(80, s) /\ Number(u, 1, m.count) /\ Number(w, 1, m.count)
      BY <1>2, <2>1, <2>2, Three, Whole
    <2>4. Complete(80, w)
      BY <2>3 DEF Complete, Known, Required, Ints, Number
    <2>5. ASSUME Complete(80, u) PROVE Right(m, w, u, decode(80, u))
      <3>1. int(u, 1) = m.count
        BY <2>3, <2>5 DEF Complete, Required, Ints, Number
      <3>2. decode(80, u) = m
        BY <3>1, <2>1, <1>2 DEF decode, PeerEvents
      <3> QED BY <3>2, <1>2 DEF Right, Declared, Truthful, Same
    <2> QED BY <2>3, <2>4, <2>5, Readable
  <1>3. CASE m.type = "NotificationSettings"
    <2> DEFINE map == [peer_id |-> {m.peer}, disabled_until |-> {m.until},
                       sound |-> {IF m.sound THEN 1 ELSE 0}]
    <2>1. /\ m.peer \in Int /\ m.sound \in BOOLEAN /\ m.until \in Int
          /\ m = [type |-> "NotificationSettings", peer |-> m.peer, sound |-> m.sound,
                  until |-> m.until]
      BY <1>3 DEF OtherStructs
    <2>2. Layout(m, s) = <<Spelt(114, s), Object(map)>>
      BY <1>3 DEF Layout
    <2>3. map # <<>>
      <3>1. DOMAIN map = {"peer_id", "disabled_until", "sound"} /\ DOMAIN << >> = {}
        OBVIOUS
      <3> QED BY <3>1
    <2>4. /\ parsed(map, "peer_id") = m.peer /\ parsed(map, "disabled_until") = m.until
          /\ (parsed(map, "sound") = 1) = m.sound
      BY <2>1 DEF parsed
    <2> HIDE DEF map
    <2>5. DOMAIN w = 0..1 /\ w[0] = Spelt(114, s) /\ w[1] = Object(map)
      <3>1. w = Fields(<<Spelt(114, s), Object(map)>>)
        BY <1>3, <2>2, Whole
      <3> QED BY <3>1 DEF Fields
    <2>6. Map(u, 1, map) /\ Map(w, 1, map)
      <3>1. Part(w, w)
        BY DEF Part
      <3> QED BY <2>5, <3>1, ObjectAt
    <2>7. Complete(114, w)
      BY <2>5, <2>6, <2>3 DEF Complete, Known, Required, Ints, Map
    <2>8. ASSUME Complete(114, u) PROVE Right(m, w, u, decode(114, u))
      <3>1. object(u, 1) = map
        BY <2>6, <2>8 DEF Complete, Map
      <3>2. decode(114, u) = m
        BY <3>1, <2>1, <2>4 DEF decode, PeerEvents, NotificationSettings
      <3> QED BY <3>2, <1>3 DEF Right, Declared, Truthful, Same
    <2> QED BY <2>5, <2>7, <2>8, Readable
  <1> QED BY <1>1, <1>2, <1>3 DEF OtherStructs

\* A list of numbers is read as these numbers, in their order: the k-th number is
\* at the place k.
LEMMA ListAt ==
  ASSUME NEW q \in Seq(Int), NEW s \in Spellings,
         NEW u, NEW i \in DOMAIN u, u[i] = List(Spell(q, s))
  PROVE  ints(u, i) = q
  <1> DEFINE list == Spell(q, s)
             n == Len(q)
  <1>1. n \in Nat /\ DOMAIN q = 1..n /\ \A k \in 1..n : q[k] \in Int
    OBVIOUS
  <1>2. DOMAIN list = 1..n /\ \A k \in 1..n : list[k] = Spelt(q[k], s)
    BY <1>1 DEF Spell
  <1>3. u[i].kind = "list" /\ u[i].list = list
    BY DEF List, Field
  <1> HIDE DEF list, n
  <1>4. NumberPlaces(list) = 1..n
    BY <1>2, FieldParts DEF NumberPlaces, Numeric
  <1>5. \A p \in 1..n : Cardinality({r \in 1..n : r <= p}) = p
    <2> TAKE p \in 1..n
    <2>1. {r \in 1..n : r <= p} = 1..p
      BY <1>1
    <2>2. Cardinality(1..p) = p
      BY <1>1, FS_Interval
    <2> QED BY <2>1, <2>2
  <1>6. Cardinality(1..n) = n
    BY <1>1, FS_Interval
  <1>7. \A k \in 1..n : Place(list, k) = k
    BY <1>1, <1>4, <1>5 DEF Place
  <1>8. ints(u, i) = [k \in 1..n |-> q[k]]
    BY <1>2, <1>3, <1>4, <1>6, <1>7, FieldParts DEF ints
  <1> QED BY <1>1, <1>8

\* Event 61: the user who types is the peer.
LEMMA PrivateTypingRead ==
  ASSUME NEW m \in Typings, m.time = {}, m.peer < ChatPeerOffset,
         NEW s \in Spellings, NEW w, w = Wire(m, s), NEW u, Part(u, w)
  PROVE  Right(m, w, u, DecodeUpdate(u))
  <1>1. m = [type |-> "Typing", voice |-> FALSE, peer |-> m.peer, users |-> <<m.peer>>,
             total |-> 0, time |-> {}]
    BY DEF Typings, TypingStructs
  <1>2. m.type = "Typing" /\ m.peer \in Int /\ m.users[1] = m.peer
    BY <1>1 DEF Typings, TypingStructs
  <1>3. Layout(m, s) = Spell(<<61, m.peer, 1>>, s)
    BY <1>2 DEF Layout, ChatPeerOffset
  <1>4. DOMAIN w = 0..2 /\ w[0] = Spelt(61, s) /\ Number(u, 1, m.peer) /\ Number(w, 1, m.peer)
    BY <1>2, <1>3, Three, Whole
  <1>5. Complete(61, w)
    BY <1>4 DEF Complete, Known, Required, Ints, Number
  <1>6. ASSUME Complete(61, u) PROVE Right(m, w, u, decode(61, u))
    <2>1. int(u, 1) = m.peer
      BY <1>4, <1>6 DEF Complete, Required, Ints, Number
    <2>2. decode(61, u) = m
      <3>1. decode(61, u) = Typing(61, u)
        BY DEF decode, PeerEvents
      <3>2. Typing(61, u) = [type |-> "Typing", voice |-> FALSE, peer |-> int(u, 1),
                             users |-> <<int(u, 1)>>, total |-> 0, time |-> {}]
        <4>1. Typing(61, u) = [type |-> "Typing", voice |-> 61 = 64, peer |-> int(u, 1),
                               users |-> <<int(u, 1)>>, total |-> 0, time |-> {}]
          BY DEF Typing
        <4>2. (61 = 64) = FALSE
          OBVIOUS
        <4> QED BY <4>1, <4>2, Zenon
      <3> QED BY <3>1, <3>2, <2>1, <1>1
    <2>3. m \in TypingStructs
      BY DEF Typings
    <2>4. Truthful(m, u, m) /\ Same(m, m)
      BY DEF Truthful, Same
    <2> QED BY <2>2, <2>3, <2>4 DEF Right, Declared
  <1>7. 0 \in DOMAIN w /\ w[0] = Spelt(61, s) /\ 61 \in Int
    BY <1>4
  <1> QED BY <1>5, <1>6, <1>7, Readable

\* Event 62: the peer is the chat id with the offset.
LEMMA ChatTypingRead ==
  ASSUME NEW m \in Typings, m.time = {}, m.peer >= ChatPeerOffset,
         NEW s \in Spellings, NEW w, w = Wire(m, s), NEW u, Part(u, w)
  PROVE  Right(m, w, u, DecodeUpdate(u))
  <1> DEFINE who == m.users[1]
  <1>1. m.users \in Seq(Int) /\ Len(m.users) = 1 /\ m.type = "Typing" /\ m.peer \in Int
    BY DEF Typings, TypingStructs
  <1>2. who \in Int /\ m.users = <<who>>
    BY <1>1
  <1>3. m = [type |-> "Typing", voice |-> FALSE, peer |-> m.peer, users |-> <<who>>,
             total |-> 0, time |-> {}]
    BY <1>2 DEF Typings, TypingStructs
  <1>4. Layout(m, s) = Spell(<<62, who, m.peer - ChatPeerOffset>>, s)
    BY <1>1 DEF Layout, ChatPeerOffset
  <1> HIDE DEF who
  <1>5. m.peer - ChatPeerOffset \in Int /\ ChatPeerOffset + (m.peer - ChatPeerOffset) = m.peer
    BY <1>1 DEF ChatPeerOffset
  <1>6. /\ DOMAIN w = 0..2 /\ w[0] = Spelt(62, s)
        /\ Number(u, 1, who) /\ Number(w, 1, who)
        /\ Number(u, 2, m.peer - ChatPeerOffset) /\ Number(w, 2, m.peer - ChatPeerOffset)
    BY <1>1, <1>2, <1>4, <1>5, Three, Whole
  <1>7. Complete(62, w)
    BY <1>6 DEF Complete, Known, Required, Ints, Number
  <1>8. ASSUME Complete(62, u) PROVE Right(m, w, u, decode(62, u))
    <2>1. int(u, 1) = who /\ int(u, 2) = m.peer - ChatPeerOffset
      BY <1>6, <1>8 DEF Complete, Required, Ints, Number
    <2>2. decode(62, u) = m
      <3>1. decode(62, u) = Typing(62, u)
        BY DEF decode, PeerEvents
      <3>2. Typing(62, u) = [type |-> "Typing", voice |-> FALSE,
                             peer |-> ChatPeerOffset + int(u, 2),
                             users |-> <<int(u, 1)>>, total |-> 0, time |-> {}]
        <4>1. Typing(62, u) = [type |-> "Typing", voice |-> 62 = 64,
                               peer |-> ChatPeerOffset + int(u, 2),
                               users |-> <<int(u, 1)>>, total |-> 0, time |-> {}]
          BY DEF Typing
        <4>2. (62 = 64) = FALSE
          OBVIOUS
        <4> QED BY <4>1, <4>2, Zenon
      <3> QED BY <3>1, <3>2, <2>1, <1>3, <1>5
    <2>3. m \in TypingStructs
      BY DEF Typings
    <2>4. Truthful(m, u, m) /\ Same(m, m)
      BY DEF Truthful, Same
    <2> QED BY <2>2, <2>3, <2>4 DEF Right, Declared
  <1> QED BY <1>6, <1>7, <1>8, Readable

\* Events 63 and 64: users, a total and a time.
LEMMA TimedTypingRead ==
  ASSUME NEW m \in Typings, m.time # {},
         NEW s \in Spellings, NEW w, w = Wire(m, s), NEW u, Part(u, w)
  PROVE  Right(m, w, u, DecodeUpdate(u))
  <1> DEFINE c == IF m.voice THEN 64 ELSE 63
  <1>1. /\ m.users \in Seq(Int) /\ m.type = "Typing" /\ m.peer \in Int /\ m.total \in Int
        /\ m.voice \in BOOLEAN /\ m.time \subseteq Int
        /\ DOMAIN m = {"type", "voice", "peer", "users", "total", "time"}
    BY DEF Typings, TypingStructs
  <1>2. PICK t \in m.time : m.time = {t} /\ t > 0
    BY DEF Typings
  <1>3. t \in Int /\ Time(m.time) = t
    BY <1>1, <1>2 DEF Time
  <1>4. Layout(m, s) = <<Spelt(c, s), List(Spell(m.users, s)), Spelt(m.peer, s),
                         Spelt(m.total, s), Spelt(t, s)>>
    BY <1>1, <1>3 DEF Layout
  <1>5. /\ DOMAIN w = 0..4 /\ w[0] = Spelt(c, s) /\ w[1] = List(Spell(m.users, s))
        /\ w[2] = Spelt(m.peer, s) /\ w[3] = Spelt(m.total, s) /\ w[4] = Spelt(t, s)
    <2>1. w = Fields(<<Spelt(c, s), List(Spell(m.users, s)), Spelt(m.peer, s),
                       Spelt(m.total, s), Spelt(t, s)>>)
      BY <1>1, <1>4, Whole
    <2> QED BY <2>1 DEF Fields
  <1>6. c \in {63, 64} /\ (c = 64) = m.voice
    BY <1>1
  <1> HIDE DEF c
  <1>7. /\ Number(u, 2, m.peer) /\ Number(u, 3, m.total) /\ Number(u, 4, t)
        /\ Number(w, 2, m.peer)
    <2>1. Part(w, w)
      BY DEF Part
    <2> QED BY <2>1, <1>5, NumberAt
  <1>8. /\ 1 \in DOMAIN u => ints(u, 1) = m.users
        /\ ints(u, 1) \in Seq(Int)
    <2>1. CASE 1 \in DOMAIN u
      BY <2>1, <1>1, <1>5, ListAt DEF Part
    <2>2. CASE 1 \notin DOMAIN u
      BY <2>2 DEF ints
    <2> QED BY <2>1, <2>2
  <1>9. Required(c) = {2} /\ c \in Known
    BY <1>6 DEF Required, Known
  <1>10. Complete(c, w)
    BY <1>5, <1>6, <1>7, <1>9 DEF Complete, Ints, Number
  <1>11. ASSUME Complete(c, u) PROVE Right(m, w, u, decode(c, u))
    <2> DEFINE time == IF int(u, 4) <= 0 THEN {} ELSE {int(u, 4)}
    <2>1. /\ int(u, 2) = m.peer /\ int(u, 3) \in Int /\ time \in SUBSET Int
          /\ ints(u, 1) = m.users
          /\ u = w => int(u, 3) = m.total /\ time = m.time
      <3>1. 2 \in DOMAIN u
        BY <1>7, <1>9, <1>11 DEF Complete, Ints, Number
      <3>2. 1 \in DOMAIN u
        BY <1>5, <3>1 DEF Part
      <3> QED
        BY <1>1, <1>2, <1>3, <1>5, <1>7, <1>8, <1>9, <1>11, <3>2 DEF Complete, Ints, Number
    <2>2. decode(c, u) = [type |-> "Typing", voice |-> m.voice, peer |-> m.peer,
                          users |-> ints(u, 1), total |-> int(u, 3), time |-> time]
      <3>1. decode(c, u) = Typing(c, u)
        BY <1>6 DEF decode, PeerEvents
      <3>2. Typing(c, u) = [type |-> "Typing", voice |-> c = 64, peer |-> int(u, 2),
                            users |-> ints(u, 1), total |-> int(u, 3), time |-> time]
        BY <1>6 DEF Typing
      <3> QED BY <3>1, <3>2, <2>1, <1>6
    <2> HIDE DEF time
    <2>3. decode(c, u) \in TypingStructs
      BY <1>1, <1>8, <2>1, <2>2 DEF TypingStructs
    <2>4. u = w => Same(decode(c, u), m)
      BY <1>1, <2>1, <2>2 DEF Same
    <2>5. Truthful(m, u, decode(c, u))
      BY <1>1, <2>1, <2>2 DEF Truthful, Identity
    <2> QED BY <2>3, <2>4, <2>5 DEF Right, Declared
  <1> QED BY <1>5, <1>6, <1>10, <1>11, Readable

\* Event 5.
LEMMA EditRead ==
  ASSUME NEW m \in Edits, NEW s \in Spellings, NEW w, w = Wire(m, s), NEW u, Part(u, w)
  PROVE  Right(m, w, u, DecodeUpdate(u))
  <1>1. /\ m.type = "MessageEdit" /\ m.id \in Int /\ m.flags \in Int /\ m.peer \in Int
        /\ m.date \subseteq Int /\ m.text = "words" /\ m.attachments \in Pairs
        /\ DOMAIN m = {"type", "id", "flags", "peer", "date", "text", "attachments"}
    BY DEF Edits, EditStructs
  <1>2. PICK t \in m.date : m.date = {t}
    BY DEF Edits, Dated
  <1>3. t \in Int /\ Time(m.date) = t
    BY <1>1, <1>2 DEF Time
  <1>4. Layout(m, s) = <<Spelt(5, s), Spelt(m.id, s), Spelt(m.flags, s), Spelt(m.peer, s),
                         Spelt(t, s), Words, Object(m.attachments), Spelt(0, s)>>
    BY <1>1, <1>3 DEF Layout
  <1>5. /\ DOMAIN w = 0..7 /\ w[0] = Spelt(5, s) /\ w[1] = Spelt(m.id, s)
        /\ w[2] = Spelt(m.flags, s) /\ w[3] = Spelt(m.peer, s) /\ w[4] = Spelt(t, s)
        /\ w[5] = Words /\ w[6] = Object(m.attachments)
    <2>1. w = Fields(<<Spelt(5, s), Spelt(m.id, s), Spelt(m.flags, s), Spelt(m.peer, s),
                       Spelt(t, s), Words, Object(m.attachments), Spelt(0, s)>>)
      BY <1>1, <1>4, Whole
    <2> QED BY <2>1 DEF Fields
  <1>6. /\ Number(u, 1, m.id) /\ Number(u, 2, m.flags) /\ Number(u, 3, m.peer)
        /\ Number(u, 4, t) /\ Number(w, 1, m.id) /\ Number(w, 3, m.peer)
        /\ Text(u, 5) /\ Map(u, 6, m.attachments)
    <2>1. Part(w, w)
      BY DEF Part
    <2> QED BY <2>1, <1>5, NumberAt, WordsAt, ObjectAt
  <1>7. Complete(5, w)
    BY <1>5, <1>6 DEF Complete, Known, Required, Ints, Number
  <1>8. ASSUME Complete(5, u) PROVE Right(m, w, u, decode(5, u))
    <2>1. /\ int(u, 1) = m.id /\ int(u, 2) \in Int /\ int(u, 3) = m.peer /\ int(u, 4) \in Int
          /\ u = w => int(u, 2) = m.flags /\ int(u, 4) = t
      BY <1>1, <1>3, <1>5, <1>6, <1>8 DEF Complete, Required, Ints, Number
    <2>2. /\ str(u, 5) \in Strings /\ object(u, 6) \in Pairs
          /\ u = w => str(u, 5) = m.text /\ object(u, 6) = m.attachments
      <3>1. << >> \in Pairs /\ "words" \in Strings /\ NoText \in Strings
        BY DEF Pairs, Strings
      <3>2. str(u, 5) \in Strings /\ object(u, 6) \in Pairs
        BY <3>1, <1>1, <1>6 DEF Text, Map
      <3>3. u = w => str(u, 5) = m.text /\ object(u, 6) = m.attachments
        BY <1>1, <1>5, <1>6 DEF Text, Map
      <3> QED BY <3>2, <3>3
    <2>3. decode(5, u) = [type |-> "MessageEdit", id |-> m.id, flags |-> int(u, 2),
                          peer |-> m.peer, date |-> {int(u, 4)}, text |-> str(u, 5),
                          attachments |-> object(u, 6)]
      BY <2>1 DEF decode, PeerEvents, MessageEdit
    <2>4. decode(5, u) \in EditStructs
      BY <1>1, <2>1, <2>2, <2>3 DEF EditStructs
    <2>5. u = w => Same(decode(5, u), m)
      BY <1>1, <1>2, <2>1, <2>2, <2>3 DEF Same
    <2> QED BY <1>1, <2>3, <2>4, <2>5 DEF Right, Declared, Truthful, Identity, LeftOpen
  <1> QED BY <1>5, <1>7, <1>8, Readable

\* Events 1 to 3, of which the server itself leaves out the end: an absent peer,
\* time or text is read as absent.
LEMMA FlagsRead ==
  ASSUME NEW m \in FlagChanges, NEW s \in Spellings, NEW w, w = Wire(m, s), NEW u, Part(u, w)
  PROVE  Right(m, w, u, DecodeUpdate(u))
  <1> DEFINE c == Codes[m.op]
             t == Time(m.date)
             whole == Fields(Layout(m, s))
  <1>1. /\ m.type = "MessageFlags" /\ m.op \in Ops /\ m.id \in Int /\ m.flags \in Int
        /\ m.peer \in Int /\ m.date \subseteq Int /\ m.extra \in Pairs
        /\ m.attachments \in Pairs
        /\ DOMAIN m = {"type", "op", "id", "flags", "peer", "date", "text", "extra",
                       "attachments"}
    BY DEF FlagChanges, FlagsStructs
  <1>2. /\ m.peer = 0 => m.date = {}
        /\ m.date = {} => m.text = NoText
        /\ m.date # {} => m.date = {t}
        /\ m.text \in {NoText, "words"}
        /\ m.text = NoText => m.extra = << >> /\ m.attachments = << >>
    BY DEF FlagChanges, Dated, Time
  <1>3. t \in Int
    <2>1. CASE m.date = {}
      BY <2>1 DEF Time
    <2>2. CASE m.date # {}
      BY <1>1, <1>2, <2>2
    <2> QED BY <2>1, <2>2
  <1>4. c \in 1..3 /\ FlagsOp(c) = m.op
    BY <1>1 DEF Codes, FlagsOp, Ops
  <1>5. /\ DOMAIN whole = 0..7 /\ whole[0] = Spelt(c, s) /\ whole[1] = Spelt(m.id, s)
        /\ whole[2] = Spelt(m.flags, s) /\ whole[3] = Spelt(m.peer, s)
        /\ whole[4] = Spelt(t, s) /\ whole[5] = Words /\ whole[6] = Object(m.extra)
        /\ whole[7] = Object(m.attachments)
    BY <1>1 DEF Layout, Fields
  <1>6. w = Cut(whole, Told(m)) /\ Told(m) \in {3, 4, 5, 8}
    BY <1>1 DEF Wire, Told
  <1> HIDE DEF c, t, whole
  <1>7. /\ DOMAIN w = 0..(Told(m) - 1)
        /\ Part(w, whole) /\ Part(u, whole)
    BY <1>5, <1>6 DEF Cut, Part
  <1>8. w[0] = Spelt(c, s)
    BY <1>5, <1>6 DEF Cut
  <1>9. /\ Number(u, 1, m.id) /\ Number(u, 2, m.flags) /\ Number(u, 3, m.peer)
        /\ Number(u, 4, t) /\ Number(w, 1, m.id) /\ Number(w, 2, m.flags)
        /\ Text(u, 5) /\ Map(u, 6, m.extra) /\ Map(u, 7, m.attachments)
    BY <1>5, <1>7, NumberAt, WordsAt, ObjectAt
  <1>10. Required(c) = {1, 2} /\ c \in Known
    BY <1>4 DEF Required, Known
  <1>11. Complete(c, w)
    BY <1>4, <1>6, <1>7, <1>9, <1>10 DEF Complete, Ints, Number
  <1>12. /\ 3 \in DOMAIN w <=> m.peer # 0
         /\ 4 \in DOMAIN w <=> m.date # {}
         /\ m.text = NoText => 5 \notin DOMAIN w
         /\ m.text # NoText => {5, 6, 7} \subseteq DOMAIN w
    <2>1. CASE m.peer = 0
      <3>1. Told(m) = 3 /\ DOMAIN w = 0..2
        BY <2>1, <1>7 DEF Told
      <3> QED BY <3>1, <2>1, <1>2
    <2>2. CASE m.peer # 0 /\ m.date = {}
      <3>1. Told(m) = 4 /\ DOMAIN w = 0..3
        BY <2>2, <1>7 DEF Told
      <3> QED BY <3>1, <2>2, <1>2
    <2>3. CASE m.peer # 0 /\ m.date # {} /\ m.text = NoText
      <3>1. Told(m) = 5 /\ DOMAIN w = 0..4
        BY <2>3, <1>7 DEF Told
      <3> QED BY <3>1, <2>3, <1>2
    <2>4. CASE m.peer # 0 /\ m.date # {} /\ m.text # NoText
      <3>1. Told(m) = 8 /\ DOMAIN w = 0..7
        BY <2>4, <1>7 DEF Told
      <3> QED BY <3>1, <2>4, <1>2
    <2> QED BY <2>1, <2>2, <2>3, <2>4
  <1>13. ASSUME Complete(c, u) PROVE Right(m, w, u, decode(c, u))
    <2> DEFINE e == MessageFlags(c, u)
    <2>1. decode(c, u) = e
      BY <1>4 DEF decode, PeerEvents
    <2>2. /\ int(u, 1) = m.id /\ int(u, 2) = m.flags
          /\ int(u, 3) \in Int /\ (3 \in DOMAIN u => int(u, 3) = m.peer)
          /\ optional(u, 4) = IF 4 \in DOMAIN u THEN {t} ELSE {}
      BY <1>1, <1>9, <1>10, <1>13 DEF Complete, Ints, Number
    <2>3. /\ e.type = "MessageFlags" /\ e.op = m.op /\ e.id = m.id /\ e.flags = m.flags
          /\ e.peer = int(u, 3) /\ e.date = optional(u, 4)
          /\ e.text = (IF 5 \in DOMAIN u THEN str(u, 5) ELSE NoText)
          /\ e.extra = (IF 5 \in DOMAIN u THEN object(u, 6) ELSE << >>)
          /\ e.attachments = (IF 5 \in DOMAIN u THEN object(u, 7) ELSE << >>)
          /\ e = [type |-> e.type, op |-> e.op, id |-> e.id, flags |-> e.flags, peer |-> e.peer,
                  date |-> e.date, text |-> e.text, extra |-> e.extra,
                  attachments |-> e.attachments]
      BY <1>4, <2>2 DEF MessageFlags
    <2> HIDE DEF e
    <2>4. << >> \in Pairs /\ "words" \in Strings /\ NoText \in Strings
      BY DEF Pairs, Strings
    <2>5. e.text \in Strings /\ e.extra \in Pairs /\ e.attachments \in Pairs
      BY <1>1, <1>9, <2>3, <2>4 DEF Text, Map
    <2>6. e.date \in SUBSET Int
      BY <1>3, <2>2, <2>3
    <2>7. e \in FlagsStructs
      BY <1>1, <2>2, <2>3, <2>5, <2>6 DEF FlagsStructs
    <2>8. ASSUME u = w PROVE Same(e, m)
      <3>1. e.peer = m.peer
        BY <1>9, <1>12, <2>3, <2>8 DEF Number
      <3>2. e.date = m.date
        BY <1>2, <1>12, <2>2, <2>3, <2>8
      <3>3. e.text = m.text /\ e.extra = m.extra /\ e.attachments = m.attachments
        <4>1. CASE m.text = NoText
          BY <1>2, <1>12, <2>3, <2>8, <4>1
        <4>2. CASE m.text = "words"
          BY <1>9, <1>12, <2>3, <2>8, <4>2, WordsAreText DEF Text, Map
        <4> QED BY <1>2, <4>1, <4>2
      <3> QED BY <1>1, <2>3, <3>1, <3>2, <3>3 DEF Same
    <2>9. Truthful(m, u, e)
      <3>1. Identity \cap DOMAIN e = {"id", "peer"}
        BY <2>3 DEF Identity
      <3>2. 3 \notin DOMAIN u => int(u, 3) = 0
        BY DEF int, IsInt
      <3> QED BY <1>1, <2>2, <2>3, <3>1, <3>2 DEF Truthful, LeftOpen
    <2> QED BY <2>1, <2>7, <2>8, <2>9 DEF Right, Declared
  <1>14. 0 \in DOMAIN w /\ c \in Int
    BY <1>4, <1>6, <1>7
  <1> QED BY <1>8, <1>11, <1>13, <1>14, Readable

\* A message is meant as one, and its sender is the true one or left open.
SenderOf(m, e) ==
    /\ e.type = "Message" => m.type = "Message"
    /\ e.type = "Message" => e.from \in {0, m.sender} /\ e.outgoing = m.outgoing

\* Event 4: the sender is the one that the extra fields name, or the peer of a
\* private message that comes in, or left open.
LEMMA MessageRead ==
  ASSUME NEW m \in NewMessages, NEW s \in Spellings, NEW w, w = Wire(m, s), NEW u, Part(u, w)
  PROVE  /\ Right(m, w, u, DecodeUpdate(u))
         /\ SenderOf(m, DecodeUpdate(u))
  <1>1. /\ m.type = "Message" /\ m.id \in Int /\ m.flags \in Int /\ m.peer \in Int
        /\ m.date \subseteq Int /\ m.text = "words" /\ m.extra \in Pairs
        /\ m.attachments \in Pairs /\ m.random \in Int /\ m.outgoing \in BOOLEAN
        /\ m.sender \in Int
        /\ DOMAIN m = {"type", "id", "flags", "peer", "date", "text", "extra",
                       "attachments", "random", "outgoing", "sender"}
    BY DEF NewMessages
  <1>2. /\ m.outgoing = Outgoing(m.flags)
        /\ "from" \in DOMAIN m.extra => m.extra["from"] = {m.sender}
        /\ ~m.outgoing /\ m.peer < ChatPeerOffset => m.sender = m.peer
    BY DEF NewMessages
  <1>3. PICK t \in m.date : m.date = {t}
    BY DEF NewMessages, Dated
  <1>4. t \in Int /\ Time(m.date) = t
    BY <1>1, <1>3 DEF Time
  <1>5. Layout(m, s) = <<Spelt(4, s), Spelt(m.id, s), Spelt(m.flags, s), Spelt(m.peer, s),
                         Spelt(t, s), Words, Object(m.extra), Object(m.attachments),
                         Spelt(m.random, s)>>
    BY <1>1, <1>4 DEF Layout
  <1>6. /\ DOMAIN w = 0..8 /\ w[0] = Spelt(4, s) /\ w[1] = Spelt(m.id, s)
        /\ w[2] = Spelt(m.flags, s) /\ w[3] = Spelt(m.peer, s) /\ w[4] = Spelt(t, s)
        /\ w[5] = Words /\ w[6] = Object(m.extra) /\ w[7] = Object(m.attachments)
        /\ w[8] = Spelt(m.random, s)
    <2>1. w = Fields(<<Spelt(4, s), Spelt(m.id, s), Spelt(m.flags, s), Spelt(m.peer, s),
                       Spelt(t, s), Words, Object(m.extra), Object(m.attachments),
                       Spelt(m.random, s)>>)
      BY <1>1, <1>5, Whole
    <2> QED BY <2>1 DEF Fields
  <1>7. /\ Number(u, 1, m.id) /\ Number(u, 2, m.flags) /\ Number(u, 3, m.peer)
        /\ Number(u, 4, t) /\ Number(u, 8, m.random)
        /\ Number(w, 1, m.id) /\ Number(w, 2, m.flags) /\ Number(w, 3, m.peer)
        /\ Text(u, 5) /\ Map(u, 6, m.extra) /\ Map(u, 7, m.attachments)
    <2>1. Part(w, w)
      BY DEF Part
    <2> QED BY <2>1, <1>6, NumberAt, WordsAt, ObjectAt
  <1>8. Required(4) = {1, 2, 3} /\ 4 \in Known
    BY DEF Required, Known
  <1>9. Complete(4, w)
    BY <1>6, <1>7, <1>8 DEF Complete, Ints, Number
  <1>10. ASSUME Complete(4, u)
         PROVE  Right(m, w, u, decode(4, u)) /\ SenderOf(m, decode(4, u))
    <2> DEFINE e == Message(u)
               named == parsed(object(u, 6), "from")
    <2>1. decode(4, u) = e
      BY DEF decode, PeerEvents
    <2>2. /\ int(u, 1) = m.id /\ int(u, 2) = m.flags /\ int(u, 3) = m.peer
          /\ int(u, 4) \in Int /\ int(u, 8) \in Int
          /\ u = w => int(u, 4) = t /\ int(u, 8) = m.random
      BY <1>1, <1>4, <1>6, <1>7, <1>8, <1>10 DEF Complete, Ints, Number
    <2>3. /\ e.type = "Message" /\ e.id = m.id /\ e.flags = m.flags /\ e.peer = m.peer
          /\ e.date = {int(u, 4)} /\ e.text = str(u, 5) /\ e.extra = object(u, 6)
          /\ e.attachments = object(u, 7) /\ e.random = int(u, 8)
          /\ e.outgoing = m.outgoing
          /\ e.from = Sender(named, m.flags, m.peer)
          /\ e = [type |-> e.type, id |-> e.id, flags |-> e.flags, peer |-> e.peer,
                  date |-> e.date, text |-> e.text, extra |-> e.extra,
                  attachments |-> e.attachments, random |-> e.random,
                  outgoing |-> e.outgoing, from |-> e.from]
      BY <1>2, <2>2 DEF Message
    <2>4. named \in {0, m.sender}
      <3>1. object(u, 6) \in {<< >>, m.extra}
        BY <1>7 DEF Map
      <3>2. DOMAIN << >> = {}
        OBVIOUS
      <3> QED BY <3>1, <3>2, <1>2 DEF parsed
    <2> HIDE DEF e, named
    <2>5. e.from \in {0, m.sender}
      BY <1>2, <2>3, <2>4 DEF Sender
    <2>6. << >> \in Pairs /\ "words" \in Strings /\ NoText \in Strings
      BY DEF Pairs, Strings
    <2>7. e.text \in Strings /\ e.extra \in Pairs /\ e.attachments \in Pairs
      BY <1>1, <1>7, <2>3, <2>6 DEF Text, Map
    <2>8. e \in MessageStructs
      BY <1>1, <2>2, <2>3, <2>5, <2>7 DEF MessageStructs
    <2>9. u = w => e.text = m.text /\ e.extra = m.extra /\ e.attachments = m.attachments
      BY <1>1, <1>6, <1>7, <2>3 DEF Text, Map
    <2>10. u = w => Same(e, m)
      BY <1>1, <1>3, <2>2, <2>3, <2>9 DEF Same
    <2>11. Truthful(m, u, e)
      <3>1. Identity \cap DOMAIN e = {"id", "peer"}
        BY <2>3 DEF Identity
      <3> QED BY <1>1, <2>3, <3>1 DEF Truthful
    <2> QED BY <1>1, <2>1, <2>3, <2>5, <2>8, <2>10, <2>11 DEF Right, Declared, SenderOf
  <1>11. Right(m, w, u, DecodeUpdate(u))
    BY <1>6, <1>9, <1>10, Readable
  <1>12. SenderOf(m, DecodeUpdate(u))
    <2>1. Number(u, 0, 4)
      BY <1>6, NumberAt
    <2>2. CASE IsInt(u, 0) /\ Complete(4, u)
      BY <2>1, <2>2, <1>10 DEF DecodeUpdate, Number
    <2>3. CASE ~ (IsInt(u, 0) /\ Complete(4, u))
      <3>1. DecodeUpdate(u) = Raw(0, u) \/ DecodeUpdate(u) = Raw(4, u)
        BY <2>1, <2>3 DEF DecodeUpdate, Number
      <3> QED BY <3>1 DEF Raw, SenderOf
    <2> QED BY <2>2, <2>3
  <1> QED BY <1>11, <1>12

\* Every event of the table is read right, whatever is cut off.
LEMMA AllRead ==
  ASSUME NEW m, Documented(m), NEW s \in Spellings, NEW w, w = Wire(m, s), NEW u, Part(u, w)
  PROVE  Right(m, w, u, DecodeUpdate(u)) /\ SenderOf(m, DecodeUpdate(u))
  <1>1. CASE m \in NewMessages
    BY <1>1, MessageRead
  <1>2. CASE m \notin NewMessages
    <2>1. Right(m, w, u, DecodeUpdate(u))
      <3>1. CASE m \in Edits
        BY <3>1, EditRead
      <3>2. CASE m \in FlagChanges
        BY <3>2, FlagsRead
      <3>3. CASE m \in Typings
        <4>1. m.peer \in Int
          BY <3>3 DEF Typings, TypingStructs
        <4>2. m.peer < ChatPeerOffset \/ m.peer >= ChatPeerOffset
          BY <4>1 DEF ChatPeerOffset
        <4> QED BY <3>3, <4>2, PrivateTypingRead, ChatTypingRead, TimedTypingRead
      <3>4. CASE m \in PeerStructs
        <4> DEFINE peers == [type : {PeerEvents[code] : code \in DOMAIN PeerEvents},
                             peer : Int, local : Int]
        <4>1. CASE m \in peers
          <5>1. PICK c \in {6, 7, 13, 14, 20, 21} : m.type = PeerEvents[c]
            BY <4>1 DEF PeerEvents
          <5>2. m \in [type : {PeerEvents[c]}, peer : Int, local : Int]
            BY <4>1, <5>1
          <5> QED BY <5>2, PeerRead
        <4>2. CASE m \notin peers
          BY <3>4, <4>2, DialogRead, ChatRead DEF PeerStructs
        <4> QED BY <4>1, <4>2
      <3>5. CASE m \in PresenceStructs \cup OtherStructs
        BY <3>5, PresenceRead, OtherRead
      <3> QED BY <1>2, <3>1, <3>2, <3>3, <3>4, <3>5 DEF Documented
    <2>2. m.type # "Message"
      BY <1>2 DEF Documented, Edits, FlagChanges, Typings, PeerStructs, PresenceStructs,
           OtherStructs, EditStructs, FlagsStructs, TypingStructs, PeerEvents
    <2> QED BY <2>1, <2>2 DEF Right, Truthful, SenderOf
  <1> QED BY <1>1, <1>2

\* Of all that is documented only new messages are messages.
LEMMA MessageMeant ==
  ASSUME NEW m, Documented(m), m.type = "Message"
  PROVE  m \in NewMessages
  BY DEF Documented, Edits, FlagChanges, Typings, PeerStructs, PresenceStructs,
         OtherStructs, EditStructs, FlagsStructs, TypingStructs, PeerEvents

\* Of all the structs only Message is one.
LEMMA MessageDeclared ==
  ASSUME NEW e, Declared(e), e.type = "Message"
  PROVE  e \in MessageStructs
  BY DEF Declared, RawStruct, PeerStructs, PresenceStructs,
         OtherStructs, EditStructs, FlagsStructs, TypingStructs, PeerEvents

\* An event is not the absence of one.
LEMMA SomeEvent ==
  ASSUME NEW e, Declared(e)
  PROVE  e # Nothing
  <1>1. Nothing.type = "none"
    BY DEF Nothing
  <1>2. e.type # "none"
    BY DEF Declared, RawStruct, MessageStructs, PeerStructs, PresenceStructs,
           OtherStructs, EditStructs, FlagsStructs, TypingStructs, PeerEvents
  <1> QED BY <1>1, <1>2

-----------------------------------------------------------------------------
(* On the way to the handlers *)

\* What is known of an event: what was read, or that with its sender named.
Understood(m, u, e) ==
    /\ Declared(e)
    /\ Truthful(m, u, e)
    /\ \A s \in Spellings : u = Wire(m, s) => Same(e, m)
    /\ SenderOf(m, e)

\* Naming the sender, or leaving it open, changes nothing else that is known of a
\* message.
LEMMA Renamed ==
  ASSUME NEW m, Documented(m), NEW u, NEW e, Understood(m, u, e), e.type = "Message",
         NEW from \in {0, m.sender}, NEW r, r = [e EXCEPT !.from = from]
  PROVE  Understood(m, u, r) /\ r.from = from /\ r.type = "Message"
  <1>1. m.type = "Message" /\ e \in MessageStructs /\ m \in NewMessages
    BY MessageMeant, MessageDeclared DEF Understood, SenderOf
  <1>2. /\ m.sender \in Int
        /\ DOMAIN m = {"type", "id", "flags", "peer", "date", "text", "extra",
                       "attachments", "random", "outgoing", "sender"}
    BY <1>1 DEF NewMessages
  <1>3. /\ DOMAIN r = DOMAIN e /\ "from" \in DOMAIN e
        /\ r.from = from
        /\ \A f \in DOMAIN e : f # "from" => r[f] = e[f]
    BY <1>1 DEF MessageStructs
  <1>4. r \in MessageStructs
    BY <1>1, <1>2 DEF MessageStructs
  <1>5. r.type = "Message" /\ r.outgoing = e.outgoing
    BY <1>1 DEF MessageStructs
  <1>6. Truthful(m, u, r)
    BY <1>1, <1>3, <1>5 DEF Understood, Truthful, Identity, LeftOpen
  <1>7. \A s \in Spellings : u = Wire(m, s) => Same(r, m)
    BY <1>2, <1>3 DEF Understood, Same
  <1> QED BY <1>1, <1>3, <1>4, <1>5, <1>6, <1>7 DEF Understood, Declared, SenderOf

-----------------------------------------------------------------------------
\* The poll goroutine works off the answer: at most one call for each update, and
\* only a message whose sender is named counts as hydrated.
Course ==
    /\ pc \in {"poll", "updates", "hydrate", "dispatch"}
    /\ left \in 0..MaxUpdates /\ calls \in Nat /\ user \in {0, Me} /\ full \in BOOLEAN
    /\ pc \in {"updates", "hydrate"} => left > 0 /\ calls <= MaxUpdates - left
    /\ pc = "dispatch" => left > 0 /\ calls <= MaxUpdates - left + 1
    /\ pc \in {"poll", "updates"} => means = Nothing /\ evt = Nothing
    /\ pc = "hydrate" => Hydrate /\ evt.type = "Message"
    /\ full => pc = "dispatch" /\ evt.type = "Message" /\ evt.from = means.sender

\* What is known of the event at hand, wherever it is on its way to the handlers.
AtHand == pc \in {"hydrate", "dispatch"} => means \in Meanings /\ Understood(means, update, evt)

Inv == Course /\ AtHand

\* No answer has come.
LEMMA InvInit == Init => Inv
  <1> SUFFICES ASSUME Init PROVE Inv
    OBVIOUS
  <1>1. MaxUpdates \in Nat \ {0}
    BY ParametersAssumption DEF Parameters
  <1>2. pc = "poll" /\ left = 0 /\ calls = 0 /\ user \in {0, Me} /\ full = FALSE
    BY DEF Init
  <1>3. means = Nothing /\ evt = Nothing
    BY DEF Init
  <1>4. left \in 0..MaxUpdates /\ calls \in Nat
    BY <1>1, <1>2
  <1>5. full \in BOOLEAN /\ ~full
    BY <1>2
  <1>6. Course
    BY <1>2, <1>3, <1>4, <1>5 DEF Course
  <1> QED BY <1>2, <1>6 DEF Inv, AtHand

\* Decode and handleUpdate: an update is understood, and the only sender that the
\* session is asked for is the user, who sent what is outgoing.
LEMMA TakeStep ==
  ASSUME Inv, Take
  PROVE  Inv'
  <1>1. PICK m \in Meanings, s \in Spellings, n \in 0..9 :
           means' = m /\ update' = Cut(Wire(m, s), n)
    BY DEF Take
  <1> DEFINE e == DecodeUpdate(update')
  <1>2. Documented(m) /\ (m.type = "Message" => (m.outgoing <=> m.sender = Me)) /\ Me # 0
    BY ParametersAssumption DEF Parameters
  <1>3. SenderOf(m, e) /\ Declared(e) /\ Truthful(m, update', e)
    <2>1. Part(update', Wire(m, s))
      BY <1>1 DEF Part, Cut
    <2> QED BY <1>2, <2>1, AllRead DEF Right
  <1>4. \A t \in Spellings : update' = Wire(m, t) => Same(e, m)
    <2> SUFFICES ASSUME NEW t \in Spellings, update' = Wire(m, t) PROVE Same(e, m)
      OBVIOUS
    <2>1. Part(update', Wire(m, t))
      BY DEF Part
    <2> QED BY <1>2, <2>1, AllRead DEF Right
  <1>5. evt' = Handled(e)
    BY DEF Take
  <1> HIDE DEF e
  <1>6. Understood(m, update', e)
    BY <1>3, <1>4 DEF Understood
  <1>7. Understood(m, update', evt') /\ evt'.type = e.type
    <2>1. CASE e.type = "Message" /\ Own(e)
      <3>1. user \in {0, m.sender}
        BY <1>2, <1>6, <2>1 DEF Inv, Course, Understood, SenderOf, Own
      <3>2. evt' = [e EXCEPT !.from = user]
        BY <1>5, <2>1 DEF Handled
      <3> QED BY <1>2, <1>6, <2>1, <3>1, <3>2, Renamed
    <2>2. CASE ~ (e.type = "Message" /\ Own(e))
      BY <1>5, <1>6, <2>2 DEF Handled
    <2> QED BY <2>1, <2>2
  <1>8. /\ pc = "updates" /\ full' = FALSE /\ UNCHANGED <<left, calls, user>>
        /\ pc' = IF evt'.type = "Message" /\ Hydrate THEN "hydrate" ELSE "dispatch"
    BY DEF Take
  <1>9. AtHand'
    BY <1>1, <1>7 DEF AtHand
  <1>10. Course'
    <2>1. MaxUpdates \in Nat /\ left \in 0..MaxUpdates /\ calls \in Nat
      BY ParametersAssumption DEF Parameters, Inv, Course
    <2>2. left > 0 /\ calls <= MaxUpdates - left
      BY <1>8 DEF Inv, Course
    <2>3. calls <= MaxUpdates - left + 1
      BY <2>1, <2>2
    <2>4. pc' \in {"hydrate", "dispatch"} /\ (pc' = "hydrate" => Hydrate /\ evt'.type = "Message")
      BY <1>8
    <2>5. user' \in {0, Me} /\ full' \in BOOLEAN /\ ~full'
      BY <1>8 DEF Inv, Course
    <2> QED BY <1>8, <2>1, <2>2, <2>3, <2>4, <2>5 DEF Course
  <1> QED BY <1>9, <1>10 DEF Inv

\* messages.getById names the sender, or it was known.
LEMMA HydratedStep ==
  ASSUME Inv, Hydrated
  PROVE  Inv'
  <1>1. /\ pc = "hydrate" /\ pc' = "dispatch" /\ full' = TRUE /\ calls' = calls + 1
        /\ evt' = IF evt.from = 0 THEN [evt EXCEPT !.from = means.sender] ELSE evt
        /\ UNCHANGED <<left, means, update, user>>
    BY DEF Hydrated
  <1>2. /\ means \in Meanings /\ Documented(means)
        /\ Understood(means, update, evt) /\ evt.type = "Message"
    BY <1>1, ParametersAssumption DEF Inv, AtHand, Course, Parameters
  <1>3. Understood(means, update, evt') /\ evt'.from = means.sender /\ evt'.type = "Message"
    <2>1. CASE evt.from = 0
      BY <1>1, <1>2, <2>1, Renamed
    <2>2. CASE evt.from # 0
      BY <1>1, <1>2, <2>2 DEF Understood, SenderOf
    <2> QED BY <2>1, <2>2
  <1>4. AtHand'
    BY <1>1, <1>2, <1>3 DEF AtHand
  <1>5. Course'
    <2>1. MaxUpdates \in Nat /\ left \in 0..MaxUpdates /\ calls \in Nat
      BY ParametersAssumption DEF Parameters, Inv, Course
    <2>2. left > 0 /\ calls <= MaxUpdates - left
      BY <1>1 DEF Inv, Course
    <2>3. calls + 1 \in Nat /\ calls + 1 <= MaxUpdates - left + 1
      BY <2>1, <2>2
    <2>4. user' \in {0, Me}
      BY <1>1 DEF Inv, Course
    <2>5. full' \in BOOLEAN
      BY <1>1
    <2>6. left' \in 0..MaxUpdates /\ left' > 0
      BY <1>1, <2>1, <2>2
    <2>7. calls' \in Nat /\ calls' <= MaxUpdates - left' + 1
      BY <1>1, <2>3
    <2>8. full' => pc' = "dispatch" /\ evt'.type = "Message" /\ evt'.from = means'.sender
      BY <1>1, <1>3
    <2> QED BY <1>1, <2>4, <2>5, <2>6, <2>7, <2>8 DEF Course
  <1> QED BY <1>4, <1>5 DEF Inv

\* The other steps leave the event alone or are through with it.
LEMMA OtherSteps ==
  ASSUME Inv, Answered \/ HydrateFails \/ Dispatch \/ UserChanges \/ UNCHANGED vars
  PROVE  Inv'
  <1> USE DEF Inv
  <1>1. CASE Answered
    <2>1. /\ pc = "poll" /\ pc' = "updates" /\ left' \in 1..MaxUpdates /\ calls' = 0
          /\ UNCHANGED <<means, update, evt, full, user>>
      BY <1>1 DEF Answered
    <2>2. /\ \A n \in 1..MaxUpdates : n \in 0..MaxUpdates /\ n > 0 /\ 0 <= MaxUpdates - n
          /\ 0 \in Nat
      BY ParametersAssumption DEF Parameters
    <2> QED BY <2>1, <2>2 DEF Course, AtHand
  <1>2. CASE HydrateFails
    <2>1. /\ pc = "hydrate" /\ pc' = "dispatch" /\ calls' = calls + 1
          /\ UNCHANGED <<left, means, update, evt, full, user>>
      BY <1>2 DEF HydrateFails
    <2>2. MaxUpdates \in Nat /\ left \in 0..MaxUpdates /\ calls \in Nat
      BY ParametersAssumption DEF Parameters, Course
    <2>3. left > 0 /\ calls <= MaxUpdates - left
      BY <2>1 DEF Course
    <2>4. calls + 1 \in Nat /\ calls + 1 <= MaxUpdates - left + 1
      BY <2>2, <2>3
    <2> QED BY <2>1, <2>2, <2>3, <2>4 DEF Course, AtHand
  <1>3. CASE Dispatch
    <2>1. /\ pc = "dispatch" /\ left' = left - 1 /\ means' = Nothing /\ evt' = Nothing
          /\ full' = FALSE /\ calls' = calls /\ user' = user
          /\ pc' = IF left = 1 THEN "poll" ELSE "updates"
      BY <1>3 DEF Dispatch
    <2>2. MaxUpdates \in Nat /\ left \in 0..MaxUpdates /\ calls \in Nat
      BY ParametersAssumption DEF Parameters, Course
    <2>3. left > 0 /\ calls <= MaxUpdates - left + 1
      BY <2>1 DEF Course
    <2>4. /\ left - 1 \in 0..MaxUpdates /\ calls <= MaxUpdates - (left - 1)
          /\ left # 1 => left - 1 > 0
      BY <2>2, <2>3
    <2> QED BY <2>1, <2>2, <2>4 DEF Course, AtHand
  <1>4. CASE UserChanges
    BY <1>4 DEF UserChanges, Course, AtHand
  <1>5. CASE UNCHANGED vars
    BY <1>5 DEF vars, Course, AtHand
  <1> QED BY <1>1, <1>2, <1>3, <1>4, <1>5

\* Inv holds in every reachable state.
LEMMA Invariance == Spec => []Inv
  <1>1. Inv /\ [Next]_vars => Inv'
    BY TakeStep, HydratedStep, OtherSteps DEF Next
  <1> QED BY InvInit, <1>1, PTL DEF Spec

-----------------------------------------------------------------------------
\* A message that the handlers get has its true sender or none, and its true one
\* once it was hydrated, whatever is cut off and however the user id of the session
\* comes and goes between the steps (decode.go 284-311, govka.go 385-415).
THEOREM SenderTrue == Spec => []NeverMisattributed
  <1>1. Inv => NeverMisattributed
    BY DEF Inv, Course, AtHand, Understood, SenderOf, NeverMisattributed
  <1> QED BY <1>1, Invariance, PTL

\* Every whole update, of any ids and flags, is read as the table of the
\* documentation lays it out, its numbers plain, quoted or with a fraction
\* (decode.go 14-311).
THEOREM ReadRight == Spec => []ReadAsDocumented
  <1>1. Inv => ReadAsDocumented
    BY DEF Inv, AtHand, Understood, Same, ReadAsDocumented
  <1> QED BY <1>1, Invariance, PTL

\* An update that is cut short comes out raw and complete, or as an event of its own
\* kind whose ids are the ones that were meant (decode.go 114-311), but for three that
\* are 0 when the update ends before them: the peer of changed flags, a Call's call
\* and what changed in a chat.
THEOREM NothingInvented == Spec => []NothingMadeUp
  <1>1. Inv => NothingMadeUp
    BY DEF Inv, AtHand, Understood, Truthful, NothingMadeUp
  <1> QED BY <1>1, Invariance, PTL

\* The handlers get structs of events.go with every field in its range, and an
\* answer costs at most one call for each of its updates (govka.go 400-415).
THEOREM Typed == Spec => []TypeOK
  <1>1. Inv => TypeOK
    <2> SUFFICES ASSUME Inv PROVE TypeOK
      OBVIOUS
    <2> USE DEF Inv, Course
    <2>1. pc \in {"hydrate", "dispatch"} <=> evt # Nothing
      BY SomeEvent DEF AtHand, Understood
    <2>2. means \in Meanings \cup {Nothing}
      BY DEF AtHand
    <2>3. pc # "poll" => calls <= MaxUpdates - left + 1
      BY ParametersAssumption DEF Parameters
    <2> QED BY <2>1, <2>2, <2>3 DEF TypeOK, AtHand, Understood
  <1> QED BY <1>1, Invariance, PTL
=============================================================================
