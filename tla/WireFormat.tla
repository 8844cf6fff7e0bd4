----------------------------- MODULE WireFormat -----------------------------
(***************************************************************************)
(* The server's side of the long poll: how it lays the events out in       *)
(* positions (docs/research/user-longpoll-and-messages.md 37-60), written  *)
(* from that table as the reference for Decode.  A meaning is what the     *)
(* server wants to say; a message also has its true sender.                *)
(***************************************************************************)
EXTENDS Decode

-----------------------------------------------------------------------------
(* What the server means *)

\* There is exactly one time.
Dated(m) == \E t \in m.date : m.date = {t}

\* A new message comes with its time and its text.  The object of a message in
\* a chat may name the sender; a private message that comes in is from its peer.
NewMessages ==
    {m \in [type : {"Message"}, id : Int, flags : Int, peer : Int, date : SUBSET Int,
            text : {"words"}, extra : Pairs, attachments : Pairs, random : Int,
            outgoing : BOOLEAN, sender : Int] :
        /\ Dated(m)
        /\ m.outgoing = Outgoing(m.flags)
        /\ "from" \in DOMAIN m.extra => m.extra["from"] = {m.sender}
        /\ ~m.outgoing /\ m.peer < ChatPeerOffset => m.sender = m.peer}

Edits == {m \in EditStructs : Dated(m) /\ m.text = "words"}

\* The fields that may be missing are missing from the end.
FlagChanges ==
    {m \in FlagsStructs :
        /\ m.peer = 0 => m.date = {}
        /\ m.date = {} => m.text = NoText
        /\ m.date # {} => Dated(m)
        /\ m.text \in {NoText, "words"}
        /\ m.text = NoText => m.extra = <<>> /\ m.attachments = <<>>}

\* Without a time there is one user, in a private conversation the peer itself.
Typings ==
    {m \in TypingStructs :
        IF m.time = {}
        THEN /\ ~m.voice /\ m.total = 0 /\ Len(m.users) = 1
             /\ m.peer < ChatPeerOffset => m.users = <<m.peer>>
        ELSE \E t \in m.time : m.time = {t} /\ t > 0}

Documented(m) ==
    \/ m \in NewMessages \cup Edits \cup FlagChanges \cup Typings
    \/ m \in PeerStructs \cup PresenceStructs \cup OtherStructs

-----------------------------------------------------------------------------
(* How it is laid out *)

Fields(seq) == [i \in 0..(Len(seq) - 1) |-> seq[i + 1]]

Codes == [replace |-> 1, set |-> 2, reset |-> 3]
DialogCodes == [reset |-> 10, replace |-> 11, set |-> 12]

\* The extra field of event 8: the platform is its low byte.
Extra(platform) == 3 * 256 + platform

\* The numbers of a meaning, in the order of the table, after the code.
Numbers(m) ==
    CASE m.type = "ReadInbox" -> <<6, m.peer, m.local>>
      [] m.type = "ReadOutbox" -> <<7, m.peer, m.local>>
      [] m.type = "UserOnline" -> <<8, -m.user, Extra(m.platform), m.time>>
      [] m.type = "UserOffline" -> <<9, -m.user, IF m.timeout THEN 1 ELSE 0, m.time>>
      [] m.type = "DialogFlags" -> <<DialogCodes[m.op], m.peer, m.flags>>
      [] m.type = "MessagesDeleted" -> <<13, m.peer, m.local>>
      [] m.type = "MessagesRestored" -> <<14, m.peer, m.local>>
      [] m.type = "MajorID" -> <<20, m.peer, m.local>>
      [] m.type = "MinorID" -> <<21, m.peer, m.local>>
      [] m.type = "ChatChanged" -> <<51, m.chat, IF m.self THEN 1 ELSE 0>>
      [] m.type = "ChatInfo" -> <<52, m.typ, m.peer, m.info>>
      [] m.type = "Call" -> <<70, m.user, m.call>>
      [] m.type = "Counter" -> <<80, m.count, 0>>

Spell(numbers, spelling) == [i \in DOMAIN numbers |-> Spelt(numbers[i], spelling)]

Time(times) == IF times = {} THEN 0 ELSE CHOOSE t \in times : TRUE

\* Text, extra fields and attachments follow the numbers of a message.
Layout(m, spelling) ==
    LET num(n) == Spelt(n, spelling)
    IN CASE m.type = "Message" ->
            <<num(4), num(m.id), num(m.flags), num(m.peer), num(Time(m.date)),
              Words, Object(m.extra), Object(m.attachments), num(m.random)>>
         [] m.type = "MessageEdit" ->
            <<num(5), num(m.id), num(m.flags), num(m.peer), num(Time(m.date)),
              Words, Object(m.attachments), num(0)>>
         [] m.type = "MessageFlags" ->
            <<num(Codes[m.op]), num(m.id), num(m.flags), num(m.peer), num(Time(m.date)),
              Words, Object(m.extra), Object(m.attachments)>>
         [] m.type = "Typing" /\ m.time # {} ->
            <<num(IF m.voice THEN 64 ELSE 63), List(Spell(m.users, spelling)),
              num(m.peer), num(m.total), num(Time(m.time))>>
         [] m.type = "Typing" /\ m.time = {} ->
            Spell(IF m.peer >= ChatPeerOffset
                  THEN <<62, m.users[1], m.peer - ChatPeerOffset>>
                  ELSE <<61, m.users[1], 1>>, spelling)
         [] m.type = "NotificationSettings" ->
            <<num(114),
              Object([peer_id |-> {m.peer}, disabled_until |-> {m.until},
                      sound |-> {IF m.sound THEN 1 ELSE 0}])>>
         [] OTHER -> Spell(Numbers(m), spelling)

\* The first n fields.
Cut(u, n) == [i \in {j \in DOMAIN u : j < n} |-> u[i]]

\* How much there is of a message whose flags change.
Told(m) == CASE m.peer = 0 -> 3
             [] m.peer # 0 /\ m.date = {} -> 4
             [] m.peer # 0 /\ m.date # {} /\ m.text = NoText -> 5
             [] OTHER -> 8

Wire(m, spelling) ==
    LET whole == Fields(Layout(m, spelling))
    IN IF m.type = "MessageFlags" THEN Cut(whole, Told(m)) ELSE whole
=============================================================================
