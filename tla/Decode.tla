------------------------------- MODULE Decode -------------------------------
(***************************************************************************)
(* How one positional update of the long poll becomes an event             *)
(* (longpoll/decode.go).                                                   *)
(*                                                                         *)
(* An update is a function from positions to fields; position 0 has the    *)
(* code.  A field is what the decoder can tell apart: its kind, the number *)
(* it is or spells (floats cut to whole numbers), the elements of a list,  *)
(* the pairs of an object.  The string of a pair is the set of the number  *)
(* it spells: empty when it spells none.                                   *)
(***************************************************************************)
EXTENDS Integers, Sequences, FiniteSets

\* The kinds of a field that is or spells a number.
Spellings == {"number", "quoted", "fraction"}

Field(kind, n, list, map) == [kind |-> kind, n |-> n, list |-> list, map |-> map]

Spelt(n, spelling) == Field(spelling, n, <<>>, <<>>)
Words == Field("words", 0, <<>>, <<>>)
List(fields) == Field("list", 0, fields, <<>>)
Object(map) == Field("object", 0, <<>>, map)

ChatPeerOffset == 2000000000

FlagOutbox == 2
Outgoing(flags) == (flags \div FlagOutbox) % 2 = 1

-----------------------------------------------------------------------------
(* The accessors of update; an option is a set of at most one value *)

Numeric(field) == field.kind \in Spellings

IsInt(u, i) == i \in DOMAIN u /\ Numeric(u[i])

Ints(u, positions) == \A i \in positions : IsInt(u, i)

\* The value, or 0 where the callers ignore that there is none.
int(u, i) == IF IsInt(u, i) THEN u[i].n ELSE 0

optional(u, i) == IF IsInt(u, i) THEN {u[i].n} ELSE {}

NoText == ""

str(u, i) == IF i \notin DOMAIN u THEN NoText ELSE u[i].kind

\* The places of the numbers in a list, and which of them comes k-th.
NumberPlaces(list) == {k \in DOMAIN list : Numeric(list[k])}
Place(list, k) ==
    CHOOSE p \in NumberPlaces(list) :
        Cardinality({q \in NumberPlaces(list) : q <= p}) = k

\* Elements that are no numbers are left out.
ints(u, i) ==
    IF i \in DOMAIN u /\ u[i].kind = "list"
    THEN LET list == u[i].list
         IN [k \in 1..Cardinality(NumberPlaces(list)) |-> list[Place(list, k)].n]
    ELSE <<>>

\* An empty object is no object.
object(u, i) == IF i \in DOMAIN u /\ u[i].kind = "object" THEN u[i].map ELSE <<>>

\* ParseInt of a pair, 0 if there is none.
parsed(map, key) ==
    IF key \in DOMAIN map /\ map[key] # {} THEN CHOOSE n \in map[key] : TRUE ELSE 0

-----------------------------------------------------------------------------
(* The events *)

Required(code) ==
    CASE code \in {1, 2, 3, 6, 7} \cup 10..14 \cup {20, 21, 52, 62} -> {1, 2}
      [] code = 4 -> {1, 2, 3}
      [] code = 5 -> {1, 3}
      [] code \in {8, 9, 51, 61, 70, 80} -> {1}
      [] code \in {63, 64} -> {2}
      [] OTHER -> {}

Known == 1..14 \cup {20, 21, 51, 52, 61, 62, 63, 64, 70, 80, 114}

\* Fault: the operations of events 10 and 11 are those of 1 and 2.
FlagsOp_Alike(code) ==
    CASE code \in {1, 10} -> "replace" [] code \in {2, 11} -> "set" [] OTHER -> "reset"

FlagsOp(code) ==
    CASE code \in {1, 11} -> "replace" [] code \in {2, 12} -> "set" [] OTHER -> "reset"

\* Events 1 to 3: peer, date and text are there or not.
MessageFlags(code, u) ==
    LET whole == 5 \in DOMAIN u
    IN [type |-> "MessageFlags", op |-> FlagsOp(code), id |-> int(u, 1),
        flags |-> int(u, 2), peer |-> int(u, 3), date |-> optional(u, 4),
        text |-> IF whole THEN str(u, 5) ELSE NoText,
        extra |-> IF whole THEN object(u, 6) ELSE <<>>,
        attachments |-> IF whole THEN object(u, 7) ELSE <<>>]

\* extra["from"], or the peer of a private incoming message, or not known.
Sender(from, flags, peer) ==
    IF from # 0 THEN from
    ELSE IF ~Outgoing(flags) /\ peer < ChatPeerOffset THEN peer ELSE 0

Message(u) ==
    [type |-> "Message", id |-> int(u, 1), flags |-> int(u, 2), peer |-> int(u, 3),
     date |-> {int(u, 4)}, text |-> str(u, 5), extra |-> object(u, 6),
     attachments |-> object(u, 7), random |-> int(u, 8),
     outgoing |-> Outgoing(int(u, 2)),
     from |-> Sender(parsed(object(u, 6), "from"), int(u, 2), int(u, 3))]

MessageEdit(u) ==
    [type |-> "MessageEdit", id |-> int(u, 1), flags |-> int(u, 2), peer |-> int(u, 3),
     date |-> {int(u, 4)}, text |-> str(u, 5), attachments |-> object(u, 6)]

\* The events of a peer and a number: 6, 7, 13, 14, 20 and 21.
PeerEvents ==
    [code \in {6, 7, 13, 14, 20, 21} |->
        CASE code = 6 -> "ReadInbox" [] code = 7 -> "ReadOutbox"
          [] code = 13 -> "MessagesDeleted" [] code = 14 -> "MessagesRestored"
          [] code = 20 -> "MajorID" [] code = 21 -> "MinorID"]
PeerEvent(code, u) == [type |-> PeerEvents[code], peer |-> int(u, 1), local |-> int(u, 2)]

\* Fault: the platform is the whole extra field.
Presence_Wide(code, u) ==
    IF code = 8
    THEN [type |-> "UserOnline", user |-> -int(u, 1), platform |-> int(u, 2), time |-> int(u, 3)]
    ELSE [type |-> "UserOffline", user |-> -int(u, 1), timeout |-> int(u, 2) = 1,
          time |-> int(u, 3)]

\* User ids come with a minus sign; the platform is the low byte of the extra
\* field.
Presence(code, u) ==
    IF code = 8
    THEN [type |-> "UserOnline", user |-> -int(u, 1), platform |-> int(u, 2) % 256,
          time |-> int(u, 3)]
    ELSE [type |-> "UserOffline", user |-> -int(u, 1), timeout |-> int(u, 2) = 1,
          time |-> int(u, 3)]

DialogFlags(code, u) ==
    [type |-> "DialogFlags", op |-> FlagsOp(code), peer |-> int(u, 1), flags |-> int(u, 2)]

ChatEvent(code, u) ==
    IF code = 51 THEN [type |-> "ChatChanged", chat |-> int(u, 1), self |-> int(u, 2) = 1]
    ELSE [type |-> "ChatInfo", typ |-> int(u, 1), peer |-> int(u, 2), info |-> int(u, 3)]

\* A time of zero is the time of arrival, as it is for events 61 and 62.
Typing(code, u) ==
    [type |-> "Typing", voice |-> code = 64,
     peer |-> CASE code = 61 -> int(u, 1)
                [] code = 62 -> ChatPeerOffset + int(u, 2)
                [] OTHER -> int(u, 2),
     users |-> IF code \in {61, 62} THEN <<int(u, 1)>> ELSE ints(u, 1),
     total |-> IF code \in {61, 62} THEN 0 ELSE int(u, 3),
     time |-> IF code \in {61, 62} \/ int(u, 4) <= 0 THEN {} ELSE {int(u, 4)}]

NotificationSettings(u) ==
    LET o == object(u, 1)
    IN [type |-> "NotificationSettings", peer |-> parsed(o, "peer_id"),
        sound |-> parsed(o, "sound") = 1, until |-> parsed(o, "disabled_until")]

Raw(code, u) == [type |-> "RawUpdate", code |-> code, raw |-> u]

\* Fault: the fields are read without a look at how many there are.
Complete_Unchecked(code, u) == code \in Known

\* Anything else comes out raw.
Complete(code, u) ==
    /\ code \in Known
    /\ Ints(u, Required(code))
    /\ code = 114 => object(u, 1) # <<>>

decode(code, u) ==
    CASE code \in 1..3 -> MessageFlags(code, u)
      [] code = 4 -> Message(u)
      [] code = 5 -> MessageEdit(u)
      [] code \in DOMAIN PeerEvents -> PeerEvent(code, u)
      [] code \in {8, 9} -> Presence(code, u)
      [] code \in 10..12 -> DialogFlags(code, u)
      [] code \in {51, 52} -> ChatEvent(code, u)
      [] code \in 61..64 -> Typing(code, u)
      [] code = 70 -> [type |-> "Call", user |-> int(u, 1), call |-> int(u, 2)]
      [] code = 80 -> [type |-> "Counter", count |-> int(u, 1)]
      [] code = 114 -> NotificationSettings(u)

\* What is no array, or is empty, is an update without fields, and has no code.
DecodeUpdate(u) ==
    LET code == int(u, 0)
    IN CASE ~IsInt(u, 0) -> Raw(0, u)
         [] IsInt(u, 0) /\ ~Complete(code, u) -> Raw(code, u)
         [] OTHER -> decode(code, u)

-----------------------------------------------------------------------------
(* The structs that the handlers switch on (events/events.go) *)

Ops == {"replace", "set", "reset"}

\* Strings by name, as far as they spell numbers.
Pairs == [{"title"} -> SUBSET Int] \cup [{"from"} -> SUBSET Int]
         \cup [{"attach1"} -> SUBSET Int] \cup {<<>>}

\* What str makes of a field.
Strings == Spellings \cup {NoText, "words", "list", "object"}

\* New, edited and flagged messages.
MessageStructs ==
    [type : {"Message"}, id : Int, flags : Int, peer : Int, date : SUBSET Int, text : Strings,
     extra : Pairs, attachments : Pairs, random : Int, outgoing : BOOLEAN, from : Int]
EditStructs ==
    [type : {"MessageEdit"}, id : Int, flags : Int, peer : Int, date : SUBSET Int,
     text : Strings, attachments : Pairs]
FlagsStructs ==
    [type : {"MessageFlags"}, op : Ops, id : Int, flags : Int, peer : Int,
     date : SUBSET Int, text : Strings, extra : Pairs, attachments : Pairs]

\* What happens to conversations and who is there.
PeerStructs ==
    [type : {PeerEvents[code] : code \in DOMAIN PeerEvents}, peer : Int, local : Int]
    \cup [type : {"DialogFlags"}, op : Ops, peer : Int, flags : Int]
    \cup [type : {"ChatChanged"}, chat : Int, self : BOOLEAN]
    \cup [type : {"ChatInfo"}, typ : Int, peer : Int, info : Int]
PresenceStructs ==
    [type : {"UserOnline"}, user : Int, platform : 0..255, time : Int]
    \cup [type : {"UserOffline"}, user : Int, timeout : BOOLEAN, time : Int]
TypingStructs ==
    [type : {"Typing"}, voice : BOOLEAN, peer : Int, users : Seq(Int), total : Int,
     time : SUBSET Int]

OtherStructs ==
    [type : {"Call"}, user : Int, call : Int]
    \cup [type : {"Counter"}, count : Int]
    \cup [type : {"NotificationSettings"}, peer : Int, sound : BOOLEAN, until : Int]

RawStruct(e) == DOMAIN e = {"type", "code", "raw"} /\ e.type = "RawUpdate" /\ e.code \in Int

Declared(e) ==
    \/ e \in MessageStructs \cup EditStructs \cup FlagsStructs
    \/ e \in PeerStructs \cup PresenceStructs \cup TypingStructs \cup OtherStructs
    \/ RawStruct(e)
=============================================================================
