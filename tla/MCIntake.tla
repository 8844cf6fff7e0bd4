------------------------------ MODULE MCIntake ------------------------------
EXTENDS Intake, TLC

\* Every position of an update has a number of its own.
ChatPeer == ChatPeerOffset + 5
From(n) == "from" :> {n}
Title == "title" :> {}
Photo == "attach1" :> {}

NewMessage(flags, peer, extra, sender) ==
    [type |-> "Message", id |-> 11, flags |-> flags, peer |-> peer, date |-> {900},
     text |-> "words", extra |-> extra, attachments |-> Photo, random |-> 33,
     outgoing |-> sender = Me, sender |-> sender]

Messages == {NewMessage(1, 42, Title, 42),
             NewMessage(3, 42, Title, Me),
             NewMessage(1, -8, <<>>, -8),
             NewMessage(561, ChatPeer, From(77), 77),
             NewMessage(3, ChatPeer, From(Me), Me)}

Flags == {[type |-> "MessageFlags", op |-> op, id |-> 11, flags |-> 128, peer |-> p,
           date |-> {}, text |-> NoText, extra |-> <<>>, attachments |-> <<>>] :
                op \in {"replace", "set", "reset"}, p \in {0, 42}}
         \cup {[type |-> "MessageFlags", op |-> "set", id |-> 11, flags |-> 128, peer |-> 42,
                date |-> {900}, text |-> "words", extra |-> Title, attachments |-> Photo],
               [type |-> "MessageEdit", id |-> 11, flags |-> 1, peer |-> 42, date |-> {900},
                text |-> "words", attachments |-> Photo]}

Peers == {[type |-> t, peer |-> 42, local |-> 100] :
            t \in {"ReadInbox", "ReadOutbox", "MessagesDeleted", "MessagesRestored",
                   "MajorID", "MinorID"}}
         \cup {[type |-> "DialogFlags", op |-> op, peer |-> 42, flags |-> 2] :
                    op \in {"replace", "set", "reset"}}

Others == {[type |-> "UserOnline", user |-> 7, platform |-> 4, time |-> 900],
           [type |-> "UserOffline", user |-> 7, timeout |-> TRUE, time |-> 900],
           [type |-> "ChatChanged", chat |-> 5, self |-> TRUE],
           [type |-> "ChatInfo", typ |-> 6, peer |-> ChatPeer, info |-> 77],
           [type |-> "Typing", voice |-> FALSE, peer |-> 42, users |-> <<42>>,
            total |-> 0, time |-> {}],
           [type |-> "Typing", voice |-> FALSE, peer |-> ChatPeer, users |-> <<77>>,
            total |-> 0, time |-> {}],
           [type |-> "Typing", voice |-> TRUE, peer |-> ChatPeer, users |-> <<77, 78>>,
            total |-> 2, time |-> {900}],
           [type |-> "Typing", voice |-> FALSE, peer |-> ChatPeer, users |-> <<77, 78>>,
            total |-> 3, time |-> {900}],
           [type |-> "Call", user |-> 7, call |-> 12],
           [type |-> "Counter", count |-> 3],
           [type |-> "NotificationSettings", peer |-> 42, sound |-> TRUE, until |-> -1]}

All == Messages \cup Flags \cup Peers \cup Others
=============================================================================
