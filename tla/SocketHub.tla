----------------------------- MODULE SocketHub ------------------------------
(***************************************************************************)
(* A connection between a client's ServerBridge and the server's SocketHub *)
(* (SocketHub.cpp, ServerBridge.cpp).  TCP carries bytes; both ends put a  *)
(* length before each packet, collect what recv gives them in pieces of    *)
(* any size, and cut the packets out again.  The connections of a server   *)
(* share nothing but the poll, so one is enough here; BlockingSends has    *)
(* what happens when a send has to wait.                                   *)
(*                                                                         *)
(* A client may close while bytes are under way: the server still reads    *)
(* what was sent before, unless the connection is reset, which loses it.   *)
(***************************************************************************)
EXTENDS WireFormat

CONSTANTS
    Requests,       \* messages of a client
    Notices,        \* messages of the server
    Followers,      \* those of them that are sent when others have been sent
    MaxSent,        \* model bound: messages sent over the connection
    ReadSizes       \* model bound: the most bytes a recv returns, kTempReadSize or fewer

ASSUME MessagesAssumption ==
    /\ \A m \in Requests : IsMessage(m, RequestRead)
    /\ \A m \in Notices : IsMessage(m, NoticeRead)
    /\ MaxSent \in Nat /\ ReadSizes \subseteq Nat \ {0}

VARIABLES
    mConnected,         \* the client's end
    inHub,              \* the server's end: the connection is in mClients
    reset,
    up, down,           \* the bytes under way to the server and to the client
    receiveBuffer,      \* ClientState::receiveBuffer
    mReceiveBuffer,     \* of the ServerBridge
    requestsSent, requests,     \* sent by the client, received by the server
    noticesSent, notices        \* sent by the server, received by the client

upVars == <<up, receiveBuffer, requestsSent, requests>>
downVars == <<down, mReceiveBuffer, noticesSent, notices>>
hubVars == <<mConnected, inHub, reset, upVars, downVars>>

HeaderSize == 4

Init ==
    /\ mConnected = TRUE
    /\ inHub = TRUE
    /\ reset = FALSE
    /\ up = <<>> /\ receiveBuffer = <<>> /\ requestsSent = <<>> /\ requests = <<>>
    /\ down = <<>> /\ mReceiveBuffer = <<>> /\ noticesSent = <<>> /\ notices = <<>>

-----------------------------------------------------------------------------
(* Framing                                                                  *)

Framed(payload) == WriteUInt32(Len(payload)) \o payload

\* The size of the packet that begins the buffer, its header included.
PacketSize(buffer) == HeaderSize + ReadUInt32(buffer)

HasPacket(buffer) == Len(buffer) >= HeaderSize /\ Len(buffer) >= PacketSize(buffer)

Payload(buffer) == SubSeq(buffer, HeaderSize + 1, PacketSize(buffer))

WithoutPacket(buffer) == SubSeq(buffer, PacketSize(buffer) + 1, Len(buffer))

\* Mutant: one packet is taken per recv.
FirstPacket(buffer, bodies) ==
    IF HasPacket(buffer)
    THEN [messages |-> <<ReadPacket(Payload(buffer), bodies)>>, rest |-> WithoutPacket(buffer)]
    ELSE [messages |-> <<>>, rest |-> buffer]

\* A turn of the inner loop: a packet that is complete is taken out and decoded.
TakePacket(cut, bodies) ==
    IF ~HasPacket(cut.rest) THEN cut
    ELSE [messages |-> Append(cut.messages, ReadPacket(Payload(cut.rest), bodies)),
          rest     |-> WithoutPacket(cut.rest)]

\* The inner loop.  With a header to each packet, so many turns are enough.
CompletePackets(buffer, bodies) ==
    LET turns == Len(buffer) \div HeaderSize
        cut[turn \in 0..turns] ==
            IF turn = 0 THEN [messages |-> <<>>, rest |-> buffer]
                        ELSE TakePacket(cut[turn - 1], bodies)
    IN  cut[turns]

-----------------------------------------------------------------------------
(* Sending                                                                  *)

MaySend(m) ==
    /\ Len(requestsSent) + Len(noticesSent) < MaxSent
    /\ requestsSent # <<>> \/ noticesSent # <<>> => m \in Followers

\* What is sent to a peer that is gone, or over a connection that is, is lost.
SendPayload(m) ==
    /\ mConnected /\ MaySend(m)
    /\ requestsSent' = Append(requestsSent, m)
    /\ up' = IF inHub /\ ~reset THEN up \o Framed(MakePacket(m)) ELSE up
    /\ UNCHANGED <<mConnected, inHub, reset, receiveBuffer, requests, downVars>>

SendPacket(m) ==
    /\ inHub /\ MaySend(m)
    /\ noticesSent' = Append(noticesSent, m)
    /\ down' = IF mConnected /\ ~reset THEN down \o Framed(MakePacket(m)) ELSE down
    /\ UNCHANGED <<mConnected, inHub, reset, mReceiveBuffer, notices, upVars>>

-----------------------------------------------------------------------------
(* Receiving                                                                *)

\* A recv in ReceiveFromClients, and the cases of main.cpp that read its packets.
ReceiveFromClients(most) ==
    LET bytes  == SubSeq(up, 1, Min({most, Len(up)}))
        framed == CompletePackets(receiveBuffer \o bytes, RequestRead)
    IN  /\ inHub /\ up # <<>>
        /\ up' = SubSeq(up, Len(bytes) + 1, Len(up))
        /\ receiveBuffer' = framed.rest
        /\ requests' = requests \o framed.messages
        /\ UNCHANGED <<mConnected, inHub, reset, requestsSent, downVars>>

PollIncoming(most) ==
    LET bytes  == SubSeq(down, 1, Min({most, Len(down)}))
        framed == CompletePackets(mReceiveBuffer \o bytes, NoticeRead)
    IN  /\ mConnected /\ down # <<>>
        /\ down' = SubSeq(down, Len(bytes) + 1, Len(down))
        /\ mReceiveBuffer' = framed.rest
        /\ notices' = notices \o framed.messages
        /\ UNCHANGED <<mConnected, inHub, reset, noticesSent, upVars>>

-----------------------------------------------------------------------------
(* The end of a connection                                                  *)

\* ServerBridge::Disconnect, at the end of the stream or when the window closes.
\* A close with bytes unread is a reset.
Disconnect ==
    /\ mConnected
    /\ mConnected' = FALSE
    /\ down' = <<>> /\ mReceiveBuffer' = <<>>
    /\ \/ UNCHANGED <<up, reset>>
       \/ up' = <<>> /\ reset' = TRUE
    /\ UNCHANGED <<inHub, receiveBuffer, requestsSent, requests, noticesSent, notices>>

\* RemoveClient and the Disconnected event: recv has returned 0 or an error.
RemoveClient ==
    /\ inHub /\ up = <<>> /\ (~mConnected \/ reset)
    /\ inHub' = FALSE
    /\ receiveBuffer' = <<>>
    /\ UNCHANGED <<mConnected, reset, up, requestsSent, requests, downVars>>

\* The network gives the connection up.
Reset ==
    /\ ~reset
    /\ reset' = TRUE
    /\ up' = <<>> /\ down' = <<>>
    /\ UNCHANGED <<mConnected, inHub, receiveBuffer, requestsSent, requests,
                   mReceiveBuffer, noticesSent, notices>>

Receive == \E most \in ReadSizes : ReceiveFromClients(most)
Poll == \E most \in ReadSizes : PollIncoming(most)

Next ==
    \/ \E m \in Requests : SendPayload(m)
    \/ \E m \in Notices : SendPacket(m)
    \/ Receive \/ Poll
    \/ Disconnect \/ RemoveClient \/ Reset

Spec == Init /\ [][Next]_hubVars

-----------------------------------------------------------------------------
(* Properties                                                               *)

RequestStream == INSTANCE MessageStream WITH
    Messages <- Requests, sent <- requestsSent, received <- requests, ended <- ~inHub

NoticeStream == INSTANCE MessageStream WITH
    Messages <- Notices, sent <- noticesSent, received <- notices, ended <- ~mConnected

\* However the bytes are cut up, the server reads the requests of a client as
\* they were written, in their order, and none after it has dropped the client.
RequestsInOrder == RequestStream!Spec

\* The same for what the server sends to a client.
NoticesInOrder == NoticeStream!Spec

\* Nothing stays behind in a buffer: when the bytes that were sent have been
\* read, everything sent has been received, what was sent just before a client
\* closed included, unless the connection was reset or its reader has closed.
NothingStaysBehind ==
    /\ up = <<>> /\ ~reset => requests = requestsSent
    /\ down = <<>> /\ ~reset /\ mConnected => notices = noticesSent

=============================================================================
