----------------------------- MODULE WireFormat -----------------------------
(***************************************************************************)
(* The packets, Shared/WireFormat.cpp.  Sender and receiver have no format *)
(* in common: each field is written by one function and read back by       *)
(* another, in the order in which both happen to name the fields.  The     *)
(* tables below are those two orders, taken from the writing and from the  *)
(* reading functions, and the operators write and read what they name.     *)
(*                                                                         *)
(* A byte is a digit of base Base, a string a sequence of bytes, an enum   *)
(* an unsigned byte.  The average of a history row travels as a text, its  *)
(* six decimals, which is what it is here.                                 *)
(***************************************************************************)
EXTENDS Integers, SequencesExt

CONSTANTS
    Base,           \* the values of a byte, 256 in the code
    BoardSize       \* RuleBook::BOARD_SIZE

ASSUME FormatAssumption == Base \in Nat /\ Base >= 7 /\ BoardSize \in Nat

\* The enumerators after Invalid, which is 0.
PacketKinds == <<
    "SignUpRequest", "SignInRequest", "CreateRoomRequest", "JoinRoomRequest",
    "LeaveRoomRequest", "ReadyToggleRequest", "SubmitCellRequest", "TogglePlayAgainRequest",
    "UseHintRequest", "HistoryRequest", "RequestPublicRoomList", "SearchUserRequest",
    "SendGlobalChatMessage", "SendRoomChatMessage", "SendPrivateMessage", "SendFriendRequest",
    "RespondFriendRequest", "RequestFriendsList", "RequestPendingFriendRequests",
    "AuthResponse", "RoomJoinedResponse", "LeaveRoomResponse", "RoomClosedNotice",
    "WaitingRoomUpdate", "CountdownStarted", "MatchStarted", "CellCheckedResponse",
    "CellClaimUpdateNotice", "MatchStateUpdate", "LeaderboardUpdate", "HintUnlockedNotice",
    "HistoryResponse", "RoundFinishedNotice", "PublicRoomListResponse", "SearchUserResponse",
    "ErrorNotice", "GlobalChatMessageReceived", "RoomChatMessageReceived",
    "PrivateMessageReceived", "FriendRequestReceived", "FriendRequestResponse",
    "FriendsListResponse", "PendingFriendRequestsResponse" >>

KindNumber(kind) == CHOOSE i \in DOMAIN PacketKinds : PacketKinds[i] = kind

-----------------------------------------------------------------------------
(* The fields of a structure, as Write... and as Read... name them          *)

Puzzle == [i \in 1..(2 * BoardSize * BoardSize) |-> "int32"]

WriteStruct == [
    AuthRequest |-> <<"string", "string">>,
    AuthResponse |-> <<"bool", "int32", "string">>,
    CreateRoomRequest |-> <<"int32", "uint8">>,
    JoinRoomRequest |-> <<"int32">>,
    RoomJoinedResponse |-> <<"bool", "int32", "int32", "string">>,
    LeaveRoomResponse |-> <<"bool", "string">>,
    CellInputRequest |-> <<"int32", "int32", "int32">>,
    CellResult |-> <<"int32", "int32", "int32", "int32", "bool", "bool", "int32", "uint8">>,
    CellClaimUpdate |-> <<"int32", "int32", "uint8">>,
    HintRequest |-> <<"int32", "int32">>,
    HintState |-> <<"bool", "int32">>,
    UserSearchResult |-> <<"bool", "string", "string">>,
    FriendRequestPayload |-> <<"string">>,
    FriendRequestDecision |-> <<"string", "bool">>,
    FriendInfo |-> <<"string">>,
    PrivateMessagePayload |-> <<"string", "string">>,
    PrivateChatMessage |-> <<"string", "string", "string", "string">>,
    ChatMessage |-> <<"string", "string", "string">>,
    MatchHistoryRow |-> <<"string", "string", "int32", "int32", "int32", "int32", "string",
                          "int32", "int32">>,
    PublicRoomInfo |-> <<"int32", "int32", "int32", "string">>,
    PlayerScoreInfo |-> <<"int32", "string", "int32", "int32", "bool", "bool", "bool", "bool",
                          "int32", "uint8">>,
    RoomSnapshot |-> <<"int32", "bool", "PlayerScoreList">> ]

\* Mutant: the reader takes the visibility first.
ReadStructVisibilityFirst ==
    [WriteStruct EXCEPT !.CreateRoomRequest = <<"uint8", "int32">>]

ReadStruct == [
    AuthRequest |-> <<"string", "string">>,
    AuthResponse |-> <<"bool", "int32", "string">>,
    CreateRoomRequest |-> <<"int32", "uint8">>,
    JoinRoomRequest |-> <<"int32">>,
    RoomJoinedResponse |-> <<"bool", "int32", "int32", "string">>,
    LeaveRoomResponse |-> <<"bool", "string">>,
    CellInputRequest |-> <<"int32", "int32", "int32">>,
    CellResult |-> <<"int32", "int32", "int32", "int32", "bool", "bool", "int32", "uint8">>,
    CellClaimUpdate |-> <<"int32", "int32", "uint8">>,
    HintRequest |-> <<"int32", "int32">>,
    HintState |-> <<"bool", "int32">>,
    UserSearchResult |-> <<"bool", "string", "string">>,
    FriendRequestPayload |-> <<"string">>,
    FriendRequestDecision |-> <<"string", "bool">>,
    FriendInfo |-> <<"string">>,
    PrivateMessagePayload |-> <<"string", "string">>,
    PrivateChatMessage |-> <<"string", "string", "string", "string">>,
    ChatMessage |-> <<"string", "string", "string">>,
    MatchHistoryRow |-> <<"string", "string", "int32", "int32", "int32", "int32", "string",
                          "int32", "int32">>,
    PublicRoomInfo |-> <<"int32", "int32", "int32", "string">>,
    PlayerScoreInfo |-> <<"int32", "string", "int32", "int32", "bool", "bool", "bool", "bool",
                          "int32", "uint8">>,
    RoomSnapshot |-> <<"int32", "bool", "PlayerScoreList">> ]

\* The structures that are sent in lists.
ItemOf == [FriendList |-> "FriendInfo", PublicRoomList |-> "PublicRoomInfo",
           MatchHistory |-> "MatchHistoryRow", PlayerScoreList |-> "PlayerScoreInfo"]

-----------------------------------------------------------------------------
(* What follows the kind in a packet: nothing, a value, a structure, a list *)

\* The Make...Packet functions.
BodySent == [
    SignUpRequest |-> "AuthRequest", SignInRequest |-> "AuthRequest",
    CreateRoomRequest |-> "CreateRoomRequest", JoinRoomRequest |-> "JoinRoomRequest",
    LeaveRoomRequest |-> "none", ReadyToggleRequest |-> "bool",
    SubmitCellRequest |-> "CellInputRequest", TogglePlayAgainRequest |-> "bool",
    UseHintRequest |-> "HintRequest", HistoryRequest |-> "none",
    RequestPublicRoomList |-> "none", SearchUserRequest |-> "string",
    SendRoomChatMessage |-> "string", SendPrivateMessage |-> "PrivateMessagePayload",
    SendFriendRequest |-> "FriendRequestPayload",
    RespondFriendRequest |-> "FriendRequestDecision",
    RequestFriendsList |-> "none", RequestPendingFriendRequests |-> "none",
    AuthResponse |-> "AuthResponse", RoomJoinedResponse |-> "RoomJoinedResponse",
    LeaveRoomResponse |-> "LeaveRoomResponse", RoomClosedNotice |-> "string",
    WaitingRoomUpdate |-> "RoomSnapshot", MatchStarted |-> "PuzzleData",
    CellCheckedResponse |-> "CellResult", CellClaimUpdateNotice |-> "CellClaimUpdate",
    LeaderboardUpdate |-> "PlayerScoreList", HintUnlockedNotice |-> "HintState",
    HistoryResponse |-> "MatchHistory", RoundFinishedNotice |-> "string",
    PublicRoomListResponse |-> "PublicRoomList", SearchUserResponse |-> "UserSearchResult",
    ErrorNotice |-> "string", RoomChatMessageReceived |-> "ChatMessage",
    PrivateMessageReceived |-> "PrivateChatMessage", FriendRequestReceived |-> "FriendInfo",
    FriendRequestResponse |-> "string", FriendsListResponse |-> "FriendList",
    PendingFriendRequestsResponse |-> "FriendList" ]

\* What the cases of the server's switch read of a request.
RequestRead == [
    SignUpRequest |-> "AuthRequest", SignInRequest |-> "AuthRequest",
    CreateRoomRequest |-> "CreateRoomRequest", JoinRoomRequest |-> "JoinRoomRequest",
    LeaveRoomRequest |-> "none", ReadyToggleRequest |-> "bool",
    SubmitCellRequest |-> "CellInputRequest", TogglePlayAgainRequest |-> "bool",
    UseHintRequest |-> "HintRequest", HistoryRequest |-> "none",
    RequestPublicRoomList |-> "none", SearchUserRequest |-> "string",
    SendRoomChatMessage |-> "string", SendPrivateMessage |-> "PrivateMessagePayload",
    SendFriendRequest |-> "FriendRequestPayload",
    RespondFriendRequest |-> "FriendRequestDecision",
    RequestFriendsList |-> "none", RequestPendingFriendRequests |-> "none" ]

\* What ServerBridge::DecodePacket reads of a notice.
NoticeRead == [
    AuthResponse |-> "AuthResponse", RoomJoinedResponse |-> "RoomJoinedResponse",
    LeaveRoomResponse |-> "LeaveRoomResponse", RoomClosedNotice |-> "string",
    WaitingRoomUpdate |-> "RoomSnapshot", MatchStarted |-> "PuzzleData",
    CellCheckedResponse |-> "CellResult", CellClaimUpdateNotice |-> "CellClaimUpdate",
    LeaderboardUpdate |-> "PlayerScoreList", HintUnlockedNotice |-> "HintState",
    RoomChatMessageReceived |-> "ChatMessage", SearchUserResponse |-> "UserSearchResult",
    FriendRequestReceived |-> "FriendInfo", FriendRequestResponse |-> "string",
    FriendsListResponse |-> "FriendList", PendingFriendRequestsResponse |-> "FriendList",
    PrivateMessageReceived |-> "PrivateChatMessage",
    PublicRoomListResponse |-> "PublicRoomList", HistoryResponse |-> "MatchHistory",
    RoundFinishedNotice |-> "string", CountdownStarted |-> "none", ErrorNotice |-> "string" ]

FieldsOf(body, struct) ==
    CASE body = "none"           -> <<>>
      [] body = "PuzzleData"     -> Puzzle
      [] body \in DOMAIN struct  -> struct[body]
      [] OTHER                   -> <<body>>

-----------------------------------------------------------------------------
(* The values of a field: those its C++ type has                            *)

Bytes == 0..(Base - 1)

\* The numbers of two and of four bytes.
Word16 == Base * Base
Word32 == Word16 * Word16

IsSeq(s) == Len(s) \in Nat /\ s = [i \in 1..Len(s) |-> s[i]]

IsValue(type, value) ==
    \/ type = "bool" /\ value \in {0, 1}
    \/ type = "uint8" /\ value \in Bytes
    \/ type = "int32" /\ value \in (Word32 \div 2 - Word32)..(Word32 \div 2 - 1)
    \/ type = "string" /\ value \in Seq(Bytes) /\ Len(value) < Word32

AreValues(types, values) ==
    /\ IsSeq(values) /\ Len(values) = Len(types)
    /\ \A i \in DOMAIN types : IsValue(types[i], values[i])

IsField(type, value) ==
    IF type \in DOMAIN ItemOf
    THEN /\ IsSeq(value) /\ Len(value) < Word32
         /\ \A i \in DOMAIN value : AreValues(WriteStruct[ItemOf[type]], value[i])
    ELSE IsValue(type, value)

-----------------------------------------------------------------------------
(* ByteWriter                                                               *)

\* The high byte first.
WriteUInt16(value) == <<(value \div Base) % Base, value % Base>>

WriteUInt32(value) == WriteUInt16(value \div Word16) \o WriteUInt16(value % Word16)

\* A negative number is cast to the unsigned one with the same bits.
WriteValue(type, value) ==
    CASE type = "bool"   -> <<value>>
      [] type = "uint8"  -> <<value>>
      [] type = "int32"  -> WriteUInt32(value % Word32)
      [] type = "string" -> WriteUInt32(Len(value)) \o value

WriteValues(types, values) ==
    FlattenSeq([i \in DOMAIN types |-> WriteValue(types[i], values[i])])

WriteField(type, value) ==
    IF type \in DOMAIN ItemOf
    THEN LET types == WriteStruct[ItemOf[type]] IN
         WriteUInt32(Len(value)) \o
            FlattenSeq([i \in DOMAIN value |-> WriteValues(types, value[i])])
    ELSE WriteValue(type, value)

\* A message is its kind and the values of its fields, a list being one field.
MakePacket(m) ==
    LET types == FieldsOf(BodySent[m.kind], WriteStruct) IN
    WriteUInt16(KindNumber(m.kind)) \o
        FlattenSeq([i \in DOMAIN types |-> WriteField(types[i], m.fields[i])])

\* The messages that are read with `bodies': a value for each field, and a packet
\* whose bytes, the header's among them, an int can count, as the sends do it.
IsMessage(m, bodies) ==
    LET types == FieldsOf(BodySent[m.kind], WriteStruct) IN
    /\ m = [kind |-> m.kind, fields |-> m.fields]
    /\ m.kind \in DOMAIN bodies \cap DOMAIN BodySent
    /\ IsSeq(m.fields) /\ Len(m.fields) = Len(types)
    /\ \A i \in DOMAIN types : IsField(types[i], m.fields[i])
    /\ 2 * (Len(MakePacket(m)) + 4) < Word32

-----------------------------------------------------------------------------
(* ByteReader: the bytes left, the values read so far, ok until the bytes   *)
(* run out (RequireBytes throws)                                            *)

ReadUInt16(bytes) == bytes[1] * Base + bytes[2]

ReadUInt32(bytes) == ReadUInt16(bytes) * Word16 + ReadUInt16(SubSeq(bytes, 3, 4))

\* Mutant: the bits are taken for an unsigned number.
Unsigned(value) == value

Signed(value) == IF value < Word32 \div 2 THEN value ELSE value - Word32

Reader(bytes) == [left |-> bytes, values |-> <<>>, ok |-> TRUE]

Underflow(reader) == [reader EXCEPT !.ok = FALSE]

Took(reader, count, value) ==
    [reader EXCEPT !.left = SubSeq(@, count + 1, Len(@)), !.values = Append(@, value)]

\* The bytes of a string that begins the bytes, its length included.
StringSize(bytes) == 4 + ReadUInt32(bytes)

ReadValue(reader, type) ==
    LET bytes == reader.left IN
    CASE reader.ok /\ type \in {"bool", "uint8"} /\ Len(bytes) >= 1 ->
            Took(reader, 1, IF type = "bool" /\ bytes[1] # 0 THEN 1 ELSE bytes[1])
      [] reader.ok /\ type = "int32" /\ Len(bytes) >= 4 ->
            Took(reader, 4, Signed(ReadUInt32(bytes)))
      [] /\ reader.ok /\ type = "string"
         /\ Len(bytes) >= 4 /\ Len(bytes) >= StringSize(bytes) ->
            Took(reader, StringSize(bytes), SubSeq(bytes, 5, StringSize(bytes)))
      [] OTHER -> Underflow(reader)

ReadValues(reader, types) ==
    LET after[i \in 0..Len(types)] ==
            IF i = 0 THEN reader ELSE ReadValue(after[i - 1], types[i])
    IN  after[Len(types)]

\* An item of a list is read like a structure of its own.
ReadItem(list, types) ==
    LET item == ReadValues([list EXCEPT !.values = <<>>], types) IN
    [item EXCEPT !.values = Append(list.values, item.values)]

ReadItems(reader, count, types) ==
    LET after[i \in 0..count] == IF i = 0 THEN reader ELSE ReadItem(after[i - 1], types)
    IN  after[count]

\* One item after the other; a count beyond the bytes ends in an underflow.
ReadList(reader, types) ==
    LET count == ReadUInt32(reader.left)
        start == [reader EXCEPT !.left = SubSeq(@, 5, Len(@)), !.values = <<>>]
        list  == ReadItems(start, count, types)
    IN  IF ~reader.ok \/ Len(reader.left) < 4 \/ count > Len(reader.left)
        THEN Underflow(reader)
        ELSE [list EXCEPT !.values = Append(reader.values, list.values)]

ReadField(reader, type) ==
    IF type \in DOMAIN ItemOf THEN ReadList(reader, ReadStruct[ItemOf[type]])
                              ELSE ReadValue(reader, type)

ReadFields(reader, types) ==
    LET after[i \in 0..Len(types)] ==
            IF i = 0 THEN reader ELSE ReadField(after[i - 1], types[i])
    IN  after[Len(types)]

\* ReadPacketKind and the case of its kind; what is left over nobody looks at.
ReadPacket(payload, bodies) ==
    LET number == ReadUInt16(payload)
        kind   == IF number \in DOMAIN PacketKinds THEN PacketKinds[number] ELSE "Invalid"
        body   == IF kind \in DOMAIN bodies THEN bodies[kind] ELSE "none"
        reader == ReadFields(Reader(SubSeq(payload, 3, Len(payload))),
                             FieldsOf(body, ReadStruct))
    IN  IF Len(payload) < 2 \/ ~reader.ok THEN [kind |-> "ErrorNotice", fields |-> <<>>]
                                          ELSE [kind |-> kind, fields |-> reader.values]

=============================================================================
