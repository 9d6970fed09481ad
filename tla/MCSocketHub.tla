---------------------------- MODULE MCSocketHub -----------------------------
(* Every kind of message that is sent, once with small and once with long   *)
(* and negative values, fields side by side having different ones.          *)
EXTENDS SocketHub

Sample(type, i, long) ==
    CASE type = "bool"   -> (i + long) % 2
      [] type = "uint8"  -> (i + 2 * long) % 5
      [] type = "int32"  -> IF long = 1 THEN -i ELSE 9 * i
      [] type = "string" -> IF long = 1 THEN <<i % 7, 0>> ELSE <<>>

SampleField(type, i, long) ==
    IF type \in DOMAIN ItemOf
    THEN LET types == WriteStruct[ItemOf[type]] IN
         [k \in 1..long |-> [j \in DOMAIN types |-> Sample(types[j], i + j, long)]]
    ELSE Sample(type, i, long)

SampleMessage(kind, long) ==
    LET types == FieldsOf(BodySent[kind], WriteStruct) IN
    [kind |-> kind, fields |-> [i \in DOMAIN types |-> SampleField(types[i], i, long)]]

MCRequests == {SampleMessage(kind, long) : kind \in DOMAIN RequestRead, long \in {0, 1}}
MCNotices ==
    {SampleMessage(kind, long) : kind \in DOMAIN NoticeRead \ {"CountdownStarted"}, long \in {0, 1}}
MCFollowers ==
    {SampleMessage("ReadyToggleRequest", 1), SampleMessage("CreateRoomRequest", 1),
     SampleMessage("LeaderboardUpdate", 1), SampleMessage("ErrorNotice", 0)}

=============================================================================
