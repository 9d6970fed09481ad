-------------------------- MODULE GameSessionProofs -------------------------
(***************************************************************************)
(* Theorems about clients and server together, for every number of         *)
(* clients, however many requests and packets are under way.               *)
(***************************************************************************)
EXTENDS GameSession, HostEngineProofs

-----------------------------------------------------------------------------
(* What is sent, and what a client makes of it                              *)

ClientStates ==
    [connected : BOOLEAN, phase : {"StartMenu", "WaitingRoom", "Playing", "RoundSummary"},
     room : Nat, pending : BOOLEAN, localReady : BOOLEAN, playAgain : BOOLEAN,
     confirmed : SUBSET Cells]

Made ==
    {Packet(kind) : kind \in {"create", "leave"}}
    \cup [kind : {"join"}, room : Openers]
    \cup [kind : {"ready", "playAgain"}, flag : BOOLEAN]
    \cup [kind : {"move"}, cell : Cells]

Notices == {"WaitingRoomUpdate", "LeaveRoomResponse", "RoomClosedNotice", "MatchStarted",
            "RoundFinishedNotice", "ErrorNotice"}

Packets ==
    {Packet(kind) : kind \in Notices}
    \cup {RoomJoined(r) : r \in Nat}
    \cup {CellChecked(cell, TRUE) : cell \in Cells \cup {TopLeft}}
    \cup {CellChecked(cell, FALSE) : cell \in Cells \cup {TopLeft}}

\* A packet that touches neither the vote nor the connection.
Reads(s, t) ==
    t \in ClientStates /\ t.playAgain = s.playAgain /\ t.connected = s.connected

LEMMA RoomJoinedRead ==
    ASSUME NEW s \in ClientStates, NEW r \in Nat
    PROVE  LET t == Applied(s, RoomJoined(r)) IN
           /\ Reads(s, t) /\ t.confirmed = s.confirmed /\ t.room = s.room
           /\ t.phase = IF r = NoRoom THEN "StartMenu" ELSE "WaitingRoom"
<1> DEFINE phase == IF r = NoRoom THEN "StartMenu" ELSE "WaitingRoom"
<1>1. Applied(s, RoomJoined(r)) = [s EXCEPT !.phase = phase, !.pending = FALSE]
  BY DEF Applied, RoomJoined, Joins
<1>2. phase \in {"StartMenu", "WaitingRoom"}
  OBVIOUS
<1> HIDE DEF phase
<1>3. LET t == [s EXCEPT !.phase = phase, !.pending = FALSE] IN
      Reads(s, t) /\ t.confirmed = s.confirmed /\ t.room = s.room /\ t.phase = phase
  BY <1>2 DEF ClientStates, Reads
<1> QED BY <1>1, <1>3 DEF phase

LEMMA UpdateRead ==
    ASSUME NEW s \in ClientStates
    PROVE  LET t == Applied(s, Packet("WaitingRoomUpdate")) IN
           Reads(s, t) /\ t.confirmed = s.confirmed /\ t.room = s.room /\ t.phase = "WaitingRoom"
<1>1. Applied(s, Packet("WaitingRoomUpdate")) = [s EXCEPT !.phase = "WaitingRoom"]
  BY DEF Applied, Packet
<1> QED BY <1>1 DEF ClientStates, Reads

LEMMA LeftRead ==
    ASSUME NEW s \in ClientStates, NEW kind \in {"LeaveRoomResponse", "RoomClosedNotice"}
    PROVE  LET t == Applied(s, Packet(kind)) IN
           Reads(s, t) /\ t.confirmed = s.confirmed /\ t.room = NoRoom /\ t.phase = "StartMenu"
<1>1. Applied(s, Packet(kind)) =
        [s EXCEPT !.room = NoRoom, !.localReady = FALSE, !.phase = "StartMenu", !.pending = FALSE]
  BY DEF Applied, Packet, ToMenu
<1> DEFINE t == [s EXCEPT !.room = NoRoom, !.localReady = FALSE, !.phase = "StartMenu",
                          !.pending = FALSE]
           a == [s EXCEPT !.room = NoRoom, !.localReady = FALSE]
<1>2. /\ a \in ClientStates /\ a.room = NoRoom /\ a.confirmed = s.confirmed
      /\ a.playAgain = s.playAgain /\ a.connected = s.connected
  BY DEF ClientStates, NoRoom
<1>3. t = [a EXCEPT !.phase = "StartMenu", !.pending = FALSE]
  OBVIOUS
<1> HIDE DEF a, t
<1>4. Reads(s, t) /\ t.confirmed = s.confirmed /\ t.room = NoRoom /\ t.phase = "StartMenu"
  BY <1>2, <1>3 DEF ClientStates, Reads
<1> QED BY <1>1, <1>4 DEF t

LEMMA StartedRead ==
    ASSUME NEW s \in ClientStates
    PROVE  LET t == Applied(s, Packet("MatchStarted")) IN
           /\ Reads(s, t) /\ t.room = s.room
           /\ s.room = NoRoom => t.confirmed = s.confirmed /\ t.phase = s.phase
           /\ s.room # NoRoom => t.confirmed = {} /\ t.phase = "Playing"
<1>1. Applied(s, Packet("MatchStarted")) =
        IF s.room = NoRoom THEN s ELSE [s EXCEPT !.confirmed = {}, !.phase = "Playing"]
  BY DEF Applied, Packet, ShowMatch
<1>2. CASE s.room = NoRoom
  BY <1>1, <1>2 DEF Reads
<1>3. CASE s.room # NoRoom
  BY <1>1, <1>3 DEF ClientStates, Reads
<1> QED BY <1>2, <1>3

LEMMA CheckedRead ==
    ASSUME NEW s \in ClientStates, NEW cell, NEW correct \in BOOLEAN
    PROVE  LET t == Applied(s, CellChecked(cell, correct)) IN
           /\ Reads(s, t) /\ t.room = s.room /\ t.phase = s.phase
           /\ correct => t.confirmed = s.confirmed \cup ({cell} \cap Cells)
           /\ ~correct => t.confirmed = s.confirmed \ {cell}
<1> DEFINE shown == IF correct THEN s.confirmed \cup ({cell} \cap Cells)
                               ELSE s.confirmed \ {cell}
<1>1. Applied(s, CellChecked(cell, correct)) = [s EXCEPT !.confirmed = shown]
  BY DEF Applied, CellChecked, ApplyCellResult
<1>2. shown \in SUBSET Cells
  BY DEF ClientStates
<1> HIDE DEF shown
<1>3. LET t == [s EXCEPT !.confirmed = shown] IN
      Reads(s, t) /\ t.room = s.room /\ t.phase = s.phase /\ t.confirmed = shown
  BY <1>2 DEF ClientStates, Reads
<1> QED BY <1>1, <1>3 DEF shown

LEMMA FinishedRead ==
    ASSUME NEW s \in ClientStates
    PROVE  LET t == Applied(s, Packet("RoundFinishedNotice")) IN
           Reads(s, t) /\ t.confirmed = s.confirmed /\ t.room = s.room /\ t.phase = "RoundSummary"
<1>1. Applied(s, Packet("RoundFinishedNotice")) = [s EXCEPT !.phase = "RoundSummary"]
  BY DEF Applied, Packet
<1> QED BY <1>1 DEF ClientStates, Reads

LEMMA ErrorRead ==
    ASSUME NEW s \in ClientStates
    PROVE  LET t == Applied(s, Packet("ErrorNotice")) IN
           Reads(s, t) /\ t.confirmed = s.confirmed /\ t.room = s.room /\ t.phase = s.phase
<1>1. Applied(s, Packet("ErrorNotice")) = [s EXCEPT !.pending = FALSE]
  BY DEF Applied, Packet
<1> QED BY <1>1 DEF ClientStates, Reads

\* No board is shown without a room.
BoardHasRoom(s) == s.room = NoRoom => s.phase # "Playing"

\* Packets that take the client out of its room.
Leaves(msg) == msg.kind \in {"LeaveRoomResponse", "RoomClosedNotice"}

LEMMA Processed ==
    ASSUME NEW s \in ClientStates, NEW msg \in Packets
    PROVE  LET t == Applied(s, msg) IN
           /\ Reads(s, t) /\ (BoardHasRoom(s) => BoardHasRoom(t))
           /\ t.room = IF Leaves(msg) THEN NoRoom ELSE s.room
<1>1. ASSUME NEW kind \in Notices, msg = Packet(kind)
      PROVE  LET t == Applied(s, msg) IN
             /\ Reads(s, t) /\ (BoardHasRoom(s) => BoardHasRoom(t))
             /\ t.room = IF Leaves(msg) THEN NoRoom ELSE s.room
  <2>1. msg.kind = kind
    BY <1>1 DEF Packet
  <2>2. CASE kind = "WaitingRoomUpdate"
    BY <1>1, <2>1, <2>2, UpdateRead DEF BoardHasRoom, Leaves
  <2>3. CASE kind \in {"LeaveRoomResponse", "RoomClosedNotice"}
    BY <1>1, <2>1, <2>3, LeftRead DEF BoardHasRoom, Leaves
  <2>4. CASE kind = "MatchStarted"
    BY <1>1, <2>1, <2>4, StartedRead DEF BoardHasRoom, Leaves
  <2>5. CASE kind = "RoundFinishedNotice"
    BY <1>1, <2>1, <2>5, FinishedRead DEF BoardHasRoom, Leaves
  <2>6. CASE kind = "ErrorNotice"
    BY <1>1, <2>1, <2>6, ErrorRead DEF BoardHasRoom, Leaves
  <2> QED BY <2>2, <2>3, <2>4, <2>5, <2>6 DEF Notices
<1>2. ASSUME NEW r \in Nat, msg = RoomJoined(r)
      PROVE  LET t == Applied(s, msg) IN
             /\ Reads(s, t) /\ (BoardHasRoom(s) => BoardHasRoom(t))
             /\ t.room = IF Leaves(msg) THEN NoRoom ELSE s.room
  <2>1. ~Leaves(msg)
    BY <1>2 DEF RoomJoined, Leaves
  <2> QED BY <1>2, <2>1, RoomJoinedRead DEF BoardHasRoom
<1>3. ASSUME NEW cell, NEW correct \in BOOLEAN, msg = CellChecked(cell, correct)
      PROVE  LET t == Applied(s, msg) IN
             /\ Reads(s, t) /\ (BoardHasRoom(s) => BoardHasRoom(t))
             /\ t.room = IF Leaves(msg) THEN NoRoom ELSE s.room
  <2>1. ~Leaves(msg)
    BY <1>3 DEF CellChecked, Leaves
  <2> QED BY <1>3, <2>1, CheckedRead DEF BoardHasRoom
<1> QED BY <1>1, <1>2, <1>3 DEF Packets

-----------------------------------------------------------------------------
(* What a client may show when it has read what has been sent to it         *)

\* What is shown: the screen and the board.
SameView(s, t) == s.phase = t.phase /\ s.confirmed = t.confirmed

\* What packets make of what is shown, whatever room the client believes itself
\* in meanwhile: a join further behind may have set it already.
Step(s, msg, t) ==
    \E room \in Nat :
        /\ BoardHasRoom([s EXCEPT !.room = room])
        /\ SameView(t, Applied([s EXCEPT !.room = room], msg))

LEMMA Placed ==
    ASSUME NEW s \in ClientStates, NEW room \in Nat
    PROVE  LET t == [s EXCEPT !.room = room] IN
           t \in ClientStates /\ t.room = room /\ SameView(t, s)
  BY DEF ClientStates, SameView

LEMMA RoomJoinedStep ==
    ASSUME NEW s \in ClientStates, NEW r \in Nat, NEW t, Step(s, RoomJoined(r), t)
    PROVE  t.phase = IF r = NoRoom THEN "StartMenu" ELSE "WaitingRoom"
<1>1. PICK room \in Nat : SameView(t, Applied([s EXCEPT !.room = room], RoomJoined(r)))
  BY DEF Step
<1> QED BY <1>1, Placed, RoomJoinedRead DEF SameView

LEMMA UpdateStep ==
    ASSUME NEW s \in ClientStates, NEW t, Step(s, Packet("WaitingRoomUpdate"), t)
    PROVE  t.phase = "WaitingRoom"
<1>1. PICK room \in Nat : SameView(t, Applied([s EXCEPT !.room = room], Packet("WaitingRoomUpdate")))
  BY DEF Step
<1> QED BY <1>1, Placed, UpdateRead DEF SameView

LEMMA LeftStep ==
    ASSUME NEW s \in ClientStates, NEW kind \in {"LeaveRoomResponse", "RoomClosedNotice"},
           NEW t, Step(s, Packet(kind), t)
    PROVE  t.phase = "StartMenu"
<1>1. PICK room \in Nat : SameView(t, Applied([s EXCEPT !.room = room], Packet(kind)))
  BY DEF Step
<1> QED BY <1>1, Placed, LeftRead DEF SameView

LEMMA StartedStep ==
    ASSUME NEW s \in ClientStates, NEW t, Step(s, Packet("MatchStarted"), t)
    PROVE  \/ t.phase = "Playing" /\ t.confirmed = {}
           \/ t.phase = s.phase /\ t.phase # "Playing"
<1>1. PICK room \in Nat :
        /\ BoardHasRoom([s EXCEPT !.room = room])
        /\ SameView(t, Applied([s EXCEPT !.room = room], Packet("MatchStarted")))
  BY DEF Step
<1> DEFINE u == [s EXCEPT !.room = room]
<1>2. u \in ClientStates /\ u.phase = s.phase /\ BoardHasRoom(u)
  BY <1>1, Placed DEF SameView
<1> HIDE DEF u
<1>3. SameView(t, Applied(u, Packet("MatchStarted")))
  BY <1>1 DEF u
<1> QED BY <1>2, <1>3, StartedRead DEF SameView, BoardHasRoom

LEMMA CheckedStep ==
    ASSUME NEW s \in ClientStates, NEW cell, NEW correct \in BOOLEAN,
           NEW t, Step(s, CellChecked(cell, correct), t)
    PROVE  /\ t.phase = s.phase
           /\ t.confirmed \subseteq s.confirmed \cup (IF correct THEN {cell} ELSE {})
<1>1. PICK room \in Nat :
        SameView(t, Applied([s EXCEPT !.room = room], CellChecked(cell, correct)))
  BY DEF Step
<1> DEFINE u == [s EXCEPT !.room = room]
<1>2. u \in ClientStates /\ SameView(u, s)
  BY <1>1, Placed
<1> HIDE DEF u
<1>3. SameView(t, Applied(u, CellChecked(cell, correct)))
  BY <1>1 DEF u
<1>4. LET v == Applied(u, CellChecked(cell, correct)) IN
      /\ v.phase = u.phase
      /\ correct => v.confirmed = u.confirmed \cup ({cell} \cap Cells)
      /\ ~correct => v.confirmed = u.confirmed \ {cell}
  BY <1>2, CheckedRead
<1> QED BY <1>2, <1>3, <1>4 DEF SameView

LEMMA FinishedStep ==
    ASSUME NEW s \in ClientStates, NEW t, Step(s, Packet("RoundFinishedNotice"), t)
    PROVE  t.phase = "RoundSummary"
<1>1. PICK room \in Nat : SameView(t, Applied([s EXCEPT !.room = room], Packet("RoundFinishedNotice")))
  BY DEF Step
<1> QED BY <1>1, Placed, FinishedRead DEF SameView

LEMMA ErrorStep ==
    ASSUME NEW s \in ClientStates, NEW t, Step(s, Packet("ErrorNotice"), t)
    PROVE  SameView(t, s)
<1>1. PICK room \in Nat : SameView(t, Applied([s EXCEPT !.room = room], Packet("ErrorNotice")))
  BY DEF Step
<1> DEFINE u == [s EXCEPT !.room = room]
<1>2. u \in ClientStates /\ SameView(u, s)
  BY <1>1, Placed
<1> HIDE DEF u
<1>3. SameView(t, Applied(u, Packet("ErrorNotice")))
  BY <1>1 DEF u
<1> QED BY <1>2, <1>3, ErrorRead DEF SameView

\* Reading msgs may take a client that looks like `state' to `last'.
ReadsAs(state, msgs, last) ==
    \E t \in [0..Len(msgs) -> ClientStates] :
        /\ SameView(t[0], state)
        /\ \A i \in 1..Len(msgs) : Step(t[i - 1], msgs[i], t[i])
        /\ t[Len(msgs)] = last

LEMMA ReadNothing ==
    ASSUME NEW s \in ClientStates
    PROVE  ReadsAs(s, <<>>, s)
<1> DEFINE t == [i \in 0..0 |-> s]
<1>1. t \in [0..Len(<<>>) -> ClientStates] /\ t[0] = s /\ Len(<<>>) = 0
  OBVIOUS
<1> HIDE DEF t
<1> QED BY <1>1 DEF ReadsAs, SameView

LEMMA ReadAll ==
    ASSUME NEW s, NEW last, ReadsAs(s, <<>>, last)
    PROVE  SameView(last, s) /\ last \in ClientStates
<1>1. Len(<<>>) = 0
  OBVIOUS
<1> QED BY <1>1 DEF ReadsAs, SameView

\* A change of what is not shown.
LEMMA ReadElsewhere ==
    ASSUME NEW s, NEW new, SameView(new, s), NEW msgs, NEW last, ReadsAs(new, msgs, last)
    PROVE  ReadsAs(s, msgs, last)
  BY DEF ReadsAs, SameView

\* What is read after the packet at the head has been processed is read before.
LEMMA ReadOne ==
    ASSUME NEW s \in ClientStates, BoardHasRoom(s),
           NEW msgs \in Seq(Packets), msgs # <<>>,
           NEW last, ReadsAs(Applied(s, Head(msgs)), Tail(msgs), last)
    PROVE  ReadsAs(s, msgs, last)
<1> DEFINE n == Len(msgs) - 1
<1>1. /\ n \in Nat /\ Len(msgs) = n + 1 /\ Len(Tail(msgs)) = n /\ Head(msgs) = msgs[1]
      /\ \A i \in 1..n : Tail(msgs)[i] = msgs[i + 1]
  BY HeadTailProperties, LenProperties
<1> HIDE DEF n
<1>2. PICK u \in [0..n -> ClientStates] :
        /\ SameView(u[0], Applied(s, Head(msgs)))
        /\ \A i \in 1..n : Step(u[i - 1], msgs[i + 1], u[i])
        /\ u[n] = last
  BY <1>1 DEF ReadsAs
<1> DEFINE t == [i \in 0..(n + 1) |-> IF i = 0 THEN s ELSE u[i - 1]]
<1>3. /\ t \in [0..(n + 1) -> ClientStates] /\ t[0] = s
      /\ \A i \in 1..(n + 1) : t[i] = u[i - 1]
  BY <1>1
<1> HIDE DEF t
<1>4. SameView(t[0], s) /\ t[n + 1] = last
  <2>1. n + 1 \in 1..(n + 1) /\ (n + 1) - 1 = n
    BY <1>1
  <2> QED BY <1>2, <1>3, <2>1 DEF SameView
<1>5. ASSUME NEW i \in 1..(n + 1) PROVE Step(t[i - 1], msgs[i], t[i])
  <2>1. CASE i = 1
    <3>1. t[i - 1] = s /\ t[i] = u[0] /\ msgs[i] = Head(msgs)
      BY <1>1, <1>3, <2>1
    <3>2. [s EXCEPT !.room = s.room] = s /\ s.room \in Nat
      BY DEF ClientStates
    <3> QED BY <1>2, <3>1, <3>2 DEF Step
  <2>2. CASE i # 1
    <3>1. /\ i - 1 \in 1..n /\ (i - 1) + 1 = i /\ i - 1 \in 1..(n + 1)
      BY <1>1, <2>2
    <3>2. t[i] = u[i - 1] /\ t[i - 1] = u[(i - 1) - 1]
      BY <1>3, <3>1
    <3> QED BY <1>2, <3>1, <3>2
  <2> QED BY <2>1, <2>2
<1> QED BY <1>1, <1>3, <1>4, <1>5 DEF ReadsAs

LEMMA ReadMore ==
    ASSUME NEW s, NEW msgs \in Seq(Packets), NEW msg \in Packets,
           NEW final, ReadsAs(s, Append(msgs, msg), final)
    PROVE  \E last \in ClientStates : ReadsAs(s, msgs, last) /\ Step(last, msg, final)
<1> DEFINE n == Len(msgs)
           more == Append(msgs, msg)
<1>1. /\ n \in Nat /\ Len(more) = n + 1
      /\ \A i \in 1..n : more[i] = msgs[i]
      /\ more[n + 1] = msg
  BY AppendProperties, LenProperties
<1> HIDE DEF more
<1>2. PICK t \in [0..(n + 1) -> ClientStates] :
        /\ SameView(t[0], s)
        /\ \A i \in 1..(n + 1) : Step(t[i - 1], more[i], t[i])
        /\ t[n + 1] = final
  BY <1>1 DEF ReadsAs, more
<1> DEFINE u == [i \in 0..n |-> t[i]]
<1>3. /\ u \in [0..n -> ClientStates]
      /\ \A i \in 0..n : u[i] = t[i]
  BY <1>1
<1> HIDE DEF u
<1>4. ASSUME NEW i \in 1..n PROVE Step(u[i - 1], msgs[i], u[i])
  <2>1. i \in 1..(n + 1) /\ i \in 0..n /\ i - 1 \in 0..n
    BY <1>1
  <2> QED BY <1>1, <1>2, <1>3, <2>1
<1>5. 0 \in 0..n /\ n \in 0..n
  BY <1>1
<1>6. ReadsAs(s, msgs, u[n])
  BY <1>2, <1>3, <1>4, <1>5 DEF ReadsAs
<1>7. Step(u[n], msg, final)
  <2>1. n + 1 \in 1..(n + 1) /\ (n + 1) - 1 = n
    BY <1>1
  <2> QED BY <1>1, <1>2, <1>3, <1>5, <2>1
<1> QED BY <1>3, <1>5, <1>6, <1>7


-----------------------------------------------------------------------------
(* Which room a client is told to be in                                     *)

\* Packets that move the client between rooms, and the room they say.
Seating(msg) == Joins(msg) \/ Leaves(msg)

Says(msg) == IF Joins(msg) THEN msg.room ELSE NoRoom

LEMMA SeatingKinds ==
    /\ \A r \in Nat : /\ Seating(RoomJoined(r)) <=> r # NoRoom
                      /\ Says(RoomJoined(r)) = r
    /\ \A kind \in Notices : /\ Seating(Packet(kind)) <=> Leaves(Packet(kind))
                             /\ Leaves(Packet(kind)) <=>
                                    kind \in {"LeaveRoomResponse", "RoomClosedNotice"}
                             /\ Says(Packet(kind)) = NoRoom
    /\ \A cell : \A correct : ~Seating(CellChecked(cell, correct))
<1>1. ASSUME NEW r \in Nat
      PROVE  (Seating(RoomJoined(r)) <=> r # NoRoom) /\ Says(RoomJoined(r)) = r
  BY DEF Seating, Says, Joins, Leaves, RoomJoined
<1>2. ASSUME NEW kind \in Notices
      PROVE  /\ Seating(Packet(kind)) <=> Leaves(Packet(kind))
             /\ Leaves(Packet(kind)) <=> kind \in {"LeaveRoomResponse", "RoomClosedNotice"}
             /\ Says(Packet(kind)) = NoRoom
  BY DEF Seating, Says, Joins, Leaves, Packet, Notices
<1>3. ASSUME NEW cell, NEW correct PROVE ~Seating(CellChecked(cell, correct))
  BY DEF Seating, Joins, Leaves, CellChecked
<1> QED BY <1>1, <1>2, <1>3

LastSeating(msgs, i) ==
    Seating(msgs[i]) /\ \A k \in 1..Len(msgs) : k > i => ~Seating(msgs[k])

\* The last word on the room is the server's; with none under way the client
\* believes itself in that room or in none.
SeatOK(room, msgs, seat) ==
    /\ \A i \in 1..Len(msgs) : LastSeating(msgs, i) => Says(msgs[i]) = seat
    /\ (\A i \in 1..Len(msgs) : ~Seating(msgs[i])) => room \in {NoRoom, seat}

\* The room of the last join that was read is set already, unless a packet behind it
\* or one that has been processed since took the client out of a room.
InboxOK(room, msgs) ==
    \A i \in 1..Len(msgs) :
        LastSeating(msgs, i) /\ Joins(msgs[i]) => room \in {NoRoom, msgs[i].room}

LEMMA SeatSent ==
    ASSUME NEW room, NEW seat, NEW msgs \in Seq(Packets), NEW msg \in Packets,
           SeatOK(room, msgs, seat)
    PROVE  SeatOK(room, Append(msgs, msg), IF Seating(msg) THEN Says(msg) ELSE seat)
<1> DEFINE n == Len(msgs)
           more == Append(msgs, msg)
           new == IF Seating(msg) THEN Says(msg) ELSE seat
<1>1. /\ n \in Nat /\ Len(more) = n + 1
      /\ \A i \in 1..n : more[i] = msgs[i]
      /\ more[n + 1] = msg
  BY AppendProperties, LenProperties
<1>2. /\ \A i \in 1..n : LastSeating(msgs, i) => Says(msgs[i]) = seat
      /\ (\A i \in 1..n : ~Seating(msgs[i])) => room \in {NoRoom, seat}
  BY DEF SeatOK
<1> HIDE DEF more, n, new
<1>3. n + 1 \in 1..(n + 1) /\ \A i \in 1..n : i \in 1..(n + 1) /\ n + 1 > i
  BY <1>1
<1>4. ASSUME NEW i \in 1..(n + 1), LastSeating(more, i) PROVE Says(more[i]) = new
  <2>1. CASE i = n + 1
    BY <1>1, <1>4, <2>1 DEF LastSeating, new
  <2>2. CASE i # n + 1
    <3>1. i \in 1..n
      BY <1>1, <2>2
    <3>2. ~Seating(msg)
      BY <1>1, <1>3, <1>4, <3>1 DEF LastSeating
    <3>3. LastSeating(msgs, i)
      BY <1>1, <1>3, <1>4, <3>1 DEF LastSeating, n
    <3> QED BY <1>1, <1>2, <3>1, <3>2, <3>3 DEF new
  <2> QED BY <2>1, <2>2
<1>5. ASSUME \A i \in 1..(n + 1) : ~Seating(more[i]) PROVE room \in {NoRoom, new}
  <2>1. ~Seating(msg) /\ \A i \in 1..n : ~Seating(msgs[i])
    BY <1>1, <1>3, <1>5
  <2> QED BY <1>2, <2>1 DEF new
<1> QED BY <1>1, <1>4, <1>5 DEF SeatOK, more, new

-----------------------------------------------------------------------------
(* What the server sends                                                    *)

SessionTypes ==
    /\ client \in [Clients -> ClientStates]
    /\ toServer \in [Clients -> Seq(Made)]
    /\ toClient \in [Clients -> Seq(Packets)]
    /\ inbox \in [Clients -> Seq(Packets)]

\* What a client has still to process.
Mail(c) == inbox[c] \o toClient[c]

\* The clients of a get the packet first, those of b the packet second.
Announced(a, first, b, second) ==
    /\ NobodyReading
    /\ UNCHANGED <<client, inbox>>
    /\ Send(To(a, <<first>>), To(b, <<second>>))

LEMMA PacketsKnown ==
    /\ \A kind \in Notices : Packet(kind) \in Packets
    /\ \A r \in Nat : RoomJoined(r) \in Packets
    /\ \A cell \in Cells \cup {TopLeft} : /\ CellChecked(cell, TRUE) \in Packets
                                        /\ CellChecked(cell, FALSE) \in Packets
  BY DEF Packets

LEMMA NothingSent ==
    ASSUME NEW first
    PROVE  Nothing = To({}, <<first>>)
  BY DEF Nothing, To

\* The mail of d, when a packet is sent to the clients of a.
With(msgs, d, a, msg) == IF d \in a THEN Append(msgs, msg) ELSE msgs

LEMMA Delivered ==
    ASSUME SessionTypes, NEW a, NEW first \in Packets, NEW b, NEW second \in Packets,
           Announced(a, first, b, second),
           NEW d \in Clients, client[d].connected
    PROVE  /\ Mail(d) \in Seq(Packets)
           /\ With(Mail(d), d, a, first) \in Seq(Packets)
           /\ Mail(d)' = With(With(Mail(d), d, a, first), d, b, second)
<1> DEFINE old == Mail(d)
           one == With(old, d, a, first)
           two == With(one, d, b, second)
<1>1. /\ inbox[d] = <<>> /\ toClient[d] \in Seq(Packets) /\ client'[d] = client[d]
      /\ inbox'[d] = <<>>
  BY DEF SessionTypes, Announced, NobodyReading
<1>2. \A q \in Seq(Packets) : <<>> \o q = q /\ q \o <<>> = q
  OBVIOUS
<1>3. \A q \in Seq(Packets) : \A m \in Packets : q \o <<m>> = Append(q, m) /\ Append(q, m) \in Seq(Packets)
  OBVIOUS
<1>4. old = toClient[d] /\ old \in Seq(Packets)
  BY <1>1, <1>2 DEF Mail
<1>5. toClient'[d] = toClient[d] \o (IF d \in a THEN <<first>> ELSE <<>>)
                                 \o (IF d \in b THEN <<second>> ELSE <<>>)
  BY DEF Announced, Send, To
<1> HIDE DEF old
<1>6. one \in Seq(Packets) /\ old \o (IF d \in a THEN <<first>> ELSE <<>>) = one
  BY <1>2, <1>3, <1>4 DEF With
<1> HIDE DEF one
<1>7. two \in Seq(Packets) /\ toClient'[d] = two
  <2>1. toClient'[d] = one \o (IF d \in b THEN <<second>> ELSE <<>>)
    BY <1>4, <1>5, <1>6
  <2> QED BY <1>2, <1>3, <1>6, <2>1 DEF With
<1> HIDE DEF two
<1>8. Mail(d)' = two
  BY <1>1, <1>2, <1>7 DEF Mail
<1> QED BY <1>4, <1>6, <1>8 DEF old, one, two

\* Packets sent are packets.
LEMMA AnnouncedTypes ==
    ASSUME SessionTypes, NEW a, NEW first \in Packets, NEW b, NEW second \in Packets,
           Announced(a, first, b, second)
    PROVE  /\ client' \in [Clients -> ClientStates]
           /\ toClient' \in [Clients -> Seq(Packets)] /\ inbox' \in [Clients -> Seq(Packets)]
<1>1. ASSUME NEW d \in Clients PROVE toClient'[d] \in Seq(Packets)
  <2> DEFINE new == toClient[d] \o (IF d \in a THEN <<first>> ELSE <<>>)
                                \o (IF d \in b THEN <<second>> ELSE <<>>)
  <2>1. new \in Seq(Packets)
    BY DEF SessionTypes
  <2>2. toClient'[d] = IF client[d].connected THEN new ELSE <<>>
    BY DEF Announced, Send, To
  <2> QED BY <2>1, <2>2
<1>2. DOMAIN toClient' = Clients /\ toClient' = [d \in Clients |-> toClient'[d]]
  BY DEF Announced, Send
<1> QED BY <1>1, <1>2 DEF SessionTypes, Announced

-----------------------------------------------------------------------------
(* What a client that has read everything agrees on with the server         *)

AgreesWith(s, c) ==
    /\ mPlayers[c].roomId = NoRoom => s.phase = "StartMenu"
    /\ s.phase = "Playing" =>
        LET match == mRooms[mPlayers[c].roomId].match IN
        /\ match.phase = "running"
        /\ s.confirmed # {} => c \in DOMAIN match.filled /\ s.confirmed \subseteq match.filled[c]

LEMMA SameAgrees ==
    ASSUME NEW s, NEW t, SameView(s, t), NEW c, AgreesWith(t, c)
    PROVE  AgreesWith(s, c)
  BY DEF AgreesWith, SameView

\* Nothing a client looks at has changed at the server.
Unmoved(c) ==
    /\ mPlayers'[c].roomId = mPlayers[c].roomId
    /\ mPlayers[c].roomId # NoRoom =>
        mRooms'[mPlayers[c].roomId].match = mRooms[mPlayers[c].roomId].match

LEMMA UnmovedAgrees ==
    ASSUME NEW s, NEW c, AgreesWith(s, c), Unmoved(c)
    PROVE  AgreesWith(s, c)'
<1>1. CASE mPlayers[c].roomId = NoRoom
  BY <1>1 DEF AgreesWith, Unmoved
<1>2. CASE mPlayers[c].roomId # NoRoom
  BY <1>2 DEF AgreesWith, Unmoved
<1> QED BY <1>1, <1>2

LEMMA SeatedConnected ==
    LobbyInv => \A p \in PlayerIds : mPlayers[p].roomId # NoRoom => mPlayers[p].connected
  BY SeatFacts DEF LobbyInv, RoomSound

\* Who is in the room when the handler is through: everybody in it is connected.
LEMMA InRoomIs ==
    ASSUME LobbyInv', PlayerIds' = Clients, NEW r, r # NoRoom, NEW d \in Clients
    PROVE  d \in InRoom(r) <=> mPlayers'[d].roomId = r
<1>1. (LobbyInv => \A p \in PlayerIds : mPlayers[p].roomId # NoRoom => mPlayers[p].connected)'
  BY SeatedConnected, PTL
<1>2. \A p \in PlayerIds' : mPlayers'[p].roomId # NoRoom => mPlayers'[p].connected
  BY <1>1
<1> QED BY <1>2 DEF InRoom

\* Clients whose connection stands will agree with the server, whatever rooms they
\* believe themselves in while they process what is under way.
WillAgree(c) ==
    Connected(c) =>
        /\ \A last \in ClientStates : ReadsAs(client[c], Mail(c), last) => AgreesWith(last, c)
        /\ SeatOK(client[c].room, Mail(c), mPlayers[c].roomId)
        /\ InboxOK(client[c].room, inbox[c])
        /\ BoardHasRoom(client[c])

SessionBase == LobbyInv /\ PlayerIds = Clients /\ SessionTypes

\* What d may become when it also reads what is announced.
Told(last, d, a, first, b, second, final) ==
    \E mid \in ClientStates :
        /\ IF d \in a THEN Step(last, first, mid) ELSE mid = last
        /\ IF d \in b THEN Step(mid, second, final) ELSE final = mid

\* The seat of d is what it is told, or what it was.
SeatTold(d, a, first, second) ==
    /\ mPlayers'[d].connected => mPlayers[d].connected
    /\ ~Seating(second)
    /\ mPlayers'[d].roomId =
        IF d \in a /\ Seating(first) THEN Says(first) ELSE mPlayers[d].roomId

LEMMA ToldAgrees ==
    ASSUME SessionTypes, NEW a, NEW first \in Packets, NEW b, NEW second \in Packets,
           Announced(a, first, b, second), NEW d \in Clients, WillAgree(d),
           SeatTold(d, a, first, second),
           \A last \in ClientStates, final \in ClientStates :
               AgreesWith(last, d) /\ Told(last, d, a, first, b, second, final) =>
                   AgreesWith(final, d)'
    PROVE  WillAgree(d)'
<1> SUFFICES ASSUME Connected(d)'
             PROVE  /\ \A final \in ClientStates :
                          ReadsAs(client'[d], Mail(d)', final) => AgreesWith(final, d)'
                    /\ SeatOK(client'[d].room, Mail(d)', mPlayers'[d].roomId)
                    /\ InboxOK(client'[d].room, inbox'[d])
                    /\ BoardHasRoom(client'[d])
  <2>1. WillAgree(d)' <=>
            (Connected(d)' =>
                /\ \A final \in ClientStates :
                      ReadsAs(client'[d], Mail(d)', final) => AgreesWith(final, d)'
                /\ SeatOK(client'[d].room, Mail(d)', mPlayers'[d].roomId)
                /\ InboxOK(client'[d].room, inbox'[d])
                /\ BoardHasRoom(client'[d]))
    BY DEF WillAgree, ReadsAs, SeatOK, LastSeating, InboxOK, BoardHasRoom, SameView
  <2> QED BY <2>1
<1>1. client' = client /\ inbox' = inbox
  BY DEF Announced
<1>2. Connected(d) /\ client[d].connected
  BY <1>1 DEF Connected, SeatTold
<1> DEFINE old == Mail(d)
           one == With(old, d, a, first)
           two == With(one, d, b, second)
<1>3. old \in Seq(Packets) /\ one \in Seq(Packets) /\ Mail(d)' = two
  BY <1>2, Delivered
<1> HIDE DEF old, one, two
<1>4. ASSUME NEW final \in ClientStates, ReadsAs(client[d], two, final)
      PROVE  AgreesWith(final, d)'
  <2>1. PICK mid \in ClientStates :
            /\ ReadsAs(client[d], one, mid)
            /\ IF d \in b THEN Step(mid, second, final) ELSE final = mid
    BY <1>3, <1>4, ReadMore DEF two, With
  <2>2. PICK last \in ClientStates :
            /\ ReadsAs(client[d], old, last)
            /\ IF d \in a THEN Step(last, first, mid) ELSE mid = last
    BY <1>3, <2>1, ReadMore DEF one, With
  <2>3. AgreesWith(last, d)
    BY <1>2, <2>2 DEF WillAgree, old
  <2> QED BY <2>1, <2>2, <2>3 DEF Told
<1>5. SeatOK(client[d].room, two, mPlayers'[d].roomId)
  <2>1. SeatOK(client[d].room, old, mPlayers[d].roomId)
    BY <1>2 DEF WillAgree, old
  <2>2. SeatOK(client[d].room, one, mPlayers'[d].roomId)
    BY <1>3, <2>1, SeatSent DEF SeatTold, one, With
  <2> QED BY <1>3, <2>2, SeatSent DEF SeatTold, two, With
<1>6. InboxOK(client[d].room, inbox[d]) /\ BoardHasRoom(client[d])
  BY <1>2 DEF WillAgree
<1> QED BY <1>1, <1>3, <1>4, <1>5, <1>6

\* Who gets nothing and has not been moved agrees as before.
LEMMA UntoldAgrees ==
    ASSUME NEW d, NEW a, NEW first, NEW b, NEW second, d \notin a, d \notin b, Unmoved(d),
           NEW last, AgreesWith(last, d),
           NEW final, Told(last, d, a, first, b, second, final)
    PROVE  AgreesWith(final, d)'
<1>1. final = last
  BY DEF Told
<1> QED BY <1>1, UnmovedAgrees

-----------------------------------------------------------------------------
(* Rooms                                                                    *)

Update == Packet("WaitingRoomUpdate")

LEMMA UpdateKnown ==
    Update \in Packets /\ ~Seating(Update)
  BY PacketsKnown, SeatingKinds DEF Update, Notices

\* A player whose client ends in the waiting room agrees, whatever the room.
LEMMA WaitingAgrees ==
    ASSUME NEW d, mPlayers'[d].roomId # NoRoom, NEW final, final.phase = "WaitingRoom"
    PROVE  AgreesWith(final, d)'
  BY DEF AgreesWith

\* Who is told to have joined, and sees the room.
LEMMA JoinedAgrees ==
    ASSUME NEW d, NEW a, d \in a, NEW b, d \in b, NEW r \in Nat, r # NoRoom,
           mPlayers'[d].roomId = r,
           NEW last \in ClientStates, NEW final,
           Told(last, d, a, RoomJoined(r), b, Update, final)
    PROVE  AgreesWith(final, d)'
<1>1. PICK mid \in ClientStates : Step(mid, Update, final)
  BY DEF Told
<1>2. final.phase = "WaitingRoom"
  BY <1>1, UpdateStep DEF Update
<1> QED BY <1>2, WaitingAgrees

LEMMA CreateAgrees ==
    ASSUME SessionBase, LobbyInv', NEW c \in Clients, mPlayers[c].connected,
           NEW j, RoomOpened(c, j, MaxPlayers),
           Announced({c}, RoomJoined(j), InRoom(j), Update),
           NEW d \in Clients, WillAgree(d)
    PROVE  WillAgree(d)'
<1>1. /\ j \in Nat /\ j # NoRoom /\ j \notin DOMAIN mRooms /\ PlayerIds' = Clients
      /\ mPlayers'[c].roomId = j
      /\ \A q \in Clients : q # c => mPlayers'[q] = mPlayers[q]
      /\ \A r \in DOMAIN mRooms : mRooms'[r] = mRooms[r]
  BY SizesAssumption DEF RoomOpened, SessionBase
<1>2. RoomJoined(j) \in Packets /\ Seating(RoomJoined(j)) /\ Says(RoomJoined(j)) = j
  BY <1>1, PacketsKnown, SeatingKinds
<1>3. PICK b : b = InRoom(j)
  OBVIOUS
<1>4. SeatTold(d, {c}, RoomJoined(j), Update)
  BY <1>1, <1>2, UpdateKnown DEF SeatTold
<1>5. ASSUME NEW last \in ClientStates, NEW final \in ClientStates, AgreesWith(last, d),
             Told(last, d, {c}, RoomJoined(j), b, Update, final)
      PROVE  AgreesWith(final, d)'
  <2>1. CASE d = c
    <3>1. d \in b
      BY <1>1, <1>3, <2>1, InRoomIs
    <3> QED BY <1>1, <1>5, <2>1, <3>1, JoinedAgrees
  <2>2. CASE d # c
    <3>1. /\ mPlayers'[d] = mPlayers[d]
          /\ mPlayers[d].roomId \in DOMAIN mRooms \cup {NoRoom}
      BY <1>1, <2>2 DEF SessionBase, LobbyInv, ProfileSound
    <3>2. d \notin b
      BY <1>1, <1>3, <3>1, InRoomIs
    <3>3. Unmoved(d)
      BY <1>1, <3>1 DEF Unmoved
    <3> QED BY <1>5, <2>2, <3>2, <3>3, UntoldAgrees
  <2> QED BY <2>1, <2>2
<1> QED
  BY <1>2, <1>3, <1>4, <1>5, UpdateKnown, ToldAgrees DEF SessionBase

LEMMA JoinAgrees ==
    ASSUME SessionBase, LobbyInv', NEW c \in Clients, mPlayers[c].connected,
           NEW j, SeatTaken(c, j),
           Announced({c}, RoomJoined(j), InRoom(j), Update),
           NEW d \in Clients, WillAgree(d)
    PROVE  WillAgree(d)'
<1>1. /\ j \in Nat /\ j # NoRoom /\ PlayerIds' = Clients
      /\ mPlayers'[c].roomId = j
      /\ \A q \in Clients : q # c => mPlayers'[q] = mPlayers[q]
      /\ \A r \in DOMAIN mRooms : mRooms'[r].match = mRooms[r].match
  <2>1. j \in DOMAIN mRooms /\ j # NoRoom /\ LobbyInv
    BY DEF SeatTaken, SessionBase
  <2>2. j \in Nat
    BY <2>1, SizesAssumption DEF LobbyInv
  <2> QED BY <2>1, <2>2 DEF SeatTaken, SessionBase
<1>2. RoomJoined(j) \in Packets /\ Seating(RoomJoined(j)) /\ Says(RoomJoined(j)) = j
  BY <1>1, PacketsKnown, SeatingKinds
<1>3. PICK b : b = InRoom(j)
  OBVIOUS
<1>4. SeatTold(d, {c}, RoomJoined(j), Update)
  BY <1>1, <1>2, UpdateKnown DEF SeatTold
<1>5. ASSUME NEW last \in ClientStates, NEW final \in ClientStates, AgreesWith(last, d),
             Told(last, d, {c}, RoomJoined(j), b, Update, final)
      PROVE  AgreesWith(final, d)'
  <2>1. CASE d = c
    <3>1. d \in b
      BY <1>1, <1>3, <2>1, InRoomIs
    <3> QED BY <1>1, <1>5, <2>1, <3>1, JoinedAgrees
  <2>2. CASE d # c
    <3>1. /\ mPlayers'[d] = mPlayers[d]
          /\ mPlayers[d].roomId \in DOMAIN mRooms \cup {NoRoom}
      BY <1>1, <2>2 DEF SessionBase, LobbyInv, ProfileSound
    <3>2. d \in b <=> mPlayers[d].roomId = j
      BY <1>1, <1>3, <3>1, InRoomIs
    <3>3. CASE d \in b
      <4>1. PICK mid \in ClientStates : Step(mid, Update, final)
        BY <1>5, <3>3 DEF Told
      <4>2. final.phase = "WaitingRoom"
        BY <4>1, UpdateStep DEF Update
      <4> QED BY <1>1, <3>1, <3>2, <3>3, <4>2, WaitingAgrees
    <3>4. CASE d \notin b
      <4>1. Unmoved(d)
        BY <1>1, <3>1 DEF Unmoved
      <4> QED BY <1>5, <2>2, <3>4, <4>1, UntoldAgrees
    <3> QED BY <3>3, <3>4
  <2> QED BY <2>1, <2>2
<1> QED
  BY <1>2, <1>3, <1>4, <1>5, UpdateKnown, ToldAgrees DEF SessionBase

\* One answer, to a request that has changed nothing.
LEMMA AnswerAgrees ==
    ASSUME SessionBase, UNCHANGED vars, NEW c \in Clients, NEW first \in Packets,
           Seating(first) => Says(first) = mPlayers[c].roomId,
           Announced({c}, first, {}, Update), NEW d \in Clients, WillAgree(d),
           \A last \in ClientStates, final \in ClientStates :
               AgreesWith(last, c) /\ Step(last, first, final) => AgreesWith(final, c)
    PROVE  WillAgree(d)'
<1>1. Unmoved(d) /\ mPlayers' = mPlayers
  BY DEF Unmoved, vars
<1>2. SeatTold(d, {c}, first, Update)
  BY <1>1, UpdateKnown DEF SeatTold
<1>3. ASSUME NEW last \in ClientStates, NEW final \in ClientStates, AgreesWith(last, d),
             Told(last, d, {c}, first, {}, Update, final)
      PROVE  AgreesWith(final, d)'
  <2>1. CASE d = c
    <3>1. Step(last, first, final)
      BY <1>3, <2>1 DEF Told
    <3>2. AgreesWith(final, d)
      BY <1>3, <2>1, <3>1
    <3> QED BY <1>1, <3>2, UnmovedAgrees
  <2>2. CASE d # c
    BY <1>1, <1>3, <2>2, UntoldAgrees
  <2> QED BY <2>1, <2>2
<1> QED
  BY <1>2, <1>3, UpdateKnown, ToldAgrees DEF SessionBase

LEMMA RefusalAgrees ==
    ASSUME NEW c \in Clients, NEW last \in ClientStates, AgreesWith(last, c), NEW final
    PROVE  /\ Step(last, RoomJoined(NoRoom), final) => AgreesWith(final, c)
           /\ Step(last, Packet("ErrorNotice"), final) => AgreesWith(final, c)
           /\ Step(last, Packet("LeaveRoomResponse"), final) => AgreesWith(final, c)
<1>1. Step(last, RoomJoined(NoRoom), final) => AgreesWith(final, c)
  BY RoomJoinedStep DEF AgreesWith, NoRoom
<1>2. Step(last, Packet("ErrorNotice"), final) => AgreesWith(final, c)
  BY ErrorStep, SameAgrees
<1>3. Step(last, Packet("LeaveRoomResponse"), final) => AgreesWith(final, c)
  BY LeftStep DEF AgreesWith
<1> QED BY <1>1, <1>2, <1>3

\* Who has left, and is told.
LEMMA MenuAgrees ==
    ASSUME NEW d, NEW a, d \in a, NEW b, d \notin b,
           NEW kind \in {"LeaveRoomResponse", "RoomClosedNotice"},
           NEW last \in ClientStates, NEW final, Told(last, d, a, Packet(kind), b, Update, final)
    PROVE  AgreesWith(final, d)'
<1>1. Step(last, Packet(kind), final)
  BY DEF Told
<1>2. final.phase = "StartMenu"
  BY <1>1, LeftStep
<1> QED BY <1>2 DEF AgreesWith

\* The room has been closed, and a are those of its players who are told.
LEMMA ClosedAgrees ==
    ASSUME SessionBase, NEW c \in Clients, NEW j \in DOMAIN mRooms, RoomClosed(c, j),
           NEW a, Announced(a, Packet("RoomClosedNotice"), {}, Update),
           NEW d \in Clients, d \in a <=> d \in Members(j), WillAgree(d)
    PROVE  WillAgree(d)'
<1>1. /\ Packet("RoomClosedNotice") \in Packets
      /\ Seating(Packet("RoomClosedNotice")) /\ Says(Packet("RoomClosedNotice")) = NoRoom
  BY PacketsKnown, SeatingKinds DEF Notices
<1>2. /\ d \in Members(j) => mPlayers'[d].roomId = NoRoom /\ mPlayers[d].connected
      /\ d \notin Members(j) => /\ mPlayers'[d] = mPlayers[d] /\ mPlayers[d].roomId # j
                                /\ mPlayers[d].roomId \in DOMAIN mRooms \cup {NoRoom}
  BY DEF RoomClosed, SessionBase, LobbyInv, RoomSound, ProfileSound
<1>3. SeatTold(d, a, Packet("RoomClosedNotice"), Update)
  BY <1>1, <1>2, UpdateKnown DEF SeatTold
<1>4. ASSUME NEW last \in ClientStates, NEW final \in ClientStates, AgreesWith(last, d),
             Told(last, d, a, Packet("RoomClosedNotice"), {}, Update, final)
      PROVE  AgreesWith(final, d)'
  <2>1. CASE d \in a
    BY <1>4, <2>1, MenuAgrees
  <2>2. CASE d \notin a
    <3>1. Unmoved(d)
      BY <1>2, <2>2 DEF RoomClosed, Unmoved
    <3> QED BY <1>4, <2>2, <3>1, UntoldAgrees
  <2> QED BY <2>1, <2>2
<1> QED
  BY <1>1, <1>3, <1>4, UpdateKnown, ToldAgrees DEF SessionBase

\* The others of a room, when one of its players has gone.
LEMMA StayedAgrees ==
    ASSUME SessionBase, LobbyInv', NEW c \in Clients, NEW j, SeatGivenUp(c, j),
           NEW d \in Clients, d # c, NEW last \in ClientStates, AgreesWith(last, d),
           NEW final,
           IF mPlayers'[d].roomId = j THEN Step(last, Update, final) ELSE final = last
    PROVE  AgreesWith(final, d)'
<1>1. /\ mPlayers'[d] = mPlayers[d] /\ j # NoRoom
      /\ mPlayers[d].roomId \in DOMAIN mRooms \cup {NoRoom}
      /\ \A r \in DOMAIN mRooms : mRooms'[r].match = mRooms[r].match
  BY RoomFacts DEF SeatGivenUp, SessionBase, LobbyInv, ProfileSound
<1>2. CASE mPlayers'[d].roomId = j
  <2>1. final.phase = "WaitingRoom"
    BY <1>2, UpdateStep DEF Update
  <2> QED BY <1>1, <1>2, <2>1, WaitingAgrees
<1>3. CASE mPlayers'[d].roomId # j
  <2>1. Unmoved(d)
    BY <1>1 DEF Unmoved
  <2> QED BY <1>3, <2>1, UnmovedAgrees
<1> QED BY <1>2, <1>3

LEMMA LeftAgrees ==
    ASSUME SessionBase, LobbyInv', NEW c \in Clients, NEW j, SeatGivenUp(c, j),
           Announced({c}, Packet("LeaveRoomResponse"), InRoom(j), Update),
           NEW d \in Clients, WillAgree(d)
    PROVE  WillAgree(d)'
<1>1. /\ j # NoRoom /\ PlayerIds' = Clients
      /\ mPlayers'[c].roomId = NoRoom /\ mPlayers[c].connected
      /\ \A q \in Clients : q # c => mPlayers'[q] = mPlayers[q]
  BY RoomFacts DEF SeatGivenUp, SessionBase, LobbyInv, RoomSound
<1>2. /\ Packet("LeaveRoomResponse") \in Packets
      /\ Seating(Packet("LeaveRoomResponse")) /\ Says(Packet("LeaveRoomResponse")) = NoRoom
  BY PacketsKnown, SeatingKinds DEF Notices
<1>3. PICK b : b = InRoom(j)
  OBVIOUS
<1>4. d \in b <=> mPlayers'[d].roomId = j
  BY <1>1, <1>3, InRoomIs
<1>5. SeatTold(d, {c}, Packet("LeaveRoomResponse"), Update)
  BY <1>1, <1>2, UpdateKnown DEF SeatTold
<1>6. ASSUME NEW last \in ClientStates, NEW final \in ClientStates, AgreesWith(last, d),
             Told(last, d, {c}, Packet("LeaveRoomResponse"), b, Update, final)
      PROVE  AgreesWith(final, d)'
  <2>1. CASE d = c
    <3>1. d \notin b
      BY <1>1, <1>4, <2>1
    <3> QED BY <1>6, <2>1, <3>1, MenuAgrees
  <2>2. CASE d # c
    <3>1. IF mPlayers'[d].roomId = j THEN Step(last, Update, final) ELSE final = last
      BY <1>4, <1>6, <2>2 DEF Told
    <3> QED BY <1>6, <2>2, <3>1, StayedAgrees
  <2> QED BY <2>1, <2>2
<1> QED
  BY <1>2, <1>3, <1>5, <1>6, UpdateKnown, ToldAgrees DEF SessionBase

\* The same, of a player who was disconnected and is told nothing.
LEMMA GoneAgrees ==
    ASSUME SessionBase, LobbyInv', NEW c \in Clients, NEW j, SeatGivenUp(c, j),
           Announced(InRoom(j), Update, {}, Update),
           NEW d \in Clients, d # c, WillAgree(d)
    PROVE  WillAgree(d)'
<1>1. /\ j # NoRoom /\ PlayerIds' = Clients
      /\ mPlayers'[d] = mPlayers[d]
  BY RoomFacts DEF SeatGivenUp, SessionBase
<1>2. PICK a : a = InRoom(j)
  OBVIOUS
<1>3. d \in a <=> mPlayers'[d].roomId = j
  BY <1>1, <1>2, InRoomIs
<1>4. SeatTold(d, a, Update, Update)
  BY <1>1, UpdateKnown DEF SeatTold
<1>5. ASSUME NEW last \in ClientStates, NEW final \in ClientStates, AgreesWith(last, d),
             Told(last, d, a, Update, {}, Update, final)
      PROVE  AgreesWith(final, d)'
  <2>1. IF mPlayers'[d].roomId = j THEN Step(last, Update, final) ELSE final = last
    BY <1>3, <1>5 DEF Told
  <2> QED BY <1>5, <2>1, StayedAgrees
<1> QED
  BY <1>2, <1>4, <1>5, UpdateKnown, ToldAgrees DEF SessionBase

-----------------------------------------------------------------------------
(* Rounds                                                                   *)

\* What a packet of the match leaves alone.
LEMMA OtherRoomUnmoved ==
    ASSUME SessionBase, NEW j \in DOMAIN mRooms, FlagsChanged(j), NEW match, MatchReplaced(j, match),
           NEW d \in Clients
    PROVE  /\ mPlayers'[d].roomId = mPlayers[d].roomId
           /\ mPlayers'[d].connected = mPlayers[d].connected
           /\ mPlayers[d].roomId = j => mRooms'[mPlayers[d].roomId].match = match
           /\ mPlayers[d].roomId # j \/ match = mRooms[j].match => Unmoved(d)
<1>1. /\ mPlayers'[d].roomId = mPlayers[d].roomId
      /\ mPlayers'[d].connected = mPlayers[d].connected
      /\ mPlayers[d].roomId \in DOMAIN mRooms \cup {NoRoom}
      /\ \A r \in DOMAIN mRooms : r # j => mRooms'[r] = mRooms[r]
      /\ mRooms'[j].match = match
  BY DEF SessionBase, LobbyInv, ProfileSound, FlagsChanged, MatchReplaced
<1> QED BY <1>1 DEF Unmoved

LEMMA RoundPackets ==
    /\ Packet("MatchStarted") \in Packets /\ ~Seating(Packet("MatchStarted"))
    /\ Packet("RoundFinishedNotice") \in Packets /\ ~Seating(Packet("RoundFinishedNotice"))
  BY PacketsKnown, SeatingKinds DEF Notices

\* A client that reads of the start shows the empty board of the match that runs, or,
\* if it believes itself in no room, goes on without a board.
LEMMA StartedAgrees ==
    ASSUME NEW d, NEW match, mPlayers'[d].roomId # NoRoom,
           mRooms'[mPlayers'[d].roomId].match = match, match.phase = "running",
           NEW mid \in ClientStates, NEW final, Step(mid, Packet("MatchStarted"), final)
    PROVE  AgreesWith(final, d)'
<1>1. \/ final.phase = "Playing" /\ final.confirmed = {}
      \/ final.phase # "Playing"
  BY StartedStep
<1> QED BY <1>1 DEF AgreesWith

\* A ready toggle shows the room to its players, and then the match it starts.
LEMMA ReadyAgrees ==
    ASSUME SessionBase, LobbyInv', PlayerIds' = Clients,
           NEW j \in DOMAIN mRooms, FlagsChanged(j),
           NEW match, MatchReplaced(j, match),
           NEW starts \in BOOLEAN, starts => match.phase = "running",
           ~starts => match = mRooms[j].match,
           NEW b, b = (IF starts THEN InRoom(j) ELSE {}),
           Announced(InRoom(j), Update, b, Packet("MatchStarted")),
           NEW d \in Clients, WillAgree(d)
    PROVE  WillAgree(d)'
<1>1. PICK a : a = InRoom(j)
  OBVIOUS
<1>2. /\ j # NoRoom
      /\ mPlayers'[d].roomId = mPlayers[d].roomId
      /\ mPlayers'[d].connected = mPlayers[d].connected
      /\ mPlayers[d].roomId = j => mRooms'[mPlayers[d].roomId].match = match
      /\ mPlayers[d].roomId # j => Unmoved(d)
  BY RoomFacts, OtherRoomUnmoved DEF SessionBase
<1>3. /\ d \in a <=> mPlayers[d].roomId = j
      /\ d \in b <=> mPlayers[d].roomId = j /\ starts
  BY <1>1, <1>2, InRoomIs
<1>4. SeatTold(d, a, Update, Packet("MatchStarted"))
  BY <1>2, UpdateKnown, RoundPackets DEF SeatTold
<1>5. ASSUME NEW last \in ClientStates, NEW final \in ClientStates, AgreesWith(last, d),
             Told(last, d, a, Update, b, Packet("MatchStarted"), final)
      PROVE  AgreesWith(final, d)'
  <2>1. CASE mPlayers[d].roomId # j
    BY <1>2, <1>3, <1>5, <2>1, UntoldAgrees
  <2>2. CASE mPlayers[d].roomId = j
    <3>1. PICK mid \in ClientStates :
            /\ Step(last, Update, mid)
            /\ IF starts THEN Step(mid, Packet("MatchStarted"), final) ELSE final = mid
      BY <1>3, <1>5, <2>2 DEF Told
    <3>2. CASE starts
      BY <1>2, <2>2, <3>1, <3>2, StartedAgrees
    <3>3. CASE ~starts
      <4>1. final.phase = "WaitingRoom"
        BY <3>1, <3>3, UpdateStep DEF Update
      <4> QED BY <1>2, <2>2, <4>1, WaitingAgrees
    <3> QED BY <3>2, <3>3
  <2> QED BY <2>1, <2>2
<1> QED
  BY <1>1, <1>4, <1>5, UpdateKnown, RoundPackets, ToldAgrees DEF SessionBase

\* A vote shows the players of the room the match it starts, or nothing.
LEMMA VoteAgrees ==
    ASSUME SessionBase, LobbyInv', PlayerIds' = Clients,
           NEW j \in DOMAIN mRooms, FlagsChanged(j),
           NEW match, MatchReplaced(j, match),
           NEW starts \in BOOLEAN, starts => match.phase = "running",
           ~starts => match = mRooms[j].match,
           NEW b, b = (IF starts THEN InRoom(j) ELSE {}),
           Announced({}, Update, b, Packet("MatchStarted")),
           NEW d \in Clients, WillAgree(d)
    PROVE  WillAgree(d)'
<1>1. /\ j # NoRoom
      /\ mPlayers'[d].roomId = mPlayers[d].roomId
      /\ mPlayers'[d].connected = mPlayers[d].connected
      /\ mPlayers[d].roomId = j => mRooms'[mPlayers[d].roomId].match = match
      /\ mPlayers[d].roomId # j \/ match = mRooms[j].match => Unmoved(d)
  BY RoomFacts, OtherRoomUnmoved DEF SessionBase
<1>2. d \in b <=> mPlayers[d].roomId = j /\ starts
  BY <1>1, InRoomIs
<1>3. SeatTold(d, {}, Update, Packet("MatchStarted"))
  BY <1>1, RoundPackets DEF SeatTold
<1>4. ASSUME NEW last \in ClientStates, NEW final \in ClientStates, AgreesWith(last, d),
             Told(last, d, {}, Update, b, Packet("MatchStarted"), final)
      PROVE  AgreesWith(final, d)'
  <2>1. CASE d \notin b
    BY <1>1, <1>2, <1>4, <2>1, UntoldAgrees
  <2>2. CASE d \in b
    <3>1. PICK mid \in ClientStates : Step(mid, Packet("MatchStarted"), final)
      BY <1>4, <2>2 DEF Told
    <3> QED BY <1>1, <1>2, <2>2, <3>1, StartedAgrees
  <2> QED BY <2>1, <2>2
<1> QED
  BY <1>3, <1>4, UpdateKnown, RoundPackets, ToldAgrees DEF SessionBase

\* A move is answered to its player; the players of the room learn of the finish.
\* A cell that is confirmed is one that the server has filled for the player.
LEMMA MoveAgrees ==
    ASSUME SessionBase, LobbyInv', PlayerIds' = Clients, NEW c \in Clients,
           NEW j \in DOMAIN mRooms, j = mPlayers[c].roomId, FlagsChanged(j),
           NEW match, MatchReplaced(j, match),
           match.phase = mRooms[j].match.phase \/ match.phase \in {"running", "finished"},
           \A q \in DOMAIN mRooms[j].match.filled :
                q \in DOMAIN match.filled /\ mRooms[j].match.filled[q] \subseteq match.filled[q],
           NEW cell \in Cells \cup {TopLeft}, NEW correct \in BOOLEAN,
           correct => c \in DOMAIN match.filled /\ cell \in match.filled[c],
           NEW b, b = (IF match.phase = "finished" THEN InRoom(j) ELSE {}),
           Announced({c}, CellChecked(cell, correct), b, Packet("RoundFinishedNotice")),
           NEW d \in Clients, WillAgree(d)
    PROVE  WillAgree(d)'
<1>1. CellChecked(cell, correct) \in Packets /\ ~Seating(CellChecked(cell, correct))
  BY PacketsKnown, SeatingKinds
<1>2. /\ j # NoRoom
      /\ mPlayers'[d].roomId = mPlayers[d].roomId
      /\ mPlayers'[d].connected = mPlayers[d].connected
      /\ mPlayers[d].roomId = j => mRooms'[mPlayers[d].roomId].match = match
      /\ mPlayers[d].roomId # j => Unmoved(d)
  BY RoomFacts, OtherRoomUnmoved DEF SessionBase
<1>3. d \in b <=> mPlayers[d].roomId = j /\ match.phase = "finished"
  BY <1>2, InRoomIs
<1>4. SeatTold(d, {c}, CellChecked(cell, correct), Packet("RoundFinishedNotice"))
  BY <1>1, <1>2, RoundPackets DEF SeatTold
<1>5. ASSUME NEW last \in ClientStates, NEW final \in ClientStates, AgreesWith(last, d),
             Told(last, d, {c}, CellChecked(cell, correct), b, Packet("RoundFinishedNotice"), final)
      PROVE  AgreesWith(final, d)'
  <2>1. CASE mPlayers[d].roomId # j
    <3>1. d # c /\ d \notin b
      BY <1>3, <2>1
    <3> QED BY <1>2, <1>5, <2>1, <3>1, UntoldAgrees
  <2>2. CASE mPlayers[d].roomId = j
    <3>1. PICK mid \in ClientStates :
            /\ IF d = c THEN Step(last, CellChecked(cell, correct), mid) ELSE mid = last
            /\ IF d \in b THEN Step(mid, Packet("RoundFinishedNotice"), final) ELSE final = mid
      BY <1>5 DEF Told
    <3>2. /\ mid.phase = last.phase
          /\ mid.confirmed \subseteq last.confirmed \cup (IF d = c /\ correct THEN {cell} ELSE {})
      <4>1. CASE d = c
        BY <3>1, <4>1, CheckedStep
      <4>2. CASE d # c
        BY <3>1, <4>2
      <4> QED BY <4>1, <4>2
    <3>3. CASE d \in b
      <4>1. final.phase = "RoundSummary"
        BY <3>1, <3>3, FinishedStep
      <4> QED BY <1>2, <2>2, <4>1 DEF AgreesWith
    <3>4. CASE d \notin b
      <4>1. final = mid /\ match.phase # "finished"
        BY <1>3, <2>2, <3>1, <3>4
      <4>2. ASSUME mid.phase = "Playing"
            PROVE  /\ match.phase = "running"
                   /\ mid.confirmed # {} => d \in DOMAIN match.filled
                                            /\ mid.confirmed \subseteq match.filled[d]
        <5>1. /\ mRooms[j].match.phase = "running"
              /\ last.confirmed # {} => /\ d \in DOMAIN mRooms[j].match.filled
                                        /\ last.confirmed \subseteq mRooms[j].match.filled[d]
          BY <1>5, <2>2, <3>2, <4>2 DEF AgreesWith
        <5>2. match.phase = "running"
          BY <4>1, <5>1
        <5>3. last.confirmed # {} => /\ d \in DOMAIN match.filled
                                     /\ last.confirmed \subseteq match.filled[d]
          BY <5>1
        <5> QED BY <3>2, <5>2, <5>3
      <4> QED BY <1>2, <2>2, <3>2, <4>1, <4>2 DEF AgreesWith
    <3> QED BY <3>3, <3>4
  <2> QED BY <2>1, <2>2
<1> QED
  BY <1>1, <1>4, <1>5, RoundPackets, ToldAgrees DEF SessionBase

-----------------------------------------------------------------------------
(* Requests at the server                                                   *)

LEMMA RequestFacts ==
    ASSUME SessionTypes, NEW c \in Clients, NEW kind, Request(c, kind)
    PROVE  /\ toServer[c] \in Seq(Made) /\ toServer[c] # <<>>
           /\ Head(toServer[c]) \in Made /\ Tail(toServer[c]) \in Seq(Made)
           /\ kind \in {"ready", "playAgain"} => Head(toServer[c]).flag \in BOOLEAN
           /\ kind = "move" => Head(toServer[c]).cell \in Cells
<1>1. toServer[c] \in Seq(Made) /\ toServer[c] # <<>> /\ Head(toServer[c]).kind = kind
  BY DEF SessionTypes, Request
<1>2. Head(toServer[c]) \in Made /\ Tail(toServer[c]) \in Seq(Made)
  BY <1>1, HeadTailProperties
<1> DEFINE head == Head(toServer[c])
<1> HIDE DEF head
<1>3. ASSUME head \in Made
      PROVE  /\ head.kind \in {"ready", "playAgain"} => head.flag \in BOOLEAN
             /\ head.kind = "move" => head.cell \in Cells
  BY <1>3 DEF Made, Packet
<1> QED BY <1>1, <1>2, <1>3 DEF head

\* A request is handled: it is gone, and its answers are sent.
LEMMA HandledFacts ==
    ASSUME SessionTypes, NobodyReading, NEW c \in Clients, NEW kind, Request(c, kind),
           NEW a, NEW first \in Packets, NEW b, NEW second \in Packets,
           Handled(c, To(a, <<first>>), To(b, <<second>>))
    PROVE  Announced(a, first, b, second) /\ SessionTypes'
<1>1. Announced(a, first, b, second)
  BY DEF Handled, Announced
<1>2. toServer' = [toServer EXCEPT ![c] = Tail(toServer[c])] /\ Tail(toServer[c]) \in Seq(Made)
  BY RequestFacts DEF Handled
<1>3. toServer' \in [Clients -> Seq(Made)]
  BY <1>2 DEF SessionTypes
<1>4. /\ client' \in [Clients -> ClientStates]
      /\ toClient' \in [Clients -> Seq(Packets)] /\ inbox' \in [Clients -> Seq(Packets)]
  BY <1>1, AnnouncedTypes
<1> QED BY <1>1, <1>3, <1>4 DEF SessionTypes

\* Only a vote that is handled can count for more than it did.
VotesOf(c) ==
    /\ \A q \in Clients \ {c} : mPlayers'[q].playAgain => mPlayers[q].playAgain
    /\ Request(c, "playAgain") => (mPlayers'[c].playAgain => Head(toServer[c]).flag)
    /\ ~Request(c, "playAgain") => (mPlayers'[c].playAgain => mPlayers[c].playAgain)

Kept(c) ==
    /\ SessionBase'
    /\ \A d \in Clients : WillAgree(d) => WillAgree(d)'
    /\ VotesOf(c)

LEMMA UnchangedBase ==
    ASSUME SessionBase, UNCHANGED vars
    PROVE  /\ LobbyInv' /\ PlayerIds' = Clients
           /\ \A q \in Clients : mPlayers'[q].playAgain => mPlayers[q].playAgain
<1>1. LobbyInv'
  BY NextLobbyInv DEF SessionBase
<1> QED BY <1>1 DEF SessionBase, vars, PlayerIds

LEMMA CreateKept ==
    ASSUME SessionBase, NobodyReading, NEW c \in Clients, mPlayers[c].connected, HandleCreate(c)
    PROVE  Kept(c)
<1>1. /\ Request(c, "create") /\ ~Request(c, "playAgain") /\ c \in ConnectedIds
      /\ SessionTypes /\ LobbyInv /\ Update \in Packets
  BY PacketsKnown DEF HandleCreate, Request, SessionBase, ConnectedIds, Update, Notices
<1>2. CASE /\ CreateRoomForPlayer(c, MaxPlayers)
           /\ LET r == mPlayers'[c].roomId IN
              Handled(c, To({c}, <<RoomJoined(r)>>), Snapshot(r))
  <2>1. MaxPlayers \in Int
    BY SizesAssumption
  <2>2. PICK j \in 1..MaxProfiles : RoomOpened(c, j, MaxPlayers)
    BY <1>1, <1>2, <2>1, CreateFacts
  <2>3. LobbyInv' /\ PlayerIds' = Clients /\ mPlayers'[c].roomId = j /\ j \in Nat
    BY <1>1, <2>2, CreateKeepsInv, SizesAssumption DEF RoomOpened, SessionBase
  <2>4. RoomJoined(j) \in Packets
    BY <2>3, PacketsKnown
  <2>5. Handled(c, To({c}, <<RoomJoined(j)>>), To(InRoom(j), <<Update>>))
    BY <1>2, <2>3 DEF Snapshot, Update
  <2>6. Announced({c}, RoomJoined(j), InRoom(j), Update) /\ SessionTypes'
    BY <1>1, <2>4, <2>5, HandledFacts
  <2>7. \A d \in Clients : WillAgree(d) => WillAgree(d)'
    BY <2>2, <2>3, <2>6, CreateAgrees
  <2>8. VotesOf(c)
    BY <1>1, <2>2 DEF VotesOf, RoomOpened, SessionBase
  <2> QED BY <2>3, <2>6, <2>7, <2>8 DEF Kept, SessionBase
<1>3. CASE /\ mPlayers[c].roomId # NoRoom
           /\ UNCHANGED vars
           /\ Handled(c, To({c}, <<RoomJoined(NoRoom)>>), Nothing)
  <2>1. /\ LobbyInv' /\ PlayerIds' = Clients
        /\ \A q \in Clients : mPlayers'[q].playAgain => mPlayers[q].playAgain
    BY <1>3, UnchangedBase
  <2>2. RoomJoined(NoRoom) \in Packets /\ Nothing = To({}, <<Update>>)
    BY PacketsKnown, NothingSent DEF NoRoom
  <2>3. Announced({c}, RoomJoined(NoRoom), {}, Update) /\ SessionTypes'
    BY <1>1, <1>3, <2>2, HandledFacts
  <2>4. \A d \in Clients : WillAgree(d) => WillAgree(d)'
    BY <1>3, <2>2, <2>3, AnswerAgrees, RefusalAgrees, SeatingKinds DEF NoRoom
  <2> QED BY <1>1, <2>1, <2>3, <2>4 DEF Kept, SessionBase, VotesOf
<1> QED BY <1>2, <1>3 DEF HandleCreate

LEMMA JoinKept ==
    ASSUME SessionBase, NobodyReading, NEW c \in Clients, mPlayers[c].connected, HandleJoin(c)
    PROVE  Kept(c)
<1>1. /\ Request(c, "join") /\ ~Request(c, "playAgain") /\ c \in ConnectedIds
      /\ SessionTypes /\ LobbyInv /\ Update \in Packets
  BY PacketsKnown DEF HandleJoin, Request, SessionBase, ConnectedIds, Update, Notices
<1>2. PICK r : r = Head(toServer[c]).room
  OBVIOUS
<1>3. CASE /\ JoinRoomForPlayer(c, r)
           /\ Handled(c, To({c}, <<RoomJoined(r)>>), Snapshot(r))
  <2>1. r \in DOMAIN mRooms
    BY <1>3 DEF JoinRoomForPlayer, CanJoin
  <2>2. SeatTaken(c, r) /\ r \in Nat
    BY <1>1, <1>3, <2>1, JoinFacts, SizesAssumption DEF LobbyInv
  <2>3. LobbyInv' /\ PlayerIds' = Clients
    BY <1>1, <2>2, JoinKeepsInv DEF SeatTaken, SessionBase
  <2>4. RoomJoined(r) \in Packets
    BY <2>2, PacketsKnown
  <2>5. Handled(c, To({c}, <<RoomJoined(r)>>), To(InRoom(r), <<Update>>))
    BY <1>3 DEF Snapshot, Update
  <2>6. Announced({c}, RoomJoined(r), InRoom(r), Update) /\ SessionTypes'
    BY <1>1, <2>4, <2>5, HandledFacts
  <2>7. \A d \in Clients : WillAgree(d) => WillAgree(d)'
    BY <2>2, <2>3, <2>6, JoinAgrees
  <2>8. VotesOf(c)
    BY <1>1, <2>2 DEF VotesOf, SeatTaken, SessionBase
  <2> QED BY <2>3, <2>6, <2>7, <2>8 DEF Kept, SessionBase
<1>4. CASE /\ UNCHANGED vars
           /\ Handled(c, To({c}, <<RoomJoined(NoRoom)>>), Nothing)
  <2>1. /\ LobbyInv' /\ PlayerIds' = Clients
        /\ \A q \in Clients : mPlayers'[q].playAgain => mPlayers[q].playAgain
    BY <1>4, UnchangedBase
  <2>2. RoomJoined(NoRoom) \in Packets /\ Nothing = To({}, <<Update>>)
    BY PacketsKnown, NothingSent DEF NoRoom
  <2>3. Announced({c}, RoomJoined(NoRoom), {}, Update) /\ SessionTypes'
    BY <1>1, <1>4, <2>2, HandledFacts
  <2>4. \A d \in Clients : WillAgree(d) => WillAgree(d)'
    BY <1>4, <2>2, <2>3, AnswerAgrees, RefusalAgrees, SeatingKinds DEF NoRoom
  <2> QED BY <1>1, <2>1, <2>3, <2>4 DEF Kept, SessionBase, VotesOf
<1> QED BY <1>2, <1>3, <1>4 DEF HandleJoin

LEMMA LeaveKept ==
    ASSUME SessionBase, NobodyReading, NEW c \in Clients, mPlayers[c].connected, HandleLeave(c)
    PROVE  Kept(c)
<1>1. /\ Request(c, "leave") /\ ~Request(c, "playAgain") /\ c \in PlayerIds
      /\ SessionTypes /\ LobbyInv /\ Update \in Packets
      /\ Packet("RoomClosedNotice") \in Packets /\ Packet("LeaveRoomResponse") \in Packets
  BY PacketsKnown DEF HandleLeave, Request, SessionBase, Update, Notices
<1>2. PICK r : r = mPlayers[c].roomId
  OBVIOUS
<1>3. Nothing = To({}, <<Update>>)
  BY NothingSent
<1>4. CASE LeaveRoom(c)
  <2>1. GivenUpBy(mPlayers, c)
    BY <1>1 DEF GivenUpBy, LobbyInv
  <2>2. /\ r \in DOMAIN mRooms /\ LobbyInv'
        /\ IsHost(r, c) => RoomClosed(c, r)
        /\ ~IsHost(r, c) => SeatGivenUp(c, r)
    BY <1>1, <1>2, <1>4, <2>1, GiveUpFacts, GiveUpKeepsInv DEF LeaveRoom
  <2>3. PlayerIds' = Clients /\ VotesOf(c)
    BY <1>1, <2>2 DEF VotesOf, RoomClosed, SeatGivenUp, SessionBase
  <2>4. CASE IsHost(r, c) /\ Handled(c, To(Members(r), <<Packet("RoomClosedNotice")>>), Nothing)
    <3>1. Announced(Members(r), Packet("RoomClosedNotice"), {}, Update) /\ SessionTypes'
      BY <1>1, <1>3, <2>4, HandledFacts
    <3>2. \A d \in Clients : WillAgree(d) => WillAgree(d)'
      BY <2>2, <2>4, <3>1, ClosedAgrees
    <3> QED BY <2>2, <2>3, <3>1, <3>2 DEF Kept, SessionBase
  <2>5. CASE ~IsHost(r, c) /\ Handled(c, To({c}, <<Packet("LeaveRoomResponse")>>), Snapshot(r))
    <3>1. Handled(c, To({c}, <<Packet("LeaveRoomResponse")>>), To(InRoom(r), <<Update>>))
      BY <2>5 DEF Snapshot, Update
    <3>2. Announced({c}, Packet("LeaveRoomResponse"), InRoom(r), Update) /\ SessionTypes'
      BY <1>1, <3>1, HandledFacts
    <3>3. \A d \in Clients : WillAgree(d) => WillAgree(d)'
      BY <2>2, <2>5, <3>2, LeftAgrees
    <3> QED BY <2>2, <2>3, <3>2, <3>3 DEF Kept, SessionBase
  <2>6. LeaveRoom(c) /\ r # NoRoom
    BY <1>2, <1>4 DEF LeaveRoom
  <2> QED BY <1>2, <2>4, <2>5, <2>6 DEF HandleLeave
<1>5. CASE /\ r = NoRoom
           /\ UNCHANGED vars
           /\ Handled(c, To({c}, <<Packet("LeaveRoomResponse")>>), Nothing)
  <2>1. /\ LobbyInv' /\ PlayerIds' = Clients
        /\ \A q \in Clients : mPlayers'[q].playAgain => mPlayers[q].playAgain
    BY <1>5, UnchangedBase
  <2>2. Announced({c}, Packet("LeaveRoomResponse"), {}, Update) /\ SessionTypes'
    BY <1>1, <1>3, <1>5, HandledFacts
  <2>3. \A d \in Clients : WillAgree(d) => WillAgree(d)'
    <3>1. Says(Packet("LeaveRoomResponse")) = mPlayers[c].roomId
      BY <1>2, <1>5, SeatingKinds DEF Notices
    <3> QED BY <1>1, <1>2, <1>5, <2>2, <3>1, AnswerAgrees, RefusalAgrees
  <2> QED BY <1>1, <2>1, <2>2, <2>3 DEF Kept, SessionBase, VotesOf
<1> QED BY <1>2, <1>4, <1>5 DEF HandleLeave

\* Who is in no room is told so.
LEMMA RefusedKept ==
    ASSUME SessionBase, NobodyReading, NEW c \in Clients, NEW kind, Request(c, kind), Refused(c)
    PROVE  Kept(c)
<1>1. SessionTypes /\ LobbyInv /\ Packet("ErrorNotice") \in Packets /\ Update \in Packets
  BY PacketsKnown DEF SessionBase, Update, Notices
<1>2. /\ mPlayers[c].roomId = NoRoom /\ UNCHANGED vars
      /\ Handled(c, To({c}, <<Packet("ErrorNotice")>>), To({}, <<Update>>))
  BY NothingSent DEF Refused
<1>3. /\ LobbyInv' /\ PlayerIds' = Clients
      /\ \A q \in Clients : mPlayers'[q].playAgain => mPlayers[q].playAgain
  BY <1>2, UnchangedBase
<1>4. Announced({c}, Packet("ErrorNotice"), {}, Update) /\ SessionTypes'
  BY <1>1, <1>2, HandledFacts
<1>5. \A d \in Clients : WillAgree(d) => WillAgree(d)'
  <2>1. ~Seating(Packet("ErrorNotice"))
    BY SeatingKinds DEF Notices
  <2> QED BY <1>1, <1>2, <1>4, <2>1, AnswerAgrees, RefusalAgrees
<1>6. ~mPlayers'[c].playAgain
  BY <1>2 DEF SessionBase, LobbyInv, ProfileSound, vars
<1> QED BY <1>3, <1>4, <1>5, <1>6 DEF Kept, SessionBase, VotesOf

LEMMA ReadyKept ==
    ASSUME SessionBase, NobodyReading, NEW c \in Clients, HandleReady(c)
    PROVE  Kept(c)
<1>1. /\ Request(c, "ready") /\ ~Request(c, "playAgain") /\ c \in PlayerIds
      /\ SessionTypes /\ LobbyInv /\ Update \in Packets /\ Packet("MatchStarted") \in Packets
  BY PacketsKnown DEF HandleReady, Request, SessionBase, Update, Notices
<1>2. PICK r : r = mPlayers[c].roomId
  OBVIOUS
<1>3. PICK flag \in BOOLEAN : flag = Head(toServer[c]).flag
  BY <1>1, RequestFacts
<1>4. CASE /\ ToggleReady(c, flag)
           /\ Handled(c, Snapshot(r), IF CanStart(r) THEN Started(r) ELSE Nothing)
  <2>1. /\ r \in DOMAIN mRooms /\ FlagsChanged(r)
        /\ \A q \in PlayerIds : mPlayers'[q].playAgain = mPlayers[q].playAgain
        /\ ReadyRoundPlayed(r)' /\ FullTable(r)'
    BY <1>1, <1>2, <1>4, ToggleReadyFacts
  <2>2. PICK match : /\ MatchOK(match) /\ MatchReplaced(r, match)
                     /\ \/ ~CanStart(r) /\ match = mRooms[r].match
                        \/ /\ CanStart(r) /\ match.phase = "running"
                           /\ \A q \in DOMAIN match.filled : match.filled[q] = {}
    BY <1>1, <1>2, <1>4, ToggleReadyFacts, SMTT(60)
  <2>3. LobbyInv' /\ PlayerIds' = Clients
    BY <1>1, <2>1, <2>2, MatchStepKeepsInv DEF FlagsChanged, SessionBase
  <2>4. PICK starts \in BOOLEAN : starts <=> CanStart(r)
    OBVIOUS
  <2>5. PICK b : b = IF starts THEN InRoom(r) ELSE {}
    OBVIOUS
  <2>6. Handled(c, To(InRoom(r), <<Update>>), To(b, <<Packet("MatchStarted")>>))
    BY <1>4, <2>4, <2>5, NothingSent DEF Snapshot, Started, Update
  <2>7. Announced(InRoom(r), Update, b, Packet("MatchStarted")) /\ SessionTypes'
    BY <1>1, <2>6, HandledFacts
  <2>8. \A d \in Clients : WillAgree(d) => WillAgree(d)'
    BY <2>1, <2>2, <2>3, <2>4, <2>5, <2>7, ReadyAgrees
  <2> QED BY <1>1, <2>1, <2>3, <2>7, <2>8 DEF Kept, SessionBase, VotesOf
<1>5. CASE Refused(c)
  BY <1>1, <1>5, RefusedKept
<1> QED BY <1>2, <1>3, <1>4, <1>5 DEF HandleReady

LEMMA PlayAgainKept ==
    ASSUME SessionBase, NobodyReading, NEW c \in Clients, HandlePlayAgain(c)
    PROVE  Kept(c)
<1>1. /\ Request(c, "playAgain") /\ c \in PlayerIds
      /\ SessionTypes /\ LobbyInv /\ Update \in Packets /\ Packet("MatchStarted") \in Packets
  BY PacketsKnown DEF HandlePlayAgain, Request, SessionBase, Update, Notices
<1>2. PICK r : r = mPlayers[c].roomId
  OBVIOUS
<1>3. PICK flag \in BOOLEAN : flag = Head(toServer[c]).flag
  BY <1>1, RequestFacts
<1>4. CASE /\ TogglePlayAgain(c, flag)
           /\ Handled(c, Nothing, IF VoteComplete(c, flag, r) THEN Started(r) ELSE Nothing)
  <2>1. /\ r \in DOMAIN mRooms /\ FlagsChanged(r)
        /\ mPlayers'[c].playAgain => flag
        /\ \A q \in PlayerIds : q # c => (mPlayers'[q].playAgain => mPlayers[q].playAgain)
        /\ ReadyRoundPlayed(r)' /\ FullTable(r)'
    BY <1>1, <1>2, <1>4, TogglePlayAgainFacts
  <2>2. PICK match : /\ MatchOK(match) /\ MatchReplaced(r, match)
                     /\ \/ ~VoteComplete(c, flag, r) /\ match = mRooms[r].match
                        \/ /\ VoteComplete(c, flag, r) /\ match.phase = "running"
                           /\ \A q \in DOMAIN match.filled : match.filled[q] = {}
    BY <1>1, <1>2, <1>4, TogglePlayAgainFacts
  <2>3. LobbyInv' /\ PlayerIds' = Clients
    BY <1>1, <2>1, <2>2, MatchStepKeepsInv DEF FlagsChanged, SessionBase
  <2>4. PICK starts \in BOOLEAN : starts <=> VoteComplete(c, flag, r)
    OBVIOUS
  <2>5. PICK b : b = IF starts THEN InRoom(r) ELSE {}
    OBVIOUS
  <2>6. Handled(c, To({}, <<Update>>), To(b, <<Packet("MatchStarted")>>))
    BY <1>4, <2>4, <2>5, NothingSent DEF Started
  <2>7. Announced({}, Update, b, Packet("MatchStarted")) /\ SessionTypes'
    BY <1>1, <2>6, HandledFacts
  <2>8. \A d \in Clients : WillAgree(d) => WillAgree(d)'
    BY <2>1, <2>2, <2>3, <2>4, <2>5, <2>7, VoteAgrees
  <2> QED BY <1>1, <1>3, <2>1, <2>3, <2>7, <2>8 DEF Kept, SessionBase, VotesOf
<1>5. CASE Refused(c)
  BY <1>1, <1>5, RefusedKept
<1> QED BY <1>2, <1>3, <1>4, <1>5, Zenon DEF HandlePlayAgain, VoteComplete

\* A move is looked at by the match of the room, if there is one and it runs.
LEMMA MoveKept ==
    ASSUME SessionBase, NobodyReading, NEW c \in Clients, HandleMove(c)
    PROVE  Kept(c)
<1>1. /\ Request(c, "move") /\ ~Request(c, "playAgain") /\ c \in PlayerIds
      /\ SessionTypes /\ LobbyInv /\ Update \in Packets
      /\ Packet("RoundFinishedNotice") \in Packets
  BY PacketsKnown DEF HandleMove, Request, SessionBase, Update, Notices
<1>2. PICK r : r = mPlayers[c].roomId
  OBVIOUS
<1>3. PICK cell \in Cells : cell = Head(toServer[c]).cell
  BY <1>1, RequestFacts
<1>4. PICK running \in BOOLEAN : running <=> r # NoRoom /\ mRooms[r].match.phase = "running"
  OBVIOUS
<1>5. \/ /\ FillCell(c, cell)
         /\ Handled(c, To({c}, <<CellChecked(cell, TRUE)>>), RoundFinished(r))
      \/ /\ running /\ c \in DOMAIN mRooms[r].match.filled /\ cell \in mRooms[r].match.filled[c]
         /\ UNCHANGED vars
         /\ Handled(c, To({c}, <<CellChecked(cell, TRUE)>>), RoundFinished(r))
      \/ /\ UNCHANGED vars
         /\ \E at \in Cells \cup {TopLeft} :
                Handled(c, To({c}, <<CellChecked(at, FALSE)>>), RoundFinished(r))
  BY <1>2, <1>3, <1>4, Zenon DEF HandleMove, MatchOf, DefaultReply
<1>6. ASSUME NEW at \in Cells \cup {TopLeft}, NEW correct \in BOOLEAN,
             CellChecked(at, correct) \in Packets,
             r \in DOMAIN mRooms, FlagsChanged(r), LobbyInv', PlayerIds' = Clients,
             \A q \in Clients : mPlayers'[q].playAgain => mPlayers[q].playAgain,
             NEW match, MatchReplaced(r, match),
             match.phase = mRooms[r].match.phase \/ match.phase \in {"running", "finished"},
             \A q \in DOMAIN mRooms[r].match.filled :
                q \in DOMAIN match.filled /\ mRooms[r].match.filled[q] \subseteq match.filled[q],
             correct => c \in DOMAIN match.filled /\ at \in match.filled[c],
             Handled(c, To({c}, <<CellChecked(at, correct)>>), RoundFinished(r))
      PROVE  Kept(c)
  <2>1. PICK b : b = IF match.phase = "finished" THEN InRoom(r) ELSE {}
    OBVIOUS
  <2>2. r # NoRoom /\ mRooms'[r].match = match
    BY <1>1, <1>6, RoomFacts DEF MatchReplaced
  <2>3. RoundFinished(r) = To(b, <<Packet("RoundFinishedNotice")>>)
    BY <2>1, <2>2, NothingSent DEF RoundFinished
  <2>4. /\ Announced({c}, CellChecked(at, correct), b, Packet("RoundFinishedNotice"))
        /\ SessionTypes'
    BY <1>1, <1>6, <2>3, HandledFacts
  <2>5. \A d \in Clients : WillAgree(d) => WillAgree(d)'
    BY <1>2, <1>6, <2>1, <2>4, MoveAgrees
  <2> QED BY <1>1, <1>6, <2>4, <2>5 DEF Kept, SessionBase, VotesOf
<1>7. CASE /\ FillCell(c, cell)
           /\ Handled(c, To({c}, <<CellChecked(cell, TRUE)>>), RoundFinished(r))
  <2>1. r \in DOMAIN mRooms /\ FlagsChanged(r) /\ UNCHANGED mPlayers
        /\ ReadyRoundPlayed(r)' /\ FullTable(r)'
    BY <1>1, <1>2, <1>7, FillCellFacts
  <2>2. PICK match : /\ MatchOK(match) /\ MatchReplaced(r, match)
                     /\ match.phase # "idle"
                     /\ DOMAIN match.filled = DOMAIN mRooms[r].match.filled
                     /\ c \in DOMAIN match.filled
                     /\ match.filled[c] = mRooms[r].match.filled[c] \cup {cell}
                     /\ \A q \in DOMAIN match.filled :
                            q # c => match.filled[q] = mRooms[r].match.filled[q]
    BY <1>1, <1>2, <1>7, FillCellFacts
  <2>3. LobbyInv' /\ PlayerIds' = Clients
    BY <1>1, <2>1, <2>2, MatchStepKeepsInv DEF FlagsChanged, SessionBase
  <2>4. CellChecked(cell, TRUE) \in Packets
    BY PacketsKnown
  <2>5. match.phase \in {"running", "finished"}
    BY <2>2 DEF MatchOK
  <2>6. \A q \in DOMAIN mRooms[r].match.filled :
            q \in DOMAIN match.filled /\ mRooms[r].match.filled[q] \subseteq match.filled[q]
    BY <2>2
  <2>7. c \in DOMAIN match.filled /\ cell \in match.filled[c]
    BY <2>2
  <2> QED BY <1>6, <1>7, <2>1, <2>2, <2>3, <2>4, <2>5, <2>6, <2>7
<1>8. ASSUME UNCHANGED vars, NEW at \in Cells \cup {TopLeft}, NEW correct \in BOOLEAN,
             correct => /\ r \in DOMAIN mRooms
                        /\ c \in DOMAIN mRooms[r].match.filled /\ at \in mRooms[r].match.filled[c],
             CellChecked(at, correct) \in Packets,
             Handled(c, To({c}, <<CellChecked(at, correct)>>), RoundFinished(r))
      PROVE  Kept(c)
  <2>1. /\ LobbyInv' /\ PlayerIds' = Clients
        /\ \A q \in Clients : mPlayers'[q].playAgain => mPlayers[q].playAgain
    BY <1>8, UnchangedBase
  <2>2. CASE r \in DOMAIN mRooms
    <3>1. FlagsChanged(r) /\ MatchReplaced(r, mRooms[r].match)
      BY <1>1, <1>8, <2>1 DEF FlagsChanged, MatchReplaced, vars, LobbyInv, PlayerIds
    <3> QED BY <1>6, <1>8, <2>1, <2>2, <3>1
  <2>3. CASE r \notin DOMAIN mRooms
    <3>1. r = NoRoom /\ ~correct
      BY <1>1, <1>2, <1>8, <2>3 DEF LobbyInv, ProfileSound
    <3>2. RoundFinished(r) = To({}, <<Update>>)
      BY <3>1, NothingSent DEF RoundFinished
    <3>3. Announced({c}, CellChecked(at, correct), {}, Update) /\ SessionTypes'
      BY <1>1, <1>8, <3>2, HandledFacts
    <3>4. ASSUME NEW last \in ClientStates, NEW final \in ClientStates, AgreesWith(last, c),
                 Step(last, CellChecked(at, correct), final)
          PROVE  AgreesWith(final, c)
      <4>1. final.phase = last.phase
        BY <3>4, CheckedStep
      <4>2. last.phase = "StartMenu"
        BY <1>2, <3>1, <3>4 DEF AgreesWith
      <4> QED BY <4>1, <4>2 DEF AgreesWith
    <3>5. \A d \in Clients : WillAgree(d) => WillAgree(d)'
      BY <1>8, <3>3, <3>4, AnswerAgrees, SeatingKinds
    <3> QED BY <1>1, <2>1, <3>3, <3>5 DEF Kept, SessionBase, VotesOf
  <2> QED BY <2>2, <2>3
<1>9. running => r \in DOMAIN mRooms
  BY <1>1, <1>2, <1>4 DEF LobbyInv, ProfileSound
<1>10. /\ CellChecked(cell, TRUE) \in Packets
       /\ \A at \in Cells \cup {TopLeft} : CellChecked(at, FALSE) \in Packets
  BY PacketsKnown
<1> QED BY <1>5, <1>7, <1>8, <1>9, <1>10

\* A player that is disconnected is not connected, whatever becomes of its room.
LEMMA DisconnectedFacts ==
    ASSUME LobbyInv, NEW p \in PlayerIds, Disconnect(p)
    PROVE  ~mPlayers'[p].connected /\ ~mPlayers'[p].playAgain
<1> DEFINE gone == [mPlayers EXCEPT ![p].connected = FALSE, ![p].ready = FALSE,
                                    ![p].playAgain = FALSE]
           profile == [mPlayers[p] EXCEPT !.connected = FALSE, !.ready = FALSE,
                                          !.playAgain = FALSE]
<1>1. gone = [mPlayers EXCEPT ![p] = profile] /\ profile \in Profile /\ GivenUpBy(gone, p)
      /\ ~profile.connected /\ ~profile.playAgain
  BY GoneFacts
<1>2. \/ mPlayers' = gone
      \/ GiveUpRoom(gone, p)
  BY DEF Disconnect
<1> HIDE DEF gone, profile
<1>3. p \in DOMAIN gone /\ gone[p] = profile
  BY <1>1, LenProperties DEF LobbyInv, PlayerIds, GivenUpBy
<1>4. NoRoom \in Nat
  BY DEF NoRoom
<1>5. \/ mPlayers'[p] = profile
      \/ mPlayers'[p] = Moved(profile, NoRoom)
  BY <1>2, <1>3 DEF GiveUpRoom, CloseRoom, RemovePlayerFromRoom, Unseated
<1> QED BY <1>1, <1>4, <1>5, MovedFacts

\* A connection that has ended, for the server.
LEMMA DisconnectKept ==
    ASSUME SessionBase, NEW c \in Clients, HandleDisconnect(c)
    PROVE  /\ SessionBase'
           /\ \A d \in Clients : WillAgree(d) => WillAgree(d)'
           /\ \A q \in Clients \ {c} : mPlayers'[q].playAgain => mPlayers[q].playAgain
           /\ ~mPlayers'[c].playAgain
<1>1. /\ NobodyReading /\ Disconnect(c) /\ UNCHANGED <<client, inbox>>
      /\ toServer' = [toServer EXCEPT ![c] = <<>>]
      /\ c \in PlayerIds /\ SessionTypes /\ LobbyInv /\ Update \in Packets
      /\ Packet("RoomClosedNotice") \in Packets
  BY PacketsKnown DEF HandleDisconnect, SessionBase, Update, Notices
<1>2. PICK r : r = mPlayers[c].roomId
  OBVIOUS
<1>3. /\ r # NoRoom /\ IsHost(r, c) =>
            Send(To(Members(r) \ {c}, <<Packet("RoomClosedNotice")>>), Nothing)
      /\ r # NoRoom /\ ~IsHost(r, c) => Send(Snapshot(r), Nothing)
      /\ r = NoRoom => Send(Nothing, Nothing)
  BY <1>2 DEF HandleDisconnect
<1>4. Nothing = To({}, <<Update>>)
  BY NothingSent
<1>5. toServer' \in [Clients -> Seq(Made)]
  BY <1>1 DEF SessionTypes
<1>6. WillAgree(c)' /\ ~mPlayers'[c].playAgain
  <2>1. ~mPlayers'[c].connected /\ ~mPlayers'[c].playAgain
    BY <1>1, DisconnectedFacts
  <2>2. ~Connected(c)'
    BY <2>1 DEF Connected
  <2> QED BY <2>1, <2>2, Zenon DEF WillAgree
<1>7. LobbyInv'
  BY <1>1, DisconnectKeepsInv
<1> DEFINE gone == [mPlayers EXCEPT ![c].connected = FALSE, ![c].ready = FALSE,
                                    ![c].playAgain = FALSE]
<1>8. GivenUpBy(gone, c) /\ \E profile : gone = [mPlayers EXCEPT ![c] = profile] /\ profile \in Profile
  BY <1>1, GoneFacts
<1>9. \/ r = NoRoom /\ mPlayers' = gone /\ UNCHANGED mRooms
      \/ r # NoRoom /\ GiveUpRoom(gone, c)
  BY <1>1, <1>2 DEF Disconnect
<1> HIDE DEF gone
<1>10. CASE r = NoRoom
  <2>1. /\ PlayerIds' = Clients
        /\ \A q \in Clients : q # c => mPlayers'[q] = mPlayers[q]
    BY <1>1, <1>8, <1>9, <1>10, ProfileReplaced DEF SessionBase
  <2>2. Announced({}, Update, {}, Update)
    BY <1>1, <1>3, <1>4, <1>10 DEF Announced
  <2>3. SessionTypes'
    BY <1>1, <1>5, <2>2, AnnouncedTypes DEF SessionTypes
  <2>4. ASSUME NEW d \in Clients, d # c, WillAgree(d) PROVE WillAgree(d)'
    <3>1. Unmoved(d)
      BY <1>9, <1>10, <2>1, <2>4 DEF Unmoved
    <3>2. \A last \in ClientStates, final \in ClientStates :
            AgreesWith(last, d) /\ Told(last, d, {}, Update, {}, Update, final) =>
                AgreesWith(final, d)'
      BY <3>1, UntoldAgrees
    <3>3. SeatTold(d, {}, Update, Update)
      BY <2>1, <2>4, UpdateKnown DEF SeatTold
    <3> QED BY <1>1, <2>2, <2>4, <3>2, <3>3, ToldAgrees
  <2> QED BY <1>6, <1>7, <2>1, <2>3, <2>4 DEF SessionBase
<1>11. CASE r # NoRoom
  <2>1. /\ r \in DOMAIN mRooms
        /\ IsHost(r, c) => RoomClosed(c, r)
        /\ ~IsHost(r, c) => SeatGivenUp(c, r)
    BY <1>1, <1>2, <1>8, <1>9, <1>11, GiveUpFacts
  <2>2. /\ PlayerIds' = Clients
        /\ \A q \in Clients \ {c} : mPlayers'[q].playAgain => mPlayers[q].playAgain
    BY <2>1 DEF RoomClosed, SeatGivenUp, SessionBase
  <2>3. CASE IsHost(r, c)
    <3>1. Announced(Members(r) \ {c}, Packet("RoomClosedNotice"), {}, Update)
      BY <1>1, <1>3, <1>4, <1>11, <2>3 DEF Announced
    <3>2. SessionTypes'
      BY <1>1, <1>5, <3>1, AnnouncedTypes DEF SessionTypes
    <3>3. ASSUME NEW d \in Clients, d # c, WillAgree(d) PROVE WillAgree(d)'
      BY <2>1, <2>3, <3>1, <3>3, ClosedAgrees
    <3> QED BY <1>6, <1>7, <2>2, <3>2, <3>3 DEF SessionBase
  <2>4. CASE ~IsHost(r, c)
    <3>1. Announced(InRoom(r), Update, {}, Update)
      BY <1>1, <1>3, <1>4, <1>11, <2>4 DEF Announced, Snapshot, Update
    <3>2. SessionTypes'
      BY <1>1, <1>5, <3>1, AnnouncedTypes DEF SessionTypes
    <3>3. ASSUME NEW d \in Clients, d # c, WillAgree(d) PROVE WillAgree(d)'
      BY <1>7, <2>1, <2>4, <3>1, <3>3, GoneAgrees
    <3> QED BY <1>6, <1>7, <2>2, <3>2, <3>3 DEF SessionBase
  <2> QED BY <2>3, <2>4
<1> QED BY <1>10, <1>11

-----------------------------------------------------------------------------
(* Votes                                                                    *)

IsVote(request) == request.kind = "playAgain"

\* The last vote under way is the one the client shows; with none under way the
\* server counts the client as voting only if the client shows so.
VoteFollows(c) ==
    client[c].connected =>
        /\ \A i \in 1..Len(toServer[c]) :
            /\ IsVote(toServer[c][i])
            /\ \A k \in 1..Len(toServer[c]) : k > i => ~IsVote(toServer[c][k])
            => (toServer[c][i].flag <=> client[c].playAgain)
        /\ (\A i \in 1..Len(toServer[c]) : ~IsVote(toServer[c][i])) =>
                (mPlayers[c].playAgain => client[c].playAgain)

\* The inductive invariant.
SessionInv ==
    /\ SessionBase
    /\ \A c \in Clients : WillAgree(c)
    /\ \A c \in Clients : VoteFollows(c)

LEMMA VoteQuiet ==
    ASSUME NEW d, VoteFollows(d), client'[d] = client[d], toServer'[d] = toServer[d],
           mPlayers'[d].playAgain => mPlayers[d].playAgain
    PROVE  VoteFollows(d)'
  BY DEF VoteFollows

\* The request at the head is handled.
LEMMA VoteHandled ==
    ASSUME SessionTypes, NEW c \in Clients, NEW kind, Request(c, kind), UNCHANGED client,
           toServer' = [toServer EXCEPT ![c] = Tail(toServer[c])],
           VotesOf(c), \A d \in Clients : VoteFollows(d)
    PROVE  \A d \in Clients : VoteFollows(d)'
<1>1. ASSUME NEW d \in Clients, d # c PROVE VoteFollows(d)'
  BY <1>1, VoteQuiet DEF VotesOf, SessionTypes
<1>2. VoteFollows(c)'
  <2> DEFINE s == toServer[c]
             n == Len(s) - 1
  <2>1. /\ s \in Seq(Made) /\ s # <<>> /\ n \in Nat /\ Len(Tail(s)) = n
        /\ \A i \in 1..n : Tail(s)[i] = s[i + 1]
        /\ Head(s) = s[1]
    BY RequestFacts, HeadTailProperties, LenProperties
  <2>2. toServer'[c] = Tail(s)
    BY DEF SessionTypes
  <2>3. Request(c, "playAgain") <=> IsVote(s[1])
    BY <2>1 DEF Request, IsVote
  <2> SUFFICES ASSUME client[c].connected
               PROVE  /\ \A i \in 1..n :
                            /\ IsVote(s[i + 1])
                            /\ \A k \in 1..n : k > i => ~IsVote(s[k + 1])
                            => (s[i + 1].flag <=> client[c].playAgain)
                      /\ (\A i \in 1..n : ~IsVote(s[i + 1])) =>
                                (mPlayers'[c].playAgain => client[c].playAgain)
    <3>1. client' = client
      OBVIOUS
    <3>2. Len(toServer'[c]) = n
      BY <2>1, <2>2
    <3>3. \A i \in 1..n : toServer'[c][i] = s[i + 1]
      BY <2>1, <2>2
    <3> HIDE DEF s, n
    <3>4. SUFFICES ASSUME client[c].connected
          PROVE  /\ \A i \in 1..n :
                      /\ IsVote(toServer'[c][i])
                      /\ \A k \in 1..n : k > i => ~IsVote(toServer'[c][k])
                      => (toServer'[c][i].flag <=> client[c].playAgain)
                 /\ (\A i \in 1..n : ~IsVote(toServer'[c][i])) =>
                        (mPlayers'[c].playAgain => client[c].playAgain)
      BY <3>1, <3>2, Zenon DEF VoteFollows, IsVote
    <3> QED BY <3>3, <3>4
  <2>4. /\ \A i \in 1..(n + 1) :
            /\ IsVote(s[i])
            /\ \A k \in 1..(n + 1) : k > i => ~IsVote(s[k])
            => (s[i].flag <=> client[c].playAgain)
        /\ (\A i \in 1..(n + 1) : ~IsVote(s[i])) =>
                (mPlayers[c].playAgain => client[c].playAgain)
    <3>1. Len(s) = n + 1
      BY <2>1
    <3> QED BY <3>1 DEF VoteFollows
  <2> HIDE DEF s, n
  <2>5. ASSUME NEW i \in 1..n, IsVote(s[i + 1]),
               \A k \in 1..n : k > i => ~IsVote(s[k + 1])
        PROVE  s[i + 1].flag <=> client[c].playAgain
    <3>1. i + 1 \in 1..(n + 1)
      BY <2>1
    <3>2. ASSUME NEW k \in 1..(n + 1), k > i + 1 PROVE ~IsVote(s[k])
      <4>1. k - 1 \in 1..n /\ k - 1 > i /\ (k - 1) + 1 = k
        BY <2>1, <3>2
      <4> QED BY <2>5, <4>1
    <3> QED BY <2>4, <2>5, <3>1, <3>2
  <2>6. ASSUME \A i \in 1..n : ~IsVote(s[i + 1]), mPlayers'[c].playAgain
        PROVE  client[c].playAgain
    <3>1. \A k \in 1..(n + 1) : k > 1 => ~IsVote(s[k])
      <4> SUFFICES ASSUME NEW k \in 1..(n + 1), k > 1 PROVE ~IsVote(s[k])
        OBVIOUS
      <4>1. k - 1 \in 1..n /\ (k - 1) + 1 = k
        BY <2>1
      <4> QED BY <2>6, <4>1
    <3>2. CASE IsVote(s[1])
      <4>1. s[1].flag
        BY <2>1, <2>3, <2>6, <3>2 DEF VotesOf, s
      <4>2. 1 \in 1..(n + 1)
        BY <2>1
      <4> QED BY <2>4, <3>1, <3>2, <4>1, <4>2
    <3>3. CASE ~IsVote(s[1])
      <4>1. mPlayers[c].playAgain
        BY <2>3, <2>6, <3>3 DEF VotesOf
      <4>2. \A k \in 1..(n + 1) : ~IsVote(s[k])
        BY <2>1, <3>1, <3>3
      <4> QED BY <2>4, <4>1, <4>2
    <3> QED BY <3>2, <3>3
  <2> QED BY <2>5, <2>6
<1> QED BY <1>1, <1>2

\* A request is sent: a vote that the client now shows, or something else.
LEMMA VoteSent ==
    ASSUME SessionTypes, NEW c \in Clients, VoteFollows(c), NEW request \in Made,
           toServer' = [toServer EXCEPT ![c] = Append(toServer[c], request)],
           client'[c].connected <=> client[c].connected, UNCHANGED mPlayers,
           \/ IsVote(request) /\ (request.flag <=> client'[c].playAgain)
           \/ ~IsVote(request) /\ (client'[c].playAgain <=> client[c].playAgain)
    PROVE  VoteFollows(c)'
<1> DEFINE s == toServer[c]
           n == Len(s)
           t == Append(s, request)
<1>1. /\ n \in Nat /\ Len(t) = n + 1 /\ t[n + 1] = request
      /\ \A i \in 1..n : t[i] = s[i]
      /\ toServer'[c] = t
  BY AppendProperties, LenProperties DEF SessionTypes
<1> HIDE DEF t
<1> SUFFICES ASSUME client[c].connected
             PROVE  /\ \A i \in 1..(n + 1) :
                          /\ IsVote(t[i])
                          /\ \A k \in 1..(n + 1) : k > i => ~IsVote(t[k])
                          => (t[i].flag <=> client'[c].playAgain)
                    /\ (\A i \in 1..(n + 1) : ~IsVote(t[i])) =>
                              (mPlayers[c].playAgain => client'[c].playAgain)
  BY <1>1 DEF VoteFollows
<1>2. /\ \A i \in 1..n :
          /\ IsVote(s[i])
          /\ \A k \in 1..n : k > i => ~IsVote(s[k])
          => (s[i].flag <=> client[c].playAgain)
      /\ (\A i \in 1..n : ~IsVote(s[i])) => (mPlayers[c].playAgain => client[c].playAgain)
  BY DEF VoteFollows
<1> HIDE DEF s, n
<1>3. n + 1 \in 1..(n + 1) /\ \A i \in 1..n : i \in 1..(n + 1) /\ n + 1 > i
  BY <1>1
<1>4. ASSUME NEW i \in 1..(n + 1), IsVote(t[i]),
             \A k \in 1..(n + 1) : k > i => ~IsVote(t[k])
      PROVE  t[i].flag <=> client'[c].playAgain
  <2>1. CASE i = n + 1
    BY <1>1, <1>4, <2>1
  <2>2. CASE i # n + 1
    <3>1. i \in 1..n
      BY <1>1, <2>2
    <3>2. ~IsVote(request)
      BY <1>1, <1>3, <1>4, <3>1
    <3>3. \A k \in 1..n : k > i => ~IsVote(s[k])
      BY <1>1, <1>3, <1>4
    <3> QED BY <1>1, <1>2, <1>4, <3>1, <3>2, <3>3
  <2> QED BY <2>1, <2>2
<1>5. ASSUME \A i \in 1..(n + 1) : ~IsVote(t[i]), mPlayers[c].playAgain
      PROVE  client'[c].playAgain
  <2>1. ~IsVote(request) /\ \A i \in 1..n : ~IsVote(s[i])
    BY <1>1, <1>3, <1>5
  <2> QED BY <1>2, <1>5, <2>1
<1> QED BY <1>4, <1>5

-----------------------------------------------------------------------------
(* Clients                                                                  *)

\* A change of a client that packets do not depend on.
LEMMA WillAgreeStill ==
    ASSUME NEW d \in Clients, WillAgree(d), UNCHANGED <<mPlayers, mRooms>>,
           toClient'[d] = toClient[d], inbox'[d] = inbox[d],
           SameView(client'[d], client[d]), client'[d].room = client[d].room,
           client'[d].connected <=> client[d].connected
    PROVE  WillAgree(d)'
<1>1. (Connected(d)' <=> Connected(d)) /\ Mail(d)' = Mail(d)
  BY DEF Connected, Mail
<1>2. ASSUME Connected(d)
      PROVE  /\ \A last \in ClientStates :
                    ReadsAs(client'[d], Mail(d), last) => AgreesWith(last, d)'
             /\ SeatOK(client'[d].room, Mail(d), mPlayers'[d].roomId)
             /\ InboxOK(client'[d].room, inbox'[d])
             /\ BoardHasRoom(client'[d])
  <2>1. /\ \A last \in ClientStates : ReadsAs(client[d], Mail(d), last) => AgreesWith(last, d)
        /\ SeatOK(client[d].room, Mail(d), mPlayers[d].roomId)
        /\ InboxOK(client[d].room, inbox[d])
        /\ BoardHasRoom(client[d])
    BY <1>2 DEF WillAgree
  <2>2. ASSUME NEW last \in ClientStates, ReadsAs(client'[d], Mail(d), last)
        PROVE  AgreesWith(last, d)'
    <3>1. ReadsAs(client[d], Mail(d), last)
      BY <2>2, ReadElsewhere
    <3>2. AgreesWith(last, d)
      BY <2>1, <3>1
    <3> QED BY <3>2 DEF AgreesWith
  <2>3. BoardHasRoom(client'[d])
    BY <2>1 DEF BoardHasRoom, SameView
  <2> QED BY <2>1, <2>2, <2>3
<1> QED BY <1>1, <1>2 DEF WillAgree, SeatOK, LastSeating, InboxOK, BoardHasRoom

\* What a client does alone leaves the server and the other clients as they are.
LEMMA OwnStep ==
    ASSUME SessionInv, NEW c \in Clients, UNCHANGED <<mPlayers, mRooms>>, SessionTypes',
           \A d \in Clients \ {c} : /\ client'[d] = client[d] /\ toServer'[d] = toServer[d]
                                    /\ toClient'[d] = toClient[d] /\ inbox'[d] = inbox[d],
           WillAgree(c)', VoteFollows(c)'
    PROVE  SessionInv'
<1>1. LobbyInv' /\ PlayerIds' = Clients
  BY UnchangedBase DEF SessionInv, vars
<1>2. ASSUME NEW d \in Clients, d # c PROVE WillAgree(d)' /\ VoteFollows(d)'
  <2>1. VoteFollows(d)'
    BY <1>2, VoteQuiet DEF SessionInv
  <2>2. SameView(client'[d], client[d])
    BY <1>2 DEF SameView
  <2>3. WillAgree(d)'
    BY <1>2, <2>2, WillAgreeStill DEF SessionInv
  <2> QED BY <2>1, <2>3
<1> QED BY <1>1, <1>2 DEF SessionInv, SessionBase

LEMMA ClickKeepsInv ==
    ASSUME SessionInv, NEW c \in Clients, NEW change \in ClientStates, NEW request \in Made,
           Click(c, change, request),
           SameView(change, client[c]), change.room = client[c].room, change.connected,
           \/ IsVote(request) /\ (request.flag <=> change.playAgain)
           \/ ~IsVote(request) /\ (change.playAgain <=> client[c].playAgain)
    PROVE  SessionInv'
<1>1. /\ client[c].connected /\ client' = [client EXCEPT ![c] = change]
      /\ toServer' = [toServer EXCEPT ![c] = Append(toServer[c], request)]
      /\ UNCHANGED <<mPlayers, mRooms>> /\ UNCHANGED <<toClient, inbox>>
  BY DEF Click, vars
<1>2. SessionTypes /\ WillAgree(c) /\ VoteFollows(c)
  BY DEF SessionInv, SessionBase
<1>3. client'[c] = change /\ \A d \in Clients : d # c => client'[d] = client[d]
  BY <1>1, <1>2 DEF SessionTypes
<1>4. /\ client' \in [Clients -> ClientStates]
      /\ toServer' \in [Clients -> Seq(Made)]
      /\ \A d \in Clients : d # c => toServer'[d] = toServer[d]
  BY <1>1, <1>2, AppendProperties DEF SessionTypes
<1>5. SessionTypes'
  BY <1>1, <1>2, <1>4 DEF SessionTypes
<1>6. WillAgree(c)'
  BY <1>1, <1>2, <1>3, WillAgreeStill
<1>7. VoteFollows(c)'
  BY <1>1, <1>2, <1>3, VoteSent
<1> QED BY <1>1, <1>3, <1>4, <1>5, <1>6, <1>7, OwnStep

\* A click without a connection changes what is shown as pending.
LEMMA UnsentKeepsInv ==
    ASSUME SessionInv, NEW c \in Clients, ~client[c].connected,
           client' = [client EXCEPT ![c] = [client[c] EXCEPT !.pending = TRUE]],
           UNCHANGED <<mPlayers, mRooms, toServer, toClient, inbox>>
    PROVE  SessionInv'
<1> DEFINE waiting == [client[c] EXCEPT !.pending = TRUE]
<1>1. SessionTypes /\ client[c] \in ClientStates
  BY DEF SessionInv, SessionBase, SessionTypes
<1>2. waiting \in ClientStates /\ ~waiting.connected
  BY <1>1 DEF ClientStates
<1> HIDE DEF waiting
<1>3. client' = [client EXCEPT ![c] = waiting]
  BY DEF waiting
<1>4. client'[c] = waiting /\ \A d \in Clients : d # c => client'[d] = client[d]
  BY <1>1, <1>3 DEF SessionTypes
<1>5. SessionTypes'
  BY <1>1, <1>2, <1>3 DEF SessionTypes
<1>6. WillAgree(c)'
  <2>1. ~Connected(c)'
    BY <1>2, <1>4 DEF Connected
  <2> QED BY <2>1, Zenon DEF WillAgree
<1>7. VoteFollows(c)'
  BY <1>2, <1>4 DEF VoteFollows
<1> QED BY <1>4, <1>5, <1>6, <1>7, OwnStep

\* The clicks of all screens.
LEMMA ClicksKeepInv ==
    ASSUME SessionInv, NEW c \in Clients,
           HandleStartMenuClick(c) \/ HandleWaitingRoomClick(c) \/ HandlePuzzleInput(c) \/ PressP(c)
    PROVE  SessionInv'
<1>1. client[c] \in ClientStates
  BY DEF SessionInv, SessionBase, SessionTypes
<1> DEFINE s == client[c]
<1> HIDE DEF s
<1>2. CASE HandleStartMenuClick(c)
  <2> DEFINE waiting == [s EXCEPT !.pending = TRUE]
  <2>1. /\ waiting \in ClientStates /\ SameView(waiting, s) /\ waiting.room = s.room
        /\ waiting.connected = s.connected /\ waiting.playAgain = s.playAgain
    BY <1>1 DEF ClientStates, SameView, s
  <2>2. /\ Packet("create") \in Made /\ ~IsVote(Packet("create"))
        /\ \A r \in Openers : /\ [kind |-> "join", room |-> r] \in Made
                               /\ ~IsVote([kind |-> "join", room |-> r])
    BY DEF Made, Packet, IsVote
  <2>3. \/ Click(c, waiting, Packet("create"))
        \/ \E r \in Openers : Click(c, waiting, [kind |-> "join", room |-> r])
        \/ /\ ~s.connected /\ client' = [client EXCEPT ![c] = waiting]
           /\ UNCHANGED <<mPlayers, mRooms, toServer, toClient, inbox>>
    BY <1>2 DEF HandleStartMenuClick, s, vars
  <2>4. CASE /\ ~s.connected /\ client' = [client EXCEPT ![c] = waiting]
             /\ UNCHANGED <<mPlayers, mRooms, toServer, toClient, inbox>>
    BY <2>4, UnsentKeepsInv DEF s
  <2> HIDE DEF waiting
  <2>5. ASSUME NEW request \in Made, ~IsVote(request), Click(c, waiting, request)
        PROVE  SessionInv'
    <3>1. s.connected
      BY <2>5 DEF Click, s
    <3> QED BY <2>1, <2>5, <3>1, ClickKeepsInv DEF s
  <2> QED BY <2>2, <2>3, <2>4, <2>5
<1>3. CASE HandleWaitingRoomClick(c)
  <2> DEFINE toggled == [s EXCEPT !.localReady = ~s.localReady]
  <2>1. /\ toggled \in ClientStates /\ SameView(toggled, s) /\ SameView(s, s)
        /\ toggled.room = s.room
        /\ toggled.connected = s.connected /\ toggled.playAgain = s.playAgain
        /\ toggled.localReady \in BOOLEAN
    BY <1>1 DEF ClientStates, SameView, s
  <2>2. \/ Click(c, toggled, [kind |-> "ready", flag |-> toggled.localReady])
        \/ Click(c, s, Packet("leave"))
    BY <1>3 DEF HandleWaitingRoomClick, s
  <2> HIDE DEF toggled
  <2>3. /\ Packet("leave") \in Made /\ ~IsVote(Packet("leave"))
        /\ [kind |-> "ready", flag |-> toggled.localReady] \in Made
        /\ ~IsVote([kind |-> "ready", flag |-> toggled.localReady])
    BY <2>1 DEF Made, Packet, IsVote
  <2>4. s.connected
    BY <2>2 DEF Click, s
  <2> QED BY <1>1, <2>1, <2>2, <2>3, <2>4, ClickKeepsInv DEF s
<1>4. CASE HandlePuzzleInput(c)
  <2>1. PICK cell \in Cells : Click(c, s, [kind |-> "move", cell |-> cell])
    BY <1>4 DEF HandlePuzzleInput, s
  <2>2. [kind |-> "move", cell |-> cell] \in Made /\ ~IsVote([kind |-> "move", cell |-> cell])
    BY DEF Made, IsVote
  <2>3. s.connected /\ SameView(s, s)
    BY <2>1 DEF Click, SameView, s
  <2> QED BY <1>1, <2>1, <2>2, <2>3, ClickKeepsInv DEF s
<1>5. CASE PressP(c)
  <2> DEFINE toggled == [s EXCEPT !.playAgain = ~s.playAgain]
  <2>1. /\ toggled \in ClientStates /\ SameView(toggled, s) /\ toggled.room = s.room
        /\ toggled.connected = s.connected /\ toggled.playAgain \in BOOLEAN
    BY <1>1 DEF ClientStates, SameView, s
  <2>2. Click(c, toggled, [kind |-> "playAgain", flag |-> toggled.playAgain])
    BY <1>5 DEF PressP, s
  <2> HIDE DEF toggled
  <2> DEFINE vote == [kind |-> "playAgain", flag |-> toggled.playAgain]
  <2>3. vote \in Made /\ IsVote(vote) /\ vote.flag = toggled.playAgain
    BY <2>1 DEF Made, IsVote
  <2>4. s.connected
    BY <2>2 DEF Click, s
  <2> HIDE DEF vote
  <2> QED BY <2>1, <2>2, <2>3, <2>4, ClickKeepsInv DEF s, vote
<1> QED BY <1>2, <1>3, <1>4, <1>5

LEMMA LoseKeepsSession ==
    ASSUME SessionInv, NEW c \in Clients, LoseConnection(c)
    PROVE  SessionInv'
<1> DEFINE lost == [client[c] EXCEPT !.connected = FALSE, !.room = NoRoom]
<1>1. SessionTypes /\ client[c] \in ClientStates
  BY DEF SessionInv, SessionBase, SessionTypes
<1>2. lost \in ClientStates /\ ~lost.connected
  BY <1>1 DEF ClientStates, NoRoom
<1>3. client' = [client EXCEPT ![c] = lost]
  BY DEF LoseConnection
<1>4. /\ toClient' = [toClient EXCEPT ![c] = <<>>]
      /\ UNCHANGED <<mPlayers, mRooms, toServer, inbox>>
  BY DEF LoseConnection, vars
<1> HIDE DEF lost
<1>5. SessionTypes'
  BY <1>1, <1>2, <1>3, <1>4 DEF SessionTypes
<1>6. ~client'[c].connected /\ \A d \in Clients : d # c => client'[d] = client[d] /\ toClient'[d] = toClient[d]
  BY <1>1, <1>2, <1>3, <1>4 DEF SessionTypes
<1>7. WillAgree(c)'
  <2>1. ~Connected(c)'
    BY <1>6 DEF Connected
  <2> QED BY <2>1, Zenon DEF WillAgree
<1>8. VoteFollows(c)'
  BY <1>6 DEF VoteFollows
<1> QED BY <1>4, <1>5, <1>6, <1>7, <1>8, OwnStep

\* What is read moves from the connection to the inbox, and the room of the last
\* join is taken at once.
LEMMA PollKeepsInv ==
    ASSUME SessionInv, NEW c \in Clients, Poll(c)
    PROVE  SessionInv'
<1> DEFINE msgs == toClient[c]
           s == client[c]
<1>1. SessionTypes /\ msgs \in Seq(Packets) /\ s \in ClientStates /\ inbox[c] = <<>>
  BY DEF SessionInv, SessionBase, SessionTypes, Poll, NobodyReading
<1>2. PICK n \in 1..Len(msgs) :
        /\ inbox' = [inbox EXCEPT ![c] = SubSeq(msgs, 1, n)]
        /\ toClient' = [toClient EXCEPT ![c] = SubSeq(msgs, n + 1, Len(msgs))]
        /\ \/ (\A i \in 1..n : ~Joins(SubSeq(msgs, 1, n)[i])) /\ UNCHANGED client
           \/ \E i \in 1..n :
                /\ Joins(SubSeq(msgs, 1, n)[i])
                /\ \A j \in (i + 1)..n : ~Joins(SubSeq(msgs, 1, n)[j])
                /\ client' = [client EXCEPT ![c].room = SubSeq(msgs, 1, n)[i].room]
  BY DEF Poll
<1>3. UNCHANGED <<mPlayers, mRooms, toServer>>
  BY DEF Poll, vars
<1> HIDE DEF msgs, s
<1>4. PICK read : read = SubSeq(msgs, 1, n)
  OBVIOUS
<1>5. PICK rest : rest = SubSeq(msgs, n + 1, Len(msgs))
  OBVIOUS
<1>6. /\ read \in Seq(Packets) /\ rest \in Seq(Packets) /\ Len(read) = n
      /\ \A i \in 1..n : read[i] = msgs[i]
      /\ read \o rest = msgs
      /\ n \in Nat /\ Len(msgs) \in Nat /\ n <= Len(msgs)
  <2>1. Len(msgs) \in Nat /\ n \in Nat /\ n <= Len(msgs) /\ 1 <= n
    BY <1>1, LenProperties
  <2>2. \A i \in 1..Len(msgs) : msgs[i] \in Packets
    BY <1>1, ElementOfSeq
  <2>3. /\ read \in Seq(Packets) /\ Len(read) = n
        /\ \A i \in 1..n : read[i] = msgs[i]
    <3>1. /\ SubSeq(msgs, 1, n) \in Seq(Packets)
          /\ Len(SubSeq(msgs, 1, n)) = IF 1 <= n THEN n - 1 + 1 ELSE 0
          /\ \A i \in 1..(n - 1 + 1) : SubSeq(msgs, 1, n)[i] = msgs[1 + i - 1]
      BY <2>1, <2>2, SubSeqProperties
    <3>2. n - 1 + 1 = n /\ \A i \in 1..n : 1 + i - 1 = i
      BY <2>1
    <3> QED BY <1>4, <2>1, <3>1, <3>2
  <2>4. rest \in Seq(Packets)
    BY <1>5, <2>1, <2>2, SubSeqProperties
  <2>5. read \o rest = msgs
    <3>1. 1 \in 1..(Len(msgs) + 1) /\ n \in (1 - 1)..Len(msgs) /\ Len(msgs) \in n..Len(msgs)
      BY <2>1
    <3>2. SubSeq(msgs, 1, n) \o SubSeq(msgs, n + 1, Len(msgs)) = SubSeq(msgs, 1, Len(msgs))
      BY <1>1, <3>1, ConcatAdjacentSubSeq
    <3> QED BY <1>1, <1>4, <1>5, <3>2, SubSeqFull
  <2> QED BY <2>1, <2>3, <2>4, <2>5
<1>7. /\ \A i \in 1..n : Joins(read[i]) => read[i].room \in Nat /\ read[i].room # NoRoom
      /\ \A i \in 1..n : Joins(read[i]) => ~Leaves(read[i])
  <2>1. \A msg \in Packets : Joins(msg) => msg.room \in Nat /\ msg.room # NoRoom /\ ~Leaves(msg)
    BY DEF Packets, Packet, RoomJoined, CellChecked, Joins, Leaves, Notices
  <2>2. \A i \in 1..n : read[i] \in Packets
    BY <1>6, ElementOfSeq
  <2> QED BY <2>1, <2>2
<1>8. \/ (\A i \in 1..n : ~Joins(read[i])) /\ client'[c] = s
      \/ \E i \in 1..n : /\ Joins(read[i]) /\ \A j \in (i + 1)..n : ~Joins(read[j])
                         /\ client'[c] = [s EXCEPT !.room = read[i].room]
  BY <1>1, <1>2, <1>4 DEF SessionTypes, s
<1>9. /\ client'[c] \in ClientStates /\ SameView(client'[c], s)
      /\ client'[c].connected = s.connected /\ client'[c].playAgain = s.playAgain
  <2>1. CASE client'[c] = s
    BY <1>1, <2>1 DEF SameView
  <2>2. ASSUME NEW room \in Nat, client'[c] = [s EXCEPT !.room = room]
        PROVE  /\ client'[c] \in ClientStates /\ SameView(client'[c], s)
               /\ client'[c].connected = s.connected /\ client'[c].playAgain = s.playAgain
    BY <1>1, <2>2 DEF ClientStates, SameView
  <2> QED BY <1>7, <1>8, <2>1, <2>2
<1>10. /\ inbox'[c] = read /\ toClient'[c] = rest
       /\ \A d \in Clients \ {c} : /\ client'[d] = client[d] /\ toServer'[d] = toServer[d]
                                   /\ toClient'[d] = toClient[d] /\ inbox'[d] = inbox[d]
  BY <1>1, <1>2, <1>3, <1>4, <1>5 DEF SessionTypes
<1>11. SessionTypes'
  <2>1. client' = [d \in Clients |-> client'[d]]
    BY <1>1, <1>2 DEF SessionTypes
  <2>2. client' \in [Clients -> ClientStates]
    BY <1>1, <1>9, <1>10, <2>1 DEF SessionTypes
  <2> QED BY <1>1, <1>2, <1>3, <1>4, <1>5, <1>6, <2>2 DEF SessionTypes
<1>12. Mail(c) = msgs /\ Mail(c)' = msgs
  <2>1. <<>> \o msgs = msgs
    BY <1>1
  <2> QED BY <1>1, <1>6, <1>10, <2>1 DEF Mail, msgs
<1>13. WillAgree(c)'
  <2> SUFFICES ASSUME Connected(c)
               PROVE  /\ \A last \in ClientStates :
                            ReadsAs(client'[c], msgs, last) => AgreesWith(last, c)'
                      /\ SeatOK(client'[c].room, msgs, mPlayers[c].roomId)
                      /\ InboxOK(client'[c].room, read)
                      /\ BoardHasRoom(client'[c])
    <3>1. Connected(c)' <=> Connected(c)
      BY <1>3, <1>9 DEF Connected, s
    <3> QED BY <1>3, <1>10, <1>12, <3>1 DEF WillAgree, SeatOK, LastSeating, InboxOK, BoardHasRoom
  <2>1. /\ \A last \in ClientStates : ReadsAs(s, msgs, last) => AgreesWith(last, c)
        /\ SeatOK(s.room, msgs, mPlayers[c].roomId)
        /\ BoardHasRoom(s)
    BY <1>12 DEF SessionInv, WillAgree, s
  <2>2. ASSUME NEW last \in ClientStates, ReadsAs(client'[c], msgs, last)
        PROVE  AgreesWith(last, c)'
    <3>1. AgreesWith(last, c)
      BY <1>9, <2>1, <2>2, ReadElsewhere
    <3> QED BY <1>3, <3>1 DEF AgreesWith
  <2>3. CASE (\A i \in 1..n : ~Joins(read[i])) /\ client'[c] = s
    BY <1>6, <2>1, <2>2, <2>3 DEF InboxOK
  <2>4. ASSUME NEW i \in 1..n, Joins(read[i]), \A j \in (i + 1)..n : ~Joins(read[j]),
               client'[c] = [s EXCEPT !.room = read[i].room]
        PROVE  /\ SeatOK(client'[c].room, msgs, mPlayers[c].roomId)
               /\ InboxOK(client'[c].room, read)
               /\ BoardHasRoom(client'[c])
    <3>1. client'[c].room = read[i].room /\ read[i].room # NoRoom
      BY <1>1, <1>7, <2>4 DEF ClientStates
    <3>2. SeatOK(client'[c].room, msgs, mPlayers[c].roomId)
      <4>1. i \in 1..Len(msgs) /\ Seating(msgs[i])
        BY <1>6, <2>4 DEF Seating
      <4> QED BY <2>1, <4>1 DEF SeatOK
    <3>3. ASSUME NEW k \in 1..n, LastSeating(read, k), Joins(read[k])
          PROVE  client'[c].room = read[k].room
      <4>1. ~(k > i)
        <5>1. k > i => k \in (i + 1)..n
          BY <1>6
        <5> QED BY <2>4, <3>3, <5>1
      <4>2. ~(i > k)
        BY <1>6, <2>4, <3>3 DEF LastSeating, Seating
      <4>3. k = i
        BY <1>6, <4>1, <4>2
      <4> QED BY <3>1, <4>3
    <3>4. InboxOK(client'[c].room, read)
      BY <1>6, <3>3 DEF InboxOK
    <3> QED BY <3>1, <3>2, <3>4 DEF BoardHasRoom
  <2> QED BY <1>8, <2>2, <2>3, <2>4
<1>14. VoteFollows(c)'
  BY <1>3, <1>9 DEF SessionInv, VoteFollows, s
<1> QED BY <1>3, <1>10, <1>11, <1>13, <1>14, OwnStep

\* The packet at the head of the inbox is the head of the mail.
LEMMA HeadOfMail ==
    ASSUME NEW box \in Seq(Packets), box # <<>>, NEW rest \in Seq(Packets)
    PROVE  LET mail == box \o rest IN
           /\ mail \in Seq(Packets) /\ mail # <<>>
           /\ Head(mail) = Head(box) /\ Tail(mail) = Tail(box) \o rest
           /\ Len(box) <= Len(mail) /\ \A i \in 1..Len(box) : mail[i] = box[i]
<1> DEFINE mail == box \o rest
           n == Len(box)
           m == Len(rest)
<1>1. /\ mail \in Seq(Packets) /\ Len(mail) = n + m
      /\ \A i \in 1..(n + m) : mail[i] = IF i <= n THEN box[i] ELSE rest[i - n]
      /\ n \in Nat /\ m \in Nat /\ n # 0
  BY ConcatProperties, LenProperties, EmptySeq
<1> HIDE DEF mail
<1>2. mail # <<>>
  BY <1>1
<1>3. /\ Tail(box) \in Seq(Packets) /\ Len(Tail(box)) = n - 1
      /\ \A i \in 1..(n - 1) : Tail(box)[i] = box[i + 1]
      /\ Head(box) = box[1]
  BY HeadTailProperties
<1>4. /\ Tail(mail) \in Seq(Packets) /\ Len(Tail(mail)) = n + m - 1
      /\ \A i \in 1..(n + m - 1) : Tail(mail)[i] = mail[i + 1]
      /\ Head(mail) = mail[1]
  BY <1>1, <1>2, HeadTailProperties
<1>5. PICK after : after = Tail(box) \o rest
  OBVIOUS
<1>6. /\ after \in Seq(Packets) /\ Len(after) = (n - 1) + m
      /\ \A i \in 1..((n - 1) + m) :
            after[i] = IF i <= n - 1 THEN Tail(box)[i] ELSE rest[i - (n - 1)]
  BY <1>3, <1>5, ConcatProperties
<1> HIDE DEF n, m
<1>7. ASSUME NEW i \in 1..(n + m - 1) PROVE Tail(mail)[i] = after[i]
  <2>1. i + 1 \in 1..(n + m) /\ i \in 1..((n - 1) + m)
    BY <1>1
  <2>2. CASE i <= n - 1
    <3>1. i \in 1..(n - 1) /\ i + 1 <= n
      BY <1>1, <2>2
    <3> QED BY <1>1, <1>3, <1>4, <1>6, <2>1, <2>2, <3>1
  <2>3. CASE ~(i <= n - 1)
    <3>1. ~(i + 1 <= n) /\ (i + 1) - n = i - (n - 1)
      BY <1>1, <2>3
    <3> QED BY <1>1, <1>4, <1>6, <2>1, <2>3, <3>1
  <2> QED BY <2>2, <2>3
<1>8. Tail(mail) = after
  <2>1. Len(Tail(mail)) = Len(after) /\ Len(Tail(mail)) = n + m - 1
    BY <1>1, <1>4, <1>6
  <2> QED BY <1>4, <1>6, <1>7, <2>1, SeqEqual
<1>9. Head(mail) = Head(box)
  BY <1>1, <1>3, <1>4
<1>10. n <= Len(mail) /\ \A i \in 1..n : mail[i] = box[i]
  BY <1>1
<1> QED BY <1>1, <1>2, <1>5, <1>8, <1>9, <1>10 DEF mail, n

\* Processing the packet at the head keeps what is said of seats.
LEMMA SeatRead ==
    ASSUME NEW room, NEW seat, NEW mail \in Seq(Packets), mail # <<>>,
           NEW box \in Seq(Packets), box # <<>>,
           Len(box) <= Len(mail), \A i \in 1..Len(box) : mail[i] = box[i],
           SeatOK(room, mail, seat), InboxOK(room, box),
           NEW new, new = IF Leaves(Head(box)) THEN NoRoom ELSE room
    PROVE  SeatOK(new, Tail(mail), seat) /\ InboxOK(new, Tail(box))
<1> DEFINE n == Len(mail)
           k == Len(box)
<1>1. /\ n \in Nat /\ n # 0 /\ Len(Tail(mail)) = n - 1
      /\ \A i \in 1..(n - 1) : Tail(mail)[i] = mail[i + 1]
  BY HeadTailProperties, LenProperties, EmptySeq
<1>2. /\ k \in Nat /\ k # 0 /\ Len(Tail(box)) = k - 1
      /\ \A i \in 1..(k - 1) : Tail(box)[i] = box[i + 1]
      /\ Head(box) = box[1]
  BY HeadTailProperties, LenProperties, EmptySeq
<1>3. k <= n /\ (\A i \in 1..k : mail[i] = box[i]) /\ Head(box) = mail[1]
  BY <1>2
<1>4. ASSUME NEW i \in 1..(n - 1), LastSeating(Tail(mail), i)
      PROVE  LastSeating(mail, i + 1) /\ i + 1 \in 1..n
  <2>1. i + 1 \in 1..n
    BY <1>1
  <2>2. ASSUME NEW j \in 1..n, j > i + 1 PROVE ~Seating(mail[j])
    <3>1. j - 1 \in 1..(n - 1) /\ j - 1 > i /\ (j - 1) + 1 = j
      BY <1>1, <2>2
    <3> QED BY <1>1, <1>4, <3>1 DEF LastSeating
  <2> QED BY <1>1, <1>4, <2>1, <2>2 DEF LastSeating
<1>5. ASSUME NEW i \in 1..(k - 1), LastSeating(Tail(box), i)
      PROVE  LastSeating(box, i + 1) /\ i + 1 \in 1..k
  <2>1. i + 1 \in 1..k
    BY <1>2
  <2>2. ASSUME NEW j \in 1..k, j > i + 1 PROVE ~Seating(box[j])
    <3>1. j - 1 \in 1..(k - 1) /\ j - 1 > i /\ (j - 1) + 1 = j
      BY <1>2, <2>2
    <3> QED BY <1>2, <1>5, <3>1 DEF LastSeating
  <2> QED BY <1>2, <1>5, <2>1, <2>2 DEF LastSeating
<1>6. /\ \A i \in 1..n : LastSeating(mail, i) => Says(mail[i]) = seat
      /\ (\A i \in 1..n : ~Seating(mail[i])) => room \in {NoRoom, seat}
      /\ \A i \in 1..k : LastSeating(box, i) /\ Joins(box[i]) => room \in {NoRoom, box[i].room}
  BY DEF SeatOK, InboxOK
<1>7. 1 \in 1..n /\ 1 \in 1..k
  BY <1>1, <1>2
<1>8. ASSUME \A i \in 1..(n - 1) : ~Seating(Tail(mail)[i]) PROVE new \in {NoRoom, seat}
  <2>1. ASSUME NEW j \in 1..n, j > 1 PROVE ~Seating(mail[j])
    <3>1. j - 1 \in 1..(n - 1) /\ (j - 1) + 1 = j
      BY <1>1, <2>1
    <3> QED BY <1>1, <1>8, <3>1
  <2>2. CASE ~Seating(mail[1])
    <3>1. \A i \in 1..n : ~Seating(mail[i])
      BY <1>1, <2>1, <2>2
    <3> QED BY <1>6, <3>1
  <2>3. CASE Leaves(mail[1])
    BY <1>3, <2>3
  <2>4. CASE Joins(mail[1])
    <3>1. LastSeating(mail, 1)
      BY <2>1, <2>4 DEF LastSeating, Seating
    <3>2. \A j \in 1..k : j > 1 => ~Seating(box[j])
      BY <1>1, <1>2, <1>3, <2>1
    <3>3. mail[1] = box[1]
      BY <1>3, <1>7
    <3>4. LastSeating(box, 1)
      BY <2>4, <3>2, <3>3 DEF LastSeating, Seating
    <3>5. room \in {NoRoom, mail[1].room}
      BY <1>6, <1>7, <2>4, <3>3, <3>4
    <3>6. mail[1].room = seat
      BY <1>6, <1>7, <2>4, <3>1 DEF Says
    <3> QED BY <3>5, <3>6
  <2> QED BY <2>2, <2>3, <2>4 DEF Seating
<1>9. ASSUME NEW i \in 1..(k - 1), LastSeating(Tail(box), i), Joins(Tail(box)[i])
      PROVE  new \in {NoRoom, Tail(box)[i].room}
  BY <1>2, <1>5, <1>6, <1>9
<1>10. ASSUME NEW i \in 1..(n - 1), LastSeating(Tail(mail), i) PROVE Says(Tail(mail)[i]) = seat
  BY <1>1, <1>4, <1>6, <1>10
<1> QED BY <1>1, <1>2, <1>8, <1>9, <1>10 DEF SeatOK, InboxOK

LEMMA ProcessKeepsInv ==
    ASSUME SessionInv, NEW c \in Clients, ProcessIncoming(c)
    PROVE  SessionInv'
<1> DEFINE box == inbox[c]
           rest == toClient[c]
           s == client[c]
           new == Applied(s, Head(box))
<1>1. /\ SessionTypes /\ box \in Seq(Packets) /\ box # <<>> /\ s \in ClientStates
      /\ rest \in Seq(Packets)
      /\ Head(box) \in Packets /\ Tail(box) \in Seq(Packets)
  BY HeadTailProperties DEF ProcessIncoming, SessionInv, SessionBase, SessionTypes
<1>2. /\ client' = [client EXCEPT ![c] = new]
      /\ inbox' = [inbox EXCEPT ![c] = Tail(box)]
      /\ UNCHANGED <<mPlayers, mRooms, toServer, toClient>>
  BY DEF ProcessIncoming, vars
<1> HIDE DEF box, rest, s, new
<1>3. new \in ClientStates /\ new.playAgain = s.playAgain /\ new.connected = s.connected
  BY <1>1, Processed DEF new, Reads
<1>4. SessionTypes'
  BY <1>1, <1>2, <1>3 DEF SessionTypes
<1>5. /\ client'[c] = new /\ inbox'[c] = Tail(box)
      /\ \A d \in Clients \ {c} : client'[d] = client[d] /\ inbox'[d] = inbox[d]
  BY <1>1, <1>2 DEF SessionTypes
<1>6. PICK mail : mail = box \o rest
  OBVIOUS
<1>7. /\ mail \in Seq(Packets) /\ mail # <<>>
      /\ Head(mail) = Head(box) /\ Tail(mail) = Tail(box) \o rest
      /\ Len(box) <= Len(mail) /\ \A i \in 1..Len(box) : mail[i] = box[i]
  BY <1>1, <1>6, HeadOfMail
<1>8. Mail(c) = mail /\ Mail(c)' = Tail(mail)
  BY <1>2, <1>5, <1>6, <1>7 DEF Mail, box, rest
<1>9. WillAgree(c)'
  <2> SUFFICES ASSUME Connected(c)
               PROVE  /\ \A last \in ClientStates :
                            ReadsAs(new, Tail(mail), last) => AgreesWith(last, c)'
                      /\ SeatOK(new.room, Tail(mail), mPlayers[c].roomId)
                      /\ InboxOK(new.room, Tail(box))
                      /\ BoardHasRoom(new)
    <3>1. Connected(c)' <=> Connected(c)
      BY <1>2, <1>3, <1>5 DEF Connected, s
    <3> QED BY <1>2, <1>5, <1>8, <3>1 DEF WillAgree
  <2>1. /\ \A last \in ClientStates : ReadsAs(s, mail, last) => AgreesWith(last, c)
        /\ SeatOK(s.room, mail, mPlayers[c].roomId)
        /\ InboxOK(s.room, box)
        /\ BoardHasRoom(s)
    BY <1>8 DEF SessionInv, WillAgree, s, box
  <2>2. BoardHasRoom(new) /\ new.room = IF Leaves(Head(box)) THEN NoRoom ELSE s.room
    BY <1>1, <2>1, Processed DEF new
  <2>3. ASSUME NEW last \in ClientStates, ReadsAs(new, Tail(mail), last)
        PROVE  AgreesWith(last, c)'
    <3>1. ReadsAs(s, mail, last)
      BY <1>1, <1>7, <2>1, <2>3, ReadOne DEF new
    <3>2. AgreesWith(last, c)
      BY <2>1, <3>1
    <3> QED BY <1>2, <3>2 DEF AgreesWith
  <2>4. SeatOK(new.room, Tail(mail), mPlayers[c].roomId) /\ InboxOK(new.room, Tail(box))
    BY <1>1, <1>7, <2>1, <2>2, SeatRead
  <2> QED BY <2>2, <2>3, <2>4
<1>10. VoteFollows(c)'
  BY <1>2, <1>3, <1>5 DEF SessionInv, VoteFollows, s
<1> QED BY <1>2, <1>4, <1>5, <1>9, <1>10, OwnStep

-----------------------------------------------------------------------------
(* The inductive invariant                                                  *)

LEMMA InitSessionInv == SessionInit => SessionInv
<1> SUFFICES ASSUME SessionInit PROVE SessionInv
  OBVIOUS
<1>1. /\ mPlayers = [c \in 1..MaxProfiles |-> NewProfile] /\ mRooms = <<>>
      /\ client = [c \in Clients |-> NewClient]
      /\ toServer = [c \in Clients |-> <<>>] /\ toClient = [c \in Clients |-> <<>>]
      /\ inbox = [c \in Clients |-> <<>>]
      /\ MaxProfiles \in Nat
  BY ClientsAssumption, SizesAssumption DEF SessionInit
<1>2. NewProfile \in Profile /\ NewClient \in ClientStates
  BY DEF NewProfile, Profile, NewClient, ClientStates, NoRoom
<1>3. mPlayers \in Seq(Profile) /\ Len(mPlayers) = MaxProfiles
  <2>1. mPlayers \in [1..MaxProfiles -> Profile]
    BY <1>1, <1>2
  <2>2. mPlayers \in Seq(Profile)
    BY <1>1, <2>1, SeqDef
  <2> QED BY <1>1, <2>1, <2>2, LenProperties
<1>4. PlayerIds = Clients
  BY <1>3, ClientsAssumption DEF PlayerIds
<1>5. LobbyInv
  <2>1. DOMAIN mRooms = {}
    BY <1>1
  <2>2. \A p \in PlayerIds : mPlayers[p] = NewProfile
    BY <1>1, <1>4, ClientsAssumption
  <2>3. ASSUME NEW p \in PlayerIds PROVE ProfileSound(p)
    BY <2>2 DEF ProfileSound, NewProfile
  <2>4. Len(mPlayers) <= MaxProfiles
    BY <1>1, <1>3
  <2> QED BY <1>3, <2>1, <2>3, <2>4 DEF LobbyInv
<1>6. SessionTypes
  BY <1>1, <1>2 DEF SessionTypes
<1>7. ASSUME NEW c \in Clients PROVE WillAgree(c) /\ VoteFollows(c)
  <2>1. /\ client[c] = NewClient /\ mPlayers[c] = NewProfile
        /\ toClient[c] = <<>> /\ toServer[c] = <<>> /\ inbox[c] = <<>>
    BY <1>1, ClientsAssumption
  <2>2. Mail(c) = <<>>
    BY <2>1 DEF Mail
  <2>3. ASSUME NEW last \in ClientStates, ReadsAs(client[c], Mail(c), last)
        PROVE  AgreesWith(last, c)
    <3>1. SameView(last, NewClient)
      BY <2>1, <2>2, <2>3, ReadAll
    <3>2. last.phase = "StartMenu"
      BY <3>1 DEF SameView, NewClient
    <3> QED BY <3>2 DEF AgreesWith
  <2>4. /\ SeatOK(client[c].room, Mail(c), mPlayers[c].roomId)
        /\ InboxOK(client[c].room, inbox[c])
        /\ BoardHasRoom(client[c])
    <3>1. client[c].room = NoRoom /\ client[c].phase = "StartMenu" /\ Len(<<>>) = 0
      BY <2>1 DEF NewClient
    <3> QED BY <2>1, <2>2, <3>1 DEF SeatOK, InboxOK, BoardHasRoom
  <2>5. VoteFollows(c)
    BY <2>1 DEF VoteFollows, NewProfile
  <2> QED BY <2>3, <2>4, <2>5 DEF WillAgree
<1> QED BY <1>4, <1>5, <1>6, <1>7 DEF SessionInv, SessionBase

LEMMA HandleKeepsInv ==
    ASSUME SessionInv, NEW c \in Clients, HandleRequest(c)
    PROVE  SessionInv'
<1>1. Kept(c)
  BY CreateKept, JoinKept, LeaveKept, ReadyKept, PlayAgainKept, MoveKept
     DEF HandleRequest, SessionInv
<1>2. /\ \E kind : Request(c, kind)
      /\ UNCHANGED client
      /\ toServer' = [toServer EXCEPT ![c] = Tail(toServer[c])]
  BY DEF HandleRequest, HandleCreate, HandleJoin, HandleLeave, HandleReady, HandlePlayAgain,
         HandleMove, Refused, Handled
<1>3. \A d \in Clients : VoteFollows(d)'
  BY <1>1, <1>2, VoteHandled DEF Kept, SessionInv, SessionBase
<1> QED BY <1>1, <1>3 DEF Kept, SessionInv

LEMMA DisconnectKeepsSession ==
    ASSUME SessionInv, NEW c \in Clients, HandleDisconnect(c)
    PROVE  SessionInv'
<1>1. /\ SessionBase'
      /\ \A d \in Clients : WillAgree(d)'
      /\ \A q \in Clients \ {c} : mPlayers'[q].playAgain => mPlayers[q].playAgain
      /\ ~mPlayers'[c].playAgain
  BY DisconnectKept DEF SessionInv
<1>2. /\ UNCHANGED client /\ toServer'[c] = <<>>
      /\ \A d \in Clients : d # c => toServer'[d] = toServer[d]
  BY DEF HandleDisconnect, SessionInv, SessionBase, SessionTypes
<1>3. ASSUME NEW d \in Clients PROVE VoteFollows(d)'
  <2>1. CASE d = c
    <3>1. \A i \in 1..Len(toServer'[c]) : FALSE
      BY <1>2
    <3> QED BY <1>1, <2>1, <3>1 DEF VoteFollows
  <2>2. CASE d # c
    BY <1>1, <1>2, <2>2, VoteQuiet DEF SessionInv
  <2> QED BY <2>1, <2>2
<1> QED BY <1>1, <1>3 DEF SessionInv

LEMMA NextSessionInv == SessionInv /\ [SessionNext]_sessionVars => SessionInv'
<1> SUFFICES ASSUME SessionInv, [SessionNext]_sessionVars PROVE SessionInv'
  OBVIOUS
<1>1. ASSUME NEW c \in Clients,
             HandleStartMenuClick(c) \/ HandleWaitingRoomClick(c) \/ HandlePuzzleInput(c) \/ PressP(c)
      PROVE  SessionInv'
  BY <1>1, ClicksKeepInv
<1>2. CASE UNCHANGED sessionVars
  <2>1. UNCHANGED <<mPlayers, mRooms, client, toServer, toClient, inbox>>
    BY <1>2 DEF sessionVars, vars
  <2>2. LobbyInv' /\ PlayerIds' = Clients
    BY <2>1, UnchangedBase DEF SessionInv, vars
  <2>3. SessionTypes'
    BY <2>1 DEF SessionInv, SessionBase, SessionTypes
  <2>4. ASSUME NEW d \in Clients PROVE WillAgree(d)' /\ VoteFollows(d)'
    <3>1. WillAgree(d)'
      BY <2>1, WillAgreeStill DEF SessionInv, SameView
    <3> QED BY <2>1, <3>1 DEF SessionInv, VoteFollows
  <2> QED BY <2>2, <2>3, <2>4 DEF SessionInv, SessionBase
<1> QED
  BY <1>1, <1>2, LoseKeepsSession, PollKeepsInv, ProcessKeepsInv, HandleKeepsInv,
     DisconnectKeepsSession
     DEF SessionNext

\* The inductive invariant of client and server: what each client will be when it
\* has read what is on its way agrees with the server, and its votes follow.
THEOREM SessionInvariant == SessionSpec => []SessionInv
<1> QED BY InitSessionInv, NextSessionInv, PTL DEF SessionSpec

\* A client with nothing under way is where it would be.
LEMMA QuietAgrees ==
    ASSUME SessionInv, NEW c \in Clients, Quiet(c)
    PROVE  AgreesWith(client[c], c) /\ client[c].room \in {NoRoom, mPlayers[c].roomId}
<1>1. Connected(c) /\ toClient[c] = <<>> /\ inbox[c] = <<>> /\ client[c] \in ClientStates
  BY DEF Quiet, SessionInv, SessionBase, SessionTypes
<1>2. Mail(c) = <<>>
  BY <1>1 DEF Mail
<1>3. /\ \A last \in ClientStates : ReadsAs(client[c], <<>>, last) => AgreesWith(last, c)
      /\ SeatOK(client[c].room, <<>>, mPlayers[c].roomId)
  BY <1>1, <1>2 DEF SessionInv, WillAgree
<1>4. AgreesWith(client[c], c)
  BY <1>1, <1>3, ReadNothing
<1>5. client[c].room \in {NoRoom, mPlayers[c].roomId}
  BY <1>3 DEF SeatOK
<1> QED BY <1>4, <1>5

\* However requests, refusals, departures and late reading are interleaved, a
\* client with nothing under way believes itself in no room but the one the server
\* has it in, and is at its menu if that is none.
THEOREM RoomsAlwaysAgree == SessionSpec => []RoomsAgree
<1>1. SessionInv => RoomsAgree
  BY QuietAgrees DEF RoomsAgree, AgreesWith
<1> QED BY <1>1, SessionInvariant, PTL

\* A client with nothing under way shows a board only in a round that is running.
THEOREM BoardsShownAreRunning == SessionSpec => []PlayingIsRunning
<1>1. SessionInv => PlayingIsRunning
  BY QuietAgrees DEF PlayingIsRunning, AgreesWith
<1> QED BY <1>1, SessionInvariant, PTL

\* No client shows a cell as confirmed that the server has not counted for it in
\* the round it is in, however late a move was handled or its answer read.
THEOREM ConfirmedCellsAlwaysCount == SessionSpec => []ConfirmedCellsCount
<1>1. SessionInv => ConfirmedCellsCount
  BY QuietAgrees DEF ConfirmedCellsCount, AgreesWith
<1> QED BY <1>1, SessionInvariant, PTL

\* The server never counts a vote that the client has taken back.
THEOREM VotesStayBehind == SessionSpec => []VotesNeverAhead
<1>1. ASSUME SessionInv, NEW c \in Clients, Quiet(c), mPlayers[c].playAgain
      PROVE  client[c].playAgain
  <2>1. client[c].connected /\ toServer[c] = <<>> /\ VoteFollows(c)
    BY <1>1 DEF Quiet, Connected, SessionInv
  <2>2. \A i \in 1..Len(toServer[c]) : FALSE
    BY <2>1
  <2> QED BY <1>1, <2>1, <2>2 DEF VoteFollows
<1>2. SessionInv => VotesNeverAhead
  BY <1>1 DEF VotesNeverAhead
<1> QED BY <1>2, SessionInvariant, PTL

=============================================================================
