---------------------------- MODULE GameSession -----------------------------
(***************************************************************************)
(* Clients and server together.  Every client (GameClient.cpp with its     *)
(* ServerBridge, WaitingRoom, RoundSummary and PlayerViewport) keeps its   *)
(* own idea of where it is and what it has done, and learns of the         *)
(* server's from packets.  TCP keeps the packets of a connection in order; *)
(* nothing orders those of two connections, and every packet may be        *)
(* handled long after it was sent, or never: connections are lost, with    *)
(* the window open or closed, and are not made again.  The server's side   *)
(* is HostEngine; this module adds what its handlers in main.cpp answer    *)
(* and announce.                                                           *)
(*                                                                         *)
(* Connection c belongs to profile c: all clients have signed in and stay  *)
(* who they are (GameServer has the sessions).  A submission and a hint    *)
(* are one request here, "move": both are answered by a CellResult and may *)
(* fill a cell.  Whether a value is right is decided when the request is   *)
(* handled, since the board may have changed under it.  Packets that only  *)
(* change what is listed (scores, claims, hints, rooms, friends, history)  *)
(* are left out.  A button is taken to be drawn between two clicks.        *)
(***************************************************************************)
EXTENDS HostEngine

CONSTANTS
    Clients,        \* 1..n, connections and the profiles they signed in to
    TopLeft,        \* row 0, column 0; a member of Cells if it is open
    Openers,        \* model bound: the clients that create rooms
    MaxRequests,    \* model bound: requests of a client not yet handled
    MaxUnread       \* model bound: packets unread when the next request is handled

ASSUME ClientsAssumption == Clients = 1..MaxProfiles /\ Openers \subseteq Clients

VARIABLES
    client,         \* the state of each client
    toServer,       \* requests sent and not yet handled, per client
    toClient,       \* packets sent and not yet read, per client
    inbox           \* mInbox: packets read and not yet processed, per client

sessionVars == <<vars, client, toServer, toClient, inbox>>

\* mAssignedRoomId, pendingRoomRequest, WaitingRoom::mLocalReady,
\* RoundSummary::mPlayAgain and the cells shown as CorrectConfirmed.
NewClient ==
    [connected |-> TRUE, phase |-> "StartMenu", room |-> NoRoom, pending |-> FALSE,
     localReady |-> FALSE, playAgain |-> FALSE, confirmed |-> {}]

Packet(kind) == [kind |-> kind]
RoomJoined(r) == [kind |-> "RoomJoinedResponse", room |-> r]
CellChecked(cell, correct) == [kind |-> "CellCheckedResponse", cell |-> cell, correct |-> correct]

\* The reply to a move that no running match has looked at: CellResult{}.
DefaultReply == CellChecked(TopLeft, FALSE)

SessionInit ==
    /\ mPlayers = [c \in Clients |-> NewProfile]
    /\ mRooms = <<>>
    /\ client = [c \in Clients |-> NewClient]
    /\ toServer = [c \in Clients |-> <<>>]
    /\ toClient = [c \in Clients |-> <<>>]
    /\ inbox = [c \in Clients |-> <<>>]

\* A turn of a timer reads and processes in one go, and all that it changes is
\* the client's own: nothing else is interleaved with it.
NobodyReading == \A c \in Clients : inbox[c] = <<>>

-----------------------------------------------------------------------------
(* Clicks and keys                                                          *)

\* A click that changes the client by `change' and sends `request'.
Click(c, change, request) ==
    /\ client[c].connected
    /\ NobodyReading
    /\ Len(toServer[c]) < MaxRequests
    /\ client' = [client EXCEPT ![c] = change]
    /\ toServer' = [toServer EXCEPT ![c] = Append(@, request)]
    /\ UNCHANGED <<vars, toClient, inbox>>

\* Create and Join are dead while a room request is pending, which it is also
\* when nothing was sent, for want of a connection.  Rooms take the least free
\* id, so those of the openers are the ids there are to ask for.
HandleStartMenuClick(c) ==
    LET waiting == [client[c] EXCEPT !.pending = TRUE] IN
    /\ client[c].phase = "StartMenu" /\ ~client[c].pending
    /\ \/ c \in Openers /\ Click(c, waiting, Packet("create"))
       \/ \E r \in Openers : Click(c, waiting, [kind |-> "join", room |-> r])
       \/ /\ ~client[c].connected
          /\ NobodyReading
          /\ client' = [client EXCEPT ![c] = waiting]
          /\ UNCHANGED <<vars, toServer, toClient, inbox>>

HandleWaitingRoomClick(c) ==
    LET toggled == [client[c] EXCEPT !.localReady = ~@] IN
    /\ client[c].phase = "WaitingRoom"
    /\ \/ Click(c, toggled, [kind |-> "ready", flag |-> toggled.localReady])
       \/ Click(c, client[c], Packet("leave"))

\* SubmitDigit and UseHint.
HandlePuzzleInput(c) ==
    /\ client[c].phase = "Playing"
    /\ \E cell \in Cells : Click(c, client[c], [kind |-> "move", cell |-> cell])

\* Mutant: the key sends the vote as it was.
PressPStale(c) ==
    LET toggled == [client[c] EXCEPT !.playAgain = ~@] IN
    /\ client[c].phase = "RoundSummary"
    /\ Click(c, toggled, [kind |-> "playAgain", flag |-> client[c].playAgain])

\* TogglePlayAgain.
PressP(c) ==
    LET toggled == [client[c] EXCEPT !.playAgain = ~@] IN
    /\ client[c].phase = "RoundSummary"
    /\ Click(c, toggled, [kind |-> "playAgain", flag |-> toggled.playAgain])

\* ServerBridge::Disconnect, when the window is closed or a read finds the
\* connection gone: what was not processed is lost, the screen stays as it is.
LoseConnection(c) ==
    /\ client[c].connected
    /\ NobodyReading
    /\ client' = [client EXCEPT ![c].connected = FALSE, ![c].room = NoRoom]
    /\ toClient' = [toClient EXCEPT ![c] = <<>>]
    /\ UNCHANGED <<vars, toServer, inbox>>

-----------------------------------------------------------------------------
(* Packets at the client                                                    *)

Joins(msg) == msg.kind = "RoomJoinedResponse" /\ msg.room # NoRoom

\* PollIncoming with DecodePacket: reads what has arrived, and takes the room of a
\* join at once, before the packets in front of it have been processed.
Poll(c) ==
    /\ client[c].connected
    /\ NobodyReading
    /\ \E n \in 1..Len(toClient[c]) :
        LET read == SubSeq(toClient[c], 1, n) IN
        /\ inbox' = [inbox EXCEPT ![c] = read]
        /\ toClient' = [toClient EXCEPT ![c] = SubSeq(@, n + 1, Len(@))]
        /\ \/ (\A i \in 1..n : ~Joins(read[i])) /\ UNCHANGED client
           \/ \E i \in 1..n :
                /\ Joins(read[i]) /\ \A j \in (i + 1)..n : ~Joins(read[j])
                /\ client' = [client EXCEPT ![c].room = read[i].room]
    /\ UNCHANGED <<vars, toServer>>

\* ClearRoomAssignment, WaitingRoom{}, back to the menu.
ToMenu(state) ==
    [state EXCEPT !.room = NoRoom, !.localReady = FALSE, !.phase = "StartMenu",
                  !.pending = FALSE]

\* Mutant: a new match keeps the cells of the one before.
ShowMatchOnOldBoard(state) ==
    IF state.room = NoRoom THEN state ELSE [state EXCEPT !.phase = "Playing"]

ShowMatch(state) ==
    IF state.room = NoRoom THEN state
    ELSE [state EXCEPT !.confirmed = {}, !.phase = "Playing"]

\* A wrong answer takes the place of whatever the cell showed.
ApplyCellResult(state, msg) ==
    [state EXCEPT !.confirmed =
        IF msg.correct THEN @ \cup ({msg.cell} \cap Cells) ELSE @ \ {msg.cell}]

\* ProcessIncomingMessages for one packet.
Applied(state, msg) ==
    CASE msg.kind = "RoomJoinedResponse" ->
            [state EXCEPT !.phase = IF Joins(msg) THEN "WaitingRoom" ELSE "StartMenu",
                          !.pending = FALSE]
      [] msg.kind = "WaitingRoomUpdate" -> [state EXCEPT !.phase = "WaitingRoom"]
      [] msg.kind \in {"LeaveRoomResponse", "RoomClosedNotice"} -> ToMenu(state)
      [] msg.kind = "MatchStarted" -> ShowMatch(state)
      [] msg.kind = "CellCheckedResponse" -> ApplyCellResult(state, msg)
      [] msg.kind = "RoundFinishedNotice" -> [state EXCEPT !.phase = "RoundSummary"]
      [] msg.kind = "ErrorNotice" -> [state EXCEPT !.pending = FALSE]

ProcessIncoming(c) ==
    /\ inbox[c] # <<>>
    /\ client' = [client EXCEPT ![c] = Applied(@, Head(inbox[c]))]
    /\ inbox' = [inbox EXCEPT ![c] = Tail(@)]
    /\ UNCHANGED <<vars, toServer, toClient>>

-----------------------------------------------------------------------------
(* Requests at the server                                                   *)

Request(c, kind) == toServer[c] # <<>> /\ Head(toServer[c]).kind = kind

\* Connections whose player the handler has left in room r.
InRoom(r) == {d \in Clients : mPlayers'[d].roomId = r /\ mPlayers'[d].connected}

To(ds, msgs) == [d \in Clients |-> IF d \in ds THEN msgs ELSE <<>>]

\* SendPacket to a connection whose client is gone reaches nobody.
Send(first, second) ==
    toClient' = [d \in Clients |->
        IF client[d].connected THEN toClient[d] \o first[d] \o second[d] ELSE <<>>]

Nothing == To({}, <<>>)

Handled(c, first, second) ==
    /\ toServer' = [toServer EXCEPT ![c] = Tail(@)]
    /\ Send(first, second)
    /\ UNCHANGED <<client, inbox>>

Snapshot(r) == To(InRoom(r), <<Packet("WaitingRoomUpdate")>>)

HandleCreate(c) ==
    /\ Request(c, "create")
    /\ \/ /\ CreateRoomForPlayer(c, MaxPlayers)
          /\ LET r == mPlayers'[c].roomId IN
             Handled(c, To({c}, <<RoomJoined(r)>>), Snapshot(r))
       \/ /\ mPlayers[c].roomId # NoRoom
          /\ UNCHANGED vars
          /\ Handled(c, To({c}, <<RoomJoined(NoRoom)>>), Nothing)

\* Mutant: who cannot join is not answered.
HandleJoinSilently(c) ==
    LET r == Head(toServer[c]).room IN
    /\ Request(c, "join")
    /\ \/ /\ JoinRoomForPlayer(c, r)
          /\ Handled(c, To({c}, <<RoomJoined(r)>>), Snapshot(r))
       \/ /\ ~CanJoin(c, r)
          /\ UNCHANGED vars
          /\ Handled(c, Nothing, Nothing)

HandleJoin(c) ==
    LET r == Head(toServer[c]).room IN
    /\ Request(c, "join")
    /\ \/ /\ JoinRoomForPlayer(c, r)
          /\ Handled(c, To({c}, <<RoomJoined(r)>>), Snapshot(r))
       \/ /\ ~CanJoin(c, r)
          /\ UNCHANGED vars
          /\ Handled(c, To({c}, <<RoomJoined(NoRoom)>>), Nothing)

\* Mutant: the host, who closes the room, is not told.
LeaveTellsGuestsOnly(c) ==
    LET r == mPlayers[c].roomId IN
    /\ Request(c, "leave")
    /\ \/ /\ LeaveRoom(c)
          /\ \/ /\ IsHost(r, c)
                /\ Handled(c, To(Members(r) \ {c}, <<Packet("RoomClosedNotice")>>), Nothing)
             \/ /\ ~IsHost(r, c)
                /\ Handled(c, To({c}, <<Packet("LeaveRoomResponse")>>), Snapshot(r))
       \/ /\ r = NoRoom
          /\ UNCHANGED vars
          /\ Handled(c, To({c}, <<Packet("LeaveRoomResponse")>>), Nothing)

HandleLeave(c) ==
    LET r == mPlayers[c].roomId IN
    /\ Request(c, "leave")
    /\ \/ /\ LeaveRoom(c)
          /\ \/ /\ IsHost(r, c)
                /\ Handled(c, To(Members(r), <<Packet("RoomClosedNotice")>>), Nothing)
             \/ /\ ~IsHost(r, c)
                /\ Handled(c, To({c}, <<Packet("LeaveRoomResponse")>>), Snapshot(r))
       \/ /\ r = NoRoom
          /\ UNCHANGED vars
          /\ Handled(c, To({c}, <<Packet("LeaveRoomResponse")>>), Nothing)

\* BroadcastMatchStarted.
Started(r) == To(InRoom(r), <<Packet("MatchStarted")>>)

Refused(c) ==
    /\ mPlayers[c].roomId = NoRoom
    /\ UNCHANGED vars
    /\ Handled(c, To({c}, <<Packet("ErrorNotice")>>), Nothing)

HandleReady(c) ==
    LET r == mPlayers[c].roomId IN
    /\ Request(c, "ready")
    /\ \/ /\ ToggleReady(c, Head(toServer[c]).flag)
          /\ Handled(c, Snapshot(r), IF CanStart(r) THEN Started(r) ELSE Nothing)
       \/ Refused(c)

HandlePlayAgain(c) ==
    LET r     == mPlayers[c].roomId
        flag  == Head(toServer[c]).flag
        voted == [mPlayers EXCEPT ![c].playAgain = flag]
        again == AllPlayersReadyForReplay(voted, r)
    IN  /\ Request(c, "playAgain")
        /\ \/ /\ TogglePlayAgain(c, flag)
              /\ Handled(c, Nothing, IF again THEN Started(r) ELSE Nothing)
           \/ Refused(c)

\* Mutant: the leaderboard is looked at before the move.
RoundFinishedBefore(r) ==
    IF r # NoRoom /\ mRooms[r].match.phase = "finished"
    THEN To(InRoom(r), <<Packet("RoundFinishedNotice")>>)
    ELSE Nothing

\* HasAnyFinished, on the leaderboard of the room of the player.
RoundFinished(r) ==
    IF r # NoRoom /\ mRooms'[r].match.phase = "finished"
    THEN To(InRoom(r), <<Packet("RoundFinishedNotice")>>)
    ELSE Nothing

\* The match of the room takes the move, turns it down, or is not running.
HandleMove(c) ==
    LET r        == MatchOf(c)
        cell     == Head(toServer[c]).cell
        running  == r # NoRoom /\ mRooms[r].match.phase = "running"
        playing  == running /\ c \in DOMAIN mRooms[r].match.filled
        Reply(m) == Handled(c, To({c}, <<m>>), RoundFinished(r))
    IN  /\ Request(c, "move")
        /\ \/ FillCell(c, cell) /\ Reply(CellChecked(cell, TRUE))
           \/ /\ playing /\ cell \in mRooms[r].match.filled[c]
              /\ UNCHANGED vars
              /\ Reply(CellChecked(cell, TRUE))
           \/ running /\ UNCHANGED vars /\ Reply(CellChecked(cell, FALSE))
           \/ ~running /\ UNCHANGED vars /\ Reply(DefaultReply)

\* The bound on how far the clients may be behind, all together.
FewUnread == Len(FlattenSeq(toClient)) <= MaxUnread

HandleRequest(c) ==
    /\ mPlayers[c].connected
    /\ NobodyReading
    /\ FewUnread
    /\ \/ HandleCreate(c) \/ HandleJoin(c) \/ HandleLeave(c) \/ HandleReady(c)
       \/ HandlePlayAgain(c) \/ HandleMove(c)

\* The connection's end reaches the server behind its requests, or, when it was
\* reset, in their place; the server may notice before the client does.
HandleDisconnect(c) ==
    LET r == mPlayers[c].roomId IN
    /\ mPlayers[c].connected
    /\ NobodyReading
    /\ FewUnread
    /\ Disconnect(c)
    /\ toServer' = [toServer EXCEPT ![c] = <<>>]
    /\ IF r # NoRoom /\ IsHost(r, c)
       THEN Send(To(Members(r) \ {c}, <<Packet("RoomClosedNotice")>>), Nothing)
       ELSE Send(IF r # NoRoom THEN Snapshot(r) ELSE Nothing, Nothing)
    /\ UNCHANGED <<client, inbox>>

SessionNext ==
    \E c \in Clients :
        \/ HandleStartMenuClick(c)
        \/ HandleWaitingRoomClick(c)
        \/ HandlePuzzleInput(c)
        \/ PressP(c)
        \/ LoseConnection(c)
        \/ Poll(c)
        \/ ProcessIncoming(c)
        \/ HandleRequest(c)
        \/ HandleDisconnect(c)

\* The server polls every connection in every turn of its loop, and a client's
\* timer runs as long as its window is open, and processes in the turn that reads.
\* Turns are interleaved whole, so that those of one client and of the server wait
\* while another is at it, again and again: hence strong fairness.  That the server
\* may also wait for the clients to read is the bound.  Nobody is assumed to click,
\* and no connection to last or to be seen lost.
SessionSpec ==
    /\ SessionInit
    /\ [][SessionNext]_sessionVars
    /\ \A c \in Clients :
        /\ SF_sessionVars(HandleRequest(c))
        /\ SF_sessionVars(Poll(c))
        /\ WF_sessionVars(ProcessIncoming(c))

-----------------------------------------------------------------------------
(* Properties: what client and server agree on when nothing is under way    *)

Connected(c) == client[c].connected /\ mPlayers[c].connected

Quiet(c) == Connected(c) /\ toServer[c] = <<>> /\ toClient[c] = <<>> /\ inbox[c] = <<>>

\* However leaving, closing, refused requests and reading late were interleaved,
\* a client whose packets have all arrived believes itself in no room but the one
\* the server has it in, and is back at its menu if that is none.  (From its menu it
\* may look at the history, which is left out.)
RoomsAgree ==
    \A c \in Clients : Quiet(c) =>
        /\ client[c].room \in {NoRoom, mPlayers[c].roomId}
        /\ mPlayers[c].roomId = NoRoom => client[c].phase = "StartMenu"

\* A client that shows a board plays in a round that is running: the end of a
\* round, the closing of its room and the leaving of its player all reach it.
PlayingIsRunning ==
    \A c \in Clients : Quiet(c) /\ client[c].phase = "Playing" =>
        mRooms[mPlayers[c].roomId].match.phase = "running"

\* What the board of a client shows as confirmed the server has counted as filled
\* by that player in the round it is in, also when the move was sent in one round
\* and handled in the next, or answered without having been looked at.
ConfirmedCellsCount ==
    \A c \in Clients : Quiet(c) /\ client[c].phase = "Playing" =>
        LET match == mRooms[mPlayers[c].roomId].match IN
        client[c].confirmed # {} =>
            c \in DOMAIN match.filled /\ client[c].confirmed \subseteq match.filled[c]

\* Nobody counts as voting for a replay whose own client says NO: the server's
\* votes may fall behind the client's, never ahead.
VotesNeverAhead ==
    \A c \in Clients : Quiet(c) /\ mPlayers[c].playAgain => client[c].playAgain

\* A client that waits for the answer to a room request gets one, so that its
\* menu does not stay dead: as long as its connection stands.
RoomRequestsAnswered ==
    \A c \in Clients : client[c].pending ~> (~client[c].pending \/ ~Connected(c))

\* The summary says `Play Again: YES' to whoever the server counts as voting.
ShownVoteCounts ==
    \A c \in Clients : Quiet(c) /\ client[c].phase = "RoundSummary" =>
        client[c].playAgain = mPlayers[c].playAgain

=============================================================================
