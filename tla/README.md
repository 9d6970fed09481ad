# Verification of the multiplayer sudoku server

TLA+ models of the game in `src/` (a C++ server and a Win32 client), the TLC
configurations that check them on small instances, and proofs checked by TLAPS.

## The system

Two or three players race on private copies of one sudoku. Each correct cell
pays its first, second and third solver 10, 6 and 3 points; wrong values cost
10 points; hints are earned by score and by streaks; the first full board ends
the round. The server is one thread: `main.cpp` polls the sockets and handles
the events of the poll one after the other, each to the end, so a handler is
atomic. Concurrency comes from the clients: requests of several players in any
order, requests that were sent before the sender saw what had happened,
connections that go away between any two of them. All traffic is TCP (the
repository's README also names UDP, of which the code has none).

| Component | State | Operations | Modules |
|---|---|---|---|
| `SudokuAuthority` | puzzle, a record per player (score, streak, hints, solved cells), leaderboard order, solve order per cell, finished flag | `StartNewMatch`, `SubmitCell`, `UseHint` | `SudokuAuthority`, `SudokuAuthorityProofs` |
| `LiveMatch` | ids of the table, running flag, an authority, a `BoardVault` | `SetPlayers`, `StartNextRound`, `HandleCellSubmission`, `UseHint` | `LiveMatch`, `MatchRound`, `LiveMatchProofs` |
| `HostEngine`, `RoomDirectory`, `ConnectionProfile` | profiles (room id, connected, ready, vote), rooms (host, places, ids, match) | register, create, join, leave, close, ready and start, vote and replay, play, disconnect | `HostEngine`, `Seating`, `HostEngineProofs` |
| `main.cpp` | connection -> player, connection -> authenticated | one handler per packet kind, broadcasts, match history | `HostEngine` (rooms and play), `GameServer` (sessions), `GameSession` (answers and announcements), `UserDatabase` (friend requests); `GameServerProofs` |
| `SocketHub` | sockets, receive buffers, outgoing event list | poll, send, accept, remove | `SocketHub`, `SocketHubProofs`, `GameServer`, `BlockingSends` |
| `UserDatabase` | users, friends, requests, history (SQLite) | sign up, verify, request, accept, list, insert | `UserDatabase`, `UserDatabaseProofs`; accounts in `GameServer` |
| `BoardVault` | none between calls | random solution, removal of clues with a uniqueness test | `BoardVault`, `BoardVaultProofs` |
| `WireFormat`, `PacketKinds`, `SharedModels` | none | encoding and decoding | `WireFormat`, `SocketHubProofs` |
| Client: `ServerBridge`, `GameClient`, screens | connection, receive buffer, screen, board view, ready and vote flags | send requests, apply packets, clicks | `GameSession`, `GameSessionProofs`, `SocketHub`, `BlockingSends` |
| Client drawing and layout; SQLite | | | not modelled: output only; vendored |

How they interact: `main.cpp` calls `HostEngine` with the player of the
connection; `HostEngine` finds the profile, through its room id the room, and
passes play on to the room's `LiveMatch`, which passes it on to its
`SudokuAuthority` while a round is running. Replies go to the caller, boards and
claims to every connection whose profile has the room's id.

What is hard about it, and where: information that is kept twice and updated by
hand (membership in profile and room; the end of the round in match and
authority; scores and their sorted order; solved cells and solve order; the
session maps and the profiles; everything the client keeps of the server's
state); flags that outlive the situation they were set in (ready, replay votes,
the ids of a match); calls that come late (after the finish, after a departure,
in the next round, behind a lost socket); packets in pieces; sends that wait on
both sides; database statements that fail half way. `PROJECT.json` lists each at
its line under `hazards`.

What makes each component correct:

- `SudokuAuthority`: nobody is paid twice for a cell, points follow the order of
  the solves, hints spent never exceed hints earned, scores do not fall below
  zero, the round is over exactly when one player has filled the board, the
  board of scores is sorted after every call, claims do not change hands.
- `LiveMatch`: it agrees with its authority on whether a round runs; what it
  answers to the caller agrees with what everybody sees.
- Lobby: profile and room agree; the host is there as long as the room is; who
  plays is who sits at the table; nobody waits for what has already been agreed.
- Sessions: a name is logged in once; the session maps, the profiles and the
  sockets agree; who is lost gives up its seat.
- Sockets: packets come out as they went in, whole and in order; no send waits
  for ever.
- Database: a request is not lost, and a friendship was asked for (which fails).
- Puzzles: one solution, the one that moves are compared with.
- Client: its room, its round, its confirmed cells and its vote agree with the
  server's whenever nothing is under way (with the exceptions below).

## The modules

### SudokuAuthority

One round. `mPlayers` is a function from ids to records (the code's vector is
kept sorted; `mRank` is the position in it), `mCellSolveOrder` the ids that
solved a cell, in order. A puzzle is the set of its open cells. A submitted
value is "right", "wrong" or "invalid"; `OffBoard` is any position outside the
grid. Grid contents, names and clocks are left out. `SubmitCell` is the
disjunction of its four outcomes (turned away, wrong, first solve, repeat), each
with the sort the code ends with. `UseHint` is turned away or applied.

Properties: `SolveOrderSound` (places in the solve order are for players who
have the cell, one each), `HintsAccounted` (cells filled without a place are
hints used), `HintBudget` (the four hint fields balance), `ScoreLedger` (a score is
at most the sum of the awards its player's places stand for, and short of it by
no more than the penalties taken), `RoundOverWhenFilled`,
`LeaderboardSorted`, `ClaimsStable`, `FinishedFrozen`.

### LiveMatch and MatchRound

`LiveMatch` EXTENDS the authority with the ids of the table, the running flag
and `result`, the `CellResult` of the last call. `MatchRound` is the promise: a
roster races to fill a board, cell by cell; the first full board ends it.
`ImplementsMatchRound` says that `LiveMatch` is that race, with the phase taken
from the flag and the filled cells from the records. `FlagsAgree`,
`RepliesMatchScores` and `RepliesNameFirstSolver` tie the replies and the flag to
the authority's state.

### HostEngine and Seating

The lobby, with one action per room request as `main.cpp` handles it:
`ToggleReady` is `SetPlayerReady` and then `TryStartMatch`, `TogglePlayAgain` is
`SetPlayerPlayAgain` and then `TryStartReplay`, `LeaveRoom` and `Disconnect` close
the room when the player is its host. A request that is refused changes nothing
and is a stutter. The match of a room is the state of `MatchRound`
(`LiveMatch` implements it) with the ids the next round starts with, and `FillCell`
is a submission or a hint that fills a cell; it goes to the match of the room in
the profile, as the code routes it. Names are in `GameServer`; the visibility of a
room, which no guard reads, is left out.

`Seating` is the promise: at most one seat each, in an open room, with the host
seated as long as it is open and everybody unseated at once when it closes.
`ImplementsSeating` reads the seats from the profiles only and hosts and places
from the rooms only, so it holds just because the two agree (`MembershipAgrees`).
`RoomsPlayRounds` joins the lobby to the match: from the opening of a room to its
closing, what the lobby does to the match in it are steps of `MatchRound`.

What the model shows of the code's behaviour, worth knowing because nothing in
the code looks for it:

- Ready flags stay set during a match. When a player leaves and another joins
  and gets ready, the match restarts for everybody, finished or not. What holds
  is `ReadyRoomHasItsRound`: the new round is that of the players now present.
- A replay is played by the ids of the last match. Who has left since still has
  a record on the board (and never moves, as play goes to the room in the
  profile), who has joined has none. No property calls this wrong, as nothing in
  the repository says who should be in a replay: `RoundsHaveFullTables` is about the
  size of the line-up, not about who is in it. Its empty case is a replay voted for
  in a room that has never played, which starts a round nobody is in.
- When the last player who has not voted leaves, the votes of the others stand
  and no replay starts until one of them votes again. `VotesAnsweredUnlessLeft`
  exempts this case and says that it is the only way to be left waiting.

### GameServer

EXTENDS `HostEngine` with the loop of `main.cpp`: connections are accepted and
lost, `connectionToPlayer` and `connectionAuthenticated` say who is behind them,
sign-up and sign-in register a profile or rename the one the connection has.
`PollEvents` is a poll, which hands out all packets first and the disconnects
last and has removed the lost sockets by then, so `HandlePacket` also serves
connections that are in `disconnected`. `names` and `accounts` are the names of
the profiles and the users table.

`SessionsAgree` relates the two maps, the `connected` flags, the sockets and the
accounts; `OneLoginPerName` is what messages and friend requests by name rely on;
`LobbyServed` is `HostEngine`'s `Spec`, so the sessions make no call that the lobby
does not provide for; `LostPlayersLeave` is the liveness of the disconnect.

What it shows: signing in again under another name, also during a match, is
accepted and keeps seat and score; signing in again under the connection's own
name is refused as "already logged in", upon which the client considers itself
signed out (`GameClient.cpp:1794`) while the server does not; the check of a
name in use that a sign-up makes after it has created the account refuses nobody,
since a name in use has an account.

### GameSession

Client and server together, over one first-in first-out channel per direction and
client. A client is its connection, its screen (`phase`), the room its bridge was
assigned, `pendingRoomRequest`, the ready and vote flags it toggles and sends, and
the cells it shows as confirmed. Clicks are those its screens offer; Create and Join
set `pendingRoomRequest` also when there is no connection and nothing is sent. The
server's side EXTENDS `HostEngine` with what each handler answers and announces, and
to whom (`InRoom` is who is in the room when the handler is through). A packet may
be read arbitrarily late, and the server may handle requests of others in between. A
turn of a client's timer reads what has arrived (`Poll`), any part of what is under
way, and then processes it packet by packet (`ProcessIncoming`); reading already
takes the room of a join. Nothing else is interleaved with a turn, as all it changes
is the client's own. A connection is lost at any time, with the window open or
closed, which comes to the same: the inbox and the room are cleared, the screen
stays, and nothing is sent or read any more (`LoseConnection`). The server notices
before or after (`HandleDisconnect`), and has handled the requests before it or lost
them. A move carries no value: whether it is right is chosen when it is handled, as
the board may have changed since it was sent. A submission and a hint are one
request. Confirmed cells that the player erases are still counted at the server, so
erasing, a local operation, is left out, and so are notes, scores, claims, lists and
chat.

The properties speak of clients that are connected and `Quiet`: nothing sent is
unhandled and nothing received is unprocessed. `RoomsAgree`, `PlayingIsRunning`,
`ConfirmedCellsCount` and `VotesNeverAhead` are what the two sides can then rely on.
`RoomRequestsAnswered` is the liveness of the menu, as long as the connection
stands: when it is lost, the request that is pending stays so, and one that is
made afterwards, too, and the buttons are dead until the program is started again
(`GameClient.cpp:2002`). What TLC showed not to hold, on the way to them, is how the
code behaves:

- The room: Leave can be clicked twice before the first click is answered, and the
  second is answered, too. When the player has created a room by then and both
  answers are read in one turn, the room is taken by the reading and cleared by the
  processing of the leave. The client shows `Room ID: 0` and does not take the
  start of the match. (The model has this from `MaxUnread` = 1 on.) `RoomsAgree`
  therefore says that a client believes itself in no room but its own, not that it
  knows it.
- The vote: after a replay the next summary shows `Play Again: YES` although the
  server has reset the vote, and pressing P then sends NO (`replay_vote`, a
  finding). `VotesNeverAhead` is the half that holds.
- The ready flag is the client's own, too: a replay resets the server's and not
  the client's; the closing of a room resets the client's while a toggle is on
  its way. Neither is ahead of the other.
- A move or a hint that is handled after the finish announces the end of the
  round once more to everybody in the room, also to one who joined since, who is
  then shown the summary of a round it was not in. `ConfirmedCellsCount` therefore
  speaks of screens that show a board.
- An update of the room in the middle of a match shows the waiting room to
  everybody who plays (a departure, a newcomer, a ready toggle): the screen is
  behind the server until the next match starts or the round ends.
- A late error notice releases `pendingRoomRequest`, so that a second create or
  join can be sent; its refusal sends a seated client to its menu until the next
  update of its room. `RoomsAgree` compares the room, and the screen only of those
  who are in none. (They may also look at the history screen, which is left out.)

### WireFormat, MessageStream and SocketHub

`WireFormat` has the order of the fields of every structure twice, as the writing
and as the reading functions name them, the body of every packet twice, as the
`Make...Packet` functions and as the receiving switches have it, and the
primitives: big-endian numbers of a fixed width, negative numbers as the
unsigned ones with the same bits, strings and lists with their length, reading
that fails when the bytes run out. `SocketHub` puts a length before each packet,
lets TCP deliver pieces of any size, and cuts the packets out of the receive
buffer, on the server's and on the client's side, with the ends of a connection:
closed by the client with bytes still to be read, removed by the server, reset.
`MessageStream` is the promise, of each direction: what is sent is received whole
and in order, some of it late, the rest not at all when the stream ends.

### BlockingSends

Both `SendAll`s repeat a send that would block without reading. The buffers of a
connection hold `Capacity` packets each way; a client in a send processes nothing,
the server in a send handles nobody. `NobodyHangs` says that as long as the buffers
suffice for the requests under way (`BuffersSuffice`) every click returns and the
server gets back to its poll. The condition excludes a deadlock that the code has:
without it, TLC finds a client that waits for the server to read and the server
waiting for the client. In the program the buffers are those of the operating
system, and the condition a user who is not ahead of the server by some thousand
clicks.

### UserDatabase

`disk` is what SQLite has committed, `view` what the server's own statements see.
`AcceptFriendRequest` is modelled statement by statement, each of which may fail;
the code ignores the outcome of BEGIN, of COMMIT and of preparing the DELETE, so
that the statements may commit one by one, or the transaction stay open for the
statements to come. `signedIn` is the
user of each client at the server, `shown` the senders it lists, `clicked` the
acceptances on their way. `RequestsBecomeFriendships` speaks of the committed rows.

A client may sign in as one user after the other. It lists what the one before was
sent until the new list has come, and the server accepts a request in the name of
who is signed in when the click arrives, without looking for the request. So two
people can become friends of whom neither has asked the other, whom the server
tells that the request was accepted: `FriendshipsWereAskedFor` is violated
(`stale_requests`, a finding). A request that crosses an accepted one stays listed,
and declining deletes nothing.

### BoardVault

`SolvedGrids` are the grids that the randomised backtracking can end with, filled
cell by cell (`FillCell`); `CountSolutions` is the bounded search of the code and
`CountDigits` its loop over the digits of one cell; `RemoveCell` is one turn of the
loop that clears cells. `OneSolution` compares with the grids that obey the rules,
found without the search; `NoClueToSpare` is what the loop promises although each
cell is tried only once: it has cleared what it was to clear, or no clue that is
left can go without another solution coming up.

## What TLC checks

| Run | Instance | States | Shows |
|---|---|---|---|
| `sudoku_authority` | 2 players, boards from 3 cells, 4 moves each, a streak hint at 1, a score hint at 16 | 124,107 | the round's invariants and action properties |
| `live_match` | 3 players, 2 cells, 2 moves each, score hint at 10 | 39,792 | flags and replies; refinement of `MatchRound` |
| `host_engine` | 3 profiles, rooms of 2 and of 3, 1 cell | 858,607 | the lobby's invariants and action property, players who change rooms in a round |
| `game_server` | 3 connections, 2 names, rooms of 2 | 163,749 | sessions, late packets and disconnects; refinement of the lobby's `Spec` and of `Seating`; lost players leave |
| `game_session` | 2 clients, a room of 2, 1 cell, 1 request under way, nothing unread | 3,100,263 | what a client shows of its room, rounds, cells and votes after every exchange; the rounds of the room are those of `MatchRound` |
| `session_progress` | 2 clients, a room of 3, nothing unread | 35,180 | room requests are answered |
| `replay_vote` | as `game_session` | violated | the vote that is shown and not counted |
| `socket_hub` | 2 messages over a connection, every kind with two sets of values, bytes of base 8, reads of 1, 20 and 64 | 103,340 | framing and format; refinement of `MessageStream` in each direction |
| `blocking_sends` | 2 clients, buffers of 2, 3 requests under way | 15,838 | no send waits for ever while the buffers suffice |
| `user_database` | 3 users, 2 clients (symmetric), 2 different requests, 2 friendships, 1 click under way each | 4,795,087 | what is committed after failures and crashes |
| `stale_requests` | the same | violated | the friendship that nobody asked for |
| `board_vault` | boards of 4 by 4, 288 solutions, 4 orders, 5 clues to keep | 15,577 | one solution; nothing left to clear |

Bounds. `MaxMoves` bounds the moves counted per player and round, `MaxProfiles` the
profiles registered in one run of the server; nothing else is cut in the first three
runs. Two players and four moves reach a first and a second solve, a repeat, a wrong
answer, both kinds of hint and their cap, ties in the score and a finish by either
path; the third solver comes with the table of three in `live_match`. The thresholds
of the rules are lowered so that hints happen within those moves; the relations
between them are kept. Three profiles are a full room, and a room in which two stay
behind when one leaves, or a pair with a third player who takes the place of one who
left, or two rooms with a player who changes between them and back. The two
refinements, which take TLC longer, are checked where there are fewer transitions:
`Seating` under the sessions, with up to three profiles and two rooms, `MatchRound`
under the clients, where rounds are played over and over in one room. One open cell
per board is enough for the lobby, which tells a running round from a finished one
and who fills from who does not; longer boards are the business of `LiveMatch`.

`MaxConnections` is 3: two that compete for a name and one that comes back after a
lost socket. In the runs of `GameSession`, `MaxRequests` and `MaxUnread` bound how
far the two sides may be apart: the requests of a client that are not handled, and
the packets that are unread, of all clients together, when the next request is
handled, which adds one or more for everybody. In `game_session` a request is
handled only when everything has been read, but may wait while others change the
round under it: that is enough for a move to be handled in the next round, an update
to arrive on another screen, an error to answer a later question; one cell, and that
the one the default reply names, makes a reply that is applied to the wrong round or
cell visible at once. A batch then holds what one request has made the server send,
all of it or the first part; batches that hold the answers to several requests are
left to the proof, which has no bound on either side. `Openers` says who creates
rooms; with one there is one room at a time. `session_progress` has rooms that two
cannot fill, so that it need not follow rounds. `MaxSent` = 2 puts two packets in a
buffer, in every division into reads of one byte, of a header with some of its body,
and of everything; what the second packet is (`Followers`) matters little once the
first has been taken out whole. `Base` and `BoardSize` are lowered, the widths and
orders kept. `MaxAsked` = 2 lets requests cross and two people ask the same third,
one transaction take the statements of another along, and a client be used by each
of three people; `MaxFriends` = 2 accepts no more once there are two friendships.
Boards of 4 by 4 have puzzles in which the target is reached and puzzles in which it
is not (`CluesToKeep` = 5); the orders of the positions (`Shuffles`) are four
permutations. The lists of `Openers` and `AskedSizes` name values that requests
carry.

The deadlock check is off where the system may stop: in the lobby and the
sessions with clients once every profile has disconnected and no more may
register or come back, on a connection that has ended, and in `blocking_sends`
when every window is closed.

Fairness. The server's loop polls every connection in every turn and works off
every event of a poll, so handling a disconnect event and a send that has room are
weakly fair. With several clients a turn is taken from each of them again and
again, also when the bound on unread packets closes in between or another turn is
in progress, which is strong fairness of `HandleRequest(c)`. A client's timer runs as
long as its window is open: reading what has arrived is strongly fair for the same
reason, and processing what was read, which nothing can interrupt, weakly. Nobody
is assumed to click, no connection to last and no loss to be noticed. The liveness
properties are `RoomRequestsAnswered`, of connections that stand, `LostPlayersLeave`
and `NobodyHangs`.

Each property comes with a mutant of one definition, a slip that could have been
made in the code and that TLC must find; the mutant definitions stand before the
definitions they stand for, marked `Mutant`.

## What is proved

TLAPS checks, for every value of the constants that the named ASSUMEs admit
(distinct ids of at most `MaxPlayers` per round; at least one open cell; natural
numbers for points, thresholds and bounds; clients numbered as their profiles):

**`SudokuAuthorityProofs`**, the round.
- The inductive invariant `RoundInv` is the conjunction of the type invariant,
  `SolveOrderSound`, `HintsAccounted`, `HintBudget`, `RoundOverWhenFilled`,
  `LeaderboardSorted` and the facts that link them. None of the parts is
  inductive alone: that a solve finds a place in the order needs the length of
  the order bounded by the players who have the cell; that the round has one
  finisher needs the flag checked before every change; the balance of hints
  needs the streak hints bounded by their cap. One lemma per kind of step shows
  it preserved, over lemmas on player records, on replacing one record of a
  function, and on sorting by counting (ranks are a permutation of 1..n). From
  it: `RoundTyped`, `SolveOrderAlwaysSound`, `HintsAlwaysAccounted`,
  `HintsAlwaysBalanced`, `RoundEndsWithOneFinisher`, `LeaderboardAlwaysSorted`, and,
  as action properties, `FinishedRoundFrozen` and `ClaimsNeverChange`.
- `ScoresAlwaysAddUp` is `ScoreLedger`, with `LedgerInv` (`RoundInv` and the ledger).
  A solve changes one payment of one player, and a sum in which one term changes
  by an amount changes by that amount. The sum is the community modules' fold,
  so what it does for every set of cells is an induction. It is made without the
  library's induction theorems, on the set of the sizes for which the claim
  fails and its least member (`LeastNumber`); the proofs about framing and about
  the puzzle search make theirs in the same way.

**`LiveMatchProofs`**, the match of a room.
- `MatchInv` is `RoundInv` with `FlagsAgree` and the line-up's type. From it:
  `FlagsAlwaysAgree`; `MatchPlaysRounds`, that a match behaves as the authority's
  specification, which carries all of the above over to it; and
  `MatchImplementsMatchRound`, the refinement, with one lemma for a step that
  fills a cell, one for a start and one for steps that do not show.
- `ReplyInv` adds what the reply of the last call keeps: whom it names as first
  solver, what it says was awarded. From it `RepliesAlwaysNameFirstSolver`,
  `MatchTyped` (which no run checks) and the action property
  `RepliesAlwaysMatchScores`, which compares the score in a reply with the score
  before and after the call.

**`HostEngineProofs`**, the lobby.
- `LobbyInv` is the type invariant, `MembershipAgrees`, `HostAlwaysPresent`,
  `FlagsStayInRooms`, `RoundsHaveFullTables` and `ReadyRoomHasItsRound`. Who leaves or
  closes a room is found through the profile, and what is then changed is the
  room, so none of the parts survives a step without `MembershipAgrees`; that in
  turn needs the places of a room to be distinct, its host among them. The
  operations that handlers share (`RoomOpened`, `SeatTaken`, ...; their
  disjunction is `LobbyStep`) have a lemma each, and the handlers are cases over
  them. From it `LobbyTyped`, `MembershipAlwaysAgrees`, `HostsStayPresent`,
  `FlagsNeverLeaveRooms`, `ReadyRoomsPlay` and `LineupsAreFullTables`, and, as an action
  property, `VotesAlwaysAnswered`.
- `LobbyImplementsSeating`: one step of the lobby is one step of `Seating` or none,
  for each handler; it reads the seats from the profiles and the hosts from the
  rooms, and so rests on `LobbyInv`.
- `RoomsKeepMatchRound`: the match of a room is `MatchRound` through all that players
  do, with `RoundsInv`, that no board is full while a round runs, without which the
  finisher would not be the one who filled the last cell. With
  `MatchImplementsMatchRound` this closes the gap between the lobby, which keeps its
  matches in the abstract form, and the match of the code: what the one assumes
  of a round is what the other is proved to do.

**`GameServerProofs`**, the sessions.
- `ServerInv` is `LobbyInv` with `SessionsAgree`, `OneLoginPerName` and one name for
  each profile. From it `SessionsAlwaysAgree` and `NamesNeverShared`.
- `LobbyAlwaysServed`: the loop of `main.cpp`, with sign-ups, renames, late packets and
  disconnects, is the lobby's specification with its own steps hidden; with it
  the lobby's theorems hold of the server, and `ServerImplementsSeating` follows.

**`UserDatabaseProofs`**, friend requests.
- `SocialInv`: outside of a transaction the server sees what is committed; what an
  open transaction has taken from the requests has its friendship among the rows
  the server sees; and a DELETE is reached with the friendship inserted, or does
  nothing. So no request leaves the file but in the statement or the commit that
  brings the friendship: the action property `RequestsNeverLost`, for any users and
  clients, whoever is signed in where.

**`GameSessionProofs`**, client and server together, without a bound on the requests
and packets under way.
- The properties speak of clients with nothing under way, and say nothing of the
  states in between, through which every one of them is reached. `SessionInv`
  therefore speaks of the client that will be: `ReadsAs` runs it over the packets
  on their way to it, those in its inbox first, and `WillAgree` says that where it
  ends up agrees with the server as it is now. As reading takes the room of a join
  before the packets in front of it are processed, which room it believes itself in
  while it does depends on where the batches are cut; `ReadsAs` allows every cut by
  allowing every room. What is left to say of the room is `SeatOK`, that the last
  packet under way that seats or unseats the client says what the server does, and
  `InboxOK`, that a room already taken from a join in the inbox is that one or none.
  A handler must then announce whatever it changes to everybody whom it concerns,
  and to nobody something that is not so (a lemma for each handler, each over the
  lobby's operation); a client that reads or processes changes nothing in where it
  ends up; its own clicks must change nothing that a packet may still act on; and a
  client that has lost its connection is asked nothing.
- The votes go the other way, `VoteFollows`: the last vote under way to the server
  is the one the client shows, and when there is none the server counts no vote
  that the client does not show.
- From it `RoomsAlwaysAgree`, `BoardsShownAreRunning`, `ConfirmedCellsAlwaysCount` and
  `VotesStayBehind`.

**`SocketHubProofs`**, the wire. The messages are any that fit their C++ types and
whose packets, framed, have a length that an `int` holds (`MessagesAssumption`,
`IsMessage`): the sends count in one, and longer packets do not occur. A
byte has any base from 7, so that the kinds fit their two bytes.
- From the bottom up: a number written in two or four bytes is read back, and so is
  a negative one; then a value, a run of values, a list, a field, a message, a
  framed packet. Each reader stops where the writer stopped, whatever bytes
  follow, so what is read next is what was written next. The last step of this is
  `MessagesAreReadBack`: every message of either side is read as it was written.
- A buffer is taken apart by a loop (`CompletePackets`). `Cutting` says that with
  the frames of messages in the buffer, cut off anywhere, the loop takes out
  exactly the whole ones and leaves the rest of the bytes. So it does not matter
  where a read ends.
- `HubInv`: as long as a direction of the connection stands, what was sent is what
  was received and then the packets that the receive buffer and the bytes under
  way make up together, and no whole packet is left in a buffer. The bytes alone
  would not do: that the buffer starts at the border of a packet is known only
  because it follows what was received. From it `NothingIsLeftBehind` and the
  refinements of `MessageStream`, `RequestsArriveInOrder` and `NoticesArriveInOrder`.

**`BoardVaultProofs`**, puzzles, for every size of board and any set of orders in
which the cells are looked at, each a permutation (`SizesAssumption`).
- A grid obeys the rules when it is full and no two cells that see each other are
  equal; `IsSafe` for the digit put last is what keeps the second half. So the
  filling ends with every grid that obeys the rules and with no other
  (`EveryProperGridCanComeUp`).
- The solutions of a grid are, for its first empty cell, those with each digit that
  is safe there, and no two digits share one. `AmountsAdd` carries this through
  the loop, which stops at the limit: what is kept is whether there are none, one or
  more. As a cell less is empty at each level, `SearchCountsSolutions` follows: the
  search finds none exactly when there is none, and one exactly when there is one.
- `VaultInv`: the puzzle has its one solution, the cells that are still to be looked at
  are clues, and every clue that was looked at and kept is needed. It stays needed,
  since clearing another cell takes no solution away; that is why the loop need
  not come back to it. From it `PuzzlesHaveOneSolution` and `NoClueIsToSpare`.

Proving changed the model where its definitions said less than they seemed to.
The arms of a `CASE` that overlap leave the value open, and TLC takes the first
that is true: the points of a reply (`PointsReported`), `ApplyCellResult` and
`ReadValue` now have arms that exclude each other. The sum in `ScoreLedger` is a sum
over a function of the cells. The loops and recursions of `WireFormat`, `SocketHub`
and `BoardVault` are recursive functions, on the number of turns or on the grids,
where they were recursive operators, about which nothing can be proved. What the
instances had taken for granted is now assumed by name: that the messages of
`SocketHub` fit the format, and that the orders of `BoardVault` are permutations.

What stays with TLC is liveness: `RoomRequestsAnswered`, `LostPlayersLeave` and
`NobodyHangs`, which is out of the prover's reach. Every invariant, every action
property and every refinement that the passing runs check is proved;
`RoomsPlayRounds`, which `game_session` checks with clients, is proved of the lobby's
own specification.

## Not modelled

- SQLite (`sqlite3.c`, `sqlite3.h`) is vendored. It is 236,515 of the repository's
  246,573 lines of implementation; what `UserDatabase` needs of it is the outcome of
  statements and transactions.
- Drawing, layout and resources of the Win32 client, the larger part of
  `GameClient.cpp` and all of `GridPainter`: output only.
- What is only shown or passed on: chat and private messages, searches, the
  lists of rooms, friends and players, the visibility of a room, notes, selection
  and erasing on the client's board, the history screen.
- Match history: rows are appended when a submission finds a finished player on
  the board of its room, once more for every submission that comes later, and
  not by a hint that ends a round. Nothing in the repository says how often it
  should be.
- Elapsed time, clocks, names of players in messages, hashing of passwords.

## Plan

Done: all components but those above, and the proofs of every safety property
that the runs check. What would extend it:

- `BlockingSends`: the safety half of `NobodyHangs`, that with buffers that suffice
  some send or poll is always possible, as a theorem. It needs an invariant that
  counts the packets a poll may still owe.
