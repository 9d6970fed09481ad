----------------------------- MODULE HostEngine -----------------------------
(***************************************************************************)
(* The lobby: GameServer/HostEngine.cpp with the rooms of RoomDirectory    *)
(* and the profiles of ConnectionProfile, driven by the room handlers of   *)
(* main.cpp.  The server is one thread, so a handler is one action.        *)
(*                                                                         *)
(* Membership is kept twice: a profile has the id of its room, a room the  *)
(* ids of its players.  A room's match is kept as MatchRound keeps it,     *)
(* which LiveMatch implements: calls that move no cell are left out.       *)
(* Profiles are numbered from 1 and never dropped, so that mPlayers[id] is *)
(* the profile FindProfileInternal(id) finds.  Names and the visibility of *)
(* a room are left out; both only shape what is shown.                     *)
(***************************************************************************)
EXTENDS Integers, SequencesExt

CONSTANTS
    Cells,          \* the open cells of the puzzles
    MinPlayers,     \* RuleBook::MIN_PLAYERS
    MaxPlayers,     \* RuleBook::MAX_PLAYERS
    AskedSizes,     \* the room sizes clients ask for, legal or not
    MaxProfiles     \* model bound: profiles registered in one run of the server

ASSUME SizesAssumption ==
    /\ {MinPlayers, MaxPlayers, MaxProfiles} \subseteq Nat \ {0}
    /\ AskedSizes \subseteq Int
    /\ Cells # {}

VARIABLES
    mPlayers,       \* the vector of profiles
    mRooms          \* room id -> RoomEntry, for the rooms that are open

vars == <<mPlayers, mRooms>>

NoRoom == 0

Profile ==
    [roomId : Nat, connected : BOOLEAN, ready : BOOLEAN, playAgain : BOOLEAN]

NewProfile == [roomId |-> NoRoom, connected |-> TRUE, ready |-> FALSE, playAgain |-> FALSE]

PlayerIds == 1..Len(mPlayers)

-----------------------------------------------------------------------------
(* The match of a room                                                      *)

\* A LiveMatch that has just been constructed.
FreshMatch == [mPlayerIds |-> <<>>, phase |-> "idle", filled |-> <<>>]

SetPlayers(match, ids) == [match EXCEPT !.mPlayerIds = ids]

\* Mutant: who has a board keeps what is on it.
StartNextRoundKept(match) ==
    [match EXCEPT !.phase = "running",
                  !.filled = [p \in Range(match.mPlayerIds) |->
                                IF p \in DOMAIN match.filled THEN match.filled[p] ELSE {}]]

StartNextRound(match) ==
    [match EXCEPT !.phase = "running",
                  !.filled = [p \in Range(match.mPlayerIds) |-> {}]]

Filled(match, p, c) ==
    LET cells == match.filled[p] \cup {c} IN
    [match EXCEPT !.filled[p] = cells,
                  !.phase = IF Cells \subseteq cells THEN "finished" ELSE "running"]

-----------------------------------------------------------------------------
(* Rooms and profiles                                                       *)

Members(r) == Range(mRooms[r].playerIds)

\* FindRoomByPlayer(p) # nullptr.
HasRoom(p) == \E r \in DOMAIN mRooms : p \in Members(r)

IsValidPlayerCount(maxPlayers) == maxPlayers >= MinPlayers /\ maxPlayers <= MaxPlayers

IsHost(r, p) == r \in DOMAIN mRooms /\ mRooms[r].hostPlayerId = p

\* Mutant: the search stops at the last id in use.
LastRoomId(r) == 1..(r - 1) \subseteq DOMAIN mRooms

\* GenerateRoomId: the least id that is not in use.
IsNextRoomId(r) == r \notin DOMAIN mRooms /\ 1..(r - 1) \subseteq DOMAIN mRooms

\* Mutant: the flags of the room before are carried into the next one.
MovedWithFlags(profile, r) == [profile EXCEPT !.roomId = r]

\* SetRoomId, SetReady(false), SetPlayAgain(false).
Moved(profile, r) == [profile EXCEPT !.roomId = r, !.ready = FALSE, !.playAgain = FALSE]

\* Mutant: a room takes one player more than it has places.
CanJoinFull(p, r) ==
    /\ mPlayers[p].roomId = NoRoom
    /\ r \in DOMAIN mRooms
    /\ ~HasRoom(p)
    /\ Len(mRooms[r].playerIds) <= mRooms[r].maxPlayers

CanJoin(p, r) ==
    /\ mPlayers[p].roomId = NoRoom
    /\ r \in DOMAIN mRooms
    /\ ~HasRoom(p)
    /\ Len(mRooms[r].playerIds) < mRooms[r].maxPlayers

\* Mutant: a room starts without waiting for the places that are empty.
AllPresentReady(profiles, r) ==
    /\ r \in DOMAIN mRooms
    /\ \A p \in Members(r) : profiles[p].connected /\ profiles[p].ready

\* AreAllPlayersReadyInRoom, on the profiles as the handler has changed them.
AllPlayersReadyInRoom(profiles, r) ==
    /\ r \in DOMAIN mRooms
    /\ Len(mRooms[r].playerIds) >= mRooms[r].maxPlayers
    /\ \A p \in Members(r) : profiles[p].connected /\ profiles[p].ready

AllPlayersReadyForReplay(profiles, r) ==
    /\ r \in DOMAIN mRooms
    /\ mRooms[r].playerIds # <<>>
    /\ \A p \in Members(r) : profiles[p].connected /\ profiles[p].playAgain

\* Mutant: the votes are left standing.
VotesKept(profiles, r) == profiles

ResetReplayVotes(profiles, r) ==
    [p \in DOMAIN profiles |->
        IF p \in Members(r) THEN [profiles[p] EXCEPT !.playAgain = FALSE, !.ready = FALSE]
                            ELSE profiles[p]]

-----------------------------------------------------------------------------
(* Operations                                                               *)

Init ==
    /\ mPlayers = <<>>
    /\ mRooms = <<>>

RegisterPlayer ==
    /\ Len(mPlayers) < MaxProfiles
    /\ mPlayers' = Append(mPlayers, NewProfile)
    /\ UNCHANGED mRooms

\* There are fewer rooms than profiles, so the id found is in PlayerIds.
CreateRoomForPlayer(p, maxPlayers) ==
    /\ mPlayers[p].roomId = NoRoom
    /\ IsValidPlayerCount(maxPlayers)
    /\ ~HasRoom(p)
    /\ \E id \in PlayerIds :
        LET room == [hostPlayerId |-> p, maxPlayers |-> maxPlayers,
                     playerIds |-> <<p>>, match |-> FreshMatch]
        IN  /\ IsNextRoomId(id)
            /\ mRooms' = [r \in DOMAIN mRooms \cup {id} |->
                            IF r = id THEN room ELSE mRooms[r]]
            /\ mPlayers' = [mPlayers EXCEPT ![p] = Moved(@, id)]

JoinRoomForPlayer(p, r) ==
    /\ CanJoin(p, r)
    /\ mRooms' = [mRooms EXCEPT ![r].playerIds = Append(@, p)]
    /\ mPlayers' = [mPlayers EXCEPT ![p] = Moved(@, r)]

\* RoomDirectory::RemovePlayerFromRoom: a room nobody is left in is dropped.
WithoutPlayer(p) ==
    LET r    == CHOOSE s \in DOMAIN mRooms : p \in Members(s)
        left == RemoveFirst(mRooms[r].playerIds, p)
    IN  IF left = <<>> THEN Restrict(mRooms, DOMAIN mRooms \ {r})
                       ELSE [mRooms EXCEPT ![r].playerIds = left]

\* Mutant: the profiles of the players a closed room still had are forgotten.
HostUnseated(profiles, r) ==
    [profiles EXCEPT ![mRooms[r].hostPlayerId] = Moved(@, NoRoom)]

\* CloseRoom takes every player of the room out of it.
Unseated(profiles, r) ==
    [p \in DOMAIN profiles |->
        IF p \in Members(r) THEN Moved(profiles[p], NoRoom) ELSE profiles[p]]

CloseRoom(profiles, r) ==
    /\ mRooms' = Restrict(mRooms, DOMAIN mRooms \ {r})
    /\ mPlayers' = Unseated(profiles, r)

RemovePlayerFromRoom(profiles, p) ==
    /\ HasRoom(p)
    /\ mRooms' = WithoutPlayer(p)
    /\ mPlayers' = [profiles EXCEPT ![p] = Moved(@, NoRoom)]

\* Mutant: the host leaves like everybody else.
GiveUpSeat(profiles, p) == RemovePlayerFromRoom(profiles, p)

\* The host takes the room along, whoever is in it.
GiveUpRoom(profiles, p) ==
    LET r == mPlayers[p].roomId IN
    \/ IsHost(r, p) /\ CloseRoom(profiles, r)
    \/ ~IsHost(r, p) /\ RemovePlayerFromRoom(profiles, p)

LeaveRoom(p) ==
    /\ mPlayers[p].roomId # NoRoom
    /\ GiveUpRoom(mPlayers, p)

Disconnect(p) ==
    LET gone == [mPlayers EXCEPT ![p].connected = FALSE, ![p].ready = FALSE,
                                 ![p].playAgain = FALSE]
    IN  \/ /\ mPlayers[p].roomId = NoRoom
           /\ mPlayers' = gone
           /\ UNCHANGED mRooms
        \/ /\ mPlayers[p].roomId # NoRoom
           /\ GiveUpRoom(gone, p)

\* Mutant: a match that has been played before keeps its players.
StartRoomMatchAgain(r) ==
    mRooms' = [mRooms EXCEPT ![r].match =
        StartNextRound(IF @.phase = "idle" THEN SetPlayers(@, mRooms[r].playerIds) ELSE @)]

\* RoomDirectory::StartRoomMatch: the round is played by who is in the room now.
StartRoomMatch(r) ==
    mRooms' = [mRooms EXCEPT ![r].match = StartNextRound(SetPlayers(@, mRooms[r].playerIds))]

CanStart(r) ==
    AllPlayersReadyInRoom(mPlayers', r) /\ Len(mRooms[r].playerIds) >= MinPlayers

\* SetPlayerReady, then TryStartMatch.
ToggleReady(p, ready) ==
    LET r == mPlayers[p].roomId IN
    /\ r # NoRoom
    /\ mPlayers' = [mPlayers EXCEPT ![p].ready = ready]
    /\ \/ CanStart(r) /\ StartRoomMatch(r)
       \/ ~CanStart(r) /\ UNCHANGED mRooms

\* SetPlayerPlayAgain, then TryStartReplay: the match starts its next round with
\* the ids it has, whoever is in the room.
TogglePlayAgain(p, playAgain) ==
    LET r     == mPlayers[p].roomId
        voted == [mPlayers EXCEPT ![p].playAgain = playAgain]
    IN  /\ r # NoRoom
        /\ \/ /\ AllPlayersReadyForReplay(voted, r)
              /\ mRooms' = [mRooms EXCEPT ![r].match = StartNextRound(@)]
              /\ mPlayers' = ResetReplayVotes(voted, r)
           \/ /\ ~AllPlayersReadyForReplay(voted, r)
              /\ mPlayers' = voted
              /\ UNCHANGED mRooms

MatchOf(p) == mPlayers[p].roomId

\* SubmitCell and UseHint, when they fill a cell.
FillCell(p, c) ==
    LET r == MatchOf(p) IN
    /\ r \in DOMAIN mRooms
    /\ mRooms[r].match.phase = "running"
    /\ p \in DOMAIN mRooms[r].match.filled
    /\ c \notin mRooms[r].match.filled[p]
    /\ mRooms' = [mRooms EXCEPT ![r].match = Filled(@, p, c)]
    /\ UNCHANGED mPlayers

\* Requests come over the connection of a player, so from connected ones only.
ConnectedIds == {p \in PlayerIds : mPlayers[p].connected}

Next ==
    \/ RegisterPlayer
    \/ \E p \in ConnectedIds :
        \/ \E maxPlayers \in AskedSizes : CreateRoomForPlayer(p, maxPlayers)
        \/ \E r \in DOMAIN mRooms : JoinRoomForPlayer(p, r)
        \/ LeaveRoom(p)
        \/ \E flag \in BOOLEAN : ToggleReady(p, flag)
        \/ \E flag \in BOOLEAN : TogglePlayAgain(p, flag)
        \/ \E c \in Cells : FillCell(p, c)
        \/ Disconnect(p)

Spec == Init /\ [][Next]_vars

-----------------------------------------------------------------------------
(* Properties                                                               *)

\* What the boards of a round may look like, for some of the profiles.
Boards == UNION {[ids -> SUBSET Cells] : ids \in SUBSET PlayerIds}

MatchOK(match) ==
    /\ match \in [mPlayerIds : Seq(PlayerIds), phase : {"idle", "running", "finished"},
                   filled : Boards]
    /\ DOMAIN match.filled \subseteq Range(match.mPlayerIds)

RoomOK(room) ==
    /\ DOMAIN room = {"hostPlayerId", "maxPlayers", "playerIds", "match"}
    /\ room.hostPlayerId \in PlayerIds
    /\ room.maxPlayers \in MinPlayers..MaxPlayers
    /\ room.playerIds \in Seq(PlayerIds) /\ IsInjective(room.playerIds)
    /\ Len(room.playerIds) \in 1..room.maxPlayers
    /\ MatchOK(room.match)

\* Profiles and rooms are well formed: no room holds a player twice, or more
\* players than it has places, and boards are filled by players of the round.
LobbyTypeOK ==
    /\ mPlayers \in Seq(Profile)
    /\ Len(mPlayers) <= MaxProfiles
    /\ DOMAIN mRooms \subseteq 1..MaxProfiles
    /\ \A r \in DOMAIN mRooms : RoomOK(mRooms[r])

\* The two records of who is where agree: a profile has the id of a room exactly
\* when that room has the player.  So nobody is in two rooms, and the id of a
\* closed room that is given out again brings nobody into the new one.
MembershipAgrees ==
    /\ \A p \in PlayerIds, r \in DOMAIN mRooms :
            mPlayers[p].roomId = r <=> p \in Members(r)
    /\ \A p \in PlayerIds : mPlayers[p].roomId \in DOMAIN mRooms \cup {NoRoom}

\* As long as a room is open its host is in it, at the head, and everybody in it
\* is connected: a room is never left to players who cannot close it.
HostAlwaysPresent ==
    \A r \in DOMAIN mRooms :
        /\ Head(mRooms[r].playerIds) = mRooms[r].hostPlayerId
        /\ \A p \in Members(r) : mPlayers[p].connected

\* Ready flags and replay votes belong to the stay in one room: who is in none
\* holds none, so that no flag set in one room counts in another.
FlagsStayInRooms ==
    \A p \in PlayerIds :
        mPlayers[p].roomId = NoRoom => ~mPlayers[p].ready /\ ~mPlayers[p].playAgain

\* Nobody waits for a match in a full room where all are ready: its match has
\* been started, and with the players that are in it now, even when some of
\* them came into a round of others.
ReadyRoomHasItsRound ==
    \A r \in DOMAIN mRooms :
        /\ Len(mRooms[r].playerIds) = mRooms[r].maxPlayers
        /\ \A p \in Members(r) : mPlayers[p].ready
        => /\ mRooms[r].match.phase # "idle"
           /\ mRooms[r].match.mPlayerIds = mRooms[r].playerIds

\* Rounds are played by a full table, the host at its head, or, when the replay
\* of a match that was never played is voted for, by nobody; replays in a room
\* whose players have changed keep the table of the last match.
RoundsHaveFullTables ==
    \A r \in DOMAIN mRooms :
        LET ids == mRooms[r].match.mPlayerIds IN
        ids # <<>> => Len(ids) = mRooms[r].maxPlayers /\ Head(ids) = mRooms[r].hostPlayerId

\* A replay that everybody in the room has voted for has been started, unless
\* the vote was completed by the departure of somebody who had not voted:
\* nothing looks at the votes then.
AllVoted(r) == \A p \in Members(r) : mPlayers[p].playAgain

VotesAnsweredUnlessLeft ==
    [][\A r \in DOMAIN mRooms \cap DOMAIN mRooms' :
        ~AllVoted(r) /\ AllVoted(r)' =>
            Len(mRooms'[r].playerIds) < Len(mRooms[r].playerIds)]_vars

\* The lobby seen from its profiles alone.
AllIds == 1..MaxProfiles

Lobby == INSTANCE Seating WITH
    Players    <- AllIds,
    RoomIds    <- AllIds,
    Capacities <- MinPlayers..MaxPlayers,
    NoHost     <- 0,
    seat       <- [p \in AllIds |-> IF p \in PlayerIds THEN mPlayers[p].roomId ELSE NoRoom],
    host       <- [r \in AllIds |-> IF r \in DOMAIN mRooms THEN mRooms[r].hostPlayerId ELSE 0],
    places     <- [r \in AllIds |-> IF r \in DOMAIN mRooms THEN mRooms[r].maxPlayers ELSE 0]

\* Every handler takes the step of the lobby that Seating describes, or none.
ImplementsSeating == Lobby!Spec

\* The rounds of a room as MatchRound has them.
Finisher(match) ==
    LET full == {p \in DOMAIN match.filled : Cells \subseteq match.filled[p]}
    IN  IF full = {} THEN 0 ELSE CHOOSE p \in full : TRUE

Rounds(r) == INSTANCE MatchRound WITH
    Players    <- AllIds,
    Boards     <- {Cells},
    Rosters    <- SUBSET AllIds,
    NoPlayer   <- 0,
    phase      <- mRooms[r].match.phase,
    board      <- IF mRooms[r].match.phase = "idle" THEN {} ELSE Cells,
    filled     <- mRooms[r].match.filled,
    finisher   <- Finisher(mRooms[r].match)

\* From the day a room is opened to the day it is closed, its rounds are those of
\* MatchRound: whoever joins, leaves, gets ready or votes, a round begins with empty
\* boards, goes on until the first of them is full, and names who has filled it.
RoomsPlayRounds ==
    [][/\ \A r \in DOMAIN mRooms' \ DOMAIN mRooms : Rounds(r)!Init'
       /\ \A r \in DOMAIN mRooms \cap DOMAIN mRooms' : [Rounds(r)!Next]_(Rounds(r)!vars)]_vars

=============================================================================
