-------------------------- MODULE GameServerProofs --------------------------
(***************************************************************************)
(* Theorems about the server's loop: connections, profiles and names agree *)
(* through every order of packets and lost sockets, so that the lobby only *)
(* meets the calls it provides for, and what is proved of it holds served. *)
(***************************************************************************)
EXTENDS GameServer, HostEngineProofs

-----------------------------------------------------------------------------
(* What the handlers do to the connected flags                              *)

LEMMA GiveUpConnected ==
    ASSUME LobbyInv, NEW p \in PlayerIds, mPlayers[p].roomId # NoRoom,
           NEW profiles, GivenUpBy(profiles, p), GiveUpRoom(profiles, p)
    PROVE  PlayerIds' = PlayerIds
           /\ \A q \in PlayerIds : mPlayers'[q].connected = profiles[q].connected
<1>1. PICK j : j = mPlayers[p].roomId
  OBVIOUS
<1>2. /\ DOMAIN profiles = PlayerIds /\ NoRoom \in Nat
      /\ \A q \in PlayerIds : profiles[q] \in Profile
  BY LenProperties DEF GivenUpBy, PlayerIds, NoRoom
<1>3. \A q \in PlayerIds : Moved(profiles[q], NoRoom).connected = profiles[q].connected
  BY <1>2, MovedFacts
<1>4. PlayerIds' = PlayerIds
  BY <1>1, GiveUpFacts DEF RoomClosed, SeatGivenUp
<1>5. CASE CloseRoom(profiles, j)
  BY <1>2, <1>3, <1>4, <1>5 DEF CloseRoom, Unseated
<1>6. CASE RemovePlayerFromRoom(profiles, p)
  <2> DEFINE profile == Moved(profiles[p], NoRoom)
  <2>1. mPlayers' = [profiles EXCEPT ![p] = profile] /\ profile.connected = profiles[p].connected
    BY <1>3, <1>6 DEF RemovePlayerFromRoom
  <2> HIDE DEF profile
  <2> QED BY <1>2, <1>4, <2>1
<1> QED
  BY <1>1, <1>5, <1>6 DEF GiveUpRoom

\* Who is connected stays so through every request.
LEMMA RequestsKeepConnected ==
    ASSUME LobbyInv, NEW p \in ConnectedIds,
           \/ \E n \in AskedSizes : CreateRoomForPlayer(p, n)
           \/ \E r \in DOMAIN mRooms : JoinRoomForPlayer(p, r)
           \/ LeaveRoom(p)
           \/ \E flag \in BOOLEAN : ToggleReady(p, flag)
           \/ \E flag \in BOOLEAN : TogglePlayAgain(p, flag)
    PROVE  PlayerIds' = PlayerIds /\ ConnectedIds' = ConnectedIds
<1>1. p \in PlayerIds /\ mPlayers[p].connected
  BY DEF ConnectedIds
<1>2. ASSUME PlayerIds' = PlayerIds,
             \A q \in PlayerIds : mPlayers'[q].connected <=> mPlayers[q].connected
      PROVE  PlayerIds' = PlayerIds /\ ConnectedIds' = ConnectedIds
  BY <1>2 DEF ConnectedIds
<1>3. ASSUME NEW n \in AskedSizes, CreateRoomForPlayer(p, n)
      PROVE  PlayerIds' = PlayerIds /\ ConnectedIds' = ConnectedIds
  BY <1>1, <1>2, <1>3, CreateFacts, SizesAssumption DEF RoomOpened
<1>4. ASSUME NEW r \in DOMAIN mRooms, JoinRoomForPlayer(p, r)
      PROVE  PlayerIds' = PlayerIds /\ ConnectedIds' = ConnectedIds
  BY <1>1, <1>2, <1>4, JoinFacts DEF SeatTaken
<1>5. CASE LeaveRoom(p)
  <2>1. GivenUpBy(mPlayers, p)
    BY DEF GivenUpBy, LobbyInv
  <2> QED BY <1>1, <1>2, <1>5, <2>1, GiveUpConnected DEF LeaveRoom
<1>6. ASSUME NEW flag \in BOOLEAN, ToggleReady(p, flag)
      PROVE  PlayerIds' = PlayerIds /\ ConnectedIds' = ConnectedIds
  BY <1>1, <1>2, <1>6, ToggleReadyFacts DEF FlagsChanged
<1>7. ASSUME NEW flag \in BOOLEAN, TogglePlayAgain(p, flag)
      PROVE  PlayerIds' = PlayerIds /\ ConnectedIds' = ConnectedIds
  BY <1>1, <1>2, <1>7, TogglePlayAgainFacts DEF FlagsChanged
<1> QED
  BY <1>3, <1>4, <1>5, <1>6, <1>7

LEMMA DisconnectDisconnects ==
    ASSUME LobbyInv, NEW p \in PlayerIds, Disconnect(p)
    PROVE  PlayerIds' = PlayerIds /\ ConnectedIds' = ConnectedIds \ {p}
<1> DEFINE gone == [mPlayers EXCEPT ![p].connected = FALSE, ![p].ready = FALSE,
                                    ![p].playAgain = FALSE]
           profile == [mPlayers[p] EXCEPT !.connected = FALSE, !.ready = FALSE,
                                          !.playAgain = FALSE]
<1>1. /\ gone = [mPlayers EXCEPT ![p] = profile]
      /\ profile \in Profile /\ ~profile.connected
      /\ GivenUpBy(gone, p)
  BY GoneFacts
<1>2. \/ mPlayers[p].roomId = NoRoom /\ mPlayers' = gone /\ UNCHANGED mRooms
      \/ mPlayers[p].roomId # NoRoom /\ GiveUpRoom(gone, p)
  BY DEF Disconnect
<1>3. DOMAIN mPlayers = PlayerIds
  BY LenProperties DEF LobbyInv, PlayerIds
<1> HIDE DEF gone, profile
<1>4. /\ gone[p] = profile
      /\ \A q \in PlayerIds : q # p => gone[q] = mPlayers[q]
  BY <1>1, <1>3
<1>5. PlayerIds' = PlayerIds /\ \A q \in PlayerIds : mPlayers'[q].connected = gone[q].connected
  <2>1. CASE mPlayers[p].roomId = NoRoom /\ mPlayers' = gone /\ UNCHANGED mRooms
    BY <1>1, <2>1, ProfileReplaced
  <2>2. CASE mPlayers[p].roomId # NoRoom /\ GiveUpRoom(gone, p)
    BY <1>1, <2>2, GiveUpConnected
  <2> QED BY <1>2, <2>1, <2>2
<1> QED
  BY <1>1, <1>4, <1>5 DEF ConnectedIds

\* A new profile is connected, under the next id.
LEMMA RegisterConnects ==
    ASSUME LobbyInv, RegisterPlayer
    PROVE  /\ Len(mPlayers) \in Nat /\ Len(mPlayers') = Len(mPlayers) + 1
           /\ Len(mPlayers') \notin PlayerIds
           /\ PlayerIds' = PlayerIds \cup {Len(mPlayers')}
           /\ ConnectedIds' = ConnectedIds \cup {Len(mPlayers')}
<1>1. NewProfile \in Profile /\ NewProfile.connected
  BY DEF NewProfile, Profile, NoRoom
<1>2. /\ Len(mPlayers') = Len(mPlayers) + 1 /\ Len(mPlayers) \in Nat
      /\ \A q \in PlayerIds : mPlayers'[q] = mPlayers[q]
      /\ mPlayers'[Len(mPlayers) + 1] = NewProfile
  BY <1>1, AppendProperties, LenProperties DEF RegisterPlayer, LobbyInv, PlayerIds
<1>3. Len(mPlayers') \notin PlayerIds /\ PlayerIds' = PlayerIds \cup {Len(mPlayers')}
  BY <1>2 DEF PlayerIds
<1> QED
  BY <1>1, <1>2, <1>3 DEF ConnectedIds

-----------------------------------------------------------------------------
(* The sessions                                                             *)

\* What the maps of the loop must keep between them for the next event to find
\* its player, and no name in use twice.
ServerInv ==
    /\ LobbyInv
    /\ names \in Seq(Names) /\ Len(names) = Len(mPlayers)
    /\ SessionsAgree
    /\ OneLoginPerName

\* A name and its profile are not moved.
SameSessions ==
    /\ UNCHANGED loginVars
    /\ PlayerIds' = PlayerIds /\ ConnectedIds' = ConnectedIds
    /\ Len(mPlayers') = Len(mPlayers)

LEMMA ServerInitInv == ServerInit => ServerInv
<1> SUFFICES ASSUME ServerInit PROVE ServerInv
  OBVIOUS
<1>1. LobbyInv /\ Len(mPlayers) = 0 /\ ConnectedIds = {}
  BY InitLobbyInv DEF ServerInit, Init, ConnectedIds, PlayerIds
<1>2. DOMAIN connectionToPlayer = {} /\ names \in Seq(Names) /\ Len(names) = 0
  BY DEF ServerInit
<1> QED
  BY <1>1, <1>2 DEF ServerInv, ServerInit, SessionsAgree, OneLoginPerName, IsInjective, Range

\* Nothing but sockets has changed, and none that a session stands on is gone.
LEMMA SessionsKept ==
    ASSUME ServerInv, LobbyInv', SameSessions,
           sockets \cup disconnected \subseteq sockets' \cup disconnected'
    PROVE  ServerInv'
<1>1. SessionsAgree'
  BY DEF ServerInv, SameSessions, loginVars, SessionsAgree
<1>2. OneLoginPerName'
  BY DEF ServerInv, SameSessions, loginVars, OneLoginPerName
<1> QED
  BY <1>1, <1>2 DEF ServerInv, SameSessions, loginVars

\* A player is found by its connection, and is connected.
LEMMA MappedFacts ==
    ASSUME ServerInv, NEW c, Mapped(c)
    PROVE  /\ connectionToPlayer[c] \in ConnectedIds
           /\ connectionToPlayer[c] \in PlayerIds
           /\ c \in connectionAuthenticated
  BY DEF ServerInv, SessionsAgree, Mapped, Range, ConnectedIds

\* Who signs in under a name finds it used by nobody who is connected.
LEMMA NameFree ==
    ASSUME ServerInv, NEW n, ~IsUsernameAlreadyLoggedIn(n), NEW p \in ConnectedIds
    PROVE  names[p] # n
  BY DEF ServerInv, SessionsAgree, IsUsernameAlreadyLoggedIn, ConnectedIds

\* A login keeps the sessions in order, whether it makes a profile or renames one.
LEMMA LoginKeepsInv ==
    ASSUME ServerInv, NEW c \in sockets \cup disconnected, NEW n \in Names, Login(c, n),
           accounts \cup {n} \subseteq accounts', UNCHANGED socketVars
    PROVE  ServerInv'
<1>1. /\ LobbyInv /\ names \in Seq(Names) /\ Len(names) = Len(mPlayers)
      /\ SessionsAgree /\ OneLoginPerName
  BY DEF ServerInv
<1>2. /\ ~IsUsernameAlreadyLoggedIn(n)
      /\ connectionAuthenticated' = connectionAuthenticated \cup {c}
      /\ sockets' = sockets /\ disconnected' = disconnected
  BY DEF Login, socketVars
<1>3. \A p \in ConnectedIds : names[p] # n
  BY <1>2, NameFree
<1>4. CASE /\ ~Mapped(c) /\ RegisterPlayer
           /\ names' = Append(names, n)
           /\ connectionToPlayer' = [d \in DOMAIN connectionToPlayer \cup {c} |->
                IF d = c THEN Len(mPlayers') ELSE connectionToPlayer[d]]
  <2> DEFINE new == Len(mPlayers')
  <2>1. /\ new = Len(mPlayers) + 1 /\ Len(mPlayers) \in Nat
        /\ new \notin PlayerIds /\ PlayerIds' = PlayerIds \cup {new}
        /\ ConnectedIds' = ConnectedIds \cup {new}
    BY <1>1, <1>4, RegisterConnects
  <2>2. LobbyInv'
    BY <1>1, <1>4, RegisterKeepsInv
  <2>3. /\ names' \in Seq(Names) /\ Len(names') = new
        /\ \A p \in PlayerIds : names'[p] = names[p]
        /\ names'[new] = n
    BY <1>1, <1>4, <2>1, AppendProperties DEF PlayerIds
  <2> HIDE DEF new
  <2>4. /\ DOMAIN connectionToPlayer' = DOMAIN connectionToPlayer \cup {c}
        /\ c \notin DOMAIN connectionToPlayer
        /\ connectionToPlayer'[c] = new
        /\ \A d \in DOMAIN connectionToPlayer : connectionToPlayer'[d] = connectionToPlayer[d]
    BY <1>4 DEF Mapped, new
  <2>5. Range(connectionToPlayer) = ConnectedIds /\ new \notin ConnectedIds
        /\ ConnectedIds \subseteq PlayerIds
    BY <1>1, <2>1 DEF SessionsAgree, ConnectedIds
  <2>6. Range(connectionToPlayer') = ConnectedIds'
    BY <2>1, <2>4, <2>5 DEF Range
  <2>7. IsInjective(connectionToPlayer')
    <3>1. \A d \in DOMAIN connectionToPlayer : connectionToPlayer[d] # new
      BY <2>5 DEF Range
    <3> QED BY <1>1, <2>4, <3>1 DEF SessionsAgree, IsInjective
  <2>8. SessionsAgree'
    BY <1>1, <1>2, <2>1, <2>3, <2>4, <2>5, <2>6, <2>7 DEF SessionsAgree
  <2>9. OneLoginPerName'
    BY <1>1, <1>3, <2>1, <2>3, <2>5 DEF OneLoginPerName
  <2> QED BY <2>2, <2>3, <2>8, <2>9 DEF ServerInv, new
<1>5. CASE /\ Mapped(c)
           /\ names' = [names EXCEPT ![connectionToPlayer[c]] = n]
           /\ UNCHANGED <<vars, connectionToPlayer>>
  <2> DEFINE p == connectionToPlayer[c]
  <2>1. p \in ConnectedIds /\ p \in PlayerIds /\ c \in connectionAuthenticated
    BY <1>5, MappedFacts
  <2>2. mPlayers' = mPlayers /\ mRooms' = mRooms
        /\ PlayerIds' = PlayerIds /\ ConnectedIds' = ConnectedIds
        /\ connectionToPlayer' = connectionToPlayer
    BY <1>5 DEF vars, PlayerIds, ConnectedIds
  <2>3. LobbyInv'
    BY <1>1, <1>5, NextLobbyInv
  <2> HIDE DEF p
  <2>4. /\ names' \in Seq(Names) /\ Len(names') = Len(names)
        /\ names'[p] = n
        /\ \A q \in PlayerIds : q # p => names'[q] = names[q]
    BY <1>1, <1>5, <2>1, ExceptSeq DEF PlayerIds, p
  <2>5. SessionsAgree'
    BY <1>1, <1>2, <2>1, <2>2, <2>4 DEF SessionsAgree, ConnectedIds
  <2>6. OneLoginPerName'
    BY <1>1, <1>3, <2>2, <2>4 DEF OneLoginPerName, ConnectedIds
  <2> QED BY <1>1, <2>2, <2>3, <2>4, <2>5, <2>6 DEF ServerInv
<1> QED
  BY <1>4, <1>5 DEF Login, RegisterOrRename

LEMMA SignKeepsInv ==
    ASSUME ServerInv, NEW c \in sockets \cup disconnected, NEW n \in Names,
           HandleSignUp(c, n) \/ HandleSignIn(c, n), UNCHANGED socketVars
    PROVE  ServerInv'
<1>1. CASE HandleSignIn(c, n)
  <2>1. accounts \cup {n} \subseteq accounts' /\ Login(c, n)
    BY <1>1 DEF HandleSignIn
  <2> QED BY <2>1, LoginKeepsInv
<1>2. CASE HandleSignUp(c, n) /\ Login(c, n)
  <2>1. accounts \cup {n} \subseteq accounts'
    BY <1>2 DEF HandleSignUp
  <2> QED BY <1>2, <2>1, LoginKeepsInv
<1>3. CASE /\ accounts' = accounts \cup {n}
           /\ UNCHANGED <<vars, names, connectionToPlayer, connectionAuthenticated>>
  <2>1. LobbyInv'
    BY <1>3, NextLobbyInv DEF ServerInv
  <2>2. PlayerIds' = PlayerIds /\ ConnectedIds' = ConnectedIds /\ Len(mPlayers') = Len(mPlayers)
    BY <1>3 DEF vars, PlayerIds, ConnectedIds
  <2>3. SessionsAgree' /\ OneLoginPerName'
    BY <1>3, <2>2 DEF ServerInv, SessionsAgree, OneLoginPerName, socketVars
  <2> QED BY <1>3, <2>1, <2>2, <2>3 DEF ServerInv
<1> QED
  BY <1>1, <1>2, <1>3 DEF HandleSignUp

\* A request of a connection is one of its player's, who is connected.
LEMMA RequestFacts ==
    ASSUME ServerInv, NEW c, HandleRoomRequest(c)
    PROVE  /\ Next /\ LobbyInv' /\ UNCHANGED loginVars
           /\ PlayerIds' = PlayerIds /\ ConnectedIds' = ConnectedIds
<1>1. PICK p : p = connectionToPlayer[c]
  OBVIOUS
<1>2. LobbyInv /\ p \in ConnectedIds
  BY <1>1, MappedFacts DEF HandleRoomRequest, ServerInv
<1>3. /\ UNCHANGED loginVars
      /\ \/ \E n \in AskedSizes : CreateRoomForPlayer(p, n)
         \/ \E r \in DOMAIN mRooms : JoinRoomForPlayer(p, r)
         \/ LeaveRoom(p)
         \/ \E flag \in BOOLEAN : ToggleReady(p, flag)
         \/ \E flag \in BOOLEAN : TogglePlayAgain(p, flag)
  BY <1>1 DEF HandleRoomRequest, HandleCreateRoom, HandleJoinRoom, HandleLeaveRoom,
              HandleReadyToggle, HandleTogglePlayAgain
<1>4. Next
  BY <1>2, <1>3, Zenon DEF Next
<1>5. PlayerIds' = PlayerIds /\ ConnectedIds' = ConnectedIds
  BY <1>2, <1>3, RequestsKeepConnected
<1>6. LobbyInv'
  BY <1>2, <1>4, NextLobbyInv
<1> QED
  BY <1>3, <1>4, <1>5, <1>6

LEMMA RequestKeepsInv ==
    ASSUME ServerInv, NEW c, HandleRoomRequest(c), UNCHANGED socketVars
    PROVE  ServerInv'
<1>1. /\ LobbyInv' /\ UNCHANGED loginVars
      /\ PlayerIds' = PlayerIds /\ ConnectedIds' = ConnectedIds
  BY RequestFacts
<1>2. Len(mPlayers) \in Nat /\ Len(mPlayers') \in Nat
  BY <1>1, LenProperties DEF ServerInv, LobbyInv
<1>3. Len(mPlayers') = Len(mPlayers)
  <2>1. 1..Len(mPlayers') = 1..Len(mPlayers)
    BY <1>1 DEF PlayerIds
  <2> QED BY <1>2, <2>1
<1> QED
  BY <1>1, <1>3, SessionsKept DEF SameSessions, socketVars

\* A Disconnected event takes the session and the seat together.
LEMMA DisconnectedFacts ==
    ASSUME ServerInv, NEW c, HandleDisconnected(c)
    PROVE  [Next]_vars /\ ServerInv'
<1>1. /\ LobbyInv /\ names \in Seq(Names) /\ Len(names) = Len(mPlayers)
      /\ SessionsAgree /\ OneLoginPerName
  BY DEF ServerInv
<1>2. /\ disconnected' = disconnected \ {c} /\ sockets' = sockets
      /\ names' = names /\ accounts' = accounts
  BY DEF HandleDisconnected
<1>3. CASE ~Mapped(c) /\ UNCHANGED <<vars, connectionToPlayer, connectionAuthenticated>>
  <2>1. LobbyInv'
    BY <1>1, <1>3, NextLobbyInv
  <2>2. c \notin connectionAuthenticated
    BY <1>1, <1>3 DEF Mapped, SessionsAgree
  <2>3. PlayerIds' = PlayerIds /\ ConnectedIds' = ConnectedIds /\ Len(mPlayers') = Len(mPlayers)
    BY <1>3 DEF vars, PlayerIds, ConnectedIds
  <2>4. SessionsAgree' /\ OneLoginPerName'
    BY <1>1, <1>2, <1>3, <2>2, <2>3 DEF SessionsAgree, OneLoginPerName
  <2> QED BY <1>1, <1>2, <1>3, <2>1, <2>3, <2>4 DEF ServerInv
<1>4. CASE Mapped(c) /\ Disconnect(connectionToPlayer[c]) /\ Forget(c)
  <2>1. PICK p : p = connectionToPlayer[c]
    OBVIOUS
  <2>2. p \in ConnectedIds /\ p \in PlayerIds
    BY <1>4, <2>1, MappedFacts
  <2>3. Next
    BY <1>4, <2>1, <2>2, Zenon DEF Next
  <2>4. LobbyInv' /\ PlayerIds' = PlayerIds /\ ConnectedIds' = ConnectedIds \ {p}
    BY <1>1, <1>4, <2>1, <2>2, <2>3, NextLobbyInv, DisconnectDisconnects
  <2>5. /\ DOMAIN connectionToPlayer' = DOMAIN connectionToPlayer \ {c}
        /\ \A d \in DOMAIN connectionToPlayer \ {c} :
             connectionToPlayer'[d] = connectionToPlayer[d]
        /\ connectionAuthenticated' = connectionAuthenticated \ {c}
    BY <1>4 DEF Forget, Restrict
  <2>6. Range(connectionToPlayer') = Range(connectionToPlayer) \ {p}
    BY <1>1, <1>4, <2>1, <2>5 DEF Range, SessionsAgree, IsInjective, Mapped
  <2>7. IsInjective(connectionToPlayer')
    BY <1>1, <2>5 DEF SessionsAgree, IsInjective
  <2>8. SessionsAgree'
    BY <1>1, <1>2, <2>4, <2>5, <2>6, <2>7 DEF SessionsAgree
  <2>9. OneLoginPerName'
    BY <1>1, <1>2, <2>4 DEF OneLoginPerName
  <2>10. Len(mPlayers') = Len(mPlayers)
    <3>1. Len(mPlayers) \in Nat /\ Len(mPlayers') \in Nat /\ 1..Len(mPlayers') = 1..Len(mPlayers)
      BY <1>1, <2>4, LenProperties DEF LobbyInv, PlayerIds
    <3> QED BY <3>1
  <2> QED BY <1>1, <1>2, <2>3, <2>4, <2>8, <2>9, <2>10 DEF ServerInv
<1> QED
  BY <1>3, <1>4 DEF HandleDisconnected

LEMMA SignInIsLobbyStep ==
    ASSUME NEW c, NEW n, HandleSignUp(c, n) \/ HandleSignIn(c, n)
    PROVE  [Next]_vars
  BY DEF HandleSignUp, HandleSignIn, Login, RegisterOrRename, Next

\* Every event is a step of the lobby, or none, and keeps the sessions in order.
LEMMA ServerStep == ServerInv /\ [ServerNext]_serverVars => [Next]_vars /\ ServerInv'
<1> SUFFICES ASSUME ServerInv, [ServerNext]_serverVars PROVE [Next]_vars /\ ServerInv'
  OBVIOUS
<1>1. ASSUME UNCHANGED <<vars, loginVars>>,
             sockets \cup disconnected \subseteq sockets' \cup disconnected'
      PROVE  [Next]_vars /\ ServerInv'
  <2>1. LobbyInv' /\ SameSessions
    BY <1>1, NextLobbyInv DEF ServerInv, SameSessions, vars, PlayerIds, ConnectedIds
  <2> QED BY <1>1, <2>1, SessionsKept
<1>2. CASE Accept
  BY <1>1, <1>2 DEF Accept
<1>3. ASSUME NEW lost \in SUBSET sockets, PollEvents(lost)
      PROVE  [Next]_vars /\ ServerInv'
  BY <1>1, <1>3 DEF PollEvents
<1>4. ASSUME NEW c, HandlePacket(c) PROVE [Next]_vars /\ ServerInv'
  <2>1. c \in sockets \cup disconnected /\ UNCHANGED socketVars
    BY <1>4 DEF HandlePacket
  <2>2. ASSUME NEW n \in Names, HandleSignUp(c, n) \/ HandleSignIn(c, n)
        PROVE  [Next]_vars /\ ServerInv'
    BY <2>1, <2>2, SignInIsLobbyStep, SignKeepsInv
  <2>3. CASE HandleRoomRequest(c)
    BY <2>1, <2>3, RequestFacts, RequestKeepsInv
  <2> QED BY <1>4, <2>2, <2>3 DEF HandlePacket
<1>5. ASSUME NEW c, HandleDisconnected(c) PROVE [Next]_vars /\ ServerInv'
  BY <1>5, DisconnectedFacts
<1>6. CASE UNCHANGED serverVars
  BY <1>1, <1>6 DEF serverVars, socketVars
<1> QED
  BY <1>2, <1>3, <1>4, <1>5, <1>6 DEF ServerNext

\* The inductive invariant of the server's loop.
THEOREM ServerInvariant == ServerSpec => []ServerInv
<1> QED BY ServerInitInv, ServerStep, PTL DEF ServerSpec

\* A profile is connected exactly when one connection that has logged in leads to
\* it, however packets, sign-ins and lost sockets follow on each other.
THEOREM SessionsAlwaysAgree == ServerSpec => []SessionsAgree
<1>1. ServerInv => SessionsAgree
  BY DEF ServerInv
<1> QED BY <1>1, ServerInvariant, PTL

\* No name is ever in use by two connected profiles.
THEOREM NamesNeverShared == ServerSpec => []OneLoginPerName
<1>1. ServerInv => OneLoginPerName
  BY DEF ServerInv
<1> QED BY <1>1, ServerInvariant, PTL

\* The events of the sockets reach the lobby as calls it provides for, made for
\* connected players only.
THEOREM LobbyAlwaysServed == ServerSpec => LobbyServed
<1>1. ServerInit => Init
  BY DEF ServerInit
<1> QED BY <1>1, ServerStep, ServerInvariant, PTL DEF ServerSpec, LobbyServed, Spec

\* So the server as a whole seats its players as Seating says.
THEOREM ServerImplementsSeating == ServerSpec => ImplementsSeating
<1> QED BY LobbyAlwaysServed, LobbyImplementsSeating DEF LobbyServed

=============================================================================
