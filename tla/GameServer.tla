----------------------------- MODULE GameServer -----------------------------
(***************************************************************************)
(* The server's loop in main.cpp: connections come and go, sign up and     *)
(* sign in, and drive the lobby of HostEngine through connectionToPlayer.  *)
(*                                                                         *)
(* A poll of the SocketHub returns the packets of all connections first    *)
(* and the disconnects last, and has removed the lost sockets by then; the *)
(* loop then works the events off.  `polled' says which part of them it is *)
(* in.  Ids of connections are not given out again, profiles never         *)
(* dropped: a second sign-in on a connection renames its profile, one on a *)
(* new connection makes a new profile.  A wrong password and an empty name *)
(* change nothing and are left out, and so do the requests that only       *)
(* answer (searches, lists, chat, history).  Moves reach no further than   *)
(* the match of a room, which HostEngine and LiveMatch have.               *)
(***************************************************************************)
EXTENDS HostEngine

CONSTANTS
    Names,          \* the user names people type
    MaxConnections  \* model bound: connections accepted in one run of the server

ASSUME MaxConnectionsAssumption == MaxConnections \in Nat

VARIABLES
    names,                      \* the name of each profile, mPlayerName
    accounts,                   \* the names in the users table
    accepted,                   \* connections accepted so far, mNextConnectionId - 1
    sockets,                    \* the connections in SocketHub::mClients
    disconnected,               \* Disconnected events of this poll, not handled yet
    polled,                     \* "packets" or "disconnects"
    connectionToPlayer,
    connectionAuthenticated     \* the connections it maps to true

loginVars == <<names, accounts, connectionToPlayer, connectionAuthenticated>>
socketVars == <<accepted, sockets, disconnected, polled>>
serverVars == <<vars, loginVars, socketVars>>

Connections == 1..MaxConnections

Mapped(c) == c \in DOMAIN connectionToPlayer

ServerInit ==
    /\ Init
    /\ names = <<>>
    /\ accounts = {}
    /\ accepted = 0
    /\ sockets = {}
    /\ disconnected = {}
    /\ polled = "packets"
    /\ connectionToPlayer = <<>>
    /\ connectionAuthenticated = {}

-----------------------------------------------------------------------------
(* Connections                                                              *)

Accept ==
    /\ accepted < MaxConnections
    /\ accepted' = accepted + 1
    /\ sockets' = sockets \cup {accepted'}
    /\ UNCHANGED <<vars, loginVars, disconnected, polled>>

\* PollEvents: RemoveClient comes with the queueing of the event.
PollEvents(lost) ==
    /\ disconnected = {}
    /\ disconnected' = lost
    /\ sockets' = sockets \ lost
    /\ polled' = "packets"
    /\ UNCHANGED <<vars, loginVars, accepted>>

-----------------------------------------------------------------------------
(* Signing up and in                                                        *)

\* Mutant: only the connection's own name is looked at.
LoggedInHere(n) == FALSE

IsUsernameAlreadyLoggedIn(n) ==
    \E p \in Range(connectionToPlayer) : names[p] = n /\ mPlayers[p].connected

\* A profile for the connection, or the name for the profile that it has.
RegisterOrRename(c, n) ==
    \/ /\ ~Mapped(c)
       /\ RegisterPlayer
       /\ names' = Append(names, n)
       /\ connectionToPlayer' = [d \in DOMAIN connectionToPlayer \cup {c} |->
            IF d = c THEN Len(mPlayers') ELSE connectionToPlayer[d]]
    \/ /\ Mapped(c)
       /\ names' = [names EXCEPT ![connectionToPlayer[c]] = n]
       /\ UNCHANGED <<vars, connectionToPlayer>>

Login(c, n) ==
    /\ ~IsUsernameAlreadyLoggedIn(n)
    /\ RegisterOrRename(c, n)
    /\ connectionAuthenticated' = connectionAuthenticated \cup {c}

\* The account stays when the login after it is refused.
HandleSignUp(c, n) ==
    /\ n \notin accounts
    /\ accounts' = accounts \cup {n}
    /\ \/ Login(c, n)
       \/ /\ IsUsernameAlreadyLoggedIn(n)
          /\ UNCHANGED <<vars, names, connectionToPlayer, connectionAuthenticated>>

HandleSignIn(c, n) ==
    /\ n \in accounts
    /\ Login(c, n)
    /\ UNCHANGED accounts

-----------------------------------------------------------------------------
(* Requests                                                                 *)

\* Creating and joining ask for the login as well.
HandleCreateRoom(c) ==
    /\ c \in connectionAuthenticated
    /\ \E maxPlayers \in AskedSizes : CreateRoomForPlayer(connectionToPlayer[c], maxPlayers)

HandleJoinRoom(c) ==
    /\ c \in connectionAuthenticated
    /\ \E r \in DOMAIN mRooms : JoinRoomForPlayer(connectionToPlayer[c], r)

HandleLeaveRoom(c) == LeaveRoom(connectionToPlayer[c])

HandleReadyToggle(c) == \E ready \in BOOLEAN : ToggleReady(connectionToPlayer[c], ready)

HandleTogglePlayAgain(c) ==
    \E playAgain \in BOOLEAN : TogglePlayAgain(connectionToPlayer[c], playAgain)

HandleRoomRequest(c) ==
    /\ Mapped(c)
    /\ \/ HandleCreateRoom(c) \/ HandleJoinRoom(c) \/ HandleLeaveRoom(c)
       \/ HandleReadyToggle(c) \/ HandleTogglePlayAgain(c)
    /\ UNCHANGED loginVars

\* Packets of a connection that is lost by now are still in this poll's events.
HandlePacket(c) ==
    /\ polled = "packets"
    /\ c \in sockets \cup disconnected
    /\ \/ \E n \in Names : HandleSignUp(c, n) \/ HandleSignIn(c, n)
       \/ HandleRoomRequest(c)
    /\ UNCHANGED socketVars

\* Mutant: the connection stays mapped to its player.
ForgetNothing(c) == UNCHANGED <<connectionToPlayer, connectionAuthenticated>>

Forget(c) ==
    /\ connectionToPlayer' = Restrict(connectionToPlayer, DOMAIN connectionToPlayer \ {c})
    /\ connectionAuthenticated' = connectionAuthenticated \ {c}

\* Mutant: the profile is marked, and the room keeps it.
HandleDisconnectedSeated(c) ==
    /\ c \in disconnected
    /\ disconnected' = disconnected \ {c}
    /\ polled' = "disconnects"
    /\ \/ /\ Mapped(c)
          /\ mPlayers' = [mPlayers EXCEPT ![connectionToPlayer[c]].connected = FALSE]
          /\ UNCHANGED mRooms
          /\ Forget(c)
       \/ /\ ~Mapped(c)
          /\ UNCHANGED <<vars, connectionToPlayer, connectionAuthenticated>>
    /\ UNCHANGED <<names, accounts, accepted, sockets>>

HandleDisconnected(c) ==
    /\ c \in disconnected
    /\ disconnected' = disconnected \ {c}
    /\ polled' = "disconnects"
    /\ \/ /\ Mapped(c)
          /\ Disconnect(connectionToPlayer[c])
          /\ Forget(c)
       \/ /\ ~Mapped(c)
          /\ UNCHANGED <<vars, connectionToPlayer, connectionAuthenticated>>
    /\ UNCHANGED <<names, accounts, accepted, sockets>>

ServerNext ==
    \/ Accept
    \/ \E lost \in SUBSET sockets : PollEvents(lost)
    \/ \E c \in Connections : HandlePacket(c) \/ HandleDisconnected(c)

\* The loop handles every event it has polled.
ServerSpec ==
    /\ ServerInit
    /\ [][ServerNext]_serverVars
    /\ \A c \in Connections : WF_serverVars(HandleDisconnected(c))

-----------------------------------------------------------------------------
(* Properties                                                               *)

\* The maps that say who is there agree, through every order of sign-ins, lost
\* sockets and late packets: a profile is connected exactly when one connection
\* leads to it, that connection has logged in to an existing account, and its
\* socket is there or its Disconnected event on the way.
SessionsAgree ==
    /\ DOMAIN connectionToPlayer = connectionAuthenticated
    /\ connectionAuthenticated \subseteq sockets \cup disconnected
    /\ IsInjective(connectionToPlayer)
    /\ Range(connectionToPlayer) = ConnectedIds
    /\ \A p \in ConnectedIds : names[p] \in accounts

\* A name is in use by one connected profile at a time, so that a message or a
\* friend request to a name reaches one connection and the right one.
OneLoginPerName ==
    \A p, q \in ConnectedIds : names[p] = names[q] => p = q

\* Whatever connections do, what reaches the lobby are calls it provides for: no
\* packet acts for a player whose disconnect has been handled.
LobbyServed == Spec

\* A player whose socket is lost does not keep its seat: the room is given up or
\* closed for the others.
Lost(p) ==
    \E c \in DOMAIN connectionToPlayer : connectionToPlayer[c] = p /\ c \notin sockets

Seated(p) == p \in PlayerIds /\ mPlayers[p].roomId # NoRoom

LostPlayersLeave ==
    \A p \in 1..MaxProfiles : Seated(p) /\ Lost(p) ~> ~Seated(p)

=============================================================================
