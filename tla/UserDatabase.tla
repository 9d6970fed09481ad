---------------------------- MODULE UserDatabase ----------------------------
(***************************************************************************)
(* Friend requests and friendships: the tables of UserDatabase.cpp, the    *)
(* handlers of main.cpp that write them and the list of pending requests   *)
(* that each client shows (GameClient.cpp).                                *)
(*                                                                         *)
(* Accepting a request is one transaction of SQLite, which this module     *)
(* knows from its use: `disk' has what is committed, `view' what the       *)
(* server's own statements see.  Statements fail, and the code looks at    *)
(* the outcome of some of them only: not at that of BEGIN, of COMMIT and   *)
(* of preparing the DELETE.  The server may crash between any two.         *)
(*                                                                         *)
(* Users are numbers, in the order of their names; all have an account.  A *)
(* client may sign in as one after the other, and goes on listing what the *)
(* one before was sent until the new list comes.  Declining a request      *)
(* changes nothing.                                                        *)
(***************************************************************************)
EXTENDS Integers, FiniteSets

CONSTANTS
    Users,
    NoUser,
    Clients,
    MaxAsked,       \* bound: the different requests that are ever made
    MaxClicked,     \* bound: the acceptances of a client that are under way
    MaxFriends      \* bound: the friendships that there are

ASSUME UsersAssumption ==
    /\ Users \subseteq Int /\ NoUser \notin Users
    /\ {MaxAsked, MaxClicked, MaxFriends} \subseteq Nat

VARIABLES
    disk,           \* the committed rows
    view,           \* the rows as the open transaction has changed them
    inTransaction,
    step,           \* where AcceptFriendRequest is, "idle" when nowhere
    accepting,      \* the request it accepts, <<from, to>>
    ok,             \* its `ok'
    signedIn,       \* client -> the user of its profile at the server
    shown,          \* client -> the senders it lists
    clicked,        \* client -> those it has accepted, not yet handled
    asked           \* history: the requests that have been inserted

dbVars == <<disk, view, inTransaction>>
acceptVars == <<step, accepting, ok>>
clientVars == <<signedIn, shown, clicked>>
vars == <<dbVars, acceptVars, clientVars, asked>>

\* friend_requests and friends.
Empty == [requests |-> {}, friends |-> {}]

NoRequest == <<>>

NobodySignedIn == [c \in Clients |-> NoUser]

NobodyListed == [c \in Clients |-> {}]

Init ==
    /\ disk = Empty /\ view = Empty /\ inTransaction = FALSE
    /\ step = "idle" /\ accepting = NoRequest /\ ok = FALSE
    /\ signedIn = NobodySignedIn /\ shown = NobodyListed /\ clicked = NobodyListed
    /\ asked = {}

-----------------------------------------------------------------------------
(* Statements                                                               *)

\* Outside of a transaction a statement commits by itself.
Execute(rows) ==
    /\ view' = rows
    /\ disk' = IF inTransaction THEN disk ELSE rows
    /\ UNCHANGED inTransaction

Fail == UNCHANGED dbVars

AreFriends(a, b) == <<a, b>> \in view.friends \/ <<b, a>> \in view.friends

GetPendingFriendRequests(rows, u) == {f \in Users : <<f, u>> \in rows.requests}

-----------------------------------------------------------------------------
(* Handlers                                                                 *)

IsUsernameAlreadyLoggedIn(u) == \E c \in Clients : signedIn[c] = u

\* A sign-up or a sign-in comes behind the clicks that were sent before it.  What
\* the client lists is left as it is until it has asked for the new list.
SignIn(c, u) ==
    /\ step = "idle"
    /\ ~IsUsernameAlreadyLoggedIn(u) /\ clicked[c] = {}
    /\ signedIn' = [signedIn EXCEPT ![c] = u]
    /\ UNCHANGED <<dbVars, acceptVars, shown, clicked, asked>>

\* The client ends; the next one at its place starts with an empty list.
Disconnect(c) ==
    /\ step = "idle"
    /\ signedIn[c] # NoUser
    /\ signedIn' = [signedIn EXCEPT ![c] = NoUser]
    /\ shown' = [shown EXCEPT ![c] = {}]
    /\ clicked' = [clicked EXCEPT ![c] = {}]
    /\ UNCHANGED <<dbVars, acceptVars, asked>>

\* InsertFriendRequest, and the notice to the client of the other, if it has one.
SendFriendRequest(c, t) ==
    LET f == signedIn[c] IN
    /\ step = "idle"
    /\ f # NoUser /\ f # t /\ ~AreFriends(f, t) /\ <<f, t>> \notin view.requests
    /\ Execute([view EXCEPT !.requests = @ \cup {<<f, t>>}])
    /\ asked' = asked \cup {<<f, t>>} /\ Cardinality(asked') <= MaxAsked
    /\ shown' = [d \in Clients |-> IF signedIn[d] = t THEN shown[d] \cup {f} ELSE shown[d]]
    /\ UNCHANGED <<acceptVars, signedIn, clicked>>

RequestPendingFriendRequests(c) ==
    /\ step = "idle"
    /\ signedIn[c] # NoUser
    /\ shown' = [shown EXCEPT ![c] = GetPendingFriendRequests(view, signedIn[c])]
    /\ UNCHANGED <<dbVars, acceptVars, signedIn, clicked, asked>>

\* HandleSocialPopupClick on a request that is listed, whoever it was sent to.
Click(c, f) ==
    /\ f \in shown[c]
    /\ clicked' = [clicked EXCEPT ![c] = @ \cup {f}]
    /\ Cardinality(clicked'[c]) <= MaxClicked
    /\ UNCHANGED <<dbVars, acceptVars, signedIn, shown, asked>>

\* BEGIN TRANSACTION, whatever comes of it.  The request may have been clicked
\* on twice; whether it is in the table nobody looks.
RespondFriendRequest(c, f) ==
    /\ step = "idle" /\ Cardinality(view.friends) < MaxFriends
    /\ f \in clicked[c] /\ signedIn[c] # NoUser
    /\ clicked' \in {clicked, [clicked EXCEPT ![c] = @ \ {f}]}
    /\ step' = "insert" /\ accepting' = <<f, signedIn[c]>> /\ ok' = FALSE
    /\ inTransaction' \in {inTransaction, TRUE}
    /\ UNCHANGED <<disk, view, signedIn, shown, asked>>

\* One row per pair, the lesser name first.
Pair(request) ==
    IF request[1] < request[2] THEN request ELSE <<request[2], request[1]>>

InsertFriends ==
    /\ step = "insert" /\ step' = "delete"
    /\ \/ Execute([view EXCEPT !.friends = @ \cup {Pair(accepting)}]) /\ ok' = TRUE
       \/ Fail /\ ok' = FALSE
    /\ UNCHANGED <<accepting, clientVars, asked>>

\* Mutant: the request is deleted whether or not the friendship was inserted.
DeleteRequestAnyway ==
    /\ step = "delete" /\ step' = "end"
    /\ Execute([view EXCEPT !.requests = @ \ {accepting}])
    /\ UNCHANGED <<ok, accepting, clientVars, asked>>

\* A DELETE that cannot be prepared leaves ok as it is.
DeleteRequest ==
    /\ step = "delete" /\ step' = "end"
    /\ \/ ok /\ Execute([view EXCEPT !.requests = @ \ {accepting}]) /\ UNCHANGED ok
       \/ ok /\ Fail /\ ok' = FALSE
       \/ Fail /\ UNCHANGED ok
    /\ UNCHANGED <<accepting, clientVars, asked>>

Commit == disk' = view /\ inTransaction' = FALSE /\ UNCHANGED view

Rollback == view' = disk /\ inTransaction' = FALSE /\ UNCHANGED disk

\* COMMIT or ROLLBACK, and the new list to the client of who has accepted.  A
\* COMMIT that fails leaves the transaction open for the statements to come.
EndAccept ==
    /\ step = "end" /\ step' = "idle"
    /\ \/ ok /\ (Commit \/ Fail)
       \/ ~ok /\ Rollback
    /\ \E c \in Clients :
        /\ signedIn[c] = accepting[2]
        /\ shown' = [shown EXCEPT ![c] = GetPendingFriendRequests(view', signedIn[c])]
    /\ accepting' = NoRequest /\ ok' = FALSE
    /\ UNCHANGED <<signedIn, clicked, asked>>

\* The process ends, the file keeps what is committed; the clients start anew.
Crash ==
    /\ Rollback
    /\ step' = "idle" /\ accepting' = NoRequest /\ ok' = FALSE
    /\ signedIn' = NobodySignedIn /\ shown' = NobodyListed /\ clicked' = NobodyListed
    /\ UNCHANGED asked

Next ==
    \/ \E c \in Clients, u \in Users :
        SignIn(c, u) \/ SendFriendRequest(c, u) \/ Click(c, u) \/ RespondFriendRequest(c, u)
    \/ \E c \in Clients : Disconnect(c) \/ RequestPendingFriendRequests(c)
    \/ InsertFriends \/ DeleteRequest \/ EndAccept \/ Crash

Spec == Init /\ [][Next]_vars

-----------------------------------------------------------------------------
(* Properties                                                               *)

\* Two people become friends only when one of them has asked the other, as the
\* notices `accepted your friend request' and `Friend request accepted.' tell them
\* (main.cpp).  Violated: the server looks for no request, and the one clicked on
\* may have been sent to the user who was signed in before.
FriendshipsWereAskedFor ==
    \A pair \in disk.friends : pair \in asked \/ <<pair[2], pair[1]>> \in asked

\* A committed request is not lost: whichever statement fails and whenever the
\* server crashes, it is gone from the file only once the friendship is there.
RequestsBecomeFriendships ==
    [][\A request \in disk.requests \ disk'.requests :
        Pair(request) \in disk'.friends]_vars

=============================================================================
