------------------------- MODULE UserDatabaseProofs -------------------------
(***************************************************************************)
(* The theorem about friend requests, for all users and clients, whatever  *)
(* statements fail and whenever the server crashes.                        *)
(***************************************************************************)
EXTENDS UserDatabase, TLAPS

-----------------------------------------------------------------------------
(* The inductive invariant                                                  *)

Rows == [requests : SUBSET (Users \X Users), friends : SUBSET (Users \X Users)]

\* What an open transaction has changed: it has dropped a request only with the
\* friendship beside it, and the DELETE is reached with the row inserted.
TransactionSound ==
    /\ ~inTransaction => view = disk
    /\ \A request \in disk.requests \ view.requests : Pair(request) \in view.friends
    /\ step = "delete" /\ ok => Pair(accepting) \in view.friends

SocialInv ==
    /\ disk \in Rows /\ view \in Rows
    /\ inTransaction \in BOOLEAN /\ ok \in BOOLEAN
    /\ step \in {"idle", "insert", "delete", "end"}
    /\ signedIn \in [Clients -> Users \cup {NoUser}]
    /\ step # "idle" => accepting \in Users \X Users
    /\ TransactionSound

-----------------------------------------------------------------------------
(* Rows                                                                     *)

\* The row of a request is one of users.
LEMMA PairFacts ==
    ASSUME NEW request \in Users \X Users
    PROVE  Pair(request) \in Users \X Users
  BY DEF Pair

\* Statements keep the two sets of rows apart from each other's changes.
LEMMA ExecuteFacts ==
    ASSUME NEW rows \in Rows, Execute(rows), disk \in Rows
    PROVE  /\ view' = rows /\ inTransaction' = inTransaction
           /\ disk' \in Rows
           /\ inTransaction => disk' = disk
           /\ ~inTransaction => disk' = rows
  BY DEF Execute

-----------------------------------------------------------------------------
(* Every step keeps the invariant                                           *)

LEMMA SocialInit == Init => SocialInv
<1> SUFFICES ASSUME Init PROVE SocialInv
  OBVIOUS
<1>1. Empty \in Rows /\ disk = Empty /\ view = Empty
  BY DEF Init, Empty, Rows
<1>2. step = "idle" /\ inTransaction = FALSE /\ ok = FALSE
  BY DEF Init
<1>3. signedIn \in [Clients -> Users \cup {NoUser}]
  BY DEF Init, NobodySignedIn
<1> QED
  BY <1>1, <1>2, <1>3 DEF SocialInv, TransactionSound

\* What clients do by themselves, and what is only read, leaves the tables alone.
LEMMA QuietKeepsInv ==
    ASSUME SocialInv, UNCHANGED <<dbVars, acceptVars>>,
           signedIn' \in [Clients -> Users \cup {NoUser}]
    PROVE  SocialInv'
  BY DEF SocialInv, TransactionSound, dbVars, acceptVars

LEMMA SendKeepsInv ==
    ASSUME SocialInv, NEW c \in Clients, NEW t \in Users, SendFriendRequest(c, t)
    PROVE  SocialInv'
<1> DEFINE f == signedIn[c]
           rows == [view EXCEPT !.requests = view.requests \cup {<<f, t>>}]
<1> USE DEF SocialInv
<1>1. /\ step = "idle" /\ f # NoUser
      /\ Execute(rows)
      /\ UNCHANGED <<acceptVars, signedIn>>
  BY DEF SendFriendRequest
<1>2. f \in Users
  BY <1>1
<1> HIDE DEF f
<1>3. /\ rows \in Rows /\ rows.friends = view.friends
      /\ rows.requests = view.requests \cup {<<f, t>>}
  BY <1>2 DEF Rows
<1> HIDE DEF rows
<1>4. /\ view' = rows /\ inTransaction' = inTransaction
      /\ disk' \in Rows
      /\ inTransaction => disk' = disk
      /\ ~inTransaction => disk' = rows
  BY <1>1, <1>3, ExecuteFacts
<1>5. TransactionSound'
  BY <1>1, <1>3, <1>4 DEF TransactionSound, acceptVars
<1> QED
  BY <1>1, <1>3, <1>4, <1>5 DEF acceptVars

LEMMA RespondKeepsInv ==
    ASSUME SocialInv, NEW c \in Clients, NEW f \in Users, RespondFriendRequest(c, f)
    PROVE  SocialInv'
<1> USE DEF SocialInv
<1>1. /\ step' = "insert" /\ accepting' = <<f, signedIn[c]>> /\ ok' = FALSE
      /\ inTransaction' = inTransaction \/ inTransaction' = TRUE
      /\ UNCHANGED <<disk, view, signedIn>>
  BY DEF RespondFriendRequest
<1>2. signedIn[c] \in Users
  BY DEF RespondFriendRequest
<1>3. TransactionSound'
  <2>1. ~inTransaction' => view' = disk'
    BY <1>1 DEF TransactionSound
  <2>2. \A request \in disk'.requests \ view'.requests : Pair(request) \in view'.friends
    BY <1>1 DEF TransactionSound
  <2> QED BY <1>1, <2>1, <2>2 DEF TransactionSound
<1> QED
  BY <1>1, <1>2, <1>3

LEMMA InsertKeepsInv ==
    ASSUME SocialInv, InsertFriends
    PROVE  SocialInv'
<1> DEFINE row == Pair(accepting)
           rows == [view EXCEPT !.friends = view.friends \cup {row}]
<1> USE DEF SocialInv
<1>1. /\ step = "insert" /\ step' = "delete"
      /\ (Execute(rows) /\ ok' = TRUE) \/ (Fail /\ ok' = FALSE)
      /\ UNCHANGED <<accepting, clientVars>>
  BY DEF InsertFriends
<1>2. row \in Users \X Users
  BY <1>1, PairFacts
<1>3. Pair(accepting)' = row
  BY <1>1 DEF Pair
<1> HIDE DEF row
<1>4. /\ rows \in Rows /\ rows.requests = view.requests
      /\ rows.friends = view.friends \cup {row}
  BY <1>2 DEF Rows
<1> HIDE DEF rows
<1>5. CASE Execute(rows) /\ ok' = TRUE
  <2>1. /\ view' = rows /\ inTransaction' = inTransaction
        /\ disk' \in Rows
        /\ inTransaction => disk' = disk
        /\ ~inTransaction => disk' = rows
    BY <1>4, <1>5, ExecuteFacts
  <2>2. TransactionSound'
    BY <1>1, <1>3, <1>4, <1>5, <2>1 DEF TransactionSound
  <2> QED BY <1>1, <1>4, <1>5, <2>1, <2>2 DEF clientVars
<1>6. CASE Fail /\ ok' = FALSE
  BY <1>1, <1>6 DEF Fail, dbVars, clientVars, TransactionSound
<1> QED
  BY <1>1, <1>5, <1>6

\* The DELETE runs only with the friendship's row in the tables the server sees.
LEMMA DeleteFacts ==
    ASSUME SocialInv, DeleteRequest
    PROVE  LET rows == [view EXCEPT !.requests = view.requests \ {accepting}] IN
           /\ step = "delete" /\ step' = "end" /\ ok' \in BOOLEAN
           /\ UNCHANGED <<accepting, clientVars>>
           /\ rows \in Rows /\ rows.friends = view.friends
           /\ rows.requests = view.requests \ {accepting}
           /\ \/ Execute(rows) /\ Pair(accepting) \in view.friends
              \/ Fail
  BY DEF DeleteRequest, SocialInv, TransactionSound, Rows

LEMMA DeleteKeepsInv ==
    ASSUME SocialInv, DeleteRequest
    PROVE  SocialInv'
<1> DEFINE rows == [view EXCEPT !.requests = view.requests \ {accepting}]
<1> USE DEF SocialInv
<1>1. /\ step = "delete" /\ step' = "end" /\ ok' \in BOOLEAN
      /\ UNCHANGED <<accepting, clientVars>>
      /\ rows \in Rows /\ rows.friends = view.friends
      /\ rows.requests = view.requests \ {accepting}
      /\ \/ Execute(rows) /\ Pair(accepting) \in view.friends
         \/ Fail
  BY DeleteFacts
<1> HIDE DEF rows
<1>2. CASE Execute(rows) /\ Pair(accepting) \in view.friends
  <2>1. /\ view' = rows /\ inTransaction' = inTransaction
        /\ disk' \in Rows
        /\ inTransaction => disk' = disk
        /\ ~inTransaction => disk' = rows
    BY <1>1, <1>2, ExecuteFacts
  <2>2. TransactionSound'
    BY <1>1, <1>2, <2>1 DEF TransactionSound
  <2> QED BY <1>1, <2>1, <2>2 DEF clientVars
<1>3. CASE Fail
  BY <1>1, <1>3 DEF Fail, dbVars, clientVars, TransactionSound
<1> QED
  BY <1>1, <1>2, <1>3

\* A COMMIT that fails leaves the transaction as it is, everything else closes it.
LEMMA EndKeepsInv ==
    ASSUME SocialInv, EndAccept
    PROVE  SocialInv'
<1> USE DEF SocialInv
<1>1. /\ step' = "idle" /\ ok' = FALSE
      /\ Commit \/ Fail \/ Rollback
      /\ UNCHANGED signedIn
  BY DEF EndAccept
<1>2. /\ view' \in Rows /\ disk' \in Rows /\ inTransaction' \in BOOLEAN
      /\ \/ view' = disk'
         \/ view' = view /\ disk' = disk /\ inTransaction' = inTransaction
  BY <1>1 DEF Commit, Fail, Rollback, dbVars
<1>3. TransactionSound'
  BY <1>1, <1>2 DEF TransactionSound
<1> QED
  BY <1>1, <1>2, <1>3

LEMMA CrashKeepsInv ==
    ASSUME SocialInv, Crash
    PROVE  SocialInv'
  BY DEF SocialInv, Crash, Rollback, NobodySignedIn, TransactionSound

LEMMA SocialStep == SocialInv /\ [Next]_vars => SocialInv'
<1> SUFFICES ASSUME SocialInv, [Next]_vars PROVE SocialInv'
  OBVIOUS
<1>1. signedIn \in [Clients -> Users \cup {NoUser}]
  BY DEF SocialInv
<1>2. ASSUME NEW c \in Clients, NEW u \in Users, SignIn(c, u) \/ Click(c, u)
      PROVE  SocialInv'
  BY <1>1, <1>2, QuietKeepsInv DEF SignIn, Click
<1>3. ASSUME NEW c \in Clients, Disconnect(c) \/ RequestPendingFriendRequests(c)
      PROVE  SocialInv'
  BY <1>1, <1>3, QuietKeepsInv DEF Disconnect, RequestPendingFriendRequests
<1>4. CASE UNCHANGED vars
  BY <1>1, <1>4, QuietKeepsInv DEF vars, clientVars
<1> QED
  BY <1>2, <1>3, <1>4, SendKeepsInv, RespondKeepsInv, InsertKeepsInv,
     DeleteKeepsInv, EndKeepsInv, CrashKeepsInv DEF Next

-----------------------------------------------------------------------------
(* Theorems                                                                 *)

\* The inductive invariant of the tables and the open transaction.
THEOREM SocialInvariant == Spec => []SocialInv
<1> QED BY SocialInit, SocialStep, PTL DEF Spec

\* What a step takes from the committed requests is what an open transaction had
\* taken, or the request a DELETE outside of one is about.
LEMMA RequestsStep ==
    ASSUME SocialInv, [Next]_vars, NEW request \in disk.requests \ disk'.requests
    PROVE  Pair(request) \in disk'.friends
<1> USE DEF SocialInv
<1>1. ASSUME NEW c \in Clients, NEW t \in Users, SendFriendRequest(c, t)
      PROVE  FALSE
  <2>1. disk' = disk \/ (~inTransaction /\ disk'.requests = view.requests \cup {<<signedIn[c], t>>})
    BY <1>1 DEF SendFriendRequest, Execute, Rows
  <2> QED BY <2>1 DEF TransactionSound
<1>2. CASE InsertFriends
  <2>1. disk' = disk \/ (~inTransaction /\ disk'.requests = view.requests)
    BY <1>2 DEF InsertFriends, Execute, Fail, dbVars, Rows
  <2> QED BY <2>1 DEF TransactionSound
<1>3. CASE DeleteRequest
  <2> DEFINE rows == [view EXCEPT !.requests = view.requests \ {accepting}]
  <2>1. /\ rows.friends = view.friends /\ rows.requests = view.requests \ {accepting}
        /\ \/ Execute(rows) /\ Pair(accepting) \in view.friends
           \/ Fail
    BY <1>3, DeleteFacts
  <2> HIDE DEF rows
  <2>2. ~inTransaction /\ disk' = rows /\ Pair(accepting) \in view.friends
    BY <2>1 DEF Execute, Fail, dbVars
  <2>3. request = accepting
    BY <2>1, <2>2 DEF TransactionSound
  <2> QED BY <2>1, <2>2, <2>3
<1>4. CASE EndAccept
  BY <1>4 DEF EndAccept, Commit, Fail, Rollback, dbVars, TransactionSound
<1>5. CASE UNCHANGED disk
  BY <1>5
<1> QED
  BY <1>1, <1>2, <1>3, <1>4, <1>5
     DEF Next, vars, dbVars, SignIn, Disconnect, RequestPendingFriendRequests, Click,
         RespondFriendRequest, Crash, Rollback

\* A committed request leaves the file only in the commit that brings the
\* friendship, whichever statement fails and whenever the server crashes.
THEOREM RequestsNeverLost == Spec => RequestsBecomeFriendships
<1> DEFINE Become == \A request \in disk.requests \ disk'.requests :
                        Pair(request) \in disk'.friends
<1>1. ASSUME SocialInv, [Next]_vars PROVE Become
  BY <1>1, RequestsStep
<1> HIDE DEF Become
<1>2. SocialInv /\ [Next]_vars => [Become]_vars
  BY <1>1
<1>3. Spec => [][Become]_vars
  BY <1>2, SocialInvariant, PTL DEF Spec
<1> QED BY <1>3 DEF Become, RequestsBecomeFriendships

=============================================================================
