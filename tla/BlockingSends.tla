--------------------------- MODULE BlockingSends ----------------------------
(***************************************************************************)
(* Sends that have to wait.  Sockets do not block, but both SendAll        *)
(* (SocketHub.cpp, ServerBridge.cpp) try again at once when a send would,  *)
(* until the other end has read, and read nothing themselves meanwhile:    *)
(* the server has one thread, and so has the window of a client.  The      *)
(* buffers of a connection hold Capacity packets in each direction.        *)
(*                                                                         *)
(* The server takes whatever has arrived in one poll and then answers it,  *)
(* request by request: to the one who asked, or to everybody.  Broadcasts  *)
(* are in an order of their own.                                           *)
(***************************************************************************)
EXTENDS Integers, SequencesExt

CONSTANTS
    Clients,
    Capacity,       \* packets that fit into the buffers of one direction
    MaxOutstanding  \* model bound: requests of a client sent and not yet handled

ASSUME CapacityAssumption == Capacity \in Nat \ {0} /\ MaxOutstanding \in Nat

VARIABLES
    up, down,       \* packets in the buffers to the server and to the client
    clicked,        \* clients in a send that is not complete
    open,           \* clients whose window is open
    events,         \* the clients whose requests of this poll are to be handled
    outgoing        \* the clients the handler still has to send a packet to

blockingVars == <<up, down, clicked, open, events, outgoing>>

Init ==
    /\ up = [c \in Clients |-> 0]
    /\ down = [c \in Clients |-> 0]
    /\ clicked = {}
    /\ open = Clients
    /\ events = <<>>
    /\ outgoing = <<>>

-----------------------------------------------------------------------------
(* A client: one of its handlers at a time                                  *)

Outstanding(c) == up[c] + Len(SelectSeq(events, LAMBDA d : d = c))

Click(c) ==
    /\ c \in open \ clicked
    /\ Outstanding(c) < MaxOutstanding
    /\ clicked' = clicked \cup {c}
    /\ UNCHANGED <<up, down, open, events, outgoing>>

\* ServerBridge::SendAll.
SendPayload(c) ==
    /\ c \in clicked
    /\ up[c] < Capacity
    /\ up' = [up EXCEPT ![c] = @ + 1]
    /\ clicked' = clicked \ {c}
    /\ UNCHANGED <<down, open, events, outgoing>>

\* The timer reads until nothing is left.
PollIncoming(c) ==
    /\ c \in open \ clicked
    /\ down[c] > 0
    /\ down' = [down EXCEPT ![c] = 0]
    /\ UNCHANGED <<up, clicked, open, events, outgoing>>

Close(c) ==
    /\ c \in open \ clicked
    /\ open' = open \ {c}
    /\ down' = [down EXCEPT ![c] = 0]
    /\ UNCHANGED <<up, clicked, events, outgoing>>

-----------------------------------------------------------------------------
(* The server                                                               *)

PollEvents ==
    /\ events = <<>> /\ outgoing = <<>>
    /\ \E c \in Clients : up[c] > 0
    /\ events' = FlattenSeq([i \in 1..Cardinality(Clients) |->
            LET c == SetToSeq(Clients)[i] IN [k \in 1..up[c] |-> c]])
    /\ up' = [c \in Clients |-> 0]
    /\ UNCHANGED <<down, clicked, open, outgoing>>

HandleRequest ==
    /\ events # <<>> /\ outgoing = <<>>
    /\ events' = Tail(events)
    /\ \E all \in SetToSeqs(Clients) :
        outgoing' \in {<<Head(events)>>, all, <<Head(events)>> \o all}
    /\ UNCHANGED <<up, down, clicked, open>>

\* Mutant: whatever the error, the send is tried again.
SendPacketOnAnyError ==
    /\ outgoing # <<>>
    /\ Head(outgoing) \in open /\ down[Head(outgoing)] < Capacity
    /\ down' = [down EXCEPT ![Head(outgoing)] = @ + 1]
    /\ outgoing' = Tail(outgoing)
    /\ UNCHANGED <<up, clicked, open, events>>

\* SocketHub::SendAll: to a client that has closed it fails, and that is that.
SendPacket ==
    /\ outgoing # <<>>
    /\ LET c == Head(outgoing) IN
       \/ c \in open /\ down[c] < Capacity /\ down' = [down EXCEPT ![c] = @ + 1]
       \/ c \notin open /\ UNCHANGED down
    /\ outgoing' = Tail(outgoing)
    /\ UNCHANGED <<up, clicked, open, events>>

Next ==
    \/ \E c \in Clients : Click(c) \/ SendPayload(c) \/ PollIncoming(c) \/ Close(c)
    \/ PollEvents \/ HandleRequest \/ SendPacket

\* The server's thread runs, and the timer of a window that is open, when no
\* other handler of the window is running.
Spec ==
    /\ Init /\ [][Next]_blockingVars
    /\ WF_blockingVars(PollEvents) /\ WF_blockingVars(HandleRequest)
    /\ WF_blockingVars(SendPacket)
    /\ \A c \in Clients :
        WF_blockingVars(SendPayload(c)) /\ WF_blockingVars(PollIncoming(c))

-----------------------------------------------------------------------------
(* Property                                                                 *)

\* No client has more requests under way than the buffers hold.
BuffersSuffice ==
    \A c \in Clients :
        Outstanding(c) + Cardinality(clicked \cap {c}) <= Capacity

\* Nobody waits for ever: as long as the buffers suffice for the requests that are
\* under way, every click returns and the server gets through its sends back to
\* its poll, also when clients are slow to read or close in between.  (When they
\* do not, a client and the server may each wait for the other to read.)
NobodyHangs ==
    []BuffersSuffice =>
        /\ \A c \in Clients : c \in clicked ~> c \notin clicked
        /\ []<>(events = <<>> /\ outgoing = <<>>)

=============================================================================
