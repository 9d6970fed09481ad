------------------------------ MODULE Seating -------------------------------
(***************************************************************************)
(* What the lobby promises: every player has at most one seat, in a room   *)
(* that is open; a room has no more players than places; its host is       *)
(* seated in it as long as it is open; and when the host gives it up,      *)
(* everybody in it is unseated at once.  HostEngine implements this.       *)
(***************************************************************************)
EXTENDS Integers, FiniteSets

CONSTANTS
    Players,
    RoomIds,
    Capacities,     \* the numbers of places a room may have
    NoRoom,         \* none of RoomIds
    NoHost          \* none of Players

VARIABLES
    seat,           \* player -> its room, or NoRoom
    host,           \* room -> its host, NoHost for a room that is not open
    places          \* room -> its number of places, 0 if it is not open

vars == <<seat, host, places>>

Seated(r) == {p \in Players : seat[p] = r}

Init ==
    /\ seat = [p \in Players |-> NoRoom]
    /\ host = [r \in RoomIds |-> NoHost]
    /\ places = [r \in RoomIds |-> 0]

Open(p, r, n) ==
    /\ seat[p] = NoRoom
    /\ host[r] = NoHost
    /\ seat' = [seat EXCEPT ![p] = r]
    /\ host' = [host EXCEPT ![r] = p]
    /\ places' = [places EXCEPT ![r] = n]

Sit(p, r) ==
    /\ seat[p] = NoRoom
    /\ host[r] # NoHost
    /\ Cardinality(Seated(r)) < places[r]
    /\ seat' = [seat EXCEPT ![p] = r]
    /\ UNCHANGED <<host, places>>

Stand(p) ==
    /\ seat[p] # NoRoom
    /\ host[seat[p]] # p
    /\ seat' = [seat EXCEPT ![p] = NoRoom]
    /\ UNCHANGED <<host, places>>

Close(r) ==
    /\ host[r] # NoHost
    /\ seat' = [p \in Players |-> IF seat[p] = r THEN NoRoom ELSE seat[p]]
    /\ host' = [host EXCEPT ![r] = NoHost]
    /\ places' = [places EXCEPT ![r] = 0]

Next ==
    \/ \E p \in Players, r \in RoomIds :
        \/ \E n \in Capacities : Open(p, r, n)
        \/ Sit(p, r)
    \/ \E p \in Players : Stand(p)
    \/ \E r \in RoomIds : Close(r)

Spec == Init /\ [][Next]_vars

=============================================================================
