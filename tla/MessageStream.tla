--------------------------- MODULE MessageStream ----------------------------
(***************************************************************************)
(* One direction of a connection, as its users see it: what one side sends *)
(* the other receives, whole, in the order in which it was sent, some of   *)
(* it late, the rest not at all when the stream ends.                      *)
(***************************************************************************)
EXTENDS Naturals, Sequences

CONSTANT Messages

VARIABLES
    sent,           \* everything sent so far
    received,       \* everything received so far
    ended           \* the receiver has learnt that nothing more will come

vars == <<sent, received, ended>>

Init ==
    /\ sent = <<>>
    /\ received = <<>>
    /\ ended = FALSE

Send(m) ==
    /\ sent' = Append(sent, m)
    /\ UNCHANGED <<received, ended>>

\* One reading may bring several messages.
Receive(n) ==
    /\ ~ended
    /\ received' = SubSeq(sent, 1, n)
    /\ UNCHANGED <<sent, ended>>

End ==
    /\ ended' = TRUE
    /\ UNCHANGED <<sent, received>>

Next ==
    \/ \E m \in Messages : Send(m)
    \/ \E n \in (Len(received) + 1)..Len(sent) : Receive(n)
    \/ End

Spec == Init /\ [][Next]_vars

=============================================================================
