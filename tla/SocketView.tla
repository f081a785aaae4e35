----------------------------- MODULE SocketView -----------------------------
(***************************************************************************)
(* What the coordinator may rely on about one location's socket: the two   *)
(* fields of the SocketState it is given that decide availability and the  *)
(* refresh mode.  A location is ready only by way of being connected,      *)
(* leaves that only by going down, and nothing is reported once closed.    *)
(***************************************************************************)
EXTENDS Naturals

VARIABLES
    view,      \* SocketState.connected and initial_sync_complete
    closed     \* async_stop has returned

View == [connected : BOOLEAN, synced : BOOLEAN]
Down  == [connected |-> FALSE, synced |-> FALSE]
Up    == [connected |-> TRUE, synced |-> FALSE]
Ready == [connected |-> TRUE, synced |-> TRUE]

\* The reports a coordinator may get after one another.
Report == {<<Down, Up>>, <<Up, Ready>>, <<Up, Down>>, <<Ready, Down>>}

Init == view = Down /\ closed = FALSE

Publish == /\ ~closed
           /\ \E report \in Report : view = report[1] /\ view' = report[2]
           /\ UNCHANGED closed

Close == /\ ~closed
         /\ closed' = TRUE
         /\ UNCHANGED view

Next == Publish \/ Close
Spec == Init /\ [][Next]_<<view, closed>>
=============================================================================
