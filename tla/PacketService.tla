----------------------------- MODULE PacketService -----------------------------
(***************************************************************************)
(* What the Ethernet firmware promises to whoever raises the PIO's input:  *)
(* a request is kept until it is taken, and a request that is taken is     *)
(* answered by one whole frame before the next is taken.  Requests made    *)
(* while one is kept are one request.                                      *)
(***************************************************************************)

VARIABLES requested, sending, delivered

Init == ~requested /\ ~sending /\ ~delivered

Request == requested' /\ UNCHANGED <<sending, delivered>>

Take == /\ requested /\ ~sending
        /\ ~requested' /\ sending' /\ ~delivered'

Deliver == sending /\ ~delivered /\ delivered' /\ UNCHANGED <<requested, sending>>

Finish == sending /\ delivered /\ ~sending' /\ UNCHANGED <<requested, delivered>>

Next == Request \/ Take \/ Deliver \/ Finish

Spec == Init /\ [][Next]_<<requested, sending, delivered>>

\* What is asked for is taken, and what is taken is delivered and over.
Answered == (requested ~> sending) /\ (sending ~> ~sending)
=============================================================================
