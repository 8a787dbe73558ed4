------------------------------ MODULE ByteStream ------------------------------
(***************************************************************************)
(* What a connection in the Ready state promises to the application of one *)
(* endpoint: two byte streams, each a counter of how far it has got.       *)
(* Bytes are accepted from the application in order, and transmitted in    *)
(* the order they were accepted; bytes are received in the order the peer  *)
(* wrote them.  Nothing is accepted or received once the connection is     *)
(* closed; what was accepted before may still go out.                      *)
(***************************************************************************)
EXTENDS Naturals

VARIABLES offered,       \* how many bytes the peer writes in all
          accepted, transmitted, received, closed

svars == <<offered, accepted, transmitted, received, closed>>

Init == /\ offered \in Nat
        /\ accepted = 0 /\ transmitted = 0 /\ received = 0
        /\ closed = FALSE

Accept == /\ ~closed
          /\ accepted' \in Nat /\ accepted' > accepted
          /\ UNCHANGED <<offered, transmitted, received, closed>>

Transmit == /\ transmitted' \in (transmitted + 1) .. accepted
            /\ UNCHANGED <<offered, accepted, received, closed>>

Receive == /\ ~closed
           /\ received' \in (received + 1) .. offered
           /\ UNCHANGED <<offered, accepted, transmitted, closed>>

Close == /\ ~closed /\ closed'
         /\ UNCHANGED <<offered, accepted, transmitted, received>>

Next == Accept \/ Transmit \/ Receive \/ Close

Spec == Init /\ [][Next]_svars

===============================================================================
