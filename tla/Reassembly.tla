----------------------------- MODULE Reassembly -----------------------------
(***************************************************************************)
(* SSLProcessHandshakeRecord: handshake messages taken out of records.  A  *)
(* message may be spread over several records and a record may hold        *)
(* several messages; what is left of a record waits in                     *)
(* fragmentedMessageCache.  SSLAdvanceHandshake returns to the application *)
(* at the end of a flight, which ends the loop, if the server's            *)
(* certificate came in the same call; if it came in an earlier record,     *)
(* SSLHandshakeProceed has returned between the two.  The application then *)
(* calls SSLHandshake again.                                               *)
(*                                                                         *)
(* The peer's messages are one stream of bytes.  A message is its type,    *)
(* its length and its body; the three bytes of the length are one.         *)
(***************************************************************************)
EXTENDS Integers, Sequences

CONSTANTS
    Stream,      \* the bytes of the peer's messages, one after the other
    Bounds,      \* where messages begin and end: how many bytes lie before
    FlightEnds,  \* the bounds at which the peer waits for an answer
    Setups       \* how a peer cuts messages, the types that signal and that break

VARIABLES
    setup,       \* signals: message types the application wants to be told of;
                 \* breaks: types after which SSLHandshake returns to tell it;
                 \* cuts: "whole" messages only, messages cut in pieces that are
                 \* records of their own ("apart"), or "anywhere"
    sent,        \* how many bytes of the stream the peer has sent
    pc,          \* "reading", "loop" or "returned"
    cache,       \* fragmentedMessageCache; empty when its data is NULL
    buf, p,      \* the bytes from startingP on, and how many are behind p
    signal,      \* signalServerAuth
    processed    \* history: the bytes of the messages processed

vars == <<setup, sent, pc, cache, buf, p, signal, processed>>

HeaderLen == 2

\* The end of the message that begins behind b bytes.
MessageEnd(b) == b + HeaderLen + Stream[b + 2]

\* The bounds are those the lengths in the stream say, and a message after which
\* SSLHandshake returns is the last of its flight.
ASSUME StreamAssumption ==
    /\ Stream \in Seq(Nat)
    /\ Bounds \subseteq 0 .. Len(Stream) /\ 0 \in Bounds /\ Len(Stream) \in Bounds
    /\ \A b \in Bounds \ {Len(Stream)} :
          /\ b + HeaderLen =< Len(Stream) /\ MessageEnd(b) \in Bounds
          /\ \A c \in Bounds : c =< b \/ MessageEnd(b) =< c
    /\ FlightEnds \subseteq Bounds
    /\ \A s \in Setups : \A b \in Bounds \ {Len(Stream)} :
          Stream[b + 1] \in s.breaks => MessageEnd(b) \in FlightEnds

Init ==
    /\ setup \in Setups
    /\ sent = 0
    /\ pc = "reading"
    /\ cache = <<>> /\ buf = <<>> /\ p = 0
    /\ signal = FALSE
    /\ processed = <<>>

\* The peer puts the bytes up to `to' in a record.  It begins a flight once the one
\* before was processed, and no record holds bytes of two flights.
Cuts(to) ==
    /\ to > sent
    /\ \A e \in FlightEnds : e =< sent \/ to =< e
    /\ sent \in FlightEnds => Len(processed) = sent
    /\ setup.cuts = "whole" => to \in Bounds
    /\ setup.cuts = "apart" => to \in Bounds \/ \A b \in Bounds : b =< sent \/ to < b

\* SSLHandshakeProceed returns before it reads a record if there is something to
\* tell the application, which calls SSLHandshake again.
SignalServerAuth ==
    /\ pc = "reading"
    /\ signal
    /\ signal' = FALSE
    /\ UNCHANGED <<setup, sent, pc, cache, buf, p, processed>>

\* The contents of a record are appended to the cache, if there is one.
Receive(contents) ==
    /\ pc = "reading"
    /\ ~signal
    /\ cache' = IF cache = <<>> THEN <<>> ELSE cache \o contents
    /\ buf' = cache \o contents
    /\ p' = 0
    /\ pc' = "loop"
    /\ UNCHANGED <<setup, signal, processed>>

ReceiveRecord ==
    \E to \in 1 .. Len(Stream) :
        Cuts(to) /\ Receive(SubSeq(Stream, sent + 1, to)) /\ sent' = to

remaining == Len(buf) - p

CompleteButOne == remaining > HeaderLen /\ HeaderLen + buf[p + 2] < remaining

\* The bytes from p on hold a whole message.
Complete == remaining >= HeaderLen /\ HeaderLen + buf[p + 2] =< remaining

\* A message is processed; the loop goes on unless SSLAdvanceHandshake breaks, at
\* the end of a flight while there is still something to tell the application.
ProcessMessage ==
    LET end == p + HeaderLen + buf[p + 2]
    IN  /\ pc = "loop"
        /\ Complete
        /\ processed' = processed \o SubSeq(buf, p + 1, end)
        /\ p' = end
        /\ \/ /\ buf[p + 1] \in setup.breaks /\ signal
              /\ signal' = FALSE
              /\ pc' = "returned"
           \/ /\ ~(buf[p + 1] \in setup.breaks /\ signal)
              /\ signal' = (signal \/ buf[p + 1] \in setup.signals)
              /\ pc' = "loop"
        /\ UNCHANGED <<setup, sent, cache, buf>>

RemainderKept == IF cache = <<>> THEN SubSeq(buf, 1, remaining) ELSE cache

\* What is left waits for the next record: a cache in use is left alone, else it
\* gets `remaining' bytes from startingP; it is freed when nothing is left.
Remainder ==
    IF remaining = 0 THEN <<>>
    ELSE IF cache = <<>> THEN SubSeq(buf, 1, remaining)
    ELSE cache

SaveRemainder ==
    /\ pc = "loop"
    /\ ~Complete
    /\ cache' = Remainder
    /\ buf' = <<>> /\ p' = 0
    /\ pc' = "reading"
    /\ UNCHANGED <<setup, sent, signal, processed>>

\* The application calls SSLHandshake again.
CallAgain ==
    /\ pc = "returned"
    /\ pc' = "reading"
    /\ buf' = <<>> /\ p' = 0
    /\ UNCHANGED <<setup, sent, cache, signal, processed>>

Next == SignalServerAuth \/ ReceiveRecord \/ ProcessMessage \/ SaveRemainder \/ CallAgain

Spec == Init /\ [][Next]_vars /\ WF_vars(Next)

----------------------------------------------------------------------------
(* Properties. *)

\* Between two records the cache holds exactly the bytes received and not yet
\* processed: SSLProcessHandshakeRecord loses nothing and processes nothing twice.
\* This is about peers that put whole messages in records or cut one message into
\* records of its own.  Where a record ends one message and begins another that it
\* cuts, the code keeps the wrong bytes (sslHandshake.c:136; CutAnywhere).
NothingLost == pc = "reading" => processed \o cache = SubSeq(Stream, 1, sent)

\* Every message the peer sends is processed in the end.
AllDelivered == <>(processed = Stream)

----------------------------------------------------------------------------
(* What the header says, and the code does not keep. *)

\* "The client may decide to continue with the handshake (by calling SSLHandshake
\* again)": after the break the messages processed are still those the peer sent.
ContinuesInOrder == processed = SubSeq(Stream, 1, Len(processed))
============================================================================
