------------------------------ MODULE Transport ------------------------------
(***************************************************************************)
(* The record transport of one endpoint once its handshake is complete:    *)
(* SSLWrite, SSLRead, SSLClose and SSLServiceWriteQueue (sslTransport.c),  *)
(* SSLReadRecord (sslRecord.c) and the alerts they send, over a            *)
(* non-blocking transport.  The application's I/O callbacks may move any   *)
(* part of what they are asked to move, block, fail, or find the           *)
(* connection closed, inside a record as well as between two.              *)
(*                                                                         *)
(* A byte is its position.  An incoming byte is its position in what the   *)
(* transport presents, an outgoing byte its position in the concatenation  *)
(* of the records written, and a byte of application data its position in  *)
(* the stream of its writer.  got, wire and peerGot are observers: they    *)
(* become Garbled when a byte arrives that is not the next one.            *)
(***************************************************************************)
EXTENDS Integers, Sequences

CONSTANTS Streams,     \* what the peer may have written: see StreamsAssumption
          MaxRecord,   \* MAX_RECORD_LENGTH
          Overhead,    \* bytes a cipher adds to the contents of a record
          ReadSizes,   \* dataLength of SSLRead
          WriteSizes,  \* dataLength of SSLWrite
          MaxData      \* bound: bytes of data the application writes in all

Header == 5            \* bytes of a record header
AlertLength == 2
Garbled == -1

RecordTypes == {"data", "warning", "fatal", "closeNotify", "badType", "badLength"}

(***************************************************************************)
(* A stream is the records the transport presents, in order, and the       *)
(* position pos[n] in the peer's data at which its record number n begins. *)
(* A record's seq is the number the peer used in its MAC: a record that is *)
(* repeated or dropped on the way shows there, and nowhere else.           *)
(***************************************************************************)
StreamRecords == [type : RecordTypes, seq : Nat, start : Nat, size : Nat]

ASSUME StreamsAssumption ==
    \A s \in Streams :
        /\ s.top \in Nat
        /\ s.pos \in [0 .. s.top -> Nat]
        /\ s.pos[0] = 0
        /\ \A m, n \in 0 .. s.top : m =< n => s.pos[m] =< s.pos[n]
        /\ s.recs \in Seq(StreamRecords)
        /\ \A i \in 1 .. Len(s.recs) :
              LET r == s.recs[i]
              IN  /\ r.seq < s.top
                  /\ r.type # "data" => s.pos[r.seq + 1] = s.pos[r.seq]
                  /\ i = 1 => r.start = 0
                  /\ i > 1 => r.start = s.recs[i - 1].start + Header + s.recs[i - 1].size
                  /\ \A j \in 1 .. i - 1 : s.recs[j].start < r.start

ASSUME SizesAssumption ==
    /\ MaxRecord \in Nat \ {0}
    /\ Overhead \in Nat
    /\ ReadSizes \subseteq Nat
    /\ WriteSizes \subseteq Nat \ {0}
    /\ MaxData \in Nat

VARIABLES
    stream,          \* what the transport presents
    client,          \* protocolSide is SSL_ClientSide
    state,           \* "Ready" stands for ClientReady and ServerReady
    sentFatalAlert,
    call,            \* the API call in progress
    processed,       \* bytes handled by that call so far
    result,          \* what the last call returned
    queue,           \* recordWriteQueue
    nextWire,        \* where the next record written starts
    wire,            \* bytes the transport has taken
    accepted,        \* bytes of data SSLWrite has reported written
    peerGot,         \* bytes of data in the records on the wire
    partial,         \* partialReadBuffer, amountRead bytes of it
    taken,           \* bytes the transport has delivered
    readSeq,         \* readCipher.sequenceNum
    buffered,        \* receivedDataBuffer, from receivedDataPos on
    got              \* bytes of data SSLRead has delivered

readVars == <<partial, taken, readSeq, buffered, got>>
writeVars == <<queue, nextWire, wire, accepted, peerGot>>
vars == <<stream, client, state, sentFatalAlert, call, processed, result, queue,
          nextWire, wire, accepted, peerGot, partial, taken, readSeq, buffered, got>>

States == {"Ready", "GracefulClose", "ErrorClose", "NoNotifyClose"}
(* "protocol" stands for errSSLProtocol and for the errors of decryptRecord. *)
Errors == {"noErr", "wouldBlock", "ioErr", "protocol", "peerFatal", "badReq",
           "closedGraceful", "closedAbort", "closedNoNotify"}
Points == {"idle", "flush", "package", "flushAgain", "copy", "record", "closing"}
Calls == [op : {"none", "read", "write", "close"}, want : Nat, at : Points, had : Nat]
Idle == [op |-> "none", want |-> 0, at |-> "idle", had |-> 0]
NoResult == [err |-> "noErr", n |-> 0]

Smaller(m, n) == IF m < n THEN m ELSE n

Take(seen, from, to) ==
    CASE from = to -> seen
      [] from # to /\ from = seen -> to
      [] OTHER -> Garbled

-------------------------------------------------------------------------------
BufferedReadSizeSwapped == buffered.from - buffered.to

(* SSLGetBufferedReadSize.                                                 *)
BufferedReadSize == buffered.to - buffered.from

(* The data in the record with the number the MAC was made with.           *)
Contents(r) == [from |-> stream.pos[r.seq], to |-> stream.pos[r.seq + 1]]

NoRecord == [type |-> "badType", seq |-> 0, start |-> 0, size |-> 0]

(* The first n bytes of the partial buffer are the bytes p, p + 1, ...     *)
Holds(n, p) == \A k \in 1 .. n : partial[k] = p + k - 1

(* The header at the front of the partial buffer; bytes that are not a     *)
(* header decode to something that is refused.                             *)
Decoded ==
    IF \E i \in 1 .. Len(stream.recs) : Holds(Header, stream.recs[i].start)
    THEN stream.recs[CHOOSE i \in 1 .. Len(stream.recs) :
                        Holds(Header, stream.recs[i].start)]
    ELSE NoRecord

(* How many more bytes SSLReadRecord asks the transport for.               *)
Needed == IF Len(partial) < Header
          THEN Header - Len(partial)
          ELSE Header + Decoded.size - Len(partial)

StreamEnd ==
    IF stream.recs = <<>> THEN 0
    ELSE LET r == stream.recs[Len(stream.recs)] IN r.start + Header + r.size

Available == StreamEnd - taken

-------------------------------------------------------------------------------
(* writeRecord: a record of the data in from .. to - 1, with length bytes  *)
(* of contents, goes to the tail of the write queue.                       *)
Written(from, to, length) ==
    Append(queue, [start |-> nextWire, length |-> Header + length + Overhead,
                   sent |-> 0, from |-> from, to |-> to])

(* SSLSendAlert of close_notify or of a fatal alert: the last alert sent.  *)
SendLastAlert ==
    /\ sentFatalAlert' = TRUE
    /\ IF sentFatalAlert
       THEN UNCHANGED <<queue, nextWire>>
       ELSE /\ queue' = Written(accepted, accepted, AlertLength)
            /\ nextWire' = nextWire + Header + AlertLength + Overhead

Goto(point) == call' = [call EXCEPT !.at = point]

Return(err, n) ==
    /\ call' = Idle
    /\ processed' = 0
    /\ result' = [err |-> err, n |-> n]

-------------------------------------------------------------------------------
Init ==
    /\ stream \in Streams
    /\ client \in BOOLEAN
    /\ state = "Ready" /\ sentFatalAlert = FALSE
    /\ call = Idle /\ processed = 0
    /\ result = NoResult
    /\ queue = <<>> /\ nextWire = 0 /\ wire = 0 /\ accepted = 0
    /\ peerGot = 0
    /\ partial = <<>> /\ taken = 0 /\ readSeq = 0
    /\ buffered = [from |-> 0, to |-> 0] /\ got = 0

-------------------------------------------------------------------------------
(* The calls of the application.                                           *)

(* SSLWrite in a state that is not ready for I/O.                          *)
WriteRefusal == CASE state = "GracefulClose" -> "closedGraceful"
                  [] state = "ErrorClose" -> "closedAbort"
                  [] state = "NoNotifyClose" -> "badReq"

ReadRefusal == CASE state = "GracefulClose" -> "closedGraceful"
                 [] state = "ErrorClose" -> "closedAbort"
                 [] state = "NoNotifyClose" -> "closedNoNotify"

BeginReadUnflushed(op, n) ==
    /\ call = Idle
    /\ call' = [op |-> op, want |-> n, had |-> BufferedReadSize,
                at |-> IF op = "read" THEN "copy" ELSE "flush"]
    /\ result' = NoResult
    /\ UNCHANGED <<stream, client, state, processed, wire, accepted, peerGot, readVars>>

Begin(op, n) ==
    /\ call = Idle
    /\ call' = [op |-> op, want |-> n, at |-> "flush", had |-> BufferedReadSize]
    /\ result' = NoResult
    /\ UNCHANGED <<stream, client, state, processed, wire, accepted, peerGot, readVars>>

Refuse(err) ==
    /\ call = Idle /\ state # "Ready"
    /\ result' = [err |-> err, n |-> 0]
    /\ UNCHANGED <<stream, client, state, sentFatalAlert, call, processed,
                   writeVars, readVars>>

CallWrite(n) ==
    \/ /\ state = "Ready"
       /\ accepted + n =< MaxData
       /\ Begin("write", n)
       /\ UNCHANGED <<sentFatalAlert, queue, nextWire>>
    \/ Refuse(WriteRefusal)

CallReadAnyState(n) ==
    /\ Begin("read", n)
    /\ UNCHANGED <<sentFatalAlert, queue, nextWire>>

CallRead(n) ==
    \/ /\ state = "Ready"
       /\ Begin("read", n)
       /\ UNCHANGED <<sentFatalAlert, queue, nextWire>>
    \/ Refuse(ReadRefusal)

CallCloseOnce == state # "GracefulClose" /\ Begin("close", 0) /\ SendLastAlert

CallClose == Begin("close", 0) /\ SendLastAlert

-------------------------------------------------------------------------------
(* SSLServiceWriteQueue, and what its caller does with its result.         *)

Flushing == call.at \in {"flush", "flushAgain", "closing"}

(* What stops the queue for good: "ioErr" stands for every error of the    *)
(* write callback but errSSLWouldBlock and errSSLClosedGraceful, which     *)
(* SSLWrite and SSLRead return without closing the connection.             *)
WriteErrors == {"ioErr", "closedGraceful"}

AfterFlush(err) ==
    \/ /\ call.op = "write" /\ call.at = "flush"
       /\ UNCHANGED state
       /\ IF err = "noErr"
          THEN Goto("package") /\ UNCHANGED <<processed, result>>
          ELSE Return(err, 0)
    \/ /\ call.op = "write" /\ call.at = "flushAgain"
       /\ state' = IF err = "ioErr" THEN "ErrorClose" ELSE state
       /\ Return(err, processed)
    \/ /\ call.op = "read" /\ call.at = "flush"
       /\ IF err \in WriteErrors
          THEN /\ state' = IF err = "ioErr" THEN "ErrorClose" ELSE state
               /\ Return(err, 0)
          ELSE Goto("copy") /\ UNCHANGED <<state, processed, result>>
    \/ /\ call.op = "read" /\ call.at = "closing"
       /\ state' = "GracefulClose"
       /\ Return(IF processed = 0 THEN "closedGraceful" ELSE "noErr", processed)
    \/ /\ call.op = "close"
       /\ state' = "GracefulClose"
       /\ Return(IF err = "ioErr" THEN "noErr" ELSE err, 0)

Unsent == queue[1].length - queue[1].sent

Transmitted(k) ==
    wire' = Take(wire, queue[1].start + queue[1].sent,
                 queue[1].start + queue[1].sent + k)

QueueEmpty ==
    /\ Flushing /\ queue = <<>>
    /\ AfterFlush("noErr")
    /\ UNCHANGED <<stream, client, sentFatalAlert, writeVars, readVars>>

WriteAll ==
    /\ Flushing /\ queue # <<>>
    /\ Transmitted(Unsent)
    /\ queue' = Tail(queue)
    /\ peerGot' = Take(peerGot, queue[1].from, queue[1].to)
    /\ UNCHANGED <<stream, client, state, sentFatalAlert, call, processed, result,
                   nextWire, accepted, readVars>>

WritePartForgets(err) ==
    /\ Flushing /\ queue # <<>>
    /\ \E k \in 0 .. Unsent - 1 : Transmitted(k)
    /\ AfterFlush(err)
    /\ UNCHANGED <<stream, client, sentFatalAlert, queue, nextWire, accepted, peerGot,
                   readVars>>

(* The write callback moves fewer bytes than it was asked to.              *)
WritePart(err) ==
    /\ Flushing /\ queue # <<>>
    /\ \E k \in 0 .. Unsent - 1 :
          /\ Transmitted(k)
          /\ queue' = [queue EXCEPT ![1].sent = @ + k]
    /\ AfterFlush(err)
    /\ UNCHANGED <<stream, client, sentFatalAlert, nextWire, accepted, peerGot,
                   readVars>>

(* One turn of the loop of SSLWrite that fragments the data; after the     *)
(* last one *bytesWritten is set.                                          *)
Package ==
    LET n == Smaller(call.want - processed, MaxRecord)
        from == accepted + processed
    IN  /\ call.at = "package"
        /\ queue' = Written(from, from + n, n)
        /\ nextWire' = nextWire + Header + n + Overhead
        /\ processed' = processed + n
        /\ IF processed' = call.want
           THEN Goto("flushAgain") /\ accepted' = accepted + call.want
           ELSE UNCHANGED <<call, accepted>>
        /\ UNCHANGED <<stream, client, state, sentFatalAlert, result, wire, peerGot, readVars>>

-------------------------------------------------------------------------------
(* SSLRead after it has serviced the write queue.                          *)

Deliver(from, to) == got' = Take(got, from, to)

CopyBufferedReadsOn ==
    LET n == Smaller(call.want, BufferedReadSize)
    IN  /\ call.at = "copy"
        /\ Deliver(buffered.from, buffered.from + n)
        /\ buffered' = [buffered EXCEPT !.from = @ + n]
        /\ Goto("record") /\ processed' = n
        /\ UNCHANGED <<stream, client, state, sentFatalAlert, result, writeVars,
                       partial, taken, readSeq>>

CopyBuffered ==
    LET n == Smaller(call.want, BufferedReadSize)
    IN  /\ call.at = "copy"
        /\ Deliver(buffered.from, buffered.from + n)
        /\ buffered' = [buffered EXCEPT !.from = @ + n]
        /\ IF n < call.want
           THEN Goto("record") /\ processed' = n /\ UNCHANGED result
           ELSE Return("noErr", n)
        /\ UNCHANGED <<stream, client, state, sentFatalAlert, writeVars,
                       partial, taken, readSeq>>

ReadingRecord == call.at = "record"
HeaderRead == Len(partial) >= Header
HeaderRefused == HeaderRead /\ Decoded.type \in {"badType", "badLength"}
RecordRead == HeaderRead /\ ~HeaderRefused /\ Needed =< 0

AskingForBytes == ReadingRecord /\ ~HeaderRefused /\ ~RecordRead

ArriveAtFront(k) ==
    /\ k =< Available
    /\ taken' = taken + k
    /\ partial' = [j \in 1 .. k |-> taken + j - 1]

(* The read callback puts k bytes at partialReadBuffer.data + amountRead.  *)
Arrive(k) ==
    /\ k =< Available
    /\ taken' = taken + k
    /\ partial' = partial \o [j \in 1 .. k |-> taken + j - 1]

(* It delivers all it was asked for.                                       *)
ReadAll ==
    /\ AskingForBytes
    /\ Arrive(Needed)
    /\ UNCHANGED <<stream, client, state, sentFatalAlert, call, processed, result,
                   writeVars, readSeq, buffered, got>>

(* It delivers fewer, and blocks.                                          *)
ReadBlocks ==
    /\ AskingForBytes
    /\ \E k \in 0 .. Needed - 1 : Arrive(k)
    /\ Return("wouldBlock", processed)
    /\ UNCHANGED <<stream, client, state, sentFatalAlert, writeVars, readSeq,
                   buffered, got>>

(* SSLFatalSessionAlert, and the return of SSLRead with the error.         *)
FatalSessionAlert(err) ==
    /\ state' = "ErrorClose"
    /\ SendLastAlert
    /\ Return(err, processed)

(* It finds the connection closed, perhaps after some bytes; they are not  *)
(* counted in amountRead.                                                  *)
ReadCloses(some) ==
    LET boundary == partial = <<>> /\ ~some
    IN  /\ AskingForBytes
        /\ some => Available > 0 /\ Needed > 1
        /\ \/ /\ ~HeaderRead /\ boundary /\ client
              /\ state' = "NoNotifyClose"
              /\ Return("closedNoNotify", processed)
              /\ UNCHANGED <<sentFatalAlert, queue, nextWire>>
           \/ /\ ~HeaderRead /\ ~(boundary /\ client)
              /\ FatalSessionAlert("closedAbort")
           \/ /\ HeaderRead
              /\ FatalSessionAlert("closedGraceful")
        /\ UNCHANGED <<stream, client, wire, accepted, peerGot, readVars>>

ReadFails ==
    /\ AskingForBytes
    /\ FatalSessionAlert("ioErr")
    /\ UNCHANGED <<stream, client, wire, accepted, peerGot, readVars>>

(* A content type that is not one of SSL 3.0, or a length longer than any  *)
(* record's or shorter than its MAC.                                       *)
RefuseHeader ==
    /\ ReadingRecord /\ HeaderRefused
    /\ \/ /\ Decoded.type = "badType"
          /\ state' = "ErrorClose" /\ Return("protocol", processed)
          /\ UNCHANGED <<sentFatalAlert, queue, nextWire>>
       \/ /\ Decoded.type = "badLength"
          /\ \E err \in {"protocol", "closedAbort"} : FatalSessionAlert(err)
    /\ UNCHANGED <<stream, client, wire, accepted, peerGot, readVars>>

(* decryptRecord: the MAC is over this record's bytes and the sequence     *)
(* number the reader expects.                                              *)
Verifies(r) == r.seq = readSeq /\ Holds(Header + r.size, r.start)

DecryptFails ==
    /\ ReadingRecord /\ RecordRead /\ ~Verifies(Decoded)
    /\ FatalSessionAlert("protocol")
    /\ UNCHANGED <<stream, client, wire, accepted, peerGot, readVars>>

RecordAccepted(type) ==
    /\ ReadingRecord /\ RecordRead /\ Verifies(Decoded)
    /\ Decoded.type = type
    /\ readSeq' = readSeq + 1
    /\ partial' = <<>>

ReturnAlways(n) == Return("noErr", n)

(* The end of SSLRead: it starts again if it has nothing to return.        *)
ReturnOrRetry(n) ==
    IF n = 0 THEN Goto("flush") /\ processed' = 0 /\ UNCHANGED result
             ELSE Return("noErr", n)

ReadDataDropsRest ==
    LET c == Contents(Decoded)
        n == Smaller(c.to - c.from, call.want - processed)
    IN  /\ RecordAccepted("data")
        /\ Deliver(c.from, c.from + n)
        /\ buffered' = [from |-> c.to, to |-> c.to]
        /\ ReturnOrRetry(processed + n)
        /\ UNCHANGED <<stream, client, state, sentFatalAlert, writeVars, taken>>

ReadData ==
    LET c == Contents(Decoded)
        n == Smaller(c.to - c.from, call.want - processed)
    IN  /\ RecordAccepted("data")
        /\ Deliver(c.from, c.from + n)
        /\ buffered' = [from |-> c.from + n, to |-> c.to]
        /\ ReturnOrRetry(processed + n)
        /\ UNCHANGED <<stream, client, state, sentFatalAlert, writeVars, taken>>

ReadWarning ==
    /\ RecordAccepted("warning")
    /\ ReturnOrRetry(processed)
    /\ UNCHANGED <<stream, client, state, sentFatalAlert, writeVars, taken,
                   buffered, got>>

ReadFatal ==
    /\ RecordAccepted("fatal")
    /\ state' = "ErrorClose" /\ Return("peerFatal", processed)
    /\ UNCHANGED <<stream, client, sentFatalAlert, writeVars, taken, buffered, got>>

(* SSLProcessAlert answers a close_notify with SSLClose.                   *)
ReadCloseNotify ==
    /\ RecordAccepted("closeNotify")
    /\ SendLastAlert
    /\ Goto("closing")
    /\ UNCHANGED <<stream, client, state, processed, result, wire, accepted, peerGot, taken,
                   buffered, got>>

-------------------------------------------------------------------------------
ReadSteps == \/ CopyBuffered \/ ReadAll \/ RefuseHeader \/ DecryptFails
             \/ ReadData \/ ReadWarning \/ ReadFatal \/ ReadCloseNotify

Partial ==
    \/ \E err \in WriteErrors \cup {"wouldBlock"} : WritePart(err)
    \/ \E some \in BOOLEAN : ReadCloses(some)
    \/ ReadBlocks \/ ReadFails

Next == \/ \E n \in WriteSizes : CallWrite(n)
        \/ \E n \in ReadSizes : CallRead(n)
        \/ CallClose
        \/ QueueEmpty \/ WriteAll \/ Package
        \/ ReadSteps
        \/ Partial

Spec == Init /\ [][Next]_vars

-------------------------------------------------------------------------------
Chunks == [from : Nat, to : Nat]
QueuedRecords == [start : Nat, length : Nat, sent : Nat, from : Nat, to : Nat]

(* The type of every variable.                                             *)
TypeOK ==
    /\ stream \in Streams
    /\ client \in BOOLEAN
    /\ state \in States
    /\ sentFatalAlert \in BOOLEAN
    /\ call \in Calls
    /\ processed \in Nat
    /\ result \in [err : Errors, n : Nat]
    /\ queue \in Seq(QueuedRecords)
    /\ nextWire \in Nat /\ wire \in Nat \cup {Garbled}
    /\ accepted \in Nat /\ peerGot \in Nat \cup {Garbled}
    /\ partial \in Seq(Nat) /\ taken \in Nat /\ readSeq \in Nat
    /\ buffered \in Chunks /\ got \in Nat \cup {Garbled}

(* Whatever the transport splits, blocks, repeats or drops, and wherever a *)
(* call of SSLRead or SSLWrite has to be made again, every byte comes out  *)
(* in its place: the bytes of the records go to the transport in order,    *)
(* the data in them is what SSLWrite reported written and each byte of it  *)
(* once, and SSLRead delivers the peer's data without a gap or a repeat.   *)
InOrder == wire # Garbled /\ peerGot # Garbled /\ got # Garbled

Honest == \A i \in 1 .. Len(stream.recs) :
              /\ stream.recs[i].seq = i - 1
              /\ stream.recs[i].type \in {"data", "warning", "closeNotify", "fatal"}

(* However the transport cuts up the bytes of a peer that writes correct   *)
(* records, SSLReadRecord puts the records together again: SSLRead never   *)
(* fails with errSSLProtocol or with an error of decryptRecord.            *)
HonestPeerAccepted == Honest => result.err # "protocol"

(* SSLGetBufferedReadSize: "how much data the client can be guaranteed to  *)
(* obtain via SSLRead() without blocking or causing any low-level read".   *)
(* A call for no more than that reaches no read callback, and one that the *)
(* write queue does not stop at its start returns at least that much of    *)
(* what it asked for, however it ends.                                     *)
BufferedGuarantee ==
    [][/\ ReadingRecord => call.want > call.had
       /\ (call.op = "read" /\ call' = Idle /\ call.at # "flush")
             => result'.n >= Smaller(call.want, call.had)]_vars

(* SSLRead returns noErr with data, and never with more than was asked     *)
(* for; with none only if none was asked for.                              *)
ReadReturnsData ==
    [][(call.op = "read" /\ call' = Idle)
         => /\ result'.n =< call.want
            /\ result'.err = "noErr" => (result'.n > 0 \/ call.want = 0)]_vars

(* The endpoint's two directions are the byte streams of ByteStream.       *)
BS == INSTANCE ByteStream WITH
        offered <- stream.pos[stream.top], transmitted <- peerGot,
        received <- got, closed <- state # "Ready"

ImplementsByteStream == BS!Spec

-------------------------------------------------------------------------------
(***************************************************************************)
(* Fairness.  The application keeps calling SSLRead, and once the          *)
(* connection is closed SSLClose; the library's own steps are taken; a     *)
(* transport that is asked again and again for bytes it has, or to take    *)
(* bytes, in the end does so.                                              *)
(***************************************************************************)
Fairness ==
    /\ SF_vars(\E n \in ReadSizes \ {0} : state = "Ready" /\ CallRead(n))
    /\ SF_vars(state # "Ready" /\ CallClose)
    /\ WF_vars(QueueEmpty \/ Package \/ ReadSteps \/ Partial)
    /\ SF_vars(WriteAll)
    /\ SF_vars(ReadAll)

LiveSpec == Spec /\ Fairness

(* Every byte the peer wrote is delivered unless the connection is closed. *)
EverythingDelivered ==
    Honest => <>(got = stream.pos[stream.top] \/ state # "Ready")

(* Every byte SSLWrite reported written goes out, unless the connection is *)
(* closed: an application that only reads still empties the write queue.   *)
EverythingTransmitted ==
    accepted > peerGot ~> (peerGot = accepted \/ state # "Ready")

(* A closed connection drains: SSLClose called until it has nothing to do  *)
(* sends what was accepted before and the alert that ends the connection.  *)
ClosedDrains == state # "Ready" ~> queue = <<>>

===============================================================================
