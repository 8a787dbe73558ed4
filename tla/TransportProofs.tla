--------------------------- MODULE TransportProofs ---------------------------
(***************************************************************************)
(* Proofs about Transport for every set of streams, every record size and  *)
(* every size of the application's reads and writes: the inductive         *)
(* invariant, that both directions stay in order, what SSLRead and         *)
(* SSLGetBufferedReadSize promise, that Transport implements ByteStream,   *)
(* and that an honest peer is never refused.                               *)
(***************************************************************************)
EXTENDS Transport, TLAPS

(* Where a call can be, and what it knows there.                           *)
CallInv ==
    /\ call.op = "none" <=> call = Idle
    /\ call.op = "write" => call.at \in {"flush", "package", "flushAgain"}
    /\ call.op = "read" => call.at \in {"flush", "copy", "record", "closing"}
    /\ call.op = "close" => call.at = "flush"
    /\ call.op \in {"read", "write"} => state = "Ready"
    /\ call.op = "write" => call.want > 0
    /\ call.at \in {"idle", "flush", "copy"} => processed = 0
    /\ call.at = "package" => processed < call.want
    /\ call.at = "flushAgain" => processed = call.want

(* The data in the records written, the ones of a call that has not set    *)
(* *bytesWritten included.                                                 *)
DataEnd == IF call.at = "package" THEN accepted + processed ELSE accepted

(* The records of the queue follow each other, in bytes and in data, from  *)
(* where the transport is to where the next record starts; only the first  *)
(* is partly sent.                                                         *)
QueueInv ==
    /\ \A i \in 1 .. Len(queue) :
          /\ queue[i].sent < queue[i].length
          /\ queue[i].from =< queue[i].to
          /\ queue[i].to =< DataEnd
          /\ i > 1 => queue[i].sent = 0
          /\ i < Len(queue) => /\ queue[i + 1].start = queue[i].start + queue[i].length
                               /\ queue[i + 1].from = queue[i].to
          /\ i = Len(queue) => /\ nextWire = queue[i].start + queue[i].length
                               /\ DataEnd = queue[i].to
    /\ queue = <<>> => wire = nextWire /\ peerGot = DataEnd
    /\ queue # <<>> => /\ wire = queue[1].start + queue[1].sent
                       /\ peerGot = queue[1].from

(* The data delivered and the data buffered end where the next record the  *)
(* reader expects begins.                                                  *)
ReadInv ==
    /\ readSeq =< stream.top
    /\ got = buffered.from
    /\ buffered.from =< buffered.to
    /\ buffered.to = stream.pos[readSeq]

(* What a call of SSLRead has done of what was buffered when it began.     *)
PromiseInv ==
    /\ (call.op = "read" /\ call.at \in {"flush", "copy"}) => call.had =< BufferedReadSize
    /\ call.at \in {"record", "closing"} => /\ BufferedReadSize = 0
                                            /\ call.had =< processed
                                            /\ processed < call.want

Inv == TypeOK /\ CallInv /\ QueueInv /\ ReadInv /\ PromiseInv

-------------------------------------------------------------------------------
(* What the assumption says of the stream of a behaviour.                  *)
LEMMA StreamFacts ==
    ASSUME stream \in Streams
    PROVE  /\ stream.top \in Nat
           /\ stream.pos \in [0 .. stream.top -> Nat]
           /\ stream.pos[0] = 0
           /\ \A m, n \in 0 .. stream.top : m =< n => stream.pos[m] =< stream.pos[n]
           /\ stream.recs \in Seq(StreamRecords)
           /\ Len(stream.recs) \in Nat
           /\ \A i \in 1 .. Len(stream.recs) :
                 /\ stream.recs[i] \in StreamRecords
                 /\ stream.recs[i].seq < stream.top
                 /\ stream.recs[i].type # "data" =>
                      stream.pos[stream.recs[i].seq + 1] = stream.pos[stream.recs[i].seq]
                 /\ i = 1 => stream.recs[i].start = 0
                 /\ i > 1 => stream.recs[i].start =
                               stream.recs[i - 1].start + Header + stream.recs[i - 1].size
                 /\ \A j \in 1 .. i - 1 : stream.recs[j].start < stream.recs[i].start
BY StreamsAssumption

(* A header that is not refused is the header of a record of the stream.   *)
LEMMA DecodedRecord ==
    ASSUME stream \in Streams
    PROVE  /\ Decoded \in StreamRecords
           /\ Decoded.type # "badType" =>
                \E i \in 1 .. Len(stream.recs) : /\ Decoded = stream.recs[i]
                                                 /\ Holds(Header, stream.recs[i].start)
<1>1. CASE \E i \in 1 .. Len(stream.recs) : Holds(Header, stream.recs[i].start)
  <2> DEFINE c == CHOOSE i \in 1 .. Len(stream.recs) : Holds(Header, stream.recs[i].start)
  <2>1. c \in 1 .. Len(stream.recs) /\ Holds(Header, stream.recs[c].start)
    BY <1>1, Zenon
  <2>2. Decoded = stream.recs[c]
    BY <1>1, Zenon DEF Decoded
  <2> HIDE DEF c
  <2> QED  BY <2>1, <2>2, StreamFacts, Zenon
<1>2. CASE ~ \E i \in 1 .. Len(stream.recs) : Holds(Header, stream.recs[i].start)
  <2>1. Decoded = NoRecord
    BY <1>2, Zenon DEF Decoded
  <2> QED  BY <2>1, Zenon DEF NoRecord, StreamRecords, RecordTypes
<1> QED  BY <1>1, <1>2, Zenon

(* An accepted record carries the data from where the reader is.           *)
LEMMA AcceptedContents ==
    ASSUME TypeOK, ReadInv, NEW type, type # "badType", RecordAccepted(type)
    PROVE  /\ readSeq' \in Nat /\ readSeq' = readSeq + 1 /\ readSeq' =< stream.top
           /\ Contents(Decoded).from = buffered.to
           /\ Contents(Decoded).from \in Nat /\ Contents(Decoded).to \in Nat
           /\ Contents(Decoded).from =< Contents(Decoded).to
           /\ Contents(Decoded).to = stream.pos[readSeq']
           /\ type # "data" => stream.pos[readSeq'] = buffered.to
<1>1. PICK i \in 1 .. Len(stream.recs) : Decoded = stream.recs[i]
  BY DecodedRecord, Zenon DEF RecordAccepted, TypeOK
<1>2. /\ Decoded \in StreamRecords /\ Decoded.seq = readSeq /\ Decoded.type = type
      /\ Decoded.seq < stream.top
      /\ type # "data" => stream.pos[Decoded.seq + 1] = stream.pos[Decoded.seq]
  BY <1>1, StreamFacts, DecodedRecord, Zenon DEF RecordAccepted, Verifies, TypeOK
<1>3. /\ stream.pos[readSeq] \in Nat /\ stream.pos[readSeq + 1] \in Nat
      /\ stream.pos[readSeq] =< stream.pos[readSeq + 1]
  <2>1. readSeq \in 0 .. stream.top - 1 /\ readSeq + 1 \in 0 .. stream.top
    BY <1>2, StreamFacts DEF TypeOK
  <2>2. /\ stream.top \in Nat
        /\ stream.pos \in [0 .. stream.top -> Nat]
        /\ \A m, n \in 0 .. stream.top : m =< n => stream.pos[m] =< stream.pos[n]
    BY StreamFacts, Zenon DEF TypeOK
  <2>3. readSeq \in 0 .. stream.top
    BY <2>1, <2>2
  <2>4. stream.pos[readSeq] \in Nat
    BY <2>2, <2>3, Zenon
  <2>5. stream.pos[readSeq + 1] \in Nat
    BY <2>2, <2>1, Zenon
  <2>6. stream.pos[readSeq] =< stream.pos[readSeq + 1]
    <3>1. readSeq =< readSeq + 1
      BY <2>1
    <3>. QED  BY <2>1, <2>2, <2>3, <3>1, Zenon
  <2> QED  BY <2>4, <2>5, <2>6, Zenon
<1> QED  BY <1>2, <1>3, StreamFacts DEF RecordAccepted, Contents, ReadInv, TypeOK, Chunks

-------------------------------------------------------------------------------
(* The write queue.                                                        *)

(* A record put at the tail keeps the queue in order.                      *)
LEMMA EnqueueStep ==
    ASSUME TypeOK, QueueInv, NEW n \in Nat, NEW length \in Nat,
           queue' = Written(DataEnd, DataEnd + n, length),
           nextWire' = nextWire + Header + length + Overhead,
           DataEnd' = DataEnd + n,
           UNCHANGED <<wire, peerGot>>
    PROVE  queue' \in Seq(QueuedRecords) /\ nextWire' \in Nat /\ QueueInv'
<1> DEFINE rec == [start |-> nextWire, length |-> Header + length + Overhead,
                   sent |-> 0, from |-> DataEnd, to |-> DataEnd + n]
<1>1. DataEnd \in Nat /\ nextWire \in Nat /\ Overhead \in Nat /\ Header = 5
  BY SizesAssumption DEF TypeOK, DataEnd, Header
<1>2. queue \in Seq(QueuedRecords) /\ queue' = Append(queue, rec)
  BY Zenon DEF Written, TypeOK
<1>3. rec \in QueuedRecords /\ rec.start = nextWire /\ rec.from = DataEnd
      /\ rec.to = DataEnd + n /\ rec.sent = 0 /\ rec.length = 5 + length + Overhead
  BY <1>1 DEF QueuedRecords
<1> HIDE DEF rec
<1>4. /\ queue' \in Seq(QueuedRecords) /\ Len(queue') = Len(queue) + 1
      /\ Len(queue) \in Nat
      /\ \A i \in 1 .. Len(queue) : queue'[i] = queue[i]
      /\ queue'[Len(queue) + 1] = rec
  <2>1. rec \in QueuedRecords /\ Len(queue) \in Nat
    BY <1>2, <1>3
  <2>2. Append(queue, rec) \in Seq(QueuedRecords)
    BY <1>2, <2>1
  <2>3. /\ Len(Append(queue, rec)) = Len(queue) + 1
        /\ \A i \in 1 .. Len(queue) : Append(queue, rec)[i] = queue[i]
        /\ Append(queue, rec)[Len(queue) + 1] = rec
    BY <1>2, <2>1
  <2> QED  BY <1>2, <2>1, <2>2, <2>3, Zenon
<1>5. ASSUME NEW i \in 1 .. Len(queue')
      PROVE  /\ queue'[i].sent < queue'[i].length
             /\ queue'[i].from =< queue'[i].to
             /\ queue'[i].to =< DataEnd'
             /\ i > 1 => queue'[i].sent = 0
             /\ i < Len(queue') => /\ queue'[i + 1].start = queue'[i].start + queue'[i].length
                                  /\ queue'[i + 1].from = queue'[i].to
             /\ i = Len(queue') => /\ nextWire' = queue'[i].start + queue'[i].length
                                  /\ DataEnd' = queue'[i].to
  <2>1. CASE i = Len(queue) + 1
    <3>1. queue'[i] = rec /\ i = Len(queue') /\ ~(i < Len(queue'))
      BY <1>4, <2>1
    <3>2. /\ rec.sent < rec.length /\ rec.from =< rec.to /\ rec.to =< DataEnd'
          /\ nextWire' = rec.start + rec.length /\ DataEnd' = rec.to
      BY <1>1, <1>3
    <3> QED  BY <1>3, <3>1, <3>2, Zenon
  <2>2. CASE i = Len(queue)
    BY <1>1, <1>3, <1>4, <2>2 DEF QueueInv
  <2>3. CASE i < Len(queue)
    <3>1. i \in 1 .. Len(queue) /\ i + 1 \in 1 .. Len(queue) /\ i # Len(queue')
      BY <1>4, <2>3
    <3>2. queue'[i] = queue[i] /\ queue'[i + 1] = queue[i + 1]
      BY <1>4, <3>1, Zenon
    <3>3. queue[i].to =< DataEnd /\ queue[i].to \in Nat
      <4>1. queue[i] \in QueuedRecords
        BY <1>2, <3>1
      <4> QED  BY <3>1, <4>1, Zenon DEF QueueInv, QueuedRecords
    <3>4. queue[i].to =< DataEnd'
      BY <1>1, <3>3
    <3> QED  BY <2>3, <3>1, <3>2, <3>4, Zenon DEF QueueInv
  <2> QED  BY <1>4, <2>1, <2>2, <2>3
<1>6. /\ queue' # <<>>
      /\ wire' = queue'[1].start + queue'[1].sent
      /\ peerGot' = queue'[1].from
  <2>1. CASE queue = <<>>
    BY <1>1, <1>3, <1>4, <2>1 DEF QueueInv
  <2>2. CASE queue # <<>>
    <3>1. 1 \in 1 .. Len(queue) /\ queue' # <<>>
      BY <1>2, <1>4, <2>2
    <3> QED  BY <1>4, <2>2, <3>1, Zenon DEF QueueInv
  <2> QED  BY <2>1, <2>2, Zenon
<1>7. nextWire' \in Nat
  BY <1>1
<1> QED  BY <1>4, <1>5, <1>6, <1>7, Zenon DEF QueueInv

(* The last alert.                                                         *)
LEMMA AlertStep ==
    ASSUME TypeOK, QueueInv, SendLastAlert, DataEnd = accepted, DataEnd' = DataEnd,
           UNCHANGED <<wire, peerGot>>
    PROVE  /\ queue' \in Seq(QueuedRecords) /\ nextWire' \in Nat /\ QueueInv'
           /\ sentFatalAlert' \in BOOLEAN
<1>1. CASE sentFatalAlert
  BY <1>1, Zenon DEF SendLastAlert, QueueInv, TypeOK
<1>2. CASE ~sentFatalAlert
  <2>1. /\ queue' = Written(DataEnd, DataEnd + 0, AlertLength)
        /\ nextWire' = nextWire + Header + AlertLength + Overhead
        /\ DataEnd' = DataEnd + 0 /\ AlertLength \in Nat
    BY <1>2 DEF SendLastAlert, AlertLength, TypeOK
  <2>2. queue' \in Seq(QueuedRecords) /\ nextWire' \in Nat /\ QueueInv'
    BY <2>1, EnqueueStep, Zenon
  <2> QED  BY <2>2, Zenon DEF SendLastAlert
<1> QED  BY <1>1, <1>2, Zenon DEF TypeOK

(* The transport takes k bytes of the first record.                        *)
LEMMA TransmittedStep ==
    ASSUME TypeOK, QueueInv, queue # <<>>, NEW k \in Nat, k =< Unsent, Transmitted(k)
    PROVE  /\ queue[1] \in QueuedRecords /\ Unsent \in Nat /\ Unsent > 0
           /\ wire' = wire + k
           /\ wire = queue[1].start + queue[1].sent
<1>1. queue[1] \in QueuedRecords /\ 1 \in 1 .. Len(queue)
  BY DEF TypeOK
<1>2. /\ queue[1].sent \in Nat /\ queue[1].length \in Nat /\ queue[1].start \in Nat
      /\ queue[1].sent < queue[1].length
      /\ wire = queue[1].start + queue[1].sent
  BY <1>1, Zenon DEF QueueInv, QueuedRecords
<1> QED  BY <1>1, <1>2 DEF Transmitted, Take, Unsent

(* A record sent completely leaves the queue.                              *)
LEMMA DequeueStep ==
    ASSUME Inv, WriteAll
    PROVE  /\ queue' \in Seq(QueuedRecords) /\ wire' \in Nat /\ peerGot' \in Nat
           /\ QueueInv'
<1>1. /\ queue # <<>> /\ queue' = Tail(queue) /\ Transmitted(Unsent)
      /\ queue \in Seq(QueuedRecords)
      /\ peerGot' = Take(peerGot, queue[1].from, queue[1].to)
      /\ UNCHANGED <<call, processed, accepted, nextWire>>
  BY Zenon DEF WriteAll, Inv, TypeOK
<1>2. /\ queue[1] \in QueuedRecords /\ Unsent \in Nat
      /\ wire' = wire + Unsent /\ wire = queue[1].start + queue[1].sent
  <2>1. Unsent \in Nat
    <3>1. queue[1] \in QueuedRecords /\ 1 \in 1 .. Len(queue)
      BY <1>1
    <3> QED  BY <3>1 DEF Unsent, QueuedRecords, Inv, QueueInv
  <2> QED  BY <1>1, <2>1, TransmittedStep DEF Inv
<1>3. /\ queue[1].sent \in Nat /\ queue[1].length \in Nat /\ queue[1].start \in Nat
      /\ queue[1].from \in Nat /\ queue[1].to \in Nat
      /\ wire' = queue[1].start + queue[1].length
  BY <1>2 DEF QueuedRecords, Unsent
<1>4. peerGot' = queue[1].to
  BY <1>1, <1>3, Zenon DEF Take, Inv, QueueInv
<1>5. /\ Len(queue) \in Nat /\ Len(queue) > 0
      /\ queue' \in Seq(QueuedRecords)
      /\ Len(queue') = Len(queue) - 1
      /\ \A i \in 1 .. Len(queue) - 1 : queue'[i] = queue[i + 1]
  BY <1>1
<1>6. DataEnd' = DataEnd
  BY <1>1, Zenon DEF DataEnd
<1>7. CASE Len(queue) = 1
  <2>1. queue' = <<>>
    BY <1>5, <1>7
  <2>2. nextWire = queue[1].start + queue[1].length /\ DataEnd = queue[1].to
    BY <1>7 DEF Inv, QueueInv
  <2>3. wire' = nextWire' /\ peerGot' = DataEnd' /\ wire' \in Nat /\ peerGot' \in Nat
    BY <1>1, <1>3, <1>4, <1>6, <2>2, SMTT(30)
  <2>4. \A i \in 1 .. Len(queue') : FALSE
    BY <1>5, <1>7
  <2> QED  BY <1>5, <2>1, <2>3, <2>4, Zenon DEF QueueInv
<1>8. CASE Len(queue) > 1
  <2>1. /\ queue' # <<>> /\ queue'[1] = queue[2]
        /\ queue[2].start = queue[1].start + queue[1].length
        /\ queue[2].from = queue[1].to /\ queue[2].sent = 0
        /\ queue[2] \in QueuedRecords
    <3>1. 1 \in 1 .. Len(queue) - 1 /\ 1 \in 1 .. Len(queue) /\ 2 \in 1 .. Len(queue)
      BY <1>5, <1>8
    <3>2. queue' # <<>>
      BY <1>5, <1>8
    <3>3. queue'[1] = queue[1 + 1] /\ 1 + 1 = 2
      BY <1>5, <3>1
    <3>4. queue[2] \in QueuedRecords
      BY <1>1, <3>1
    <3> QED  BY <1>8, <3>1, <3>2, <3>3, <3>4 DEF Inv, QueueInv
  <2>2. wire' = queue'[1].start + queue'[1].sent /\ peerGot' = queue'[1].from
    BY <1>3, <1>4, <2>1 DEF QueuedRecords
  <2>3. ASSUME NEW i \in 1 .. Len(queue')
        PROVE  /\ queue'[i].sent < queue'[i].length
               /\ queue'[i].from =< queue'[i].to
               /\ queue'[i].to =< DataEnd'
               /\ i > 1 => queue'[i].sent = 0
               /\ i < Len(queue') => /\ queue'[i + 1].start = queue'[i].start + queue'[i].length
                                    /\ queue'[i + 1].from = queue'[i].to
               /\ i = Len(queue') => /\ nextWire' = queue'[i].start + queue'[i].length
                                    /\ DataEnd' = queue'[i].to
    <3>1. /\ i + 1 \in 1 .. Len(queue) /\ queue'[i] = queue[i + 1]
          /\ i < Len(queue') <=> i + 1 < Len(queue)
          /\ i = Len(queue') <=> i + 1 = Len(queue)
      BY <1>5
    <3>2. i < Len(queue') => i + 1 \in 1 .. Len(queue) - 1 /\ queue'[i + 1] = queue[(i + 1) + 1]
      BY <1>5, <3>1
    <3>3. /\ queue[i + 1].sent < queue[i + 1].length
          /\ queue[i + 1].from =< queue[i + 1].to
          /\ queue[i + 1].to =< DataEnd
          /\ i + 1 > 1 => queue[i + 1].sent = 0
          /\ i + 1 < Len(queue) =>
               /\ queue[(i + 1) + 1].start = queue[i + 1].start + queue[i + 1].length
               /\ queue[(i + 1) + 1].from = queue[i + 1].to
          /\ i + 1 = Len(queue) => /\ nextWire = queue[i + 1].start + queue[i + 1].length
                                  /\ DataEnd = queue[i + 1].to
      BY <3>1, Zenon DEF Inv, QueueInv
    <3> QED  BY <1>1, <1>6, <3>1, <3>2, <3>3
  <2>4. wire' \in Nat /\ peerGot' \in Nat
    BY <1>3, <1>4
  <2> QED  BY <1>5, <2>1, <2>2, <2>3, <2>4, Zenon DEF QueueInv
<1> QED  BY <1>5, <1>7, <1>8

(* A record sent partly stays at the head.                                 *)
LEMMA PartStep ==
    ASSUME Inv, queue # <<>>, NEW k \in 0 .. Unsent - 1, Transmitted(k),
           queue' = [queue EXCEPT ![1].sent = @ + k],
           DataEnd' = DataEnd, UNCHANGED <<nextWire, peerGot>>
    PROVE  queue' \in Seq(QueuedRecords) /\ wire' \in Nat /\ QueueInv'
<1>1. queue[1] \in QueuedRecords /\ 1 \in 1 .. Len(queue) /\ queue \in Seq(QueuedRecords)
  BY DEF Inv, TypeOK
<1>2. /\ queue[1].sent \in Nat /\ queue[1].length \in Nat /\ queue[1].start \in Nat
      /\ Unsent = queue[1].length - queue[1].sent
      /\ queue[1].sent < queue[1].length
  BY <1>1, Zenon DEF QueuedRecords, Unsent, Inv, QueueInv
<1>3. k \in Nat /\ k < Unsent /\ k =< Unsent
  BY <1>2
<1>4. /\ wire' = wire + k /\ wire = queue[1].start + queue[1].sent
  BY <1>3, TransmittedStep, Zenon DEF Inv
<1> DEFINE head == [queue[1] EXCEPT !.sent = @ + k]
<1>5. /\ head \in QueuedRecords /\ head.sent = queue[1].sent + k
      /\ head.start = queue[1].start /\ head.length = queue[1].length
      /\ head.from = queue[1].from /\ head.to = queue[1].to
      /\ head.sent < head.length
  <2>1. /\ head.sent = queue[1].sent + k
        /\ head.start = queue[1].start /\ head.length = queue[1].length
        /\ head.from = queue[1].from /\ head.to = queue[1].to
    BY <1>1, Zenon DEF QueuedRecords
  <2>2. queue[1].sent + k \in Nat /\ queue[1].sent + k < queue[1].length
    BY <1>2, <1>3
  <2>3. head \in QueuedRecords
    BY <1>1, <2>2, Zenon DEF QueuedRecords
  <2> QED  BY <2>1, <2>2, <2>3, Zenon
<1>6. queue' = [queue EXCEPT ![1] = head]
  BY Zenon
<1> HIDE DEF head
<1>7. /\ queue' \in Seq(QueuedRecords) /\ Len(queue') = Len(queue) /\ Len(queue) \in Nat
      /\ queue'[1] = head
      /\ \A i \in 1 .. Len(queue) : i # 1 => queue'[i] = queue[i]
  BY <1>1, <1>5, <1>6
<1>8. ASSUME NEW i \in 1 .. Len(queue')
      PROVE  /\ queue'[i].sent < queue'[i].length
             /\ queue'[i].from =< queue'[i].to
             /\ queue'[i].to =< DataEnd'
             /\ i > 1 => queue'[i].sent = 0
             /\ i < Len(queue') => /\ queue'[i + 1].start = queue'[i].start + queue'[i].length
                                  /\ queue'[i + 1].from = queue'[i].to
             /\ i = Len(queue') => /\ nextWire' = queue'[i].start + queue'[i].length
                                  /\ DataEnd' = queue'[i].to
  <2>1. i \in 1 .. Len(queue) /\ (i < Len(queue') <=> i < Len(queue))
    BY <1>7, Zenon
  <2>2. i < Len(queue) => i + 1 \in 1 .. Len(queue) /\ queue'[i + 1] = queue[i + 1]
    BY <1>7, <2>1
  <2>3. /\ queue'[i].start = queue[i].start /\ queue'[i].length = queue[i].length
        /\ queue'[i].from = queue[i].from /\ queue'[i].to = queue[i].to
        /\ i # 1 => queue'[i].sent = queue[i].sent
        /\ i = 1 => queue'[i].sent < queue'[i].length
    BY <1>5, <1>7, <2>1, Zenon
  <2> QED  BY <1>7, <2>1, <2>2, <2>3 DEF Inv, QueueInv
<1>9. queue' # <<>> /\ wire' = queue'[1].start + queue'[1].sent /\ peerGot' = queue'[1].from
  BY <1>1, <1>2, <1>3, <1>4, <1>5, <1>7 DEF Inv, QueueInv
<1>10. wire' \in Nat
  BY <1>2, <1>3, <1>4
<1> QED  BY <1>7, <1>8, <1>9, <1>10, Zenon DEF QueueInv

(* What a caller of SSLServiceWriteQueue does next.                        *)
LEMMA AfterFlushStep ==
    ASSUME Inv, NEW err \in WriteErrors \cup {"noErr", "wouldBlock"}, Flushing, AfterFlush(err),
           UNCHANGED <<accepted, buffered>>
    PROVE  /\ state' \in States /\ call' \in Calls /\ processed' \in Nat
           /\ result' \in [err : Errors, n : Nat]
           /\ CallInv' /\ PromiseInv' /\ DataEnd' = DataEnd
<1> USE DEF Calls, Points, States, Errors, Idle, WriteErrors
<1>1. state \in States /\ call \in Calls /\ processed \in Nat /\ accepted \in Nat
  BY Zenon DEF Inv, TypeOK
<1>2. CASE call.op = "write" /\ call.at = "flush"
  <2>1. processed = 0 /\ call.want > 0 /\ state = "Ready" /\ state' = state
    BY <1>1, <1>2, Zenon DEF Inv, CallInv, AfterFlush
  <2>2. CASE err = "noErr"
    <3>1. call' = [call EXCEPT !.at = "package"] /\ UNCHANGED <<processed, result>>
      BY <1>2, <2>2, Zenon DEF AfterFlush, Goto
    <3>2. /\ call' \in Calls /\ call'.op = "write" /\ call'.at = "package"
          /\ call'.want = call.want
      BY <1>1, <1>2, <3>1, Zenon
    <3>3. call' # Idle /\ DataEnd' = DataEnd
      BY <1>1, <1>2, <2>1, <3>1, <3>2 DEF DataEnd
    <3> QED  BY <1>1, <2>1, <3>1, <3>2, <3>3, Zenon DEF Inv, TypeOK, CallInv, PromiseInv
  <2>3. CASE err # "noErr"
    BY <1>1, <1>2, <2>1, <2>3 DEF AfterFlush, Return, CallInv, PromiseInv, DataEnd
  <2> QED  BY <2>2, <2>3, Zenon
<1>3. CASE call.op = "write" /\ call.at = "flushAgain"
  BY <1>1, <1>3 DEF Inv, AfterFlush, Goto, Return, CallInv, PromiseInv, DataEnd
<1>4. CASE call.op = "read" /\ call.at = "flush"
  <2>1. CASE err \notin WriteErrors
    <3>1. call' = [call EXCEPT !.at = "copy"] /\ UNCHANGED <<state, processed, result>>
      BY <1>4, <2>1, Zenon DEF AfterFlush, Goto
    <3>2. /\ call' \in Calls /\ call'.op = "read" /\ call'.at = "copy"
          /\ call'.want = call.want /\ call'.had = call.had
      BY <1>1, <1>4, <3>1, Zenon
    <3>3. call' # Idle /\ DataEnd' = DataEnd
      BY <1>1, <1>4, <3>1, <3>2, Zenon DEF DataEnd
    <3> QED  BY <1>1, <1>4, <3>1, <3>2, <3>3, Zenon
             DEF Inv, TypeOK, CallInv, PromiseInv, BufferedReadSize
  <2>2. CASE err \in WriteErrors
    BY <1>1, <1>4, <2>2 DEF AfterFlush, Return, CallInv, PromiseInv, DataEnd
  <2> QED  BY <2>1, <2>2, Zenon
<1>5. CASE call.op = "read" /\ call.at = "closing"
  BY <1>1, <1>5 DEF Inv, AfterFlush, Goto, Return, CallInv, PromiseInv, DataEnd
<1>6. CASE call.op = "close"
  BY <1>1, <1>6 DEF Inv, AfterFlush, Goto, Return, CallInv, PromiseInv, DataEnd
<1> QED  BY <1>2, <1>3, <1>4, <1>5, <1>6, Zenon DEF AfterFlush

-------------------------------------------------------------------------------
(* Every step keeps the invariant.                                         *)

(* A call returns.                                                         *)
LEMMA ReturnStep ==
    ASSUME NEW err \in Errors, NEW n \in Nat, Return(err, n)
    PROVE  /\ call' \in Calls /\ processed' \in Nat /\ result' \in [err : Errors, n : Nat]
           /\ CallInv' /\ PromiseInv' /\ DataEnd' = accepted'
BY Zenon DEF Return, Idle, Calls, Points, CallInv, PromiseInv, DataEnd

(* Calls begin.                                                            *)
LEMMA BeginStep ==
    ASSUME Inv, NEW op \in {"read", "write", "close"}, NEW n \in Nat, Begin(op, n),
           op # "close" => state = "Ready", op = "write" => n > 0
    PROVE  /\ call' \in Calls /\ processed' \in Nat /\ result' \in [err : Errors, n : Nat]
           /\ CallInv' /\ PromiseInv' /\ ReadInv'
           /\ DataEnd' = DataEnd /\ DataEnd = accepted
<1>1. BufferedReadSize \in Nat
  BY DEF Inv, TypeOK, Chunks, ReadInv, BufferedReadSize
<1>2. /\ call = Idle /\ UNCHANGED <<stream, state, processed, accepted, readVars>>
      /\ call' = [op |-> op, want |-> n, at |-> "flush", had |-> BufferedReadSize]
      /\ result' = NoResult /\ processed = 0
  BY Zenon DEF Begin, Inv, CallInv, Idle
<1>3. /\ call' \in Calls /\ call'.op = op /\ call'.want = n /\ call'.at = "flush"
      /\ call'.had = BufferedReadSize /\ result' \in [err : Errors, n : Nat]
      /\ call' # Idle
  BY <1>1, <1>2, Zenon DEF Calls, Points, NoResult, Errors, Idle
<1>4. BufferedReadSize' = BufferedReadSize
  BY <1>2, Zenon DEF BufferedReadSize, readVars
<1>5. CallInv' /\ PromiseInv'
  BY <1>1, <1>2, <1>3, <1>4 DEF CallInv, PromiseInv
<1>6. ReadInv'
  BY <1>2, Zenon DEF ReadInv, Inv, readVars
<1>7. DataEnd' = DataEnd /\ DataEnd = accepted
  BY <1>2, <1>3, Zenon DEF DataEnd, Idle
<1>8. processed' \in Nat
  BY <1>2, Zenon
<1> QED  BY <1>3, <1>5, <1>6, <1>7, <1>8, Zenon

LEMMA CallSteps ==
    ASSUME Inv, \/ \E n \in WriteSizes : CallWrite(n)
                \/ \E n \in ReadSizes : CallRead(n)
                \/ CallClose
    PROVE  Inv'
<1>1. ASSUME NEW n \in WriteSizes, CallWrite(n), state = "Ready"
      PROVE  Inv'
  <2>1. n \in Nat /\ n > 0
    BY SizesAssumption
  <2>2. Begin("write", n) /\ UNCHANGED <<sentFatalAlert, queue, nextWire>>
    BY <1>1, Zenon DEF CallWrite, Refuse
  <2>3. /\ call' \in Calls /\ processed' \in Nat /\ result' \in [err : Errors, n : Nat]
        /\ CallInv' /\ PromiseInv' /\ ReadInv' /\ DataEnd' = DataEnd
    BY <1>1, <2>1, <2>2, BeginStep, Zenon
  <2>4. QueueInv'
    BY <2>2, <2>3, Zenon DEF Inv, QueueInv, Begin
  <2> QED  BY <2>2, <2>3, <2>4, Zenon DEF Inv, TypeOK, Begin, readVars
<1>2. ASSUME NEW n \in ReadSizes, CallRead(n), state = "Ready"
      PROVE  Inv'
  <2>1. n \in Nat
    BY SizesAssumption, Zenon
  <2>2. Begin("read", n) /\ UNCHANGED <<sentFatalAlert, queue, nextWire>>
    BY <1>2, Zenon DEF CallRead, Refuse
  <2>3. /\ call' \in Calls /\ processed' \in Nat /\ result' \in [err : Errors, n : Nat]
        /\ CallInv' /\ PromiseInv' /\ ReadInv' /\ DataEnd' = DataEnd
    BY <1>2, <2>1, <2>2, BeginStep, Zenon
  <2>4. QueueInv'
    BY <2>2, <2>3, Zenon DEF Inv, QueueInv, Begin
  <2> QED  BY <2>2, <2>3, <2>4, Zenon DEF Inv, TypeOK, Begin, readVars
<1>3. ASSUME NEW err \in Errors, Refuse(err)
      PROVE  Inv'
  <2>1. result' \in [err : Errors, n : Nat]
    BY <1>3, Zenon DEF Refuse
  <2> QED  BY <1>3, <2>1 DEF Refuse, Inv, TypeOK, CallInv, QueueInv, DataEnd, ReadInv,
              PromiseInv, BufferedReadSize, readVars, writeVars
<1>4. CASE CallClose
  <2>1. Begin("close", 0) /\ SendLastAlert
    BY <1>4, Zenon DEF CallClose
  <2>2. /\ call' \in Calls /\ processed' \in Nat /\ result' \in [err : Errors, n : Nat]
        /\ CallInv' /\ PromiseInv' /\ ReadInv' /\ DataEnd' = DataEnd /\ DataEnd = accepted
    BY <2>1, BeginStep, Zenon
  <2>3. UNCHANGED <<wire, peerGot, accepted, stream, client, state, readVars>>
    BY <2>1, Zenon DEF Begin
  <2>4. /\ queue' \in Seq(QueuedRecords) /\ nextWire' \in Nat /\ QueueInv'
        /\ sentFatalAlert' \in BOOLEAN
    BY <2>1, <2>2, <2>3, AlertStep, Zenon DEF Inv
  <2> QED  BY <2>2, <2>3, <2>4, Zenon DEF Inv, TypeOK, readVars
<1>5. state # "Ready" => WriteRefusal \in Errors /\ ReadRefusal \in Errors
  BY Zenon DEF Inv, TypeOK, States, WriteRefusal, ReadRefusal, Errors
<1> QED  BY <1>1, <1>2, <1>3, <1>4, <1>5, Zenon DEF CallWrite, CallRead, Refuse

(* The write queue is serviced and filled.                                 *)
LEMMA WriteSteps ==
    ASSUME Inv, \/ QueueEmpty \/ WriteAll \/ Package
                \/ \E err \in WriteErrors \cup {"wouldBlock"} : WritePart(err)
    PROVE  Inv'
<1>1. CASE QueueEmpty
  <2>1. /\ Flushing /\ AfterFlush("noErr")
        /\ UNCHANGED <<stream, client, sentFatalAlert, writeVars, readVars>>
    BY <1>1, Zenon DEF QueueEmpty
  <2>2. /\ state' \in States /\ call' \in Calls /\ processed' \in Nat
        /\ result' \in [err : Errors, n : Nat]
        /\ CallInv' /\ PromiseInv' /\ DataEnd' = DataEnd
    BY <2>1, AfterFlushStep, Zenon DEF writeVars, readVars
  <2>3. QueueInv' /\ ReadInv'
    BY <2>1, <2>2, Zenon DEF Inv, QueueInv, ReadInv, writeVars, readVars
  <2> QED  BY <2>1, <2>2, <2>3, Zenon DEF Inv, TypeOK, writeVars, readVars
<1>2. CASE WriteAll
  <2>1. UNCHANGED <<stream, client, state, sentFatalAlert, call, processed, result,
                    nextWire, accepted, readVars>>
    BY <1>2, Zenon DEF WriteAll
  <2>2. /\ queue' \in Seq(QueuedRecords) /\ wire' \in Nat /\ peerGot' \in Nat
        /\ QueueInv'
    BY <1>2, DequeueStep, Zenon
  <2>3. CallInv' /\ ReadInv' /\ PromiseInv'
    BY <2>1, Zenon DEF Inv, CallInv, ReadInv, PromiseInv, BufferedReadSize, readVars
  <2> QED  BY <2>1, <2>2, <2>3, Zenon DEF Inv, TypeOK, readVars
<1>3. ASSUME NEW err \in WriteErrors \cup {"wouldBlock"}, WritePart(err)
      PROVE  Inv'
  <2>1. /\ Flushing /\ AfterFlush(err) /\ queue # <<>>
        /\ UNCHANGED <<stream, client, sentFatalAlert, nextWire, accepted, peerGot, readVars>>
    BY <1>3, Zenon DEF WritePart
  <2>2. PICK k \in 0 .. Unsent - 1 :
           /\ Transmitted(k)
           /\ queue' = [queue EXCEPT ![1].sent = @ + k]
    BY <1>3, Zenon DEF WritePart
  <2>3. /\ state' \in States /\ call' \in Calls /\ processed' \in Nat
        /\ result' \in [err : Errors, n : Nat]
        /\ CallInv' /\ PromiseInv' /\ DataEnd' = DataEnd
    BY <2>1, AfterFlushStep, Zenon DEF readVars
  <2>4. queue' \in Seq(QueuedRecords) /\ wire' \in Nat /\ QueueInv'
    BY <2>1, <2>2, <2>3, PartStep, Zenon
  <2>5. ReadInv'
    BY <2>1, Zenon DEF Inv, ReadInv, readVars
  <2> QED  BY <2>1, <2>3, <2>4, <2>5, Zenon DEF Inv, TypeOK, readVars
<1>4. CASE Package
  <2> DEFINE n == Smaller(call.want - processed, MaxRecord)
  <2>1. /\ call.at = "package" /\ call \in Calls /\ processed \in Nat /\ call.want \in Nat
        /\ processed < call.want /\ call.op = "write" /\ accepted \in Nat /\ state = "Ready"
    BY <1>4 DEF Package, Inv, TypeOK, CallInv, Calls, Idle
  <2>2. n \in Nat /\ n > 0 /\ processed + n =< call.want
    BY <2>1, SizesAssumption DEF Smaller
  <2>3. /\ queue' = Written(accepted + processed, accepted + processed + n, n)
        /\ nextWire' = nextWire + Header + n + Overhead
        /\ processed' = processed + n
        /\ UNCHANGED <<stream, client, state, sentFatalAlert, result, wire, peerGot, readVars>>
    BY <1>4, Zenon DEF Package
  <2>4. IF processed' = call.want
        THEN call' = [call EXCEPT !.at = "flushAgain"] /\ accepted' = accepted + call.want
        ELSE UNCHANGED <<call, accepted>>
    BY <1>4, Zenon DEF Package, Goto
  <2> HIDE DEF n
  <2>5. /\ call' \in Calls /\ accepted' \in Nat /\ call'.op = "write"
        /\ call'.at \in {"package", "flushAgain"}
        /\ call'.at = "package" => call' = call /\ accepted' = accepted /\ processed' < call'.want
        /\ call'.at = "flushAgain" => processed' = call'.want /\ accepted' = accepted + processed'
        /\ call'.want = call.want
    BY <2>1, <2>2, <2>3, <2>4 DEF Calls, Points
  <2>6. DataEnd = accepted + processed /\ DataEnd' = DataEnd + n
    <3>1. DataEnd = accepted + processed
      BY <2>1, Zenon DEF DataEnd
    <3>2. CASE call'.at = "package"
      BY <2>1, <2>2, <2>3, <2>5, <3>1, <3>2 DEF DataEnd
    <3>3. CASE call'.at = "flushAgain"
      <4>1. DataEnd' = accepted' /\ accepted' = accepted + (processed + n)
        BY <2>3, <2>5, <3>3, Zenon DEF DataEnd
      <4> QED  BY <2>1, <2>2, <3>1, <4>1
    <3> QED  BY <2>5, <3>1, <3>2, <3>3, Zenon
  <2>7. queue' \in Seq(QueuedRecords) /\ nextWire' \in Nat /\ QueueInv'
    BY <2>2, <2>3, <2>6, EnqueueStep, Zenon DEF Inv
  <2>8. CallInv'
    BY <2>1, <2>2, <2>3, <2>5, SMTT(30) DEF CallInv, Idle
  <2>9. PromiseInv' /\ ReadInv'
    BY <2>3, <2>5, Zenon DEF PromiseInv, ReadInv, Inv, readVars
  <2>10. processed' \in Nat
    BY <2>1, <2>2, <2>3
  <2> QED  BY <2>3, <2>5, <2>7, <2>8, <2>9, <2>10, Zenon DEF Inv, TypeOK, readVars
<1> QED  BY <1>1, <1>2, <1>3, <1>4, Zenon

(* A step of SSLRead that leaves the stream, the queue and what was read   *)
(* alone, with the last alert or without it.                               *)
LEMMA FailStep ==
    ASSUME Inv, ReadingRecord, NEW err \in Errors, Return(err, processed),
           state' \in States,
           SendLastAlert \/ UNCHANGED <<sentFatalAlert, queue, nextWire>>,
           UNCHANGED <<stream, client, wire, accepted, peerGot, readVars>>
    PROVE  Inv'
<1>1. /\ call' \in Calls /\ processed' \in Nat /\ result' \in [err : Errors, n : Nat]
      /\ CallInv' /\ PromiseInv' /\ DataEnd' = accepted'
  BY ReturnStep, Zenon DEF Inv, TypeOK
<1>2. DataEnd = accepted /\ DataEnd' = DataEnd
  BY <1>1, Zenon DEF DataEnd, ReadingRecord
<1>3. /\ queue' \in Seq(QueuedRecords) /\ nextWire' \in Nat /\ QueueInv'
      /\ sentFatalAlert' \in BOOLEAN
  <2>1. CASE SendLastAlert
    BY <1>2, <2>1, AlertStep, Zenon DEF Inv
  <2>2. CASE UNCHANGED <<sentFatalAlert, queue, nextWire>>
    BY <1>2, <2>2, Zenon DEF Inv, TypeOK, QueueInv
  <2> QED  BY <2>1, <2>2, Zenon
<1>4. ReadInv'
  BY Zenon DEF Inv, ReadInv, readVars
<1> QED  BY <1>1, <1>3, <1>4, Zenon DEF Inv, TypeOK, readVars

LEMMA FailSteps ==
    ASSUME Inv, \/ \E some \in BOOLEAN : ReadCloses(some)
                \/ ReadFails \/ RefuseHeader \/ DecryptFails
    PROVE  Inv'
<1> USE DEF Errors, States
<1>1. ASSUME NEW some \in BOOLEAN, ReadCloses(some)
      PROVE  Inv'
  BY <1>1, FailStep, Zenon DEF ReadCloses, AskingForBytes, FatalSessionAlert
<1>2. CASE ReadFails
  BY <1>2, FailStep, Zenon DEF ReadFails, AskingForBytes, FatalSessionAlert
<1>3. CASE RefuseHeader
  BY <1>3, FailStep, Zenon DEF RefuseHeader, FatalSessionAlert
<1>4. CASE DecryptFails
  BY <1>4, FailStep, Zenon DEF DecryptFails, FatalSessionAlert
<1> QED  BY <1>1, <1>2, <1>3, <1>4, Zenon

(* Bytes arrive.                                                           *)
LEMMA ArriveStep ==
    ASSUME TypeOK, NEW k \in Nat, Arrive(k)
    PROVE  /\ partial' \in Seq(Nat) /\ taken' \in Nat /\ taken' = taken + k
           /\ Len(partial') = Len(partial) + k
           /\ \A j \in 1 .. Len(partial) : partial'[j] = partial[j]
           /\ \A j \in Len(partial) + 1 .. Len(partial) + k :
                 partial'[j] = taken + (j - Len(partial)) - 1
<1> DEFINE new == [j \in 1 .. k |-> taken + j - 1]
<1>1. partial \in Seq(Nat) /\ taken \in Nat /\ Len(partial) \in Nat
  BY DEF TypeOK
<1>2. new \in Seq(Nat) /\ Len(new) = k
  BY <1>1
<1>3. partial' = partial \o new /\ taken' = taken + k
  BY Zenon DEF Arrive
<1> HIDE DEF new
<1>4. /\ partial' \in Seq(Nat)
      /\ Len(partial') = Len(partial) + k
      /\ \A j \in 1 .. Len(partial) : partial'[j] = partial[j]
  <2>1. partial \o new \in Seq(Nat)
    BY <1>1, <1>2
  <2>2. Len(partial \o new) = Len(partial) + k
    BY <1>1, <1>2, SMTT(30)
  <2>3. \A j \in 1 .. Len(partial) : (partial \o new)[j] = partial[j]
    BY <1>1, <1>2
  <2> QED  BY <1>3, <2>1, <2>2, <2>3, Zenon
<1>5. ASSUME NEW j \in Len(partial) + 1 .. Len(partial) + k
      PROVE  partial'[j] = taken + (j - Len(partial)) - 1
  <2>1. partial'[j] = new[j - Len(partial)] /\ j - Len(partial) \in 1 .. k
    BY <1>1, <1>2, <1>3
  <2> QED  BY <1>1, <2>1, Zenon DEF new
<1>6. taken' \in Nat
  BY <1>1, <1>3
<1> QED  BY <1>3, <1>4, <1>5, <1>6, Zenon

LEMMA NeededType ==
    ASSUME TypeOK
    PROVE  Needed \in Int /\ Decoded.size \in Nat /\ Len(partial) \in Nat /\ Header = 5
BY DecodedRecord DEF TypeOK, Needed, Header, StreamRecords

(* Bytes arrive and no record is complete.                                 *)
LEMMA BytesSteps ==
    ASSUME Inv, ReadAll \/ ReadBlocks
    PROVE  Inv'
<1>1. ASSUME NEW k \in Nat, Arrive(k), UNCHANGED <<stream, client, state, sentFatalAlert,
                writeVars, readSeq, buffered, got>>,
             call' \in Calls /\ processed' \in Nat /\ result' \in [err : Errors, n : Nat],
             CallInv', PromiseInv', DataEnd' = DataEnd
      PROVE  Inv'
  <2>1. partial' \in Seq(Nat) /\ taken' \in Nat
    BY <1>1, ArriveStep, Zenon DEF Inv
  <2>2. QueueInv' /\ ReadInv'
    BY <1>1, Zenon DEF Inv, QueueInv, ReadInv, writeVars
  <2> QED  BY <1>1, <2>1, <2>2, Zenon DEF Inv, TypeOK, writeVars
<1>2. Needed \in Int /\ TypeOK
  BY NeededType, Zenon DEF Inv
<1>3. CASE ReadAll
  <2>1. Needed \in Nat
    BY <1>2, <1>3, NeededType DEF ReadAll, AskingForBytes, RecordRead, HeaderRead, Needed
  <2>2. CallInv' /\ PromiseInv' /\ DataEnd' = DataEnd
    BY <1>3, Zenon DEF ReadAll, Inv, CallInv, PromiseInv, DataEnd, BufferedReadSize, writeVars
  <2> QED  BY <1>1, <1>3, <2>1, <2>2, Zenon DEF ReadAll, Inv, TypeOK
<1>4. CASE ReadBlocks
  <2>1. PICK k \in 0 .. Needed - 1 : Arrive(k)
    BY <1>4, Zenon DEF ReadBlocks
  <2>2. k \in Nat
    BY <1>2
  <2>3. /\ call' \in Calls /\ processed' \in Nat /\ result' \in [err : Errors, n : Nat]
        /\ CallInv' /\ PromiseInv' /\ DataEnd' = accepted'
    BY <1>2, <1>4, ReturnStep, Zenon DEF ReadBlocks, TypeOK, Errors
  <2>4. DataEnd' = DataEnd
    BY <1>4, <2>3, Zenon DEF ReadBlocks, DataEnd, AskingForBytes, ReadingRecord, writeVars
  <2> QED  BY <1>1, <1>4, <2>1, <2>2, <2>3, <2>4, Zenon DEF ReadBlocks
<1> QED  BY <1>3, <1>4, Zenon

(* Data leaves the buffer.                                                 *)
LEMMA CopyStep ==
    ASSUME Inv, CopyBuffered
    PROVE  Inv'
<1> DEFINE n == Smaller(call.want, BufferedReadSize)
<1>1. /\ call.at = "copy" /\ call \in Calls /\ call.want \in Nat /\ call.op = "read"
      /\ call.had \in Nat /\ state = "Ready"
      /\ call.had =< BufferedReadSize /\ processed = 0
  BY DEF CopyBuffered, Inv, TypeOK, CallInv, PromiseInv, Calls, Idle
<1>2. /\ buffered \in Chunks /\ buffered.from \in Nat /\ buffered.to \in Nat
      /\ buffered.from =< buffered.to /\ got = buffered.from
      /\ BufferedReadSize = buffered.to - buffered.from
  BY Zenon DEF Inv, TypeOK, ReadInv, Chunks, BufferedReadSize
<1>3. /\ n \in Nat /\ n =< call.want /\ n =< BufferedReadSize
      /\ n < call.want => n = BufferedReadSize
  BY <1>1, <1>2 DEF Smaller
<1>4. /\ got' = Take(got, buffered.from, buffered.from + n)
      /\ buffered' = [buffered EXCEPT !.from = @ + n]
      /\ IF n < call.want
         THEN call' = [call EXCEPT !.at = "record"] /\ processed' = n /\ UNCHANGED result
         ELSE Return("noErr", n)
      /\ UNCHANGED <<stream, client, state, sentFatalAlert, writeVars, partial, taken, readSeq>>
  BY Zenon DEF CopyBuffered, Deliver, Goto
<1> HIDE DEF n
<1>5. /\ buffered' \in Chunks /\ buffered'.from = buffered.from + n /\ buffered'.to = buffered.to
      /\ got' = buffered.from + n
  BY <1>2, <1>3, <1>4 DEF Take, Chunks
<1>6. ReadInv' /\ got' \in Nat
  BY <1>2, <1>3, <1>4, <1>5 DEF Inv, ReadInv
<1>7. /\ call' \in Calls /\ processed' \in Nat /\ result' \in [err : Errors, n : Nat]
      /\ CallInv' /\ PromiseInv' /\ DataEnd' = DataEnd
  <2>1. CASE n < call.want
    <3>1. /\ call' \in Calls /\ call'.at = "record" /\ call'.op = "read"
          /\ call'.had = call.had /\ call'.want = call.want /\ call' # Idle
      BY <1>1, <1>4, <2>1 DEF Calls, Points, Idle
    <3>2. BufferedReadSize' = 0
      BY <1>2, <1>3, <1>5, <2>1 DEF BufferedReadSize
    <3>3. processed' = n /\ UNCHANGED <<state, result, accepted>>
      BY <1>4, <2>1, Zenon DEF writeVars
    <3>4. CallInv'
      BY <1>1, <3>1, <3>3, Zenon DEF CallInv
    <3>5. PromiseInv'
      BY <1>1, <1>3, <2>1, <3>1, <3>2, <3>3, Zenon DEF PromiseInv
    <3> QED  BY <1>1, <1>3, <3>1, <3>3, <3>4, <3>5, Zenon DEF DataEnd, Inv, TypeOK
  <2>2. CASE ~(n < call.want)
    <3>1. Return("noErr", n) /\ UNCHANGED accepted
      BY <1>4, <2>2, Zenon DEF writeVars
    <3>2. /\ call' \in Calls /\ processed' \in Nat /\ result' \in [err : Errors, n : Nat]
          /\ CallInv' /\ PromiseInv' /\ DataEnd' = accepted'
      BY <1>3, <3>1, ReturnStep, Zenon DEF Errors
    <3> QED  BY <1>1, <3>1, <3>2, Zenon DEF DataEnd
  <2> QED  BY <2>1, <2>2, Zenon
<1>8. QueueInv'
  BY <1>4, <1>7, Zenon DEF Inv, QueueInv, writeVars
<1> QED  BY <1>4, <1>5, <1>6, <1>7, <1>8, Zenon DEF Inv, TypeOK, writeVars

(* SSLRead returns, or starts again with nothing to show.                  *)
LEMMA RetryStep ==
    ASSUME Inv, ReadingRecord, NEW n \in Nat, n >= processed, ReturnOrRetry(n),
           buffered'.from =< buffered'.to, buffered' \in Chunks, UNCHANGED <<state, accepted>>
    PROVE  /\ call' \in Calls /\ processed' \in Nat /\ result' \in [err : Errors, n : Nat]
           /\ CallInv' /\ PromiseInv' /\ DataEnd' = DataEnd
<1>1. /\ call \in Calls /\ call.at = "record" /\ call.op = "read" /\ call.had \in Nat
      /\ call.had =< processed /\ processed \in Nat /\ state = "Ready"
  BY DEF Inv, TypeOK, CallInv, PromiseInv, Calls, ReadingRecord, Idle
<1>2. CASE n = 0
  <2>1. call' = [call EXCEPT !.at = "flush"] /\ processed' = 0 /\ UNCHANGED result
    BY <1>2, Zenon DEF ReturnOrRetry, Goto
  <2>2. /\ call' \in Calls /\ call'.at = "flush" /\ call'.op = "read" /\ call'.had = 0
        /\ call' # Idle
    BY <1>1, <1>2, <2>1 DEF Calls, Points, Idle
  <2>3. CallInv'
    BY <1>1, <2>1, <2>2, Zenon DEF CallInv
  <2>4. PromiseInv'
    BY <2>2 DEF PromiseInv, BufferedReadSize, Chunks
  <2> QED  BY <1>1, <2>1, <2>2, <2>3, <2>4, Zenon DEF DataEnd, Inv, TypeOK
<1>3. CASE n # 0
  <2>1. Return("noErr", n)
    BY <1>3, Zenon DEF ReturnOrRetry
  <2> QED  BY <1>1, <2>1, ReturnStep, Zenon DEF Errors, DataEnd
<1> QED  BY <1>2, <1>3, Zenon

(* A record is accepted.                                                   *)
LEMMA RecordSteps ==
    ASSUME Inv, ReadData \/ ReadWarning \/ ReadFatal \/ ReadCloseNotify
    PROVE  Inv'
<1>1. /\ TypeOK /\ ReadInv /\ processed \in Nat
      /\ buffered \in Chunks /\ buffered.from \in Nat /\ buffered.to \in Nat
  BY Zenon DEF Inv, TypeOK, Chunks
<1>2. ASSUME ReadingRecord
      PROVE  /\ buffered.from = buffered.to /\ call.at = "record" /\ call.op = "read"
             /\ call.want \in Nat /\ call \in Calls /\ DataEnd = accepted
             /\ processed < call.want /\ call.had =< processed /\ call.had \in Nat
             /\ state = "Ready"
  BY <1>1, <1>2, SMTT(30) DEF Inv, TypeOK, PromiseInv, CallInv, ReadingRecord, BufferedReadSize,
     Calls,
                    DataEnd, Idle
<1>3. CASE ReadData
  <2> DEFINE c == Contents(Decoded)
             n == Smaller(c.to - c.from, call.want - processed)
  <2>1. /\ RecordAccepted("data") /\ got' = Take(got, c.from, c.from + n)
        /\ buffered' = [from |-> c.from + n, to |-> c.to]
        /\ ReturnOrRetry(processed + n)
        /\ UNCHANGED <<stream, client, state, sentFatalAlert, writeVars, taken>>
    BY <1>3, Zenon DEF ReadData, Deliver
  <2>2. /\ readSeq' \in Nat /\ readSeq' =< stream.top
        /\ c.from = buffered.to /\ c.from \in Nat /\ c.to \in Nat /\ c.from =< c.to
        /\ c.to = stream.pos[readSeq']
    BY <1>1, <2>1, AcceptedContents, Zenon
  <2>3. ReadingRecord /\ partial' = <<>>
    BY <2>1, Zenon DEF RecordAccepted
  <2> HIDE DEF c
  <2>4. n \in Nat /\ n =< c.to - c.from
    BY <1>1, <1>2, <2>2, <2>3 DEF Smaller
  <2> HIDE DEF n
  <2>5. /\ buffered' \in Chunks /\ buffered'.from = c.from + n /\ buffered'.to = c.to
        /\ buffered'.from =< buffered'.to
    <3>1. buffered' = [from |-> c.from + n, to |-> c.to]
      BY <2>1, Zenon
    <3>2. c.from + n \in Nat /\ c.from + n =< c.to /\ c.to \in Nat
      BY ONLY <2>2, <2>4
    <3> QED  BY ONLY <3>1, <3>2, Zenon DEF Chunks
  <2>6. got' = buffered'.from /\ got' \in Nat
    BY <1>1, <1>2, <2>1, <2>2, <2>3, <2>4, <2>5 DEF Take, ReadInv
  <2>7. ReadInv'
    BY <2>1, <2>2, <2>5, <2>6, Zenon DEF ReadInv
  <2>8. /\ call' \in Calls /\ processed' \in Nat /\ result' \in [err : Errors, n : Nat]
        /\ CallInv' /\ PromiseInv' /\ DataEnd' = DataEnd
    <3>1. processed + n \in Nat /\ processed + n >= processed
      BY ONLY <1>1, <2>4
    <3>2. UNCHANGED <<state, accepted>>
      BY <2>1, Zenon DEF writeVars
    <3> QED  BY <2>1, <2>3, <2>5, <3>1, <3>2, RetryStep, Zenon
  <2>9. QueueInv'
    BY <2>1, <2>8, Zenon DEF Inv, QueueInv, writeVars
  <2>10. partial' \in Seq(Nat)
    BY <2>3, SMTT(30)
  <2> QED  BY <2>1, <2>2, <2>5, <2>6, <2>7, <2>8, <2>9, <2>10, Zenon DEF Inv, TypeOK, writeVars
<1>4. ASSUME NEW type \in {"warning", "fatal", "closeNotify"}, RecordAccepted(type),
             UNCHANGED <<stream, buffered, got>>
      PROVE  /\ ReadInv' /\ readSeq' \in Nat /\ partial' = <<>> /\ partial' \in Seq(Nat)
             /\ ReadingRecord
  <2>1. readSeq' \in Nat /\ readSeq' =< stream.top /\ stream.pos[readSeq'] = buffered.to
    BY <1>1, <1>4, AcceptedContents, Zenon
  <2> QED  BY <1>1, <1>4, <2>1, SMTT(30) DEF ReadInv, RecordAccepted
<1>5. CASE ReadWarning
  <2>1. /\ ReadInv' /\ readSeq' \in Nat /\ partial' \in Seq(Nat) /\ ReadingRecord
        /\ ReturnOrRetry(processed)
        /\ UNCHANGED <<stream, client, state, sentFatalAlert, writeVars, taken, buffered, got>>
    BY <1>4, <1>5, Zenon DEF ReadWarning
  <2>2. /\ call' \in Calls /\ processed' \in Nat /\ result' \in [err : Errors, n : Nat]
        /\ CallInv' /\ PromiseInv' /\ DataEnd' = DataEnd
    <3>1. processed >= processed
      BY ONLY <1>1
    <3>2. /\ UNCHANGED <<state, accepted>>
          /\ buffered'.from =< buffered'.to /\ buffered' \in Chunks
      BY <1>1, <2>1, Zenon DEF writeVars, ReadInv
    <3> QED  BY <1>1, <2>1, <3>1, <3>2, RetryStep, Zenon
  <2>3. QueueInv'
    BY <2>1, <2>2, ZenonT(40) DEF Inv, QueueInv, writeVars
  <2> QED  BY <2>1, <2>2, <2>3, Zenon DEF Inv, TypeOK, writeVars
<1>6. CASE ReadFatal
  <2>1. /\ ReadInv' /\ readSeq' \in Nat /\ partial' \in Seq(Nat) /\ ReadingRecord
        /\ state' = "ErrorClose" /\ Return("peerFatal", processed)
        /\ UNCHANGED <<stream, client, sentFatalAlert, writeVars, taken, buffered, got>>
    BY <1>4, <1>6, Zenon DEF ReadFatal
  <2>2. /\ call' \in Calls /\ processed' \in Nat /\ result' \in [err : Errors, n : Nat]
        /\ CallInv' /\ PromiseInv' /\ DataEnd' = accepted'
    BY <1>1, <2>1, ReturnStep, Zenon DEF Errors
  <2>3. QueueInv'
    BY <1>2, <2>1, <2>2, Zenon DEF Inv, QueueInv, writeVars
  <2> QED  BY <2>1, <2>2, <2>3, Zenon DEF Inv, TypeOK, writeVars, States
<1>7. CASE ReadCloseNotify
  <2>1. /\ ReadInv' /\ readSeq' \in Nat /\ partial' \in Seq(Nat) /\ ReadingRecord
        /\ SendLastAlert /\ call' = [call EXCEPT !.at = "closing"]
        /\ UNCHANGED <<stream, client, state, processed, result, wire, accepted, peerGot,
                       taken, buffered, got>>
    BY <1>4, <1>7, Zenon DEF ReadCloseNotify, Goto
  <2>2. /\ call' \in Calls /\ call'.at = "closing" /\ call'.op = "read"
        /\ call'.want = call.want /\ call'.had = call.had /\ call' # Idle
    BY <1>2, <2>1, Zenon DEF Calls, Points, Idle
  <2>3. DataEnd = accepted /\ DataEnd' = DataEnd
    BY <1>2, <2>1, <2>2, Zenon DEF DataEnd
  <2>4. /\ queue' \in Seq(QueuedRecords) /\ nextWire' \in Nat /\ QueueInv'
        /\ sentFatalAlert' \in BOOLEAN
    BY <2>1, <2>3, AlertStep, Zenon DEF Inv
  <2>5. CallInv'
    BY <1>2, <2>1, <2>2, Zenon DEF CallInv
  <2>6. PromiseInv'
    BY <1>1, <1>2, <2>1, <2>2 DEF PromiseInv, BufferedReadSize
  <2> QED  BY <2>1, <2>2, <2>4, <2>5, <2>6, Zenon DEF Inv, TypeOK
<1> QED  BY <1>3, <1>5, <1>6, <1>7, Zenon

LEMMA Initially ==
    ASSUME Init
    PROVE  Inv
<1>1. stream \in Streams
  BY Zenon DEF Init
<1>2. stream.pos[0] = 0 /\ stream.top \in Nat
  BY <1>1, StreamFacts, Zenon
<1>3. TypeOK
  <2>1. call \in Calls /\ result \in [err : Errors, n : Nat] /\ buffered \in Chunks
    BY Zenon DEF Init, Calls, Idle, Points, NoResult, Errors, Chunks
  <2>2. queue \in Seq(QueuedRecords) /\ partial \in Seq(Nat)
    BY DEF Init
  <2> QED  BY <2>1, <2>2, ZenonT(40) DEF Init, TypeOK, States
<1>4. CallInv /\ PromiseInv
  BY Zenon DEF Init, CallInv, PromiseInv, Idle
<1>5. QueueInv
  BY DEF Init, QueueInv, DataEnd, Idle
<1>6. ReadInv
  BY <1>2 DEF Init, ReadInv
<1> QED  BY <1>3, <1>4, <1>5, <1>6, Zenon DEF Inv

LEMMA Stepwise ==
    ASSUME Inv, [Next]_vars
    PROVE  Inv'
<1>1. CASE UNCHANGED vars
  <2>1. TypeOK'
    BY <1>1, Zenon DEF vars, Inv, TypeOK
  <2>2. CallInv'
    BY <1>1, Zenon DEF vars, Inv, CallInv
  <2>3. QueueInv'
    BY <1>1, Zenon DEF vars, Inv, QueueInv, DataEnd
  <2>4. ReadInv'
    BY <1>1, Zenon DEF vars, Inv, ReadInv
  <2>5. PromiseInv'
    BY <1>1, Zenon DEF vars, Inv, PromiseInv, BufferedReadSize
  <2> QED  BY <2>1, <2>2, <2>3, <2>4, <2>5, Zenon DEF Inv
<1>2. CASE Next
  BY <1>2, CallSteps, WriteSteps, FailSteps, BytesSteps, CopyStep, RecordSteps, Zenon
     DEF Next, ReadSteps, Partial
<1> QED  BY <1>1, <1>2, Zenon

(* The variables keep their types.                                         *)
THEOREM TypeCorrect == Spec => []TypeOK
<1>1. Inv => TypeOK
  BY Zenon DEF Inv
<1> QED  BY <1>1, Initially, Stepwise, PTL DEF Spec

THEOREM Invariant == Spec => []Inv
BY Initially, Stepwise, PTL DEF Spec

(* Both directions stay in order, however the transport cuts the bytes and *)
(* however often a call that blocked is made again.                        *)
THEOREM StreamsInOrder == Spec => []InOrder
<1>1. Inv => InOrder
  <2> SUFFICES ASSUME Inv PROVE InOrder
    BY Zenon
  <2>1. got # Garbled
    BY DEF Inv, TypeOK, ReadInv, Chunks, Garbled
  <2>2. wire # Garbled /\ peerGot # Garbled
    <3>1. nextWire \in Nat /\ DataEnd \in Nat
      BY DEF Inv, TypeOK, DataEnd
    <3>2. CASE queue = <<>>
      BY <3>1, <3>2 DEF Inv, QueueInv, Garbled
    <3>3. CASE queue # <<>>
      <4>1. queue[1] \in QueuedRecords
        BY <3>3 DEF Inv, TypeOK
      <4> QED  BY <3>3, <4>1 DEF QueuedRecords, Inv, QueueInv, Garbled
    <3> QED  BY <3>2, <3>3, Zenon
  <2> QED  BY <2>1, <2>2, Zenon DEF InOrder
<1> QED  BY <1>1, Invariant, PTL

-------------------------------------------------------------------------------
(* What SSLRead returns.                                                   *)

LEMMA ReadReturns ==
    ASSUME Inv, Next, call.op = "read", call' = Idle
    PROVE  /\ result'.n =< call.want
           /\ result'.err = "noErr" => result'.n > 0 \/ call.want = 0
           /\ call.at # "flush" => result'.n >= Smaller(call.want, call.had)
<1>1. /\ call \in Calls /\ call.want \in Nat /\ call.had \in Nat /\ processed \in Nat
      /\ call # Idle /\ buffered \in Chunks /\ buffered.from =< buffered.to
      /\ call.at \in {"flush", "copy", "record", "closing"}
  BY Zenon DEF Inv, TypeOK, Calls, Idle, CallInv, ReadInv
<1>2. ASSUME call.at \in {"record", "closing"}
      PROVE  call.had =< processed /\ processed < call.want
  BY <1>2, Zenon DEF Inv, PromiseInv
<1>3. ASSUME NEW err, Return(err, processed), call.at \in {"record", "closing"},
             err = "noErr" => processed # 0
      PROVE  /\ result'.n =< call.want
             /\ result'.err = "noErr" => result'.n > 0 \/ call.want = 0
             /\ call.at # "flush" => result'.n >= Smaller(call.want, call.had)
  BY <1>1, <1>2, <1>3 DEF Return, Smaller
<1>4. ~ \/ \E n \in WriteSizes : CallWrite(n)
        \/ \E n \in ReadSizes : CallRead(n)
        \/ CallClose
        \/ WriteAll \/ ReadAll
  BY <1>1, Zenon DEF CallWrite, CallRead, CallClose, Begin, Refuse, WriteAll, ReadAll
<1>5. ~Package /\ ~ReadCloseNotify
  <2>1. ~Package
    BY <1>1, Zenon DEF Package
  <2>2. ~ReadCloseNotify
    BY <1>1, Zenon DEF ReadCloseNotify, Goto, Idle, Calls
  <2> QED  BY <2>1, <2>2, Zenon
<1>6. ASSUME NEW err \in WriteErrors \cup {"noErr", "wouldBlock"}, AfterFlush(err)
      PROVE  /\ result'.n =< call.want
             /\ result'.err = "noErr" => result'.n > 0 \/ call.want = 0
             /\ call.at # "flush" => result'.n >= Smaller(call.want, call.had)
  <2>1. CASE call.at = "flush"
    <3>1. err \in WriteErrors
      BY <1>1, <1>6, <2>1, Zenon DEF AfterFlush, Goto, Idle, Calls
    <3> QED  BY <1>1, <1>6, <2>1, <3>1 DEF AfterFlush, Return, WriteErrors
  <2>2. CASE call.at = "closing"
    <3>1. Return(IF processed = 0 THEN "closedGraceful" ELSE "noErr", processed)
      BY <1>6, <2>2, Zenon DEF AfterFlush
    <3> QED  BY <1>3, <2>2, <3>1, Zenon
  <2> QED  BY <1>6, <2>1, <2>2, Zenon DEF AfterFlush
<1>7. CASE QueueEmpty
  BY <1>6, <1>7, Zenon DEF QueueEmpty
<1>8. ASSUME NEW err \in WriteErrors \cup {"wouldBlock"}, WritePart(err)
      PROVE  /\ result'.n =< call.want
             /\ result'.err = "noErr" => result'.n > 0 \/ call.want = 0
             /\ call.at # "flush" => result'.n >= Smaller(call.want, call.had)
  BY <1>6, <1>8, Zenon DEF WritePart
<1>9. CASE CopyBuffered
  <2>1. ~(Smaller(call.want, BufferedReadSize) < call.want)
    BY <1>1, <1>9, Zenon DEF CopyBuffered, Goto, Idle, Calls
  <2>2. Return("noErr", Smaller(call.want, BufferedReadSize))
    BY <1>9, <2>1, Zenon DEF CopyBuffered
  <2>3. BufferedReadSize \in Nat
    BY <1>1 DEF BufferedReadSize, Chunks
  <2>4. Smaller(call.want, BufferedReadSize) = call.want
    BY <1>1, <2>1, <2>3 DEF Smaller
  <2>5. result'.n = call.want /\ result'.err = "noErr"
    BY <2>2, <2>4, Zenon DEF Return
  <2> QED  BY <1>1, <2>5 DEF Smaller
<1>10. CASE ReadBlocks \/ ReadFails \/ RefuseHeader \/ DecryptFails \/ ReadFatal
  BY <1>3, <1>10, Zenon DEF ReadBlocks, ReadFails, RefuseHeader, DecryptFails, ReadFatal,
     FatalSessionAlert,
       AskingForBytes, ReadingRecord, RecordAccepted
<1>11. ASSUME NEW some \in BOOLEAN, ReadCloses(some)
       PROVE  /\ result'.n =< call.want
              /\ result'.err = "noErr" => result'.n > 0 \/ call.want = 0
              /\ call.at # "flush" => result'.n >= Smaller(call.want, call.had)
  BY <1>3, <1>11, Zenon DEF ReadCloses, FatalSessionAlert, AskingForBytes, ReadingRecord
<1>12. ASSUME NEW n \in Nat, call.at = "record", processed =< n, n =< call.want,
              ReturnOrRetry(n)
       PROVE  /\ result'.n =< call.want
              /\ result'.err = "noErr" => result'.n > 0 \/ call.want = 0
              /\ call.at # "flush" => result'.n >= Smaller(call.want, call.had)
  <2>1. n # 0
    BY <1>1, <1>12, Zenon DEF ReturnOrRetry, Goto, Idle, Calls
  <2>2. Return("noErr", n)
    BY <1>12, <2>1, Zenon DEF ReturnOrRetry
  <2>3. result'.n = n /\ result'.err = "noErr"
    BY <2>2, Zenon DEF Return
  <2> QED  BY <1>1, <1>2, <1>12, <2>1, <2>3 DEF Smaller
<1>13. CASE ReadWarning
  <2>1. call.at = "record" /\ ReturnOrRetry(processed)
    BY <1>13, Zenon DEF ReadWarning, RecordAccepted, ReadingRecord
  <2>2. processed =< processed /\ processed =< call.want
    BY <1>1, <1>2, <2>1
  <2> QED  BY <1>1, <1>12, <2>1, <2>2, Zenon
<1>14. CASE ReadData
  <2> DEFINE c == Contents(Decoded)
             n == Smaller(c.to - c.from, call.want - processed)
  <2>1. call.at = "record" /\ RecordAccepted("data") /\ ReturnOrRetry(processed + n)
    BY <1>14, Zenon DEF ReadData, RecordAccepted, ReadingRecord
  <2>2. c.from \in Nat /\ c.to \in Nat /\ c.from =< c.to
    BY <2>1, AcceptedContents, Zenon DEF Inv
  <2> HIDE DEF c
  <2>3. n \in Nat /\ n =< call.want - processed
    BY <1>1, <1>2, <2>1, <2>2 DEF Smaller
  <2> HIDE DEF n
  <2>4. processed + n \in Nat /\ processed =< processed + n /\ processed + n =< call.want
    BY <1>1, <1>2, <2>1, <2>3
  <2> QED  BY <1>12, <2>1, <2>4, Zenon
<1> QED  BY <1>4, <1>5, <1>7, <1>8, <1>9, <1>10, <1>11, <1>13, <1>14, Zenon
         DEF Next, ReadSteps, Partial

(* SSLRead returns no more than it was asked for, and noErr with data.     *)
THEOREM ReadsReturnData == Spec => ReadReturnsData
<1>1. ASSUME Inv, [Next]_vars
      PROVE  [(call.op = "read" /\ call' = Idle)
               => /\ result'.n =< call.want
                  /\ result'.err = "noErr" => (result'.n > 0 \/ call.want = 0)]_vars
  BY <1>1, ReadReturns, Zenon
<1> QED  BY <1>1, Invariant, PTL DEF Spec, ReadReturnsData

(* What SSLGetBufferedReadSize promises is kept.                           *)
THEOREM BufferedPromiseKept == Spec => BufferedGuarantee
<1>1. ASSUME Inv, [Next]_vars
      PROVE  [/\ ReadingRecord => call.want > call.had
              /\ (call.op = "read" /\ call' = Idle /\ call.at # "flush")
                   => result'.n >= Smaller(call.want, call.had)]_vars
  <2>1. ReadingRecord => call.want > call.had
    BY <1>1 DEF Inv, TypeOK, PromiseInv, ReadingRecord, Calls
  <2> QED  BY <1>1, <2>1, ReadReturns, Zenon
<1> QED  BY <1>1, Invariant, PTL DEF Spec, BufferedGuarantee

-------------------------------------------------------------------------------
(* The two byte streams.                                                   *)

(* Data is received from what the peer wrote.                              *)
LEMMA Bounds ==
    ASSUME Inv
    PROVE  /\ stream.pos[stream.top] \in Nat
           /\ buffered.to \in Nat /\ buffered.to =< stream.pos[stream.top]
           /\ got \in Nat /\ peerGot \in Nat /\ accepted \in Nat
<1>1. /\ stream.top \in Nat /\ stream.pos \in [0 .. stream.top -> Nat]
      /\ \A m, n \in 0 .. stream.top : m =< n => stream.pos[m] =< stream.pos[n]
  BY StreamFacts, Zenon DEF Inv, TypeOK
<1>2. readSeq \in 0 .. stream.top /\ stream.top \in 0 .. stream.top
  BY <1>1 DEF Inv, TypeOK, ReadInv
<1>3. stream.pos[stream.top] \in Nat
  BY <1>1, <1>2, Zenon
<1>4. stream.pos[readSeq] =< stream.pos[stream.top]
  BY <1>1, <1>2
<1>5. buffered.to \in Nat /\ buffered.to = stream.pos[readSeq] /\ got \in Nat
  BY Zenon DEF Inv, TypeOK, ReadInv, Chunks
<1>6. peerGot \in Nat
  <2>1. CASE queue = <<>>
    BY <2>1 DEF Inv, QueueInv, TypeOK, DataEnd
  <2>2. CASE queue # <<>>
    <3>1. queue[1] \in QueuedRecords
      BY <2>2 DEF Inv, TypeOK
    <3> QED  BY <2>2, <3>1, Zenon DEF Inv, QueueInv, QueuedRecords
  <2> QED  BY <2>1, <2>2, Zenon
<1> QED  BY <1>3, <1>4, <1>5, <1>6, Zenon DEF Inv, TypeOK

(* A step that moves neither stream is a step of the abstract one, or none. *)
LEMMA QuietStep ==
    ASSUME UNCHANGED <<stream, accepted, peerGot, got>>,
           state # "Ready" => state' # "Ready"
    PROVE  [BS!Next]_BS!svars
<1>1. CASE (state # "Ready") <=> (state' # "Ready")
  BY <1>1, Zenon DEF BS!svars
<1>2. CASE state = "Ready" /\ state' # "Ready"
  BY <1>2, Zenon DEF BS!Next, BS!Close
<1> QED  BY <1>1, <1>2, Zenon

(* Where a call is tells which one it is.                                  *)
LEMMA CallAt ==
    ASSUME Inv
    PROVE  /\ call.want \in Nat /\ call.had \in Nat /\ processed \in Nat
           /\ call.at \in {"copy", "record", "closing"} => call.op = "read" /\ state = "Ready"
           /\ call.at = "package" => /\ call.op = "write" /\ state = "Ready"
                                     /\ call.want > 0
<1>1. call \in Calls /\ CallInv /\ processed \in Nat
  BY Zenon DEF Inv, TypeOK
<1>2. call.want \in Nat /\ call.had \in Nat /\ call.op \in {"none", "read", "write", "close"}
  BY <1>1, Zenon DEF Calls
<1> QED  BY <1>1, <1>2 DEF CallInv, Idle

LEMMA StreamStep ==
    ASSUME Inv, Inv', [Next]_vars
    PROVE  [BS!Next]_BS!svars
<1>1. CASE UNCHANGED vars
  BY <1>1, QuietStep, Zenon DEF vars
<1>2. CASE \/ \E n \in WriteSizes : CallWrite(n)
           \/ \E n \in ReadSizes : CallRead(n)
           \/ CallClose
  BY <1>2, QuietStep, Zenon DEF CallWrite, CallRead, CallClose, Begin, Refuse, readVars, writeVars
<1>3. ASSUME NEW err, AfterFlush(err)
      PROVE  state # "Ready" => state' # "Ready"
  BY <1>3, Zenon DEF AfterFlush
<1>4. CASE QueueEmpty
  BY <1>3, <1>4, QuietStep, Zenon DEF QueueEmpty, readVars, writeVars
<1>5. ASSUME NEW err \in WriteErrors \cup {"wouldBlock"}, WritePart(err)
      PROVE  [BS!Next]_BS!svars
  BY <1>3, <1>5, QuietStep, Zenon DEF WritePart, readVars
<1>6. CASE WriteAll
  <2>1. queue # <<>> /\ UNCHANGED <<stream, state, accepted, got>> /\ Flushing
        /\ peerGot' = Take(peerGot, queue[1].from, queue[1].to)
    BY <1>6, Zenon DEF WriteAll, readVars
  <2>2. queue[1] \in QueuedRecords /\ 1 \in 1 .. Len(queue)
    BY <2>1 DEF Inv, TypeOK
  <2>3. /\ queue[1].from \in Nat /\ queue[1].to \in Nat /\ queue[1].from =< queue[1].to
        /\ peerGot = queue[1].from /\ queue[1].to =< DataEnd
    BY <2>1, <2>2, Zenon DEF QueuedRecords, Inv, QueueInv
  <2>4. DataEnd = accepted /\ accepted \in Nat
    BY <2>1, Zenon DEF DataEnd, Flushing, Inv, TypeOK
  <2>5. CASE queue[1].from = queue[1].to
    BY <2>1, <2>3, <2>5, QuietStep, Zenon DEF Take
  <2>6. CASE queue[1].from # queue[1].to
    <3>1. peerGot' = queue[1].to
      BY <2>1, <2>3, <2>6, Zenon DEF Take
    <3>2. peerGot' \in (peerGot + 1) .. accepted
      BY <2>3, <2>4, <2>6, <3>1
    <3> QED  BY <2>1, <3>2, Zenon DEF BS!Next, BS!Transmit
  <2> QED  BY <2>5, <2>6, Zenon
<1>7. CASE Package
  <2>1. /\ UNCHANGED <<stream, state, peerGot, got>> /\ state = "Ready"
        /\ accepted \in Nat /\ call.want \in Nat /\ call.want > 0
        /\ accepted' = accepted + call.want \/ accepted' = accepted
    <3>1. /\ UNCHANGED <<stream, state, peerGot, got>> /\ call.at = "package"
          /\ accepted' = accepted + call.want \/ accepted' = accepted
      BY <1>7, Zenon DEF Package, readVars
    <3> QED  BY <3>1, CallAt, Bounds, Zenon
  <2>2. CASE accepted' = accepted
    BY <2>1, <2>2, QuietStep, Zenon
  <2>3. CASE accepted' = accepted + call.want
    <3>1. accepted' \in Nat /\ accepted' > accepted
      BY <2>1, <2>3
    <3> QED  BY <2>1, <3>1, Zenon DEF BS!Next, BS!Accept
  <2> QED  BY <2>1, <2>2, <2>3, Zenon
<1>8. ASSUME ReadData \/ CopyBuffered
      PROVE  [BS!Next]_BS!svars
  <2>1. /\ UNCHANGED <<stream, state, accepted, peerGot>>
        /\ call.at \in {"copy", "record"}
    BY <1>8, Zenon DEF ReadData, CopyBuffered, writeVars, RecordAccepted, ReadingRecord
  <2>2. state = "Ready"
    BY <2>1, CallAt, Zenon
  <2>3. got \in Nat /\ got' \in Nat /\ got =< got'
    <3>1. CASE CopyBuffered
      <4>1. /\ got' = Take(got, buffered.from, buffered.from + Smaller(call.want, BufferedReadSize))
            /\ got = buffered.from /\ buffered.from \in Nat
            /\ Smaller(call.want, BufferedReadSize) \in Nat
        <5>1. got' = Take(got, buffered.from, buffered.from + Smaller(call.want, BufferedReadSize))
          BY <3>1, Zenon DEF CopyBuffered, Deliver
        <5>2. /\ got = buffered.from /\ buffered.from \in Nat /\ buffered.to \in Nat
              /\ buffered.from =< buffered.to
          BY Zenon DEF Inv, TypeOK, ReadInv, Chunks
        <5> QED  BY <5>1, <5>2, CallAt DEF Smaller, BufferedReadSize
      <4> QED  BY <4>1 DEF Take
    <3>2. CASE ReadData
      <4> DEFINE c == Contents(Decoded)
                 n == Smaller(c.to - c.from, call.want - processed)
      <4>1. RecordAccepted("data") /\ got' = Take(got, c.from, c.from + n)
        BY <3>2, Zenon DEF ReadData, Deliver
      <4>2. c.from = buffered.to /\ c.from \in Nat /\ c.to \in Nat /\ c.from =< c.to
        BY <4>1, AcceptedContents, Zenon DEF Inv
      <4> HIDE DEF c
      <4>3. /\ call.want \in Nat /\ processed \in Nat /\ processed < call.want
            /\ got = buffered.to
        <5>1. call.at = "record"
          BY <4>1, Zenon DEF RecordAccepted, ReadingRecord
        <5>2. processed < call.want /\ buffered.to - buffered.from = 0
          BY <5>1, Zenon DEF Inv, PromiseInv, BufferedReadSize
        <5>3. got = buffered.from /\ buffered.from \in Nat /\ buffered.to \in Nat
          BY Zenon DEF Inv, TypeOK, ReadInv, Chunks
        <5> QED  BY <5>2, <5>3, CallAt
      <4>4. n \in Nat
        BY <4>2, <4>3 DEF Smaller
      <4> HIDE DEF n
      <4> QED  BY <4>1, <4>2, <4>3, <4>4 DEF Take
    <3> QED  BY <1>8, <3>1, <3>2, Zenon
  <2>4. got' =< stream.pos[stream.top]
    <3>1. /\ stream.top \in Nat /\ stream.pos \in [0 .. stream.top -> Nat]
          /\ \A m, n \in 0 .. stream.top : m =< n => stream.pos[m] =< stream.pos[n]
      BY StreamFacts, Zenon DEF Inv, TypeOK
    <3>2. readSeq' \in 0 .. stream.top /\ stream.top \in 0 .. stream.top
      BY <2>1, <3>1 DEF Inv, TypeOK, ReadInv
    <3>3. stream.pos[readSeq'] =< stream.pos[stream.top] /\ stream.pos[readSeq'] \in Nat
      BY <3>1, <3>2
    <3>4. got' =< stream.pos[readSeq']
      BY <2>1, Zenon DEF Inv, ReadInv
    <3> QED  BY <2>3, <3>3, <3>4, Bounds
  <2>5. CASE got' = got
    BY <2>1, <2>5, QuietStep, Zenon
  <2>6. CASE got' # got
    <3>1. got' \in (got + 1) .. stream.pos[stream.top]
      BY <2>3, <2>4, <2>6, Bounds
    <3> QED  BY <2>1, <2>2, <3>1, Zenon DEF BS!Next, BS!Receive
  <2> QED  BY <2>5, <2>6, Zenon
<1>9. CASE ReadAll \/ ReadBlocks \/ ReadFails \/ RefuseHeader \/ DecryptFails
           \/ ReadWarning \/ ReadFatal \/ ReadCloseNotify
  BY <1>9, QuietStep, Zenon DEF ReadAll, ReadBlocks, ReadFails, RefuseHeader, DecryptFails,
     ReadWarning,
       ReadFatal, ReadCloseNotify, FatalSessionAlert, readVars, writeVars
<1>10. ASSUME NEW some \in BOOLEAN, ReadCloses(some)
       PROVE  [BS!Next]_BS!svars
  BY <1>10, QuietStep, Zenon DEF ReadCloses, FatalSessionAlert, readVars
<1> QED  BY <1>1, <1>2, <1>4, <1>5, <1>6, <1>7, <1>8, <1>9, <1>10, Zenon
         DEF Next, ReadSteps, Partial

(* The transport implements two byte streams.                              *)
THEOREM Refinement == Spec => ImplementsByteStream
<1>1. Init => BS!Init
  <2> SUFFICES ASSUME Init PROVE BS!Init
    BY Zenon
  <2>1. stream.pos[stream.top] \in Nat
    BY Initially, Bounds, Zenon
  <2> QED  BY <2>1, Zenon DEF Init, BS!Init
<1> QED  BY <1>1, Invariant, StreamStep, PTL DEF Spec, ImplementsByteStream, BS!Spec

-------------------------------------------------------------------------------
(* With an honest peer the partial buffer holds the beginning of the next  *)
(* record, and the transport is right behind it.                           *)
AlignedInv ==
    Honest =>
      /\ readSeq =< Len(stream.recs)
      /\ readSeq = Len(stream.recs) => partial = <<>> /\ taken = StreamEnd
      /\ readSeq < Len(stream.recs) =>
            LET r == stream.recs[readSeq + 1]
            IN  /\ Len(partial) =< Header + r.size
                /\ taken = r.start + Len(partial)
                /\ \A k \in 1 .. Len(partial) : partial[k] = r.start + k - 1

(* An honest peer's records are put together again.                        *)

(* A complete header is the header of the record that is next.             *)
LEMMA DecodedNext ==
    ASSUME Inv, AlignedInv, Honest, HeaderRead
    PROVE  /\ readSeq + 1 \in 1 .. Len(stream.recs)
           /\ Decoded = stream.recs[readSeq + 1]
           /\ Decoded \in StreamRecords
           /\ Decoded.seq = readSeq
           /\ Decoded.type \in {"data", "warning", "closeNotify", "fatal"}
<1>1. /\ stream \in Streams /\ readSeq \in Nat /\ Len(stream.recs) \in Nat /\ Len(partial) \in Nat
      /\ Header = 5 /\ Len(partial) >= 5
  BY StreamFacts DEF Inv, TypeOK, Header, HeaderRead
<1>2. readSeq < Len(stream.recs)
  BY <1>1 DEF AlignedInv
<1>3. readSeq + 1 \in 1 .. Len(stream.recs)
  BY <1>1, <1>2
<1> DEFINE r == stream.recs[readSeq + 1]
<1>4. \A k \in 1 .. Len(partial) : partial[k] = r.start + k - 1
  BY <1>2, Zenon DEF AlignedInv
<1>5. r \in StreamRecords /\ r.start \in Nat
  BY <1>1, <1>3, StreamFacts, Zenon DEF StreamRecords
<1> HIDE DEF r
<1>6. Holds(Header, r.start) /\ partial[1] = r.start
  BY <1>1, <1>4, <1>5 DEF Holds
<1>7. \E i \in 1 .. Len(stream.recs) : Holds(Header, stream.recs[i].start)
  BY <1>3, <1>6, Zenon DEF r
<1> DEFINE c == CHOOSE i \in 1 .. Len(stream.recs) : Holds(Header, stream.recs[i].start)
<1>8. c \in 1 .. Len(stream.recs) /\ Holds(Header, stream.recs[c].start)
  BY <1>7, Zenon
<1>9. Decoded = stream.recs[c]
  BY <1>7, Zenon DEF Decoded
<1> HIDE DEF c
<1>10. stream.recs[c].start = r.start
  <2>1. stream.recs[c].start \in Nat
    BY <1>1, <1>8, StreamFacts, Zenon DEF StreamRecords
  <2>2. partial[1] = stream.recs[c].start + 1 - 1
    BY <1>1, <1>8 DEF Holds
  <2> QED  BY <1>6, <2>1, <2>2
<1>11. \A i \in 1 .. Len(stream.recs) : \A j \in 1 .. i - 1 :
          stream.recs[j].start < stream.recs[i].start /\ stream.recs[j].start \in Nat
  <2>1. \A i \in 1 .. Len(stream.recs) : stream.recs[i].start \in Nat
    BY <1>1, StreamFacts, Zenon DEF StreamRecords
  <2> QED  BY <1>1, <2>1, StreamFacts
<1>12. c = readSeq + 1
  <2>1. CASE c < readSeq + 1
    <3>1. c \in 1 .. (readSeq + 1) - 1
      BY <1>1, <1>8, <2>1
    <3>2. stream.recs[c].start < r.start
      BY <1>3, <1>11, <3>1, Zenon DEF r
    <3> QED  BY <1>5, <1>10, <3>2
  <2>2. CASE c > readSeq + 1
    <3>1. readSeq + 1 \in 1 .. c - 1
      BY <1>1, <1>8, <2>2
    <3>2. r.start < stream.recs[c].start
      BY <1>8, <1>11, <3>1, Zenon DEF r
    <3> QED  BY <1>5, <1>10, <3>2
  <2> QED  BY <1>1, <1>8, <2>1, <2>2
<1>13. r.seq = (readSeq + 1) - 1 /\ r.type \in {"data", "warning", "closeNotify", "fatal"}
  BY <1>3, Zenon DEF Honest, r
<1> QED  BY <1>1, <1>3, <1>5, <1>9, <1>12, <1>13 DEF r

LEMMA AlignedArrive ==
    ASSUME Inv, AlignedInv, NEW k \in Nat, k =< Needed, AskingForBytes, Arrive(k),
           UNCHANGED <<stream, readSeq>>
    PROVE  AlignedInv'
<1> SUFFICES ASSUME Honest' PROVE AlignedInv'
  BY Zenon DEF AlignedInv
<1>1. Honest
  BY Zenon DEF Honest
<1>2. /\ partial' \in Seq(Nat) /\ taken' = taken + k
      /\ Len(partial') = Len(partial) + k
      /\ \A j \in 1 .. Len(partial) : partial'[j] = partial[j]
      /\ \A j \in Len(partial) + 1 .. Len(partial) + k :
            partial'[j] = taken + (j - Len(partial)) - 1
  BY ArriveStep, Zenon DEF Inv
<1>3. /\ readSeq \in Nat /\ Len(stream.recs) \in Nat /\ Len(partial) \in Nat /\ Header = 5
      /\ taken \in Nat /\ stream \in Streams
  BY StreamFacts DEF Inv, TypeOK, Header
<1>4. readSeq =< Len(stream.recs)
  BY <1>1, Zenon DEF AlignedInv
<1>5. CASE readSeq = Len(stream.recs)
  <2>1. partial = <<>> /\ taken = StreamEnd
    BY <1>1, <1>5, Zenon DEF AlignedInv
  <2>2. k =< 0
    BY <1>3, <2>1 DEF Arrive, Available
  <2>3. Len(partial') = 0 /\ taken' = taken
    BY <1>2, <1>3, <2>1, <2>2
  <2>4. partial' = <<>>
    BY <1>2, <2>3
  <2>5. StreamEnd' = StreamEnd
    BY Zenon DEF StreamEnd
  <2> QED  BY <1>3, <1>5, <2>1, <2>3, <2>4, <2>5 DEF AlignedInv
<1>6. CASE readSeq < Len(stream.recs)
  <2> DEFINE r == stream.recs[readSeq + 1]
  <2>1. /\ Len(partial) =< Header + r.size /\ taken = r.start + Len(partial)
        /\ \A j \in 1 .. Len(partial) : partial[j] = r.start + j - 1
    BY <1>1, <1>6, Zenon DEF AlignedInv
  <2>2. r.size \in Nat /\ r.start \in Nat
    <3>1. readSeq + 1 \in 1 .. Len(stream.recs)
      BY <1>3, <1>6
    <3> QED  BY <1>3, <3>1, StreamFacts, Zenon DEF StreamRecords
  <2>3. HeaderRead => Decoded = r
    BY <1>1, DecodedNext, Zenon
  <2> HIDE DEF r
  <2>4. Len(partial) + k =< Header + r.size
    <3>1. CASE HeaderRead
      BY <1>3, <2>2, <2>3, <3>1 DEF HeaderRead, Needed
    <3>2. CASE ~HeaderRead
      BY <1>3, <2>2, <3>2 DEF HeaderRead, Needed
    <3> QED  BY <3>1, <3>2, Zenon
  <2>5. ASSUME NEW j \in 1 .. Len(partial')
        PROVE  partial'[j] = r.start + j - 1
    <3>1. CASE j \in 1 .. Len(partial)
      BY <1>2, <2>1, <3>1, Zenon
    <3>2. CASE j \in Len(partial) + 1 .. Len(partial) + k
      <4>1. partial'[j] = taken + (j - Len(partial)) - 1
        BY <1>2, <3>2, Zenon
      <4> QED  BY <1>3, <2>1, <2>2, <4>1
    <3> QED  BY <1>2, <1>3, <3>1, <3>2
  <2>6. taken' = r.start + Len(partial')
    BY <1>2, <1>3, <2>1, <2>2
  <2>7. /\ stream'.recs[readSeq' + 1] = r /\ readSeq' < Len(stream'.recs)
        /\ Len(partial') =< Header + r.size
    BY <1>2, <1>6, <2>4, Zenon DEF r
  <2>8. readSeq' =< Len(stream'.recs) /\ readSeq' # Len(stream'.recs)
    BY <1>3, <1>6
  <2> QED  BY <2>5, <2>6, <2>7, <2>8, Zenon DEF AlignedInv
<1> QED  BY <1>3, <1>4, <1>5, <1>6

LEMMA AlignedAccept ==
    ASSUME Inv, AlignedInv, NEW type, RecordAccepted(type), UNCHANGED <<stream, taken>>
    PROVE  AlignedInv'
<1> SUFFICES ASSUME Honest' PROVE AlignedInv'
  BY Zenon DEF AlignedInv
<1>1. Honest /\ HeaderRead
  BY Zenon DEF Honest, RecordAccepted, RecordRead
<1>2. /\ readSeq \in Nat /\ Len(stream.recs) \in Nat /\ Len(partial) \in Nat /\ Header = 5
      /\ stream \in Streams /\ readSeq' = readSeq + 1 /\ partial' = <<>> /\ Len(partial') = 0
  BY StreamFacts DEF Inv, TypeOK, Header, RecordAccepted
<1> DEFINE r == stream.recs[readSeq + 1]
<1>3. readSeq + 1 \in 1 .. Len(stream.recs) /\ Decoded = r /\ r \in StreamRecords
  BY <1>1, DecodedNext, Zenon
<1>4. Len(partial) =< Header + r.size /\ taken = r.start + Len(partial)
  BY <1>1, <1>2, <1>3 DEF AlignedInv
<1>5. r.size \in Nat /\ r.start \in Nat
  BY <1>3, Zenon DEF StreamRecords
<1>6. Len(partial) >= Header + r.size
  <2>1. Needed =< 0 /\ ~(Len(partial) < Header)
    BY <1>2 DEF RecordAccepted, RecordRead, HeaderRead
  <2> HIDE DEF r
  <2> QED  BY <1>2, <1>3, <1>5, <2>1 DEF Needed
<1>7. taken = r.start + Header + r.size
  <2> HIDE DEF r
  <2>1. Len(partial) = Header + r.size
    BY <1>2, <1>4, <1>5, <1>6, SMTT(30)
  <2> QED  BY <1>2, <1>4, <1>5, <2>1
<1>8. CASE readSeq + 1 = Len(stream.recs)
  <2>1. StreamEnd' = r.start + Header + r.size
    BY <1>2, <1>3, <1>8 DEF StreamEnd
  <2> QED  BY <1>2, <1>7, <1>8, <2>1 DEF AlignedInv
<1>9. CASE readSeq + 1 < Len(stream.recs)
  <2> DEFINE q == stream.recs[readSeq + 2]
  <2>1. readSeq + 2 \in 1 .. Len(stream.recs) /\ readSeq + 2 > 1 /\ (readSeq + 2) - 1 = readSeq + 1
    BY <1>2, <1>9
  <2>2. q.start = stream.recs[(readSeq + 2) - 1].start + Header + stream.recs[(readSeq + 2) - 1].size
    BY <1>2, <2>1, StreamFacts, Zenon
  <2>3. q.size \in Nat /\ q.start \in Nat
    BY <1>2, <2>1, StreamFacts, Zenon DEF StreamRecords
  <2>4. taken' = q.start + 0
    BY <1>2, <1>7, <2>1, <2>2, <2>3
  <2>5. stream'.recs[readSeq' + 1] = q /\ readSeq' < Len(stream'.recs)
    BY <1>2, <1>9, <2>1
  <2> HIDE DEF q
  <2>6. Len(partial') =< Header + q.size /\ taken' = q.start + Len(partial')
    BY <1>2, <2>3, <2>4
  <2>7. \A j \in 1 .. Len(partial') : FALSE
    BY <1>2
  <2>8. readSeq' # Len(stream'.recs) /\ readSeq' =< Len(stream'.recs)
    BY <1>2, <2>5
  <2> QED  BY <2>5, <2>6, <2>7, <2>8, Zenon DEF AlignedInv
<1> QED  BY <1>2, <1>3, <1>8, <1>9

(* What the honest peer's data meets.                                      *)
HonestInv == AlignedInv /\ HonestPeerAccepted

LEMMA HonestStep ==
    ASSUME Inv, HonestInv, [Next]_vars
    PROVE  HonestInv'
<1>1. ASSUME UNCHANGED <<stream, partial, taken, readSeq>>
      PROVE  AlignedInv'
  BY <1>1, Zenon DEF HonestInv, AlignedInv, Honest, StreamEnd
<1>2. ASSUME stream' = stream, result' = result \/ result'.err # "protocol"
      PROVE  HonestPeerAccepted'
  BY <1>2, Zenon DEF HonestInv, HonestPeerAccepted, Honest
<1>3. CASE UNCHANGED vars
  BY <1>1, <1>2, <1>3, Zenon DEF vars, HonestInv
<1>4. CASE \/ \E n \in WriteSizes : CallWrite(n)
           \/ \E n \in ReadSizes : CallRead(n)
           \/ CallClose
  <2>1. state # "Ready" => WriteRefusal # "protocol" /\ ReadRefusal # "protocol"
    BY Zenon DEF Inv, TypeOK, States, WriteRefusal, ReadRefusal
  <2>2. result'.err # "protocol"
    BY <1>4, <2>1 DEF CallWrite, CallRead, CallClose, Begin, Refuse, NoResult
  <2> QED  BY <1>1, <1>2, <1>4, <2>2, Zenon
           DEF HonestInv, CallWrite, CallRead, CallClose, Begin, Refuse, readVars
<1>5. ASSUME NEW err \in WriteErrors \cup {"noErr", "wouldBlock"}, AfterFlush(err)
      PROVE  result' = result \/ result'.err # "protocol"
  BY <1>5 DEF AfterFlush, Return, WriteErrors
<1>6. CASE QueueEmpty
  BY <1>1, <1>2, <1>5, <1>6, Zenon DEF QueueEmpty, HonestInv, readVars
<1>7. ASSUME NEW err \in WriteErrors \cup {"wouldBlock"}, WritePart(err)
      PROVE  HonestInv'
  BY <1>1, <1>2, <1>5, <1>7, Zenon DEF WritePart, HonestInv, readVars
<1>8. CASE WriteAll \/ Package \/ CopyBuffered
  BY <1>1, <1>2, <1>8 DEF WriteAll, Package, CopyBuffered, Return, HonestInv, readVars
<1>9. ASSUME NEW some \in BOOLEAN, ReadCloses(some)
      PROVE  HonestInv'
  BY <1>1, <1>2, <1>9 DEF ReadCloses, FatalSessionAlert, Return, HonestInv, readVars
<1>10. CASE ReadFails
  BY <1>1, <1>2, <1>10, Zenon DEF ReadFails, FatalSessionAlert, Return, HonestInv, readVars
<1>11. CASE RefuseHeader
  <2>1. AlignedInv' /\ stream' = stream
    BY <1>1, <1>11, Zenon DEF RefuseHeader, readVars
  <2>2. ~Honest
    BY <1>11, DecodedNext, Zenon DEF RefuseHeader, HeaderRefused, HonestInv
  <2> QED  BY <2>1, <2>2, Zenon DEF HonestInv, HonestPeerAccepted, Honest
<1>12. CASE DecryptFails
  <2>1. AlignedInv' /\ stream' = stream
    BY <1>1, <1>12, Zenon DEF DecryptFails, readVars
  <2>2. ~Honest
    <3> SUFFICES ASSUME Honest PROVE FALSE
      BY Zenon
    <3>1. HeaderRead /\ RecordRead /\ ~Verifies(Decoded)
      BY <1>12, Zenon DEF DecryptFails, RecordRead
    <3>2. /\ readSeq + 1 \in 1 .. Len(stream.recs) /\ Decoded = stream.recs[readSeq + 1]
          /\ Decoded \in StreamRecords /\ Decoded.seq = readSeq
      BY <3>1, DecodedNext, Zenon DEF HonestInv
    <3>3. /\ Decoded.size \in Nat /\ readSeq \in Nat /\ Len(stream.recs) \in Nat
          /\ Len(partial) \in Nat /\ Header = 5
      <4>1. Decoded.size \in Nat
        BY <3>2, Zenon DEF StreamRecords
      <4>2. readSeq \in Nat /\ Len(stream.recs) \in Nat /\ Len(partial) \in Nat /\ Header = 5
        BY StreamFacts DEF Inv, TypeOK, Header
      <4> QED  BY <4>1, <4>2, Zenon
    <3>4. \A k \in 1 .. Len(partial) : partial[k] = Decoded.start + k - 1
      <4>1. readSeq < Len(stream.recs)
        BY <3>2, <3>3
      <4> QED  BY <3>2, <4>1, Zenon DEF HonestInv, AlignedInv
    <3>5. Len(partial) >= Header + Decoded.size
      BY <3>1, <3>3 DEF RecordRead, HeaderRead, Needed
    <3>6. Holds(Header + Decoded.size, Decoded.start)
      BY <3>3, <3>4, <3>5 DEF Holds
    <3> QED  BY <3>1, <3>2, <3>6, Zenon DEF Verifies
  <2> QED  BY <2>1, <2>2, Zenon DEF HonestInv, HonestPeerAccepted, Honest
<1>13. CASE ReadAll
  <2>1. /\ AskingForBytes /\ Arrive(Needed) /\ UNCHANGED <<stream, readSeq, result>>
    BY <1>13, Zenon DEF ReadAll
  <2>2. Needed \in Nat /\ Needed =< Needed
    BY <2>1, NeededType DEF AskingForBytes, RecordRead, HeaderRead, Needed, Inv
  <2> QED  BY <1>2, <2>1, <2>2, AlignedArrive, Zenon DEF HonestInv
<1>14. CASE ReadBlocks
  <2>1. /\ AskingForBytes /\ UNCHANGED <<stream, readSeq>> /\ result'.err # "protocol"
    BY <1>14, Zenon DEF ReadBlocks, Return
  <2>2. PICK k \in 0 .. Needed - 1 : Arrive(k)
    BY <1>14, Zenon DEF ReadBlocks
  <2>3. k \in Nat /\ k =< Needed
    BY NeededType DEF Inv
  <2>4. AlignedInv'
    BY <2>1, <2>2, <2>3, AlignedArrive, Zenon DEF HonestInv
  <2> QED  BY <1>2, <2>1, <2>4, Zenon DEF HonestInv
<1>15. CASE ReadData \/ ReadWarning \/ ReadFatal \/ ReadCloseNotify
  <2>1. /\ UNCHANGED <<stream, taken>> /\ \E type : RecordAccepted(type)
        /\ result' = result \/ result'.err # "protocol"
    BY <1>15 DEF ReadData, ReadWarning, ReadFatal, ReadCloseNotify, ReturnOrRetry, Return
  <2>2. AlignedInv'
    BY <2>1, AlignedAccept, Zenon DEF HonestInv
  <2> QED  BY <1>2, <2>1, <2>2, Zenon DEF HonestInv
<1> QED  BY <1>3, <1>4, <1>6, <1>7, <1>8, <1>9, <1>10, <1>11, <1>12, <1>13, <1>14, <1>15, Zenon
         DEF Next, ReadSteps, Partial

(* SSLReadRecord never refuses a record of an honest peer.                 *)
THEOREM HonestAccepted == Spec => []HonestPeerAccepted
<1>1. Init => HonestInv
  <2> SUFFICES ASSUME Init PROVE HonestInv
    BY Zenon
  <2>1. /\ stream \in Streams /\ readSeq = 0 /\ partial = <<>> /\ taken = 0 /\ Len(partial) = 0
        /\ result.err = "noErr" /\ Len(stream.recs) \in Nat /\ Header = 5
    BY StreamFacts, Zenon DEF Init, NoResult, Header
  <2>2. CASE Len(stream.recs) = 0
    <3>1. stream.recs = <<>>
      BY <2>1, <2>2, StreamFacts
    <3> QED  BY <2>1, <2>2, <3>1 DEF HonestInv, AlignedInv, HonestPeerAccepted, StreamEnd
  <2>3. CASE Len(stream.recs) > 0
    <3>1. 1 \in 1 .. Len(stream.recs) /\ 0 + 1 = 1
      BY <2>1, <2>3
    <3>2. stream.recs[1].start = 0 /\ stream.recs[1].size \in Nat
      BY <2>1, <3>1, StreamFacts, Zenon DEF StreamRecords
    <3>3. \A k \in 1 .. Len(partial) : FALSE
      BY <2>1
    <3>4. Len(partial) =< Header + stream.recs[1].size /\ taken = stream.recs[1].start + Len(partial)
      BY <2>1, <3>2
    <3> QED  BY <2>1, <2>3, <3>1, <3>3, <3>4 DEF HonestInv, AlignedInv, HonestPeerAccepted
  <2> QED  BY <2>1, <2>2, <2>3, SMTT(30)
<1>2. HonestInv => HonestPeerAccepted
  BY Zenon DEF HonestInv
<1> QED  BY <1>1, <1>2, HonestStep, Invariant, PTL DEF Spec

===============================================================================
