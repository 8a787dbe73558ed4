--------------------------- MODULE ReassemblyProofs ---------------------------
(***************************************************************************)
(* The proof that SSLProcessHandshakeRecord loses no byte and processes    *)
(* none twice, for every stream of messages and every cut of it that the   *)
(* code can handle.                                                        *)
(***************************************************************************)
EXTENDS Reassembly, SequenceTheorems, TLAPS

\* The setups the code handles: records of whole messages, or messages cut into records
\* of their own while SSLHandshake has nothing to return for in the middle.
Handled == setup.cuts = "whole" \/ (setup.cuts = "apart" /\ setup.signals = {})

\* The bytes of the stream behind the first a, up to the b-th.
Slice(a, b) == SubSeq(Stream, a + 1, b)

----------------------------------------------------------------------------
(* Slices. *)

\* How long a slice is and what it holds.
LEMMA SliceElements ==
    ASSUME NEW a \in Nat, NEW b \in Nat, a =< b, b =< Len(Stream)
    PROVE  /\ Slice(a, b) \in Seq(Nat) /\ Len(Slice(a, b)) = b - a
           /\ \A i \in 1 .. b - a : Slice(a, b)[i] = Stream[a + i]
  BY StreamAssumption DEF Slice

\* Slices that follow each other make one.
LEMMA SliceConcat ==
    ASSUME NEW a \in Nat, NEW b \in Nat, NEW c \in Nat, a =< b, b =< c, c =< Len(Stream)
    PROVE  Slice(a, b) \o Slice(b, c) = Slice(a, c)
<1>1. /\ a + 1 \in 1 .. Len(Stream) + 1 /\ b \in (a + 1) - 1 .. Len(Stream)
      /\ c \in b .. Len(Stream) /\ Stream \in Seq(Nat)
  BY StreamAssumption
<1>. QED  BY <1>1, ConcatAdjacentSubSeq DEF Slice

\* A part of a slice is a slice.
LEMMA SlicePart ==
    ASSUME NEW a \in Nat, NEW b \in Nat, a =< b, b =< Len(Stream),
           NEW i \in Nat, NEW j \in Nat, i =< j, j =< b - a
    PROVE  SubSeq(Slice(a, b), i + 1, j) = Slice(a + i, a + j)
<1>1. /\ Stream \in Seq(Nat) /\ a + 1 \in Int /\ b \in Int /\ i + 1 \in Int /\ j \in Int
      /\ (a + 1) + (i + 1) - 1 = a + i + 1 /\ (a + 1) + j - 1 = a + j
  BY StreamAssumption
<1>. QED  BY <1>1, SubSeqOfSubSeq DEF Slice

----------------------------------------------------------------------------
(* The invariant. *)

\* The messages processed end behind done bytes, a bound, and are the beginning of the
\* stream; the bytes received behind them are whole messages, or a part of one; no
\* flight ends among them.
Behind(done) ==
    /\ sent \in 0 .. Len(Stream) /\ done =< sent
    /\ processed = Slice(0, done)
    /\ sent \in Bounds \/ \A b \in Bounds : b =< done \/ sent < b
    /\ \A e \in FlightEnds : e =< done \/ sent =< e

\* Where those bytes are.  A message that was put together from the cache is the end of
\* what was received, so a remainder is only ever saved by a loop that processed nothing.
Held(done) ==
    /\ pc = "reading" => cache = Slice(done, sent) /\ (sent \in Bounds => done = sent)
    /\ pc = "loop" => /\ p \in 0 .. done /\ buf = Slice(done - p, sent)
                      /\ cache \in {<<>>, buf}
                      /\ p > 0 => sent \in Bounds
    /\ pc = "returned" => done = sent /\ cache = <<>>

ReassemblyInv ==
    /\ setup \in Setups /\ Handled
    /\ pc \in {"reading", "loop", "returned"}
    /\ setup.cuts = "whole" => cache = <<>> /\ sent \in Bounds
    /\ setup.signals = {} => signal = FALSE
    /\ \E done \in Bounds : Behind(done) /\ Held(done)

\* Bounds are numbers.
LEMMA BoundsNat ==
    /\ Len(Stream) \in Nat /\ 0 \in Bounds
    /\ \A b \in Bounds : b \in Nat /\ b =< Len(Stream)
    /\ FlightEnds \subseteq Bounds
  BY StreamAssumption

\* The message behind a bound.
LEMMA NextMessage ==
    ASSUME NEW b \in Bounds, b # Len(Stream)
    PROVE  /\ b + 2 =< Len(Stream) /\ Stream[b + 2] \in Nat
           /\ MessageEnd(b) \in Bounds /\ MessageEnd(b) = b + 2 + Stream[b + 2]
           /\ \A c \in Bounds : c =< b \/ MessageEnd(b) =< c
           /\ \A s \in Setups : Stream[b + 1] \in s.breaks => MessageEnd(b) \in FlightEnds
<1>1. b + 2 =< Len(Stream) /\ MessageEnd(b) = b + 2 + Stream[b + 2]
  BY StreamAssumption DEF HeaderLen, MessageEnd
<1>2. b + 2 \in 1 .. Len(Stream)
  BY <1>1, BoundsNat
<1>3. Stream[b + 2] \in Nat
  BY <1>2, StreamAssumption
<1>. QED  BY <1>1, <1>3, StreamAssumption, Zenon

----------------------------------------------------------------------------
(* The steps. *)

LEMMA InvInit == ASSUME Init, Handled PROVE ReassemblyInv
<1>1. Slice(0, 0) = <<>>
  BY StreamAssumption DEF Slice
<1>2. Behind(0) /\ Held(0)
  BY <1>1, BoundsNat DEF Init, Behind, Held
<1>. QED  BY <1>2, BoundsNat, Zenon DEF Init, ReassemblyInv

\* A record.
LEMMA InvReceive == ASSUME ReassemblyInv, ReceiveRecord PROVE ReassemblyInv'
<1>. PICK done \in Bounds : Behind(done) /\ Held(done)
  BY Zenon DEF ReassemblyInv
<1>. PICK to \in 1 .. Len(Stream) :
        Cuts(to) /\ Receive(SubSeq(Stream, sent + 1, to)) /\ sent' = to
  BY Zenon DEF ReceiveRecord
<1>1. done \in Nat /\ sent \in Nat /\ done =< sent /\ sent < to /\ sent =< to
      /\ to \in Nat /\ to =< Len(Stream) /\ Len(Stream) \in Nat
  BY BoundsNat DEF Behind, Cuts
<1>2. /\ pc = "reading" /\ pc' = "loop" /\ setup' = setup /\ processed' = processed /\ p' = 0
      /\ buf' = cache \o Slice(sent, to) /\ cache' = IF cache = <<>> THEN <<>> ELSE buf'
  BY Zenon DEF Receive, Slice
<1>a. signal' = signal
  BY Zenon DEF Receive
<1>. PICK n : n = sent
  BY Zenon
<1>3. buf' = Slice(done, to)
  <2>1. cache = Slice(done, n)
    BY <1>2, Zenon DEF Held
  <2>. QED  BY <1>1, <1>2, <2>1, SliceConcat, Zenon
<1>4. Held(done)'
  <2>1. p' \in 0 .. done /\ done - p' = done /\ ~(p' > 0)
    BY <1>1, <1>2
  <2>2. buf' = Slice(done - p', sent') /\ cache' \in {<<>>, buf'}
    BY <1>2, <1>3, <2>1, Zenon
  <2>. QED  BY <1>2, <2>1, <2>2, Zenon DEF Held
<1>5. processed = Slice(0, done) /\ Len(processed) = done
  <2>1. 0 \in Nat /\ 0 =< done /\ done =< Len(Stream) /\ done - 0 = done
    BY <1>1
  <2>. QED  BY <1>1, <2>1, SliceElements, Zenon DEF Behind
<1>6. \A e \in FlightEnds : e =< done \/ to =< e
  BY <1>1, <1>5, BoundsNat DEF Behind, Cuts
<1>7. to \in Bounds \/ \A b \in Bounds : b =< done \/ to < b
  <2>1. CASE setup.cuts = "whole"
    BY <2>1, Zenon DEF Cuts
  <2>2. CASE setup.cuts = "apart" /\ to \notin Bounds
    <3>1. \A b \in Bounds : b =< sent \/ to < b
      BY <2>2, Zenon DEF Cuts
    <3>2. CASE sent \in Bounds
      BY <1>2, <3>1, <3>2 DEF Held
    <3>3. CASE sent \notin Bounds
      BY <1>1, <3>1, <3>3, BoundsNat DEF Behind
    <3>. QED  BY <3>2, <3>3
  <2>. QED  BY <2>1, <2>2, Zenon DEF ReassemblyInv, Handled
<1>8. Behind(done)'
  BY <1>1, <1>2, <1>5, <1>6, <1>7 DEF Behind
<1>9. setup.cuts = "whole" => cache' = <<>> /\ to \in Bounds
  BY <1>2, Zenon DEF ReassemblyInv, Cuts
<1>. QED  BY <1>a, <1>2, <1>4, <1>8, <1>9, Zenon DEF ReassemblyInv, Handled

\* The place behind a message of l bytes that begins at q in the buffer.
LEMMA PlaceAfter ==
    ASSUME NEW d \in Nat, NEW n \in Nat, NEW q \in 0 .. d, NEW l \in Nat, 2 + l =< n - d,
           NEW end, end = d + 2 + l, NEW a, a = q + 2 + l
    PROVE  end \in Nat /\ d < end /\ end =< n /\ a \in 0 .. end /\ end - a = d - q /\ a > 0
  OBVIOUS

\* A message.
LEMMA InvProcess == ASSUME ReassemblyInv, ProcessMessage PROVE ReassemblyInv'
<1>. PICK done \in Bounds : Behind(done) /\ Held(done)
  BY Zenon DEF ReassemblyInv
<1>1. /\ pc = "loop" /\ Complete /\ UNCHANGED <<setup, sent, cache, buf>>
      /\ processed' = processed \o SubSeq(buf, p + 1, p + 2 + buf[p + 2])
      /\ p' = p + 2 + buf[p + 2]
  BY Zenon DEF ProcessMessage, HeaderLen
<1>b. pc' = "loop" \/ (pc' = "returned" /\ buf[p + 1] \in setup.breaks /\ signal)
  BY Zenon DEF ProcessMessage
<1>a. setup.signals = {} => signal' = FALSE
  <2>. SUFFICES ASSUME setup.signals = {} PROVE signal' = FALSE
    BY Zenon
  <2>1. signal = FALSE
    BY Zenon DEF ReassemblyInv
  <2>2. signal' = FALSE \/ signal' = (signal \/ buf[p + 1] \in setup.signals)
    BY Zenon DEF ProcessMessage
  <2>3. buf[p + 1] \notin setup.signals
    BY Zenon
  <2>. QED  BY <2>1, <2>2, <2>3
<1>2. /\ p \in 0 .. done /\ buf = Slice(done - p, sent) /\ cache \in {<<>>, buf}
      /\ (p > 0 => sent \in Bounds) /\ processed = Slice(0, done)
  BY <1>1, Zenon DEF Held, Behind
<1>3. /\ done \in Nat /\ sent \in Nat /\ done =< sent /\ sent =< Len(Stream) /\ p \in Nat
      /\ done - p \in Nat /\ done - p =< sent
  BY <1>2, BoundsNat DEF Behind
<1>4. /\ Len(buf) = sent - (done - p)
      /\ \A i \in 1 .. sent - (done - p) : buf[i] = Stream[(done - p) + i]
  BY <1>2, <1>3, SliceElements, Zenon
<1>5. remaining = sent - done /\ sent - done >= 2
  BY <1>1, <1>3, <1>4 DEF Complete, remaining, HeaderLen
<1>6. buf[p + 1] = Stream[done + 1] /\ buf[p + 2] = Stream[done + 2]
  <2>1. /\ p + 1 \in 1 .. sent - (done - p) /\ (done - p) + (p + 1) = done + 1
        /\ p + 2 \in 1 .. sent - (done - p) /\ (done - p) + (p + 2) = done + 2
    BY <1>3, <1>5
  <2>2. /\ buf[p + 1] = Stream[(done - p) + (p + 1)]
        /\ buf[p + 2] = Stream[(done - p) + (p + 2)]
    BY <1>4, <2>1, Zenon
  <2>. QED  BY <2>1, <2>2
<1>7. done # Len(Stream)
  BY <1>3, <1>5
<1>. PICK end, l, n, q :
        end = MessageEnd(done) /\ l = Stream[done + 2] /\ n = sent /\ q = p
  BY Zenon
<1>8. /\ l \in Nat /\ end \in Bounds /\ end = done + 2 + l
      /\ \A c \in Bounds : c =< done \/ end =< c
      /\ \A s \in Setups : Stream[done + 1] \in s.breaks => end \in FlightEnds
  BY <1>7, NextMessage, Zenon
<1>9. /\ end \in Nat /\ done < end /\ end =< sent
      /\ p' \in 0 .. end /\ end - p' = done - p /\ p' > 0
  <2>. PICK a : a = q + 2 + l
    BY Zenon
  <2>1. p' = a /\ 2 + l =< n - done
    BY <1>1, <1>5, <1>6 DEF Complete, HeaderLen
  <2>2. q \in 0 .. done /\ n \in Nat
    BY <1>2, <1>3, Zenon
  <2>3. end \in Nat /\ done < end /\ end =< n /\ a \in 0 .. end /\ end - a = done - q /\ a > 0
    <3>1. done \in Nat /\ l \in Nat /\ end = done + 2 + l
      BY <1>3, <1>8, Zenon
    <3>. QED  BY ONLY <2>1, <2>2, <3>1, a = q + 2 + l, PlaceAfter
  <2>. QED  BY <2>1, <2>3, Zenon
<1>10. sent \in Bounds
  <2>. SUFFICES ASSUME \A b \in Bounds : b =< done \/ sent < b PROVE FALSE
    BY Zenon DEF Behind
  <2>1. end =< done \/ sent < end
    BY <1>8, Zenon
  <2>. QED  BY <1>3, <1>9, <2>1
<1>11. processed' = Slice(0, end)
  <2>. PICK a, j : a = done - p /\ j = p + 2 + buf[p + 2]
    BY Zenon
  <2>0. j = p'
    BY <1>1, Zenon
  <2>1. j \in Nat /\ q =< j /\ j =< n - a /\ a + q = done /\ a + j = end
    BY <1>3, <1>9, <2>0
  <2>2. SubSeq(Slice(a, n), q + 1, j) = Slice(a + q, a + j)
    <3>1. /\ a \in Nat /\ n \in Nat /\ a =< n /\ n =< Len(Stream)
          /\ q \in Nat /\ j \in Nat /\ q =< j /\ j =< n - a
      BY <1>3, <2>1, Zenon
    <3>. QED  BY ONLY <3>1, SlicePart
  <2>3. 0 =< done /\ done =< end /\ end =< Len(Stream) /\ 0 \in Nat
    BY <1>3, <1>9
  <2>4. Slice(0, done) \o Slice(done, end) = Slice(0, end)
    BY <1>3, <1>9, <2>3, SliceConcat, Zenon
  <2>. QED  BY <1>1, <1>2, <2>1, <2>2, <2>4, Zenon
<1>12. Behind(end)'
  <2>1. \A e \in FlightEnds : e =< end \/ sent =< e
    BY <1>3, <1>9, BoundsNat DEF Behind
  <2>. QED  BY <1>1, <1>3, <1>9, <1>10, <1>11, <2>1 DEF Behind
<1>13. pc' = "returned" => end = sent /\ cache = <<>>
  <2>. SUFFICES ASSUME pc' = "returned" PROVE end = sent /\ cache = <<>>
    BY Zenon
  <2>1. Stream[done + 1] \in setup.breaks
    BY <1>b, <1>6, Zenon
  <2>2. end \in FlightEnds /\ cache = <<>>
    BY <1>b, <1>8, <2>1, Zenon DEF ReassemblyInv, Handled
  <2>. QED  BY <1>3, <1>9, <2>2 DEF Behind
<1>14. Held(end)'
  BY <1>1, <1>b, <1>2, <1>9, <1>10, <1>13 DEF Held
<1>. QED  BY <1>1, <1>a, <1>b, <1>8, <1>12, <1>14, Zenon DEF ReassemblyInv, Handled

\* The remainder.
LEMMA InvSave == ASSUME ReassemblyInv, SaveRemainder PROVE ReassemblyInv'
<1>. PICK done \in Bounds : Behind(done) /\ Held(done)
  BY Zenon DEF ReassemblyInv
<1>1. /\ pc = "loop" /\ ~Complete /\ cache' = Remainder /\ pc' = "reading"
      /\ UNCHANGED <<setup, sent, signal, processed>>
  BY Zenon DEF SaveRemainder
<1>2. /\ p \in 0 .. done /\ buf = Slice(done - p, sent) /\ cache \in {<<>>, buf}
      /\ p > 0 => sent \in Bounds
  BY <1>1, Zenon DEF Held
<1>3. /\ done \in Nat /\ sent \in Nat /\ done =< sent /\ sent =< Len(Stream) /\ p \in Nat
      /\ done - p \in Nat /\ done - p =< sent
  BY <1>2, BoundsNat DEF Behind
<1>4. /\ Len(buf) = sent - (done - p)
      /\ \A i \in 1 .. sent - (done - p) : buf[i] = Stream[(done - p) + i]
  BY <1>2, <1>3, SliceElements, Zenon
<1>5. remaining = sent - done
  BY <1>3, <1>4 DEF remaining
<1>6. CASE done = sent
  <2>1. cache' = <<>>
    BY <1>1, <1>3, <1>5, <1>6 DEF Remainder
  <2>2. Slice(sent, sent) = <<>>
    BY <1>3, StreamAssumption DEF Slice
  <2>3. Held(done)'
    BY <1>1, <1>6, <2>1, <2>2, Zenon DEF Held
  <2>. QED  BY <1>1, <2>1, <2>3, Zenon DEF ReassemblyInv, Handled, Behind
<1>7. CASE done # sent
  <2>1. sent \notin Bounds
    <3>. SUFFICES ASSUME sent \in Bounds PROVE FALSE
      BY Zenon
    <3>1. done # Len(Stream)
      BY <1>3, <1>7
    <3>2. /\ Stream[done + 2] \in Nat /\ MessageEnd(done) = done + 2 + Stream[done + 2]
          /\ sent =< done \/ MessageEnd(done) =< sent
      BY <3>1, NextMessage, Zenon
    <3>3. done + 2 + Stream[done + 2] =< sent
      BY <1>3, <1>7, <3>2
    <3>4. buf[p + 2] = Stream[done + 2]
      BY <1>3, <1>4, <3>2, <3>3
    <3>. QED  BY <1>1, <1>3, <1>5, <3>2, <3>3, <3>4 DEF Complete, HeaderLen
  <2>2. p = 0 /\ done - p = done /\ remaining = Len(buf) /\ remaining # 0
    BY <1>2, <1>3, <1>4, <1>5, <1>7, <2>1
  <2>3. SubSeq(buf, 1, remaining) = buf
    BY <1>2, <1>3, <2>2, SliceElements
  <2>4. cache' = Slice(done, sent)
    BY <1>1, <1>2, <2>2, <2>3, Zenon DEF Remainder
  <2>5. Held(done)'
    BY <1>1, <2>1, <2>4, Zenon DEF Held
  <2>. QED  BY <1>1, <2>1, <2>5, Zenon DEF ReassemblyInv, Handled, Behind
<1>. QED  BY <1>6, <1>7, Zenon

\* The application calls again.
LEMMA InvCall == ASSUME ReassemblyInv, CallAgain PROVE ReassemblyInv'
<1>. PICK done \in Bounds : Behind(done) /\ Held(done)
  BY Zenon DEF ReassemblyInv
<1>1. /\ pc = "returned" /\ pc' = "reading"
      /\ UNCHANGED <<setup, sent, cache, signal, processed>>
  BY Zenon DEF CallAgain
<1>2. done = sent /\ cache = <<>>
  BY <1>1, Zenon DEF Held
<1>3. Slice(sent, sent) = <<>>
  BY StreamAssumption DEF Slice, Behind
<1>4. Held(done)'
  BY <1>1, <1>2, <1>3, Zenon DEF Held
<1>. QED  BY <1>1, <1>4, Zenon DEF ReassemblyInv, Handled, Behind

\* A return to the application between two records.
LEMMA InvSignal == ASSUME ReassemblyInv, SignalServerAuth PROVE ReassemblyInv'
  BY Zenon DEF SignalServerAuth, ReassemblyInv, Handled, Behind, Held

LEMMA InvNext == ReassemblyInv /\ [Next]_vars => ReassemblyInv'
<1>1. ASSUME ReassemblyInv, UNCHANGED vars PROVE ReassemblyInv'
  BY <1>1, Zenon DEF vars, ReassemblyInv, Handled, Behind, Held
<1>. QED  BY <1>1, InvReceive, InvProcess, InvSave, InvCall, InvSignal, Zenon DEF Next

----------------------------------------------------------------------------
(* The theorems. *)

\* SSLProcessHandshakeRecord keeps in fragmentedMessageCache exactly what it received and
\* has not processed, whatever the messages and wherever a peer of these setups cuts them.
THEOREM NoByteLost == Spec /\ Handled => []NothingLost
<1>1. ReassemblyInv => NothingLost
  <2>. SUFFICES ASSUME ReassemblyInv, pc = "reading"
                PROVE  processed \o cache = SubSeq(Stream, 1, sent)
    BY Zenon DEF NothingLost
  <2>. PICK done \in Bounds : Behind(done) /\ Held(done)
    BY Zenon DEF ReassemblyInv
  <2>1. processed = Slice(0, done) /\ cache = Slice(done, sent)
    BY Zenon DEF Behind, Held
  <2>2. 0 \in Nat /\ done \in Nat /\ sent \in Nat /\ 0 =< done /\ done =< sent
        /\ sent =< Len(Stream) /\ 0 + 1 = 1
    BY BoundsNat DEF Behind
  <2>. QED  BY <2>1, <2>2, SliceConcat, Zenon DEF Slice
<1>. QED  BY <1>1, InvInit, InvNext, PTL DEF Spec

\* And what it has processed is the beginning of what the peer sent, so that a return to
\* the application in such a setup disturbs nothing.
THEOREM ProcessedInOrder == Spec /\ Handled => []ContinuesInOrder
<1>1. ReassemblyInv => ContinuesInOrder
  <2>. SUFFICES ASSUME ReassemblyInv PROVE processed = SubSeq(Stream, 1, Len(processed))
    BY Zenon DEF ContinuesInOrder
  <2>. PICK done \in Bounds : Behind(done) /\ Held(done)
    BY Zenon DEF ReassemblyInv
  <2>1. 0 \in Nat /\ 0 =< done /\ done =< Len(Stream) /\ done - 0 = done /\ 0 + 1 = 1
    BY BoundsNat
  <2>2. processed = Slice(0, done) /\ Len(processed) = done
    BY <2>1, BoundsNat, SliceElements, Zenon DEF Behind
  <2>. QED  BY <2>1, <2>2, Zenon DEF Slice
<1>. QED  BY <1>1, InvInit, InvNext, PTL DEF Spec
============================================================================
