-------------------------- MODULE HandshakeLemmas --------------------------
(***************************************************************************)
(* What the proofs about one SSLContext (Handshake) have in common, whoever *)
(* its peer is: its types, its keys, closing, and sequences of messages.    *)
(* Then what holds when the peer is another context of the library          *)
(* (Connection): the invariant EndInv of an end, what it makes of a message *)
(* such a peer can send, and what its own Finished says.                    *)
(***************************************************************************)
EXTENDS Handshake, TLAPS

USE DEF control, readSide, writeSide, session, auth, seen

\* A message whose type tells what it may hold.
Typed(m) ==
    /\ m = Msg(m.type, m.body)
    /\ m.type \in {"clientHello", "serverHello"} => m.body \in IDs \cup {NoID, Bad}
    /\ m.type = "cert" => m.body \in Certs \cup {NoCert, Bad}
    /\ m.type = "clientKeyExchange" => m.body \in Secrets \cup {Bad}

\* What an arbitrary peer sends is typed.
LEMMA PeerTyped ==
    ASSUME NEW m \in PeerMsgs
    PROVE  Typed(m)
<1>1. PICK t \in HandshakeTypes \cup {"ccs", "alert", "data"} :
         \E b \in Contents(t) : m = Msg(t, b)
  BY Zenon DEF PeerMsgs
<1>2. m.type = t /\ m.body \in Contents(t)
  BY <1>1 DEF Msg
<1>3. m = Msg(m.type, m.body)
  BY <1>1, Zenon DEF Msg
<1>. QED  BY <1>2, <1>3, Zenon DEF Contents, Typed

\* A message that is received leads to one of these.
Takes(m, last) ==
    \/ Refuse("failure")
    \/ BadMessage(m)
    \/ Unanswered(m)
    \/ m.type = "helloRequest" /\ HelloRequest(m, last)
    \/ m.type = "clientHello" /\ m.body # Bad /\ ClientHelloResume(m, last)
    \/ m.type = "clientHello" /\ m.body # Bad /\ ClientHelloFull(m, last)
    \/ m.type = "serverHello" /\ m.body # Bad /\ ServerHello(m, last)
    \/ m.type = "cert" /\ m.body # Bad /\ Certificate(m, last)
    \/ m.type = "certRequest" /\ CertRequest(m, last)
    \/ m.type = "serverKeyExchange" /\ ServerKeyExchange(m, last)
    \/ m.type = "serverHelloDone" /\ ServerHelloDone(m, last)
    \/ m.type = "certVerify" /\ CertVerify(m, last)
    \/ m.type = "clientKeyExchange" /\ m.body # Bad /\ ClientKeyExchange(m, last)
    \/ m.type = "finished" /\ Finished(m, last)
    \/ m.type = "ccs" /\ ~inRecord /\ ChangeCipherSpec(m)
    \/ m.type = "alert" /\ ~inRecord /\ (CloseNotify(m) \/ ErrorAlert(m) \/ Warning(m))
    \/ m.type = "data" /\ ~inRecord /\ AppData(m)

\* While a call reads.
LEMMA ReceiveTakes ==
    ASSUME NEW k, NEW m, NEW last, Receive(k, m, last)
    PROVE  Reading /\ Takes(m, last)
<1>1. CASE HandshakeMessage(m, last)
  BY <1>1, Zenon DEF HandshakeMessage, WrongMessage, FinishedMismatch, Takes, Receive
<1>2. CASE ~inRecord /\ m.type = "alert" /\ Alert(m)
  BY <1>2, Zenon DEF Alert, BadAlert, Takes, Receive
<1>. QED  BY <1>1, <1>2, Zenon DEF Receive, Takes

\* A record from an arbitrary peer does too.
LEMMA PeerSteps ==
    ASSUME PeerSends
    PROVE  Reading /\ \E m : Typed(m) /\ \E last \in BOOLEAN : Takes(m, last)
<1>1. PICK m \in PeerMsgs, last \in BOOLEAN : Receive(readKeys, m, last) \/ Receive(NoKeys, m, last)
  BY Zenon DEF PeerSends
<1>. QED  BY <1>1, ReceiveTakes, PeerTyped, Zenon

----------------------------------------------------------------------------
(* Types. *)

\* The states in which a hello has settled the version, and those in which the
\* master secret is known.
VersionKnown == {"Cert", "KeyExchange", "HelloDone", "ClientCert", "ClientKeyExchange",
                 "ClientCertVerify", "ChangeCipherSpec", "Finished"} \cup Ready
SecretKnown == {"ClientCertVerify", "ChangeCipherSpec", "Finished"} \cup Ready

\* The types of the data, strengthened so that the session that a Finished puts
\* in the cache is well formed.
DataInv ==
    /\ cfg \in Configs
    /\ state \in States
    /\ version \in {"undetermined", cfg.version}
    /\ readKeys \in Secrets \cup {NoKeys}
    /\ readPending \in Secrets \cup {NoKeys}
    /\ writeKeys \in Secrets \cup {NoKeys}
    /\ writePending \in Secrets \cup {NoKeys}
    /\ master \in Secrets \cup {NoKeys}
    /\ sessionID \in IDs \cup {NoID}
    /\ resumable \in Sessions \cup {NoSession}
    /\ cache \in Sessions \cup {NoSession}
    /\ peerCert \in Seq(Certs)
    /\ state \in VersionKnown => version = cfg.version
    /\ state \in SecretKnown => master \in Secrets

\* A new context's variables have their types.
LEMMA DataInit == Init => DataInv
  BY ConstantsAssumption DEF Init, DataInv, States, VersionKnown, SecretKnown, Ready

\* What SSLFatalSessionAlert and the empty cache leave behind.
LEMMA DataFatal ==
    ASSUME DataInv, NEW v, NEW a, Fatal(v, a),
           UNCHANGED <<cfg, readSide, writeSide, session>>,
           version' \in {version, cfg.version},
           peerCert' \in Seq(Certs)
    PROVE  DataInv'
  BY Zenon DEF DataInv, Fatal, Deleted, States, Closed, VersionKnown, SecretKnown, Ready

\* A session to resume has an ID, a master secret and a list of certificates.
LEMMA ResumableTyped ==
    ASSUME DataInv, resumable # NoSession
    PROVE  resumable.master \in Secrets /\ InstalledCerts(resumable) \in Seq(Certs)
  BY Zenon DEF DataInv, Sessions, InstalledCerts

\* The client's flight keeps the types.
LEMMA DataFlight ==
    ASSUME DataInv, NEW h, ClientFlight(h), state \in VersionKnown,
           UNCHANGED <<cfg, version, readKeys, sessionID, resumable, cache, peerCert>>
    PROVE  DataInv'
<1>1. PICK secret \in Secrets :
         /\ readPending' = secret /\ writeKeys' = secret /\ writePending' = NoKeys
         /\ master' = secret /\ state' = "ChangeCipherSpec"
  BY Zenon DEF ClientFlight, SwitchWrite
<1>. QED  BY <1>1, Zenon DEF DataInv, States, VersionKnown, SecretKnown, Ready

\* The API's steps keep the types.
LEMMA DataLocal ==
    ASSUME DataInv, Local \/ Disconnect
    PROVE  DataInv'
<1>. USE DEF DataInv, VersionKnown, SecretKnown, Ready, States, Closed
<1>1. CASE \E c \in {"handshake", "read", "write"} : Call(c)
  BY <1>1, Zenon DEF Call
<1>2. CASE WouldBlock \/ SignalServerAuth \/ HandshakeDone \/ Write
  BY <1>2 DEF WouldBlock, SignalServerAuth, HandshakeDone, Write
<1>3. CASE Close
  BY <1>3, Zenon DEF Close
<1>4. CASE InitConnection
  <2>1. Offer \in Sessions \cup {NoSession}
    BY Zenon DEF Offer
  <2>2. state' \in {"ServerHello", "ServerUninit"}
    BY <1>4, Zenon DEF InitConnection, StartHandshake
  <2>3. UNCHANGED <<cfg, version, readKeys, readPending, writeKeys, writePending, master,
                    sessionID, cache, peerCert>> /\ resumable' = Offer
    BY <1>4, Zenon DEF InitConnection
  <2>. QED  BY <2>1, <2>2, <2>3
<1>5. CASE ContinueHandshake
  BY <1>5, DataFlight, Zenon DEF ContinueHandshake
<1>6. CASE Disconnect
  <2>1. CASE Fatal(version, "fatalClose")
    BY <1>6, <2>1, DataFatal, Zenon DEF Disconnect
  <2>2. CASE state' = "NoNotifyClose" /\ cache' = cache
    BY <1>6, <2>2, Zenon DEF Disconnect
  <2>. QED  BY <1>6, <2>1, <2>2, Zenon DEF Disconnect
<1>. QED  BY <1>1, <1>2, <1>3, <1>4, <1>5, <1>6, Zenon DEF Local

\* A chain the peer sends goes into the list of certificates.
LEMMA ChainTyped ==
    ASSUME DataInv, NEW c \in Certs \cup {NoCert}
    PROVE  Chain(c) \in Seq(Certs)
<1>1. CASE c = NoCert
  BY <1>1, Zenon DEF Chain, DataInv
<1>2. CASE c \in Certs
  <2>1. <<c>> \in Seq(Certs)
    BY <1>2
  <2>2. <<c>> \o peerCert \in Seq(Certs)
    BY <2>1 DEF DataInv
  <2>. QED  BY <2>2, Zenon DEF Chain, DataInv
<1>. QED  BY <1>1, <1>2, Zenon

\* The hellos keep the types.
LEMMA DataHello ==
    ASSUME DataInv, NEW m, Typed(m), NEW last \in BOOLEAN,
           m.type \in {"clientHello", "serverHello"}, m.body # Bad,
           ClientHelloResume(m, last) \/ ClientHelloFull(m, last) \/ ServerHello(m, last)
    PROVE  DataInv'
<1>. USE DEF DataInv, VersionKnown, SecretKnown, Ready, States, Closed
<1>1. KeptID(m.body) \in IDs \cup {NoID}
  BY Zenon DEF Typed, KeptID
<1>2. CASE ClientHelloResume(m, last)
  <2>1. resumable # NoSession
    BY <1>2, Zenon DEF ClientHelloResume, Resumes
  <2>2. /\ UNCHANGED <<cfg, readKeys, resumable, cache>>
        /\ version' = cfg.version /\ sessionID' = KeptID(m.body)
        /\ master' = resumable.master /\ peerCert' = InstalledCerts(resumable)
        /\ readPending' = resumable.master /\ writeKeys' = resumable.master
        /\ writePending' = NoKeys /\ state' = "ChangeCipherSpec"
    BY <1>2, Zenon DEF ClientHelloResume, SwitchWrite
  <2>. QED  BY <1>1, <2>1, <2>2, ResumableTyped, Zenon
<1>3. CASE ClientHelloFull(m, last)
  <2>1. /\ UNCHANGED <<cfg, readKeys, readPending, writeKeys, writePending, master, resumable,
                       peerCert>>
        /\ version' = cfg.version /\ state = "ServerUninit"
    BY <1>3, ZenonT(40) DEF ClientHelloFull
  <2>2. PICK id \in IDs :
           /\ sessionID' = IF cfg.peerID THEN id ELSE NoID
           /\ state' \in {"ErrorClose", Shut(state), "ClientCert", "ClientKeyExchange"}
           /\ cache' \in {cache, Deleted}
    BY <1>3, ZenonT(40) DEF ClientHelloFull
  <2>. QED  BY <2>1, <2>2, ZenonT(40) DEF Shut, Deleted
<1>4. CASE ServerHello(m, last)
  <2>1. /\ UNCHANGED <<cfg, readKeys, writeKeys, resumable, cache>>
        /\ version' = cfg.version /\ sessionID' = KeptID(m.body)
    BY <1>4, Zenon DEF ServerHello, Processed
  <2>2. CASE Resumes(KeptID(m.body)) /\ state' = "ChangeCipherSpec"
    <3>1. resumable # NoSession
      BY <2>2, Zenon DEF Resumes
    <3>2. /\ master' = resumable.master /\ peerCert' = InstalledCerts(resumable)
          /\ readPending' = resumable.master /\ writePending' = resumable.master
      BY <1>4, <2>2, Zenon DEF ServerHello, Pending
    <3>. QED  BY <1>1, <2>1, <2>2, <3>1, <3>2, ResumableTyped, Zenon
  <2>3. CASE /\ state' \in {"KeyExchange", "Cert"}
             /\ UNCHANGED <<master, peerCert, readPending, writePending>>
    BY <1>1, <2>1, <2>3, Zenon
  <2>. QED  BY <1>4, <2>2, <2>3, Zenon DEF ServerHello
<1>. QED  BY <1>2, <1>3, <1>4, Zenon

\* Every other message keeps the types.
LEMMA DataMessage ==
    ASSUME DataInv, NEW m, Typed(m), NEW last \in BOOLEAN, Takes(m, last)
    PROVE  DataInv'
<1>. USE DEF DataInv, VersionKnown, SecretKnown, Ready, States, Closed
<1>1. CASE Refuse("failure")
  BY <1>1, DataFatal, Zenon DEF Refuse
<1>2. CASE BadMessage(m)
  <2>1. version' \in {version, cfg.version} /\ Fatal(version', "failure")
    BY <1>2, Zenon DEF BadMessage
  <2>2. ASSUME NEW c \in Certs PROVE <<c>> \o peerCert \in Seq(Certs)
    <3>1. <<c>> \in Seq(Certs)
      OBVIOUS
    <3>. QED  BY <3>1
  <2>3. peerCert' \in Seq(Certs)
    BY <1>2, <2>2, Zenon DEF BadMessage
  <2>. QED  BY <1>2, <2>1, <2>3, DataFatal, Zenon DEF BadMessage
<1>3. CASE HelloRequest(m, last)
  BY <1>3, Zenon DEF HelloRequest, StartHandshake
<1>4. CASE m.type \in {"clientHello", "serverHello"} /\ m.body # Bad
             /\ (ClientHelloResume(m, last) \/ ClientHelloFull(m, last) \/ ServerHello(m, last))
  BY <1>4, DataHello, Zenon
<1>5. CASE m.type = "cert" /\ m.body # Bad /\ Certificate(m, last)
  <2>1. peerCert' \in Seq(Certs)
    BY <1>5, ChainTyped, Zenon DEF Typed, Certificate
  <2>2. UNCHANGED <<version, readSide, writeSide, session>> /\ state \in VersionKnown
    BY <1>5, Zenon DEF Certificate
  <2>3. CASE Fatal(version, "badCert") /\ UNCHANGED cfg
    BY <2>1, <2>2, <2>3, DataFatal, Zenon
  <2>4. CASE state' \in {"ClientKeyExchange", "HelloDone", "KeyExchange"}
             /\ UNCHANGED <<cfg, cache>>
    BY <2>1, <2>2, <2>4
  <2>. QED  BY <1>5, <2>3, <2>4, Zenon DEF Certificate, AfterCertificate, Processed
<1>6. CASE CertRequest(m, last)
  <2>1. UNCHANGED <<version, readSide, writeSide, session, peerCert, cfg>>
    BY <1>6, Zenon DEF CertRequest, Processed
  <2>2. Fatal(version, "failure") \/ UNCHANGED <<state, cache>>
    BY <1>6, Zenon DEF CertRequest
  <2>. QED  BY <2>1, <2>2, DataFatal
<1>7. CASE ServerKeyExchange(m, last)
  BY <1>7, Zenon DEF ServerKeyExchange, Processed
<1>8. CASE ServerHelloDone(m, last)
  <2>1. UNCHANGED <<cfg, version, readKeys, sessionID, resumable, cache, peerCert>>
        /\ state = "HelloDone"
    BY <1>8, Zenon DEF ServerHelloDone
  <2>2. \/ ClientFlight(Append(hash, m))
        \/ UNCHANGED <<readPending, writeSide, master>> /\ state' = "ClientCert"
    BY <1>8, Zenon DEF ServerHelloDone
  <2>. QED  BY <2>1, <2>2, DataFlight, Zenon
<1>9. CASE CertVerify(m, last)
  BY <1>9, Zenon DEF CertVerify, Processed
<1>10. CASE m.type = "clientKeyExchange" /\ m.body # Bad /\ ClientKeyExchange(m, last)
  <2>1. m.body \in Secrets
    BY <1>10, Zenon DEF Typed
  <2>. QED  BY <1>10, <2>1, Zenon DEF ClientKeyExchange, Processed, Pending, AfterKeyExchange
<1>11. CASE Finished(m, last)
  <2>1. /\ UNCHANGED <<cfg, version, readKeys, readPending, session, peerCert>>
        /\ state = "Finished" /\ state' \in Ready
        /\ cache' \in {cache, NewSession}
    BY <1>11, Zenon DEF Finished
  <2>2. NewSession \in Sessions
    BY <2>1, ConstantsAssumption, Zenon DEF NewSession, Session, Sessions
  <2>3. writeKeys' \in {writeKeys, writePending} /\ writePending' \in {writePending, NoKeys}
    BY <1>11, Zenon DEF Finished, SwitchWrite
  <2>. QED  BY <2>1, <2>2, <2>3, Zenon
<1>12. CASE ChangeCipherSpec(m)
  <2>1. CASE Refuse("failure")
    BY <1>1, <2>1, Zenon
  <2>2. CASE ~Refuse("failure")
    BY <1>12, <2>2, Zenon DEF ChangeCipherSpec
  <2>. QED  BY <2>1, <2>2, Zenon
<1>13. CASE CloseNotify(m) \/ ErrorAlert(m) \/ Warning(m) \/ AppData(m)
  <2>1. /\ UNCHANGED <<cfg, version, readSide, writeSide, session, peerCert>>
        /\ cache' \in {cache, Deleted}
    BY <1>13, Zenon DEF CloseNotify, ErrorAlert, Warning, AppData
  <2>2. \/ state' \in {state, "GracefulClose", "ErrorClose"}
        \/ state = "ClientCert" /\ state' = "ClientKeyExchange"
    BY <1>13, Zenon DEF CloseNotify, ErrorAlert, Warning, AppData, Shut
  <2>. QED  BY <2>1, <2>2 DEF Deleted
<1>14. CASE Unanswered(m)
  <2>1. /\ UNCHANGED <<cfg, readSide, writeSide, master, resumable, cache>>
        /\ version' \in {version, cfg.version} /\ state' \in {state, "ErrorClose"}
    BY <1>14, Zenon DEF Unanswered, Shut
  <2>2. ASSUME NEW c \in Certs PROVE <<c>> \o peerCert \in Seq(Certs)
    <3>1. <<c>> \in Seq(Certs)
      OBVIOUS
    <3>. QED  BY <3>1
  <2>3. m.type = "cert" /\ m.body # Bad => Chain(m.body) \in Seq(Certs)
    BY ChainTyped, Zenon DEF Typed
  <2>4. peerCert' \in Seq(Certs)
    BY <1>14, <2>2, <2>3, Zenon DEF Unanswered
  <2>5. sessionID' \in IDs \cup {NoID}
    BY <1>14, Zenon DEF Unanswered, KeptID
  <2>. QED  BY <2>1, <2>4, <2>5
<1>. HIDE DEF DataInv, VersionKnown, SecretKnown, Ready, States, Closed
<1>. QED
  BY <1>1, <1>2, <1>3, <1>4, <1>5, <1>6, <1>7, <1>8, <1>9, <1>10, <1>11, <1>12, <1>13,
     <1>14, Zenon DEF Takes

\* Every step keeps the types.
LEMMA DataNext == DataInv /\ [Next]_vars => DataInv'
<1>1. ASSUME DataInv, Next PROVE DataInv'
  BY <1>1, DataLocal, PeerSteps, DataMessage, Zenon DEF Next
<1>2. ASSUME DataInv, UNCHANGED vars PROVE DataInv'
  BY <1>2, Zenon DEF DataInv, vars
<1>. QED  BY <1>1, <1>2, Zenon

----------------------------------------------------------------------------
(* Keys: where a handshake stands decides which of the six cipher fields    *)
(* hold keys of its master secret.                                          *)

\* The write cipher will be, or already is, switched to the new keys.
WriteAgreed ==
    \/ writePending = master
    \/ writePending = NoKeys /\ writeKeys = master /\ writeReady = TRUE

KeyInv ==
    /\ readReady = TRUE => writeReady = TRUE /\ state \in Ready \cup Closed
    /\ writeReady = TRUE => writeKeys # NoKeys
    /\ state = "ClientCertVerify" => readPending = master /\ writePending = master
    /\ state = "ChangeCipherSpec" => readPending = master /\ WriteAgreed
    /\ state = "Finished" => readKeys = master /\ readPending = NoKeys /\ WriteAgreed
    /\ state \in Ready => /\ peerVerified = TRUE
                          /\ readReady = TRUE /\ writeReady = TRUE
                          /\ readKeys = master /\ writeKeys = master
                          /\ readPending = NoKeys /\ writePending = NoKeys

\* A new context has the null cipher in both directions and is not ready.
LEMMA KeyInit == Init => KeyInv
  BY Zenon DEF Init, KeyInv, Ready

\* A step that closes the context, or leaves the state alone or short of the
\* master secret, and changes no key.
LEMMA KeyFrame ==
    ASSUME KeyInv, UNCHANGED <<readSide, writeSide, master, peerVerified>>,
           \/ state' = state
           \/ state' \in Closed
           \/ state \notin Ready \cup Closed /\ state' \notin SecretKnown
    PROVE  KeyInv'
  BY Zenon DEF KeyInv, WriteAgreed, Closed, Ready, SecretKnown

\* The client's flight switches the write cipher.
LEMMA KeyFlight ==
    ASSUME DataInv, KeyInv, NEW h, ClientFlight(h), state \in {"HelloDone", "ClientCert"},
           UNCHANGED <<readKeys, readReady, peerVerified>>
    PROVE  KeyInv'
<1>1. PICK secret \in Secrets :
         /\ readPending' = secret /\ writeKeys' = secret /\ writePending' = NoKeys
         /\ writeReady' = TRUE /\ master' = secret /\ state' = "ChangeCipherSpec"
  BY Zenon DEF ClientFlight, SwitchWrite
<1>2. readReady # TRUE
  BY Zenon DEF KeyInv, Ready, Closed
<1>. QED  BY <1>1, <1>2, ConstantsAssumption, Zenon DEF KeyInv, WriteAgreed, Ready

\* A new handshake stops traffic in both directions.
LEMMA KeyStart ==
    ASSUME KeyInv, NEW offer, StartHandshake(offer)
    PROVE  KeyInv'
  BY Zenon DEF KeyInv, StartHandshake, StopTraffic, Ready

\* The API's steps keep keys and ready flags in line with the handshake state.
LEMMA KeyLocal ==
    ASSUME DataInv, KeyInv, Local \/ Disconnect
    PROVE  KeyInv'
<1>1. CASE \E c \in {"handshake", "read", "write"} : Call(c)
  BY <1>1, KeyFrame, Zenon DEF Call
<1>2. CASE WouldBlock \/ SignalServerAuth \/ HandshakeDone \/ Write
  BY <1>2, KeyFrame, Zenon DEF WouldBlock, SignalServerAuth, HandshakeDone, Write
<1>3. CASE Close
  BY <1>3, KeyFrame, Zenon DEF Close, Closed
<1>4. CASE InitConnection
  <2>1. CASE StartHandshake(Offer)
    BY <2>1, KeyStart, Zenon
  <2>2. CASE state' = "ServerUninit" /\ UNCHANGED <<readSide, writeSide, peerVerified>>
    BY <1>4, <2>2, KeyFrame, Zenon DEF InitConnection, SecretKnown, Ready, Closed
  <2>. QED  BY <1>4, <2>1, <2>2, Zenon DEF InitConnection
<1>5. CASE ContinueHandshake
  BY <1>5, KeyFlight, Zenon DEF ContinueHandshake
<1>6. CASE Disconnect
  <2>1. state' \in {"NoNotifyClose", "ErrorClose"}
    BY <1>6, Zenon DEF Disconnect, Fatal
  <2>. QED  BY <1>6, <2>1, KeyFrame, Zenon DEF Disconnect, Closed
<1>. QED  BY <1>1, <1>2, <1>3, <1>4, <1>5, <1>6, Zenon DEF Local

\* Every message keeps keys and ready flags in line with the handshake state.
LEMMA KeyMessage ==
    ASSUME DataInv, KeyInv, NEW m, Typed(m), NEW last \in BOOLEAN, Takes(m, last)
    PROVE  KeyInv'
<1>1. CASE Refuse("failure")
  BY <1>1, KeyFrame, Zenon DEF Refuse, Fatal, Closed
<1>2. CASE BadMessage(m)
  BY <1>2, KeyFrame, Zenon DEF BadMessage, Fatal, Closed
<1>3. CASE HelloRequest(m, last)
  BY <1>3, KeyStart, Zenon DEF HelloRequest
<1>4. CASE ClientHelloResume(m, last)
  <2>1. resumable.master \in Secrets /\ readReady # TRUE
    BY <1>4, ResumableTyped, Zenon DEF ClientHelloResume, Resumes, KeyInv, Ready, Closed
  <2>2. /\ master' = resumable.master /\ readPending' = resumable.master
        /\ writeKeys' = resumable.master /\ writePending' = NoKeys /\ writeReady' = TRUE
        /\ state' = "ChangeCipherSpec" /\ UNCHANGED readReady
    BY <1>4, Zenon DEF ClientHelloResume, SwitchWrite
  <2>. QED  BY <2>1, <2>2, ConstantsAssumption, Zenon DEF KeyInv, WriteAgreed, Ready
<1>5. CASE ClientHelloFull(m, last)
  <2>1. /\ UNCHANGED <<readSide, writeSide, master, peerVerified>> /\ state = "ServerUninit"
        /\ state' \in {"ErrorClose", Shut(state), "ClientCert", "ClientKeyExchange"}
    BY <1>5, Zenon DEF ClientHelloFull
  <2>. QED  BY <2>1, KeyFrame, Zenon DEF Shut, Closed, Ready, SecretKnown
<1>6. CASE ServerHello(m, last)
  <2>1. UNCHANGED <<readKeys, readReady, writeKeys, writeReady, peerVerified>>
        /\ state = "ServerHello"
    BY <1>6, Zenon DEF ServerHello
  <2>2. CASE /\ state' \in {"KeyExchange", "Cert"}
             /\ UNCHANGED <<master, peerCert, readPending, writePending>>
    BY <2>1, <2>2, KeyFrame, Zenon DEF Closed, Ready, SecretKnown
  <2>3. CASE /\ state' = "ChangeCipherSpec" /\ master' = resumable.master
             /\ readPending' = resumable.master /\ writePending' = resumable.master
    BY <2>1, <2>3, Zenon DEF KeyInv, WriteAgreed, Ready, Closed
  <2>. QED  BY <1>6, <2>2, <2>3, Zenon DEF ServerHello, Pending
<1>7. CASE Certificate(m, last)
  <2>1. /\ UNCHANGED <<readSide, writeSide, master, peerVerified>>
        /\ state \in {"Cert", "ClientCert"}
        /\ state' \in {"ErrorClose", "ClientKeyExchange", "HelloDone", "KeyExchange"}
    BY <1>7, Zenon DEF Certificate, AfterCertificate, Fatal
  <2>. QED  BY <2>1, KeyFrame, Zenon DEF Closed, Ready, SecretKnown
<1>8. CASE CertRequest(m, last)
  <2>1. /\ UNCHANGED <<readSide, writeSide, master, peerVerified>>
        /\ state' \in {"ErrorClose", state}
    BY <1>8, Zenon DEF CertRequest, Fatal
  <2>. QED  BY <2>1, KeyFrame, Zenon DEF Closed
<1>9. CASE ServerKeyExchange(m, last)
  BY <1>9, KeyFrame, Zenon DEF ServerKeyExchange, Closed, Ready, SecretKnown
<1>10. CASE ServerHelloDone(m, last)
  <2>1. UNCHANGED <<readKeys, readReady, peerVerified>> /\ state = "HelloDone"
    BY <1>10, Zenon DEF ServerHelloDone
  <2>2. \/ ClientFlight(Append(hash, m))
        \/ UNCHANGED <<readPending, writeSide, master>> /\ state' = "ClientCert"
    BY <1>10, Zenon DEF ServerHelloDone
  <2>. QED  BY <2>1, <2>2, KeyFlight, KeyFrame, Zenon DEF Closed, Ready, SecretKnown
<1>11. CASE CertVerify(m, last)
  BY <1>11, Zenon DEF CertVerify, KeyInv, WriteAgreed, Ready, Closed
<1>12. CASE ClientKeyExchange(m, last)
  BY <1>12, Zenon DEF ClientKeyExchange, Pending, AfterKeyExchange, KeyInv, WriteAgreed, Ready,
     Closed
<1>13. CASE Finished(m, last)
  <2>1. /\ UNCHANGED <<readKeys, readPending, master>> /\ readReady' = TRUE
        /\ state = "Finished" /\ state' \in Ready /\ peerVerified' = TRUE
    BY <1>13, Zenon DEF Finished, Ready
  <2>2. master # NoKeys /\ readKeys = master /\ readPending = NoKeys /\ WriteAgreed
    BY <2>1, ConstantsAssumption, Zenon DEF DataInv, SecretKnown, KeyInv
  <2>3. writeKeys' = master /\ writePending' = NoKeys /\ writeReady' = TRUE
    BY <1>13, <2>2 DEF Finished, SwitchWrite, WriteAgreed
  <2>. QED  BY <2>1, <2>2, <2>3, Zenon DEF KeyInv, Ready
<1>14. CASE ChangeCipherSpec(m)
  <2>1. CASE Refuse("failure")
    BY <1>1, <2>1, Zenon
  <2>2. CASE ~Refuse("failure")
    BY <1>14, <2>2, Zenon DEF ChangeCipherSpec, KeyInv, WriteAgreed, Ready, Closed
  <2>. QED  BY <2>1, <2>2, Zenon
<1>15. CASE CloseNotify(m) \/ ErrorAlert(m) \/ Warning(m) \/ AppData(m)
  <2>1. UNCHANGED <<readSide, writeSide, master, peerVerified>>
    BY <1>15, ZenonT(40) DEF CloseNotify, ErrorAlert, Warning, AppData
  <2>2. \/ state' \in {state, "GracefulClose", "ErrorClose"}
        \/ state = "ClientCert" /\ state' = "ClientKeyExchange"
    BY <1>15, Zenon DEF CloseNotify, ErrorAlert, Warning, AppData, Shut
  <2>. QED  BY <2>1, <2>2, KeyFrame, ZenonT(40) DEF Closed, Ready, SecretKnown
<1>16. CASE Unanswered(m)
  BY <1>16, KeyFrame, Zenon DEF Unanswered, Shut, Closed
<1>. QED
  BY <1>1, <1>2, <1>3, <1>4, <1>5, <1>6, <1>7, <1>8, <1>9, <1>10, <1>11, <1>12, <1>13,
     <1>14, <1>15, <1>16, Zenon DEF Takes

\* Every step keeps keys and ready flags in line with the handshake state.
LEMMA KeyNext == DataInv /\ KeyInv /\ [Next]_vars => KeyInv'
<1>1. ASSUME DataInv, KeyInv, Next PROVE KeyInv'
  BY <1>1, KeyLocal, PeerSteps, KeyMessage, Zenon DEF Next
<1>2. ASSUME KeyInv, UNCHANGED vars PROVE KeyInv'
  BY <1>2, KeyFrame, Zenon DEF vars
<1>. QED  BY <1>1, <1>2, Zenon

----------------------------------------------------------------------------
(* Closing. *)

\* A context that is closed for good: no call runs in it that could still read.
Over == state \in Closed /\ (call = "none" \/ state = "NoNotifyClose")

\* The one call that may still read in a closed context is one that was shaking
\* hands when the peer's close_notify came.
ClosedInv ==
    /\ inRecord \in BOOLEAN
    /\ call = "none" => inRecord = FALSE
    /\ state = "ErrorClose" => call = "none"
    /\ state = "NoNotifyClose" => /\ readReady = TRUE /\ writeReady = TRUE
                                  /\ inRecord = FALSE
                                  /\ call \in {"none", "handshake"}
    /\ state = "GracefulClose" => /\ inRecord = FALSE
                                  /\ call = "none" \/ Handshaking

\* A new context is open.
LEMMA ClosedInit == Init => ClosedInv
  BY Zenon DEF Init, ClosedInv

\* A step of the API keeps the invariant; a context that is closed for good stays
\* so, and one that is ready does not leave that state for any other.
LEMMA ClosedLocal ==
    ASSUME KeyInv, ClosedInv, Local \/ Disconnect
    PROVE  ClosedInv' /\ (Over => Over') /\ (state \in Ready => (state \in Ready \/ Over)')
<1>. USE DEF ClosedInv, Closed, Over, Ready
<1>1. CASE \E c \in {"handshake", "read", "write"} : Call(c)
  BY <1>1, Zenon DEF Call
<1>2. CASE WouldBlock \/ SignalServerAuth \/ HandshakeDone \/ Write
  <2>1. UNCHANGED <<state, inRecord, readReady, writeReady>> /\ call' = "none" /\ ~inRecord
    BY <1>2, Zenon DEF WouldBlock, SignalServerAuth, HandshakeDone, Write, Return, Between
  <2>. QED  BY <2>1, Zenon
<1>3. CASE Close
  BY <1>3, Zenon DEF Close
<1>4. CASE InitConnection
  <2>1. /\ state = "Uninit" /\ state' \in {"ServerHello", "ServerUninit"}
        /\ UNCHANGED <<call, inRecord>>
    BY <1>4, Zenon DEF InitConnection, StartHandshake
  <2>. QED  BY <2>1, Zenon
<1>5. CASE ContinueHandshake
  <2>1. state = "ClientCert" /\ state' = "ChangeCipherSpec" /\ UNCHANGED <<call, inRecord>>
    BY <1>5, Zenon DEF ContinueHandshake, ClientFlight
  <2>. QED  BY <2>1, Zenon
<1>6. CASE Disconnect
  <2>1. CASE state = "ClientReady" /\ state' = "NoNotifyClose"
    <3>1. /\ call' = "none" /\ UNCHANGED <<readReady, writeReady>> /\ ~inRecord
          /\ readReady = TRUE /\ writeReady = TRUE /\ inRecord' = inRecord
      BY <1>6, <2>1, Zenon DEF Disconnect, Fatal, Return, Between, KeyInv
    <3>. QED  BY <2>1, <3>1, Zenon
  <2>2. CASE Fatal(version, "fatalClose")
    BY <2>2, Zenon DEF Fatal
  <2>. QED  BY <1>6, <2>1, <2>2, Zenon DEF Disconnect
<1>. QED  BY <1>1, <1>2, <1>3, <1>4, <1>5, <1>6, ZenonT(40) DEF Local

\* Where a message is read, the context is open or a call is still shaking hands.
LEMMA ReadsOpen ==
    ASSUME ClosedInv, Reading
    PROVE  /\ ~Over /\ call # "none"
           /\ state \in Closed => state = "GracefulClose" /\ Handshaking /\ inRecord = FALSE
<1>1. call # "none" /\ (inRecord \/ Handshaking \/ call = "read")
  BY Zenon DEF Reading
<1>2. state # "ErrorClose"
  BY <1>1, Zenon DEF ClosedInv
<1>3. state # "NoNotifyClose"
  <2>1. SUFFICES ASSUME state = "NoNotifyClose" PROVE FALSE
    BY Zenon
  <2>2. readReady = TRUE /\ writeReady = TRUE /\ inRecord = FALSE /\ call = "handshake"
    BY <1>1, <2>1, Zenon DEF ClosedInv
  <2>3. ~Handshaking
    BY <2>2 DEF Handshaking
  <2>. QED  BY <1>1, <2>2, <2>3
<1>. QED  BY <1>1, <1>2, <1>3, Zenon DEF Closed, ClosedInv, Over

\* Only a HelloRequest leads out of the closed states.
LEMMA ClosedKept ==
    ASSUME NEW m, NEW last, Takes(m, last), ~(m.type = "helloRequest" /\ HelloRequest(m, last))
    PROVE  \/ state \notin Closed /\ UNCHANGED sentFatalAlert
           \/ state' \in Closed /\ (UNCHANGED sentFatalAlert \/ sentFatalAlert' \in BOOLEAN)
           \/ UNCHANGED <<state, sentFatalAlert>>
<1>. USE DEF Closed
<1>1. CASE Refuse("failure") \/ BadMessage(m)
  BY <1>1, ZenonT(40) DEF Refuse, BadMessage, Fatal
<1>2. CASE Unanswered(m)
  BY <1>2, Zenon DEF Unanswered, Shut
<1>3. CASE ClientHelloResume(m, last) \/ ServerHello(m, last)
  BY <1>3, Zenon DEF ClientHelloResume, ServerHello, Processed
<1>4. CASE ClientHelloFull(m, last)
  <2>1. /\ state = "ServerUninit"
        /\ (state' = "ErrorClose" /\ sentFatalAlert' = TRUE) \/ UNCHANGED sentFatalAlert
    BY <1>4, ZenonT(40) DEF ClientHelloFull
  <2>. QED  BY <2>1, Zenon
<1>5. CASE Certificate(m, last) \/ CertRequest(m, last)
  BY <1>5, ZenonT(40) DEF Certificate, CertRequest, Processed, Fatal
<1>6. CASE ServerKeyExchange(m, last) \/ CertVerify(m, last) \/ ClientKeyExchange(m, last)
  BY <1>6, Zenon DEF ServerKeyExchange, CertVerify, ClientKeyExchange, Processed
<1>7. CASE ServerHelloDone(m, last) \/ Finished(m, last)
  BY <1>7, ZenonT(40) DEF ServerHelloDone, Finished
<1>8. CASE ChangeCipherSpec(m)
  BY <1>8, ZenonT(40) DEF ChangeCipherSpec, Refuse, Fatal
<1>9. CASE CloseNotify(m) \/ ErrorAlert(m) \/ AppData(m)
  <2>1. (sentFatalAlert \/ version # "undetermined") \in BOOLEAN
    BY Zenon
  <2>. QED  BY <1>9, <2>1, Zenon DEF CloseNotify, ErrorAlert, AppData, Shut
<1>10. CASE Warning(m)
  BY <1>10, Zenon DEF Warning
<1>. QED
  BY <1>1, <1>2, <1>3, <1>4, <1>5, <1>6, <1>7, <1>8, <1>9, <1>10, Zenon DEF Takes

\* A message keeps the invariant.
LEMMA ClosedMessage ==
    ASSUME ClosedInv, NEW m, NEW last \in BOOLEAN, Reading, Takes(m, last)
    PROVE  ClosedInv' /\ ~Over
<1>1. /\ ~Over /\ call # "none"
      /\ state \in Closed => state = "GracefulClose" /\ Handshaking /\ inRecord = FALSE
  BY ReadsOpen, Zenon
<1>2. inRecord \in BOOLEAN /\ (~last) \in BOOLEAN
  BY Zenon DEF ClosedInv
<1>. USE DEF Closed
\* Either the call returns, or it goes on in an open context, or nothing that bears
\* on the invariant changes.
<1>3. \/ call' = "none" /\ inRecord' = FALSE /\ state' \in {state, "ErrorClose", "GracefulClose"}
      \/ call' = "none" /\ inRecord' = FALSE /\ state' \notin Closed
      \/ call' = call /\ inRecord' \in BOOLEAN /\ state' \notin Closed
      \/ /\ call' = call /\ inRecord = FALSE /\ UNCHANGED <<inRecord, readReady, writeReady>>
         /\ state' = state \/ (state' = "GracefulClose" /\ Handshaking)
  <2>1. CASE Refuse("failure") \/ BadMessage(m)
    BY <2>1, ZenonT(40) DEF Refuse, BadMessage, Fatal
  <2>2. CASE Unanswered(m)
    BY <2>2, Zenon DEF Unanswered, Return, Shut
  <2>3. CASE HelloRequest(m, last) \/ ClientHelloResume(m, last) \/ ServerHello(m, last)
    <3>1. /\ state' \in {"ServerHello", "ChangeCipherSpec", "Cert", "KeyExchange"}
          /\ call' = call /\ inRecord' = ~last
      BY <2>3, Zenon DEF HelloRequest, StartHandshake, ClientHelloResume, ServerHello, Processed
    <3>. QED  BY <1>2, <3>1, Zenon
  <2>4. CASE ClientHelloFull(m, last)
    <3>1. \/ state' \in {"ErrorClose", Shut(state)} /\ call' = "none" /\ inRecord' = FALSE
          \/ /\ state' \in {"ClientCert", "ClientKeyExchange"} /\ call' = call
             /\ inRecord' = ~last
      BY <2>4, ZenonT(40) DEF ClientHelloFull, Return
    <3>. QED  BY <1>2, <3>1, ZenonT(40) DEF Shut
  <2>5. CASE Certificate(m, last)
    <3>1. \/ state' = "ErrorClose" /\ call' = "none" /\ inRecord' = FALSE
          \/ /\ state' \in {"ClientKeyExchange", "HelloDone", "KeyExchange"} /\ call' = call
             /\ inRecord' = ~last
      BY <2>5, ZenonT(40) DEF Certificate, AfterCertificate, Processed, Fatal
    <3>. QED  BY <1>2, <3>1, Zenon
  <2>6. CASE CertRequest(m, last)
    <3>1. \/ state' = "ErrorClose" /\ call' = "none" /\ inRecord' = FALSE
          \/ /\ state \in {"HelloDone", "KeyExchange"} /\ state' = state /\ call' = call
             /\ inRecord' = ~last
      BY <2>6, ZenonT(40) DEF CertRequest, Processed, Fatal
    <3>. QED  BY <1>2, <3>1, Zenon
  <2>7. CASE ServerKeyExchange(m, last) \/ CertVerify(m, last) \/ ClientKeyExchange(m, last)
    <3>1. /\ state' \in {"HelloDone", "ChangeCipherSpec", "ClientCertVerify"}
          /\ call' = call /\ inRecord' = ~last
      BY <2>7, Zenon DEF ServerKeyExchange, CertVerify, ClientKeyExchange, AfterKeyExchange,
         Processed
    <3>. QED  BY <1>2, <3>1, Zenon
  <2>8. CASE ServerHelloDone(m, last)
    <3>1. ClientFlight(Append(hash, m)) => state' = "ChangeCipherSpec"
      BY Zenon DEF ClientFlight
    <3>2. \/ state' = "ClientCert" /\ call' = "none" /\ inRecord' = FALSE
          \/ state' = "ChangeCipherSpec" /\ call' = call /\ inRecord' = ~last
      BY <2>8, <3>1, Zenon DEF ServerHelloDone, Return
    <3>. QED  BY <1>2, <3>2, Zenon
  <2>9. CASE Finished(m, last)
    <3>1. state' \in {"ServerReady", "ClientReady"} /\ call' = call /\ inRecord' = ~last
      BY <2>9, ZenonT(40) DEF Finished
    <3>. QED  BY <1>2, <3>1, Zenon
  <2>10. CASE ChangeCipherSpec(m)
    <3>1. CASE Refuse("failure")
      BY <2>1, <3>1, Zenon
    <3>2. CASE state' = "Finished" /\ UNCHANGED <<call, inRecord>>
      BY <1>2, <3>2, Zenon
    <3>. QED  BY <2>10, <3>1, <3>2, Zenon DEF ChangeCipherSpec
  <2>11. CASE ~inRecord /\ (CloseNotify(m) \/ ErrorAlert(m) \/ Warning(m) \/ AppData(m))
    <3>1. inRecord = FALSE /\ UNCHANGED <<inRecord, readReady, writeReady>>
      BY <1>2, <2>11, ZenonT(40) DEF CloseNotify, ErrorAlert, Warning, AppData
    <3>2. CASE CloseNotify(m)
      BY <3>1, <3>2, Zenon DEF CloseNotify, Return
    <3>3. CASE ErrorAlert(m) \/ AppData(m)
      BY <3>1, <3>3, Zenon DEF ErrorAlert, AppData, Return, Shut
    <3>4. CASE Warning(m)
      BY <3>1, <3>4, Zenon DEF Warning
    <3>. QED  BY <2>11, <3>2, <3>3, <3>4, Zenon
  <2>. QED
    BY <2>1, <2>2, <2>3, <2>4, <2>5, <2>6, <2>7, <2>8, <2>9, <2>10, <2>11, Zenon DEF Takes
<1>4. UNCHANGED <<call, readReady, writeReady>> => (Handshaking => Handshaking')
  BY DEF Handshaking
<1>5. inRecord' \in BOOLEAN /\ (call' = "none" => inRecord' = FALSE)
  BY <1>1, <1>2, <1>3, Zenon
<1>6. state' = "ErrorClose" => call' = "none"
  BY <1>1, <1>3, Zenon
<1>7. state' # "NoNotifyClose"
  BY <1>1, <1>3, Zenon
<1>8. state' = "GracefulClose" => inRecord' = FALSE /\ (call' = "none" \/ Handshaking')
  BY <1>1, <1>3, <1>4, Zenon
<1>. QED  BY <1>1, <1>5, <1>6, <1>7, <1>8, Zenon DEF ClosedInv

\* Only a HelloRequest makes a ready context shake hands again.
LEMMA ReadyKept ==
    ASSUME KeyInv, state \in Ready, NEW m, NEW last, Takes(m, last),
           ~(m.type = "helloRequest" /\ HelloRequest(m, last))
    PROVE  (state \in Ready \/ Over)'
<1>1. ~Handshaking
  BY DEF KeyInv, Handshaking
<1>2. CASE Refuse("failure") \/ BadMessage(m)
  BY <1>2, ZenonT(40) DEF Refuse, BadMessage, Fatal, Over, Closed
<1>3. CASE Unanswered(m)
  BY <1>3, Zenon DEF Unanswered, Return, Shut, Over, Closed
<1>4. CASE \/ ClientHelloResume(m, last) \/ ClientHelloFull(m, last) \/ ServerHello(m, last)
           \/ Certificate(m, last) \/ CertRequest(m, last) \/ ServerKeyExchange(m, last)
           \/ ServerHelloDone(m, last) \/ CertVerify(m, last) \/ ClientKeyExchange(m, last)
           \/ Finished(m, last)
  BY <1>4, ZenonT(40) DEF ClientHelloResume, ClientHelloFull, ServerHello, Certificate,
     CertRequest, ServerKeyExchange, ServerHelloDone, CertVerify, ClientKeyExchange, Finished,
     Ready
<1>5. CASE ChangeCipherSpec(m)
  BY <1>2, <1>5, Zenon DEF ChangeCipherSpec, Ready
<1>6. CASE CloseNotify(m) \/ ErrorAlert(m) \/ Warning(m) \/ AppData(m)
  <2>1. CASE CloseNotify(m)
    BY <1>1, <2>1, Zenon DEF CloseNotify, Return, Over, Closed
  <2>2. CASE ErrorAlert(m)
    BY <2>2, Zenon DEF ErrorAlert, Return, Shut, Over, Closed
  <2>3. CASE Warning(m)
    BY <2>3, Zenon DEF Warning, Ready
  <2>4. CASE AppData(m)
    BY <1>1, <2>4, Zenon DEF AppData
  <2>. QED  BY <1>6, <2>1, <2>2, <2>3, <2>4, Zenon
<1>. QED
  BY <1>2, <1>3, <1>4, <1>5, <1>6, Zenon DEF Takes

\* One step keeps the invariant, and a context that is closed for good stays so.
LEMMA ClosedStep ==
    ASSUME KeyInv, ClosedInv, Next
    PROVE  ClosedInv' /\ (Over => Over')
  BY ClosedLocal, ClosedMessage, PeerSteps, Zenon DEF Next

----------------------------------------------------------------------------
(* Sequences of whatever their elements are. *)

Items(s) == {s[i] : i \in 1 .. Len(s)}
IsSeq(s) == s \in Seq(Items(s))

\* A sequence over a set is one over its own elements.
LEMMA SeqIsSeq ==
    ASSUME NEW S, NEW s \in Seq(S)
    PROVE  IsSeq(s) /\ Len(s) \in Nat
  BY DEF IsSeq, Items

\* The elements of a concatenation.
LEMMA ConcatSeq ==
    ASSUME NEW s, NEW t, IsSeq(s), IsSeq(t)
    PROVE  /\ IsSeq(s \o t)
           /\ Len(s) \in Nat /\ Len(t) \in Nat
           /\ Len(s \o t) = Len(s) + Len(t)
           /\ \A i \in 1 .. Len(s) : (s \o t)[i] = s[i]
           /\ \A i \in 1 .. Len(t) : (s \o t)[Len(s) + i] = t[i]
           /\ \A i \in 1 .. Len(s \o t) :
                 \/ i \in 1 .. Len(s)
                 \/ i - Len(s) \in 1 .. Len(t) /\ (s \o t)[i] = t[i - Len(s)]
<1> DEFINE S == Items(s) \cup Items(t)
<1>1. s \in Seq(S) /\ t \in Seq(S)
  BY DEF IsSeq
<1> HIDE DEF S
<1>2. s \o t \in Seq(S)
  BY <1>1
<1>3. IsSeq(s \o t)
  BY <1>2, SeqIsSeq, Zenon
<1>4. Len(s) \in Nat /\ Len(t) \in Nat /\ Len(s \o t) = Len(s) + Len(t)
  BY <1>1
<1>5. \A i \in 1 .. Len(s) : (s \o t)[i] = s[i]
  BY <1>1
<1>6. ASSUME NEW i \in 1 .. Len(t) PROVE (s \o t)[Len(s) + i] = t[i]
  BY <1>1, <1>4
<1>7. ASSUME NEW i \in 1 .. Len(s \o t), i \notin 1 .. Len(s)
      PROVE  i - Len(s) \in 1 .. Len(t) /\ (s \o t)[i] = t[i - Len(s)]
  BY <1>1, <1>4, <1>7
<1> QED
  BY <1>3, <1>4, <1>5, <1>6, <1>7, Zenon

\* A message by itself.
LEMMA SingleSeq ==
    ASSUME NEW m
    PROVE  IsSeq(<<m>>) /\ Len(<<m>>) = 1 /\ <<m>>[1] = m
<1>1. <<m>> \in Seq({m})
  OBVIOUS
<1> QED
  BY <1>1, SeqIsSeq, Zenon

\* No message.
LEMMA EmptySeq == IsSeq(<<>>) /\ Len(<<>>) = 0
<1>1. <<>> \in Seq({})
  OBVIOUS
<1> QED
  BY <1>1, SeqIsSeq, Zenon

\* The elements of a sequence with one more at its end.
LEMMA AppendSeq ==
    ASSUME NEW h, NEW m, IsSeq(h)
    PROVE  /\ IsSeq(Append(h, m))
           /\ Len(h) \in Nat /\ Len(Append(h, m)) = Len(h) + 1
           /\ \A i \in 1 .. Len(h) : Append(h, m)[i] = h[i]
           /\ Append(h, m)[Len(h) + 1] = m
<1> DEFINE S == Items(h) \cup {m}
<1>1. h \in Seq(S) /\ m \in S
  BY DEF IsSeq
<1> HIDE DEF S
<1>2. Append(h, m) \in Seq(S)
  BY <1>1
<1>3. IsSeq(Append(h, m))
  BY <1>2, SeqIsSeq, Zenon
<1>. QED  BY <1>1, <1>3

\* Messages put into records.
LEMMA SentSeq ==
    ASSUME NEW k, NEW s, IsSeq(s)
    PROVE  /\ IsSeq(Sent(k, s)) /\ Len(Sent(k, s)) = Len(s) /\ Len(s) \in Nat
           /\ \A i \in 1 .. Len(s) : Sent(k, s)[i] = [keys |-> k, msg |-> s[i]]
<1>1. Len(s) \in Nat
  BY DEF IsSeq
<1> DEFINE R == {[keys |-> k, msg |-> s[i]] : i \in 1 .. Len(s)}
<1>2. Sent(k, s) \in [1 .. Len(s) -> R]
  BY Zenon DEF Sent
<1>3. Sent(k, s) \in Seq(R) /\ Len(Sent(k, s)) = Len(s)
  BY <1>1, <1>2
<1>4. \A i \in 1 .. Len(s) : Sent(k, s)[i] = [keys |-> k, msg |-> s[i]]
  BY Zenon DEF Sent
<1> HIDE DEF R
<1> QED
  BY <1>1, <1>3, <1>4, SeqIsSeq, Zenon

\* A sequence with one more at its end, as a concatenation.
LEMMA AppendConcat ==
    ASSUME NEW h, NEW m, IsSeq(h)
    PROVE  h \o <<m>> = Append(h, m)
<1> DEFINE S == Items(h) \cup {m}
<1>1. h \in Seq(S) /\ m \in S
  BY DEF IsSeq
<1> HIDE DEF S
<1>. QED  BY <1>1


----------------------------------------------------------------------------
(* What a context writes when the other end is one of the library's too and *)
(* no handshake follows the first.                                          *)

\* A message as the library encodes it.
Sendable(m) ==
    /\ m = Msg(m.type, m.body)
    /\ m.type # "helloRequest"
    /\ m.type \in {"clientHello", "serverHello"} => m.body \in IDs \cup {NoID}
    /\ m.type = "cert" => m.body = cfg.cert
    /\ m.type = "clientKeyExchange" => m.body \in Secrets

\* Messages of a flight ahead of its Finished.
Plain(s) ==
    IsSeq(s) /\ \A i \in 1 .. Len(s) : Sendable(s[i]) /\ s[i].type \notin {"finished", "data"}

\* One such message.
LEMMA PlainSingle ==
    ASSUME NEW m, Sendable(m), m.type \notin {"finished", "data"}
    PROVE  Plain(<<m>>)
  BY SingleSeq DEF Plain

\* None.
LEMMA PlainEmpty == Plain(<<>>)
  BY EmptySeq DEF Plain

\* One after the other.
LEMMA PlainConcat ==
    ASSUME NEW s, NEW t, Plain(s), Plain(t)
    PROVE  Plain(s \o t)
<1>1. IsSeq(s) /\ IsSeq(t)
  BY Zenon DEF Plain
<1>. QED  BY <1>1, ConcatSeq DEF Plain

\* A message that is sent on a condition.
LEMMA PlainOpt ==
    ASSUME NEW b, NEW m, Plain(<<m>>)
    PROVE  Plain(Opt(b, m))
  BY PlainEmpty, Zenon DEF Opt

\* Records without a Finished, and with data only once the write cipher is ready.
Uttered(r) ==
    /\ IsSeq(r)
    /\ \A i \in 1 .. Len(r) :
          /\ Sendable(r[i].msg)
          /\ r[i].msg.type # "finished"
          /\ r[i].msg.type = "data" => writeReady = TRUE /\ r[i].keys = writeKeys

Utters == \E r : Uttered(r) /\ out' = out \o r

\* Such records, then a Finished that says b.
Finishes(b) ==
    \E r, f : /\ Uttered(r) /\ IsSeq(f) /\ Len(f) = 1 /\ f[1].msg = Msg("finished", b)
              /\ out' = (out \o r) \o f

\* Messages in records.
LEMMA PlainUttered ==
    ASSUME NEW k, NEW s, Plain(s)
    PROVE  Uttered(Sent(k, s))
<1> DEFINE r == Sent(k, s)
<1>1. /\ IsSeq(r) /\ Len(r) = Len(s)
      /\ \A i \in 1 .. Len(s) : r[i] = [keys |-> k, msg |-> s[i]]
  BY SentSeq, Zenon DEF Plain
<1> HIDE DEF r
<1>2. ASSUME NEW i \in 1 .. Len(r) PROVE r[i].msg = s[i]
  <2>1. r[i] = [keys |-> k, msg |-> s[i]]
    BY <1>1, Zenon
  <2>. QED  BY <2>1
<1>3. Uttered(r)
  BY <1>1, <1>2, Zenon DEF Uttered, Plain
<1>. QED  BY <1>3, Zenon DEF r

\* A step that writes nothing.
LEMMA SilentUtters == ASSUME IsSeq(out), UNCHANGED out PROVE Utters
<1>1. out = out \o <<>>
  BY DEF IsSeq
<1>2. Uttered(<<>>)
  BY EmptySeq DEF Uttered
<1>. QED  BY <1>1, <1>2, Zenon DEF Utters

\* A step that writes a flight.
LEMMA PlainUtters ==
    ASSUME NEW k, NEW s, Plain(s), out' = out \o Sent(k, s)
    PROVE  Utters
  BY PlainUttered, Zenon DEF Utters

\* A step that may send an alert.
LEMMA AlertUtters ==
    ASSUME IsSeq(out), NEW v, NEW a, out' = out \o AlertOut(v, a)
    PROVE  Utters
<1>1. Plain(<<Msg("alert", a)>>)
  <2>1. Sendable(Msg("alert", a)) /\ Msg("alert", a).type = "alert"
    BY Zenon DEF Sendable, Msg
  <2>. QED  BY <2>1, PlainSingle, Zenon
<1>2. CASE AlertOut(v, a) = Sent(writeKeys, <<Msg("alert", a)>>)
  BY <1>1, <1>2, PlainUtters, Zenon
<1>3. CASE AlertOut(v, a) = <<>>
  <2>1. out = out \o <<>>
    BY DEF IsSeq
  <2>. QED  BY <1>3, <2>1, SilentUtters, Zenon
<1>. QED  BY <1>2, <1>3, Zenon DEF AlertOut

\* SSLWrite writes one record of data under the write cipher, which is ready.
LEMMA WriteUtters ==
    ASSUME Write, writeReady \in BOOLEAN
    PROVE  Utters
<1> DEFINE m == Msg("data", "ok")
           r == Sent(writeKeys, <<m>>)
<1>1. writeReady = TRUE
  BY Zenon DEF Write, Handshaking
<1>2. IsSeq(r) /\ Len(r) = 1 /\ r[1] = [keys |-> writeKeys, msg |-> m]
  BY SingleSeq, SentSeq
<1>3. Sendable(m) /\ m.type = "data"
  BY Zenon DEF Sendable, Msg
<1>4. out' = out \o r
  BY Zenon DEF Write
<1> HIDE DEF r, m
<1>5. r[1].msg = m /\ r[1].keys = writeKeys
  BY <1>2
<1>6. ASSUME NEW i \in 1 .. Len(r) PROVE i = 1
  BY <1>2
<1>7. Uttered(r)
  BY <1>1, <1>2, <1>3, <1>5, <1>6, Zenon DEF Uttered
<1>. QED  BY <1>4, <1>7, Zenon DEF Utters

\* ChangeCipherSpec and Finished.
LEMMA SwitchFinishes ==
    ASSUME NEW before, NEW k, NEW m, NEW h, Plain(before), SwitchWrite(before, k, m, h)
    PROVE  Finishes(VerifyData(cfg.side, m, h))
<1> DEFINE fin == Msg("finished", VerifyData(cfg.side, m, h))
           r == Sent(writeKeys, before \o <<Msg("ccs", "ok")>>)
           f == Sent(k, <<fin>>)
<1>1. Uttered(r)
  <2>1. Sendable(Msg("ccs", "ok")) /\ Msg("ccs", "ok").type = "ccs"
    BY Zenon DEF Sendable, Msg
  <2>. QED  BY <2>1, PlainSingle, PlainConcat, PlainUttered, Zenon
<1>2. IsSeq(f) /\ Len(f) = 1 /\ f[1] = [keys |-> k, msg |-> fin]
  BY SingleSeq, SentSeq
<1>3. out' = (out \o r) \o f
  BY Zenon DEF SwitchWrite
<1> HIDE DEF r, f
<1>4. f[1].msg = fin
  BY <1>2
<1>. QED  BY <1>1, <1>2, <1>3, <1>4, Zenon DEF Finishes

----------------------------------------------------------------------------
(* The course of the first handshake, as the transcript tells it.           *)

Fin == Msg("finished", "ok")
Late == {"ChangeCipherSpec", "Finished"} \cup Ready
Early == {"Cert", "KeyExchange", "HelloDone", "ClientCert", "ClientKeyExchange",
          "ClientCertVerify"}

\* The server that resumes and the client that does not send their Finished first.
SendsFirst == (Server /\ resumed = TRUE) \/ (Client /\ resumed = FALSE)

\* The second message is the ServerHello, which names the session that is resumed;
\* the third one is a Finished in a handshake that resumes, and only there.
CourseInv ==
    /\ IsSeq(hash)
    /\ resumed \in BOOLEAN
    /\ state \in {"ServerHello", "Cert", "KeyExchange", "HelloDone"} => Client
    /\ state \in {"ServerUninit", "ClientKeyExchange", "ClientCertVerify"} => Server
    /\ state = "ServerHello" => Len(hash) = 1
    /\ state \in {"Uninit", "ServerHello"} => sessionID = NoID /\ resumed = FALSE
    /\ state = "Uninit" => Len(hash) = 0
    /\ state = "ServerUninit" => resumed = FALSE
    /\ state \in Early => Len(hash) >= 2 /\ resumed = FALSE
    /\ state = "ClientCert" /\ Client => Len(hash) >= 3
    /\ state \in Late => Len(hash) >= 2 /\ (resumed = FALSE => Len(hash) >= 3)
    /\ state \in {"ChangeCipherSpec", "Finished"} => (writePending = NoKeys <=> SendsFirst)
    /\ Len(hash) >= 2 => /\ hash[2].type = "serverHello"
                         /\ cfg.peerID => sessionID = hash[2].body
    /\ Len(hash) >= 3 => (hash[3].type = "finished" <=> resumed = TRUE)

\* What the Finished that was sent says: its transcript is what was hashed, up to
\* the Finished itself and the one that answers it.
Says(b) ==
    /\ state \in Late \cup Closed
    /\ version = cfg.version /\ writeKeys = master /\ writePending = NoKeys
    /\ \E h : /\ IsSeq(h) /\ Len(h) >= 2
              /\ b = VerifyData(cfg.side, master, h)
              /\ \/ hash = Append(h, Fin)
                 \/ /\ SendsFirst /\ state \in Ready \cup Closed
                    /\ hash = Append(Append(h, Fin), Fin)

\* What a Finished from the other end that was accepted said.
Confirmed(b) ==
    \E h : /\ IsSeq(h) /\ Len(h) >= 2
           /\ b = VerifyData(PeerSide, master, h)
           /\ hash = IF SendsFirst THEN Append(h, Fin) ELSE Append(Append(h, Fin), Fin)

Told == \E i \in 1 .. Len(out) : out[i].msg.type = "finished"

\* Every record is encoded well; data comes after the Finished, under the keys of
\* the master secret.
SentInv ==
    /\ IsSeq(out)
    /\ \A i \in 1 .. Len(out) :
          /\ \A m : out[i].msg = m => Sendable(m)
          /\ \A b : out[i].msg = Msg("finished", b) => Says(b)
          /\ out[i].msg.type = "data" =>
                /\ out[i].keys = master
                /\ \E j \in 1 .. (i - 1) : out[j].msg.type = "finished"
    /\ writeReady \in BOOLEAN
    /\ writeReady = TRUE => Told

\* The records written so far stay.
Keeps ==
    /\ Len(out) \in Nat /\ Len(out') \in Nat /\ Len(out) =< Len(out')
    /\ \A i \in 1 .. Len(out) : out'[i] = out[i]

\* The peer's certificates are those of the other end, c, and the session that may
\* be resumed has them too.
CertInv(c) ==
    /\ state \in {"Uninit", "ServerUninit", "ServerHello", "Cert"} => peerCert = <<>>
    /\ Server /\ state \in {"Uninit", "ServerUninit", "ClientCert"} =>
          peerCert = <<>> /\ certReceived = FALSE
    /\ Server /\ certReceived = TRUE /\ state \notin Closed => peerCert = <<c>>
    /\ certReceived \in BOOLEAN
    /\ Client /\ cfg.kx # "anon" =>
          /\ state \in {"HelloDone", "KeyExchange", "ClientCert"} \cup Late => peerCert = <<c>>
          /\ state = "Uninit" => cache = NoSession \/ cache.certs = <<c>>
          /\ resumable = NoSession \/ resumable.certs = <<c>>
    /\ state \in Ready /\ cfg.peerID => cache = NewSession

\* Who has sent the Finished has the master secret in use.
LEMMA ToldFacts ==
    ASSUME SentInv, Told
    PROVE  state \in Late \cup Closed /\ writeKeys = master /\ writePending = NoKeys
<1>1. PICK i \in 1 .. Len(out) : out[i].msg.type = "finished"
  BY Zenon DEF Told
<1>2. out[i].msg = Msg("finished", out[i].msg.body)
  BY <1>1, Zenon DEF SentInv, Sendable
<1>3. Says(out[i].msg.body)
  BY <1>2, Zenon DEF SentInv
<1>. QED  BY <1>3, Zenon DEF Says

\* Nothing but a Finished is added, and what was said stays true.
LEMMA SentKeeps ==
    ASSUME SentInv, Utters, UNCHANGED cfg, writeReady' \in {writeReady, FALSE},
           Told => UNCHANGED master /\ \A b : Says(b) => Says(b)'
    PROVE  SentInv' /\ Keeps
<1>1. PICK r : Uttered(r) /\ out' = out \o r
  BY Zenon DEF Utters
<1>2. IsSeq(out) /\ IsSeq(r)
  BY <1>1, Zenon DEF SentInv, Uttered
<1>3. /\ IsSeq(out') /\ Len(out) \in Nat /\ Len(r) \in Nat /\ Len(out') = Len(out) + Len(r)
      /\ \A i \in 1 .. Len(out) : out'[i] = out[i]
      /\ \A i \in 1 .. Len(out') :
            i \in 1 .. Len(out) \/ (i - Len(out) \in 1 .. Len(r) /\ out'[i] = r[i - Len(out)])
  BY <1>1, <1>2, ConcatSeq, Zenon
<1>4. Keeps
  BY <1>3 DEF Keeps
<1>5. Told => Told'
  BY <1>3 DEF Told
<1>6. ASSUME NEW m PROVE Sendable(m) <=> Sendable(m)'
  BY Zenon DEF Sendable
<1>7. ASSUME NEW i \in 1 .. Len(out')
      PROVE  /\ \A m : out'[i].msg = m => Sendable(m)'
             /\ \A b : out'[i].msg = Msg("finished", b) => Says(b)'
             /\ out'[i].msg.type = "data" =>
                   out'[i].keys = master' /\ \E j \in 1 .. (i - 1) : out'[j].msg.type = "finished"
  <2>1. CASE i \in 1 .. Len(out)
    <3>1. out'[i] = out[i]
      BY <1>3, <2>1, Zenon
    <3>2. \A m : out'[i].msg = m => Sendable(m)'
      BY <1>6, <2>1, <3>1, Zenon DEF SentInv
    <3>3. ASSUME NEW b, out'[i].msg = Msg("finished", b) PROVE Says(b)'
      <4>1. Told
        BY <2>1, <3>1, <3>3 DEF Told, Msg
      <4>2. Says(b)
        BY <2>1, <3>1, <3>3, Zenon DEF SentInv
      <4>. QED  BY <4>1, <4>2, Zenon
    <3>4. ASSUME out'[i].msg.type = "data"
          PROVE  out'[i].keys = master' /\ \E j \in 1 .. (i - 1) : out'[j].msg.type = "finished"
      <4>1. PICK j \in 1 .. (i - 1) : out[j].msg.type = "finished"
        BY <2>1, <3>1, <3>4, Zenon DEF SentInv
      <4>2. j \in 1 .. Len(out)
        BY <1>3, <2>1
      <4>3. Told /\ out'[j] = out[j]
        BY <1>3, <4>1, <4>2, Zenon DEF Told
      <4>4. out[i].keys = master
        BY <2>1, <3>1, <3>4, Zenon DEF SentInv
      <4>. QED  BY <3>1, <4>1, <4>3, <4>4, Zenon
    <3>. QED  BY <3>2, <3>3, <3>4, Zenon
  <2>2. CASE i - Len(out) \in 1 .. Len(r) /\ out'[i] = r[i - Len(out)]
    <3>1. (\A m : out'[i].msg = m => Sendable(m)) /\ out'[i].msg.type # "finished"
      BY <1>1, <2>2, Zenon DEF Uttered
    <3>3. \A m : out'[i].msg = m => Sendable(m)'
      BY <1>6, <3>1, Zenon
    <3>4. ASSUME NEW b PROVE out'[i].msg # Msg("finished", b)
      BY <3>1 DEF Msg
    <3>2. ASSUME out'[i].msg.type = "data"
          PROVE  out'[i].keys = master' /\ \E j \in 1 .. (i - 1) : out'[j].msg.type = "finished"
      <4>1. writeReady = TRUE /\ out'[i].keys = writeKeys
        BY <1>1, <2>2, <3>2, Zenon DEF Uttered
      <4>2. Told
        BY <4>1, Zenon DEF SentInv
      <4>3. PICK j \in 1 .. Len(out) : out[j].msg.type = "finished"
        BY <4>2, Zenon DEF Told
      <4>4. j \in 1 .. (i - 1) /\ out'[j] = out[j]
        BY <1>3, <2>2
      <4>5. writeKeys = master /\ UNCHANGED master
        BY <4>2, ToldFacts, Zenon
      <4>. QED  BY <4>1, <4>3, <4>4, <4>5, Zenon
    <3>. QED  BY <3>2, <3>3, <3>4, Zenon
  <2>. QED  BY <1>3, <2>1, <2>2, Zenon
<1>8. writeReady' \in BOOLEAN /\ (writeReady' = TRUE => Told')
  BY <1>5, Zenon DEF SentInv
<1>. QED  BY <1>3, <1>4, <1>7, <1>8, Zenon DEF SentInv

\* A step that writes before the Finished.
LEMMA SentBefore ==
    ASSUME SentInv, state \notin Late \cup Closed, Utters, UNCHANGED cfg,
           writeReady' \in {writeReady, FALSE}
    PROVE  SentInv' /\ Keeps
  BY ToldFacts, SentKeeps, Zenon

\* The step that sends the Finished.
LEMMA SentFinished ==
    ASSUME SentInv, NEW b, Finishes(b), UNCHANGED cfg, writeReady' = TRUE, ~Told, Says(b)'
    PROVE  SentInv' /\ Keeps
<1>1. PICK r, f : /\ Uttered(r) /\ IsSeq(f) /\ Len(f) = 1 /\ f[1].msg = Msg("finished", b)
                  /\ out' = (out \o r) \o f
  BY Zenon DEF Finishes
<1> DEFINE s == out \o r
<1>2. /\ IsSeq(s) /\ Len(out) \in Nat /\ Len(r) \in Nat /\ Len(s) = Len(out) + Len(r)
      /\ \A i \in 1 .. Len(out) : s[i] = out[i]
      /\ \A i \in 1 .. Len(s) :
            i \in 1 .. Len(out) \/ (i - Len(out) \in 1 .. Len(r) /\ s[i] = r[i - Len(out)])
  BY <1>1, ConcatSeq DEF SentInv, Uttered
<1>3. out' = s \o f
  BY <1>1, Zenon
<1> HIDE DEF s
<1>4. /\ IsSeq(out') /\ Len(out') = Len(s) + Len(f)
      /\ \A i \in 1 .. Len(s) : out'[i] = s[i]
      /\ \A i \in 1 .. Len(out') :
            i \in 1 .. Len(s) \/ (i - Len(s) \in 1 .. Len(f) /\ out'[i] = f[i - Len(s)])
  <2>1. IsSeq(s) /\ IsSeq(f)
    BY <1>1, <1>2, Zenon
  <2>. QED  BY <1>3, <2>1, ConcatSeq, Zenon
<1>5. Keeps
  BY <1>1, <1>2, <1>4 DEF Keeps
<1>6. ASSUME NEW m PROVE Sendable(m) <=> Sendable(m)'
  BY Zenon DEF Sendable
<1>7. writeReady # TRUE
  BY Zenon DEF SentInv
<1>8. ASSUME NEW i \in 1 .. Len(s)
      PROVE  (\A m : out'[i].msg = m => Sendable(m)) /\ out'[i].msg.type \notin {"finished", "data"}
  <2>1. out'[i] = s[i]
    BY <1>4, Zenon
  <2>2. CASE i \in 1 .. Len(out)
    <3>1. s[i] = out[i] /\ (\A m : out[i].msg = m => Sendable(m)) /\ out[i].msg.type # "finished"
      BY <1>2, <2>2, Zenon DEF SentInv, Told
    <3>2. ASSUME out[i].msg.type = "data" PROVE FALSE
      <4>1. PICK j \in 1 .. (i - 1) : out[j].msg.type = "finished"
        BY <2>2, <3>2, Zenon DEF SentInv
      <4>2. j \in 1 .. Len(out)
        BY <1>2, <2>2
      <4>. QED  BY <4>1, <4>2, Zenon DEF Told
    <3>. QED  BY <2>1, <3>1, <3>2, Zenon
  <2>3. CASE i - Len(out) \in 1 .. Len(r) /\ s[i] = r[i - Len(out)]
    BY <1>1, <1>7, <2>1, <2>3, Zenon DEF Uttered
  <2>. QED  BY <1>2, <2>2, <2>3, Zenon
<1>9. ASSUME NEW i \in 1 .. Len(out'), i \notin 1 .. Len(s)
      PROVE  out'[i].msg = Msg("finished", b)
  <2>1. i - Len(s) = 1 /\ out'[i] = f[i - Len(s)]
    BY <1>1, <1>2, <1>4, <1>9
  <2>. QED  BY <1>1, <2>1, Zenon
<1>10. Sendable(Msg("finished", b)) /\ Msg("finished", b).type = "finished"
  BY Zenon DEF Sendable, Msg
<1>11. Told'
  <2>1. Len(out') \in 1 .. Len(out') /\ Len(out') \notin 1 .. Len(s)
    BY <1>1, <1>2, <1>4
  <2>. QED  BY <1>9, <1>10, <2>1, Zenon DEF Told
<1>12. ASSUME NEW i \in 1 .. Len(out')
       PROVE  /\ \A m : out'[i].msg = m => Sendable(m)'
              /\ \A d : out'[i].msg = Msg("finished", d) => Says(d)'
              /\ out'[i].msg.type # "data"
  <2>1. CASE i \in 1 .. Len(s)
    <3>1. ASSUME NEW d PROVE out'[i].msg # Msg("finished", d)
      BY <1>8, <2>1 DEF Msg
    <3>. QED  BY <1>6, <1>8, <2>1, <3>1, Zenon
  <2>2. CASE i \notin 1 .. Len(s)
    <3>1. ASSUME NEW d, Msg("finished", b) = Msg("finished", d) PROVE b = d
      BY <3>1, Zenon DEF Msg
    <3>. QED  BY <1>6, <1>9, <1>10, <2>2, <3>1, Zenon
  <2>. QED  BY <2>1, <2>2, Zenon
<1>. QED  BY <1>4, <1>5, <1>11, <1>12, Zenon DEF SentInv

----------------------------------------------------------------------------
(* Steps that leave the handshake where it is, or end it. *)

Calm ==
    /\ UNCHANGED <<cfg, readSide, writeSide, session, hash, certReceived>>
    /\ state' = state \/ state' \in Closed
    /\ version' \in {version, cfg.version}
    /\ state' \notin Closed => UNCHANGED peerCert
    /\ state' \in Ready \cup {"Uninit"} => UNCHANGED cache
    /\ Utters
    /\ inRecord' = FALSE

\* They disturb none of the invariants.
LEMMA CalmKeeps ==
    ASSUME DataInv, CourseInv, SentInv, NEW c, CertInv(c), Calm
    PROVE  CourseInv' /\ SentInv' /\ CertInv(c)' /\ Keeps
<1>1. /\ UNCHANGED <<cfg, readKeys, readReady, readPending, writeKeys, writeReady, writePending,
                     master, sessionID, resumable, resumed, hash, certReceived>>
      /\ state' = state \/ state' \in Closed
      /\ version' \in {version, cfg.version}
      /\ state' \notin Closed => UNCHANGED peerCert
      /\ state' \in Ready \cup {"Uninit"} => UNCHANGED cache
      /\ Utters
  BY Zenon DEF Calm
<1>2. CourseInv'
  BY <1>1, Zenon DEF CourseInv, Closed, Early, Late, Ready, Server, Client, SendsFirst
<1>3. ASSUME NEW b, Says(b) PROVE Says(b)'
  BY <1>1, <1>3, Zenon DEF Says, Closed, Late, Ready, SendsFirst, Server, Client
<1>4. SentInv' /\ Keeps
  BY <1>1, <1>3, SentKeeps, Zenon
<1>5. CertInv(c)'
  <2>1. CASE state' \in Closed
    BY <1>1, <2>1, Zenon DEF CertInv, Closed, Late, Ready, Server, Client
  <2>2. CASE state' = state /\ state' \notin Closed
    <3>1. state \in Ready => UNCHANGED <<version, cache>>
      BY <1>1, <2>2, Zenon DEF DataInv, VersionKnown
    <3>. QED  BY <1>1, <2>2, <3>1, Zenon DEF CertInv, Server, Client, NewSession, Session
  <2>. QED  BY <1>1, <2>1, <2>2, Zenon
<1>. QED  BY <1>2, <1>4, <1>5, Zenon

\* Calls, their returns, what they write, and a disconnection.
LEMMA CalmLocal ==
    ASSUME IsSeq(out), writeReady \in BOOLEAN, inRecord = FALSE,
           \/ \E d \in {"handshake", "read", "write"} : Call(d)
           \/ WouldBlock \/ SignalServerAuth \/ HandshakeDone \/ Write \/ Close \/ Disconnect
    PROVE  Calm
<1>1. CASE (\E d \in {"handshake", "read", "write"} : Call(d)) \/ WouldBlock
           \/ SignalServerAuth \/ HandshakeDone
  <2>1. /\ UNCHANGED <<cfg, readSide, writeSide, session, hash, certReceived, state, version>>
        /\ UNCHANGED <<peerCert, cache, out, inRecord>>
    BY <1>1, Zenon DEF Call, WouldBlock, SignalServerAuth, HandshakeDone
  <2>. QED  BY <2>1, SilentUtters, Zenon DEF Calm
<1>2. CASE Write
  <2>1. /\ UNCHANGED <<cfg, readSide, writeSide, session, hash, certReceived, state, version>>
        /\ UNCHANGED <<peerCert, cache, inRecord>>
    BY <1>2, Zenon DEF Write
  <2>. QED  BY <1>2, <2>1, WriteUtters, Zenon DEF Calm
<1>3. CASE Close
  <2>1. /\ UNCHANGED <<cfg, readSide, writeSide, session, hash, certReceived, version>>
        /\ UNCHANGED <<peerCert, cache, inRecord>>
        /\ state' = "GracefulClose" /\ out' = out \o AlertOut(version, "closeNotify")
    BY <1>3, Zenon DEF Close
  <2>. QED  BY <2>1, AlertUtters, Zenon DEF Calm, Closed
<1>4. CASE Disconnect
  <2>1. UNCHANGED <<cfg, readSide, writeSide, session, hash, certReceived, version, peerCert>>
    BY <1>4, Zenon DEF Disconnect
  <2>2. \/ state' = "NoNotifyClose" /\ UNCHANGED <<inRecord, out>>
        \/ /\ state' = "ErrorClose" /\ inRecord' = FALSE
           /\ out' = out \o AlertOut(version, "fatalClose")
    BY <1>4, Zenon DEF Disconnect, Fatal
  <2>. QED  BY <2>1, <2>2, AlertUtters, SilentUtters, Zenon DEF Calm, Closed, Ready
<1>. QED  BY <1>1, <1>2, <1>3, <1>4, Zenon

\* A call that waits for a record has nothing else to do first.
LEMMA ReadsIdle ==
    ASSUME KeyInv, inRecord = FALSE, Reading
    PROVE  /\ state # "Uninit" /\ ~(Client /\ state = "ClientCert")
           /\ state \in Ready => call # "handshake"
<1>1. readReady = TRUE \/ (Handshaking /\ Idle)
  BY Zenon DEF Reading, Handshaking
<1>2. readReady = TRUE => state \notin {"Uninit", "ClientCert"}
  BY Zenon DEF KeyInv, Ready, Closed
<1>3. state \in Ready => readReady = TRUE /\ writeReady = TRUE
  BY Zenon DEF KeyInv
<1>4. state # "Uninit" /\ ~(Client /\ state = "ClientCert")
  BY <1>1, <1>2, Zenon DEF Idle
<1>. QED  BY <1>3, <1>4, Zenon DEF Reading, Handshaking

\* Messages that are refused, alerts and data.
LEMMA CalmMessage ==
    ASSUME KeyInv, IsSeq(out), inRecord = FALSE, Reading, NEW m, NEW last,
           \/ Refuse("failure") \/ BadMessage(m)
           \/ Certificate(m, last) /\ Fatal(version, "badCert") /\ UNCHANGED <<cfg, hash, certReceived>>
           \/ CloseNotify(m) \/ ErrorAlert(m) \/ AppData(m)
           \/ Warning(m) /\ UNCHANGED <<state, certReceived>>
    PROVE  Calm
<1>1. CASE Refuse("failure")
  BY <1>1, AlertUtters, Zenon DEF Refuse, Fatal, Calm, Closed, Ready
<1>2. CASE BadMessage(m)
  <2>1. /\ UNCHANGED <<cfg, readSide, writeSide, session, hash, certReceived>>
        /\ version' \in {version, cfg.version}
        /\ state' = "ErrorClose" /\ inRecord' = FALSE
        /\ out' = out \o AlertOut(version', "failure")
    BY <1>2, Zenon DEF BadMessage, Fatal
  <2>. QED  BY <2>1, AlertUtters, Zenon DEF Calm, Closed, Ready
<1>3. CASE Certificate(m, last) /\ Fatal(version, "badCert") /\ UNCHANGED <<cfg, hash, certReceived>>
  <2>1. /\ UNCHANGED <<cfg, readSide, writeSide, session, hash, certReceived, version>>
        /\ state' = "ErrorClose" /\ inRecord' = FALSE
        /\ out' = out \o AlertOut(version, "badCert")
    BY <1>3, Zenon DEF Certificate, Fatal
  <2>. QED  BY <2>1, AlertUtters, Zenon DEF Calm, Closed, Ready
<1>4. CASE CloseNotify(m)
  <2>1. /\ UNCHANGED <<cfg, readSide, writeSide, session, hash, certReceived, version, inRecord>>
        /\ state' = "GracefulClose"
        /\ out' = out \o AlertOut(version, "closeNotify")
    BY <1>4, Zenon DEF CloseNotify
  <2>. QED  BY <2>1, AlertUtters, Zenon DEF Calm, Closed, Ready
<1>5. CASE ErrorAlert(m)
  <2>1. /\ UNCHANGED <<cfg, readSide, writeSide, session, hash, certReceived, version, inRecord>>
        /\ UNCHANGED <<peerCert, out>> /\ state' = Shut(state)
    BY <1>5, Zenon DEF ErrorAlert
  <2>2. state # "Uninit" /\ (state \in Ready => call # "handshake")
    BY ReadsIdle, Zenon
  <2>3. state' = "ErrorClose" \/ (state' = state /\ state \notin Ready \cup {"Uninit"})
    BY <2>1, <2>2, Zenon DEF Shut
  <2>. QED  BY <2>1, <2>3, SilentUtters, Zenon DEF Calm, Closed, Ready
<1>6. CASE AppData(m)
  <2>1. /\ UNCHANGED <<cfg, readSide, writeSide, session, hash, certReceived, version, inRecord>>
        /\ UNCHANGED <<peerCert, out, cache>> /\ state' \in {state, "ErrorClose"}
    BY <1>6, Zenon DEF AppData, Shut
  <2>. QED  BY <2>1, SilentUtters, Zenon DEF Calm, Closed
<1>7. CASE Warning(m) /\ UNCHANGED <<state, certReceived>>
  <2>1. /\ UNCHANGED <<cfg, readSide, writeSide, session, hash, certReceived, version, inRecord>>
        /\ UNCHANGED <<peerCert, out, cache, state>>
    BY <1>7, Zenon DEF Warning
  <2>. QED  BY <2>1, SilentUtters, Zenon DEF Calm
<1>. QED  BY <1>1, <1>2, <1>3, <1>4, <1>5, <1>6, <1>7, Zenon

----------------------------------------------------------------------------
(* The steps of a handshake. *)

\* Two messages.
LEMMA PairSeq ==
    ASSUME NEW a, NEW b
    PROVE  IsSeq(<<a, b>>) /\ Len(<<a, b>>) = 2 /\ <<a, b>>[1] = a /\ <<a, b>>[2] = b
<1>1. <<a, b>> \in Seq({a, b})
  OBVIOUS
<1>2. IsSeq(<<a, b>>)
  BY <1>1, SeqIsSeq, Zenon
<1>. QED  BY <1>2, Zenon

\* A message is hashed in the middle of a full handshake.
LEMMA EarlyEnds ==
    ASSUME CourseInv, SentInv, state \in Early, NEW m, m.type # "finished", hash' = Append(hash, m),
           UNCHANGED <<cfg, sessionID, resumed, writeReady>>, Utters,
           \/ Client /\ state' \in {"KeyExchange", "HelloDone", "ClientCert"}
           \/ Server /\ state' \in {"ClientKeyExchange", "ClientCertVerify"}
           \/ Server /\ state' = "ChangeCipherSpec" /\ writePending' # NoKeys
           \/ state' \in Closed
    PROVE  CourseInv' /\ SentInv' /\ Keeps
<1>1. SentInv' /\ Keeps
  <2>1. state \notin Late \cup Closed
    BY Zenon DEF Early, Late, Closed, Ready
  <2>. QED  BY <2>1, SentBefore, Zenon
<1>2. /\ IsSeq(hash') /\ Len(hash) \in Nat /\ Len(hash') = Len(hash) + 1
      /\ hash'[Len(hash) + 1] = m /\ \A i \in 1 .. Len(hash) : hash'[i] = hash[i]
  BY AppendSeq DEF CourseInv
<1>3. Len(hash) >= 2 /\ resumed = FALSE
  BY Zenon DEF CourseInv
<1>4. Len(hash') >= 3 /\ hash'[2] = hash[2]
  BY <1>2, <1>3
<1>5. hash'[3].type # "finished"
  BY <1>2, <1>3 DEF CourseInv
<1>6. hash'[2].type = "serverHello" /\ (cfg'.peerID => sessionID' = hash'[2].body)
  BY <1>3, <1>4, Zenon DEF CourseInv
<1>7. state' \in {"KeyExchange", "HelloDone", "ClientCert"} \/
      state' \in {"ClientKeyExchange", "ClientCertVerify", "ChangeCipherSpec"} \/ state' \in Closed
  BY Zenon
<1>8. resumed' = FALSE /\ Len(hash') >= 2
  BY <1>2, <1>3
<1>9. CourseInv'
  BY <1>2, <1>4, <1>5, <1>6, <1>7, <1>8, Zenon DEF CourseInv, SendsFirst, Server, Client, Closed,
     Early, Late, Ready
<1>. QED  BY <1>1, <1>9, Zenon

\* The client's flight.
LEMMA FlightEnds ==
    ASSUME DataInv, CourseInv, SentInv, NEW c, CertInv(c), NEW h, IsSeq(h), Len(h) >= 3,
           h[2] = hash[2], h[3].type # "finished", Client, state \in {"HelloDone", "ClientCert"},
           ClientFlight(h),
           UNCHANGED <<cfg, version, sessionID, resumable, resumed, cache, peerCert, certReceived>>
    PROVE  CourseInv' /\ SentInv' /\ CertInv(c)' /\ Keeps
<1> DEFINE asked == clientCertState = "Requested"
           sendCert == asked /\ (version # "SSL3" \/ (cfg.cert # NoCert /\ negAuthType # "None"))
           sendSigned == sendCert /\ cfg.cert # NoCert
           hashed(secret) == Opt(sendCert, Msg("cert", cfg.cert))
                             \o <<Msg("clientKeyExchange", secret)>>
                             \o Opt((certSent \/ sendSigned) /\ negAuthType = "Sign",
                                    Msg("certVerify", "ok"))
           noCert == Opt(asked /\ ~sendCert /\ ~sentFatalAlert, Msg("alert", "noCert"))
<1>1. PICK secret \in Secrets :
         /\ SwitchWrite(noCert \o hashed(secret), secret, secret, h \o hashed(secret))
         /\ hash' = h \o hashed(secret) \o <<Fin>>
         /\ master' = secret /\ state' = "ChangeCipherSpec"
  BY Zenon DEF ClientFlight, Fin
<1>2. Plain(noCert)
  <2>1. Sendable(Msg("alert", "noCert")) /\ Msg("alert", "noCert").type = "alert"
    BY Zenon DEF Sendable, Msg
  <2>. QED  BY <2>1, PlainSingle, PlainOpt, Zenon
<1>3. Plain(hashed(secret))
  <2>1. Sendable(Msg("cert", cfg.cert)) /\ Msg("cert", cfg.cert).type = "cert"
    BY Zenon DEF Sendable, Msg
  <2>2. Sendable(Msg("certVerify", "ok")) /\ Msg("certVerify", "ok").type = "certVerify"
    BY Zenon DEF Sendable, Msg
  <2>3. /\ Sendable(Msg("clientKeyExchange", secret))
        /\ Msg("clientKeyExchange", secret).type = "clientKeyExchange"
    BY Zenon DEF Sendable, Msg
  <2>4. Plain(Opt(sendCert, Msg("cert", cfg.cert)))
    BY <2>1, PlainSingle, PlainOpt, Zenon
  <2>5. Plain(Opt((certSent \/ sendSigned) /\ negAuthType = "Sign", Msg("certVerify", "ok")))
    BY <2>2, PlainSingle, PlainOpt, Zenon
  <2>6. Plain(<<Msg("clientKeyExchange", secret)>>)
    BY <2>3, PlainSingle, Zenon
  <2>. QED  BY <2>4, <2>5, <2>6, PlainConcat, Zenon
<1> DEFINE g == h \o hashed(secret)
<1>4. SwitchWrite(noCert \o hashed(secret), secret, secret, g) /\ hash' = g \o <<Fin>>
  BY <1>1, Zenon
<1>5. /\ IsSeq(g) /\ Len(h) \in Nat /\ Len(g) \in Nat /\ Len(g) >= Len(h)
      /\ \A i \in 1 .. Len(h) : g[i] = h[i]
  <2>1. IsSeq(hashed(secret))
    BY <1>3, Zenon DEF Plain
  <2> HIDE DEF hashed
  <2>. QED  BY <2>1, ConcatSeq
<1>6. Plain(noCert \o hashed(secret))
  BY <1>2, <1>3, PlainConcat, Zenon
<1> HIDE DEF g, hashed, noCert
<1>7. hash' = Append(g, Fin)
  BY <1>4, <1>5, AppendConcat, Zenon
<1>8. /\ IsSeq(hash') /\ Len(hash') = Len(g) + 1 /\ \A i \in 1 .. Len(g) : hash'[i] = g[i]
  BY <1>5, <1>7, AppendSeq
<1>9. Len(hash') >= 3 /\ hash'[2] = hash[2] /\ hash'[3] = h[3] /\ Len(g) >= 2
  BY <1>5, <1>8
<1>10. writeKeys' = secret /\ writeReady' = TRUE /\ writePending' = NoKeys
  BY <1>4, Zenon DEF SwitchWrite
<1>11. resumed = FALSE /\ version = cfg.version /\ Len(hash) >= 2
  BY Zenon DEF CourseInv, DataInv, VersionKnown, Early
<1>12. CourseInv'
  <2>1. hash'[2].type = "serverHello" /\ (cfg'.peerID => sessionID' = hash'[2].body)
    BY <1>9, <1>11, Zenon DEF CourseInv
  <2>. QED  BY <1>1, <1>8, <1>9, <1>10, <1>11, <2>1
            DEF CourseInv, SendsFirst, Server, Client, Closed, Early, Late, Ready
<1>13. SentInv' /\ Keeps
  <2>1. PICK b : b = VerifyData(cfg.side, secret, g)
    BY Zenon
  <2>2. Finishes(b)
    BY <1>4, <1>6, <2>1, SwitchFinishes, Zenon
  <2>3. Says(b)'
    <3>1. /\ state' \in Late \cup Closed
          /\ version' = cfg'.version /\ writeKeys' = master' /\ writePending' = NoKeys
      BY <1>1, <1>10, <1>11, Zenon DEF Late
    <3>2. b = VerifyData(cfg'.side, master', g)
      BY <1>1, <2>1, Zenon
    <3>. QED  BY <1>5, <1>7, <1>9, <3>1, <3>2, Zenon DEF Says
  <2>4. ~Told
    BY ToldFacts, Zenon DEF Late, Closed, Ready
  <2>. QED  BY <1>10, <2>2, <2>3, <2>4, SentFinished, Zenon
<1>14. CertInv(c)'
  BY <1>1, Zenon DEF CertInv, Server, Client, Late, Ready, Closed
<1>. QED  BY <1>12, <1>13, <1>14, Zenon

\* SSLInitConnection.
LEMMA InitEnds ==
    ASSUME DataInv, CourseInv, SentInv, NEW c, CertInv(c), InitConnection
    PROVE  CourseInv' /\ SentInv' /\ CertInv(c)' /\ Keeps
<1>1. /\ UNCHANGED <<cfg, sessionID, resumed, cache, peerCert>> /\ state = "Uninit"
      /\ resumable' = Offer
  BY Zenon DEF InitConnection
<1>2. Offer \in {cache, NoSession} /\ Offer \in Sessions \cup {NoSession}
  BY Zenon DEF Offer, DataInv
<1>3. state \notin Late \cup Closed
  BY <1>1, Zenon DEF Late, Closed, Ready
<1>4. CASE Client /\ StartHandshake(Offer)
  <2> DEFINE hello == EncodeClientHello(Offer)
  <2>1. /\ certReceived' = FALSE /\ writeReady' = FALSE /\ state' = "ServerHello"
        /\ out' = out \o Sent(writeKeys, <<hello>>) /\ hash' = <<hello>>
    BY <1>4, Zenon DEF StartHandshake, StopTraffic
  <2>2. Sendable(hello) /\ hello.type = "clientHello"
    BY <1>2, Zenon DEF EncodeClientHello, Sendable, Msg, Sessions
  <2>3. Plain(<<hello>>)
    BY <2>2, PlainSingle, Zenon
  <2> HIDE DEF hello
  <2>4. SentInv' /\ Keeps
    BY <1>1, <1>3, <2>1, <2>3, PlainUtters, SentBefore, Zenon
  <2>5. IsSeq(hash') /\ Len(hash') = 1
    BY <2>1, SingleSeq, Zenon
  <2>6. CourseInv'
    BY <1>1, <1>4, <2>1, <2>5 DEF CourseInv, Server, Client, Early, Late, Ready
  <2>7. CertInv(c)'
    BY <1>1, <1>2, <1>4, <2>1, Zenon DEF CertInv, Server, Client, Late, Ready, Closed
  <2>. QED  BY <2>4, <2>6, <2>7, Zenon
<1>5. CASE Server /\ state' = "ServerUninit" /\ UNCHANGED <<writeSide, auth, hash, out>>
  <2>1. SentInv' /\ Keeps
    BY <1>1, <1>3, <1>5, SilentUtters, SentBefore, Zenon DEF SentInv
  <2>2. CourseInv'
    BY <1>1, <1>5, Zenon DEF CourseInv, Server, Client, Early, Late, Ready
  <2>3. CertInv(c)'
    BY <1>1, <1>5, Zenon DEF CertInv, Server, Client, Late, Ready, Closed
  <2>. QED  BY <2>1, <2>2, <2>3, Zenon
<1>. QED  BY <1>4, <1>5, Zenon DEF InitConnection

\* SSLHandshakeProceed sends the flight it had put off.
LEMMA ContinueEnds ==
    ASSUME DataInv, CourseInv, SentInv, NEW c, CertInv(c), ContinueHandshake
    PROVE  CourseInv' /\ SentInv' /\ CertInv(c)' /\ Keeps
<1>1. /\ UNCHANGED <<cfg, version, sessionID, resumable, resumed, cache, peerCert, certReceived>>
      /\ Client /\ state = "ClientCert" /\ ClientFlight(hash)
  BY Zenon DEF ContinueHandshake
<1>2. IsSeq(hash) /\ Len(hash) >= 3 /\ hash[3].type # "finished"
  BY <1>1, Zenon DEF CourseInv, Early
<1>3. PICK h : h = hash
  BY Zenon
<1>. QED  BY <1>1, <1>2, <1>3, FlightEnds, Zenon

\* A server resumes.
LEMMA ResumeEnds ==
    ASSUME DataInv, CourseInv, SentInv, NEW c, CertInv(c), NEW m, Typed(m), NEW last,
           m.type = "clientHello", m.body # Bad, ClientHelloResume(m, last)
    PROVE  CourseInv' /\ SentInv' /\ CertInv(c)' /\ Keeps
<1>1. PICK id : id = KeptID(m.body)
  BY Zenon
<1> DEFINE hello == Msg("serverHello", id)
           h == <<m, hello>>
<1>2. PICK secret : secret = resumable.master
  BY Zenon
<1>3. /\ UNCHANGED <<cfg, resumable, cache, certReceived>> /\ state = "ServerUninit"
      /\ version' = cfg.version /\ sessionID' = id /\ master' = secret /\ resumed' = TRUE
      /\ SwitchWrite(<<hello>>, secret, secret, h)
      /\ hash' = Append(h, Fin) /\ state' = "ChangeCipherSpec"
  BY <1>1, <1>2, Zenon DEF ClientHelloResume, Fin
<1>4. IsSeq(h) /\ Len(h) = 2 /\ h[2] = hello
  BY PairSeq, Zenon
<1>5. hello.type = "serverHello" /\ hello.body = id /\ Fin.type = "finished"
  BY Zenon DEF Msg, Fin
<1>6. Plain(<<hello>>)
  <2>1. id \in IDs \cup {NoID}
    BY <1>1, Zenon DEF KeptID, Typed, DataInv
  <2>2. Sendable(hello)
    BY <2>1, Zenon DEF Sendable, Msg
  <2>. QED  BY <1>5, <2>2, PlainSingle, Zenon
<1>7. writeKeys' = secret /\ writeReady' = TRUE /\ writePending' = NoKeys
  BY <1>3, Zenon DEF SwitchWrite
<1>8. PICK g : g = h
  BY Zenon
<1>9. SwitchWrite(<<hello>>, secret, secret, g) /\ hash' = Append(g, Fin)
      /\ IsSeq(g) /\ Len(g) = 2 /\ g[2] = hello
  BY <1>3, <1>4, <1>8, Zenon
<1> HIDE DEF h, hello
<1>10. /\ IsSeq(hash') /\ Len(hash') = 3 /\ hash'[2] = hello /\ hash'[3] = Fin
  <2>1. /\ IsSeq(Append(g, Fin)) /\ Len(Append(g, Fin)) = Len(g) + 1
        /\ \A i \in 1 .. Len(g) : Append(g, Fin)[i] = g[i]
        /\ Append(g, Fin)[Len(g) + 1] = Fin
    <3>1. IsSeq(g)
      BY <1>9, Zenon
    <3>. QED  BY <3>1, AppendSeq
  <2>2. Len(g) = 2 /\ g[2] = hello /\ hash' = Append(g, Fin)
    BY <1>9, Zenon
  <2>. QED  BY <2>1, <2>2
<1>11. Server
  BY <1>3, Zenon DEF CourseInv
<1>12. CourseInv'
  BY <1>3, <1>5, <1>7, <1>10, <1>11
     DEF CourseInv, SendsFirst, Server, Client, Closed, Early, Late, Ready
<1>13. SentInv' /\ Keeps
  <2>1. PICK b : b = VerifyData(cfg.side, secret, g)
    BY Zenon
  <2>2. Finishes(b)
    BY <1>6, <1>9, <2>1, SwitchFinishes, Zenon
  <2>3. Says(b)'
    <3>1. /\ state' \in Late \cup Closed
          /\ version' = cfg'.version /\ writeKeys' = master' /\ writePending' = NoKeys
      BY <1>3, <1>7, Zenon DEF Late
    <3>2. b = VerifyData(cfg'.side, master', g)
      BY <1>3, <2>1, Zenon
    <3>. QED  BY <1>9, <3>1, <3>2 DEF Says
  <2>4. ~Told
    BY <1>3, ToldFacts, Zenon DEF Late, Closed, Ready
  <2>. QED  BY <1>3, <1>7, <2>2, <2>3, <2>4, SentFinished, Zenon
<1>14. CertInv(c)'
  BY <1>3, <1>11, Zenon DEF CertInv, Server, Client, Late, Ready, Closed
<1>. QED  BY <1>12, <1>13, <1>14, Zenon

\* The first of several messages.
LEMMA HeadSeq ==
    ASSUME NEW s, NEW t, IsSeq(s), Len(s) >= 1, IsSeq(t)
    PROVE  Len(s \o t) >= 1 /\ (s \o t)[1] = s[1]
  BY ConcatSeq

\* A server answers with a full handshake, or cannot.
LEMMA FullEnds ==
    ASSUME DataInv, CourseInv, SentInv, NEW c, CertInv(c), NEW m, NEW last, ClientHelloFull(m, last)
    PROVE  CourseInv' /\ SentInv' /\ CertInv(c)' /\ Keeps
<1> DEFINE anon == cfg.kx = "anon"
           ask == cfg.auth # "never" /\ ~anon
           hello(id) == Msg("serverHello", id)
           flight(id) ==
              <<hello(id)>>
              \o Opt(~anon, Msg("cert", cfg.cert))
              \o Opt(DoServerKeyExch, Msg("serverKeyExchange", "ok"))
              \o Opt(ask, Msg("certRequest", IF cfg.version = "TLS12" THEN Bad ELSE "match"))
              \o <<Msg("serverHelloDone", "ok")>>
<1>1. /\ UNCHANGED <<cfg, readSide, writeSide, master, resumable, peerCert>>
      /\ state = "ServerUninit" /\ resumed' = FALSE
  BY ZenonT(40) DEF ClientHelloFull
<1>2. PICK id \in IDs :
        /\ sessionID' = IF cfg.peerID THEN id ELSE NoID
        /\ certReceived' = certReceived
        /\ \/ /\ hash' = <<m, hello(id)>> /\ state' = "ErrorClose"
              /\ out' = out \o Sent(writeKeys, <<hello(id), Msg("alert", "failure")>>)
           \/ /\ hash' = <<m, hello(id)>> /\ state' = Shut(state)
              /\ out' = out \o Sent(writeKeys, <<hello(id)>>)
           \/ /\ hash' = <<m>> \o flight(id) /\ state' \in {"ClientCert", "ClientKeyExchange"}
              /\ out' = out \o Sent(writeKeys, flight(id))
  BY ZenonT(40) DEF ClientHelloFull
<1>3. Plain(<<hello(id)>>) /\ hello(id).type = "serverHello" /\ hello(id).body = id
  <2>1. Sendable(hello(id)) /\ hello(id).type = "serverHello" /\ hello(id).body = id
    BY Zenon DEF Sendable, Msg
  <2>. QED  BY <2>1, PlainSingle, Zenon
<1>4. Plain(<<Msg("alert", "failure")>>)
  <2>1. Sendable(Msg("alert", "failure")) /\ Msg("alert", "failure").type = "alert"
    BY Zenon DEF Sendable, Msg
  <2>. QED  BY <2>1, PlainSingle, Zenon
<1>5. <<hello(id), Msg("alert", "failure")>> = <<hello(id)>> \o <<Msg("alert", "failure")>>
  OBVIOUS
<1>6. Plain(flight(id)) /\ Len(flight(id)) >= 1 /\ flight(id)[1] = hello(id)
  <2> DEFINE cert == Opt(~anon, Msg("cert", cfg.cert))
             key == Opt(DoServerKeyExch, Msg("serverKeyExchange", "ok"))
             request == Opt(ask, Msg("certRequest", IF cfg.version = "TLS12" THEN Bad ELSE "match"))
             done == <<Msg("serverHelloDone", "ok")>>
             first == <<hello(id)>>
  <2>1. Plain(cert)
    <3>1. Sendable(Msg("cert", cfg.cert)) /\ Msg("cert", cfg.cert).type = "cert"
      BY Zenon DEF Sendable, Msg
    <3>. QED  BY <3>1, PlainSingle, PlainOpt, Zenon
  <2>2. Plain(key)
    <3>1. /\ Sendable(Msg("serverKeyExchange", "ok"))
          /\ Msg("serverKeyExchange", "ok").type = "serverKeyExchange"
      BY Zenon DEF Sendable, Msg
    <3>. QED  BY <3>1, PlainSingle, PlainOpt, Zenon
  <2>3. Plain(request)
    <3>1. ASSUME NEW b PROVE Sendable(Msg("certRequest", b)) /\ Msg("certRequest", b).type = "certRequest"
      BY Zenon DEF Sendable, Msg
    <3>. QED  BY <3>1, PlainSingle, PlainOpt, Zenon
  <2>4. Plain(done)
    <3>1. /\ Sendable(Msg("serverHelloDone", "ok"))
          /\ Msg("serverHelloDone", "ok").type = "serverHelloDone"
      BY Zenon DEF Sendable, Msg
    <3>. QED  BY <3>1, PlainSingle, Zenon
  <2>5. Plain(first) /\ Len(first) >= 1 /\ first[1] = hello(id)
    BY <1>3, SingleSeq
  <2>6. flight(id) = first \o cert \o key \o request \o done
    BY Zenon
  <2>7. \A s, t : Plain(s) /\ Len(s) >= 1 /\ s[1] = hello(id) /\ Plain(t)
           => Plain(s \o t) /\ Len(s \o t) >= 1 /\ (s \o t)[1] = hello(id)
    BY PlainConcat, HeadSeq, Zenon DEF Plain
  <2> HIDE DEF cert, key, request, done, first, flight
  <2> DEFINE Starts(s) == Plain(s) /\ Len(s) >= 1 /\ s[1] = hello(id)
  <2>8. Starts(first \o cert)
    BY <2>1, <2>5, <2>7, Zenon
  <2>9. Starts(first \o cert \o key)
    BY <2>2, <2>7, <2>8, Zenon
  <2>10. Starts(first \o cert \o key \o request)
    BY <2>3, <2>7, <2>9, Zenon
  <2>. QED  BY <2>4, <2>6, <2>7, <2>10, Zenon
<1>7. Server /\ peerCert = <<>> /\ certReceived = FALSE /\ state \notin Late \cup Closed
  BY <1>1, Zenon DEF CourseInv, CertInv, Late, Ready, Closed
<1> HIDE DEF flight, hello
<1>8. Utters
  <2>1. CASE out' = out \o Sent(writeKeys, <<hello(id), Msg("alert", "failure")>>)
    BY <1>3, <1>4, <1>5, <2>1, PlainConcat, PlainUtters, Zenon
  <2>. QED  BY <1>2, <1>3, <1>6, <2>1, PlainUtters, Zenon
<1>9. SentInv' /\ Keeps
  BY <1>1, <1>7, <1>8, SentBefore, Zenon
<1>10. /\ IsSeq(hash') /\ Len(hash') >= 2 /\ hash'[2] = hello(id)
       /\ Len(hash') >= 3 => hash'[3].type # "finished"
  <2>1. CASE hash' = <<m, hello(id)>>
    BY <2>1, PairSeq
  <2>2. CASE hash' = <<m>> \o flight(id)
    <3>1. IsSeq(flight(id)) /\ \A i \in 1 .. Len(flight(id)) : flight(id)[i].type # "finished"
      BY <1>6, Zenon DEF Plain
    <3>2. /\ IsSeq(hash') /\ Len(flight(id)) \in Nat /\ Len(hash') = 1 + Len(flight(id))
          /\ \A i \in 1 .. Len(flight(id)) : hash'[1 + i] = flight(id)[i]
      <4>1. IsSeq(<<m>>) /\ Len(<<m>>) = 1
        BY SingleSeq, Zenon
      <4>. QED  BY <2>2, <3>1, <4>1, ConcatSeq
    <3>. QED  BY <1>6, <3>1, <3>2
  <2>. QED  BY <1>2, <2>1, <2>2, Zenon
<1>11. state' \in {"ErrorClose", "ServerUninit", "ClientCert", "ClientKeyExchange"}
  BY <1>1, <1>2, Zenon DEF Shut
<1>12. CourseInv'
  BY <1>1, <1>2, <1>3, <1>7, <1>10, <1>11, Zenon
     DEF CourseInv, SendsFirst, Server, Client, Closed, Early, Late, Ready
<1>13. CertInv(c)'
  BY <1>1, <1>2, <1>7, <1>11, Zenon DEF CertInv, Server, Client, Late, Ready, Closed
<1>. QED  BY <1>9, <1>12, <1>13, Zenon

\* A client reads the ServerHello.
LEMMA ServerHelloEnds ==
    ASSUME DataInv, CourseInv, SentInv, NEW c, CertInv(c), NEW m, Typed(m), NEW last,
           m.type = "serverHello", m.body # Bad, ServerHello(m, last)
    PROVE  CourseInv' /\ SentInv' /\ CertInv(c)' /\ Keeps
<1>1. /\ UNCHANGED <<cfg, writeKeys, writeReady, resumable, cache, certReceived, out>>
      /\ state = "ServerHello" /\ sessionID' = KeptID(m.body)
  BY Zenon DEF ServerHello, Processed
<1>2. hash' = Append(hash, m)
  BY Zenon DEF ServerHello, Processed, Hashed
<1>3. /\ Client /\ IsSeq(hash) /\ Len(hash) = 1 /\ sessionID = NoID /\ resumed = FALSE
      /\ peerCert = <<>> /\ state \notin Late \cup Closed
  BY <1>1, Zenon DEF CourseInv, CertInv, Late, Ready, Closed
<1>4. IsSeq(hash') /\ Len(hash') = 2 /\ hash'[2] = m
  <2>1. /\ IsSeq(Append(hash, m)) /\ Len(Append(hash, m)) = Len(hash) + 1
        /\ Append(hash, m)[Len(hash) + 1] = m
    BY <1>3, AppendSeq, Zenon
  <2>. QED  BY <1>2, <1>3, <2>1
<1>5. SentInv' /\ Keeps
  BY <1>1, <1>3, SilentUtters, SentBefore, Zenon DEF SentInv
<1>6. cfg.peerID => KeptID(m.body) = m.body
  BY <1>3, Zenon DEF KeptID
<1>7. CASE Resumes(KeptID(m.body)) /\ Pending(resumable.master) /\ resumed' = TRUE
           /\ state' = "ChangeCipherSpec" /\ peerCert' = InstalledCerts(resumable)
  <2>1. resumable # NoSession /\ resumable.master \in Secrets
    BY <1>7, ResumableTyped, Zenon DEF Resumes
  <2>2. writePending' # NoKeys
    BY <1>7, <2>1, ConstantsAssumption, Zenon DEF Pending
  <2>3. CourseInv'
    BY <1>1, <1>3, <1>4, <1>6, <1>7, <2>2
       DEF CourseInv, SendsFirst, Server, Client, Closed, Early, Late, Ready
  <2>4. cfg.kx # "anon" => peerCert' = <<c>>
    <3>1. cfg.kx # "anon" => resumable.certs = <<c>>
      BY <1>3, <2>1, Zenon DEF CertInv
    <3>2. <<c>> # <<>>
      BY Zenon
    <3>. QED  BY <1>7, <3>1, <3>2, Zenon DEF InstalledCerts
  <2>5. CertInv(c)'
    BY <1>1, <1>3, <1>7, <2>4, Zenon DEF CertInv, Server, Client, Late, Ready, Closed
  <2>. QED  BY <1>5, <2>3, <2>5, Zenon
<1>8. CASE resumed' = FALSE /\ UNCHANGED peerCert
           /\ state' = IF cfg.kx = "anon" THEN "KeyExchange" ELSE "Cert"
  <2>0. state' \in {"KeyExchange", "Cert"} /\ resumed' = FALSE
    BY <1>8, Zenon
  <2>1. CourseInv'
    <3>1. /\ hash'[2].type = "serverHello" /\ (cfg'.peerID => sessionID' = hash'[2].body)
          /\ Len(hash') >= 2 /\ ~(Len(hash') >= 3) /\ cfg'.side = "client"
      BY <1>1, <1>3, <1>4, <1>6 DEF Client
    <3>2. state' \notin {"ServerHello", "Uninit", "ServerUninit", "ClientCert", "ClientKeyExchange",
                         "ClientCertVerify"} \cup Late
      BY <2>0, Zenon DEF Late, Ready
    <3>. QED  BY <1>4, <2>0, <3>1, <3>2, Zenon DEF CourseInv, Client, Late
  <2>2. CertInv(c)'
    BY <1>1, <1>3, <1>8, Zenon DEF CertInv, Server, Client, Late, Ready, Closed
  <2>. QED  BY <1>5, <2>1, <2>2, Zenon
<1>. QED  BY <1>7, <1>8, Zenon DEF ServerHello

\* A chain is accepted.
LEMMA CertificateEnds ==
    ASSUME DataInv, CourseInv, SentInv, NEW c, CertInv(c), NEW m, NEW last,
           m.type = "cert", m.body = c, ~(Client /\ state = "ClientCert"), Certificate(m, last),
           ~(Fatal(version, "badCert") /\ UNCHANGED <<cfg, hash, certReceived>>)
    PROVE  CourseInv' /\ SentInv' /\ CertInv(c)' /\ Keeps
<1>1. /\ UNCHANGED <<writeKeys, writeReady, writePending, master, sessionID, resumable, resumed>>
      /\ state \in {"Cert", "ClientCert"} /\ peerCert' = Chain(c)
      /\ Chain(c) # <<>> \/ (Server /\ cfg.auth # "always")
      /\ state' = AfterCertificate
      /\ certReceived' = (certReceived \/ (state = "ClientCert" /\ Chain(c) # <<>>))
      /\ Processed(m, last) /\ UNCHANGED <<cache, out>>
  BY Zenon DEF Certificate
<1>2. UNCHANGED cfg /\ hash' = Append(hash, m)
  BY <1>1, Zenon DEF Processed, Hashed
<1>3. state \in Early /\ m.type # "finished" /\ Utters
  BY <1>1, SilentUtters, Zenon DEF Early, SentInv
<1>4. Client \/ Server
  BY ConstantsAssumption, Zenon DEF DataInv, Client, Server
<1>5. CASE Server
  <2>1. state = "ClientCert"
    BY <1>1, <1>5, Zenon DEF CourseInv, Client, Server
  <2>2. state' = "ClientKeyExchange" /\ peerCert = <<>> /\ certReceived = FALSE
    BY <1>1, <1>5, <2>1, Zenon DEF AfterCertificate, CertInv
  <2>3. CourseInv' /\ SentInv' /\ Keeps
    BY <1>1, <1>2, <1>3, <1>5, <2>2, EarlyEnds, Zenon
  <2>4. Chain(c) \in {<<>>, <<c>>}
    BY <2>2 DEF Chain
  <2>5. certReceived' \in BOOLEAN /\ (certReceived' = TRUE => Chain(c) # <<>>)
    BY <1>1, <2>1, <2>2, Zenon
  <2>6. CertInv(c)'
    BY <1>1, <1>2, <1>5, <2>2, <2>4, <2>5, Zenon DEF CertInv, Server, Client, Late, Ready, Closed
  <2>. QED  BY <2>3, <2>6, Zenon
<1>6. CASE Client
  <2>0. ~Server
    BY <1>6, Zenon DEF Client, Server
  <2>1. Chain(c) # <<>>
    BY <1>1, <2>0, Zenon
  <2>2. CASE state = "Cert"
    <3>1. state' \in {"HelloDone", "KeyExchange"} /\ peerCert = <<>>
      BY <1>1, <2>2, Zenon DEF AfterCertificate, CertInv
    <3>2. CourseInv' /\ SentInv' /\ Keeps
      BY <1>1, <1>2, <1>3, <1>6, <3>1, EarlyEnds, Zenon
    <3>3. Chain(c) = <<c>>
      BY <2>1, <3>1 DEF Chain
    <3>4. certReceived' \in BOOLEAN
      BY <1>1, Zenon
    <3>5. CertInv(c)'
      BY <1>1, <1>2, <1>6, <2>0, <3>1, <3>3, <3>4, Zenon DEF CertInv, Late, Ready, Closed, Client,
         Server
    <3>. QED  BY <3>2, <3>5, Zenon
  <2>3. CASE state = "ClientCert"
    BY <1>6, <2>3, Zenon
  <2>. QED  BY <1>1, <2>2, <2>3, Zenon
<1>. QED  BY <1>4, <1>5, <1>6, Zenon

\* A client is asked for a certificate.
LEMMA CertRequestEnds ==
    ASSUME DataInv, CourseInv, SentInv, NEW c, CertInv(c), NEW m, NEW last,
           m.type = "certRequest", CertRequest(m, last)
    PROVE  CourseInv' /\ SentInv' /\ CertInv(c)' /\ Keeps
<1>1. /\ UNCHANGED <<version, writeKeys, writeReady, writePending, master, sessionID, resumable,
                     resumed, certReceived, peerCert>>
      /\ state \in {"HelloDone", "KeyExchange"}
  BY Zenon DEF CertRequest
<1>2. /\ UNCHANGED cfg /\ hash' = Append(hash, m)
      /\ \/ state' = "ErrorClose" /\ out' = out \o AlertOut(version, "failure")
         \/ UNCHANGED <<state, out, cache>>
  BY Zenon DEF CertRequest, Processed, Hashed, Fatal
<1>3. Utters
  BY <1>2, AlertUtters, SilentUtters, Zenon DEF SentInv
<1>4. Client /\ state \in Early /\ m.type # "finished"
  BY <1>1, Zenon DEF CourseInv, Early
<1>5. \/ Client /\ state' \in {"KeyExchange", "HelloDone", "ClientCert"}
      \/ state' \in Closed
  BY <1>1, <1>2, <1>4, Zenon DEF Closed
<1>6. CourseInv' /\ SentInv' /\ Keeps
  BY <1>1, <1>2, <1>3, <1>4, <1>5, EarlyEnds, Zenon
<1>7. CertInv(c)'
  BY <1>1, <1>2, <1>4, Zenon DEF CertInv, Server, Client, Late, Ready, Closed
<1>. QED  BY <1>6, <1>7, Zenon

\* The rest of the server's flight, and of the client's.
LEMMA KeyExchangeEnds ==
    ASSUME DataInv, KeyInv, CourseInv, SentInv, NEW c, CertInv(c), NEW m, Typed(m), NEW last,
           \/ m.type = "serverKeyExchange" /\ ServerKeyExchange(m, last)
           \/ m.type = "certVerify" /\ CertVerify(m, last)
           \/ m.type = "clientKeyExchange" /\ m.body # Bad /\ ClientKeyExchange(m, last)
    PROVE  CourseInv' /\ SentInv' /\ CertInv(c)' /\ Keeps
<1>1. /\ UNCHANGED <<cfg, version, writeKeys, writeReady, sessionID, resumable, resumed, cache,
                     certReceived, peerCert, out>>
      /\ hash' = Append(hash, m) /\ m.type # "finished"
  BY Zenon DEF ServerKeyExchange, CertVerify, ClientKeyExchange, Processed, Hashed
<1>2. Utters
  BY <1>1, SilentUtters, Zenon DEF SentInv
<1>3. CASE ServerKeyExchange(m, last)
  <2>1. state \in {"KeyExchange", "HelloDone"} /\ state' = "HelloDone"
    BY <1>3, Zenon DEF ServerKeyExchange
  <2>2. Client /\ state \in Early
    BY <2>1, Zenon DEF CourseInv, Early
  <2>3. CourseInv' /\ SentInv' /\ Keeps
    BY <1>1, <1>2, <2>1, <2>2, EarlyEnds, Zenon
  <2>4. CertInv(c)'
    BY <1>1, <2>1, <2>2, Zenon DEF CertInv, Server, Client, Late, Ready, Closed
  <2>. QED  BY <2>3, <2>4, Zenon
<1>4. CASE CertVerify(m, last)
  <2>1. state = "ClientCertVerify" /\ state' = "ChangeCipherSpec" /\ UNCHANGED <<writePending, master>>
    BY <1>4, Zenon DEF CertVerify
  <2>2. Server /\ state \in Early
    BY <2>1, Zenon DEF CourseInv, Early
  <2>3. writePending' # NoKeys
    BY <2>1, ConstantsAssumption, Zenon DEF DataInv, KeyInv, SecretKnown
  <2>4. CourseInv' /\ SentInv' /\ Keeps
    BY <1>1, <1>2, <2>1, <2>2, <2>3, EarlyEnds, Zenon
  <2>5. CertInv(c)'
    BY <1>1, <2>1, <2>2, Zenon DEF CertInv, Server, Client, Late, Ready, Closed
  <2>. QED  BY <2>4, <2>5, Zenon
<1>5. CASE m.type = "clientKeyExchange" /\ m.body # Bad /\ ClientKeyExchange(m, last)
  <2>1. /\ state = "ClientKeyExchange" /\ state' \in {"ClientCertVerify", "ChangeCipherSpec"}
        /\ writePending' = m.body
    BY <1>5, Zenon DEF ClientKeyExchange, AfterKeyExchange, Pending
  <2>2. Server /\ state \in Early
    BY <2>1, Zenon DEF CourseInv, Early
  <2>3. writePending' # NoKeys
    BY <1>5, <2>1, ConstantsAssumption, Zenon DEF Typed
  <2>4. CourseInv' /\ SentInv' /\ Keeps
    BY <1>1, <1>2, <2>1, <2>2, <2>3, EarlyEnds, Zenon
  <2>5. CertInv(c)'
    BY <1>1, <2>1, <2>2, Zenon DEF CertInv, Server, Client, Late, Ready, Closed
  <2>. QED  BY <2>4, <2>5, Zenon
<1>. QED  BY <1>3, <1>4, <1>5, Zenon

\* The end of the server's flight.
LEMMA HelloDoneEnds ==
    ASSUME DataInv, CourseInv, SentInv, NEW c, CertInv(c), NEW m, NEW last,
           m.type = "serverHelloDone", ServerHelloDone(m, last)
    PROVE  CourseInv' /\ SentInv' /\ CertInv(c)' /\ Keeps
<1>1. /\ UNCHANGED <<cfg, version, sessionID, resumable, resumed, cache, peerCert, certReceived>>
      /\ state = "HelloDone"
  BY Zenon DEF ServerHelloDone
<1>2. Client /\ state \in Early /\ IsSeq(hash) /\ Len(hash) >= 2 /\ resumed = FALSE
  BY <1>1, Zenon DEF CourseInv, Early
<1>3. CASE state' = "ClientCert" /\ hash' = Append(hash, m) /\ UNCHANGED <<writeSide, out>>
  <2>1. Utters
    BY <1>3, SilentUtters, Zenon DEF SentInv
  <2>2. CourseInv' /\ SentInv' /\ Keeps
    BY <1>1, <1>2, <1>3, <2>1, EarlyEnds, Zenon
  <2>3. CertInv(c)'
    BY <1>1, <1>2, <1>3, Zenon DEF CertInv, Server, Client, Late, Ready, Closed
  <2>. QED  BY <2>2, <2>3, Zenon
<1>4. CASE ClientFlight(Append(hash, m))
  <2>1. PICK h : h = Append(hash, m)
    BY Zenon
  <2>2. /\ IsSeq(h) /\ Len(hash) \in Nat /\ Len(h) = Len(hash) + 1
        /\ \A i \in 1 .. Len(hash) : h[i] = hash[i]
        /\ h[Len(hash) + 1] = m
    BY <1>2, <2>1, AppendSeq
  <2>3. Len(h) >= 3 /\ h[2] = hash[2]
    BY <1>2, <2>2
  <2>4. h[3].type # "finished"
    <3>1. CASE Len(hash) = 2
      BY <2>2, <3>1
    <3>2. CASE Len(hash) >= 3
      BY <1>2, <2>2, <3>2 DEF CourseInv
    <3>. QED  BY <1>2, <2>2, <3>1, <3>2
  <2>5. ClientFlight(h) /\ state \in {"HelloDone", "ClientCert"}
    BY <1>1, <1>4, <2>1, Zenon
  <2>. QED  BY <1>1, <1>2, <2>2, <2>3, <2>4, <2>5, FlightEnds, Zenon
<1>. QED  BY <1>3, <1>4, Zenon DEF ServerHelloDone

\* The keys of the other direction are switched.
LEMMA SpecEnds ==
    ASSUME DataInv, CourseInv, SentInv, NEW c, CertInv(c), NEW m, ChangeCipherSpec(m),
           ~Refuse("failure")
    PROVE  CourseInv' /\ SentInv' /\ CertInv(c)' /\ Keeps
<1>1. /\ UNCHANGED <<cfg, version, writeKeys, writeReady, writePending, master, sessionID,
                     resumable, resumed, cache, certReceived, peerCert, hash, out>>
      /\ state = "ChangeCipherSpec" /\ state' = "Finished"
  BY Zenon DEF ChangeCipherSpec
<1>2. CourseInv'
  BY <1>1, Zenon DEF CourseInv, SendsFirst, Server, Client, Early, Late, Ready
<1>3. ASSUME NEW b, Says(b) PROVE Says(b)'
  BY <1>1, <1>3, Zenon DEF Says, Closed, Late, Ready
<1>4. SentInv' /\ Keeps
  BY <1>1, <1>3, SilentUtters, SentKeeps, Zenon DEF SentInv
<1>5. CertInv(c)'
  BY <1>1, Zenon DEF CertInv, Server, Client, Late, Ready, Closed
<1>. QED  BY <1>2, <1>4, <1>5, Zenon

\* A server that only asked is told that there is no certificate.
LEMMA NoCertEnds ==
    ASSUME DataInv, CourseInv, SentInv, NEW c, CertInv(c), NEW m, Warning(m),
           ~UNCHANGED <<state, certReceived>>
    PROVE  CourseInv' /\ SentInv' /\ CertInv(c)' /\ Keeps
<1>1. /\ UNCHANGED <<cfg, version, writeKeys, writeReady, writePending, master, sessionID,
                     resumable, resumed, cache, peerCert, hash, out>>
      /\ state = "ClientCert" /\ Server /\ state' = "ClientKeyExchange"
      /\ certReceived' = (certReceived \/ peerCert # <<>>)
  BY Zenon DEF Warning
<1>2. peerCert = <<>> /\ certReceived = FALSE
  BY <1>1, Zenon DEF CertInv
<1>3. certReceived' = FALSE
  BY <1>1, <1>2, Zenon
<1>4. CourseInv'
  BY <1>1, Zenon DEF CourseInv, Server, Client, Early, Late, Ready
<1>5. SentInv' /\ Keeps
  <2>1. state \notin Late \cup Closed
    BY <1>1, Zenon DEF Late, Ready, Closed
  <2>. QED  BY <1>1, <2>1, SilentUtters, SentBefore, Zenon DEF SentInv
<1>6. CertInv(c)'
  BY <1>1, <1>2, <1>3, Zenon DEF CertInv, Server, Client, Late, Ready, Closed
<1>. QED  BY <1>4, <1>5, <1>6, Zenon

\* The Finished of the other end is accepted, and answered or not.
LEMMA FinishedEnds ==
    ASSUME DataInv, KeyInv, CourseInv, SentInv, NEW c, CertInv(c), NEW m, NEW last,
           m.type = "finished", Finished(m, last)
    PROVE  CourseInv' /\ SentInv' /\ CertInv(c)' /\ Keeps /\ Confirmed(m.body)'
<1>1. PICK h : h = hash
  BY Zenon
<1>2. PICK b : b = VerifyData(cfg.side, master, Append(h, Fin))
  BY Zenon
<1>3. /\ UNCHANGED <<cfg, version, master, sessionID, resumable, resumed, certReceived, peerCert>>
      /\ state = "Finished" /\ state' \in Ready
      /\ m.body = VerifyData(PeerSide, master, h)
      /\ cfg.peerID => cache' = NewSession
      /\ \/ /\ writePending # NoKeys
            /\ SwitchWrite(<<>>, writePending, master, Append(h, Fin))
            /\ hash' = Append(Append(h, Fin), Fin)
         \/ /\ writePending = NoKeys
            /\ hash' = Append(h, Fin) /\ UNCHANGED <<writeSide, out>>
  BY <1>1, Zenon DEF Finished, Hashed, Expected, Fin, Ready
<1>4. /\ IsSeq(h) /\ Len(h) >= 2 /\ (writePending = NoKeys <=> SendsFirst)
      /\ version = cfg.version /\ Len(h) \in Nat
  <2>1. IsSeq(h) /\ Len(h) >= 2 /\ (writePending = NoKeys <=> SendsFirst)
    BY <1>1, <1>3, Zenon DEF CourseInv, Late
  <2>2. version = cfg.version
    BY <1>3, Zenon DEF DataInv, VersionKnown
  <2>3. Len(h) \in Nat
    BY <2>1, AppendSeq, Zenon
  <2>. QED  BY <2>1, <2>2, <2>3, Zenon
<1>5. SendsFirst' = SendsFirst /\ PeerSide' = PeerSide
  BY <1>3, Zenon DEF SendsFirst, PeerSide, Server, Client
<1>6. hash' = IF SendsFirst' THEN Append(h, Fin) ELSE Append(Append(h, Fin), Fin)
  BY <1>3, <1>4, <1>5, Zenon
<1>7. Confirmed(m.body)'
  BY <1>3, <1>4, <1>5, <1>6, Zenon DEF Confirmed
<1>8. /\ IsSeq(Append(h, Fin)) /\ Len(Append(h, Fin)) = Len(h) + 1
      /\ \A i \in 1 .. Len(h) : Append(h, Fin)[i] = h[i]
      /\ Append(h, Fin)[Len(h) + 1] = Fin
  BY <1>4, AppendSeq, Zenon
<1>9. /\ IsSeq(hash') /\ Len(hash') >= 3 /\ Len(hash') \in Nat
      /\ hash'[2] = hash[2]
      /\ Len(h) >= 3 => hash'[3] = hash[3]
      /\ Len(h) = 2 => hash'[3] = Fin
  <2>1. CASE hash' = Append(h, Fin)
    BY <1>1, <1>4, <1>8, <2>1
  <2>2. CASE hash' = Append(Append(h, Fin), Fin)
    <3>1. PICK g : g = Append(h, Fin)
      BY Zenon
    <3>2. /\ IsSeq(Append(g, Fin)) /\ Len(Append(g, Fin)) = Len(g) + 1
          /\ \A i \in 1 .. Len(g) : Append(g, Fin)[i] = g[i]
      BY <1>8, <3>1, AppendSeq
    <3>. QED  BY <1>1, <1>4, <1>8, <2>2, <3>1, <3>2
  <2>. QED  BY <1>3, <2>1, <2>2, Zenon
<1>10. hash'[3].type = "finished" <=> resumed' = TRUE
  <2>1. Fin.type = "finished"
    BY Zenon DEF Fin, Msg
  <2>2. CASE Len(h) = 2
    <3>1. resumed = TRUE
      BY <1>1, <1>3, <2>2 DEF CourseInv, Late
    <3>. QED  BY <1>3, <1>9, <2>1, <2>2, <3>1, Zenon
  <2>3. CASE Len(h) # 2
    <3>1. Len(h) >= 3
      <4>1. \A n \in Nat : n >= 2 /\ n # 2 => n >= 3
        OBVIOUS
      <4>. QED  BY <1>4, <2>3, <4>1, Zenon
    <3>. QED  BY <1>1, <1>3, <1>9, <3>1, Zenon DEF CourseInv
  <2>. QED  BY <2>2, <2>3, Zenon
<1>11. hash'[2].type = "serverHello" /\ (cfg'.peerID => sessionID' = hash'[2].body)
  BY <1>1, <1>3, <1>4, <1>9, Zenon DEF CourseInv
<1>12. CourseInv'
  <2>1. state' \notin {"ServerHello", "Uninit", "ServerUninit", "ChangeCipherSpec", "Finished",
                       "Cert", "KeyExchange", "HelloDone"} \cup Early
    BY <1>3, Zenon DEF Ready, Early
  <2>2. resumed' \in BOOLEAN /\ Len(hash') >= 2
    BY <1>3, <1>9 DEF CourseInv
  <2>. QED  BY <1>9, <1>10, <1>11, <2>1, <2>2, Zenon DEF CourseInv, Early
<1>13. CertInv(c)'
  <2>1. NewSession' = NewSession
    BY <1>3, Zenon DEF NewSession, Session
  <2>. QED  BY <1>3, <2>1, Zenon DEF CertInv, Server, Client, Late, Ready, Closed
<1>14. SentInv' /\ Keeps
  <2>1. CASE writePending = NoKeys
    <3>1. SendsFirst /\ hash' = Append(h, Fin) /\ UNCHANGED <<writeSide, out>>
      BY <1>3, <1>4, <2>1, Zenon
    <3>2. ASSUME NEW d, Says(d) PROVE Says(d)'
      <4>1. PICK g : /\ IsSeq(g) /\ Len(g) >= 2 /\ d = VerifyData(cfg.side, master, g)
                     /\ hash = Append(g, Fin)
        BY <1>3, <3>2, Zenon DEF Says, Ready, Closed
      <4>2. hash' = Append(Append(g, Fin), Fin)
        BY <1>1, <3>1, <4>1, Zenon
      <4>3. writeKeys' = master' /\ writePending' = NoKeys
        BY <1>3, <3>1, <3>2, Zenon DEF Says
      <4>. QED  BY <1>3, <1>4, <1>5, <3>1, <4>1, <4>2, <4>3, Zenon DEF Says, Late
    <3>. QED  BY <1>3, <3>1, <3>2, SilentUtters, SentKeeps, Zenon DEF SentInv
  <2>2. CASE writePending # NoKeys
    <3>1. /\ SwitchWrite(<<>>, writePending, master, Append(h, Fin))
          /\ hash' = Append(Append(h, Fin), Fin) /\ writePending = master
      BY <1>3, <2>2, Zenon DEF KeyInv, WriteAgreed
    <3>2. Finishes(b)
      BY <1>2, <3>1, PlainEmpty, SwitchFinishes, Zenon
    <3>3. writeKeys' = master' /\ writeReady' = TRUE /\ writePending' = NoKeys
      BY <1>3, <3>1, Zenon DEF SwitchWrite
    <3>4. Says(b)'
      <4>1. PICK g : g = Append(h, Fin)
        BY Zenon
      <4>2. IsSeq(g) /\ Len(g) >= 2 /\ hash' = Append(g, Fin)
        BY <1>4, <1>8, <3>1, <4>1
      <4>3. b = VerifyData(cfg'.side, master', g)
        BY <1>2, <1>3, <4>1, Zenon
      <4>. QED  BY <1>3, <1>4, <3>3, <4>2, <4>3, Zenon DEF Says, Late
    <3>5. ~Told
      BY <2>2, ToldFacts, Zenon
    <3>. QED  BY <1>3, <3>2, <3>3, <3>4, <3>5, SentFinished, Zenon
  <2>. QED  BY <2>1, <2>2, Zenon
<1>. QED  BY <1>7, <1>12, <1>13, <1>14, Zenon

----------------------------------------------------------------------------
(* One end of a connection of the library with itself. *)

\* It never opens again: the other end sends no HelloRequest.
AlertInv == sentFatalAlert \in BOOLEAN /\ (sentFatalAlert = TRUE => state \in Closed)

\* c is the other end's certificate.
EndInv(c) ==
    /\ DataInv /\ KeyInv /\ ClosedInv /\ AlertInv
    /\ CourseInv /\ SentInv /\ CertInv(c)
    /\ inRecord = FALSE

\* A step that starts no new handshake, and leaves what a ready context agreed on.
Onward ==
    /\ UNCHANGED cfg /\ Keeps
    /\ state \in Ready \/ Over => (state \in Ready \/ Over)'
Steady == state \in Ready /\ UNCHANGED <<cfg, master, hash, resumed>>

\* A new context.
LEMMA EndStart ==
    ASSUME Init, NEW c, Client /\ cfg.kx # "anon" => cache = NoSession \/ cache.certs = <<c>>
    PROVE  EndInv(c)
<1>1. DataInv /\ KeyInv
  BY DataInit, KeyInit, Zenon
<1>2. ClosedInv /\ AlertInv /\ inRecord = FALSE
  BY ClosedInit, Zenon DEF Init, AlertInv
<1>3. CourseInv
  <2>1. IsSeq(hash) /\ Len(hash) = 0
    BY EmptySeq, Zenon DEF Init
  <2>2. ~(Len(hash) >= 2) /\ ~(Len(hash) >= 3)
    BY <2>1
  <2>3. state = "Uninit" /\ sessionID = NoID /\ resumed = FALSE /\ resumed \in BOOLEAN
    BY Zenon DEF Init
  <2>4. state \notin Early \cup Late
    BY <2>3, Zenon DEF Early, Late, Ready
  <2>. QED  BY <2>1, <2>2, <2>3, <2>4, Zenon DEF CourseInv
<1>4. SentInv
  <2>1. IsSeq(out) /\ Len(out) = 0
    BY EmptySeq, Zenon DEF Init
  <2>2. \A i : i \notin 1 .. 0
    OBVIOUS
  <2>3. writeReady = FALSE
    BY Zenon DEF Init
  <2>. QED  BY <2>1, <2>2, <2>3, Zenon DEF SentInv
<1>5. CertInv(c)
  BY Zenon DEF Init, CertInv, Late, Ready, Closed
<1>. QED  BY <1>1, <1>2, <1>3, <1>4, <1>5, Zenon DEF EndInv

\* A calm step.
LEMMA CalmOnward ==
    ASSUME NEW c, DataInv, CourseInv, SentInv, CertInv(c), Calm,
           state \in Ready \/ Over => (state \in Ready \/ Over)'
    PROVE  /\ CourseInv' /\ SentInv' /\ CertInv(c)' /\ inRecord' = FALSE
           /\ Onward /\ (state' \in Ready => Steady)
<1>1. CourseInv' /\ SentInv' /\ CertInv(c)' /\ Keeps
  BY CalmKeeps, Zenon
<1>2. /\ UNCHANGED <<cfg, master, hash, resumed>> /\ inRecord' = FALSE
      /\ state' = state \/ state' \in Closed
  BY Zenon DEF Calm
<1>3. state' \in Ready => state \in Ready
  BY <1>2, Zenon DEF Ready, Closed
<1>. QED  BY <1>1, <1>2, <1>3, Zenon DEF Onward, Steady

\* The API's steps.
LEMMA EndLocal ==
    ASSUME NEW c, EndInv(c), Local \/ Disconnect
    PROVE  EndInv(c)' /\ Onward /\ (state' \in Ready => Steady)
<1>1. DataInv' /\ KeyInv' /\ ClosedInv'
  BY DataLocal, KeyLocal, ClosedLocal, Zenon DEF EndInv
<1>2. DataInv /\ CourseInv /\ SentInv /\ CertInv(c) /\ inRecord = FALSE
  BY Zenon DEF EndInv
<1>3. state \in Ready \/ Over => (state \in Ready \/ Over)'
  BY ClosedLocal, Zenon DEF EndInv
<1>4. AlertInv'
  <2>1. \/ state' \in Closed /\ sentFatalAlert' \in BOOLEAN
        \/ UNCHANGED <<state, sentFatalAlert>>
        \/ state \notin Closed /\ UNCHANGED sentFatalAlert
    <3>1. CASE \E d \in {"handshake", "read", "write"} : Call(d)
      BY <3>1, Zenon DEF Call
    <3>2. CASE WouldBlock \/ SignalServerAuth \/ HandshakeDone \/ Write
      BY <3>2, Zenon DEF WouldBlock, SignalServerAuth, HandshakeDone, Write
    <3>3. CASE Close
      <4>1. (sentFatalAlert \/ version # "undetermined") \in BOOLEAN
        BY Zenon
      <4>. QED  BY <3>3, <4>1, Zenon DEF Close, Closed
    <3>4. CASE InitConnection \/ ContinueHandshake
      BY <3>4, Zenon DEF InitConnection, ContinueHandshake, Closed
    <3>5. CASE Disconnect
      BY <3>5, Zenon DEF Disconnect, Fatal, Closed, EndInv, AlertInv
    <3>. QED  BY <3>1, <3>2, <3>3, <3>4, <3>5, ZenonT(40) DEF Local
  <2>. QED  BY <2>1, Zenon DEF EndInv, AlertInv
<1>5. CASE InitConnection \/ ContinueHandshake
  <2>1. CourseInv' /\ SentInv' /\ CertInv(c)' /\ Keeps
    BY <1>2, <1>5, InitEnds, ContinueEnds, Zenon
  <2>2. UNCHANGED <<cfg, inRecord>> /\ state \in {"Uninit", "ClientCert"}
    BY <1>5, Zenon DEF InitConnection, ContinueHandshake
  <2>3. state' \in {"ServerHello", "ServerUninit", "ChangeCipherSpec"}
    BY <1>5, Zenon DEF InitConnection, ContinueHandshake, StartHandshake, ClientFlight
  <2>. QED  BY <1>1, <1>2, <1>3, <1>4, <2>1, <2>2, <2>3, Zenon DEF EndInv, Onward, Ready
<1>6. CASE ~(InitConnection \/ ContinueHandshake)
  <2>1. Calm
    <3>1. IsSeq(out) /\ writeReady \in BOOLEAN
      BY <1>2, Zenon DEF SentInv
    <3>. QED  BY <1>2, <1>6, <3>1, CalmLocal, Zenon DEF Local
  <2>. QED  BY <1>1, <1>2, <1>3, <1>4, <2>1, CalmOnward, Zenon DEF EndInv
<1>. QED  BY <1>5, <1>6, Zenon

\* A message from the other end.
LEMMA EndMessage ==
    ASSUME NEW c, EndInv(c), NEW m, Typed(m), m.type # "helloRequest", m.type = "cert" => m.body = c,
           NEW k, Receive(k, m, TRUE)
    PROVE  /\ EndInv(c)' /\ Onward
           /\ state' \in Ready => Steady \/ (m.type = "finished" /\ Confirmed(m.body)')
           /\ m.type = "finished" => (state \in Ready \/ Over)'
<1>1. Reading /\ Takes(m, TRUE)
  BY ReceiveTakes, Zenon
<1>2. DataInv /\ KeyInv /\ ClosedInv /\ CourseInv /\ SentInv /\ CertInv(c) /\ inRecord = FALSE
  BY Zenon DEF EndInv
<1>3. DataInv' /\ KeyInv' /\ ClosedInv'
  <2>1. TRUE \in BOOLEAN
    BY Zenon
  <2>. QED  BY <1>1, <1>2, <2>1, DataMessage, KeyMessage, ClosedMessage, Zenon
<1>4. ~Over /\ ~(Client /\ state = "ClientCert")
  BY <1>1, <1>2, ReadsOpen, ReadsIdle, Zenon
<1>5. ~Unanswered(m)
  <2>1. Unanswered(m) => state \in Closed /\ Legal(m.type)
    BY Zenon DEF Unanswered, EndInv, AlertInv
  <2>. QED  BY <2>1, Zenon DEF Legal, Closed
<1>6. AlertInv' /\ (state \in Ready => (state \in Ready \/ Over)')
  BY <1>1, <1>2, ClosedKept, ReadyKept, ZenonT(40) DEF EndInv, AlertInv
<1>7. ASSUME Calm
      PROVE  EndInv(c)' /\ Onward /\ (state' \in Ready => Steady)
  BY <1>2, <1>3, <1>4, <1>7, <1>6, CalmOnward, Zenon DEF EndInv
<1>8. ASSUME CourseInv' /\ SentInv' /\ CertInv(c)' /\ Keeps, UNCHANGED cfg, inRecord' = FALSE,
             state \notin Ready, state' \notin Ready
      PROVE  EndInv(c)' /\ Onward /\ (state' \in Ready => Steady)
  BY <1>3, <1>4, <1>8, <1>6, Zenon DEF EndInv, Onward
<1>9. IsSeq(out)
  BY <1>2, Zenon DEF SentInv
<1>10. CASE Refuse("failure") \/ BadMessage(m)
  <2>1. Calm
    BY <1>1, <1>2, <1>9, <1>10, CalmMessage, Zenon
  <2>2. Over'
    BY <1>10, Zenon DEF Refuse, BadMessage, Fatal, Over, Closed
  <2>. QED  BY <1>7, <2>1, <2>2, Zenon
<1>11. CASE m.type = "clientHello" /\ m.body # Bad /\ ClientHelloResume(m, TRUE)
  <2>1. CourseInv' /\ SentInv' /\ CertInv(c)' /\ Keeps
    BY <1>2, <1>11, ResumeEnds, Zenon
  <2>2. /\ UNCHANGED cfg /\ inRecord' = FALSE
        /\ state \notin Ready /\ state' \notin Ready
    BY <1>11, Zenon DEF ClientHelloResume, Ready
  <2>. QED  BY <1>8, <1>11, <2>1, <2>2, Zenon
<1>12. CASE m.type = "clientHello" /\ m.body # Bad /\ ClientHelloFull(m, TRUE)
  <2>1. CourseInv' /\ SentInv' /\ CertInv(c)' /\ Keeps
    BY <1>2, <1>12, FullEnds, Zenon
  <2>2. /\ UNCHANGED cfg /\ state = "ServerUninit" /\ inRecord' = FALSE
        /\ state' \in {"ErrorClose", Shut(state), "ClientCert", "ClientKeyExchange"}
    BY <1>12, ZenonT(40) DEF ClientHelloFull
  <2>3. state \notin Ready /\ state' \notin Ready
    BY <2>2, Zenon DEF Ready, Shut
  <2>. QED  BY <1>8, <1>12, <2>1, <2>2, <2>3, Zenon
<1>13. CASE m.type = "serverHello" /\ m.body # Bad /\ ServerHello(m, TRUE)
  <2>1. CourseInv' /\ SentInv' /\ CertInv(c)' /\ Keeps
    BY <1>2, <1>13, ServerHelloEnds, Zenon
  <2>2. /\ UNCHANGED cfg /\ inRecord' = FALSE
        /\ state \notin Ready /\ state' \notin Ready
    BY <1>13, Zenon DEF ServerHello, Processed, Ready
  <2>. QED  BY <1>8, <1>13, <2>1, <2>2, Zenon
<1>14. CASE m.type = "cert" /\ m.body # Bad /\ Certificate(m, TRUE)
  <2>1. CASE Fatal(version, "badCert") /\ UNCHANGED <<cfg, hash, certReceived>>
    BY <1>1, <1>2, <1>7, <1>9, <1>14, <2>1, CalmMessage, Zenon
  <2>2. CASE ~(Fatal(version, "badCert") /\ UNCHANGED <<cfg, hash, certReceived>>)
    <3>1. CourseInv' /\ SentInv' /\ CertInv(c)' /\ Keeps
      BY <1>2, <1>4, <1>14, <2>2, CertificateEnds, Zenon
    <3>2. /\ UNCHANGED cfg /\ inRecord' = FALSE
          /\ state \notin Ready /\ state' \notin Ready
      BY <1>14, <2>2, Zenon DEF Certificate, AfterCertificate, Processed, Ready
    <3>. QED  BY <1>8, <1>14, <3>1, <3>2, Zenon
  <2>. QED  BY <2>1, <2>2, Zenon
<1>15. CASE m.type = "certRequest" /\ CertRequest(m, TRUE)
  <2>1. CourseInv' /\ SentInv' /\ CertInv(c)' /\ Keeps
    BY <1>2, <1>15, CertRequestEnds, Zenon
  <2>2. /\ UNCHANGED cfg /\ inRecord' = FALSE
        /\ state \notin Ready /\ state' \notin Ready
    BY <1>15, Zenon DEF CertRequest, Processed, Fatal, Ready
  <2>. QED  BY <1>8, <1>15, <2>1, <2>2, Zenon
<1>16. CASE \/ m.type = "serverKeyExchange" /\ ServerKeyExchange(m, TRUE)
            \/ m.type = "certVerify" /\ CertVerify(m, TRUE)
            \/ m.type = "clientKeyExchange" /\ m.body # Bad /\ ClientKeyExchange(m, TRUE)
  <2>1. CourseInv' /\ SentInv' /\ CertInv(c)' /\ Keeps
    BY <1>2, <1>16, KeyExchangeEnds, Zenon
  <2>2. /\ UNCHANGED cfg /\ inRecord' = FALSE
        /\ state \notin Ready /\ state' \notin Ready
    BY <1>16, Zenon DEF ServerKeyExchange, CertVerify, ClientKeyExchange, AfterKeyExchange,
       Processed, Ready
  <2>. QED  BY <1>8, <1>16, <2>1, <2>2, Zenon
<1>17. CASE m.type = "serverHelloDone" /\ ServerHelloDone(m, TRUE)
  <2>1. CourseInv' /\ SentInv' /\ CertInv(c)' /\ Keeps
    BY <1>2, <1>17, HelloDoneEnds, Zenon
  <2>2. ClientFlight(Append(hash, m)) => state' = "ChangeCipherSpec"
    BY Zenon DEF ClientFlight
  <2>3. /\ UNCHANGED cfg /\ inRecord' = FALSE
        /\ state \notin Ready /\ state' \notin Ready
    BY <1>17, <2>2, Zenon DEF ServerHelloDone, Ready
  <2>. QED  BY <1>8, <1>17, <2>1, <2>3, Zenon
<1>18. CASE m.type = "finished" /\ Finished(m, TRUE)
  <2>1. CourseInv' /\ SentInv' /\ CertInv(c)' /\ Keeps /\ Confirmed(m.body)'
    BY <1>2, <1>18, FinishedEnds, Zenon
  <2>2. UNCHANGED cfg /\ inRecord' = FALSE /\ state' \in Ready
    BY <1>18, Zenon DEF Finished, Ready
  <2>. QED  BY <1>3, <1>18, <1>6, <2>1, <2>2, Zenon DEF EndInv, Onward
<1>19. CASE m.type = "ccs" /\ ChangeCipherSpec(m) /\ ~Refuse("failure")
  <2>1. CourseInv' /\ SentInv' /\ CertInv(c)' /\ Keeps
    BY <1>2, <1>19, SpecEnds, Zenon
  <2>2. /\ UNCHANGED <<cfg, inRecord>>
        /\ state \notin Ready /\ state' \notin Ready
    BY <1>19, Zenon DEF ChangeCipherSpec, Ready
  <2>. QED  BY <1>2, <1>8, <1>19, <2>1, <2>2, Zenon
<1>20. CASE m.type = "alert" /\ (CloseNotify(m) \/ ErrorAlert(m) \/ Warning(m))
  <2>1. CASE Warning(m) /\ ~UNCHANGED <<state, certReceived>>
    <3>1. CourseInv' /\ SentInv' /\ CertInv(c)' /\ Keeps
      BY <1>2, <2>1, NoCertEnds, Zenon
    <3>2. /\ UNCHANGED <<cfg, inRecord>>
          /\ state \notin Ready /\ state' \notin Ready
      BY <2>1, Zenon DEF Warning, Ready
    <3>. QED  BY <1>2, <1>8, <1>20, <3>1, <3>2, Zenon
  <2>2. CASE ~(Warning(m) /\ ~UNCHANGED <<state, certReceived>>)
    <3>1. Calm
      BY <1>1, <1>2, <1>9, <1>20, <2>2, CalmMessage, Zenon
    <3>. QED  BY <1>7, <1>20, <3>1, Zenon
  <2>. QED  BY <2>1, <2>2, Zenon
<1>21. CASE m.type = "data" /\ AppData(m)
  <2>1. Calm
    BY <1>1, <1>2, <1>9, <1>21, CalmMessage, Zenon
  <2>. QED  BY <1>7, <1>21, <2>1, Zenon
<1>. QED
  BY <1>1, <1>10, <1>11, <1>12, <1>13, <1>14, <1>15, <1>16, <1>17, <1>18, <1>19, <1>20, <1>21,
     <1>5, Zenon DEF Takes

\* A step of the other end.
LEMMA EndFrame ==
    ASSUME NEW c, EndInv(c), UNCHANGED vars
    PROVE  EndInv(c)'
<1>1. DataInv'
  BY DataNext, Zenon DEF EndInv
<1>2. KeyInv'
  BY KeyNext, Zenon DEF EndInv
<1>3. UNCHANGED <<cfg, state, call, readReady, sentFatalAlert, version, writeKeys, writeReady, writePending,
                  master, sessionID, resumable, resumed, cache, certReceived, peerCert, hash,
                  out, inRecord>>
  BY Zenon DEF vars
<1>4. ClosedInv' /\ AlertInv' /\ inRecord' = FALSE
  BY <1>3, Zenon DEF EndInv, ClosedInv, AlertInv, Handshaking
<1>5. CourseInv'
  BY <1>3, Zenon DEF EndInv, CourseInv, Client, Server, SendsFirst
<1>6. CertInv(c)'
  BY <1>3, Zenon DEF EndInv, CertInv, Client, Server, NewSession
<1>7. SentInv'
  <2>1. Told' = Told /\ \A m : Sendable(m)' <=> Sendable(m)
    BY <1>3, Zenon DEF Told, Sendable
  <2>2. \A b : Says(b)' <=> Says(b)
    BY <1>3, Zenon DEF Says, SendsFirst, Client, Server
  <2>. QED  BY <1>3, <2>1, <2>2, Zenon DEF EndInv, SentInv
<1>. QED  BY <1>1, <1>2, <1>4, <1>5, <1>6, <1>7, Zenon DEF EndInv

\* A context that is ready.
LEMMA EndReady ==
    ASSUME NEW c, EndInv(c), state \in Ready
    PROVE  /\ version = cfg.version /\ readReady = TRUE /\ readKeys = master /\ writeKeys = master
           /\ Client /\ cfg.kx # "anon" => peerCert = <<c>>
           /\ Server /\ certReceived = TRUE => peerCert = <<c>>
           /\ certReceived \in BOOLEAN
           /\ cfg.peerID => cache = NewSession
<1>1. version = cfg.version
  BY Zenon DEF EndInv, DataInv, VersionKnown, Ready
<1>2. readReady = TRUE /\ readKeys = master /\ writeKeys = master
  BY Zenon DEF EndInv, KeyInv
<1>3. state \in Late /\ state \notin Closed
  BY Zenon DEF Late, Ready, Closed
<1>. QED  BY <1>1, <1>2, <1>3, Zenon DEF EndInv, CertInv

\* What an end has written.
LEMMA EndWrites ==
    ASSUME NEW c, EndInv(c), NEW i \in 1 .. Len(out)
    PROVE  /\ \A m : out[i].msg = m => Sendable(m)
           /\ \A b : out[i].msg = Msg("finished", b) => Says(b)
           /\ out[i].msg.type = "data" =>
                 out[i].keys = master /\ \E j \in 1 .. (i - 1) : out[j].msg.type = "finished"
  BY Zenon DEF EndInv, SentInv

\* The course of its handshake.
LEMMA EndCourse ==
    ASSUME NEW c, EndInv(c), Len(hash) >= 2, Len(hash) >= 3
    PROVE  /\ cfg.peerID => sessionID = hash[2].body
           /\ hash[3].type = "finished" <=> resumed = TRUE
           /\ resumed \in BOOLEAN
  BY Zenon DEF EndInv, CourseInv

\* Its records are counted.
LEMMA EndCounts ==
    ASSUME NEW c, EndInv(c)
    PROVE  Len(out) \in Nat
  BY DEF EndInv, SentInv, IsSeq

----------------------------------------------------------------------------
(* An end and its peer, which has written the records s; n of them were read. *)

\* What the peer's Finished tells of its side, its secret, its transcript x, and of
\* whether it resumed, which says who was first to send one.
First(side, r) == (side = "server" /\ r = TRUE) \/ (side = "client" /\ r = FALSE)
Stated(b, side, m, x, r) ==
    \E h : /\ IsSeq(h) /\ Len(h) >= 2
           /\ b = VerifyData(side, m, h)
           /\ \/ x = Append(h, Fin)
              \/ First(side, r) /\ x = Append(Append(h, Fin), Fin)

\* The records s of such a peer say so.
Backed(s, side, m, x, r) ==
    /\ \A i \in 1 .. Len(s) : \A b : s[i].msg = Msg("finished", b) => Stated(b, side, m, x, r)
    /\ Len(x) >= 3 => (x[3].type = "finished" <=> r = TRUE)

\* An end is ready because of a Finished the peer has written, and is not left
\* shaking hands by one it has read.
Heard(s) ==
    state \in Ready => \E i \in 1 .. Len(s) : \E b : s[i].msg = Msg("finished", b) /\ Confirmed(b)
Took(s, n) == \A i \in 1 .. n : s[i].msg.type = "finished" => state \in Ready \/ Over

SideInv(c, s, n) ==
    /\ EndInv(c)
    /\ Len(s) \in Nat /\ n \in 0 .. Len(s)
    /\ Heard(s) /\ Took(s, n)

\* A new context has read nothing.
LEMMA SideStart ==
    ASSUME Init, NEW c, Client /\ cfg.kx # "anon" => cache = NoSession \/ cache.certs = <<c>>,
           NEW s, Len(s) \in Nat
    PROVE  SideInv(c, s, 0)
<1>1. EndInv(c)
  BY EndStart, Zenon
<1>2. state \notin Ready
  BY Zenon DEF Init, Ready
<1>3. \A i : i \notin 1 .. 0
  OBVIOUS
<1>4. 0 \in 0 .. Len(s)
  OBVIOUS
<1>. QED  BY <1>1, <1>2, <1>3, <1>4, Zenon DEF SideInv, Heard, Took

\* A ready end that stays as it is.
LEMMA SideSteady ==
    ASSUME NEW s, Heard(s), Steady
    PROVE  Heard(s)'
<1>1. PICK i \in 1 .. Len(s) : \E b : s[i].msg = Msg("finished", b) /\ Confirmed(b)
  BY Zenon DEF Heard, Steady
<1>2. PICK b : s[i].msg = Msg("finished", b) /\ Confirmed(b)
  BY <1>1, Zenon
<1>3. Confirmed(b)'
  BY <1>2, Zenon DEF Steady, Confirmed, PeerSide, SendsFirst, Server, Client
<1>. QED  BY <1>2, <1>3, Zenon DEF Heard

\* The API's steps.
LEMMA SideLocal ==
    ASSUME NEW c, NEW s, NEW n, SideInv(c, s, n), Local \/ Disconnect
    PROVE  SideInv(c, s, n)' /\ Onward
<1>1. EndInv(c)' /\ Onward /\ (state' \in Ready => Steady)
  BY EndLocal, Zenon DEF SideInv
<1>2. Heard(s)'
  BY <1>1, SideSteady, Zenon DEF SideInv, Heard
<1>3. Took(s, n)'
  BY <1>1, Zenon DEF SideInv, Took, Onward
<1>. QED  BY <1>1, <1>2, <1>3, Zenon DEF SideInv

\* The peer's next record.
LEMMA SideMessage ==
    ASSUME NEW c, NEW s, NEW n, SideInv(c, s, n), n < Len(s), NEW m, m = s[n + 1].msg,
           Typed(m), m.type # "helloRequest", m.type = "cert" => m.body = c,
           NEW k, Receive(k, m, TRUE)
    PROVE  SideInv(c, s, n + 1)' /\ Onward
<1>1. /\ EndInv(c)' /\ Onward
      /\ state' \in Ready => Steady \/ (m.type = "finished" /\ Confirmed(m.body)')
      /\ m.type = "finished" => (state \in Ready \/ Over)'
  BY EndMessage, Zenon DEF SideInv
<1>2. n + 1 \in 1 .. Len(s) /\ n + 1 \in 0 .. Len(s)
      /\ \A i \in 1 .. (n + 1) : i \in 1 .. n \/ i = n + 1
  BY DEF SideInv
<1>3. ASSUME m.type = "finished", Confirmed(m.body)'
      PROVE  Heard(s)'
  <2>1. PICK j : j = n + 1
    BY Zenon
  <2>2. j \in 1 .. Len(s) /\ s[j].msg = Msg("finished", m.body)
    BY <1>2, <1>3, <2>1, Zenon DEF Typed
  <2>. QED  BY <1>3, <2>2, Zenon DEF Heard
<1>4. Heard(s)'
  <2>1. CASE state' \in Ready
    BY <1>1, <1>3, <2>1, SideSteady, Zenon DEF SideInv
  <2>. QED  BY <2>1, Zenon DEF Heard
<1>5. Took(s, n + 1)'
  <2>. SUFFICES ASSUME NEW i \in 1 .. (n + 1), s[i].msg.type = "finished"
                PROVE  (state \in Ready \/ Over)'
    BY Zenon DEF Took
  <2>1. CASE i \in 1 .. n
    BY <1>1, <2>1, Zenon DEF SideInv, Took, Onward
  <2>2. CASE i = n + 1
    BY <1>1, <2>2, Zenon
  <2>. QED  BY <1>2, <2>1, <2>2, Zenon
<1>. QED  BY <1>1, <1>2, <1>4, <1>5, Zenon DEF SideInv

\* A step of the peer, which may write.
LEMMA SideOther ==
    ASSUME NEW c, NEW s, NEW n, SideInv(c, s, n), UNCHANGED vars,
           NEW t, Len(t) \in Nat, Len(s) =< Len(t), \A i \in 1 .. Len(s) : t[i] = s[i]
    PROVE  SideInv(c, t, n)'
<1>1. EndInv(c)'
  BY EndFrame, Zenon DEF SideInv
<1>2. UNCHANGED <<cfg, call, state, master, hash, resumed>>
  BY Zenon DEF vars
<1>3. /\ Len(s) \in Nat /\ n \in 0 .. Len(t)
      /\ \A i \in 1 .. n : i \in 1 .. Len(s)
      /\ \A i \in 1 .. Len(s) : i \in 1 .. Len(t)
  BY DEF SideInv
<1>4. Took(t, n)'
  BY <1>2, <1>3, Zenon DEF SideInv, Took, Over
<1>5. Heard(t)'
  <2>1. CASE state \in Ready
    <3>1. Heard(s)'
      BY <1>2, <2>1, SideSteady, Zenon DEF SideInv, Steady
    <3>. QED  BY <1>2, <1>3, <2>1, <3>1, Zenon DEF Heard
  <2>. QED  BY <1>2, <2>1, Zenon DEF Heard
<1>. QED  BY <1>1, <1>3, <1>4, <1>5, Zenon DEF SideInv

\* Nothing happens.
LEMMA SideFrame ==
    ASSUME NEW c, NEW s, NEW n, SideInv(c, s, n), UNCHANGED vars
    PROVE  SideInv(c, s, n)' /\ Onward
<1>1. Len(s) \in Nat /\ Len(s) =< Len(s) /\ \A i \in 1 .. Len(s) : s[i] = s[i]
  BY DEF SideInv
<1>2. SideInv(c, s, n)'
  BY <1>1, SideOther, Zenon
<1>3. UNCHANGED <<cfg, call, state, out>>
  BY Zenon DEF vars
<1>4. Len(out) \in Nat /\ Len(out) =< Len(out)
  BY EndCounts DEF SideInv
<1>. QED  BY <1>2, <1>3, <1>4, Zenon DEF Onward, Over, Keeps

\* What an end's own Finished tells.
LEMMA SideStates ==
    ASSUME NEW c, EndInv(c), NEW i \in 1 .. Len(out), NEW b, out[i].msg = Msg("finished", b)
    PROVE  /\ Stated(b, cfg.side, master, hash, resumed)
           /\ version = cfg.version /\ writeKeys = master
<1>1. Says(b)
  BY EndWrites, Zenon
<1>2. SendsFirst <=> First(cfg.side, resumed)
  BY Zenon DEF SendsFirst, First, Client, Server
<1>. QED  BY <1>1, <1>2, Zenon DEF Says, Stated

\* The third message of two transcripts that go on from one, and the shorter.
LEMMA Transcripts ==
    ASSUME NEW h, IsSeq(h), Len(h) >= 2,
           NEW x, x = Append(h, Fin) \/ x = Append(Append(h, Fin), Fin)
    PROVE  /\ Len(x) \in Nat /\ Len(x) >= 3 /\ Len(x) >= 2 /\ Len(Append(h, Fin)) =< Len(x)
           /\ \A i \in 1 .. Len(Append(h, Fin)) : x[i] = Append(h, Fin)[i]
           /\ x[2] = Append(h, Fin)[2] /\ x[3] = Append(h, Fin)[3]
<1> DEFINE y == Append(h, Fin)
<1>1. IsSeq(y) /\ Len(h) \in Nat /\ Len(y) = Len(h) + 1
  BY AppendSeq, Zenon
<1> HIDE DEF y
<1>2. /\ Len(y) \in Nat /\ Len(Append(y, Fin)) = Len(y) + 1
      /\ \A i \in 1 .. Len(y) : Append(y, Fin)[i] = y[i]
  BY <1>1, AppendSeq
<1>3. x = y \/ x = Append(y, Fin)
  BY Zenon DEF y
<1>4. 2 \in 1 .. Len(y) /\ 3 \in 1 .. Len(y)
  BY <1>1
<1>5. Len(x) \in Nat /\ Len(x) >= Len(y) /\ \A i \in 1 .. Len(y) : x[i] = y[i]
  BY <1>2, <1>3
<1>6. Len(x) >= 3 /\ Len(x) >= 2 /\ Len(y) =< Len(x)
  BY <1>1, <1>5
<1>. QED  BY <1>4, <1>5, <1>6, Zenon DEF y

\* A ready end agrees with a peer of secret m, transcript x and r for resumed.
LEMMA SideAgrees ==
    ASSUME NEW c, NEW s, NEW n, SideInv(c, s, n), state \in Ready,
           NEW m, NEW x, NEW r \in BOOLEAN,
           Backed(s, PeerSide, m, x, r)
    PROVE  /\ master = m /\ resumed = r
           /\ Len(x) >= 2 /\ Len(x) >= 3 /\ Len(hash) >= 2 /\ Len(hash) >= 3
           /\ x[2] = hash[2]
           /\ Len(x) =< Len(hash) /\ \A i \in 1 .. Len(x) : x[i] = hash[i]
<1>1. PICK i \in 1 .. Len(s) : \E b : s[i].msg = Msg("finished", b) /\ Confirmed(b)
  BY Zenon DEF SideInv, Heard
<1>2. PICK b : s[i].msg = Msg("finished", b) /\ Confirmed(b)
  BY <1>1, Zenon
<1>3. PICK h : /\ IsSeq(h) /\ Len(h) >= 2 /\ b = VerifyData(PeerSide, master, h)
               /\ hash = IF SendsFirst THEN Append(h, Fin) ELSE Append(Append(h, Fin), Fin)
  BY <1>2, Zenon DEF Confirmed
<1>4. Stated(b, PeerSide, m, x, r)
  BY <1>2, Zenon DEF Backed
<1>5. PICK g : /\ b = VerifyData(PeerSide, m, g)
               /\ \/ x = Append(g, Fin)
                  \/ First(PeerSide, r) /\ x = Append(Append(g, Fin), Fin)
  BY <1>4, Zenon DEF Stated
<1>6. m = master /\ g = h
  BY <1>3, <1>5 DEF VerifyData
<1> DEFINE y == Append(h, Fin)
<1>7. /\ Len(hash) \in Nat /\ Len(hash) >= 3 /\ Len(hash) >= 2 /\ Len(y) =< Len(hash)
      /\ \A j \in 1 .. Len(y) : hash[j] = y[j]
      /\ hash[2] = y[2] /\ hash[3] = y[3]
  BY <1>3, Transcripts, Zenon
<1>8. /\ Len(x) >= 3 /\ Len(x) >= 2 /\ x[2] = y[2] /\ x[3] = y[3]
  BY <1>3, <1>5, <1>6, Transcripts
<1>9. (hash[3].type = "finished" <=> resumed = TRUE) /\ resumed \in BOOLEAN
  BY <1>7, EndCourse, Zenon DEF SideInv
<1>10. resumed = r
  <2>1. hash[3].type = "finished" <=> r = TRUE
    BY <1>7, <1>8, Zenon DEF Backed
  <2>2. resumed = TRUE <=> r = TRUE
    BY <1>9, <2>1, Zenon
  <2>. QED  BY ONLY <1>9, <2>2, r \in BOOLEAN
<1>11. First(PeerSide, r) => ~SendsFirst
  BY <1>10, Zenon DEF First, PeerSide, SendsFirst, Server, Client
<1>12. Len(x) =< Len(hash) /\ \A j \in 1 .. Len(x) : x[j] = hash[j]
  <2>1. CASE x = y
    BY <1>7, <2>1, Zenon
  <2>2. CASE x # y
    <3>1. x = hash
      BY <1>3, <1>5, <1>6, <1>11, <2>2, Zenon
    <3>. QED  BY <1>7, <3>1
  <2>. QED  BY <2>1, <2>2, Zenon
<1>. QED  BY <1>6, <1>7, <1>8, <1>10, <1>12, Zenon

----------------------------------------------------------------------------
(* What two ends rely on of each other. *)

\* The records an end writes are ones its peer can read.
LEMMA SideWrites ==
    ASSUME NEW c, NEW s, NEW n, SideInv(c, s, n), NEW d, d = cfg.cert, d \in Certs \cup {NoCert},
           NEW i \in 1 .. Len(out), NEW m, m = out[i].msg
    PROVE  Typed(m) /\ m.type # "helloRequest" /\ (m.type = "cert" => m.body = d)
<1>1. Sendable(m)
  BY EndWrites, Zenon DEF SideInv
<1>. QED  BY <1>1, Zenon DEF Sendable, Typed

\* They grow in number.
LEMMA SideGrows ==
    ASSUME Onward
    PROVE  /\ UNCHANGED cfg
           /\ Len(out) \in Nat /\ Len(out') \in Nat /\ Len(out) =< Len(out')
           /\ \A i \in 1 .. Len(out) : out'[i] = out[i]
  BY Zenon DEF Onward, Keeps

\* What a peer set up as g, with secret m, transcript x, r for resumed, version v, write
\* keys w and session id, says in its records s and by what it hashed.
Speaks(s, g, m, x, r, v, w, id) ==
    /\ Backed(s, g.side, m, x, r) /\ r \in BOOLEAN
    /\ \A i \in 1 .. Len(s) : \A b : s[i].msg = Msg("finished", b) => v = g.version /\ w = m
    /\ Len(x) >= 2 /\ Len(x) >= 3 => (g.peerID => id = x[2].body)

\* An end speaks so itself.
LEMMA SideSpeaks ==
    ASSUME NEW c, NEW s, NEW n, SideInv(c, s, n)
    PROVE  Speaks(out, cfg, master, hash, resumed, version, writeKeys, sessionID)
<1>1. EndInv(c)
  BY Zenon DEF SideInv
<1>2. \A i \in 1 .. Len(out) : \A b : out[i].msg = Msg("finished", b) =>
         /\ Stated(b, cfg.side, master, hash, resumed)
         /\ version = cfg.version /\ writeKeys = master
  BY <1>1, SideStates, Zenon
<1>3. /\ resumed \in BOOLEAN /\ IsSeq(hash)
      /\ Len(hash) >= 2 /\ Len(hash) >= 3 => (cfg.peerID => sessionID = hash[2].body)
      /\ Len(hash) >= 3 => (hash[3].type = "finished" <=> resumed = TRUE)
  BY <1>1, Zenon DEF EndInv, CourseInv
<1>4. Backed(out, cfg.side, master, hash, resumed)
  BY <1>2, <1>3, Zenon DEF Backed
<1>. QED  BY <1>2, <1>3, <1>4, Zenon DEF Speaks

\* What a ready end has in common with such a peer, whose certificate is c.
Shares(c, g, m, x, r, v, w, id) ==
    /\ master = m /\ resumed = r /\ version = v /\ readKeys = w /\ writeKeys = m
    /\ Len(x) =< Len(hash) /\ \A i \in 1 .. Len(x) : x[i] = hash[i]
    /\ cfg.peerID /\ g.peerID => sessionID = id
    /\ Client /\ cfg.kx # "anon" => peerCert = <<c>>
    /\ Server /\ certReceived => peerCert = <<c>>
    /\ cfg.peerID =>
          cache.id = sessionID /\ cache.master = master /\ cache.version = version

\* It has.
LEMMA SideReady ==
    ASSUME NEW c, NEW s, NEW n, SideInv(c, s, n), state \in Ready,
           NEW g, g.side = PeerSide, g.version = cfg.version,
           NEW m, NEW x, NEW r, NEW v, NEW w, NEW id, Speaks(s, g, m, x, r, v, w, id)
    PROVE  Shares(c, g, m, x, r, v, w, id)
<1>1. PICK i \in 1 .. Len(s) : \E b : s[i].msg = Msg("finished", b)
  BY Zenon DEF SideInv, Heard
<1>2. v = cfg.version /\ w = m
  BY <1>1, Zenon DEF Speaks
<1>3. /\ master = m /\ resumed = r
      /\ Len(x) >= 2 /\ Len(x) >= 3 /\ Len(hash) >= 2 /\ Len(hash) >= 3
      /\ x[2] = hash[2]
      /\ Len(x) =< Len(hash) /\ \A j \in 1 .. Len(x) : x[j] = hash[j]
  BY SideAgrees DEF Speaks
<1>4. EndInv(c)
  BY Zenon DEF SideInv
<1>5. /\ version = cfg.version /\ readKeys = master /\ writeKeys = master
      /\ Client /\ cfg.kx # "anon" => peerCert = <<c>>
      /\ Server /\ certReceived = TRUE => peerCert = <<c>>
      /\ certReceived \in BOOLEAN
      /\ cfg.peerID => cache = NewSession
  BY <1>4, EndReady, Zenon
<1>6. cfg.peerID /\ g.peerID => sessionID = id
  <2>1. cfg.peerID => sessionID = hash[2].body
    BY <1>3, <1>4, EndCourse, Zenon
  <2>2. Len(x) >= 2 /\ Len(x) >= 3 => (g.peerID => id = x[2].body)
    BY Zenon DEF Speaks
  <2>3. g.peerID => id = hash[2].body
    BY <1>3, <2>2, Zenon
  <2>. QED  BY <2>1, <2>3, Zenon
<1>7. cfg.peerID => cache.id = sessionID /\ cache.master = master /\ cache.version = version
  BY <1>5 DEF NewSession, Session
<1>8. Server /\ certReceived => peerCert = <<c>>
  BY <1>5, Zenon
<1>9. version = v /\ readKeys = w /\ writeKeys = m
  BY <1>2, <1>3, <1>5, Zenon
<1>. QED  BY <1>3, <1>5, <1>6, <1>7, <1>8, <1>9, Zenon DEF Shares

\* Data is written after the Finished, and read by an end that is ready.
LEMMA SideData ==
    ASSUME NEW c, NEW s, NEW n, SideInv(c, s, n), NEW i \in 1 .. Len(out), out[i].msg.type = "data"
    PROVE  out[i].keys = master /\ \E j \in 1 .. (i - 1) : out[j].msg.type = "finished"
  BY EndWrites, Zenon DEF SideInv

LEMMA SideReads ==
    ASSUME NEW c, NEW s, NEW n, SideInv(c, s, n), NEW j \in 1 .. n, s[j].msg.type = "finished",
           NEW k, NEW m, Receive(k, m, TRUE)
    PROVE  state \in Ready /\ readReady /\ readKeys = master
<1>1. EndInv(c) /\ (state \in Ready \/ Over)
  BY Zenon DEF SideInv, Took
<1>2. Reading /\ ClosedInv
  BY <1>1, ReceiveTakes, Zenon DEF EndInv
<1>3. state \in Ready
  BY <1>1, <1>2, ReadsOpen, Zenon
<1>. QED  BY <1>1, <1>3, EndReady, Zenon
=============================================================================
