-------------------------- MODULE ConnectionProofs ---------------------------
(***************************************************************************)
(* Proofs about a client and a server of the library over one connection    *)
(* (Connection).  Each end has the invariant of HandshakeLemmas, the        *)
(* server's under SP.                                                       *)
(***************************************************************************)
EXTENDS Connection, HandshakeLemmas

SP == INSTANCE HandshakeLemmas WITH
    cfg <- sCfg, call <- sCall, state <- sState, version <- sVersion,
    readKeys <- sReadKeys, readReady <- sReadReady, readPending <- sReadPending,
    writeKeys <- sWriteKeys, writeReady <- sWriteReady, writePending <- sWritePending,
    master <- sMaster, sessionID <- sSessionID, resumable <- sResumable, cache <- sCache,
    certRequested <- sCertRequested, certSent <- sCertSent, certReceived <- sCertReceived,
    negAuthType <- sNegAuthType, clientCertState <- sClientCertState,
    peerCert <- sPeerCert, signalServerAuth <- sSignalServerAuth,
    sentFatalAlert <- sSentFatalAlert, hash <- sHash, out <- sOut, inRecord <- sInRecord,
    resumed <- sResumed, peerVerified <- sPeerVerified,
    authReported <- sAuthReported, possession <- sPossession

----------------------------------------------------------------------------
(* The server of Connection is the one the lemmas of SP are about. *)

\* The constants are the same.
LEMMA SameConstants ==
    /\ SP!Ready = Ready /\ SP!Closed = Closed /\ SP!Fin = Fin
    /\ \A t, b : SP!Msg(t, b) = Msg(t, b)
    /\ \A s, m, h : SP!VerifyData(s, m, h) = VerifyData(s, m, h)
    /\ \A s : SP!IsSeq(s) <=> IsSeq(s)
    /\ \A m : SP!Typed(m) <=> Typed(m)
  BY Zenon DEF SP!Ready, Ready, SP!Closed, Closed, SP!Fin, Fin, SP!Msg, Msg, SP!VerifyData,
     VerifyData, SP!IsSeq, IsSeq, SP!Items, Items, SP!Typed, Typed

\* So is what is assumed of them.
LEMMA SameAssumption ==
    /\ NoKeys \notin Secrets
    /\ NoSession \notin SP!Sessions
    /\ CachedSessions \subseteq SP!Sessions
    /\ \A c \in Configs : c.version \in SP!Versions /\ c.side \in {"client", "server"}
  BY ConstantsAssumption, Zenon DEF SP!Sessions, Sessions, SP!Versions, Versions

\* So are the steps.
LEMMA SameSteps ==
    ASSUME NEW k, NEW m
    PROVE  /\ Srv!Init => SP!Init
           /\ Srv!Local => SP!Local
           /\ Srv!Disconnect => SP!Disconnect
           /\ Srv!Receive(k, m, TRUE) => SP!Receive(k, m, TRUE)
           /\ UNCHANGED sVars => UNCHANGED SP!vars
<1>. USE DEF
           Srv!control, SP!control, Srv!readSide, SP!readSide, Srv!writeSide, SP!writeSide,
           Srv!session, SP!session, Srv!auth, SP!auth, Srv!seen, SP!seen, Srv!vars, SP!vars,
           Srv!Versions, SP!Versions, Srv!Closed, SP!Closed, Srv!Ready, SP!Ready,
           Srv!States, SP!States, Srv!Session, SP!Session, Srv!Sessions, SP!Sessions,
           Srv!Msg, SP!Msg, Srv!Sent, SP!Sent, Srv!SentSoFar, SP!SentSoFar, Srv!Server,
           SP!Server, Srv!Client, SP!Client, Srv!VerifyData, SP!VerifyData, Srv!PeerSide,
           SP!PeerSide, Srv!Expected, SP!Expected, Srv!Hashed, SP!Hashed,
           Srv!AlertOutRepeated, SP!AlertOutRepeated, Srv!AlertOut, SP!AlertOut,
           Srv!Deleted, SP!Deleted, Srv!Fatal, SP!Fatal, Srv!Shut, SP!Shut, Srv!Refuse,
           SP!Refuse, Srv!HandshakingNotWriting, SP!HandshakingNotWriting, Srv!Handshaking,
           SP!Handshaking, Srv!Between, SP!Between, Srv!Idle, SP!Idle, Srv!Return,
           SP!Return, Srv!CallWhenClosed, SP!CallWhenClosed, Srv!Call, SP!Call,
           Srv!WouldBlock, SP!WouldBlock, Srv!SignalServerAuth, SP!SignalServerAuth,
           Srv!HandshakeDone, SP!HandshakeDone, Srv!Write, SP!Write, Srv!Close, SP!Close,
           Srv!DisconnectIgnored, SP!DisconnectIgnored, Srv!Disconnect, SP!Disconnect,
           Srv!Opt, SP!Opt, Srv!Processed, SP!Processed, Srv!StopWriting, SP!StopWriting,
           Srv!StopTraffic, SP!StopTraffic, Srv!EncodeClientHello, SP!EncodeClientHello,
           Srv!StartHandshake, SP!StartHandshake, Srv!InstalledCerts, SP!InstalledCerts,
           Srv!Offer, SP!Offer, Srv!InitConnection, SP!InitConnection, Srv!ResumesAny,
           SP!ResumesAny, Srv!Resumes, SP!Resumes, Srv!KeptID, SP!KeptID,
           Srv!PendingReadOnly, SP!PendingReadOnly, Srv!Pending, SP!Pending,
           Srv!SwitchWrite, SP!SwitchWrite, Srv!Legal, SP!Legal, Srv!WrongMessage,
           SP!WrongMessage, Srv!BadMessage, SP!BadMessage, Srv!HelloRequest,
           SP!HelloRequest, Srv!ClientHelloResume, SP!ClientHelloResume,
           Srv!DoServerKeyExch, SP!DoServerKeyExch, Srv!ClientHelloFull, SP!ClientHelloFull,
           Srv!ServerHello, SP!ServerHello, Srv!ChainUnchecked, SP!ChainUnchecked,
           Srv!Chain, SP!Chain, Srv!AfterCertificate, SP!AfterCertificate, Srv!Certificate,
           SP!Certificate, Srv!AuthType, SP!AuthType, Srv!CertRequest, SP!CertRequest,
           Srv!Unanswered, SP!Unanswered, Srv!ServerKeyExchange,
           SP!ServerKeyExchange, Srv!ClientFlight, SP!ClientFlight, Srv!NeverBreak,
           SP!NeverBreak, Srv!MustBreak, SP!MustBreak, Srv!ServerHelloDone,
           SP!ServerHelloDone, Srv!ContinueHandshake, SP!ContinueHandshake, Srv!CertVerify,
           SP!CertVerify, Srv!SkipCertVerify, SP!SkipCertVerify, Srv!AfterKeyExchange,
           SP!AfterKeyExchange, Srv!ClientKeyExchange, SP!ClientKeyExchange, Srv!OldSession,
           SP!OldSession, Srv!NewSession, SP!NewSession, Srv!Finished, SP!Finished,
           Srv!FinishedMismatch, SP!FinishedMismatch, Srv!HandshakeMessage,
           SP!HandshakeMessage, Srv!ChangeCipherSpec, SP!ChangeCipherSpec, Srv!CloseNotify,
           SP!CloseNotify, Srv!ErrorAlert, SP!ErrorAlert, Srv!Warning, SP!Warning,
           Srv!BadAlert, SP!BadAlert, Srv!Alert, SP!Alert, Srv!AppData, SP!AppData,
           Srv!Reading, SP!Reading, Srv!HandshakeTypes, SP!HandshakeTypes, Srv!Receive,
           SP!Receive, Srv!Contents, SP!Contents, Srv!PeerMsgs, SP!PeerMsgs,
           Srv!Cardinality, SP!Cardinality, Srv!IsFiniteSet, SP!IsFiniteSet, Srv!Local,
           SP!Local, Srv!Init, SP!Init
<1>1. Srv!Init => SP!Init
  BY Zenon
<1>2. Srv!Local => SP!Local
  BY Zenon
<1>3. Srv!Disconnect => SP!Disconnect
  BY Zenon
<1>4. Srv!Receive(k, m, TRUE) => SP!Receive(k, m, TRUE)
  BY Zenon
<1>5. UNCHANGED sVars => UNCHANGED SP!vars
  BY Zenon DEF sVars
<1>. QED  BY <1>1, <1>2, <1>3, <1>4, <1>5, Zenon

----------------------------------------------------------------------------
(* The invariant of a connection. *)

\* What a peer's records say is the same for both.
LEMMA SameStatements ==
    ASSUME NEW s, NEW g, NEW m, NEW x, NEW r, NEW v, NEW w, NEW id
    PROVE  SP!Speaks(s, g, m, x, r, v, w, id) <=> Speaks(s, g, m, x, r, v, w, id)
  BY Zenon DEF SP!Speaks, Speaks, SP!Backed, Backed, SP!Stated, Stated, SP!First, First,
     SP!VerifyData, VerifyData,
     SP!IsSeq, IsSeq, SP!Items, Items, SP!Fin, Fin, SP!Msg, Msg

\* Each side is the one its name says, and is set up for the other.
Paired ==
    /\ cfg.side = "client" /\ sCfg.side = "server" /\ cfg.version = sCfg.version
    /\ cfg.cert \in Certs \cup {NoCert} /\ sCfg.cert \in Certs \cup {NoCert}

\* Each side has the invariant of an end whose peer has the other one's
\* certificate and has written the other one's records.
ConnInv ==
    /\ Paired
    /\ \A c, s, n : c = sCfg.cert /\ s = sOut /\ n = clientRead => SideInv(c, s, n)
    /\ \A c, s, n : c = cfg.cert /\ s = out /\ n = serverRead => SP!SideInv(c, s, n)

LEMMA Sides ==
    ASSUME Paired
    PROVE  /\ Client /\ ~Server /\ PeerSide = sCfg.side
           /\ SP!Server /\ ~SP!Client /\ SP!PeerSide = cfg.side
  BY DEF Paired, Client, Server, PeerSide, SP!Server, SP!Client, SP!PeerSide

\* A new connection.
LEMMA ConnStart == ASSUME Connect PROVE ConnInv
<1>1. /\ Init /\ Srv!Init /\ clientRead = 0 /\ serverRead = 0
      /\ [client |-> cfg, clientCache |-> cache, server |-> sCfg, serverCache |-> sCache] \in Pairs
  BY Zenon DEF Connect
<1>2. Paired /\ (cfg.kx # "anon" => cache = NoSession \/ cache.certs = <<sCfg.cert>>)
  BY <1>1, PairsAssumption DEF Paired
<1>3. SP!Init /\ ~SP!Client
  BY <1>1, <1>2, SameSteps, Sides, Zenon
<1>4. out = <<>> /\ sOut = <<>>
  BY <1>1, Zenon DEF Init, Srv!Init
<1>5. Len(<<>>) \in Nat
  BY EmptySeq
<1>6. ASSUME NEW c, NEW s, NEW n, c = sCfg.cert, s = sOut, n = clientRead
      PROVE  SideInv(c, s, n)
  BY <1>1, <1>2, <1>4, <1>5, <1>6, SideStart, Zenon
<1>7. ASSUME NEW c, NEW s, NEW n, c = cfg.cert, s = out, n = serverRead
      PROVE  SP!SideInv(c, s, n)
  BY <1>1, <1>3, <1>4, <1>5, <1>7, SP!SideStart, SameAssumption, ZenonT(60)
<1>. QED  BY <1>2, <1>6, <1>7, Zenon DEF ConnInv

----------------------------------------------------------------------------
(* The steps. *)

\* A step of the client.
LEMMA ClientStep ==
    ASSUME ConnInv, UNCHANGED sVars, serverRead' = serverRead, Onward,
           NEW c, c = sCfg.cert, NEW s, s = sOut, NEW n, n = clientRead', SideInv(c, s, n)'
    PROVE  ConnInv'
<1>1. UNCHANGED SP!vars
  BY SameSteps, Zenon
<1>2. sCfg' = sCfg /\ sOut' = sOut
  BY Zenon DEF sVars
<1>3. /\ cfg' = cfg /\ Len(out) \in Nat /\ Len(out') \in Nat /\ Len(out) =< Len(out')
      /\ \A i \in 1 .. Len(out) : out'[i] = out[i]
  BY SideGrows, Zenon
<1>. PICK d : d = cfg.cert
  BY Zenon
<1>. PICK t : t = out
  BY Zenon
<1>. PICK u : u = out'
  BY Zenon
<1>. PICK k : k = serverRead
  BY Zenon
<1>8. SP!SideInv(d, t, k)
  BY Zenon DEF ConnInv
<1>9. SP!SideInv(d, u, k)'
  <2>1. Len(u) \in Nat /\ Len(t) =< Len(u) /\ \A i \in 1 .. Len(t) : u[i] = t[i]
    BY <1>3, Zenon
  <2>. QED  BY <1>1, <1>8, <2>1, SP!SideOther, SameAssumption, ZenonT(60)
<1>10. Paired'
  BY <1>2, <1>3, Zenon DEF ConnInv, Paired
<1>11. \A e, r, l : e = sCfg'.cert /\ r = sOut' /\ l = clientRead' => SideInv(e, r, l)'
  BY <1>2, Zenon
<1>12. \A e, r, l : e = cfg'.cert /\ r = out' /\ l = serverRead' => SP!SideInv(e, r, l)'
  BY <1>3, <1>9, Zenon
<1>. QED  BY <1>10, <1>11, <1>12, Zenon DEF ConnInv

\* A step of the server.
LEMMA ServerStep ==
    ASSUME ConnInv, UNCHANGED vars, clientRead' = clientRead, SP!Onward,
           NEW c, c = cfg.cert, NEW s, s = out, NEW n, n = serverRead', SP!SideInv(c, s, n)'
    PROVE  ConnInv'
<1>2. cfg' = cfg /\ out' = out
  BY Zenon DEF vars
<1>3. /\ sCfg' = sCfg /\ Len(sOut) \in Nat /\ Len(sOut') \in Nat /\ Len(sOut) =< Len(sOut')
      /\ \A i \in 1 .. Len(sOut) : sOut'[i] = sOut[i]
  BY SP!SideGrows, SameAssumption, ZenonT(60)
<1>. PICK d : d = sCfg.cert
  BY Zenon
<1>. PICK t : t = sOut
  BY Zenon
<1>. PICK u : u = sOut'
  BY Zenon
<1>. PICK k : k = clientRead
  BY Zenon
<1>8. SideInv(d, t, k)
  BY Zenon DEF ConnInv
<1>9. SideInv(d, u, k)'
  <2>1. Len(u) \in Nat /\ Len(t) =< Len(u) /\ \A i \in 1 .. Len(t) : u[i] = t[i]
    BY <1>3, Zenon
  <2>. QED  BY <1>8, <2>1, SideOther, Zenon
<1>10. Paired'
  BY <1>2, <1>3, Zenon DEF ConnInv, Paired
<1>11. \A e, r, l : e = cfg'.cert /\ r = out' /\ l = serverRead' => SP!SideInv(e, r, l)'
  BY <1>2, Zenon
<1>12. \A e, r, l : e = sCfg'.cert /\ r = sOut' /\ l = clientRead' => SideInv(e, r, l)'
  BY <1>3, <1>9, Zenon
<1>. QED  BY <1>10, <1>11, <1>12, Zenon DEF ConnInv

\* The API's steps.
LEMMA LocalSteps ==
    ASSUME ConnInv, ClientLocal \/ ClientDisconnected \/ ServerLocal \/ ServerDisconnected
    PROVE  ConnInv'
<1>1. CASE ClientLocal \/ ClientDisconnected
  <2>1. /\ Local \/ Disconnect
        /\ UNCHANGED sVars /\ serverRead' = serverRead /\ clientRead' = clientRead
    BY <1>1, Zenon DEF ClientLocal, ClientDisconnected
  <2>. PICK c, s, n : c = sCfg.cert /\ s = sOut /\ n = clientRead
    BY Zenon
  <2>3. SideInv(c, s, n)' /\ Onward
    BY <2>1, SideLocal, Zenon DEF ConnInv
  <2>. QED  BY <2>1, <2>3, ClientStep, Zenon
<1>2. CASE ServerLocal \/ ServerDisconnected
  <2>1. /\ SP!Local \/ SP!Disconnect
        /\ UNCHANGED vars /\ serverRead' = serverRead /\ clientRead' = clientRead
    BY <1>2, SameSteps, Zenon DEF ServerLocal, ServerDisconnected
  <2>. PICK c, s, n : c = cfg.cert /\ s = out /\ n = serverRead
    BY Zenon
  <2>3. SP!SideInv(c, s, n)' /\ SP!Onward
    BY <2>1, SP!SideLocal, SameAssumption, ZenonT(60) DEF ConnInv
  <2>. QED  BY <2>1, <2>3, ServerStep, Zenon
<1>. QED  BY <1>1, <1>2

\* The place of the next record.
LEMMA NextRecord ==
    ASSUME NEW l, l \in Nat, NEW n \in 0 .. l, n < l
    PROVE  n + 1 \in 1 .. l /\ (n + 1) - 1 = n
  OBVIOUS

\* A record of the server.
LEMMA ClientTakes == ASSUME ConnInv, ClientReceives PROVE ConnInv'
<1>. PICK c, s, n : c = sCfg.cert /\ s = sOut /\ n = clientRead
  BY Zenon
<1>. PICK d, t, l : d = cfg.cert /\ t = out /\ l = serverRead
  BY Zenon
<1>3. /\ SideInv(c, s, n) /\ SP!SideInv(d, t, l)
      /\ c \in Certs \cup {NoCert}
  BY Zenon DEF ConnInv, Paired
<1>4. /\ n < Len(s) /\ Receive(s[n + 1].keys, s[n + 1].msg, TRUE) /\ clientRead' = n + 1
      /\ UNCHANGED sVars /\ serverRead' = serverRead
  BY Zenon DEF ClientReceives
<1>. PICK m, k : m = s[n + 1].msg /\ k = s[n + 1].keys
  BY Zenon
<1>6. n + 1 \in 1 .. Len(s)
  BY <1>3, <1>4, NextRecord, Zenon DEF SideInv
<1>7. Typed(m) /\ m.type # "helloRequest" /\ (m.type = "cert" => m.body = c)
  <2>. PICK i : i = n + 1
    BY Zenon
  <2>2. i \in 1 .. Len(sOut) /\ m = sOut[i].msg
    BY <1>6, Zenon
  <2>3. SP!Typed(m) /\ m.type # "helloRequest" /\ (m.type = "cert" => m.body = c)
    BY <1>3, <2>2, SP!SideWrites, SameAssumption, ZenonT(60)
  <2>. QED  BY <2>3, SameConstants, Zenon
<1>8. SideInv(c, s, n + 1)' /\ Onward
  BY <1>3, <1>4, <1>7, SideMessage, Zenon
<1>. PICK j : j = n + 1
  BY Zenon
<1>. QED  BY <1>4, <1>8, ClientStep, Zenon

\* A record of the client.
LEMMA ServerTakes == ASSUME ConnInv, ServerReceives PROVE ConnInv'
<1>. PICK c, s, n : c = cfg.cert /\ s = out /\ n = serverRead
  BY Zenon
<1>. PICK d, t, l : d = sCfg.cert /\ t = sOut /\ l = clientRead
  BY Zenon
<1>3. /\ SP!SideInv(c, s, n) /\ SideInv(d, t, l)
      /\ c \in Certs \cup {NoCert}
  BY Zenon DEF ConnInv, Paired
<1>4. /\ n < Len(s) /\ Srv!Receive(s[n + 1].keys, s[n + 1].msg, TRUE) /\ serverRead' = n + 1
      /\ UNCHANGED vars /\ clientRead' = clientRead
  BY Zenon DEF ServerReceives
<1>. PICK m, k : m = s[n + 1].msg /\ k = s[n + 1].keys
  BY Zenon
<1>6. n + 1 \in 1 .. Len(s)
  BY <1>3, <1>4, NextRecord, Zenon DEF SP!SideInv
<1>7. Typed(m) /\ m.type # "helloRequest" /\ (m.type = "cert" => m.body = c)
  <2>. PICK i : i = n + 1
    BY Zenon
  <2>2. i \in 1 .. Len(out) /\ m = out[i].msg
    BY <1>6, Zenon
  <2>. QED  BY <1>3, <2>2, SideWrites, ZenonT(60)
<1>8. SP!SideInv(c, s, n + 1)' /\ SP!Onward
  <2>1. SP!Receive(k, m, TRUE)
    BY <1>4, SameSteps, Zenon
  <2>2. SP!Typed(m)
    BY <1>7, SameConstants, Zenon
  <2>. QED  BY <1>3, <1>4, <1>7, <2>1, <2>2, SP!SideMessage, SameAssumption, ZenonT(60)
<1>. PICK j : j = n + 1
  BY Zenon
<1>. QED  BY <1>4, <1>8, ServerStep, Zenon

\* Nothing happens.
LEMMA ConnFrame == ASSUME ConnInv, UNCHANGED connection PROVE ConnInv'
<1>. PICK c, s, n : c = sCfg.cert /\ s = sOut /\ n = clientRead
  BY Zenon
<1>2. /\ SideInv(c, s, n) /\ UNCHANGED <<vars, sVars>>
      /\ clientRead' = clientRead /\ serverRead' = serverRead
  BY Zenon DEF ConnInv, connection
<1>3. SideInv(c, s, n)'
  BY <1>2, SideFrame, Zenon
<1>4. Onward
  BY <1>2, SideFrame, Zenon
<1>. QED  BY <1>2, <1>3, <1>4, ClientStep, Zenon

LEMMA ConnNext == ASSUME ConnInv, [Step]_connection PROVE ConnInv'
  BY LocalSteps, ClientTakes, ServerTakes, ConnFrame, Zenon DEF Step

----------------------------------------------------------------------------
(* What the invariant says. *)

\* A ready client and the server.
LEMMA ClientAgrees ==
    ASSUME ConnInv, state \in Ready
    PROVE  /\ master = sMaster /\ resumed = sResumed /\ version = sVersion
           /\ readKeys = sWriteKeys /\ Prefix(sHash, hash)
           /\ cfg.peerID /\ sCfg.peerID => sessionID = sSessionID
           /\ cfg.kx # "anon" => peerCert = <<sCfg.cert>>
           /\ cfg.peerID =>
                 cache.id = sessionID /\ cache.master = master /\ cache.version = version
<1>. PICK c, s, n : c = sCfg.cert /\ s = sOut /\ n = clientRead
  BY Zenon
<1>2. SideInv(c, s, n) /\ Paired /\ \E d, t, l : SP!SideInv(d, t, l)
  BY Zenon DEF ConnInv
<1>3. SP!Speaks(sOut, sCfg, sMaster, sHash, sResumed, sVersion, sWriteKeys, sSessionID)
  BY <1>2, SP!SideSpeaks, SameAssumption, ZenonT(60)
<1>4. Client /\ sCfg.side = PeerSide /\ sCfg.version = cfg.version
  BY <1>2, Sides, Zenon DEF Paired
<1>5. Speaks(s, sCfg, sMaster, sHash, sResumed, sVersion, sWriteKeys, sSessionID)
  BY <1>3, SameStatements, Zenon
<1>6. Shares(c, sCfg, sMaster, sHash, sResumed, sVersion, sWriteKeys, sSessionID)
  BY <1>2, <1>4, <1>5, SideReady, Zenon
<1>. QED  BY <1>4, <1>6, Zenon DEF Shares, Prefix

\* A ready server and the client.
LEMMA ServerAgrees ==
    ASSUME ConnInv, sState \in Ready
    PROVE  /\ sMaster = master /\ sResumed = resumed /\ sVersion = version
           /\ sReadKeys = writeKeys /\ Prefix(hash, sHash)
           /\ cfg.peerID /\ sCfg.peerID => sSessionID = sessionID
           /\ sCertReceived => sPeerCert = <<cfg.cert>>
           /\ sCfg.peerID =>
                 sCache.id = sSessionID /\ sCache.master = sMaster /\ sCache.version = sVersion
<1>. PICK c, s, n : c = cfg.cert /\ s = out /\ n = serverRead
  BY Zenon
<1>2. SP!SideInv(c, s, n) /\ Paired /\ \E d, t, l : SideInv(d, t, l)
  BY Zenon DEF ConnInv
<1>3. Speaks(out, cfg, master, hash, resumed, version, writeKeys, sessionID)
  BY <1>2, SideSpeaks, Zenon
<1>4. SP!Server /\ cfg.side = SP!PeerSide /\ cfg.version = sCfg.version /\ sState \in SP!Ready
  BY <1>2, Sides, SameConstants, Zenon DEF Paired
<1>5. SP!Speaks(s, cfg, master, hash, resumed, version, writeKeys, sessionID)
  BY <1>3, SameStatements, Zenon
<1>6. SP!Shares(c, cfg, master, hash, resumed, version, writeKeys, sessionID)
  BY <1>2, <1>4, <1>5, SP!SideReady, SameAssumption, ZenonT(60)
<1>. QED  BY <1>4, <1>6, Zenon DEF SP!Shares, Prefix

\* Two endpoints of the library agree on the secret, the version, the course of the
\* handshake, the session and the certificates once one of them is ready
\* (SSLProcessFinished compares the verify data of the whole transcript), however
\* their calls and their records interleave.
THEOREM ConnectionAgreement == Connected => []Agreement
<1>1. Connect => ConnInv
  BY ConnStart, Zenon
<1>2. ConnInv /\ [Step]_connection => ConnInv'
  BY ConnNext, Zenon
<1>3. ConnInv => Agreement
  <2>. SUFFICES ASSUME ConnInv PROVE Agreement
    BY Zenon
  <2>1. state \in Ready => (sState \in Ready /\ cfg.peerID /\ sCfg.peerID =>
           cache.id = sCache.id /\ cache.master = sCache.master /\ cache.version = sCache.version)
    BY ClientAgrees, ServerAgrees, Zenon
  <2>. QED  BY <2>1, ClientAgrees, ServerAgrees, Zenon DEF Agreement
<1>. QED  BY <1>1, <1>2, <1>3, PTL DEF Connected

\* A record of data is only ever read by an endpoint that is ready and holds the keys it
\* was written under, so it never reaches SSLHandshakeProceed: the Finished its sender
\* wrote first has made the reader ready.
THEOREM ConnectionDataMeetsReader == Connected => DataMeetsReader
<1>1. Connect => ConnInv
  BY ConnStart, Zenon
<1>2. ConnInv /\ [Step]_connection => ConnInv'
  BY ConnNext, Zenon
<1>3. ConnInv /\ [Step]_connection =>
        [/\ (clientRead' # clientRead /\ sOut[clientRead'].msg.type = "data")
               => readReady /\ readKeys = sOut[clientRead'].keys
         /\ (serverRead' # serverRead /\ out[serverRead'].msg.type = "data")
               => sReadReady /\ sReadKeys = out[serverRead'].keys]_connection
  <2>1. ASSUME ConnInv, ClientReceives, sOut[clientRead'].msg.type = "data"
        PROVE  readReady /\ readKeys = sOut[clientRead'].keys
    <3>. PICK c, s, n : c = sCfg.cert /\ s = sOut /\ n = clientRead
      BY Zenon
    <3>2. SideInv(c, s, n) /\ \E d, t, l : SP!SideInv(d, t, l)
      BY <2>1, Zenon DEF ConnInv
    <3>3. n < Len(s) /\ clientRead' = n + 1 /\ \E k, m : Receive(k, m, TRUE)
      BY <2>1, Zenon DEF ClientReceives
    <3>4. n + 1 \in 1 .. Len(sOut) /\ (n + 1) - 1 = n
      BY <3>2, <3>3, NextRecord, Zenon DEF SideInv
    <3>5. sOut[n + 1].keys = sMaster /\ \E j \in 1 .. n : sOut[j].msg.type = "finished"
      BY <2>1, <3>2, <3>3, <3>4, SP!SideData, SameAssumption, ZenonT(60)
    <3>6. state \in Ready /\ readReady /\ readKeys = master
      BY <3>2, <3>3, <3>5, SideReads, Zenon
    <3>. QED  BY <2>1, <3>3, <3>5, <3>6, ClientAgrees, Zenon
  <2>2. ASSUME ConnInv, ServerReceives, out[serverRead'].msg.type = "data"
        PROVE  sReadReady /\ sReadKeys = out[serverRead'].keys
    <3>. PICK c, s, n : c = cfg.cert /\ s = out /\ n = serverRead
      BY Zenon
    <3>2. SP!SideInv(c, s, n) /\ \E d, t, l : SideInv(d, t, l)
      BY <2>2, Zenon DEF ConnInv
    <3>3. n < Len(s) /\ serverRead' = n + 1 /\ \E k, m : SP!Receive(k, m, TRUE)
      BY <2>2, SameSteps, Zenon DEF ServerReceives
    <3>4. n + 1 \in 1 .. Len(out) /\ (n + 1) - 1 = n
      BY <3>2, <3>3, NextRecord, Zenon DEF SP!SideInv
    <3>5. out[n + 1].keys = master /\ \E j \in 1 .. n : out[j].msg.type = "finished"
      BY <2>2, <3>2, <3>3, <3>4, SideData, Zenon
    <3>6. sState \in Ready /\ sReadReady /\ sReadKeys = sMaster
      BY <3>2, <3>3, <3>5, SP!SideReads, SameAssumption, SameConstants, Zenon
    <3>. QED  BY <2>2, <3>3, <3>5, <3>6, ServerAgrees, Zenon
  <2>3. ASSUME Step, ~ClientReceives, ~ServerReceives
        PROVE  UNCHANGED <<clientRead, serverRead>>
    BY <2>3, Zenon DEF Step, ClientLocal, ServerLocal, ClientDisconnected, ServerDisconnected
  <2>4. ClientReceives => serverRead' = serverRead
    BY Zenon DEF ClientReceives
  <2>5. ServerReceives => clientRead' = clientRead
    BY Zenon DEF ServerReceives
  <2>. QED  BY <2>1, <2>2, <2>3, <2>4, <2>5, Zenon
<1>. QED  BY <1>1, <1>2, <1>3, PTL DEF Connected, DataMeetsReader
=============================================================================
