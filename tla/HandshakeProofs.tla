-------------------------- MODULE HandshakeProofs --------------------------
(***************************************************************************)
(* Proofs about one SSLContext with an arbitrary peer (Handshake): the      *)
(* peer's authentication, the session cache, types; then what the context   *)
(* writes and hashes.  Every step adds to the end of the output, and the    *)
(* additions say when data and closing alerts may appear and which          *)
(* ServerHello a client followed.                                           *)
(***************************************************************************)
EXTENDS HandshakeLemmas

USE DEF control, readSide, writeSide, session, auth, seen

----------------------------------------------------------------------------
(* Authentication. *)

\* A client that has to report the server's certificate.
Breaks == Client /\ cfg.breakOnAuth /\ cfg.kx # "anon"

ClientStates == {"ServerHello", "Cert", "KeyExchange", "HelloDone", "ClientReady"}
ServerStates == {"ServerUninit", "ClientKeyExchange", "ClientCertVerify", "ServerReady"}

\* What is known of the peer's certificate in each state.  The states that only
\* one side reaches are part of it: both sides pass through ClientCert.
AuthInv ==
    /\ state \in ClientStates => ~Server
    /\ state \in ServerStates => Server
    /\ (Breaks /\ state \in {"KeyExchange", "HelloDone"}) => authReported \/ signalServerAuth
    /\ (Breaks /\ state = "ClientCert") => authReported
    /\ (Client /\ state = "ClientCert") => inRecord = FALSE
    /\ (Breaks /\ ~resumed /\ state \in {"ChangeCipherSpec", "Finished", "ClientReady"})
          => authReported
    /\ (Server /\ ~resumed /\ state \in {"ChangeCipherSpec", "Finished", "ServerReady"})
          => (certReceived => possession)
    /\ (/\ Server /\ cfg.auth = "always"
        /\ \/ state \in {"ClientKeyExchange", "ClientCertVerify"}
           \/ ~resumed /\ state \in {"ChangeCipherSpec", "Finished", "ServerReady"})
          => certReceived /\ peerCert # <<>>

\* A new context has no certificate to report or to prove.
LEMMA AuthInit == Init => AuthInv
  BY Zenon DEF Init, AuthInv, ClientStates, ServerStates

\* A step that leaves the authentication's variables alone keeps its invariant.
LEMMA AuthFrame ==
    ASSUME AuthInv, \/ state' = state /\ (state = "ClientCert" => UNCHANGED inRecord)
                    \/ state' \in Closed,
           UNCHANGED <<cfg, resumed, certReceived, peerCert, signalServerAuth, authReported,
                       possession>>
    PROVE  AuthInv'
<1>1. CASE state' = state /\ (state = "ClientCert" => UNCHANGED inRecord)
  BY <1>1, Zenon DEF AuthInv, Breaks, Client, Server
<1>2. CASE state' \in Closed
  BY <1>2, Zenon DEF AuthInv, Closed, ClientStates, ServerStates
<1>. QED  BY <1>1, <1>2, Zenon

\* The flight goes out once the certificate was reported.
LEMMA AuthFlight ==
    ASSUME AuthInv, NEW h, ClientFlight(h), state \in {"HelloDone", "ClientCert"}, ~Server,
           Breaks => authReported,
           UNCHANGED <<cfg, authReported, resumed>>
    PROVE  AuthInv'
<1>1. state' = "ChangeCipherSpec"
  BY Zenon DEF ClientFlight
<1>. QED  BY <1>1, Zenon DEF AuthInv, Breaks, Client, Server, ClientStates, ServerStates

\* The API's steps keep the authentication's invariant.
LEMMA AuthLocal ==
    ASSUME AuthInv, Local \/ Disconnect
    PROVE  AuthInv'
<1>1. CASE \E c \in {"handshake", "read", "write"} : Call(c)
  BY <1>1, AuthFrame, Zenon DEF Call
<1>2. CASE WouldBlock \/ HandshakeDone \/ Write
  BY <1>2, AuthFrame, Zenon DEF WouldBlock, HandshakeDone, Write
<1>3. CASE SignalServerAuth
  BY <1>3, Zenon DEF SignalServerAuth, AuthInv, Breaks, Client, Server
<1>4. CASE Close
  BY <1>4, AuthFrame, Zenon DEF Close, Closed
<1>5. CASE InitConnection
  <2>1. /\ UNCHANGED cfg
        /\ \/ Client /\ state' = "ServerHello"
           \/ Server /\ state' = "ServerUninit"
    BY <1>5, Zenon DEF InitConnection, StartHandshake
  <2>. QED  BY <2>1, Zenon DEF AuthInv, Client, Server, ClientStates, ServerStates
<1>6. CASE ContinueHandshake
  <2>1. /\ UNCHANGED <<cfg, authReported, resumed>>
        /\ state = "ClientCert" /\ ClientFlight(hash) /\ ~Server
    BY <1>6, Zenon DEF ContinueHandshake, Client, Server
  <2>2. Breaks => authReported
    BY <2>1, Zenon DEF AuthInv
  <2>. QED  BY <2>1, <2>2, AuthFlight, Zenon
<1>7. CASE Disconnect
  <2>1. state' \in {"NoNotifyClose", "ErrorClose"}
    BY <1>7, Zenon DEF Disconnect, Fatal
  <2>. QED  BY <1>7, <2>1, AuthFrame, Zenon DEF Disconnect, Closed
<1>. QED  BY <1>1, <1>2, <1>3, <1>4, <1>5, <1>6, <1>7, Zenon DEF Local

\* The hellos decide on resumption and, on a server, on client authentication.
LEMMA AuthHello ==
    ASSUME AuthInv, NEW m, NEW last,
           ClientHelloResume(m, last) \/ ClientHelloFull(m, last) \/ ServerHello(m, last)
    PROVE  AuthInv'
<1>1. CASE ClientHelloResume(m, last)
  <2>1. resumed' = TRUE /\ state' = "ChangeCipherSpec"
    BY <1>1, Zenon DEF ClientHelloResume
  <2>. QED  BY <2>1, Zenon DEF AuthInv, ClientStates, ServerStates
<1>2. CASE ClientHelloFull(m, last)
  <2>1. UNCHANGED cfg /\ state = "ServerUninit" /\ Server
    BY <1>2, ZenonT(40) DEF ClientHelloFull, AuthInv, ServerStates
  <2>2. \/ state' = "ErrorClose"
        \/ state' = "ServerUninit"
        \/ state' = "ClientCert"
        \/ state' = "ClientKeyExchange" /\ cfg.auth # "always"
    BY <1>2, <2>1, ZenonT(40) DEF ClientHelloFull, Shut
  <2>. QED  BY <2>1, <2>2, ZenonT(40) DEF AuthInv, Breaks, Client, Server, ClientStates,
               ServerStates
<1>3. CASE ServerHello(m, last)
  <2>1. UNCHANGED cfg /\ state = "ServerHello" /\ ~Server
    BY <1>3, Zenon DEF ServerHello, Processed, AuthInv, ClientStates
  <2>2. \/ state' = "ChangeCipherSpec" /\ resumed' = TRUE
        \/ state' = "KeyExchange" /\ cfg.kx = "anon"
        \/ state' = "Cert"
    BY <1>3, Zenon DEF ServerHello
  <2>. QED  BY <2>1, <2>2, ZenonT(40) DEF AuthInv, Breaks, Client, Server, ClientStates,
               ServerStates
<1>. QED  BY <1>1, <1>2, <1>3, Zenon

\* A client in ClientCert sends its flight before it reads on.
LEMMA NotReadInClientCert ==
    ASSUME AuthInv, KeyInv, Reading, Client
    PROVE  state # "ClientCert"
  BY Zenon DEF AuthInv, KeyInv, Reading, Idle, Ready, Closed

\* A certificate has to be reported on a client, proved on a server.
LEMMA AuthCertificate ==
    ASSUME DataInv, KeyInv, AuthInv, Reading, NEW m, NEW last, Certificate(m, last)
    PROVE  AuthInv'
<1>1. CASE Fatal(version, "badCert")
  BY <1>1, Zenon DEF Fatal, AuthInv, ClientStates, ServerStates
<1>2. CASE UNCHANGED cfg /\ state' = AfterCertificate
  <2>1. CASE Server
    <3>1. state' = "ClientKeyExchange"
      BY <1>2, <2>1, ZenonT(40) DEF Certificate, AfterCertificate, AuthInv, ClientStates
    <3>2. cfg.auth = "always" => certReceived' /\ peerCert' # <<>>
      BY <1>1, <1>2, <2>1, <3>1, Zenon DEF Certificate, AuthInv, ClientStates, Fatal
    <3>. QED  BY <1>2, <2>1, <3>1, <3>2, Zenon DEF AuthInv, Breaks, Client, Server, ClientStates,
                                         ServerStates
  <2>2. CASE ~Server
    <3>1. Client
      BY <2>2, ConstantsAssumption, Zenon DEF DataInv, Server, Client
    <3>2. state' \in {"HelloDone", "KeyExchange"}
      BY <1>2, <3>1, NotReadInClientCert, Zenon DEF AfterCertificate
    <3>3. cfg.breakOnAuth => signalServerAuth'
      BY <1>2, <2>2, <3>1, <3>2, Zenon DEF Certificate, Fatal
    <3>. QED  BY <1>2, <2>2, <3>2, <3>3, Zenon DEF AuthInv, Breaks, Client, Server, ClientStates,
                                         ServerStates
  <2>. QED  BY <2>1, <2>2, Zenon
<1>. QED  BY <1>1, <1>2, Zenon DEF Certificate, Processed

\* Every message keeps the authentication's invariant.
LEMMA AuthMessage ==
    ASSUME DataInv, KeyInv, AuthInv, Reading, NEW m, Typed(m), NEW last \in BOOLEAN, Takes(m, last)
    PROVE  AuthInv'
<1>1. CASE Refuse("failure")
  BY <1>1, AuthFrame, Zenon DEF Refuse, Fatal, Closed
<1>2. CASE BadMessage(m)
  <2>1. state' \in Closed /\ UNCHANGED cfg
    BY <1>2, Zenon DEF BadMessage, Fatal, Closed
  <2>. QED  BY <2>1, Zenon DEF AuthInv, Closed, ClientStates, ServerStates
<1>3. CASE HelloRequest(m, last)
  <2>1. Client /\ UNCHANGED cfg /\ state' = "ServerHello"
    BY <1>3, Zenon DEF HelloRequest, StartHandshake
  <2>. QED  BY <2>1, Zenon DEF AuthInv, Client, Server, ClientStates, ServerStates
<1>4. CASE ClientHelloResume(m, last) \/ ClientHelloFull(m, last) \/ ServerHello(m, last)
  BY <1>4, AuthHello, Zenon
<1>5. CASE Certificate(m, last)
  BY <1>5, AuthCertificate, Zenon
<1>6. CASE CertRequest(m, last)
  <2>1. /\ UNCHANGED <<cfg, resumed, certReceived, peerCert, signalServerAuth, authReported,
                       possession>>
        /\ state' \in {"ErrorClose", state} /\ state # "ClientCert"
    BY <1>6, ZenonT(40) DEF CertRequest, Fatal, Processed
  <2>. QED  BY <2>1, AuthFrame, Zenon DEF Closed
<1>7. CASE ServerKeyExchange(m, last)
  BY <1>7, Zenon DEF ServerKeyExchange, Processed, AuthInv, Breaks, Client, Server, ClientStates,
              ServerStates
<1>8. CASE ServerHelloDone(m, last)
  <2>1. UNCHANGED <<cfg, resumed>> /\ state = "HelloDone" /\ ~Server
    BY <1>8, Zenon DEF ServerHelloDone, AuthInv, ClientStates
  <2>2. CASE state' = "ClientCert" /\ authReported' = TRUE
    BY <1>8, <2>1, <2>2, Zenon DEF ServerHelloDone, ClientFlight, AuthInv, Breaks, Client, Server,
                            ClientStates, ServerStates
  <2>3. CASE ~signalServerAuth /\ ClientFlight(Append(hash, m)) /\ UNCHANGED authReported
    <3>1. Breaks => authReported
      BY <2>1, <2>3, ZenonT(40) DEF AuthInv
    <3>. QED  BY <2>1, <2>3, <3>1, AuthFlight, Zenon
  <2>. QED  BY <1>8, <2>2, <2>3, Zenon DEF ServerHelloDone, MustBreak
<1>9. CASE CertVerify(m, last)
  <2>1. /\ UNCHANGED <<cfg, resumed, certReceived, peerCert>> /\ Server
        /\ state = "ClientCertVerify" /\ state' = "ChangeCipherSpec" /\ possession' = TRUE
    BY <1>9, ZenonT(40) DEF CertVerify, Processed, AuthInv, ServerStates
  <2>. QED  BY <2>1, Zenon DEF AuthInv, Breaks, Client, Server, ClientStates, ServerStates
<1>10. CASE ClientKeyExchange(m, last)
  <2>1. /\ UNCHANGED <<cfg, resumed, certReceived, peerCert>> /\ Server
        /\ state = "ClientKeyExchange"
        /\ \/ state' = "ClientCertVerify"
           \/ state' = "ChangeCipherSpec" /\ ~certReceived
    BY <1>10, Zenon DEF ClientKeyExchange, AfterKeyExchange, Processed, AuthInv, ServerStates
  <2>. QED  BY <2>1, Zenon DEF AuthInv, Breaks, Client, Server, ClientStates, ServerStates
<1>11. CASE Finished(m, last)
  <2>1. /\ UNCHANGED <<cfg, resumed, certReceived, peerCert, authReported, possession>>
        /\ state = "Finished"
        /\ state' = IF Server THEN "ServerReady" ELSE "ClientReady"
    BY <1>11, Zenon DEF Finished
  <2>. QED  BY <2>1, Zenon DEF AuthInv, Breaks, Client, Server, ClientStates, ServerStates
<1>12. CASE ChangeCipherSpec(m)
  <2>1. CASE Refuse("failure")
    BY <1>1, <2>1, ZenonT(40)
  <2>2. CASE ~Refuse("failure")
    <3>1. /\ UNCHANGED <<cfg, resumed, certReceived, peerCert, authReported, possession>>
          /\ state = "ChangeCipherSpec" /\ state' = "Finished"
      BY <1>12, <2>2, Zenon DEF ChangeCipherSpec
    <3>. QED  BY <3>1, Zenon DEF AuthInv, Breaks, Client, Server, ClientStates, ServerStates
  <2>. QED  BY <2>1, <2>2, Zenon
<1>13. CASE CloseNotify(m) \/ ErrorAlert(m) \/ AppData(m)
  <2>1. UNCHANGED <<cfg, resumed, certReceived, peerCert, signalServerAuth, authReported,
                    possession, inRecord>>
    BY <1>13, ZenonT(40) DEF CloseNotify, ErrorAlert, AppData
  <2>2. state' \in {state, "GracefulClose", "ErrorClose"}
    BY <1>13, Zenon DEF CloseNotify, ErrorAlert, AppData, Shut
  <2>. QED  BY <2>1, <2>2, AuthFrame, ZenonT(40) DEF Closed
<1>14. CASE Warning(m)
  <2>1. CASE UNCHANGED <<state, certReceived>>
    BY <1>14, <2>1, AuthFrame, ZenonT(40) DEF Warning
  <2>2. CASE state' = "ClientKeyExchange" /\ Server /\ cfg.auth # "always"
    BY <1>14, <2>2, Zenon DEF Warning, AuthInv, Breaks, Client, Server, ClientStates, ServerStates
  <2>. QED  BY <1>14, <2>1, <2>2, Zenon DEF Warning
<1>15. CASE Unanswered(m)
  <2>1. /\ UNCHANGED <<cfg, resumed, certReceived, authReported, possession>>
        /\ Client /\ inRecord' = FALSE /\ state' \in {state, "ErrorClose"}
    BY <1>15, Zenon DEF Unanswered, Shut
  <2>2. signalServerAuth => signalServerAuth'
    <3>1. \/ UNCHANGED signalServerAuth
          \/ signalServerAuth' = (signalServerAuth \/ cfg.breakOnAuth)
      BY <1>15, Zenon DEF Unanswered
    <3>2. signalServerAuth => (signalServerAuth \/ cfg.breakOnAuth)
      OBVIOUS
    <3>. QED  BY <3>1, <3>2, Zenon
  <2>3. ~Server
    BY <2>1 DEF Client, Server
  <2>. QED  BY <2>1, <2>2, <2>3, ZenonT(40) DEF AuthInv, Breaks, Client, Server, ClientStates, ServerStates
<1>. QED
  BY <1>1, <1>2, <1>3, <1>4, <1>5, <1>6, <1>7, <1>8, <1>9, <1>10, <1>11, <1>12, <1>13,
     <1>14, <1>15, Zenon DEF Takes

\* Every step keeps the authentication's invariant.
LEMMA AuthNext == DataInv /\ KeyInv /\ AuthInv /\ [Next]_vars => AuthInv'
<1>1. ASSUME DataInv, KeyInv, AuthInv, Next PROVE AuthInv'
  BY <1>1, AuthLocal, PeerSteps, AuthMessage, Zenon DEF Next
<1>2. ASSUME AuthInv, UNCHANGED vars PROVE AuthInv'
  BY <1>2, AuthFrame, Zenon DEF vars
<1>. QED  BY <1>1, <1>2, Zenon

----------------------------------------------------------------------------
(* The theorems. *)

Inv == DataInv /\ KeyInv /\ AuthInv /\ ClosedInv

\* The inductive invariant holds of every behaviour.
THEOREM Invariant == Spec => []Inv
<1>1. Init => Inv
  BY DataInit, KeyInit, AuthInit, ClosedInit, Zenon DEF Inv
<1>2. Inv /\ [Next]_vars => Inv'
  <2>1. ASSUME ClosedInv, UNCHANGED vars PROVE ClosedInv'
    <3>1. UNCHANGED <<call, inRecord, state, readReady, writeReady>>
      BY <2>1, Zenon DEF vars
    <3>2. Handshaking' = Handshaking
      BY <3>1, Zenon DEF Handshaking
    <3>. QED  BY <2>1, <3>1, <3>2, Zenon DEF ClosedInv
  <2>. QED  BY <2>1, DataNext, KeyNext, AuthNext, ClosedStep, Zenon DEF Inv
<1>. QED  BY <1>1, <1>2, PTL DEF Spec

\* A context is ready for I/O only after the peer's Finished matched, with both
\* directions under keys of its master secret (SSLAdvanceHandshake, Finished).
THEOREM ReadyVerified == Spec => []ReadyMeansVerified
<1>1. Inv => ReadyMeansVerified
  BY Zenon DEF Inv, KeyInv, ReadyMeansVerified
<1>. QED  BY <1>1, Invariant, PTL

\* SSLHandshakeProceed runs only while the read cipher is not ready: its assertion.
THEOREM ProceedWhileNotReady == Spec => []ProceedNotReady
<1>1. Inv => ProceedNotReady
  BY Zenon DEF Inv, KeyInv, ProceedNotReady, Handshaking
<1>. QED  BY <1>1, Invariant, PTL

\* A client told to break on server authentication does not go on before it did.
THEOREM ServerAuthenticationReported == Spec => []ServerAuthReported
<1>1. Inv => ServerAuthReported
  BY Zenon DEF Inv, AuthInv, ServerAuthReported, Breaks
<1>. QED  BY <1>1, Invariant, PTL

\* A server's client authentication is complete when the server is ready.
THEOREM ClientAuthentication == Spec => []ClientAuthenticated
<1>1. Inv => ClientAuthenticated
  BY Zenon DEF Inv, AuthInv, ClientAuthenticated, ServerStates
<1>. QED  BY <1>1, Invariant, PTL

\* No call, message or disconnection opens a context that was closed when no call was
\* in progress.  (A call that is still shaking hands in a closed context may open it:
\* the peer's close_notify does not end SSLHandshake's loop, and a HelloRequest is obeyed.)
THEOREM ClosedForever == Spec => ClosedIsFinal
<1>1. Inv /\ Over /\ [Next]_vars => Over'
  <2>1. Over /\ UNCHANGED vars => Over'
    BY Zenon DEF Over, vars
  <2>. QED  BY <2>1, ClosedStep, Zenon DEF Inv
<1>2. state \in Closed /\ call = "none" => Over
  BY Zenon DEF Over
<1>3. Over => state \in Closed
  BY Zenon DEF Over
<1>. QED  BY <1>1, <1>2, <1>3, Invariant, PTL DEF Spec, ClosedIsFinal

\* Only a Finished makes a context ready or puts a session in the cache.
LEMMA CacheStep ==
    ASSUME Inv, Next
    PROVE  \/ /\ cache' \in {cache, NoSession}
              /\ state' \in Ready => state \in Ready
           \/ /\ state' \in Ready /\ cache' \in {cache, NewSession}
              /\ cfg.peerID => cache' = NewSession
              /\ UNCHANGED <<master, version>>
<1>. USE DEF Ready, Deleted
<1>1. CASE \E c \in {"handshake", "read", "write"} : Call(c)
  BY <1>1, ZenonT(40) DEF Call
<1>2. CASE WouldBlock \/ SignalServerAuth \/ HandshakeDone \/ Write
  BY <1>2, ZenonT(40) DEF WouldBlock, SignalServerAuth, HandshakeDone, Write
<1>3. CASE Close
  BY <1>3, ZenonT(40) DEF Close
<1>4. CASE InitConnection
  BY <1>4, Zenon DEF InitConnection, StartHandshake
<1>5. CASE ContinueHandshake
  <2>1. state' = "ChangeCipherSpec"
    BY <1>5, Zenon DEF ContinueHandshake, ClientFlight
  <2>. QED  BY <1>5, <2>1, Zenon DEF ContinueHandshake
<1>6. CASE Disconnect
  BY <1>6, Zenon DEF Disconnect, Fatal
<1>7. CASE PeerSends
  <2>0. PICK m : Typed(m) /\ \E last \in BOOLEAN : Takes(m, last)
    BY <1>7, PeerSteps, Zenon
  <2>1. PICK last \in BOOLEAN : Takes(m, last)
    BY <2>0, Zenon
  <2>2. CASE Refuse("failure") \/ BadMessage(m)
    BY <2>2, ZenonT(40) DEF Refuse, BadMessage, Fatal
  <2>3. CASE HelloRequest(m, last) \/ ClientHelloResume(m, last) \/ ServerHello(m, last)
    BY <2>3, Zenon DEF HelloRequest, StartHandshake, ClientHelloResume, ServerHello
  <2>4. CASE ClientHelloFull(m, last)
    <3>1. /\ cache' \in {cache, Deleted} /\ state = "ServerUninit"
          /\ state' \in {"ErrorClose", Shut(state), "ClientCert", "ClientKeyExchange"}
      BY <2>4, ZenonT(40) DEF ClientHelloFull
    <3>. QED  BY <3>1, ZenonT(40) DEF Shut
  <2>5. CASE Certificate(m, last)
    <3>1. cache' \in {cache, Deleted}
      BY <2>5, Zenon DEF Certificate, Fatal
    <3>2. state' \in {"ErrorClose", "ClientKeyExchange", "HelloDone", "KeyExchange"}
      BY <2>5, Zenon DEF Certificate, AfterCertificate, Fatal
    <3>. QED  BY <3>1, <3>2, Zenon
  <2>11. CASE CertRequest(m, last)
    <3>1. cache' \in {cache, Deleted}
      BY <2>11, Zenon DEF CertRequest, Fatal
    <3>2. state' \in {"ErrorClose", state}
      BY <2>11, Zenon DEF CertRequest, Fatal
    <3>. QED  BY <3>1, <3>2, Zenon
  <2>6. CASE ServerKeyExchange(m, last) \/ CertVerify(m, last) \/ ClientKeyExchange(m, last)
    BY <2>6, Zenon DEF ServerKeyExchange, CertVerify, ClientKeyExchange, AfterKeyExchange
  <2>7. CASE ServerHelloDone(m, last)
    <3>1. ClientFlight(Append(hash, m)) => state' = "ChangeCipherSpec"
      BY Zenon DEF ClientFlight
    <3>. QED  BY <2>7, <3>1, Zenon DEF ServerHelloDone
  <2>8. CASE Finished(m, last)
    BY <2>8, ZenonT(40) DEF Finished
  <2>9. CASE ChangeCipherSpec(m)
    BY <2>9, ZenonT(40) DEF ChangeCipherSpec, Refuse, Fatal
  <2>10. CASE CloseNotify(m) \/ ErrorAlert(m) \/ Warning(m) \/ AppData(m)
    BY <2>10, Zenon DEF CloseNotify, ErrorAlert, Warning, AppData, Shut
  <2>12. CASE Unanswered(m)
    BY <2>12, Zenon DEF Unanswered, Shut
  <2>. QED
    BY <2>1, <2>2, <2>3, <2>4, <2>5, <2>6, <2>7, <2>8, <2>9, <2>10, <2>11, <2>12,
       Zenon DEF Takes
<1>. QED  BY <1>1, <1>2, <1>3, <1>4, <1>5, <1>6, <1>7, Zenon DEF Next, Local

\* The session cache follows the completed handshakes (SSLAddSessionData).
THEOREM CacheFollowsHandshakes == Spec => CachedWhenVerified
<1>. DEFINE Completes == \/ cache' \notin {cache, NoSession}
                         \/ cfg.peerID /\ state \notin Ready /\ state' \in Ready
            Agrees == /\ state' \in Ready /\ peerVerified'
                      /\ cache'.master = readKeys' /\ cache'.master = writeKeys'
                      /\ cache'.version = version'
<1>1. Inv /\ Inv' /\ [Next]_vars => [Completes => Agrees]_vars
  <2>1. SUFFICES ASSUME Inv, Inv', Next, Completes PROVE Agrees
    BY Zenon
  <2>2. /\ state' \in Ready /\ cache' = NewSession
        /\ UNCHANGED <<master, version>>
    BY <2>1, CacheStep, Zenon
  <2>3. peerVerified' = TRUE /\ readKeys' = master' /\ writeKeys' = master'
    BY <2>1, <2>2, Zenon DEF Inv, KeyInv
  <2>4. cache'.master = master /\ cache'.version = version
    BY <2>2, Zenon DEF NewSession, Session
  <2>. QED  BY <2>2, <2>3, <2>4, Zenon
<1>. QED  BY <1>1, Invariant, PTL DEF Spec, CachedWhenVerified

----------------------------------------------------------------------------
(* Type correctness. *)

\* Kept folded in the proofs: the provers treat a Boolean variable as a formula
\* as soon as they see BOOLEAN.
Flag(x) == x \in BOOLEAN

Flags ==
    /\ call \in {"none", "handshake", "read", "write"}
    /\ clientCertState \in {"None", "Requested", "Sent", "Rejected"}
    /\ negAuthType \in {"None", "Sign", "Fixed"}
    /\ Flag(readReady)
    /\ Flag(writeReady)
    /\ Flag(resumed)
    /\ Flag(certRequested)
    /\ Flag(certSent)
    /\ Flag(certReceived)
    /\ Flag(signalServerAuth)
    /\ Flag(sentFatalAlert)
    /\ Flag(inRecord)
    /\ Flag(peerVerified)
    /\ Flag(authReported)
    /\ Flag(possession)

\* The Booleans are flags.
LEMMA FlagValue == Flag(TRUE) /\ Flag(FALSE)
  BY Zenon DEF Flag

\* A new context's flags are Booleans.
LEMMA FlagsInit == Init => Flags
  BY FlagValue, ZenonT(40) DEF Init, Flags

\* The client's flight keeps the flags Booleans.
LEMMA FlagsFlight ==
    ASSUME Flags, NEW h, ClientFlight(h)
    PROVE  /\ Flag(certSent') /\ Flag(writeReady')
           /\ clientCertState' \in {"None", "Requested", "Sent", "Rejected"}
<1>1. certSent' \in BOOLEAN
  BY Zenon DEF ClientFlight
<1>2. writeReady' = TRUE
  BY Zenon DEF ClientFlight, SwitchWrite
<1>3. clientCertState' \in {"Sent", clientCertState}
  BY Zenon DEF ClientFlight
<1>. QED  BY <1>1, <1>2, <1>3, FlagValue, Zenon DEF Flags, Flag

\* The API's steps keep the flags Booleans.
LEMMA FlagsLocal ==
    ASSUME Flags, Local \/ Disconnect
    PROVE  Flags'
<1>. USE FlagValue DEF Flags
<1>1. CASE \E c \in {"handshake", "read", "write"} : Call(c)
  BY <1>1, ZenonT(40) DEF Call
<1>2. CASE WouldBlock \/ SignalServerAuth \/ HandshakeDone \/ Write
  BY <1>2, ZenonT(40) DEF WouldBlock, SignalServerAuth, HandshakeDone, Write, Return
<1>3. CASE Close
  <2>1. Flag(sentFatalAlert')
    BY <1>3, Zenon DEF Close, Flag
  <2>. QED  BY <1>3, <2>1, Zenon DEF Close
<1>4. CASE InitConnection
  BY <1>4, ZenonT(40) DEF InitConnection, StartHandshake, StopTraffic
<1>5. CASE ContinueHandshake
  BY <1>5, FlagsFlight, Zenon DEF ContinueHandshake
<1>6. CASE Disconnect
  BY <1>6, Zenon DEF Disconnect, Fatal, Return
<1>. QED  BY <1>1, <1>2, <1>3, <1>4, <1>5, <1>6, Zenon DEF Local

\* Every message keeps the flags Booleans.
LEMMA FlagsMessage ==
    ASSUME Flags, NEW m, Typed(m), NEW last \in BOOLEAN, Takes(m, last)
    PROVE  Flags'
<1>. USE FlagValue DEF Flags
<1>a. Flag(~last)
  BY ZenonT(40) DEF Flag
<1>1. CASE Refuse("failure")
  BY <1>1, ZenonT(40) DEF Refuse, Fatal
<1>2. CASE BadMessage(m)
  BY <1>2, ZenonT(40) DEF BadMessage, Fatal
<1>3. CASE HelloRequest(m, last)
  BY <1>a, <1>3, ZenonT(40) DEF HelloRequest, StartHandshake, StopTraffic
<1>4. CASE ClientHelloResume(m, last)
  BY <1>a, <1>4, ZenonT(40) DEF ClientHelloResume, SwitchWrite
<1>5. CASE ClientHelloFull(m, last)
  <2>1. Flag(certRequested') /\ Flag(inRecord')
    BY <1>a, <1>5, ZenonT(40) DEF ClientHelloFull, Flag
  <2>. QED  BY <1>5, <2>1, ZenonT(40) DEF ClientHelloFull, Return
<1>6. CASE ServerHello(m, last)
  BY <1>a, <1>6, ZenonT(40) DEF ServerHello, Processed
<1>7. CASE Certificate(m, last)
  <2>1. Flag(signalServerAuth')
    BY <1>7, ZenonT(40) DEF Certificate, Flag
  <2>2. Flag(certReceived')
    BY <1>7, Zenon DEF Certificate, Flag
  <2>3. Flag(authReported')
    BY <1>7, Zenon DEF Certificate, Flag
  <2>. QED  BY <1>a, <1>7, <2>1, <2>2, <2>3, ZenonT(40) DEF Certificate, Processed, Fatal
<1>8. CASE CertRequest(m, last)
  <2>1. negAuthType' \in {"None", "Sign", "Fixed"}
    BY <1>8, Zenon DEF CertRequest, AuthType
  <2>. QED  BY <1>a, <1>8, <2>1, Zenon DEF CertRequest, Processed, Fatal
<1>9. CASE ServerKeyExchange(m, last) \/ CertVerify(m, last) \/ ClientKeyExchange(m, last)
  BY <1>a, <1>9, ZenonT(40) DEF ServerKeyExchange, CertVerify, ClientKeyExchange, Processed
<1>10. CASE ServerHelloDone(m, last)
  BY <1>a, <1>10, FlagsFlight, ZenonT(40) DEF ServerHelloDone, Return
<1>11. CASE Finished(m, last)
  BY <1>a, <1>11, ZenonT(40) DEF Finished, SwitchWrite
<1>12. CASE ChangeCipherSpec(m)
  BY <1>1, <1>12, ZenonT(40) DEF ChangeCipherSpec
<1>13. CASE CloseNotify(m)
  <2>1. Flag(sentFatalAlert')
    BY <1>13, ZenonT(40) DEF CloseNotify, Flag
  <2>. QED  BY <1>13, <2>1, ZenonT(40) DEF CloseNotify, Return
<1>14. CASE ErrorAlert(m) \/ AppData(m)
  BY <1>14, ZenonT(40) DEF ErrorAlert, AppData, Return
<1>15. CASE Warning(m)
  <2>1. Flag(certReceived')
    BY <1>15, Zenon DEF Warning, Flag
  <2>. QED  BY <1>15, <2>1, Zenon DEF Warning
<1>16. CASE Unanswered(m)
  <2>1. Flag(signalServerAuth')
    BY <1>16, ZenonT(40) DEF Unanswered, Flag
  <2>. QED  BY <1>16, <2>1, ZenonT(40) DEF Unanswered, Return
<1>. HIDE DEF Flags
<1>. QED
  BY <1>1, <1>2, <1>3, <1>4, <1>5, <1>6, <1>7, <1>8, <1>9, <1>10, <1>11, <1>12, <1>13,
     <1>14, <1>15, <1>16, Zenon DEF Takes

\* Every variable stays in its set.
THEOREM TypeCorrect == Spec => []TypeOK
<1>1. Flags /\ [Next]_vars => Flags'
  <2>1. ASSUME Flags, Next PROVE Flags'
    BY <2>1, FlagsLocal, PeerSteps, FlagsMessage, ZenonT(40) DEF Next
  <2>2. ASSUME Flags, UNCHANGED vars PROVE Flags'
    BY <2>2, Zenon DEF Flags, vars
  <2>. QED  BY <2>1, <2>2, ZenonT(40)
<1>2. DataInv /\ Flags => TypeOK
  <2>1. ASSUME Flags
        PROVE  {readReady, writeReady, resumed, certRequested, certSent, certReceived,
                signalServerAuth, sentFatalAlert, inRecord, peerVerified, authReported,
                possession} \subseteq BOOLEAN
    BY <2>1, Zenon DEF Flags, Flag
  <2>2. ASSUME DataInv
        PROVE  /\ {readKeys, readPending, writeKeys, writePending, master}
                     \subseteq Secrets \cup {NoKeys}
               /\ {resumable, cache} \subseteq Sessions \cup {NoSession}
    BY <2>2, Zenon DEF DataInv
  <2>3. ASSUME Flags
        PROVE  /\ call \in {"none", "handshake", "read", "write"}
               /\ clientCertState \in {"None", "Requested", "Sent", "Rejected"}
               /\ negAuthType \in {"None", "Sign", "Fixed"}
    BY <2>3, Zenon DEF Flags
  <2>. QED  BY <2>1, <2>2, <2>3, Zenon DEF DataInv, TypeOK
<1>. QED  BY <1>1, <1>2, FlagsInit, DataInit, DataNext, PTL DEF Spec

----------------------------------------------------------------------------
(* Messages that are neither data nor a closing alert, and no alert at all after *)
(* the last one.                                                                 *)

MuteMessage(m) ==
    m.type # "data" /\ ~Closing(m) /\ (m.type = "alert" => sentFatalAlert # TRUE)
Mute(s) == IsSeq(s) /\ \A i \in 1 .. Len(s) : MuteMessage(s[i])

\* A message that is no data, and no alert but no_certificate.
LEMMA MuteSingle ==
    ASSUME NEW t, NEW b, t # "data", t = "alert" => b = "noCert" /\ sentFatalAlert # TRUE
    PROVE  Mute(<<Msg(t, b)>>)
<1>1. MuteMessage(Msg(t, b))
  BY DEF MuteMessage, Closing, Msg
<1>2. IsSeq(<<Msg(t, b)>>) /\ Len(<<Msg(t, b)>>) = 1 /\ <<Msg(t, b)>>[1] = Msg(t, b)
  BY SingleSeq
<1>3. \A i \in 1 .. 1 : i = 1
  OBVIOUS
<1> QED
  BY <1>1, <1>2, <1>3, Zenon DEF Mute

\* No message at all.
LEMMA MuteEmpty == Mute(<<>>)
  BY EmptySeq DEF Mute

\* Two such flights in a row.
LEMMA MuteConcat ==
    ASSUME NEW s, NEW t, Mute(s), Mute(t)
    PROVE  Mute(s \o t)
<1>1. IsSeq(s) /\ IsSeq(t)
  BY Zenon DEF Mute
<1> QED
  BY <1>1, ConcatSeq DEF Mute

\* An optional message.
LEMMA MuteOpt ==
    ASSUME NEW b, NEW m, b => Mute(<<m>>)
    PROVE  Mute(Opt(b, m))
  BY MuteEmpty, Zenon DEF Opt

----------------------------------------------------------------------------
(* What a step adds to the output. *)

\* Records that hold neither data nor a closing alert.
MuteRecords(s) ==
    IsSeq(s) /\ \A i \in 1 .. Len(s) : MuteMessage(s[i].msg)

\* The step closes the context, for good if by a fatal alert.
Ends(a) ==
    /\ sentFatalAlert' = TRUE
    /\ state' \in Closed
    /\ a = "closeNotify" \/ Over'

\* Data is under keys, there is no alert after the last one, and a closing alert
\* comes last and closes the context.
Addition(s) ==
    /\ IsSeq(s)
    /\ out' = out \o s
    /\ \A i \in 1 .. Len(s) :
          /\ s[i].msg.type = "data" => s[i].keys # NoKeys
          /\ s[i].msg.type = "alert" => sentFatalAlert # TRUE
          /\ Closing(s[i].msg) => i = Len(s) /\ Ends(s[i].msg.body)

\* A mute flight in records.
LEMMA MuteSent ==
    ASSUME NEW k, NEW s, Mute(s)
    PROVE  MuteRecords(Sent(k, s))
<1> DEFINE r == Sent(k, s)
<1>1. /\ IsSeq(r) /\ Len(r) = Len(s)
      /\ \A i \in 1 .. Len(s) : r[i] = [keys |-> k, msg |-> s[i]]
  BY SentSeq, Zenon DEF Mute
<1>2. \A i \in 1 .. Len(s) : MuteMessage(s[i])
  BY Zenon DEF Mute
<1> HIDE DEF r
<1>3. ASSUME NEW i \in 1 .. Len(r) PROVE r[i].msg = s[i]
  <2>1. r[i] = [keys |-> k, msg |-> s[i]]
    BY <1>1, Zenon
  <2> QED
    BY <2>1
<1>4. MuteRecords(r)
  BY <1>1, <1>2, <1>3, Zenon DEF MuteRecords
<1> QED
  BY <1>4, Zenon DEF r

\* Two such lists of records.
LEMMA MuteRecordsConcat ==
    ASSUME NEW s, NEW t, MuteRecords(s), MuteRecords(t)
    PROVE  MuteRecords(s \o t)
<1>1. IsSeq(s) /\ IsSeq(t)
  BY Zenon DEF MuteRecords
<1> QED
  BY <1>1, ConcatSeq DEF MuteRecords

\* Mute records may always be added.
LEMMA MuteAddition ==
    ASSUME NEW s, MuteRecords(s), out' = out \o s
    PROVE  Addition(s)
  BY Zenon DEF MuteRecords, MuteMessage, Addition

\* A step may add nothing.
LEMMA NoAddition ==
    ASSUME IsSeq(out), UNCHANGED out
    PROVE  Addition(<<>>)
<1>1. out = out \o <<>>
  BY DEF IsSeq
<1> QED
  BY <1>1, EmptySeq DEF Addition

\* An alert, or none.
LEMMA AlertAddition ==
    ASSUME NEW v, NEW a, out' = out \o AlertOut(v, a),
           v = "undetermined" \/ sentFatalAlert = TRUE \/ Ends(a)
    PROVE  Addition(AlertOut(v, a))
<1>1. CASE v = "undetermined" \/ sentFatalAlert = TRUE
  <2>1. AlertOut(v, a) = <<>>
    BY <1>1 DEF AlertOut
  <2> QED
    BY <2>1, EmptySeq DEF Addition
<1>2. CASE v # "undetermined" /\ sentFatalAlert # TRUE
  <2> DEFINE m == Msg("alert", a)
             s == Sent(writeKeys, <<m>>)
  <2>1. IsSeq(s) /\ Len(s) = 1 /\ s[1] = [keys |-> writeKeys, msg |-> m]
    BY SingleSeq, SentSeq
  <2>2. AlertOut(v, a) \in {s, <<>>}
    BY Zenon DEF AlertOut
  <2>3. m.type = "alert" /\ m.body = a
    BY Zenon DEF Msg
  <2>4. Ends(a)
    BY <1>2, Zenon
  <2> HIDE DEF s, m
  <2>5. s[1].msg = m
    BY <2>1
  <2>6. CASE AlertOut(v, a) = s
    <3>1. \A i \in 1 .. Len(s) : i = 1 /\ s[i].msg.type # "data"
      BY <2>1, <2>3, <2>5
    <3>2. Addition(s)
      BY <1>2, <2>1, <2>3, <2>4, <2>5, <2>6, <3>1, Zenon DEF Addition
    <3> QED
      BY <2>6, <3>2, Zenon
  <2>7. CASE AlertOut(v, a) = <<>>
    BY <2>7, EmptySeq DEF Addition
  <2> QED
    BY <2>2, <2>6, <2>7, Zenon
<1> QED
  BY <1>1, <1>2, Zenon

\* ChangeCipherSpec and Finished.
LEMMA SwitchAddition ==
    ASSUME NEW before, NEW k, NEW m, NEW h, IsSeq(out), Mute(before), SwitchWrite(before, k, m, h)
    PROVE  \E s : Addition(s) /\ MuteRecords(s)
<1> DEFINE fin == Msg("finished", VerifyData(cfg.side, m, h))
           a == Sent(writeKeys, before \o <<Msg("ccs", "ok")>>)
           b == Sent(k, <<fin>>)
<1>1. MuteRecords(a)
  BY MuteSingle, MuteConcat, MuteSent, Zenon
<1>2. MuteRecords(b)
  BY MuteSingle, MuteSent, Zenon
<1>3. out' = (out \o a) \o b
  BY Zenon DEF SwitchWrite
<1> HIDE DEF a, b
<1>4. IsSeq(a) /\ IsSeq(b)
  BY <1>1, <1>2, Zenon DEF MuteRecords
<1>5. (out \o a) \o b = out \o (a \o b)
  <2> DEFINE S == Items(out) \cup Items(a) \cup Items(b)
  <2>1. out \in Seq(S) /\ a \in Seq(S) /\ b \in Seq(S)
    BY <1>4 DEF IsSeq
  <2> HIDE DEF S
  <2> QED
    BY <2>1
<1>6. MuteRecords(a \o b)
  BY <1>1, <1>2, MuteRecordsConcat, Zenon
<1> QED
  BY <1>3, <1>5, <1>6, MuteAddition, Zenon

----------------------------------------------------------------------------
(* Silence after the end. *)

\* The i-th record closes the context: no alert follows, and if anything does it is a
\* ClientHello after a close_notify; otherwise the context is still closed.
Closes(i) ==
    /\ sentFatalAlert = TRUE
    /\ \A j \in i+1 .. Len(out) : out[j].msg.type # "alert"
    /\ \/ i = Len(out) /\ state \in Closed /\ (out[i].msg.body = "closeNotify" \/ Over)
       \/ i < Len(out) /\ out[i].msg.body = "closeNotify" /\ out[i + 1].msg.type = "clientHello"

\* Only a client may go on after its last alert.
OutInv ==
    /\ IsSeq(out)
    /\ DataProtected
    /\ Server /\ sentFatalAlert = TRUE => state \in Closed
    /\ \A i \in 1 .. Len(out) : Closing(out[i].msg) => Closes(i)

\* A step adds to the output.
Adds == \E s : Addition(s)

\* A step that writes nothing.
LEMMA Quiet == ASSUME IsSeq(out), UNCHANGED out PROVE Adds
  BY NoAddition, Zenon DEF Adds

\* A step that sends an alert.
LEMMA AlertAdds ==
    ASSUME NEW v, NEW a, out' = out \o AlertOut(v, a),
           v = "undetermined" \/ sentFatalAlert = TRUE \/ Ends(a)
    PROVE  Adds
  BY AlertAddition, Zenon DEF Adds

\* A step that sends mute messages.
LEMMA MuteAdds ==
    ASSUME NEW k, NEW s, Mute(s), out' = out \o Sent(k, s)
    PROVE  Adds
  BY MuteSent, MuteAddition, Zenon DEF Adds

\* A step that sends ChangeCipherSpec and Finished.
LEMMA SwitchAdds ==
    ASSUME NEW before, NEW k, NEW m, NEW h, IsSeq(out), Mute(before),
           SwitchWrite(before, k, m, h)
    PROVE  Adds
  BY SwitchAddition, Zenon DEF Adds

\* The client's flight.
LEMMA FlightAdds ==
    ASSUME NEW h, IsSeq(out), ClientFlight(h)
    PROVE  Adds
<1> DEFINE asked == clientCertState = "Requested"
           sendCert == asked /\ (version # "SSL3" \/ (cfg.cert # NoCert /\ negAuthType # "None"))
           sendSigned == sendCert /\ cfg.cert # NoCert
           hashed(secret) == Opt(sendCert, Msg("cert", cfg.cert))
                             \o <<Msg("clientKeyExchange", secret)>>
                             \o Opt((certSent \/ sendSigned) /\ negAuthType = "Sign",
                                    Msg("certVerify", "ok"))
           noCert == Opt(asked /\ ~sendCert /\ ~sentFatalAlert, Msg("alert", "noCert"))
<1>1. PICK secret \in Secrets : SwitchWrite(noCert \o hashed(secret), secret, secret, h \o hashed(secret))
  BY Zenon DEF ClientFlight
<1>2. Mute(noCert)
  <2>1. ~sentFatalAlert => sentFatalAlert # TRUE
    BY Zenon
  <2>2. (asked /\ ~sendCert /\ ~sentFatalAlert) => Mute(<<Msg("alert", "noCert")>>)
    BY <2>1, MuteSingle, Zenon
  <2> QED
    BY <2>2, MuteOpt, Zenon
<1>3. Mute(hashed(secret))
  <2>1. Mute(Opt(sendCert, Msg("cert", cfg.cert)))
    BY MuteSingle, MuteOpt, Zenon
  <2>2. Mute(Opt((certSent \/ sendSigned) /\ negAuthType = "Sign", Msg("certVerify", "ok")))
    BY MuteSingle, MuteOpt, Zenon
  <2>3. Mute(<<Msg("clientKeyExchange", secret)>>)
    BY MuteSingle, Zenon
  <2> QED
    BY <2>1, <2>2, <2>3, MuteConcat, Zenon
<1> HIDE DEF noCert, hashed
<1> QED
  BY <1>1, <1>2, <1>3, MuteConcat, SwitchAdds, Zenon

\* The server's answer to a ClientHello.
LEMMA ServerFlightAdds ==
    ASSUME IsSeq(out), NEW m, NEW last, ClientHelloFull(m, last), sentFatalAlert # TRUE
    PROVE  Adds
<1> DEFINE anon == cfg.kx = "anon"
           ask == cfg.auth # "never" /\ ~anon
           hello(id) == Msg("serverHello", id)
           flight(id) == <<hello(id)>>
                    \o Opt(~anon, Msg("cert", cfg.cert))
                    \o Opt(DoServerKeyExch, Msg("serverKeyExchange", "ok"))
                    \o Opt(ask, Msg("certRequest", IF cfg.version = "TLS12" THEN Bad ELSE "match"))
                    \o <<Msg("serverHelloDone", "ok")>>
<1>1. PICK id \in IDs :
        \/ /\ out' = out \o Sent(writeKeys, <<hello(id), Msg("alert", "failure")>>)
           /\ sentFatalAlert' = TRUE /\ state' = "ErrorClose" /\ call' = "none"
        \/ out' = out \o Sent(writeKeys, <<hello(id)>>)
        \/ out' = out \o Sent(writeKeys, flight(id))
  BY ZenonT(40) DEF ClientHelloFull, Return
<1>2. Mute(<<hello(id)>>)
  BY MuteSingle, Zenon
<1>3. Mute(flight(id))
  <2>1. Mute(Opt(~anon, Msg("cert", cfg.cert)))
    BY MuteSingle, MuteOpt, Zenon
  <2>2. Mute(Opt(DoServerKeyExch, Msg("serverKeyExchange", "ok")))
    BY MuteSingle, MuteOpt, Zenon
  <2>3. Mute(Opt(ask, Msg("certRequest", IF cfg.version = "TLS12" THEN Bad ELSE "match")))
    BY MuteSingle, MuteOpt, Zenon
  <2>4. Mute(<<Msg("serverHelloDone", "ok")>>)
    BY MuteSingle, Zenon
  <2> QED
    BY <1>2, <2>1, <2>2, <2>3, <2>4, MuteConcat, Zenon
<1>4. CASE /\ out' = out \o Sent(writeKeys, <<hello(id), Msg("alert", "failure")>>)
           /\ sentFatalAlert' = TRUE /\ state' = "ErrorClose" /\ call' = "none"
  <2> DEFINE p == <<hello(id), Msg("alert", "failure")>>
             s == Sent(writeKeys, p)
  <2>1. p \in Seq({hello(id), Msg("alert", "failure")}) /\ Len(p) = 2
        /\ p[1] = hello(id) /\ p[2] = Msg("alert", "failure")
    OBVIOUS
  <2>2. IsSeq(p)
    BY <2>1, SeqIsSeq, Zenon
  <2> HIDE DEF p
  <2>3. IsSeq(s) /\ Len(s) = 2 /\ s[1] = [keys |-> writeKeys, msg |-> p[1]]
        /\ s[2] = [keys |-> writeKeys, msg |-> p[2]]
    BY <2>1, <2>2, SentSeq
  <2> HIDE DEF s
  <2>4. s[1].msg = hello(id) /\ s[2].msg = Msg("alert", "failure")
    BY <2>1, <2>3
  <2>5. hello(id).type = "serverHello" /\ Msg("alert", "failure").type = "alert"
    BY Zenon DEF Msg
  <2>6. \A i \in 1 .. Len(s) : i = 1 \/ i = 2
    BY <2>3
  <2>7. out' = out \o s
    BY <1>4, Zenon DEF s, p
  <2>8. ASSUME NEW i \in 1 .. Len(s)
        PROVE  s[i].msg.type # "data" /\ (Closing(s[i].msg) => i = Len(s))
    BY <2>3, <2>4, <2>5, <2>6, Zenon DEF Closing
  <2>9. \A a : Ends(a)
    BY <1>4, Zenon DEF Ends, Over, Closed
  <2>10. Addition(s)
    BY <2>3, <2>7, <2>8, <2>9, Zenon DEF Addition
  <2> QED
    BY <2>10, Zenon DEF Adds
<1>5. CASE out' = out \o Sent(writeKeys, <<hello(id)>>)
  BY <1>2, <1>5, MuteAdds, Zenon
<1>6. CASE out' = out \o Sent(writeKeys, flight(id))
  <2> HIDE DEF flight
  <2> QED
    BY <1>3, <1>6, MuteAdds, Zenon
<1> QED
  BY <1>1, <1>4, <1>5, <1>6, Zenon

\* A ClientHello.
LEMMA StartAdds ==
    ASSUME NEW offer, IsSeq(out), StartHandshake(offer)
    PROVE  Adds
<1>1. Mute(<<EncodeClientHello(offer)>>)
  BY MuteSingle, Zenon DEF EncodeClientHello
<1>2. out' = out \o Sent(writeKeys, <<EncodeClientHello(offer)>>)
  BY Zenon DEF StartHandshake
<1> QED
  BY <1>1, <1>2, MuteAdds, Zenon

\* Data.
LEMMA WriteAdds ==
    ASSUME Inv, TypeOK, OutInv, Write
    PROVE  Adds
<1> DEFINE s == Sent(writeKeys, <<Msg("data", "ok")>>)
<1>1. IsSeq(s) /\ Len(s) = 1 /\ s[1] = [keys |-> writeKeys, msg |-> Msg("data", "ok")]
  BY SingleSeq, SentSeq
<1>2. out' = out \o s /\ call = "write" /\ ~Handshaking
  BY Zenon DEF Write
<1> HIDE DEF s
<1>3. writeKeys # NoKeys
  <2>1. writeReady = TRUE
    BY <1>2, Zenon DEF Handshaking, TypeOK
  <2> QED
    BY <2>1, Zenon DEF Inv, KeyInv
<1>4. s[1].keys # NoKeys /\ s[1].msg.type = "data"
  BY <1>1, <1>3 DEF Msg
<1>5. \A i \in 1 .. Len(s) : i = 1
  BY <1>1
<1>6. Addition(s)
  <2>1. \A i \in 1 .. Len(s) : s[i].keys # NoKeys /\ s[i].msg.type # "alert"
    BY <1>4, <1>5
  <2> QED
    BY <1>1, <1>2, <2>1, Zenon DEF Addition, Closing
<1> QED
  BY <1>6, Zenon DEF Adds

\* Every step of the API adds to the output.
LEMMA LocalAdds ==
    ASSUME Inv, TypeOK, OutInv, Local \/ Disconnect
    PROVE  Adds
<1>0. IsSeq(out)
  BY Zenon DEF OutInv
<1>1. CASE \E c \in {"handshake", "read", "write"} : Call(c)
  BY <1>0, <1>1, Quiet, Zenon DEF Call
<1>2. CASE WouldBlock \/ SignalServerAuth \/ HandshakeDone
  BY <1>0, <1>2, Quiet, Zenon DEF WouldBlock, SignalServerAuth, HandshakeDone
<1>3. CASE Write
  BY <1>3, WriteAdds, Zenon
<1>4. CASE Close
  <2>1. version = "undetermined" \/ sentFatalAlert = TRUE \/ Ends("closeNotify")
    BY <1>4, Zenon DEF Close, Ends, Closed
  <2> QED
    BY <1>4, <2>1, AlertAdds, Zenon DEF Close
<1>5. CASE InitConnection
  BY <1>0, <1>5, StartAdds, Quiet, Zenon DEF InitConnection
<1>6. CASE ContinueHandshake
  BY <1>0, <1>6, FlightAdds, Zenon DEF ContinueHandshake
<1>7. CASE Disconnect
  <2>1. UNCHANGED out \/ (out' = out \o AlertOut(version, "fatalClose") /\ Ends("fatalClose"))
    BY <1>7, Zenon DEF Disconnect, Fatal, Ends, Over, Closed
  <2> QED
    BY <1>0, <2>1, AlertAdds, Quiet, Zenon
<1> QED
  BY <1>1, <1>2, <1>3, <1>4, <1>5, <1>6, <1>7, Zenon DEF Local

\* So does every message.
LEMMA MessageAdds ==
    ASSUME Inv, OutInv, NEW m, NEW last \in BOOLEAN, Takes(m, last)
    PROVE  Adds
<1>0. IsSeq(out)
  BY Zenon DEF OutInv
<1>1. ASSUME NEW v, NEW a, Fatal(v, a) PROVE Adds
  BY <1>1, AlertAdds, Zenon DEF Fatal, Ends, Over, Closed
<1>2. CASE Refuse("failure") \/ BadMessage(m)
  BY <1>1, <1>2, Zenon DEF Refuse, BadMessage
<1>3. CASE HelloRequest(m, last)
  BY <1>0, <1>3, StartAdds, Zenon DEF HelloRequest
<1>4. CASE ClientHelloResume(m, last)
  <2>1. Mute(<<Msg("serverHello", KeptID(m.body))>>)
    BY MuteSingle, Zenon
  <2> QED
    BY <1>0, <1>4, <2>1, SwitchAdds, Zenon DEF ClientHelloResume
<1>5. CASE ClientHelloFull(m, last)
  <2>1. sentFatalAlert # TRUE
    BY <1>5, Zenon DEF ClientHelloFull, OutInv, Inv, AuthInv, ServerStates, Closed
  <2> QED
    BY <1>0, <1>5, <2>1, ServerFlightAdds, Zenon
<1>6. CASE ServerHello(m, last) \/ ServerKeyExchange(m, last) \/ CertVerify(m, last)
           \/ ClientKeyExchange(m, last)
  BY <1>0, <1>6, Quiet, Zenon DEF ServerHello, ServerKeyExchange, CertVerify, ClientKeyExchange, Processed
<1>7. CASE Certificate(m, last)
  <2>1. Fatal(version, "badCert") \/ UNCHANGED out
    BY <1>7, Zenon DEF Certificate
  <2> QED
    BY <1>1, <1>0, <2>1, Quiet, Zenon
<1>8. CASE CertRequest(m, last)
  <2>1. Fatal(version, "failure") \/ UNCHANGED out
    BY <1>8, Zenon DEF CertRequest
  <2> QED
    BY <1>1, <1>0, <2>1, Quiet, Zenon
<1>9. CASE ServerHelloDone(m, last)
  <2>1. ClientFlight(Append(hash, m)) \/ UNCHANGED out
    BY <1>9, Zenon DEF ServerHelloDone
  <2> QED
    BY <1>0, <2>1, FlightAdds, Quiet, Zenon
<1>10. CASE Finished(m, last)
  <2>1. UNCHANGED out \/ \E h : SwitchWrite(<<>>, writePending, master, h)
    BY <1>10, Zenon DEF Finished
  <2> QED
    BY <1>0, <2>1, MuteEmpty, SwitchAdds, Quiet, Zenon
<1>11. CASE ChangeCipherSpec(m)
  <2>1. Refuse("failure") \/ UNCHANGED out
    BY <1>11, Zenon DEF ChangeCipherSpec
  <2> QED
    BY <1>2, <1>0, <2>1, Quiet, Zenon
<1>12. CASE CloseNotify(m)
  <2>1. version = "undetermined" \/ sentFatalAlert = TRUE \/ Ends("closeNotify")
    BY <1>12, Zenon DEF CloseNotify, Ends, Closed
  <2> QED
    BY <1>12, <2>1, AlertAdds, Zenon DEF CloseNotify
<1>13. CASE Unanswered(m) \/ ErrorAlert(m) \/ Warning(m) \/ AppData(m)
  BY <1>0, <1>13, Quiet, Zenon DEF Unanswered, ErrorAlert, Warning, AppData
<1> QED
  BY <1>2, <1>3, <1>4, <1>5, <1>6, <1>7, <1>8, <1>9, <1>10, <1>11, <1>12, <1>13, Zenon DEF Takes

\* Every step adds to the output.
LEMMA NextAdds ==
    ASSUME Inv, TypeOK, OutInv, Next
    PROVE  Adds
  BY LocalAdds, MessageAdds, PeerSteps, Zenon DEF Next

\* The last alert stays the last, and sending it closes the context.
LEMMA AlertStep ==
    ASSUME Next
    PROVE  /\ sentFatalAlert = TRUE => sentFatalAlert' = TRUE
           /\ sentFatalAlert' = TRUE => sentFatalAlert = TRUE \/ state' \in Closed
           /\ UNCHANGED cfg
<1> USE DEF Closed
<1> DEFINE Same == UNCHANGED <<cfg, sentFatalAlert>>
           Last == UNCHANGED cfg /\ state' \in Closed /\ sentFatalAlert' = TRUE
           More == /\ UNCHANGED cfg /\ state' \in Closed
                   /\ sentFatalAlert' = (sentFatalAlert \/ version # "undetermined")
<1>1. CASE \E c \in {"handshake", "read", "write"} : Call(c)
  BY <1>1, Zenon DEF Call
<1>2. CASE WouldBlock \/ SignalServerAuth \/ HandshakeDone \/ Write
  BY <1>2, Zenon DEF WouldBlock, SignalServerAuth, HandshakeDone, Write
<1>3. CASE Close
  <2>1. More
    BY <1>3, Zenon DEF Close
  <2> QED  BY <2>1, Zenon
<1>4. CASE InitConnection \/ ContinueHandshake
  BY <1>4, Zenon DEF InitConnection, ContinueHandshake
<1>5. CASE Disconnect
  <2>1. Same \/ Last
    BY <1>5, Zenon DEF Disconnect, Fatal
  <2> QED  BY <2>1, Zenon
<1>6. CASE PeerSends
  <2>1. PICK m : \E last \in BOOLEAN : Takes(m, last)
    BY <1>6, PeerSteps, Zenon
  <2>2. PICK last \in BOOLEAN : Takes(m, last)
    BY <2>1, Zenon
  <2>3. Same \/ Last \/ More
    <3>1. CASE Refuse("failure") \/ BadMessage(m)
      BY <3>1, Zenon DEF Refuse, BadMessage, Fatal
    <3>2. CASE Unanswered(m) \/ HelloRequest(m, last) \/ ClientHelloResume(m, last)
      BY <3>2, Zenon DEF Unanswered, HelloRequest, ClientHelloResume
    <3>3. CASE ClientHelloFull(m, last)
      BY <3>3, ZenonT(40) DEF ClientHelloFull
    <3>4. CASE \/ ServerHello(m, last) \/ ServerKeyExchange(m, last) \/ CertVerify(m, last)
               \/ ClientKeyExchange(m, last)
      BY <3>4, Zenon DEF ServerHello, ServerKeyExchange, CertVerify, ClientKeyExchange, Processed
    <3>5. CASE Certificate(m, last) \/ CertRequest(m, last)
      BY <3>5, ZenonT(40) DEF Certificate, CertRequest, Processed, Fatal
    <3>6. CASE ServerHelloDone(m, last) \/ Finished(m, last)
      BY <3>6, ZenonT(40) DEF ServerHelloDone, Finished
    <3>7. CASE ChangeCipherSpec(m)
      BY <3>7, ZenonT(40) DEF ChangeCipherSpec, Refuse, Fatal
    <3>8. CASE CloseNotify(m)
      BY <3>8, Zenon DEF CloseNotify
    <3>9. CASE ErrorAlert(m) \/ Warning(m) \/ AppData(m)
      BY <3>9, Zenon DEF ErrorAlert, Warning, AppData
    <3> HIDE DEF Same, Last, More
    <3> QED
      BY <2>2, <3>1, <3>2, <3>3, <3>4, <3>5, <3>6, <3>7, <3>8, <3>9, Zenon DEF Takes
  <2> QED  BY <2>3, Zenon
<1> QED  BY <1>1, <1>2, <1>3, <1>4, <1>5, <1>6, Zenon DEF Next, Local

\* A context closed by its last alert writes nothing, unless a client whose call is
\* still shaking hands obeys a HelloRequest.
LEMMA Hushed ==
    ASSUME Inv, IsSeq(out), sentFatalAlert = TRUE, state \in Closed, Next
    PROVE  \/ UNCHANGED out /\ state' \in Closed
           \/ ~Over /\ Client /\ \E offer : StartHandshake(offer)
<1>0. \A v, a : out \o AlertOut(v, a) = out
  <2>1. \A v, a : AlertOut(v, a) = <<>>
    BY DEF AlertOut
  <2>2. out \o <<>> = out
    BY DEF IsSeq
  <2> QED  BY <2>1, <2>2, Zenon
<1>a. ASSUME NEW v, NEW a, Fatal(v, a) PROVE UNCHANGED out /\ state' \in Closed
  BY <1>0, <1>a, Zenon DEF Fatal, Closed
<1>1. CASE \E c \in {"handshake", "read", "write"} : Call(c)
  BY <1>1, Zenon DEF Call
<1>2. CASE WouldBlock \/ SignalServerAuth \/ HandshakeDone
  BY <1>2, Zenon DEF WouldBlock, SignalServerAuth, HandshakeDone
<1>3. CASE Write
  <2>1. call = "write" /\ ~Handshaking
    BY <1>3, Zenon DEF Write
  <2> QED  BY <2>1, Zenon DEF Inv, ClosedInv, Closed
<1>4. CASE Close
  BY <1>0, <1>4, Zenon DEF Close, Closed
<1>5. CASE InitConnection \/ ContinueHandshake
  BY <1>5, Zenon DEF InitConnection, ContinueHandshake, Closed
<1>6. CASE Disconnect
  BY <1>a, <1>6, Zenon DEF Disconnect, Closed
<1>7. CASE PeerSends
  <2>1. PICK m : \E last \in BOOLEAN : Takes(m, last)
    BY <1>7, PeerSteps, Zenon
  <2>2. PICK last \in BOOLEAN : Takes(m, last)
    BY <2>1, Zenon
  <2>3. ~Over
    BY <1>7, PeerSteps, ReadsOpen, Zenon DEF Inv
  <2>4. CASE Refuse("failure") \/ BadMessage(m)
    BY <1>a, <2>4, Zenon DEF Refuse, BadMessage
  <2>5. CASE HelloRequest(m, last)
    BY <2>3, <2>5, Zenon DEF HelloRequest
  <2>6. CASE Unanswered(m)
    BY <2>6, Zenon DEF Unanswered, Shut, Closed
  <2>7. CASE ClientHelloResume(m, last) \/ ClientHelloFull(m, last) \/ ServerHello(m, last)
    BY <2>7, Zenon DEF ClientHelloResume, ClientHelloFull, ServerHello, Closed
  <2>8. CASE \/ Certificate(m, last) \/ CertRequest(m, last) \/ ServerKeyExchange(m, last)
             \/ ServerHelloDone(m, last)
    BY <2>8, Zenon DEF Certificate, CertRequest, ServerKeyExchange, ServerHelloDone, Closed
  <2>9. CASE CertVerify(m, last) \/ ClientKeyExchange(m, last) \/ Finished(m, last)
    BY <2>9, Zenon DEF CertVerify, ClientKeyExchange, Finished, Closed
  <2>10. CASE ChangeCipherSpec(m)
    BY <2>4, <2>10, Zenon DEF ChangeCipherSpec, Closed
  <2>11. CASE CloseNotify(m)
    BY <1>0, <2>11, Zenon DEF CloseNotify, Closed
  <2>12. CASE ErrorAlert(m) \/ Warning(m) \/ AppData(m)
    BY <2>12, Zenon DEF ErrorAlert, Warning, AppData, Shut, Closed
  <2> QED
    BY <2>2, <2>4, <2>5, <2>6, <2>7, <2>8, <2>9, <2>10, <2>11, <2>12, Zenon DEF Takes
<1> QED  BY <1>1, <1>2, <1>3, <1>4, <1>5, <1>6, <1>7, Zenon DEF Next, Local

\* A handshake starts with one record, a ClientHello.
LEMMA StartOut ==
    ASSUME IsSeq(out), NEW offer, StartHandshake(offer)
    PROVE  /\ Len(out) \in Nat /\ Len(out') = Len(out) + 1
           /\ \A i \in 1 .. Len(out) : out'[i] = out[i]
           /\ out'[Len(out) + 1].msg.type = "clientHello"
<1> DEFINE m == EncodeClientHello(offer)
           s == Sent(writeKeys, <<m>>)
           o == out \o s
<1>1. IsSeq(s) /\ Len(s) = 1 /\ s[1] = [keys |-> writeKeys, msg |-> m]
  BY SingleSeq, SentSeq
<1>2. m.type = "clientHello" /\ out' = o
  BY Zenon DEF EncodeClientHello, Msg, StartHandshake
<1> HIDE DEF m, s
<1>3. Len(out) \in Nat /\ Len(o) = Len(out) + 1 /\ o[Len(out) + 1] = s[1]
      /\ \A i \in 1 .. Len(out) : o[i] = out[i]
  <2>1. 1 \in 1 .. Len(s)
    BY <1>1
  <2>2. IsSeq(out) /\ IsSeq(s)
    BY <1>1, Zenon
  <2>3. /\ Len(out) \in Nat /\ Len(o) = Len(out) + Len(s)
        /\ \A i \in 1 .. Len(out) : o[i] = out[i]
        /\ \A i \in 1 .. Len(s) : o[Len(out) + i] = s[i]
    BY ONLY <2>2, ConcatSeq DEF o
  <2> QED
    BY <1>1, <2>1, <2>3, Zenon
<1> HIDE DEF o
<1>4. o[Len(out) + 1].msg.type = "clientHello"
  BY <1>1, <1>2, <1>3
<1> QED
  BY <1>2, <1>3, <1>4, Zenon

\* A record that closes the context goes on doing so.
LEMMA ClosesKept ==
    ASSUME Inv, OutInv, Next, NEW s, Addition(s),
           NEW i \in 1 .. Len(out), Closing(out[i].msg)
    PROVE  Closes(i)'
<1>1. IsSeq(out) /\ IsSeq(s) /\ out' = out \o s /\ Closes(i)
  BY Zenon DEF OutInv, Addition
<1>2. /\ Len(out) \in Nat /\ Len(s) \in Nat /\ Len(out') = Len(out) + Len(s)
      /\ \A j \in 1 .. Len(out) : out'[j] = out[j]
      /\ \A j \in 1 .. Len(out') :
            j \in 1 .. Len(out) \/ (j - Len(out) \in 1 .. Len(s) /\ out'[j] = s[j - Len(out)])
  BY <1>1, ConcatSeq, Zenon
<1>3. sentFatalAlert = TRUE /\ sentFatalAlert' = TRUE
  BY <1>1, AlertStep, Zenon DEF Closes
<1>4. \A j \in i+1 .. Len(out') : out'[j].msg.type # "alert"
  <2> SUFFICES ASSUME NEW j \in i+1 .. Len(out') PROVE out'[j].msg.type # "alert"
    BY Zenon
  <2>1. j \in 1 .. Len(out') /\ (j \in 1 .. Len(out) => j \in i+1 .. Len(out))
    BY <1>2
  <2>2. CASE j \in 1 .. Len(out)
    BY <1>1, <1>2, <2>1, <2>2, Zenon DEF Closes
  <2>3. CASE j - Len(out) \in 1 .. Len(s) /\ out'[j] = s[j - Len(out)]
    BY <1>3, <2>3, Zenon DEF Addition
  <2> QED  BY <1>2, <2>1, <2>2, <2>3, Zenon
<1>5. CASE i < Len(out)
  <2>1. out[i].msg.body = "closeNotify" /\ out[i + 1].msg.type = "clientHello"
    BY <1>1, <1>2, <1>5 DEF Closes
  <2>2. i + 1 \in 1 .. Len(out) /\ i < Len(out')
    BY <1>2, <1>5
  <2>3. out'[i] = out[i] /\ out'[i + 1] = out[i + 1]
    BY <1>2, <2>2, Zenon
  <2> QED  BY <1>3, <1>4, <2>1, <2>2, <2>3, Zenon DEF Closes
<1>6. CASE i = Len(out)
  <2>1. state \in Closed /\ (out[i].msg.body = "closeNotify" \/ Over)
    BY <1>1, <1>2, <1>6 DEF Closes
  <2>2. CASE UNCHANGED out /\ state' \in Closed
    <3>1. Over => Over'
      BY ClosedStep, Zenon DEF Inv
    <3>2. i = Len(out') /\ out'[i] = out[i]
      BY <1>6, <2>2, Zenon
    <3> QED  BY <1>3, <1>4, <2>1, <2>2, <3>1, <3>2, Zenon DEF Closes
  <2>3. CASE ~Over /\ \E offer : StartHandshake(offer)
    <3>1. PICK offer : StartHandshake(offer)
      BY <2>3, Zenon
    <3>2. Len(out') = Len(out) + 1 /\ out'[Len(out) + 1].msg.type = "clientHello"
      BY <1>1, <3>1, StartOut, Zenon
    <3>3. i < Len(out') /\ out'[i + 1].msg.type = "clientHello" /\ out'[i] = out[i]
      BY <1>2, <1>6, <3>2
    <3> QED  BY <1>3, <1>4, <2>1, <2>3, <3>3, Zenon DEF Closes
  <2> QED  BY <1>1, <1>3, <2>1, <2>2, <2>3, Hushed, Zenon
<1> QED  BY <1>2, <1>5, <1>6

\* Every step keeps the output in order.
LEMMA OutStep == ASSUME Inv, TypeOK, OutInv, Next PROVE OutInv'
<1>1. PICK s : Addition(s)
  BY NextAdds, Zenon DEF Adds
<1>2. IsSeq(out) /\ IsSeq(s) /\ out' = out \o s
  BY <1>1, Zenon DEF OutInv, Addition
<1>3. /\ IsSeq(out') /\ Len(out) \in Nat /\ Len(s) \in Nat /\ Len(out') = Len(out) + Len(s)
      /\ \A i \in 1 .. Len(out) : out'[i] = out[i]
      /\ \A i \in 1 .. Len(out') :
            i \in 1 .. Len(out) \/ (i - Len(out) \in 1 .. Len(s) /\ out'[i] = s[i - Len(out)])
  BY <1>2, ConcatSeq, Zenon
<1>4. DataProtected'
  <2> SUFFICES ASSUME NEW i \in 1 .. Len(out'), out'[i].msg.type = "data"
               PROVE out'[i].keys # NoKeys
    BY Zenon DEF DataProtected
  <2>1. CASE i \in 1 .. Len(out)
    BY <1>3, <2>1, Zenon DEF OutInv, DataProtected
  <2>2. CASE i - Len(out) \in 1 .. Len(s) /\ out'[i] = s[i - Len(out)]
    BY <1>1, <2>2, Zenon DEF Addition
  <2> QED  BY <1>3, <2>1, <2>2, Zenon
<1>5. (Server /\ sentFatalAlert = TRUE => state \in Closed)'
  <2> SUFFICES ASSUME Server', sentFatalAlert' = TRUE, state' \notin Closed PROVE FALSE
    BY Zenon
  <2>1. sentFatalAlert = TRUE
    BY AlertStep, Zenon
  <2>2. cfg' = cfg
    BY AlertStep, Zenon
  <2>3. Server /\ ~Client
    BY <2>2 DEF Server, Client
  <2>4. state \in Closed
    BY <2>1, <2>3, Zenon DEF OutInv
  <2> QED  BY <1>2, <2>1, <2>3, <2>4, Hushed, Zenon
<1>6. ASSUME NEW i \in 1 .. Len(out'), Closing(out'[i].msg)
      PROVE  Closes(i)'
  <2>1. CASE i \in 1 .. Len(out)
    <3>1. Closing(out[i].msg)
      BY <1>3, <1>6, <2>1, Zenon
    <3> QED  BY <1>1, <2>1, <3>1, ClosesKept, Zenon
  <2>2. CASE i - Len(out) \in 1 .. Len(s) /\ out'[i] = s[i - Len(out)]
    <3>1. i - Len(out) = Len(s) /\ Ends(out'[i].msg.body)
      BY <1>1, <1>6, <2>2, Zenon DEF Addition
    <3>2. i = Len(out') /\ \A j \in i+1 .. Len(out') : FALSE
      BY <1>3, <3>1
    <3> QED  BY <3>1, <3>2, Zenon DEF Ends, Closes
  <2> QED  BY <1>3, <2>1, <2>2, Zenon
<1> QED
  BY <1>3, <1>4, <1>5, <1>6, Zenon DEF OutInv

\* A new context has written nothing.
LEMMA OutInit == Init => OutInv
<1> SUFFICES ASSUME Init PROVE OutInv
  BY Zenon
<1>1. out = <<>> /\ state = "Uninit" /\ sentFatalAlert = FALSE
  BY Zenon DEF Init
<1> QED
  BY <1>1, EmptySeq DEF OutInv, DataProtected

\* The output of a context is in order in every state: data under keys, no alert after
\* one that closes the context.
THEOREM OutputInvariant == Spec => []OutInv
<1>1. Inv /\ TypeOK /\ OutInv /\ [Next]_vars => OutInv'
  <2>1. ASSUME OutInv, UNCHANGED vars PROVE OutInv'
    <3>1. UNCHANGED <<cfg, out, state, call, sentFatalAlert>>
      BY <2>1, Zenon DEF vars
    <3>2. Over' = Over /\ DataProtected' = DataProtected /\ Server' = Server
      BY <3>1, Zenon DEF Over, DataProtected, Server
    <3>3. IsSeq(out')
      BY <2>1, <3>1, Zenon DEF OutInv
    <3>4. \A i : Closes(i)' = Closes(i)
      BY <3>1, <3>2, Zenon DEF Closes
    <3> QED  BY <2>1, <3>1, <3>2, <3>3, <3>4, Zenon DEF OutInv
  <2> QED  BY <2>1, OutStep, Zenon
<1> QED
  BY <1>1, OutInit, Invariant, TypeCorrect, PTL DEF Spec

\* SSLWrite and the handshake never queue data under the null cipher.
THEOREM DataUnderKeys == Spec => []DataProtected
<1>1. OutInv => DataProtected
  BY Zenon DEF OutInv
<1> QED  BY <1>1, OutputInvariant, PTL

\* A fatal alert is the last record; no alert follows a close_notify, and only a
\* client's new handshake may (SSLSendAlert and sentFatalAlert; SSLProcessAlert's
\* SSLClose, after which SSLHandshake's loop goes on).
THEOREM SilenceAfterClose == Spec => []SilentAfterClose
<1>1. OutInv => SilentAfterClose
  <2> SUFFICES ASSUME OutInv, NEW i \in 1 .. Len(out), Closing(out[i].msg)
               PROVE  /\ \A j \in i+1 .. Len(out) : out[j].msg.type # "alert"
                      /\ i < Len(out) => /\ out[i].msg.body = "closeNotify"
                                         /\ out[i + 1].msg.type = "clientHello"
    BY Zenon DEF SilentAfterClose
  <2>1. Closes(i)
    BY Zenon DEF OutInv
  <2>2. ~(i = Len(out) /\ i < Len(out))
    BY SeqIsSeq DEF OutInv, IsSeq
  <2> QED  BY <2>1, <2>2, Zenon DEF Closes
<1> QED  BY <1>1, OutputInvariant, PTL

----------------------------------------------------------------------------
(* The resumed session is the one the ServerHello named. *)

\* At most one record holds a ClientHello, and some record does.
OneHello(s) ==
    \A i, j \in 1 .. Len(s) :
        s[i].msg.type = "clientHello" /\ s[j].msg.type = "clientHello" => i = j
HelloSent == \E i \in 1 .. Len(out) : out[i].msg.type = "clientHello"

Named(id) == \E i \in 1 .. Len(hash) : hash[i] = Msg("serverHello", id)

\* The transcript grows at its end.
Grows ==
    /\ IsSeq(hash')
    /\ \A i \in 1 .. Len(hash) : i \in 1 .. Len(hash') /\ hash'[i] = hash[i]

\* A client has said hello once it has left Uninit; up to the first ServerHello it
\* has no session ID and resumes nothing, and then what it resumes was named.
AgreedInv ==
    /\ IsSeq(hash)
    /\ state = "Uninit" => inRecord = FALSE
    /\ Client => state # "ServerUninit"
    /\ Client /\ state # "Uninit" /\ ~Over => HelloSent
    /\ Client /\ OneHello(out) /\ state \in {"Uninit", "ServerHello"} =>
          sessionID = NoID /\ resumed = FALSE
    /\ Client /\ OneHello(out) /\ state \notin Closed /\ resumed = TRUE => Named(resumable.id)

\* A context that is open after its last alert is a client that has said hello again.
Twice == Client /\ sentFatalAlert = TRUE /\ state \notin Closed => ~OneHello(out)

\* A step that hashes nothing.
LEMMA SameHash == ASSUME IsSeq(hash), UNCHANGED hash PROVE Grows
<1>1. IsSeq(hash')
  BY Zenon
<1> QED
  BY <1>1, Zenon DEF Grows

\* A step that hashes a flight.
LEMMA LongerHash ==
    ASSUME NEW t, IsSeq(hash), IsSeq(t), hash' = hash \o t
    PROVE  Grows
<1>1. IsSeq(hash \o t) /\ Len(hash) \in Nat /\ Len(t) \in Nat /\ Len(hash \o t) = Len(hash) + Len(t)
      /\ \A i \in 1 .. Len(hash) : (hash \o t)[i] = hash[i]
  BY ConcatSeq, Zenon
<1>2. IsSeq(hash')
  BY <1>1, Zenon
<1> QED
  BY <1>1, <1>2 DEF Grows

\* Appending is concatenation.
LEMMA AppendIsConcat ==
    ASSUME NEW h, NEW m, IsSeq(h)
    PROVE  Append(h, m) = h \o <<m>> /\ IsSeq(Append(h, m))
  BY AppendConcat, AppendSeq, Zenon

\* A step that hashes a message.
LEMMA AppendGrows == ASSUME NEW m, IsSeq(hash), hash' = Append(hash, m) PROVE Grows
<1>1. Append(hash, m) = hash \o <<m>> /\ IsSeq(<<m>>)
  BY AppendIsConcat, SingleSeq, Zenon
<1> QED
  BY <1>1, LongerHash, Zenon

\* Later output holds what was written before.
LEMMA HelloStays ==
    ASSUME IsSeq(out), NEW s, IsSeq(s), out' = out \o s
    PROVE  /\ HelloSent => HelloSent'
           /\ OneHello(out') => OneHello(out)
<1> DEFINE o == out \o s
<1>1. Len(out) \in Nat /\ Len(s) \in Nat /\ Len(o) = Len(out) + Len(s)
      /\ \A i \in 1 .. Len(out) : o[i] = out[i]
  BY ConcatSeq, Zenon
<1>2. out' = o
  BY Zenon
<1> HIDE DEF o
<1>3. \A i \in 1 .. Len(out) : i \in 1 .. Len(o)
  BY <1>1
<1>4. HelloSent => HelloSent'
  BY <1>1, <1>2, <1>3, Zenon DEF HelloSent
<1>5. OneHello(o) => OneHello(out)
  BY <1>1, <1>3, Zenon DEF OneHello
<1> QED
  BY <1>2, <1>4, <1>5, Zenon

\* A new ClientHello after another.
LEMMA StartSays ==
    ASSUME IsSeq(out), NEW offer, StartHandshake(offer)
    PROVE  HelloSent' /\ (HelloSent => ~OneHello(out')) /\ IsSeq(hash')
<1>1. /\ Len(out) \in Nat /\ Len(out') = Len(out) + 1
      /\ \A i \in 1 .. Len(out) : out'[i] = out[i]
      /\ out'[Len(out) + 1].msg.type = "clientHello"
  BY StartOut, Zenon
<1>2. Len(out) + 1 \in 1 .. Len(out')
  BY <1>1
<1>3. IsSeq(hash')
  BY SingleSeq, Zenon DEF StartHandshake
<1>4. HelloSent'
  BY <1>1, <1>2, Zenon DEF HelloSent
<1>5. ASSUME HelloSent PROVE ~OneHello(out')
  <2>1. PICK i \in 1 .. Len(out) : out[i].msg.type = "clientHello"
    BY <1>5, Zenon DEF HelloSent
  <2>2. i \in 1 .. Len(out') /\ out'[i].msg.type = "clientHello" /\ i # Len(out) + 1
    BY <1>1, <2>1
  <2> QED
    BY <1>1, <1>2, <2>2, Zenon DEF OneHello
<1> QED
  BY <1>3, <1>4, <1>5, Zenon

\* The client's flight is hashed.
LEMMA FlightGrows ==
    ASSUME NEW h, IsSeq(hash), h = hash \/ (\E m : h = Append(hash, m)), ClientFlight(h)
    PROVE  Grows
<1> DEFINE asked == clientCertState = "Requested"
           sendCert == asked /\ (version # "SSL3" \/ (cfg.cert # NoCert /\ negAuthType # "None"))
           sendSigned == sendCert /\ cfg.cert # NoCert
           hashed(secret) == Opt(sendCert, Msg("cert", cfg.cert))
                             \o <<Msg("clientKeyExchange", secret)>>
                             \o Opt((certSent \/ sendSigned) /\ negAuthType = "Sign",
                                    Msg("certVerify", "ok"))
           fin == <<Msg("finished", "ok")>>
<1>1. PICK secret \in Secrets : hash' = h \o hashed(secret) \o fin
  BY Zenon DEF ClientFlight
<1>2. IsSeq(hashed(secret)) /\ IsSeq(fin)
  <2>1. Mute(Opt(sendCert, Msg("cert", cfg.cert)))
    BY MuteSingle, MuteOpt, Zenon
  <2>2. Mute(Opt((certSent \/ sendSigned) /\ negAuthType = "Sign", Msg("certVerify", "ok")))
    BY MuteSingle, MuteOpt, Zenon
  <2>3. Mute(<<Msg("clientKeyExchange", secret)>>)
    BY MuteSingle, Zenon
  <2>4. Mute(hashed(secret))
    BY <2>1, <2>2, <2>3, MuteConcat, Zenon
  <2> QED
    BY <2>4, SingleSeq, Zenon DEF Mute
<1> HIDE DEF hashed, fin
<1> DEFINE g == h \o hashed(secret)
<1>3. IsSeq(h) /\ Len(hash) \in Nat
      /\ \A i \in 1 .. Len(hash) : i \in 1 .. Len(h) /\ h[i] = hash[i]
  <2>1. CASE h = hash
    BY <2>1 DEF IsSeq
  <2>2. CASE \E m : h = Append(hash, m)
    <3>1. PICK m : h = hash \o <<m>>
      BY <2>2, AppendIsConcat, Zenon
    <3>2. /\ IsSeq(hash \o <<m>>) /\ Len(hash) \in Nat /\ Len(hash \o <<m>>) = Len(hash) + 1
          /\ \A i \in 1 .. Len(hash) : (hash \o <<m>>)[i] = hash[i]
      BY SingleSeq, ConcatSeq
    <3> QED
      BY <3>1, <3>2
  <2> QED
    BY <2>1, <2>2, Zenon
<1>4. IsSeq(g) /\ Len(h) \in Nat /\ Len(g) \in Nat /\ Len(g) >= Len(h) /\ \A i \in 1 .. Len(h) : g[i] = h[i]
  BY <1>2, <1>3, ConcatSeq
<1>5. hash' = g \o fin
  BY <1>1, Zenon
<1> HIDE DEF g
<1> DEFINE f == g \o fin
<1>6. IsSeq(f) /\ Len(f) \in Nat /\ Len(f) >= Len(g) /\ \A i \in 1 .. Len(g) : f[i] = g[i]
  BY <1>2, <1>4, ConcatSeq
<1> HIDE DEF f
<1>7. hash' = f
  BY <1>5, Zenon DEF f
<1>8. \A i \in 1 .. Len(hash) : i \in 1 .. Len(f) /\ f[i] = hash[i]
  BY <1>3, <1>4, <1>6
<1> QED
  BY <1>6, <1>7, <1>8, Zenon DEF Grows

\* A step that goes on with the handshake, or ends it.
LEMMA AgreedFrame ==
    ASSUME AgreedInv, OutInv, Adds, Grows,
           UNCHANGED <<cfg, sessionID, resumable, resumed>>,
           state' = "Uninit" => inRecord' = FALSE,
           Over => Over',
           \/ state' = state
           \/ state' \in Closed /\ (state # "Uninit" \/ Over')
           \/ state \notin {"Uninit"} \cup Closed
              /\ state' \notin {"Uninit", "ServerHello", "ServerUninit"}
    PROVE  AgreedInv'
<1>1. (HelloSent => HelloSent') /\ (OneHello(out') => OneHello(out))
  BY HelloStays, Zenon DEF Adds, Addition, OutInv
<1>2. Client' = Client
  BY Zenon DEF Client
<1>3. Named(resumable.id) => Named(resumable.id)'
  BY Zenon DEF Grows, Named
<1>4. IsSeq(hash')
  BY Zenon DEF Grows
<1>5. (Client => state # "ServerUninit")'
  BY <1>2, Zenon DEF AgreedInv, Closed
<1>6. (Client /\ state # "Uninit" /\ ~Over => HelloSent)'
  BY <1>1, <1>2, Zenon DEF AgreedInv, Closed
<1>7. (Client /\ OneHello(out) /\ state \in {"Uninit", "ServerHello"} =>
          sessionID = NoID /\ resumed = FALSE)'
  BY <1>1, <1>2, Zenon DEF AgreedInv, Closed
<1>8. (Client /\ OneHello(out) /\ state \notin Closed /\ resumed = TRUE => Named(resumable.id))'
  BY <1>1, <1>2, <1>3, Zenon DEF AgreedInv, Closed
<1> QED
  BY <1>4, <1>5, <1>6, <1>7, <1>8, Zenon DEF AgreedInv

\* A ServerHello names the session that it resumes.
LEMMA AgreedServerHello ==
    ASSUME AgreedInv, NEW m, Typed(m), NEW last \in BOOLEAN,
           m.type = "serverHello", ServerHello(m, last)
    PROVE  AgreedInv'
<1>1. m = Msg("serverHello", m.body)
  BY Zenon DEF Typed
<1>2. hash' = Append(hash, m) /\ UNCHANGED <<cfg, out, resumable>> /\ state = "ServerHello"
  BY Zenon DEF ServerHello, Processed, Hashed
<1>3. Grows /\ IsSeq(hash)
  BY <1>2, AppendGrows, Zenon DEF AgreedInv
<1>4. state' \in {"ChangeCipherSpec", "KeyExchange", "Cert"}
  BY Zenon DEF ServerHello
<1>5. Client' = Client /\ HelloSent' = HelloSent /\ OneHello(out') = OneHello(out)
  BY <1>2, Zenon DEF Client, HelloSent, OneHello
<1>6. ASSUME Client, OneHello(out), resumed' = TRUE PROVE Named(resumable.id)'
  <2>1. sessionID = NoID
    BY <1>2, <1>6, ZenonT(40) DEF AgreedInv
  <2>2. Resumes(KeptID(m.body))
    BY <1>6, Zenon DEF ServerHello
  <2>3. resumable.id = m.body
    BY <2>1, <2>2, Zenon DEF Resumes, KeptID
  <2>4. hash' = hash \o <<m>>
    BY <1>2, <1>3, AppendIsConcat, ZenonT(40)
  <2> DEFINE h == hash \o <<m>>
  <2>5. Len(<<m>>) = 1 /\ 1 \in 1 .. Len(<<m>>) /\ <<m>>[1] = m /\ IsSeq(<<m>>)
    BY SingleSeq
  <2>6. Len(hash) \in Nat /\ Len(h) = Len(hash) + Len(<<m>>)
        /\ \A i \in 1 .. Len(<<m>>) : h[Len(hash) + i] = <<m>>[i]
    BY <1>3, <2>5, ConcatSeq, SMTT(30)
  <2> HIDE DEF h
  <2>7. Len(hash) + 1 \in 1 .. Len(h) /\ h[Len(hash) + 1] = m
    BY <2>5, <2>6
  <2>8. hash' = h
    BY <2>4, Zenon DEF h
  <2> QED
    BY <1>1, <1>2, <2>3, <2>7, <2>8, ZenonT(40) DEF Named
<1>7. IsSeq(hash')
  BY <1>3, Zenon DEF Grows
<1>8. HelloSent' \/ ~Client
  BY <1>2, <1>5, Zenon DEF AgreedInv, Over, Closed
<1> QED
  BY <1>4, <1>5, <1>6, <1>7, <1>8, Zenon DEF AgreedInv

\* A HelloRequest starts another handshake.
LEMMA AgreedStart ==
    ASSUME AgreedInv, OutInv, NEW offer, StartHandshake(offer), Client, UNCHANGED cfg,
           \/ HelloSent
           \/ state = "Uninit" /\ UNCHANGED <<sessionID, resumed>>
    PROVE  AgreedInv'
<1>1. HelloSent' /\ (HelloSent => ~OneHello(out')) /\ IsSeq(hash')
  BY StartSays, Zenon DEF OutInv
<1>2. state' = "ServerHello"
  BY Zenon DEF StartHandshake
<1>3. OneHello(out') => OneHello(out)
  <2>1. Mute(<<EncodeClientHello(offer)>>)
    BY MuteSingle, Zenon DEF EncodeClientHello
  <2>2. IsSeq(Sent(writeKeys, <<EncodeClientHello(offer)>>))
    BY <2>1, MuteSent, Zenon DEF MuteRecords
  <2> QED
    BY <2>2, HelloStays, Zenon DEF StartHandshake, OutInv
<1>4. OneHello(out') => sessionID' = NoID /\ resumed' = FALSE
  BY <1>1, <1>3, Zenon DEF AgreedInv
<1> QED
  BY <1>1, <1>2, <1>4, Zenon DEF AgreedInv

\* Every step of the API keeps the agreement.
LEMMA AgreedLocal ==
    ASSUME Inv, TypeOK, OutInv, AgreedInv, Local \/ Disconnect
    PROVE  AgreedInv'
<1>0. Adds /\ IsSeq(hash) /\ (Over => Over')
  BY LocalAdds, ClosedLocal, ZenonT(40) DEF AgreedInv, Inv
<1>1. CASE \E c \in {"handshake", "read", "write"} : Call(c)
  <2>1. Grows
    BY <1>0, <1>1, SameHash, Zenon DEF Call
  <2> QED
    BY <1>0, <1>1, <2>1, AgreedFrame, ZenonT(40) DEF Call, AgreedInv
<1>2. CASE WouldBlock \/ SignalServerAuth \/ HandshakeDone \/ Write \/ Close
  <2>1. UNCHANGED <<cfg, sessionID, resumable, resumed, hash, inRecord>>
        /\ (state' = state \/ (state' = "GracefulClose" /\ call' = "none"))
    BY <1>2, Zenon DEF WouldBlock, SignalServerAuth, HandshakeDone, Write, Close
  <2>2. Grows
    BY <1>0, <2>1, SameHash, ZenonT(40)
  <2> QED
    BY <1>0, <2>1, <2>2, AgreedFrame, Zenon DEF AgreedInv, Closed, Over
<1>3. CASE InitConnection
  <2>1. state = "Uninit" /\ UNCHANGED <<cfg, sessionID, resumed>>
    BY <1>3, Zenon DEF InitConnection
  <2>2. CASE Client /\ StartHandshake(Offer)
    BY <2>1, <2>2, AgreedStart, Zenon
  <2>3. CASE Server /\ state' = "ServerUninit" /\ UNCHANGED hash
    <3>1. ~Client' /\ IsSeq(hash')
      BY <1>0, <2>1, <2>3, Zenon DEF Client, Server
    <3> QED
      BY <2>3, <3>1, Zenon DEF AgreedInv
  <2> QED
    BY <1>3, <2>2, <2>3, Zenon DEF InitConnection
<1>4. CASE ContinueHandshake
  <2>1. ClientFlight(hash) /\ state = "ClientCert" /\ UNCHANGED <<cfg, sessionID, resumable, resumed>>
    BY <1>4, Zenon DEF ContinueHandshake
  <2>2. state' = "ChangeCipherSpec"
    BY <2>1, Zenon DEF ClientFlight
  <2>3. Grows
    BY <1>0, <2>1, FlightGrows, Zenon
  <2> QED
    BY <1>0, <2>1, <2>2, <2>3, AgreedFrame, Zenon DEF Closed
<1>5. CASE Disconnect
  <2>1. UNCHANGED <<cfg, sessionID, resumable, resumed, hash>> /\ state' \in Closed /\ call' = "none"
    BY <1>5, Zenon DEF Disconnect, Fatal, Return, Closed
  <2>2. Grows
    BY <1>0, <2>1, SameHash, Zenon
  <2> QED
    BY <1>0, <2>1, <2>2, AgreedFrame, Zenon DEF Closed, Over
<1> QED
  BY <1>1, <1>2, <1>3, <1>4, <1>5, ZenonT(40) DEF Local

\* So does every message.
LEMMA AgreedMessage ==
    ASSUME OutInv, AgreedInv, Twice, Adds, state # "Uninit", ~Over,
           NEW m, Typed(m), NEW last \in BOOLEAN, Takes(m, last)
    PROVE  AgreedInv'
<1>h. CASE HelloRequest(m, last)
  <2>1. Client /\ HelloSent /\ UNCHANGED cfg /\ StartHandshake(resumable)
    BY <1>h, Zenon DEF HelloRequest, AgreedInv
  <2> QED
    BY <2>1, AgreedStart, Zenon
<1> SUFFICES ASSUME ~HelloRequest(m, last) PROVE AgreedInv'
  BY <1>h, Zenon
<1> DEFINE Frame == UNCHANGED <<cfg, sessionID, resumable, resumed>>
           Goes == \/ state' = state \/ state' \in Closed
                   \/ state' \notin {"Uninit", "ServerHello", "ServerUninit"}
<1>0. IsSeq(hash)
  BY Zenon DEF AgreedInv
<1>a. ASSUME Frame, Goes, Grows PROVE AgreedInv'
  <2>1. state' # "Uninit"
    BY <1>a, Zenon DEF Closed
  <2>2. state \notin Closed \/ state' \in Closed \/ state' = state
    BY <1>a, ClosedKept, Zenon
  <2> QED
    BY <1>a, <2>1, <2>2, AgreedFrame, ZenonT(40)
<1>b. ASSUME NEW x, hash' = Append(hash, x) PROVE Grows
  BY <1>0, <1>b, AppendGrows, Zenon
<1>c. ASSUME UNCHANGED hash PROVE Grows
  BY <1>0, <1>c, SameHash, Zenon
<1>1. CASE Refuse("failure") \/ BadMessage(m)
  BY <1>1, <1>a, <1>c, Zenon DEF Refuse, BadMessage, Fatal, Closed
<1>2. CASE Unanswered(m)
  <2>1. /\ UNCHANGED <<cfg, hash, out, resumable, resumed>>
        /\ sentFatalAlert /\ Client /\ state' \in {state, "ErrorClose"}
    BY <1>2, Zenon DEF Unanswered, Shut
  <2>2. /\ Client' = Client /\ HelloSent' = HelloSent /\ OneHello(out') = OneHello(out)
        /\ Named(resumable.id)' = Named(resumable.id) /\ IsSeq(hash')
    BY <1>0, <2>1, Zenon DEF Client, HelloSent, OneHello, Named
  <2>3. state' \in Closed \/ ~OneHello(out)
    BY <2>1, ZenonT(40) DEF Twice, Closed
  <2> QED
    BY <2>1, <2>2, <2>3, ZenonT(40) DEF AgreedInv, Closed
<1>3. CASE ClientHelloResume(m, last) \/ ClientHelloFull(m, last)
  <2>1. state = "ServerUninit" /\ UNCHANGED cfg
    BY <1>3, Zenon DEF ClientHelloResume, ClientHelloFull
  <2>2. ~Client'
    BY <2>1, ZenonT(40) DEF AgreedInv, Client
  <2>3. state' # "Uninit"
    BY <1>3, <2>1, Zenon DEF ClientHelloResume, ClientHelloFull, Shut
  <2>4. IsSeq(hash')
    <3>1. CASE ClientHelloResume(m, last)
      <4> DEFINE h == <<m, Msg("serverHello", KeptID(m.body))>>
      <4>1. hash' = Append(h, Msg("finished", "ok"))
        BY <3>1, Zenon DEF ClientHelloResume
      <4>2. h \in Seq({m, Msg("serverHello", KeptID(m.body))})
        OBVIOUS
      <4> HIDE DEF h
      <4>3. IsSeq(h)
        BY <4>2, SeqIsSeq, Zenon
      <4> QED
        BY <4>1, <4>3, AppendIsConcat, Zenon
    <3>2. CASE ClientHelloFull(m, last)
      <4> DEFINE anon == cfg.kx = "anon"
                 ask == cfg.auth # "never" /\ ~anon
                 hello(id) == Msg("serverHello", id)
                 flight(id) == <<hello(id)>>
                    \o Opt(~anon, Msg("cert", cfg.cert))
                    \o Opt(DoServerKeyExch, Msg("serverKeyExchange", "ok"))
                    \o Opt(ask, Msg("certRequest", IF cfg.version = "TLS12" THEN Bad ELSE "match"))
                    \o <<Msg("serverHelloDone", "ok")>>
      <4>1. PICK id \in IDs : hash' = <<m, hello(id)>> \/ hash' = <<m>> \o flight(id)
        BY <3>2, ZenonT(40) DEF ClientHelloFull
      <4>2. Mute(flight(id))
        <5>1. Mute(Opt(~anon, Msg("cert", cfg.cert)))
          BY MuteSingle, MuteOpt, Zenon
        <5>2. Mute(Opt(DoServerKeyExch, Msg("serverKeyExchange", "ok")))
          BY MuteSingle, MuteOpt, Zenon
        <5>3. Mute(Opt(ask, Msg("certRequest", IF cfg.version = "TLS12" THEN Bad ELSE "match")))
          BY MuteSingle, MuteOpt, ZenonT(40)
        <5>4. Mute(<<Msg("serverHelloDone", "ok")>>) /\ Mute(<<hello(id)>>)
          BY MuteSingle, Zenon
        <5> QED
          BY <5>1, <5>2, <5>3, <5>4, MuteConcat, ZenonT(40)
      <4> HIDE DEF flight
      <4>3. IsSeq(<<m>> \o flight(id))
        BY <4>2, SingleSeq, ConcatSeq, Zenon DEF Mute
      <4>4. IsSeq(<<m, hello(id)>>)
        <5>1. <<m, hello(id)>> \in Seq({m, hello(id)})
          OBVIOUS
        <5> QED
          BY <5>1, SeqIsSeq, ZenonT(40)
      <4> QED
        BY <4>1, <4>3, <4>4, Zenon
    <3> QED
      BY <1>3, <3>1, <3>2, Zenon
  <2> QED
    BY <2>2, <2>3, <2>4, ZenonT(40) DEF AgreedInv
<1>4. CASE m.type = "serverHello" /\ ServerHello(m, last)
  BY <1>4, AgreedServerHello, Zenon
<1>5. CASE ServerKeyExchange(m, last) \/ CertVerify(m, last) \/ ClientKeyExchange(m, last)
  <2>1. Frame /\ hash' = Append(hash, Hashed(m))
    BY <1>5, Zenon DEF ServerKeyExchange, CertVerify, ClientKeyExchange, Processed
  <2>2. state' \in {"HelloDone", "ChangeCipherSpec", "ClientCertVerify"}
    BY <1>5, Zenon DEF ServerKeyExchange, CertVerify, ClientKeyExchange, AfterKeyExchange
  <2> QED
    BY <2>1, <2>2, <1>a, <1>b, Zenon
<1>6. CASE Certificate(m, last)
  <2>1. Frame /\ (UNCHANGED hash \/ hash' = Append(hash, Hashed(m)))
    BY <1>6, ZenonT(40) DEF Certificate, Processed
  <2>2. state' \in {"ErrorClose", "ClientKeyExchange", "HelloDone", "KeyExchange"}
    BY <1>6, Zenon DEF Certificate, AfterCertificate, Fatal
  <2> QED
    BY <2>1, <2>2, <1>a, <1>b, <1>c, ZenonT(40)
<1>7. CASE CertRequest(m, last)
  <2>1. Frame /\ (hash' = Append(hash, m) \/ hash' = Append(hash, Hashed(m)))
    BY <1>7, ZenonT(40) DEF CertRequest, Processed
  <2>2. state' \in {"ErrorClose", state}
    BY <1>7, Zenon DEF CertRequest, Fatal
  <2> QED
    BY <2>1, <2>2, <1>a, <1>b, ZenonT(40)
<1>8. CASE ServerHelloDone(m, last)
  <2>1. Frame
    BY <1>8, ZenonT(40) DEF ServerHelloDone
  <2>a. ClientFlight(Append(hash, m)) \/ (hash' = Append(hash, m) /\ state' = "ClientCert")
    BY <1>8, Zenon DEF ServerHelloDone
  <2>2. CASE ClientFlight(Append(hash, m))
    <3>1. state' = "ChangeCipherSpec"
      BY <2>2, Zenon DEF ClientFlight
    <3>2. Grows
      BY <1>0, <2>2, FlightGrows, ZenonT(40)
    <3> QED
      BY <2>1, <3>1, <3>2, <1>a, ZenonT(40)
  <2> QED
    BY <2>1, <2>a, <2>2, <1>a, <1>b, ZenonT(40)
<1>9. CASE Finished(m, last)
  <2> DEFINE x == Hashed(m)
             f == Msg("finished", "ok")
  <2>1. Frame /\ state' \in Ready /\ hash' \in {Append(hash, x), Append(Append(hash, x), f)}
    BY <1>9, Zenon DEF Finished, Ready
  <2>2. Grows
    <3>1. CASE hash' = Append(hash, x)
      BY <3>1, <1>b, ZenonT(40)
    <3>2. CASE hash' = Append(Append(hash, x), f)
      <4> DEFINE t == <<x>> \o <<f>>
      <4>1. IsSeq(t)
        BY SingleSeq, ConcatSeq, Zenon
      <4>2. Append(Append(hash, x), f) = hash \o t
        <5> DEFINE S == Items(hash) \cup {x, f}
        <5>1. hash \in Seq(S) /\ x \in S /\ f \in S
          BY <1>0 DEF IsSeq
        <5> HIDE DEF S, x, f
        <5>2. Append(hash, x) = hash \o <<x>> /\ IsSeq(Append(hash, x))
          BY <1>0, AppendIsConcat, Zenon
        <5>3. Append(Append(hash, x), f) = (hash \o <<x>>) \o <<f>>
          BY <5>2, AppendIsConcat, Zenon
        <5>4. <<x>> \in Seq(S) /\ <<f>> \in Seq(S)
          BY <5>1
        <5>5. (hash \o <<x>>) \o <<f>> = hash \o (<<x>> \o <<f>>)
          BY <5>1, <5>4
        <5> QED
          BY <5>3, <5>5, ZenonT(40)
      <4> HIDE DEF t
      <4> QED
        BY <1>0, <3>2, <4>1, <4>2, LongerHash, ZenonT(40)
    <3> QED
      BY <2>1, <3>1, <3>2, ZenonT(40)
  <2> QED
    BY <2>1, <2>2, <1>a, Zenon DEF Ready
<1>10. CASE ChangeCipherSpec(m)
  <2>1. CASE Refuse("failure")
    BY <1>1, <2>1, Zenon
  <2>2. CASE ~Refuse("failure")
    BY <1>10, <2>2, <1>a, <1>c, ZenonT(40) DEF ChangeCipherSpec
  <2> QED
    BY <2>1, <2>2, Zenon
<1>11. CASE CloseNotify(m) \/ ErrorAlert(m) \/ Warning(m) \/ AppData(m)
  <2>1. Frame /\ UNCHANGED hash
    BY <1>11, Zenon DEF CloseNotify, ErrorAlert, Warning, AppData
  <2>2. state' \in {state, "GracefulClose", "ErrorClose", "ClientKeyExchange"}
    BY <1>11, Zenon DEF CloseNotify, ErrorAlert, Warning, AppData, Shut
  <2> QED
    BY <2>1, <2>2, <1>a, <1>c, ZenonT(40) DEF Closed
<1> HIDE DEF Frame, Goes
<1> QED
  BY <1>1, <1>2, <1>3, <1>4, <1>5, <1>6, <1>7, <1>8, <1>9, <1>10, <1>11, Zenon DEF Takes

\* Every step keeps the agreement.
LEMMA AgreedStep ==
    ASSUME Inv, TypeOK, OutInv, AgreedInv, Twice, Next
    PROVE  AgreedInv'
<1>1. CASE Local \/ Disconnect
  BY <1>1, AgreedLocal, Zenon
<1>2. CASE PeerSends
  <2>0. PICK m : Typed(m) /\ \E last \in BOOLEAN : Takes(m, last)
    BY <1>2, PeerSteps, Zenon
  <2>1. PICK last \in BOOLEAN : Takes(m, last)
    BY <2>0, Zenon
  <2>2. ~Over
    BY <1>2, PeerSteps, ReadsOpen, Zenon DEF Inv
  <2>3. state # "Uninit"
    <3> SUFFICES ASSUME state = "Uninit" PROVE FALSE
      BY Zenon
    <3>1. inRecord = FALSE /\ ~Idle
      BY Zenon DEF AgreedInv, Idle
    <3>2. readReady # TRUE
      BY Zenon DEF Inv, KeyInv, Ready, Closed
    <3>3. readReady \in BOOLEAN
      BY Zenon DEF TypeOK
    <3> QED
      BY <1>2, <3>1, <3>2, <3>3, PeerSteps, Zenon DEF Reading
  <2> QED
    BY <2>0, <2>1, <2>2, <2>3, NextAdds, AgreedMessage, Zenon
<1> QED
  BY <1>1, <1>2, Zenon DEF Next

\* A context opens after its last alert only by another ClientHello.
LEMMA TwiceStep ==
    ASSUME Inv, TypeOK, OutInv, AgreedInv, Twice, Next
    PROVE  Twice'
<1> SUFFICES ASSUME Client', sentFatalAlert' = TRUE, state' \notin Closed
             PROVE  ~OneHello(out')
  BY Zenon DEF Twice
<1>1. sentFatalAlert = TRUE /\ Client
  BY AlertStep, Zenon DEF Client
<1>2. CASE state \notin Closed
  <2>1. PICK s : Addition(s)
    BY NextAdds, Zenon DEF Adds
  <2>2. OneHello(out') => OneHello(out)
    BY <2>1, HelloStays, Zenon DEF Addition, OutInv
  <2> QED
    BY <1>1, <1>2, <2>2, Zenon DEF Twice
<1>3. CASE state \in Closed
  <2>1. IsSeq(out)
    BY Zenon DEF OutInv
  <2>2. ~Over /\ \E offer : StartHandshake(offer)
    BY <1>1, <1>3, <2>1, Hushed, Zenon
  <2>3. HelloSent
    BY <1>1, <1>3, <2>2, Zenon DEF AgreedInv, Closed
  <2> QED
    BY <2>1, <2>2, <2>3, StartSays, Zenon
<1> QED
  BY <1>2, <1>3, Zenon

\* A new context resumes nothing.
LEMMA AgreedInit == Init => AgreedInv /\ Twice
<1> SUFFICES ASSUME Init PROVE AgreedInv /\ Twice
  BY Zenon
<1>1. /\ hash = <<>> /\ state = "Uninit" /\ inRecord = FALSE /\ sessionID = NoID
      /\ resumed = FALSE /\ sentFatalAlert = FALSE
  BY Zenon DEF Init
<1> QED
  BY <1>1, EmptySeq, Zenon DEF AgreedInv, Twice

\* In the first handshake of a connection a client resumes a session only if the
\* ServerHello named it (SSLProcessServerHello and the comparison in
\* SSLAdvanceHandshake).
THEOREM ResumesWhatWasNamed == Spec => []ResumptionAgreed
<1>1. Inv /\ TypeOK /\ OutInv /\ AgreedInv /\ Twice /\ [Next]_vars => AgreedInv' /\ Twice'
  <2>1. ASSUME AgreedInv, Twice, UNCHANGED vars PROVE AgreedInv' /\ Twice'
    <3>1. UNCHANGED <<cfg, call, hash, out, state, inRecord, sessionID, resumed, resumable,
                      sentFatalAlert>>
      BY <2>1, ZenonT(40) DEF vars
    <3>2. IsSeq(hash') /\ HelloSent' = HelloSent /\ OneHello(out') = OneHello(out)
          /\ Client' = Client /\ Over' = Over /\ Named(resumable.id)' = Named(resumable.id)
      BY <2>1, <3>1, Zenon DEF AgreedInv, HelloSent, OneHello, Client, Named, Over
    <3>3. AgreedInv'
      BY <2>1, <3>1, <3>2, Zenon DEF AgreedInv
    <3> QED
      BY <2>1, <3>1, <3>2, <3>3, Zenon DEF Twice
  <2> QED
    BY <2>1, AgreedStep, TwiceStep, ZenonT(40)
<1>2. TypeOK /\ AgreedInv => ResumptionAgreed
  <2> SUFFICES ASSUME TypeOK, AgreedInv, Client, resumed, state \notin Closed,
                      FirstHandshake
               PROVE  Named(resumable.id)
    BY Zenon DEF ResumptionAgreed, Named
  <2>1. OneHello(out)
    BY Zenon DEF FirstHandshake, OneHello
  <2>2. resumed = TRUE
    BY Zenon DEF TypeOK
  <2> QED
    BY <2>1, <2>2, Zenon DEF AgreedInv
<1> QED
  BY <1>1, <1>2, AgreedInit, OutputInvariant, Invariant, TypeCorrect, PTL DEF Spec

=============================================================================
