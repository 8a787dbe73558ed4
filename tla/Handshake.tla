----------------------------- MODULE Handshake -----------------------------
(***************************************************************************)
(* One SSLContext of libsecurity_ssl taking part in SSL 3.0 / TLS 1.0-1.2  *)
(* handshakes: the state machine of sslHandshake.c driven by SSLHandshake, *)
(* SSLRead and SSLWrite (sslTransport.c), with the alerts of               *)
(* sslAlertMessage.c, the cipher switch of sslChangeCipher.c, certificate  *)
(* handling of sslCert.c and session resumption of sslSession.c.           *)
(*                                                                         *)
(* The peer is arbitrary: it may send any well formed or malformed message *)
(* in any order, pack several messages in a record, go on after a          *)
(* close_notify or a fatal alert, and drop the connection.                 *)
(*                                                                         *)
(* Data is abstracted to what tells handshakes apart: a session ID, a      *)
(* certificate and a premaster secret are opaque values; keys are named by *)
(* the master secret they derive from; the handshake hash is the sequence  *)
(* of messages hashed.                                                     *)
(***************************************************************************)
EXTENDS Integers, Sequences, FiniteSets

CONSTANTS
    IDs,        \* session identifiers
    Secrets,    \* master secrets
    Certs,      \* certificates, each standing for a chain
    Configs,    \* how the application may have set the context up
    CachedSessions, \* sessions earlier connections may have left in the cache
    Bad,        \* contents the receiving function refuses
    NoID,       \* a zero-length session ID
    NoCert,     \* an empty certificate list
    NoKeys,     \* the null cipher, and an empty pending cipher
    NoSession,  \* no resumable session
    MaxRepeat,  \* bound on messages of one type in a handshake, and on certificates
    MaxStarts,  \* bound on hellos sent
    MaxWrites   \* bound on data records sent

VARIABLES
    cfg,            \* protocolSide, enabled version, key exchange and options
    call,           \* the API call in progress
    state,          \* SSLHandshakeState
    version,        \* negProtocolVersion
    readKeys, readReady, readPending,       \* readCipher, readPending
    writeKeys, writeReady, writePending,    \* writeCipher, writePending
    master,         \* masterSecret
    sessionID,
    resumable,      \* resumableSession
    cache,          \* the session cache's entry for this peerID
    certRequested, certSent, certReceived,
    negAuthType,    \* negAuthType where x509Requested is set, else "None"
    clientCertState,
    peerCert,       \* the list of peer certificates, leaf last
    signalServerAuth,
    sentFatalAlert,
    hash,           \* the handshake hashes, as the messages hashed
    out,            \* records written, oldest first
    inRecord,       \* the record being processed holds more messages
    resumed,        \* sessionMatch
    peerVerified,   \* history: the peer's Finished matched in this handshake
    authReported,   \* history: the caller was told of the last Certificate
    possession      \* history: the client's CertificateVerify matched

control == <<call, inRecord>>
readSide == <<readKeys, readReady, readPending>>
writeSide == <<writeKeys, writeReady, writePending>>
session == <<master, sessionID, resumable, resumed>>
auth == <<certRequested, certSent, certReceived, negAuthType, clientCertState>>
seen == <<peerVerified, authReported, possession>>
vars == <<cfg, control, state, version, readSide, writeSide, session, cache, auth,
          peerCert, signalServerAuth, sentFatalAlert, hash, out, seen>>

Versions == {"SSL3", "TLS10", "TLS11", "TLS12"}
Closed == {"GracefulClose", "ErrorClose", "NoNotifyClose"}
Ready == {"ServerReady", "ClientReady"}
States == {"Uninit", "ServerUninit", "ServerHello", "KeyExchange", "Cert", "HelloDone",
           "ClientCert", "ClientKeyExchange", "ClientCertVerify", "ChangeCipherSpec",
           "Finished"} \cup Closed \cup Ready

\* A resumable session as SSLAddSessionData stores it.
Session(i, v, m, c) == [id |-> i, version |-> v, master |-> m, certs |-> c]
Sessions == [id : IDs \cup {NoID}, version : Versions, master : Secrets, certs : Seq(Certs)]

\* A handshake message, ChangeCipherSpec, alert or piece of data; a record
\* carries one under the keys of its sender's write cipher.
Msg(t, b) == [type |-> t, body |-> b]
Sent(k, msgs) == [i \in 1..Len(msgs) |-> [keys |-> k, msg |-> msgs[i]]]

\* How many records of a type were written.
SentSoFar(t) == Cardinality({i \in 1..Len(out) : out[i].msg.type = t})

Server == cfg.side = "server"
Client == cfg.side = "client"

\* The finished message's contents: a MAC over the hashes so far.
VerifyData(side, m, h) == <<side, m, h>>
PeerSide == IF Server THEN "client" ELSE "server"
Expected == VerifyData(PeerSide, master, hash)

\* A handshake message is hashed after it was processed.  A Finished is
\* determined by what precedes it, so only its sender is kept.
Hashed(m) == IF m.type = "finished" THEN Msg("finished", "ok") ELSE m

\* The null cipher is no key, a session is not the mark for none, the cache holds
\* sessions, and a context is a client or a server of one of the versions.
ASSUME ConstantsAssumption ==
    /\ NoKeys \notin Secrets
    /\ NoSession \notin Sessions
    /\ CachedSessions \subseteq Sessions
    /\ \A c \in Configs : c.version \in Versions /\ c.side \in {"client", "server"}

----------------------------------------------------------------------------
(* Alerts. *)

AlertOutRepeated(v, a) ==
    IF v = "undetermined" THEN <<>> ELSE Sent(writeKeys, <<Msg("alert", a)>>)

\* SSLSendAlert: nothing before a version is negotiated, or after a fatal alert.
AlertOut(v, a) ==
    IF v = "undetermined" \/ sentFatalAlert THEN <<>>
    ELSE Sent(writeKeys, <<Msg("alert", a)>>)

Deleted == IF cfg.peerID THEN NoSession ELSE cache

\* SSLFatalSessionAlert followed by the return of an error to the API caller.
Fatal(v, a) ==
    /\ state' = "ErrorClose"
    /\ cache' = Deleted
    /\ out' = out \o AlertOut(v, a)
    /\ sentFatalAlert' = TRUE
    /\ call' = "none"
    /\ inRecord' = FALSE

\* The error exits of SSLRead and SSLWrite close the context; SSLHandshake's do not.
Shut(s) == IF call = "handshake" THEN s ELSE "ErrorClose"

\* A record or message refused by a fatal alert.
Refuse(a) ==
    /\ Fatal(version, a)
    /\ UNCHANGED <<cfg, version, readSide, writeSide, session, auth, peerCert,
                   signalServerAuth, hash, seen>>

----------------------------------------------------------------------------
(* The API. *)

HandshakingNotWriting ==
    \/ call = "handshake" /\ ~(readReady /\ writeReady)
    \/ call = "read" /\ ~readReady

\* The loop conditions of SSLHandshake, SSLRead and SSLWrite.
Handshaking ==
    \/ call = "handshake" /\ ~(readReady /\ writeReady)
    \/ call = "read" /\ ~readReady
    \/ call = "write" /\ ~writeReady

\* Between two records of a call.
Between == call # "none" /\ ~inRecord

\* SSLHandshakeProceed has neither a signal to return nor a message to send first.
Idle == /\ ~signalServerAuth
        /\ state # "Uninit"
        /\ ~(Client /\ state = "ClientCert")

Return == call' = "none"

CallWhenClosed(c) ==
    /\ call = "none"
    /\ c # "handshake" => state \notin Closed \cup {"Uninit", "ServerUninit"}
    /\ call' = c
    /\ UNCHANGED <<cfg, inRecord, state, version, readSide, writeSide,
                   session, cache, auth, peerCert, signalServerAuth, sentFatalAlert,
                   hash, out, seen>>

\* An application calls SSLHandshake, SSLRead or SSLWrite; it starts with SSLHandshake.
Call(c) ==
    /\ call = "none"
    /\ state \notin {"GracefulClose", "ErrorClose"}
    /\ c = "read" => state \notin {"Uninit", "NoNotifyClose"}
    /\ c = "write" => /\ state \notin {"Uninit", "ServerUninit", "NoNotifyClose"}
                      /\ SentSoFar("data") < MaxWrites
    /\ call' = c
    /\ UNCHANGED <<cfg, inRecord, state, version, readSide, writeSide,
                   session, cache, auth, peerCert, signalServerAuth, sentFatalAlert,
                   hash, out, seen>>

\* The underlying I/O has nothing to read: the call returns errSSLWouldBlock.
WouldBlock ==
    /\ Between
    /\ Handshaking => Idle
    /\ Handshaking \/ call = "read"
    /\ Return
    /\ UNCHANGED <<cfg, inRecord, state, version, readSide, writeSide,
                   session, cache, auth, peerCert, signalServerAuth, sentFatalAlert,
                   hash, out, seen>>

\* SSLHandshakeProceed returns to let the caller evaluate the server's certificate.
SignalServerAuth ==
    /\ Between
    /\ Handshaking
    /\ signalServerAuth
    /\ signalServerAuth' = FALSE
    /\ authReported' = TRUE
    /\ Return
    /\ UNCHANGED <<cfg, inRecord, state, version, readSide, writeSide,
                   session, cache, auth, peerCert, sentFatalAlert, hash, out,
                   peerVerified, possession>>

\* SSLHandshake returns once both directions are ready.
HandshakeDone ==
    /\ Between
    /\ call = "handshake"
    /\ ~Handshaking
    /\ Return
    /\ UNCHANGED <<cfg, inRecord, state, version, readSide, writeSide,
                   session, cache, auth, peerCert, signalServerAuth, sentFatalAlert,
                   hash, out, seen>>

\* SSLWrite queues its data under the write cipher.
Write ==
    /\ Between
    /\ call = "write"
    /\ ~Handshaking
    /\ out' = out \o Sent(writeKeys, <<Msg("data", "ok")>>)
    /\ Return
    /\ UNCHANGED <<cfg, inRecord, state, version, readSide, writeSide,
                   session, cache, auth, peerCert, signalServerAuth, sentFatalAlert,
                   hash, seen>>

\* SSLClose, called by the application.
Close ==
    /\ call = "none"
    /\ state' = "GracefulClose"
    /\ out' = out \o AlertOut(version, "closeNotify")
    /\ sentFatalAlert' = (sentFatalAlert \/ version # "undetermined")
    /\ UNCHANGED <<cfg, call, inRecord, version, readSide, writeSide, session,
                   cache, auth, peerCert, signalServerAuth, hash, seen>>

DisconnectIgnored ==
    /\ Between
    /\ Handshaking => Idle
    /\ Handshaking \/ call = "read"
    /\ Return
    /\ UNCHANGED <<cfg, inRecord, state, version, readSide, writeSide, session, cache, auth,
                   peerCert, signalServerAuth, sentFatalAlert, hash, out, seen>>

\* The transport reports that the peer disconnected on a record boundary.
Disconnect ==
    /\ Between
    /\ Handshaking => Idle
    /\ Handshaking \/ call = "read"
    /\ \/ /\ state = "ClientReady"
          /\ state' = "NoNotifyClose"
          /\ Return
          /\ UNCHANGED <<inRecord, cache, out, sentFatalAlert>>
       \/ /\ state # "ClientReady"
          /\ Fatal(version, "fatalClose")
    /\ UNCHANGED <<cfg, version, readSide, writeSide, session, auth, peerCert,
                   signalServerAuth, hash, seen>>

----------------------------------------------------------------------------
(* Steps shared by several messages. *)

Opt(b, m) == IF b THEN <<m>> ELSE <<>>

\* The record's next message was processed and hashed without error.
Processed(m, last) ==
    /\ hash' = Append(hash, Hashed(m))
    /\ inRecord' = ~last
    /\ UNCHANGED <<cfg, call, sentFatalAlert>>

StopWriting == writeReady' = FALSE /\ UNCHANGED readReady

\* No data while a handshake is going on.
StopTraffic == readReady' = FALSE /\ writeReady' = FALSE

\* SSLEncodeClientHello: the hello offers the resumable session.
EncodeClientHello(offer) == Msg("clientHello", IF offer = NoSession THEN NoID ELSE offer.id)

\* SSLAdvanceHandshake(SSL_HdskHelloRequest): a (new) handshake starts with a
\* ClientHello, whose encoding restarts the hashes.
StartHandshake(offer) ==
    LET hello == EncodeClientHello(offer)
    IN  /\ certRequested' = FALSE
        /\ certSent' = FALSE
        /\ certReceived' = FALSE
        /\ negAuthType' = "None"
        /\ clientCertState' = "None"
        /\ StopTraffic
        /\ out' = out \o Sent(writeKeys, <<hello>>)
        /\ hash' = <<hello>>
        /\ state' = "ServerHello"
        /\ peerVerified' = FALSE

\* SSLInstallSessionFromData: the stored chain, if any, replaces the peer's.
InstalledCerts(s) == IF s.certs = <<>> THEN peerCert ELSE s.certs

\* SSLInitConnection's choice: a cached session of a version that is not
\* enabled is blown off.
Offer ==
    IF cfg.peerID /\ cache # NoSession THEN
        IF cache.version \in cfg.enabled THEN cache ELSE NoSession
    ELSE NoSession

\* SSLHandshakeProceed in state Uninit: SSLInitConnection.
InitConnection ==
    /\ Between
    /\ Handshaking
    /\ state = "Uninit"
    /\ resumable' = Offer
    /\ \/ /\ Client
          /\ StartHandshake(Offer)
          /\ UNCHANGED <<readKeys, readPending, writeKeys, writePending>>
       \/ /\ Server
          /\ state' = "ServerUninit"
          /\ UNCHANGED <<readSide, writeSide, auth, hash, out, peerVerified>>
    /\ UNCHANGED <<cfg, control, version, master, sessionID, resumed, cache, peerCert,
                   signalServerAuth, sentFatalAlert, authReported, possession>>

ResumesAny(id) ==
    /\ resumable # NoSession
    /\ id # NoID
    /\ resumable.version = cfg.version

\* The session in resumableSession is the one the peer's hello names.
Resumes(id) ==
    /\ resumable # NoSession
    /\ id # NoID
    /\ resumable.id = id
    /\ resumable.version = cfg.version

\* A hello's session ID is kept only if it is not empty and there is a peerID.
KeptID(id) == IF id # NoID /\ cfg.peerID THEN id ELSE sessionID

PendingReadOnly(m) == readPending' = m /\ UNCHANGED writePending

\* SSLInitPendingCiphers.
Pending(m) == readPending' = m /\ writePending' = m

\* ChangeCipherSpec under the old keys, then Finished under the pending ones,
\* which become the write cipher.  `before' are messages queued ahead of them.
SwitchWrite(before, k, m, h) ==
    LET fin == Msg("finished", VerifyData(cfg.side, m, h))
    IN  /\ out' = out \o Sent(writeKeys, before \o <<Msg("ccs", "ok")>>)
                     \o Sent(k, <<fin>>)
        /\ writeKeys' = k
        /\ writeReady' = TRUE
        /\ writePending' = NoKeys

----------------------------------------------------------------------------
(* Handshake messages: SSLProcessHandshakeMessage followed by               *)
(* SSLAdvanceHandshake.                                                     *)

\* The messages SSLProcessHandshakeMessage accepts in the present state.
Legal(t) ==
    \/ t = "helloRequest" /\ Client
    \/ t = "clientHello" /\ state = "ServerUninit"
    \/ t = "serverHello" /\ state = "ServerHello"
    \/ t = "cert" /\ state \in {"Cert", "ClientCert"}
    \/ t = "certRequest" /\ state \in {"HelloDone", "KeyExchange"} /\ ~certRequested
    \/ t = "serverKeyExchange" /\ state \in {"KeyExchange", "HelloDone"}
    \/ t = "serverHelloDone" /\ state = "HelloDone"
    \/ t = "certVerify" /\ state = "ClientCertVerify"
    \/ t = "clientKeyExchange" /\ state = "ClientKeyExchange"
    \/ t = "finished" /\ state = "Finished"

WrongMessage(m) == ~Legal(m.type) /\ Refuse("failure")

\* Contents a Process function refuses; a hello may be refused before or after
\* it has determined the version, a list of certificates before or after some
\* were taken; a CertificateVerify's signer is rejected.
BadMessage(m) ==
    /\ ~sentFatalAlert
    /\ Legal(m.type)
    /\ m.body = Bad
    /\ version' \in IF m.type \in {"clientHello", "serverHello"}
                    THEN {version, cfg.version} ELSE {version}
    /\ clientCertState' = IF m.type = "certVerify" THEN "Rejected" ELSE clientCertState
    /\ peerCert' \in {peerCert}
           \cup IF m.type = "cert" THEN {<<c>> \o peerCert : c \in Certs} ELSE {}
    /\ Fatal(version', "failure")
    /\ UNCHANGED <<cfg, readSide, writeSide, session, certRequested, certSent, certReceived,
                   negAuthType, signalServerAuth, hash, seen>>

HelloRequest(m, last) ==
    /\ Client
    /\ SentSoFar("clientHello") < MaxStarts
    /\ StartHandshake(resumable)
    /\ inRecord' = ~last
    /\ UNCHANGED <<cfg, call, version, readKeys, readPending, writeKeys,
                   writePending, session, cache, peerCert, signalServerAuth,
                   sentFatalAlert, authReported, possession>>

\* The client names the session this server has cached: SSLResumeServerSide.
ClientHelloResume(m, last) ==
    LET hello == Msg("serverHello", KeptID(m.body))
        h == <<m, hello>>
        secret == resumable.master
    IN  /\ state = "ServerUninit"
        /\ Resumes(KeptID(m.body))
        /\ version' = cfg.version
        /\ sessionID' = KeptID(m.body)
        /\ master' = secret
        /\ peerCert' = InstalledCerts(resumable)
        /\ resumed' = TRUE
        /\ SwitchWrite(<<hello>>, secret, secret, h)
        /\ readPending' = secret
        /\ hash' = Append(h, Msg("finished", "ok"))
        /\ state' = "ChangeCipherSpec"
        /\ inRecord' = ~last
        /\ UNCHANGED <<cfg, call, sentFatalAlert, readKeys, readReady,
                       resumable, cache, auth, signalServerAuth, seen>>

\* doServerKeyExch in SSLAdvanceHandshake.
DoServerKeyExch == cfg.kx \in {"dhe", "anon"} \/ cfg.encryptKey

\* A full handshake.  Without a server key only the ServerHello is queued; an
\* anonymous cipher with required client authentication is a negotiation error.
\* A TLS 1.2 CertificateRequest lacks the signature algorithms field its
\* receiver requires.
ClientHelloFull(m, last) ==
    LET anon == cfg.kx = "anon"
        ask == cfg.auth # "never" /\ ~anon
        stale == KeptID(m.body) # NoID /\ resumable # NoSession
    IN  /\ state = "ServerUninit"
        /\ ~Resumes(KeptID(m.body))
        /\ SentSoFar("serverHello") < MaxStarts
        /\ version' = cfg.version
        /\ resumed' = FALSE
        /\ \E id \in IDs \ {m.body, IF resumable = NoSession THEN NoID ELSE resumable.id} :
             LET hello == Msg("serverHello", id)
                 flight ==
                    <<hello>>
                    \o Opt(~anon, Msg("cert", cfg.cert))
                    \o Opt(DoServerKeyExch, Msg("serverKeyExchange", "ok"))
                    \o Opt(ask, Msg("certRequest", IF cfg.version = "TLS12" THEN Bad ELSE "match"))
                    \o <<Msg("serverHelloDone", "ok")>>
             IN  /\ sessionID' = IF cfg.peerID THEN id ELSE NoID
                 /\ \/ /\ anon /\ cfg.auth = "always"
                       /\ hash' = <<m, hello>>
                       /\ state' = "ErrorClose"
                       /\ cache' = Deleted
                       /\ out' = out \o Sent(writeKeys, <<hello, Msg("alert", "failure")>>)
                       /\ sentFatalAlert' = TRUE
                       /\ Return
                       /\ inRecord' = FALSE
                       /\ UNCHANGED auth
                    \/ /\ ~anon /\ cfg.cert = NoCert
                       /\ hash' = <<m, hello>>
                       /\ state' = Shut(state)
                       /\ cache' = IF stale THEN Deleted ELSE cache
                       /\ out' = out \o Sent(writeKeys, <<hello>>)
                       /\ Return
                       /\ inRecord' = FALSE
                       /\ UNCHANGED <<sentFatalAlert, auth>>
                    \/ /\ IF anon THEN cfg.auth # "always" ELSE cfg.cert # NoCert
                       /\ hash' = <<m>> \o flight
                       /\ out' = out \o Sent(writeKeys, flight)
                       /\ certRequested' = ask
                       /\ clientCertState' = IF ask THEN "Requested" ELSE clientCertState
                       /\ state' = IF ask THEN "ClientCert" ELSE "ClientKeyExchange"
                       /\ cache' = IF stale THEN Deleted ELSE cache
                       /\ inRecord' = ~last
                       /\ UNCHANGED <<call, sentFatalAlert, certSent, certReceived,
                                      negAuthType>>
        /\ UNCHANGED <<cfg, readSide, writeSide, master, resumable, peerCert,
                       signalServerAuth, seen>>

\* The server agreed to resume: its ChangeCipherSpec comes next.  The session
\* ID compared is the one kept, which an empty one in the hello leaves alone.
ServerHello(m, last) ==
    LET id == KeptID(m.body)
    IN  /\ state = "ServerHello"
        /\ version' = cfg.version
        /\ sessionID' = id
        /\ \/ /\ Resumes(id)
              /\ master' = resumable.master
              /\ peerCert' = InstalledCerts(resumable)
              /\ Pending(resumable.master)
              /\ resumed' = TRUE
              /\ state' = "ChangeCipherSpec"
           \/ /\ ~Resumes(id)
              /\ resumed' = FALSE
              /\ state' = IF cfg.kx = "anon" THEN "KeyExchange" ELSE "Cert"
              /\ UNCHANGED <<master, peerCert, readPending, writePending>>
        /\ Processed(m, last)
        /\ UNCHANGED <<readKeys, readReady, writeKeys, writeReady, resumable, cache, auth,
                       signalServerAuth, out, seen>>

ChainUnchecked(c) == <<c>> \o peerCert

\* The new chain goes ahead of what the list holds.
Chain(c) == IF c = NoCert THEN peerCert ELSE <<c>> \o peerCert

AfterCertificate ==
    IF state = "ClientCert" THEN "ClientKeyExchange"
    ELSE IF cfg.kx = "rsa" THEN "HelloDone" ELSE "KeyExchange"

\* SSLProcessCertificate, then SSLAdvanceHandshake.  An empty list is an error
\* unless this is a server that only asked; a chain may not verify, or its key
\* not be extracted.
Certificate(m, last) ==
    LET chain == Chain(m.body)
        optional == Server /\ cfg.auth # "always"
    IN  /\ state \in {"Cert", "ClientCert"}
        /\ peerCert' = chain
        /\ signalServerAuth' =
              (signalServerAuth \/ (chain # <<>> /\ Client /\ cfg.breakOnAuth))
        /\ \/ /\ chain # <<>> \/ ~optional
              /\ Fatal(version, "badCert")
              /\ clientCertState' = IF Server /\ chain # <<>> THEN "Rejected" ELSE clientCertState
              /\ UNCHANGED <<cfg, hash, authReported, certReceived>>
           \/ /\ chain # <<>> \/ optional
              /\ state' = AfterCertificate
              /\ clientCertState' = IF Server /\ chain # <<>> THEN "Sent" ELSE clientCertState
              /\ certReceived' = (certReceived \/ (state = "ClientCert" /\ chain # <<>>))
              /\ authReported' = (authReported /\ Server)
              /\ Processed(m, last)
              /\ UNCHANGED <<cache, out>>
        /\ UNCHANGED <<version, readSide, writeSide, session, certRequested, certSent,
                       negAuthType, peerVerified, possession>>

\* SSLUpdateNegotiatedClientAuthType: the type chosen of those the server offers
\* is one our key can sign for, one of fixed ECDH, or there is none.
AuthType(offered) ==
    IF cfg.cert = NoCert \/ offered = "other" THEN "None"
    ELSE IF offered = "fixed" THEN "Fixed" ELSE "Sign"

\* A server without a certificate may not ask for one.
CertRequest(m, last) ==
    /\ state \in {"HelloDone", "KeyExchange"}
    /\ ~certRequested
    /\ negAuthType' = AuthType(m.body)
    /\ \/ /\ peerCert = <<>>
          /\ Fatal(version, "failure")
          /\ hash' = Append(hash, m)
          /\ UNCHANGED <<cfg, certRequested, clientCertState>>
       \/ /\ peerCert # <<>>
          /\ certRequested' = TRUE
          /\ clientCertState' = "Requested"
          /\ Processed(m, last)
          /\ UNCHANGED <<state, cache, out>>
    /\ UNCHANGED <<version, readSide, writeSide, session, certSent, certReceived, peerCert,
                   signalServerAuth, seen>>

ServerKeyExchange(m, last) ==
    /\ state \in {"KeyExchange", "HelloDone"}
    /\ state' = "HelloDone"
    /\ Processed(m, last)
    /\ UNCHANGED <<version, readSide, writeSide, session, cache, auth, peerCert,
                   signalServerAuth, out, seen>>

\* The client's answer to ServerHelloDone: its certificate or an empty one if
\* asked (in SSL 3.0 an alert says there is none), the key exchange, proof of
\* possession where the type chosen signs (in every version: the assertion in
\* SSLEncodeCertificateVerify that names SSL 3.0 and TLS 1.0 is compiled out),
\* ChangeCipherSpec and Finished.  h is the transcript so far.
ClientFlight(h) ==
    LET asked == clientCertState = "Requested"
        sendCert == asked /\ (version # "SSL3" \/ (cfg.cert # NoCert /\ negAuthType # "None"))
        sendSigned == sendCert /\ cfg.cert # NoCert
    IN  \E secret \in Secrets :
            LET hashed == Opt(sendCert, Msg("cert", cfg.cert))
                          \o <<Msg("clientKeyExchange", secret)>>
                          \o Opt((certSent \/ sendSigned) /\ negAuthType = "Sign",
                                 Msg("certVerify", "ok"))
                noCert == Opt(asked /\ ~sendCert /\ ~sentFatalAlert, Msg("alert", "noCert"))
            IN  /\ SwitchWrite(noCert \o hashed, secret, secret, h \o hashed)
                /\ hash' = h \o hashed \o <<Msg("finished", "ok")>>
                /\ master' = secret
                /\ readPending' = secret
                /\ certSent' = (certSent \/ sendSigned)
                /\ clientCertState' = IF sendSigned THEN "Sent" ELSE clientCertState
                /\ state' = "ChangeCipherSpec"

NeverBreak == FALSE

\* The certificate is still to be reported when the flight ends.
MustBreak == signalServerAuth

ServerHelloDone(m, last) ==
    /\ state = "HelloDone"
    /\ \/ /\ MustBreak
          /\ signalServerAuth' = FALSE
          /\ authReported' = TRUE
          /\ state' = "ClientCert"
          /\ hash' = Append(hash, m)
          /\ Return
          /\ inRecord' = FALSE
          /\ UNCHANGED <<readPending, writeSide, master, certSent, clientCertState, out>>
       \/ /\ ~MustBreak
          /\ ClientFlight(Append(hash, m))
          /\ inRecord' = ~last
          /\ UNCHANGED <<call, signalServerAuth, authReported>>
    /\ UNCHANGED <<cfg, version, readKeys, readReady, sessionID, resumable,
                   resumed, cache, certRequested, certReceived, negAuthType, peerCert,
                   sentFatalAlert, peerVerified, possession>>

\* SSLHandshakeProceed resumes a client that had returned to its caller.
ContinueHandshake ==
    /\ Between
    /\ Handshaking
    /\ ~signalServerAuth
    /\ Client /\ state = "ClientCert"
    /\ ClientFlight(hash)
    /\ UNCHANGED <<cfg, control, version, readKeys, readReady, sessionID, resumable, resumed,
                   cache, certRequested, certReceived, negAuthType, peerCert,
                   signalServerAuth, sentFatalAlert, seen>>

CertVerify(m, last) ==
    /\ state = "ClientCertVerify"
    /\ state' = "ChangeCipherSpec"
    /\ possession' = TRUE
    /\ Processed(m, last)
    /\ UNCHANGED <<version, readSide, writeSide, session, cache, auth, peerCert,
                   signalServerAuth, out, peerVerified, authReported>>

SkipCertVerify == "ChangeCipherSpec"

\* A client that sent a certificate has to prove that it holds the key.
AfterKeyExchange == IF certReceived THEN "ClientCertVerify" ELSE "ChangeCipherSpec"

ClientKeyExchange(m, last) ==
    /\ state = "ClientKeyExchange"
    /\ master' = m.body
    /\ Pending(m.body)
    /\ state' = AfterKeyExchange
    /\ Processed(m, last)
    /\ UNCHANGED <<version, readKeys, readReady, writeKeys, writeReady, sessionID,
                   resumable, resumed, cache, auth, peerCert, signalServerAuth, out, seen>>

OldSession ==
    IF resumable # NoSession THEN resumable ELSE Session(sessionID, version, master, peerCert)

\* SSLAddSessionData: what the next handshake with this peer may resume.
NewSession == Session(sessionID, version, master, peerCert)

\* The peer's Finished: answer with our own if it is still to be sent, and
\* cache the session.
Finished(m, last) ==
    LET h == Append(hash, Hashed(m))
    IN  /\ state = "Finished"
        /\ m.body = Expected
        /\ readReady' = TRUE
        /\ \/ /\ writePending # NoKeys
              /\ SwitchWrite(<<>>, writePending, master, h)
              /\ hash' = Append(h, Msg("finished", "ok"))
           \/ /\ writePending = NoKeys
              /\ hash' = h
              /\ UNCHANGED <<writeSide, out>>
        /\ state' = IF Server THEN "ServerReady" ELSE "ClientReady"
        /\ cache' = IF cfg.peerID THEN NewSession ELSE cache
        /\ peerVerified' = TRUE
        /\ inRecord' = ~last
        /\ UNCHANGED <<cfg, call, version, readKeys, readPending, session, auth,
                       peerCert, signalServerAuth, sentFatalAlert, authReported, possession>>

\* A Finished with other contents is refused.
FinishedMismatch(m) ==
    /\ state = "Finished"
    /\ m.body \notin {Expected, Bad}
    /\ ~sentFatalAlert
    /\ Refuse("failure")

\* After the last alert the error of a Process function goes to the caller alone,
\* and SSLHandshake leaves the context open.  Only a client that a HelloRequest
\* opened again after a close_notify gets here; its ServerHello may have been
\* refused after the session ID was taken, or a certificate's key not be extracted.
Unanswered(m) ==
    /\ sentFatalAlert /\ Client
    /\ Legal(m.type)
    /\ \/ /\ m.body = Bad
          /\ version' \in IF m.type = "serverHello" THEN {version, cfg.version} ELSE {version}
          /\ sessionID' \in {sessionID}
                 \cup IF m.type = "serverHello" THEN {KeptID(id) : id \in IDs} ELSE {}
          /\ peerCert' \in {peerCert}
                 \cup IF m.type = "cert" THEN {<<c>> \o peerCert : c \in Certs} ELSE {}
          /\ UNCHANGED signalServerAuth
       \/ /\ m.type = "cert" /\ m.body # Bad
          /\ Chain(m.body) # <<>>
          /\ peerCert' = Chain(m.body)
          /\ signalServerAuth' = (signalServerAuth \/ cfg.breakOnAuth)
          /\ UNCHANGED <<version, sessionID>>
       \/ /\ m.type = "finished" /\ m.body \notin {Expected, Bad}
          /\ UNCHANGED <<version, sessionID, peerCert, signalServerAuth>>
    /\ state' = Shut(state)
    /\ Return
    /\ inRecord' = FALSE
    /\ UNCHANGED <<cfg, readSide, writeSide, master, resumable, resumed, cache, auth,
                   sentFatalAlert, hash, out, seen>>

HandshakeMessage(m, last) ==
    \/ WrongMessage(m)
    \/ BadMessage(m)
    \/ Unanswered(m)
    \/ /\ m.body # Bad
       /\ \/ m.type = "helloRequest" /\ HelloRequest(m, last)
          \/ m.type = "clientHello" /\ (ClientHelloResume(m, last) \/ ClientHelloFull(m, last))
          \/ m.type = "serverHello" /\ ServerHello(m, last)
          \/ m.type = "cert" /\ Certificate(m, last)
          \/ m.type = "certRequest" /\ CertRequest(m, last)
          \/ m.type = "serverKeyExchange" /\ ServerKeyExchange(m, last)
          \/ m.type = "serverHelloDone" /\ ServerHelloDone(m, last)
          \/ m.type = "certVerify" /\ CertVerify(m, last)
          \/ m.type = "clientKeyExchange" /\ ClientKeyExchange(m, last)
          \/ m.type = "finished" /\ (Finished(m, last) \/ FinishedMismatch(m))

----------------------------------------------------------------------------
(* Other records, and the whole of SSLProcessProtocolMessage. *)

\* SSLProcessChangeCipherSpec: the pending keys become the read cipher.
ChangeCipherSpec(m) ==
    \/ /\ m.body # Bad /\ readPending # NoKeys /\ state = "ChangeCipherSpec"
       /\ readKeys' = readPending
       /\ readReady' = FALSE
       /\ readPending' = NoKeys
       /\ state' = "Finished"
       /\ UNCHANGED <<cfg, control, version, writeSide, session, cache, auth, peerCert,
                      signalServerAuth, sentFatalAlert, hash, out, seen>>
    \/ /\ m.body = Bad \/ readPending = NoKeys \/ state # "ChangeCipherSpec"
       /\ Refuse("failure")

\* A close_notify at warning or fatal level: SSLClose answers it.  Only SSLRead
\* past the handshake looks at the state again before it reads on; the loops that
\* wait for a cipher to be ready go on to the peer's next record.
CloseNotify(m) ==
    /\ m.body \in {"closeNotify", "fatalClose"}
    /\ state' = "GracefulClose"
    /\ out' = out \o AlertOut(version, "closeNotify")
    /\ sentFatalAlert' = (sentFatalAlert \/ version # "undetermined")
    /\ cache' = IF m.body = "fatalClose" THEN Deleted ELSE cache
    /\ IF Handshaking THEN UNCHANGED call ELSE Return
    /\ UNCHANGED <<cfg, inRecord, version, readSide, writeSide, session, auth, peerCert,
                   signalServerAuth, hash, seen>>

\* Alerts that make SSLProcessAlert return an error; the fatal ones also delete
\* the session.  One about a certificate marks a client's certificate rejected, one
\* like user_canceled or no_renegotiation does neither.
ErrorAlert(m) ==
    /\ m.body \in {"failure", "badCert", "certWarning", "canceled"}
    /\ state' = Shut(state)
    /\ cache' = IF m.body \in {"failure", "badCert"} THEN Deleted ELSE cache
    /\ clientCertState' = IF /\ Client /\ clientCertState = "Sent"
                             /\ m.body \in {"badCert", "certWarning"}
                          THEN "Rejected" ELSE clientCertState
    /\ Return
    /\ UNCHANGED <<cfg, inRecord, version, readSide, writeSide, session, certRequested,
                   certSent, certReceived, negAuthType, peerCert, signalServerAuth,
                   sentFatalAlert, hash, out, seen>>

\* no_certificate stands for an empty certificate message where a server that
\* does not insist waits for one; it is ignored elsewhere, like unknown warnings.
Warning(m) ==
    /\ m.body \in {"noCert", "unknown"}
    /\ IF m.body = "noCert" /\ state = "ClientCert" /\ Server /\ cfg.auth # "always"
       THEN /\ state' = "ClientKeyExchange"
            /\ certReceived' = (certReceived \/ peerCert # <<>>)
       ELSE UNCHANGED <<state, certReceived>>
    /\ UNCHANGED <<cfg, control, version, readSide, writeSide, session, cache, certRequested,
                   certSent, negAuthType, clientCertState, peerCert, signalServerAuth,
                   sentFatalAlert, hash, out, seen>>

\* An alert record of odd length.
BadAlert(m) == m.body = Bad /\ Refuse("failure")

Alert(m) == CloseNotify(m) \/ ErrorAlert(m) \/ Warning(m) \/ BadAlert(m)

\* Application data ends an SSLRead, and is an error while handshaking.
AppData(m) ==
    /\ state' = IF Handshaking THEN Shut(state) ELSE state
    /\ Return
    /\ UNCHANGED <<cfg, inRecord, version, readSide, writeSide, session, cache,
                   auth, peerCert, signalServerAuth, sentFatalAlert, hash, out, seen>>

\* The call waits for a record, or is part way through one.
Reading ==
    /\ call # "none"
    /\ \/ inRecord
       \/ Handshaking /\ Idle
       \/ call = "read" /\ readReady

HandshakeTypes == {"helloRequest", "clientHello", "serverHello", "cert", "certRequest",
                   "serverKeyExchange", "serverHelloDone", "certVerify",
                   "clientKeyExchange", "finished", "unknownType"}

\* A record arrives (last: it, or what is left of it, holds one message).
Receive(k, m, last) ==
    /\ Reading
    /\ \/ k # readKeys /\ ~inRecord /\ Refuse("failure")
       \/ /\ k = readKeys
          /\ \/ m.type \in HandshakeTypes /\ HandshakeMessage(m, last)
             \/ ~inRecord /\ m.type = "ccs" /\ ChangeCipherSpec(m)
             \/ ~inRecord /\ m.type = "alert" /\ Alert(m)
             \/ ~inRecord /\ m.type = "data" /\ AppData(m)

----------------------------------------------------------------------------
(* An endpoint with an arbitrary peer. *)

\* What the peer may send: every message with every content.
Contents(t) ==
    CASE t \in {"clientHello", "serverHello"} -> IDs \cup {NoID, Bad}
      [] t = "cert" -> Certs \cup {NoCert, Bad}
      [] t = "certRequest" -> {"match", "fixed", "other", Bad}
      [] t = "clientKeyExchange" -> Secrets \cup {Bad}
      [] t = "finished" -> {Expected, VerifyData(PeerSide, master, <<>>), Bad}
      [] t = "alert" -> {"closeNotify", "fatalClose", "failure", "badCert", "certWarning",
                         "canceled", "noCert", "unknown", Bad}
      [] t \in {"data", "unknownType"} -> {"ok"}
      [] OTHER -> {"ok", Bad}

PeerMsgs == UNION { {Msg(t, b) : b \in Contents(t)} :
                        t \in HandshakeTypes \cup {"ccs", "alert", "data"} }

\* Only a message that is accepted may be followed by another in its record: what
\* comes after a refused one is never looked at.
PeerSends ==
    /\ Reading
    /\ \E m \in PeerMsgs, last \in BOOLEAN :
       /\ last \/ (Legal(m.type) /\ m.body # Bad)
       /\ Cardinality({i \in 1..Len(hash) : hash[i].type = m.type}) < MaxRepeat
       /\ m.type = "cert" => Len(peerCert) =< MaxRepeat
       /\ \/ Receive(readKeys, m, last)
          \/ m.type = "data" /\ readKeys # NoKeys /\ Receive(NoKeys, m, last)

Init ==
    /\ cfg \in Configs
    /\ call = "none" /\ inRecord = FALSE
    /\ state = "Uninit" /\ version = "undetermined"
    /\ readKeys = NoKeys /\ readReady = FALSE /\ readPending = NoKeys
    /\ writeKeys = NoKeys /\ writeReady = FALSE /\ writePending = NoKeys
    /\ master = NoKeys /\ sessionID = NoID /\ resumable = NoSession /\ resumed = FALSE
    /\ cache \in {NoSession} \cup CachedSessions
    /\ cfg.peerID \/ cache = NoSession
    /\ certRequested = FALSE /\ certSent = FALSE /\ certReceived = FALSE
    /\ negAuthType = "None" /\ clientCertState = "None" /\ peerCert = <<>>
    /\ signalServerAuth = FALSE /\ sentFatalAlert = FALSE
    /\ hash = <<>> /\ out = <<>>
    /\ peerVerified = FALSE /\ authReported = FALSE /\ possession = FALSE

Local ==
    \/ \E c \in {"handshake", "read", "write"} : Call(c)
    \/ WouldBlock
    \/ SignalServerAuth
    \/ HandshakeDone
    \/ Write
    \/ Close
    \/ InitConnection
    \/ ContinueHandshake

Next == Local \/ Disconnect \/ PeerSends

Spec == Init /\ [][Next]_vars

----------------------------------------------------------------------------
(* Properties. *)

\* Every variable stays in its set; the peer certificate list holds only certificates.
TypeOK ==
    /\ cfg \in Configs
    /\ call \in {"none", "handshake", "read", "write"}
    /\ state \in States
    /\ version \in {"undetermined", cfg.version}
    /\ {readKeys, readPending, writeKeys, writePending, master} \subseteq Secrets \cup {NoKeys}
    /\ {readReady, writeReady, resumed, certRequested, certSent, certReceived,
        signalServerAuth, sentFatalAlert, inRecord, peerVerified, authReported,
        possession} \subseteq BOOLEAN
    /\ negAuthType \in {"None", "Sign", "Fixed"}
    /\ sessionID \in IDs \cup {NoID}
    /\ {resumable, cache} \subseteq Sessions \cup {NoSession}
    /\ clientCertState \in {"None", "Requested", "Sent", "Rejected"}
    /\ peerCert \in Seq(Certs)

\* SSLHandshakeProceed never runs once the read cipher is ready
\* (its assertion on readCipher.ready).
ProceedNotReady == Handshaking => ~readReady

\* A context is ready for I/O only after the peer's Finished matched, with both
\* directions under keys of the one master secret that Finished vouched for.
ReadyMeansVerified ==
    state \in Ready => /\ peerVerified
                       /\ readReady /\ writeReady
                       /\ readKeys = master /\ writeKeys = master
                       /\ readPending = NoKeys /\ writePending = NoKeys

\* Data is never queued under the null cipher.
DataProtected ==
    \A i \in 1..Len(out) : out[i].msg.type = "data" => out[i].keys # NoKeys

\* A client told to break on server authentication sends no key exchange before
\* its caller was told of the certificate the server sent in this handshake.
ServerAuthReported ==
    (/\ Client /\ cfg.breakOnAuth /\ cfg.kx # "anon" /\ ~resumed
     /\ state \in {"ChangeCipherSpec", "Finished", "ClientReady"})
        => authReported

\* A server that got a client certificate is ready only after the client proved
\* that it holds the key, and one that insists on a certificate has got one.
ClientAuthenticated ==
    (state = "ServerReady" /\ ~resumed) =>
        /\ certReceived => possession
        /\ cfg.auth = "always" => certReceived /\ peerCert # <<>>

\* At most one ClientHello has left this context.
FirstHandshake ==
    \A i, j \in 1..Len(out) :
        out[i].msg.type = "clientHello" /\ out[j].msg.type = "clientHello" => i = j

\* In the first handshake of a connection a client resumes a session only if the
\* ServerHello named it.
ResumptionAgreed ==
    (Client /\ resumed /\ state \notin Closed /\ FirstHandshake) =>
        \E i \in 1..Len(hash) : hash[i] = Msg("serverHello", resumable.id)

Closing(m) ==
    m.type = "alert" /\ m.body \in {"closeNotify", "fatalClose", "failure", "badCert"}

\* A fatal alert is the last record, and no alert follows a close_notify.  What else
\* may follow one starts with a ClientHello: a client that is still shaking hands
\* when it answers the peer's close_notify reads on and obeys a HelloRequest.
SilentAfterClose ==
    \A i \in 1..Len(out) :
        Closing(out[i].msg) =>
            /\ \A j \in i+1..Len(out) : out[j].msg.type # "alert"
            /\ i < Len(out) => /\ out[i].msg.body = "closeNotify"
                               /\ out[i + 1].msg.type = "clientHello"

\* A context that is closed when no call is in progress never opens again: no later
\* call, and no record of the peer, gets it out of the closed states.
ClosedIsFinal == []((state \in Closed /\ call = "none") => [](state \in Closed))

\* The cache changes only when a handshake completes (or to lose the session), and
\* then it holds that handshake's session: the master secret of the keys in use.
CachedWhenVerified ==
    [][(\/ cache' \notin {cache, NoSession}
        \/ cfg.peerID /\ state \notin Ready /\ state' \in Ready)
       => /\ state' \in Ready /\ peerVerified'
          /\ cache'.master = readKeys' /\ cache'.master = writeKeys'
          /\ cache'.version = version']_vars

----------------------------------------------------------------------------
(* What comments and assertions in the code say, and the code does not keep. *)

\* "this tells us to send a CertificateVerify msg after the client key exchange":
\* a client that sent a certificate proves that it holds the key, unless the key
\* exchange itself does (sslCert.c).
SentCertIsProved ==
    (Client /\ state = "ChangeCipherSpec" /\ certSent /\ negAuthType # "Fixed") =>
        \E i \in 1..Len(hash) : hash[i].type = "certVerify"

\* "Leaf cert is the TAIL of the peerCert list": it is the certificate the
\* server sent in the present handshake (sslKeyExchange.c).
TailIsLeaf ==
    (Client /\ state = "KeyExchange" /\ cfg.kx # "anon") =>
        \E i \in 1..Len(hash) : hash[i] = Msg("cert", peerCert[Len(peerCert)])
============================================================================
