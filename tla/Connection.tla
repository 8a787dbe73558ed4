----------------------------- MODULE Connection -----------------------------
(***************************************************************************)
(* A client and a server of the library over one connection.  The client's *)
(* variables have the names of Handshake, the server's an s in front.  The *)
(* transport delivers the records of each side to the other one in order;  *)
(* it may be slow, so that a call that reads returns errSSLWouldBlock, and *)
(* it reports that the other side has gone once that side is closed and    *)
(* all it wrote was read.                                                  *)
(***************************************************************************)
EXTENDS Handshake

CONSTANT Pairs      \* how a client and a server may have been set up, and what
                    \* each has cached of an earlier connection to the other

VARIABLES
    sCfg, sCall, sState, sVersion, sReadKeys, sReadReady, sReadPending,
    sWriteKeys, sWriteReady, sWritePending, sMaster, sSessionID, sResumable,
    sCache, sCertRequested, sCertSent, sCertReceived, sNegAuthType,
    sClientCertState, sPeerCert, sSignalServerAuth, sSentFatalAlert, sHash,
    sOut, sInRecord, sResumed, sPeerVerified, sAuthReported,
    sPossession,
    clientRead,     \* records of sOut the client has taken from the transport
    serverRead      \* records of out the server has taken

Srv == INSTANCE Handshake WITH
    cfg <- sCfg, call <- sCall, state <- sState, version <- sVersion,
    readKeys <- sReadKeys, readReady <- sReadReady, readPending <- sReadPending,
    writeKeys <- sWriteKeys, writeReady <- sWriteReady, writePending <- sWritePending,
    master <- sMaster, sessionID <- sSessionID, resumable <- sResumable, cache <- sCache,
    certRequested <- sCertRequested, certSent <- sCertSent, certReceived <- sCertReceived,
    negAuthType <- sNegAuthType, clientCertState <- sClientCertState,
    peerCert <- sPeerCert, signalServerAuth <- sSignalServerAuth,
    sentFatalAlert <- sSentFatalAlert, hash <- sHash, out <- sOut, inRecord <- sInRecord,
    resumed <- sResumed, peerVerified <- sPeerVerified,
    authReported <- sAuthReported, possession <- sPossession

sVars ==
    <<sCfg, sCall, sState, sVersion, sReadKeys, sReadReady, sReadPending,
      sWriteKeys, sWriteReady, sWritePending, sMaster, sSessionID, sResumable,
      sCache, sCertRequested, sCertSent, sCertReceived, sNegAuthType,
      sClientCertState, sPeerCert, sSignalServerAuth, sSentFatalAlert, sHash,
      sOut, sInRecord, sResumed, sPeerVerified, sAuthReported,
      sPossession>>
connection == <<vars, sVars, clientRead, serverRead>>

\* The two were set up for each other: each on its side, for the same version; a
\* session the client has cached is one of this server, whose certificate it holds.
ASSUME PairsAssumption ==
    \A p \in Pairs :
        /\ p.client.side = "client" /\ p.server.side = "server"
        /\ p.client.version = p.server.version
        /\ {p.client.cert, p.server.cert} \subseteq Certs \cup {NoCert}
        /\ p.client.kx # "anon" =>
              p.clientCache = NoSession \/ p.clientCache.certs = <<p.server.cert>>

Connect ==
    /\ Init /\ Srv!Init
    /\ [client |-> cfg, clientCache |-> cache, server |-> sCfg, serverCache |-> sCache] \in Pairs
    /\ clientRead = 0 /\ serverRead = 0

-----------------------------------------------------------------------------
ClientLocal == Local /\ UNCHANGED <<sVars, clientRead, serverRead>>
ServerLocal == Srv!Local /\ UNCHANGED <<vars, clientRead, serverRead>>

\* The next record of the other side is read; the library's own endpoints put
\* one message in a record.
ClientReceives ==
    /\ clientRead < Len(sOut)
    /\ Receive(sOut[clientRead + 1].keys, sOut[clientRead + 1].msg, TRUE)
    /\ clientRead' = clientRead + 1
    /\ UNCHANGED <<sVars, serverRead>>

ServerReceives ==
    /\ serverRead < Len(out)
    /\ Srv!Receive(out[serverRead + 1].keys, out[serverRead + 1].msg, TRUE)
    /\ serverRead' = serverRead + 1
    /\ UNCHANGED <<vars, clientRead>>

ClientDisconnected ==
    /\ sState \in Closed /\ clientRead = Len(sOut)
    /\ Disconnect
    /\ UNCHANGED <<sVars, clientRead, serverRead>>

ServerDisconnected ==
    /\ state \in Closed /\ serverRead = Len(out)
    /\ Srv!Disconnect
    /\ UNCHANGED <<vars, clientRead, serverRead>>

Step == \/ ClientLocal \/ ClientReceives \/ ClientDisconnected
        \/ ServerLocal \/ ServerReceives \/ ServerDisconnected

Connected == Connect /\ [][Step]_connection

-----------------------------------------------------------------------------
Prefix(s, t) == Len(s) =< Len(t) /\ \A i \in 1 .. Len(s) : s[i] = t[i]

\* The two sides agree: a side that is ready has its secret and the course of the
\* handshake in common with the other one, and its list of certificates holds the
\* other one's; once both are ready their caches hold the same session.
Agreement ==
    /\ (state \in Ready \/ sState \in Ready) =>
          /\ master = sMaster /\ version = sVersion /\ resumed = sResumed
          /\ cfg.peerID /\ sCfg.peerID => sessionID = sSessionID
    /\ state \in Ready =>
          /\ readKeys = sWriteKeys /\ Prefix(sHash, hash)
          /\ cfg.kx # "anon" => peerCert = <<sCfg.cert>>
    /\ sState \in Ready =>
          /\ sReadKeys = writeKeys /\ Prefix(hash, sHash)
          /\ sCertReceived => sPeerCert = <<cfg.cert>>
    /\ (state \in Ready /\ sState \in Ready /\ cfg.peerID /\ sCfg.peerID) =>
          cache.id = sCache.id /\ cache.master = sCache.master /\ cache.version = sCache.version

Refusals(records) == {i \in 1 .. Len(records) : records[i].msg = Msg("alert", "failure")}

\* What the two were set up with cannot work: a certificate is required and the
\* key exchange or the client has none, or one is requested in TLS 1.2, where
\* the client cannot parse the library's request.
CannotWork ==
    \/ sCfg.auth = "always" /\ (cfg.kx = "anon" \/ cfg.cert = NoCert)
    \/ sCfg.auth # "never" /\ cfg.kx # "anon" /\ cfg.version = "TLS12"

\* Two endpoints of the library never take offence at each other's messages, in
\* whatever order they run, write and close.
NoFalseAlarm == Refusals(out) \cup Refusals(sOut) # {} => CannotWork

\* Data that is already on its way when the other side is still shaking hands
\* does not reach SSLHandshakeProceed, which would close the connection.
DataMeetsReader ==
    [][/\ (clientRead' # clientRead /\ sOut[clientRead'].msg.type = "data")
             => readReady /\ readKeys = sOut[clientRead'].keys
       /\ (serverRead' # serverRead /\ out[serverRead'].msg.type = "data")
             => sReadReady /\ sReadKeys = out[serverRead'].keys]_connection

-----------------------------------------------------------------------------
(***************************************************************************)
(* Fairness.  Each application calls SSLHandshake until it is ready and    *)
(* then SSLRead; the library's own steps are taken; a transport that is    *)
(* asked again and again delivers the records there are and reports that   *)
(* the other side has gone.                                                *)
(***************************************************************************)
ClientCalls == /\ Call(IF state \in Ready THEN "read" ELSE "handshake")
               /\ UNCHANGED <<sVars, clientRead, serverRead>>
ServerCalls == /\ Srv!Call(IF sState \in Ready THEN "read" ELSE "handshake")
               /\ UNCHANGED <<vars, clientRead, serverRead>>

Fairness ==
    /\ SF_connection(ClientCalls) /\ SF_connection(ServerCalls)
    /\ WF_connection(call # "none" /\ ClientLocal)
    /\ WF_connection(sCall # "none" /\ ServerLocal)
    /\ SF_connection(ClientReceives) /\ SF_connection(ServerReceives)
    /\ SF_connection(ClientDisconnected) /\ SF_connection(ServerDisconnected)

LiveConnected == Connected /\ Fairness

\* The two never wait for each other: both get ready unless one of them closes.
BothReady ==
    <>(state \in Ready \cup Closed /\ sState \in Ready \cup Closed)

\* A side that is closed does not leave the other one waiting.
BothClose ==
    (state \in Closed \/ sState \in Closed) ~> (state \in Closed /\ sState \in Closed)

=============================================================================
