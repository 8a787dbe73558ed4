---------------------------- MODULE MCConnection ----------------------------
(* Small pairs for Connection. *)
EXTENDS Connection

CONSTANTS i1, i2, i3, s1, s2, c1, c2

ClientOf(v, kx, cert) ==
    [side |-> "client", version |-> v, enabled |-> {"SSL3", "TLS10", "TLS12"}, kx |-> kx,
     auth |-> "never", cert |-> cert, encryptKey |-> FALSE, breakOnAuth |-> TRUE,
     peerID |-> TRUE]

ServerOf(v, kx, ask) ==
    [side |-> "server", version |-> v, enabled |-> {"SSL3", "TLS10", "TLS12"}, kx |-> kx,
     auth |-> ask, cert |-> c2, encryptKey |-> FALSE, breakOnAuth |-> FALSE,
     peerID |-> TRUE]

PairOf(v, kx, cert, ask, offered, kept) ==
    [client |-> ClientOf(v, kx, cert), clientCache |-> offered,
     server |-> ServerOf(v, kx, ask), serverCache |-> kept]

\* What either side holds of the connection before, and the server of a later one.
Offered(v) == Session(i1, v, s1, <<c2>>)
Kept(v) == Session(i1, v, s1, <<>>)
Replaced(v) == Session(i2, v, s2, <<>>)

\* Every kind of client authentication; the server has replaced the session the
\* client offers.
AuthPairs ==
    { PairOf(v, "rsa", cert, ask, Offered(v), Replaced(v)) :
        v \in {"SSL3", "TLS10"}, cert \in {c1, NoCert}, ask \in {"try", "always"} }
    \cup { PairOf("TLS12", "rsa", c1, "try", Offered("TLS12"), Replaced("TLS12")),
           PairOf("TLS12", "anon", c1, "always", Offered("TLS12"), Replaced("TLS12")) }

\* No client authentication: a session both have, one the server has lost, none.
PlainPairs ==
    { PairOf("TLS12", "dhe", NoCert, "never", Offered("TLS12"), Kept("TLS12")),
      PairOf("TLS12", "dhe", NoCert, "never", Offered("TLS12"), NoSession),
      PairOf("TLS12", "anon", NoCert, "never", NoSession, NoSession) }

MCPairs == AuthPairs \cup PlainPairs

MCConfigs == UNION { {p.client, p.server} : p \in MCPairs }

MCCached == UNION { {p.clientCache, p.serverCache} : p \in MCPairs } \ {NoSession}
=============================================================================
