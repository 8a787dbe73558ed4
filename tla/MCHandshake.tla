---------------------------- MODULE MCHandshake ----------------------------
(* Handshake with endpoints of many configurations and an arbitrary peer. *)
EXTENDS Handshake, TLC

CONSTANTS i1, i2, i3, s1, s2, c1, c2

\* Options that matter to a client: the server's choices of version and key
\* exchange, a certificate of its own, the break and the peer ID.  A request for a
\* certificate is refused in an anonymous handshake.  SSL 3.0 differs from TLS in
\* client authentication only, which is the same for RSA and DHE.
ClientConfigs ==
    { c \in [side : {"client"}, version : {"SSL3", "TLS12"}, enabled : {{"SSL3", "TLS12"}},
             kx : {"rsa", "dhe", "anon"}, auth : {"never"}, cert : {c1, NoCert},
             encryptKey : {FALSE}, breakOnAuth : {TRUE}, peerID : {TRUE}] :
        /\ c.kx # "rsa" => c.version = "TLS12"
        /\ c.kx = "anon" => c.cert = NoCert }

\* A TLS 1.2 client that caches sessions, renegotiating anonymous handshakes.
RenegotiatingConfigs ==
    [side : {"client"}, version : {"TLS12"}, enabled : {{"TLS12"}},
     kx : {"anon"}, auth : {"never"}, cert : {NoCert},
     encryptKey : {FALSE}, breakOnAuth : {TRUE}, peerID : {TRUE}]

\* A plain TLS 1.2 client.
PlainConfigs ==
    [side : {"client"}, version : {"TLS12"}, enabled : {{"TLS12"}},
     kx : {"dhe"}, auth : {"never"}, cert : {c1},
     encryptKey : {FALSE}, breakOnAuth : {FALSE}, peerID : {FALSE}]

\* Options that matter to a server.
ServerConfigs ==
    { c \in [side : {"server"}, version : {"SSL3", "TLS12"},
             enabled : {{"SSL3", "TLS12"}}, kx : {"rsa", "dhe", "anon"},
             auth : {"never", "try", "always"}, cert : {c1, NoCert}, encryptKey : BOOLEAN,
             breakOnAuth : {FALSE}, peerID : BOOLEAN] :
        /\ c.kx = "dhe" => c.version = "TLS12"
        /\ c.encryptKey => c.kx = "rsa"
        /\ ~c.peerID => c.auth = "try" }

\* Endpoints of either side.
EndpointConfigs == ClientConfigs \cup ServerConfigs

\* A session of an enabled version and one of a version that is not.
MCCached == {Session(i1, "TLS12", s1, <<c1>>), Session(i1, "TLS12", s1, <<>>),
             Session(i1, "TLS11", s1, <<c1>>)}

RenegotiatingCached == {Session(i1, "TLS12", s1, <<c1>>)}

IDSymmetry == Permutations({i2, i3})
============================================================================
