----------------------------- MODULE Resumption -----------------------------
(***************************************************************************)
(* Connections of one client process to one server process, all with the   *)
(* same peerID, over the session cache of each process.  A cache access is *)
(* one step (SessionCache shows that it is linearizable).  A connection's  *)
(* own protocol is that of Handshake, at the grain of flights: what a side *)
(* does between two accesses to its cache is local to the connection.  A   *)
(* side only writes a flight when it has read the other side's last one,   *)
(* so that each direction holds at most one, with an alert behind it.      *)
(*                                                                         *)
(* A point is one end of one connection, <<"client", c>> or <<"server",c>>.*)
(***************************************************************************)
CONSTANTS
    Conns,          \* the connections; also the sessions they negotiate
    OldSessions,    \* sessions of connections made before
    None            \* no session, no secret, no flight

ASSUME NoneAssumption == None \notin Conns \cup OldSessions /\ Conns \cap OldSessions = {}

VARIABLES
    ctx,            \* SSLContext of each point
    cache,          \* the entry for the peerID in each process
    flight,         \* what is on its way to each point
    alert,          \* a fatal alert is on its way to the point, behind flight
    faults,         \* connections the environment broke
    dead            \* sessions each process made unresumable

vars == <<ctx, cache, flight, alert, faults, dead>>

Ends == {"client", "server"}
Points == Ends \X Conns
Client(c) == <<"client", c>>
Server(c) == <<"server", c>>
Peer(p) == IF p[1] = "client" THEN Server(p[2]) ELSE Client(p[2])

Secrets == Conns \cup OldSessions
Session(id, master) == [id |-> id, master |-> master]
Sessions == [id : Secrets, master : Secrets]

\* "error" stands for every closed state.
States == {"uninit", "hello", "keyExchange", "finished", "ready", "error"}
Contexts == [state : States, resumable : Sessions \cup {None}, id : Secrets \cup {None},
             master : Secrets \cup {None}, match : BOOLEAN]

\* A flight names the session (hello) or proves the secret (finished); a server
\* that resumes does both at once.
Flights == [type : {"clientHello", "serverHello", "keyExchange", "finished"},
            id : Secrets \cup {None}, master : Secrets \cup {None}]
Flight(type, id, master) == [type |-> type, id |-> id, master |-> master]

-----------------------------------------------------------------------------
Send(p, m) == flight' = [flight EXCEPT ![p] = None, ![Peer(p)] = m]
Consume(p) == flight' = [flight EXCEPT ![p] = None]

\* SSLGetSessionData in SSLInitConnection.
Cached(p) == cache[p[1]]

IDOf(session) == IF session = None THEN None ELSE session.id

\* SSLInitConnection of a client, and the ClientHello.
ClientInit(c) ==
    LET p == Client(c)
    IN  /\ ctx[p].state = "uninit"
        /\ ctx' = [ctx EXCEPT ![p] = [@ EXCEPT !.state = "hello", !.resumable = Cached(p)]]
        /\ Send(p, Flight("clientHello", IDOf(Cached(p)), None))
        /\ UNCHANGED <<cache, alert, faults, dead>>

\* SSLInitConnection of a server: it reads its cache before it reads a record.
ServerInit(c) ==
    LET p == Server(c)
    IN  /\ ctx[p].state = "uninit"
        /\ ctx' = [ctx EXCEPT ![p] = [@ EXCEPT !.state = "hello", !.resumable = Cached(p)]]
        /\ UNCHANGED <<cache, flight, alert, faults, dead>>

\* The message type that p waits for has come in.
Reads(p, state, type) ==
    /\ ctx[p].state = state
    /\ flight[p] # None
    /\ flight[p].type = type

\* The session ID that came in is that of the session p found when it was set up.
Resumes(p) == flight[p].id # None /\ flight[p].id = IDOf(ctx[p].resumable)

ServerResumesRereads(c) ==
    LET p == Server(c)
        s == IF Cached(p) = None THEN ctx[p].resumable ELSE Cached(p)
    IN  /\ Reads(p, "hello", "clientHello")
        /\ Resumes(p)
        /\ ctx' = [ctx EXCEPT ![p] = [@ EXCEPT !.state = "finished", !.id = flight[p].id,
                                                !.master = s.master, !.match = TRUE]]
        /\ Send(p, Flight("serverHello", flight[p].id, s.master))
        /\ UNCHANGED <<cache, alert, faults, dead>>

\* SSLResumeServerSide: the ServerHello and the server's Finished.
ServerResumes(c) ==
    LET p == Server(c)
        s == ctx[p].resumable
    IN  /\ Reads(p, "hello", "clientHello")
        /\ Resumes(p)
        /\ ctx' = [ctx EXCEPT ![p] = [@ EXCEPT !.state = "finished", !.id = flight[p].id,
                                                !.master = s.master, !.match = TRUE]]
        /\ Send(p, Flight("serverHello", flight[p].id, s.master))
        /\ UNCHANGED <<cache, alert, faults, dead>>

ServerStartsKeepsID(c) ==
    LET p == Server(c)
        id == IF flight[p].id = None THEN c ELSE flight[p].id
    IN  /\ Reads(p, "hello", "clientHello")
        /\ ~Resumes(p)
        /\ ctx' = [ctx EXCEPT ![p] = [@ EXCEPT !.state = "keyExchange", !.id = id]]
        /\ Send(p, Flight("serverHello", id, None))
        /\ UNCHANGED <<cache, alert, faults, dead>>

\* A new session, named by random bytes.  If the client named another one than
\* the server found, what the cache holds by now is deleted.
ServerStarts(c) ==
    LET p == Server(c)
        s == ctx[p].resumable
    IN  /\ Reads(p, "hello", "clientHello")
        /\ ~Resumes(p)
        /\ ctx' = [ctx EXCEPT ![p] = [@ EXCEPT !.state = "keyExchange", !.id = c]]
        /\ cache' = IF flight[p].id # None /\ s # None
                    THEN [cache EXCEPT !["server"] = None] ELSE cache
        /\ Send(p, Flight("serverHello", c, None))
        /\ UNCHANGED <<alert, faults, dead>>

\* The ServerHello names the session the client asked for.  The Finished that
\* follows it stays on its way.
ClientResumes(c) ==
    LET p == Client(c)
        s == ctx[p].resumable
    IN  /\ Reads(p, "hello", "serverHello")
        /\ Resumes(p)
        /\ ctx' = [ctx EXCEPT ![p] = [@ EXCEPT !.state = "finished", !.id = flight[p].id,
                                                !.master = s.master, !.match = TRUE]]
        /\ flight' = [flight EXCEPT ![p] = IF @.master = None THEN None
                                           ELSE Flight("finished", None, @.master)]
        /\ UNCHANGED <<cache, alert, faults, dead>>

\* Any other session ID: a full handshake up to the client's Finished.
ClientExchanges(c) ==
    LET p == Client(c)
    IN  /\ Reads(p, "hello", "serverHello")
        /\ ~Resumes(p)
        /\ ctx' = [ctx EXCEPT ![p] = [@ EXCEPT !.state = "finished", !.id = flight[p].id,
                                                !.master = c]]
        /\ Send(p, Flight("keyExchange", None, c))
        /\ UNCHANGED <<cache, alert, faults, dead>>

\* ClientKeyExchange gives the server the secret; the client's Finished follows.
ServerKeyExchange(c) ==
    LET p == Server(c)
    IN  /\ Reads(p, "keyExchange", "keyExchange")
        /\ ctx' = [ctx EXCEPT ![p] = [@ EXCEPT !.state = "finished", !.master = c]]
        /\ flight' = [flight EXCEPT ![p] = Flight("finished", None, @.master)]
        /\ UNCHANGED <<cache, alert, faults, dead>>

SentFinishedByServer(p) == p[1] = "server"
\* Who is first to send Finished has no pending write cipher left when the other
\* one's arrives.
SentFinished(p) == (p[1] = "server") = ctx[p].match

\* SSLFatalSessionAlert.  SSLSendAlert sends nothing while the version is
\* undetermined, until the peer's hello is read; a hello may be refused before
\* its version is taken or after.
FatalSessionAlert(p) ==
    /\ ctx' = [ctx EXCEPT ![p] = [@ EXCEPT !.state = "error"]]
    /\ cache' = [cache EXCEPT ![p[1]] = None]
    /\ dead' = [dead EXCEPT ![p[1]] = @ \cup ({ctx[p].id} \ {None})]
    /\ \/ /\ ctx[p].state # "hello" \/ flight[p] # None
          /\ alert' = [alert EXCEPT ![Peer(p)] = TRUE]
       \/ /\ ctx[p].state = "hello"
          /\ UNCHANGED alert

\* Finished of a peer with the same secret: the answer, if it is still due, and
\* SSLAddSessionData.  With another secret the record would not verify.
Finished(p) ==
    /\ Reads(p, "finished", "finished")
    /\ IF flight[p].master = ctx[p].master
       THEN /\ ctx' = [ctx EXCEPT ![p] = [@ EXCEPT !.state = "ready"]]
            /\ cache' = [cache EXCEPT ![p[1]] = Session(ctx[p].id, ctx[p].master)]
            /\ IF SentFinished(p) THEN Consume(p)
               ELSE Send(p, Flight("finished", None, ctx[p].master))
            /\ UNCHANGED <<alert, dead>>
       ELSE FatalSessionAlert(p) /\ Consume(p)
    /\ UNCHANGED faults

\* SSLProcessAlert with a fatal alert.
ProcessAlert(p) ==
    /\ ctx[p].state \notin {"uninit", "error"}
    /\ flight[p] = None /\ alert[p]
    /\ ctx' = [ctx EXCEPT ![p] = [@ EXCEPT !.state = "error"]]
    /\ cache' = [cache EXCEPT ![p[1]] = None]
    /\ dead' = [dead EXCEPT ![p[1]] = @ \cup ({ctx[p].id} \ {None})]
    /\ alert' = [alert EXCEPT ![p] = FALSE]
    /\ UNCHANGED <<flight, faults>>

\* SSLReadRecord finds that the other end, which has failed, has disconnected.  A
\* client that is ready closes without an alert and keeps its session.
Disconnected(p) ==
    /\ ctx[p].state \notin {"uninit", "error"}
    /\ ctx[Peer(p)].state = "error"
    /\ flight[p] = None /\ ~alert[p]
    /\ \/ /\ p[1] = "client" /\ ctx[p].state = "ready"
          /\ ctx' = [ctx EXCEPT ![p] = [@ EXCEPT !.state = "error"]]
          /\ UNCHANGED <<cache, dead, alert>>
       \/ /\ ~(p[1] = "client" /\ ctx[p].state = "ready")
          /\ FatalSessionAlert(p)
    /\ UNCHANGED <<flight, faults>>

-----------------------------------------------------------------------------
(* The environment. *)

\* A record is damaged on its way, or its sender misbehaves: p gives up.
Break(p) ==
    /\ ctx[p].state \notin {"uninit", "error"}
    /\ FatalSessionAlert(p)
    /\ faults' = faults \cup {p[2]}
    /\ UNCHANGED flight

\* The entry's time is up, and a lookup or the cleanup drops it.
Expire(e) ==
    /\ cache[e] # None
    /\ cache' = [cache EXCEPT ![e] = None]
    /\ UNCHANGED <<ctx, flight, alert, faults, dead>>

-----------------------------------------------------------------------------
Fresh == [state |-> "uninit", resumable |-> None, id |-> None, master |-> None, match |-> FALSE]

Init ==
    /\ ctx = [p \in Points |-> Fresh]
    /\ cache \in [Ends -> {Session(s, s) : s \in OldSessions} \cup {None}]
    /\ flight = [p \in Points |-> None]
    /\ alert = [p \in Points |-> FALSE]
    /\ faults = {}
    /\ dead = [e \in Ends |-> {}]

Progress(c) ==
    \/ ClientInit(c) \/ ServerInit(c)
    \/ ServerResumes(c) \/ ServerStarts(c)
    \/ ClientResumes(c) \/ ClientExchanges(c)
    \/ ServerKeyExchange(c)
    \/ \E e \in Ends : Finished(<<e, c>>) \/ ProcessAlert(<<e, c>>) \/ Disconnected(<<e, c>>)

Next ==
    \/ \E c \in Conns : Progress(c)
    \/ \E p \in Points : Break(p)
    \/ \E e \in Ends : Expire(e)

Spec == Init /\ [][Next]_vars

\* Both applications call SSLHandshake and SSLRead until they return, over a
\* transport that delivers.
LiveSpec == Spec /\ \A c \in Conns : WF_vars(Progress(c))

-----------------------------------------------------------------------------
TypeOK ==
    /\ ctx \in [Points -> Contexts]
    /\ cache \in [Ends -> Sessions \cup {None}]
    /\ flight \in [Points -> Flights \cup {None}]
    /\ alert \in [Points -> BOOLEAN]
    /\ faults \subseteq Conns
    /\ dead \in [Ends -> SUBSET Secrets]

\* Whatever the other connections do to the caches, the two ends of one follow
\* the same course: once the client has the ServerHello they name the same
\* session, both resume it or neither does, and their secrets are the same.
SameCourse ==
    \A c \in Conns :
        LET client == ctx[Client(c)]
            server == ctx[Server(c)]
        IN  client.id # None =>
              /\ client.id = server.id /\ client.match = server.match
              /\ server.master # None => client.master = server.master

\* No connection fails because of another: only one the environment broke ends
\* in an error.  (README.md:147 has resumption failing under concurrent load;
\* the caches and the protocol are not the cause.)
FailuresExplained ==
    \A p \in Points : ctx[p].state = "error" => p[2] \in faults

\* No end is left waiting by what other connections did to the caches.
Completes ==
    \A p \in Points : <>(ctx[p].state \in {"ready", "error"})

\* "Make session unresumable": a session whose connection ended in a fatal alert
\* is not in that process's cache again.
Unresumable ==
    \A e \in Ends : cache[e] # None => cache[e].id \notin dead[e]

=============================================================================
