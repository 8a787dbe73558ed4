-------------------------- MODULE ResumptionProofs --------------------------
(***************************************************************************)
(* Proofs about Resumption for any number of connections and of sessions   *)
(* from earlier ones.                                                      *)
(***************************************************************************)
EXTENDS Resumption, TLAPS

(* A session exists before anybody can name it: it is an old one, or its    *)
(* client has computed the secret.                                          *)
Known(x) == x \in OldSessions \/ (x \in Conns /\ ctx[Client(x)].master # None)

(* A stored session is known, and its ID goes with its secret. *)
Good(s) == s # None => s.id = s.master /\ Known(s.id)

SessionInv ==
  /\ \A e \in Ends : Good(cache[e])
  /\ \A p \in Points :
       /\ Good(ctx[p].resumable)
       /\ ctx[p].master # None => ctx[p].master = ctx[p].id
       /\ ctx[p].match => Known(ctx[p].id)

ClientInv(c) ==
  LET C == ctx[Client(c)]
  IN  /\ C.state \in {"uninit", "hello"} => C.id = None
      /\ C.id = None => C.master = None /\ ~C.match
      /\ C.id # None => C.master # None
      /\ C.id # None /\ ~C.match => C.id = c
      /\ C.state \in {"finished", "ready"} => C.id # None

ServerInv(c) ==
  LET S == ctx[Server(c)]
  IN  /\ S.state \in {"uninit", "hello"} => S.id = None
      /\ S.id = None => S.master = None /\ ~S.match
      /\ S.id # None /\ ~S.match => S.id = c
      /\ S.id # None => ctx[Client(c)].state # "uninit"
      /\ S.state = "keyExchange" => S.id # None /\ S.master = None /\ ~S.match
      /\ S.state \in {"finished", "ready"} => S.master # None

SameInv(c) ==
  ctx[Client(c)].id # None =>
    ctx[Client(c)].id = ctx[Server(c)].id /\ ctx[Client(c)].match = ctx[Server(c)].match

(* What is on its way was true of its sender, who waits for the answer. *)
ToServerInv(c) ==
  LET C == ctx[Client(c)]
      m == flight[Server(c)]
  IN  m # None =>
        /\ m.type = "clientHello" => m.id = IDOf(C.resumable) /\ C.id = None
                                     /\ C.state # "uninit" /\ ctx[Server(c)].id = None
        /\ m.type = "keyExchange" => m.master = C.master /\ C.master # None
        /\ m.type = "finished" => m.master = C.master /\ C.master # None

ToClientInv(c) ==
  LET C == ctx[Client(c)]
      S == ctx[Server(c)]
      m == flight[Client(c)]
  IN  m # None =>
        /\ m.type = "serverHello" =>
             /\ m.id = S.id /\ S.id # None /\ C.id = None
             /\ (m.master # None) <=> S.match
             /\ m.master # None => m.master = S.master /\ m.id = IDOf(C.resumable)
        /\ m.type = "finished" => m.master = S.master /\ S.master # None

LocalInv(c) == ClientInv(c) /\ ServerInv(c) /\ SameInv(c) /\ ToServerInv(c) /\ ToClientInv(c)

FaultInv == \A p \in Points : alert[p] \/ ctx[p].state = "error" => p[2] \in faults

IInv == TypeOK /\ SessionInv /\ (\A c \in Conns : LocalInv(c)) /\ FaultInv
-----------------------------------------------------------------------------
(* The ends of connections. *)
LEMMA PointFacts ==
  /\ \A c \in Conns :
       /\ Client(c) \in Points /\ Server(c) \in Points
       /\ Peer(Client(c)) = Server(c) /\ Peer(Server(c)) = Client(c)
       /\ Client(c)[1] = "client" /\ Server(c)[1] = "server"
       /\ Client(c)[2] = c /\ Server(c)[2] = c
  /\ \A c, d \in Conns : Client(c) # Server(d)
  /\ \A c, d \in Conns : c # d => Client(c) # Client(d) /\ Server(c) # Server(d)
  /\ \A p \in Points : /\ p[1] \in Ends /\ p[2] \in Conns
                       /\ p = Client(p[2]) \/ p = Server(p[2])
                       /\ Peer(p) \in Points /\ Peer(p) # p /\ Peer(p)[2] = p[2]
  BY DEF Points, Ends, Client, Server, Peer

LEMMA NoneFacts == None \notin Secrets /\ Conns \subseteq Secrets /\ OldSessions \subseteq Secrets
  BY NoneAssumption, Zenon DEF Secrets

(* A known session stays known when one context changes and keeps its secret. *)
LEMMA KnownStep ==
  ASSUME NEW p \in Points,
         \A q \in Points : q # p => ctx'[q] = ctx[q],
         ctx[p].master # None => ctx'[p].master # None
  PROVE  \A x : Known(x) => Known(x)'
  BY PointFacts, Zenon DEF Known

LEMMA SessionStep ==
  ASSUME SessionInv,
         NEW p \in Points,
         \A q \in Points : q # p => ctx'[q] = ctx[q],
         ctx[p].master # None => ctx'[p].master # None,
         Good(ctx[p].resumable)',
         (ctx[p].master # None => ctx[p].master = ctx[p].id)',
         (ctx[p].match => Known(ctx[p].id))',
         \A e \in Ends : cache'[e] = cache[e] \/ Good(cache[e])'
  PROVE  SessionInv'
  <1>1. \A x : Known(x) => Known(x)'
    BY KnownStep, Zenon
  <1>2. \A e \in Ends : Good(cache[e])'
    BY <1>1, Zenon DEF SessionInv, Good
  <1>3. ASSUME NEW q \in Points
        PROVE  /\ Good(ctx[q].resumable)'
               /\ (ctx[q].master # None => ctx[q].master = ctx[q].id)'
               /\ (ctx[q].match => Known(ctx[q].id))'
    <2>1. CASE q = p
      BY <2>1, Zenon
    <2>2. CASE q # p
      BY <2>2, <1>1, Zenon DEF SessionInv, Good
    <2> QED  BY <2>1, <2>2, Zenon
  <1> QED  BY <1>2, <1>3, Zenon DEF SessionInv

(* A connection does not see the steps of the others. *)
LEMMA LocalFrame ==
  ASSUME NEW d \in Conns, LocalInv(d),
         ctx'[Client(d)] = ctx[Client(d)], ctx'[Server(d)] = ctx[Server(d)],
         flight'[Client(d)] = flight[Client(d)], flight'[Server(d)] = flight[Server(d)]
  PROVE  LocalInv(d)'
  BY Zenon DEF LocalInv, ClientInv, ServerInv, SameInv, ToServerInv, ToClientInv

LEMMA LocalOthers ==
  ASSUME NEW c \in Conns, \A d \in Conns : LocalInv(d),
         \A q \in Points : q[2] # c => ctx'[q] = ctx[q] /\ flight'[q] = flight[q],
         LocalInv(c)'
  PROVE  \A d \in Conns : LocalInv(d)'
  <1> SUFFICES ASSUME NEW d \in Conns, d # c PROVE LocalInv(d)'
    BY Zenon
  <1> QED  BY LocalFrame, PointFacts

(* A step of the point p that leaves the other points alone. *)
LEMMA PointStep ==
  ASSUME IInv, TypeOK',
         NEW c \in Conns, NEW p \in Points, p[2] = c,
         \A q \in Points : q # p => ctx'[q] = ctx[q],
         \A q \in Points : q[2] # c => flight'[q] = flight[q],
         ctx[p].master # None => ctx'[p].master # None,
         Good(ctx[p].resumable)',
         (ctx[p].master # None => ctx[p].master = ctx[p].id)',
         (ctx[p].match => Known(ctx[p].id))',
         \A e \in Ends : cache'[e] = cache[e] \/ Good(cache[e])',
         LocalInv(c)',
         faults \subseteq faults',
         \A q \in Points : alert'[q] => alert[q] \/ q[2] \in faults',
         ctx'[p].state = "error" => c \in faults'
  PROVE  IInv'
  <1>1. SessionInv'
    BY SessionStep, Zenon DEF IInv
  <1>2. \A q \in Points : q[2] # c => ctx'[q] = ctx[q] /\ flight'[q] = flight[q]
    BY Zenon
  <1>3. \A d \in Conns : LocalInv(d)'
    BY <1>2, LocalOthers, Zenon DEF IInv
  <1>4. ASSUME NEW q \in Points, (alert[q] \/ ctx[q].state = "error")'
        PROVE  q[2] \in faults'
    <2>1. CASE alert'[q]
      BY <2>1, Zenon DEF IInv, FaultInv
    <2>2. CASE ctx'[q].state = "error" /\ q = p
      BY <2>2, Zenon
    <2>3. CASE ctx'[q].state = "error" /\ q # p
      BY <2>3, Zenon DEF IInv, FaultInv
    <2> QED  BY <1>4, <2>1, <2>2, <2>3, Zenon
  <1> QED  BY <1>1, <1>3, <1>4, Zenon DEF IInv, FaultInv

-----------------------------------------------------------------------------
(* One lemma per action. *)
LEMMA ClientInitStep ==
  ASSUME IInv, NEW c \in Conns, ClientInit(c)
  PROVE  IInv'
  <1> USE PointFacts, NoneFacts
  <1>1. /\ Client(c) \in Points /\ ctx[Client(c)] \in Contexts
        /\ ctx \in [Points -> Contexts]
        /\ cache["client"] \in Sessions \cup {None}
        /\ IDOf(cache["client"]) \in Secrets \cup {None}
    BY Zenon DEF IInv, TypeOK, Ends, IDOf, Sessions
  <1>2. /\ ctx[Client(c)].state = "uninit"
        /\ ctx' = [ctx EXCEPT ![Client(c)] =
                     [@ EXCEPT !.state = "hello", !.resumable = cache["client"]]]
        /\ UNCHANGED <<cache, alert, faults, dead>>
    BY Zenon DEF ClientInit, Cached, Reads, Resumes
  <1>3. /\ \A q \in Points : q # Client(c) => ctx'[q] = ctx[q]
        /\ ctx'[Client(c)] =
             [ctx[Client(c)] EXCEPT !.state = "hello", !.resumable = cache["client"]]
    BY <1>1, <1>2
  <1>4. /\ ctx'[Client(c)] \in Contexts
        /\ ctx'[Client(c)].state = "hello"
        /\ ctx'[Client(c)].resumable = cache["client"]
        /\ ctx'[Client(c)].id = ctx[Client(c)].id
        /\ ctx'[Client(c)].master = ctx[Client(c)].master
        /\ ctx'[Client(c)].match = ctx[Client(c)].match
    BY <1>1, <1>3, ZenonT(40) DEF Contexts, States
  <1>5. /\ flight'[Client(c)] = None
        /\ flight'[Server(c)] = Flight("clientHello", IDOf(cache["client"]), None)
        /\ \A q \in Points : q[2] # c => flight'[q] = flight[q]
    BY <1>1 DEF ClientInit, Cached, Send, IInv, TypeOK
  <1>6. TypeOK'
    <2>1. ctx' \in [Points -> Contexts]
      BY <1>1, <1>2, <1>3, <1>4
    <2>2. flight' \in [Points -> Flights \cup {None}]
      BY <1>1, Zenon DEF ClientInit, Cached, Send, IInv, TypeOK, Flight, Flights
    <2> QED  BY <1>2, <2>1, <2>2, Zenon DEF IInv, TypeOK
  <1>7. \A x : Known(x) => Known(x)'
    BY ONLY <1>1, <1>3, <1>4, KnownStep, Zenon
  <1>8. Good(ctx[Client(c)].resumable)'
    <2>1. Good(cache["client"])
      BY Zenon DEF IInv, SessionInv, Ends
    <2> QED  BY <1>4, <1>7, <2>1, Zenon DEF Good
  <1>9. /\ (ctx[Client(c)].master # None => ctx[Client(c)].master = ctx[Client(c)].id)'
        /\ (ctx[Client(c)].match => Known(ctx[Client(c)].id))'
    BY <1>1, <1>4, <1>7, Zenon DEF IInv, SessionInv
  <1>10. LocalInv(c)'
    <2>1. LocalInv(c) /\ ctx'[Server(c)] = ctx[Server(c)]
      BY <1>3, Zenon DEF IInv
    <2> QED  BY <1>2, <1>4, <1>5, <2>1
             DEF LocalInv, ClientInv, ServerInv, SameInv, ToServerInv, ToClientInv, Flight, IDOf
  <1>11. Client(c)[2] = c
    BY Zenon
  <1> QED  BY ONLY IInv, c \in Conns, <1>1, <1>2, <1>3, <1>4, <1>5, <1>6, <1>8, <1>9, <1>10, <1>11,
              PointStep

LEMMA ServerInitStep ==
  ASSUME IInv, NEW c \in Conns, ServerInit(c)
  PROVE  IInv'
  <1> USE PointFacts, NoneFacts
  <1>1. /\ Server(c) \in Points /\ ctx[Server(c)] \in Contexts
        /\ ctx \in [Points -> Contexts]
        /\ cache["server"] \in Sessions \cup {None}
        /\ IDOf(cache["server"]) \in Secrets \cup {None}
    BY Zenon DEF IInv, TypeOK, Ends, IDOf, Sessions
  <1>2. /\ ctx[Server(c)].state = "uninit"
        /\ ctx' = [ctx EXCEPT ![Server(c)] =
                     [@ EXCEPT !.state = "hello", !.resumable = cache["server"]]]
        /\ UNCHANGED <<cache, alert, faults, dead>>
    BY Zenon DEF ServerInit, Cached, Reads, Resumes
  <1>3. /\ \A q \in Points : q # Server(c) => ctx'[q] = ctx[q]
        /\ ctx'[Server(c)] =
             [ctx[Server(c)] EXCEPT !.state = "hello", !.resumable = cache["server"]]
    BY <1>1, <1>2
  <1>4. /\ ctx'[Server(c)] \in Contexts
        /\ ctx'[Server(c)].state = "hello"
        /\ ctx'[Server(c)].resumable = cache["server"]
        /\ ctx'[Server(c)].id = ctx[Server(c)].id
        /\ ctx'[Server(c)].master = ctx[Server(c)].master
        /\ ctx'[Server(c)].match = ctx[Server(c)].match
    BY <1>1, <1>3, ZenonT(40) DEF Contexts, States
  <1>5. flight' = flight
    BY Zenon DEF ServerInit
  <1>6. TypeOK'
    <2>1. ctx' \in [Points -> Contexts]
      BY <1>1, <1>2, <1>3, <1>4
    <2>2. flight' \in [Points -> Flights \cup {None}]
      BY <1>1, Zenon DEF ServerInit, Cached, Send, IInv, TypeOK, Flight, Flights
    <2> QED  BY <1>2, <2>1, <2>2, Zenon DEF IInv, TypeOK
  <1>7. \A x : Known(x) => Known(x)'
    BY ONLY <1>1, <1>3, <1>4, KnownStep, Zenon
  <1>8. Good(ctx[Server(c)].resumable)'
    <2>1. Good(cache["server"])
      BY Zenon DEF IInv, SessionInv, Ends
    <2> QED  BY <1>4, <1>7, <2>1, Zenon DEF Good
  <1>9. /\ (ctx[Server(c)].master # None => ctx[Server(c)].master = ctx[Server(c)].id)'
        /\ (ctx[Server(c)].match => Known(ctx[Server(c)].id))'
    BY <1>1, <1>4, <1>7, Zenon DEF IInv, SessionInv
  <1>10. LocalInv(c)'
    <2>1. LocalInv(c) /\ ctx'[Client(c)] = ctx[Client(c)]
      BY <1>3, Zenon DEF IInv
    <2> QED  BY <1>2, <1>4, <1>5, <2>1
             DEF LocalInv, ClientInv, ServerInv, SameInv, ToServerInv, ToClientInv, Flight, IDOf
  <1>11. Server(c)[2] = c
    BY Zenon
  <1> QED  BY ONLY IInv, c \in Conns, <1>1, <1>2, <1>3, <1>4, <1>5, <1>6, <1>8, <1>9, <1>10, <1>11,
              PointStep

LEMMA ServerResumesStep ==
  ASSUME IInv, NEW c \in Conns, ServerResumes(c)
  PROVE  IInv'
  <1> USE PointFacts, NoneFacts
  <1>1. /\ Server(c) \in Points /\ Client(c) \in Points /\ ctx[Server(c)] \in Contexts
        /\ ctx \in [Points -> Contexts] /\ flight \in [Points -> Flights \cup {None}]
        /\ flight[Server(c)] \in Flights /\ flight[Server(c)] # None
        /\ flight[Server(c)].id \in Secrets \cup {None}
        /\ flight[Server(c)].master \in Secrets \cup {None}
        /\ LocalInv(c)
    BY DEF IInv, TypeOK, ServerResumes, Reads, Flights
  <1>0. /\ ctx[Server(c)].resumable # None /\ ctx[Server(c)].resumable \in Sessions
        /\ flight[Server(c)].id = ctx[Server(c)].resumable.id
        /\ ctx[Server(c)].resumable.id \in Secrets
        /\ ctx[Server(c)].resumable.master \in Secrets
        /\ ctx[Server(c)].resumable.id = ctx[Server(c)].resumable.master
        /\ Known(ctx[Server(c)].resumable.id)
    <2>1. /\ ctx[Server(c)].resumable # None /\ ctx[Server(c)].resumable \in Sessions
          /\ flight[Server(c)].id = ctx[Server(c)].resumable.id
      BY <1>1, Zenon DEF ServerResumes, Resumes, IDOf, Contexts
    <2> QED  BY <1>1, <2>1, Zenon DEF IInv, SessionInv, Good, Sessions
  <1>2. /\ ctx[Server(c)].state = "hello" /\ flight[Server(c)].type = "clientHello"
        /\ ctx' = [ctx EXCEPT ![Server(c)] =
                     [@ EXCEPT !.state = "finished", !.id = flight[Server(c)].id,
                               !.master = ctx[Server(c)].resumable.master, !.match = TRUE]]
        /\ UNCHANGED <<cache, alert, faults, dead>>
    BY Zenon DEF ServerResumes, Reads, Resumes
  <1>3. /\ \A q \in Points : q # Server(c) => ctx'[q] = ctx[q]
        /\ ctx'[Server(c)] =
             [ctx[Server(c)] EXCEPT !.state = "finished", !.id = flight[Server(c)].id,
                                    !.master = ctx[Server(c)].resumable.master, !.match = TRUE]
    BY <1>1, <1>2, Zenon
  <1>4. /\ ctx'[Server(c)] \in Contexts
        /\ ctx'[Server(c)].state = "finished"
        /\ ctx'[Server(c)].resumable = ctx[Server(c)].resumable
        /\ ctx'[Server(c)].id = flight[Server(c)].id
        /\ ctx'[Server(c)].master = ctx[Server(c)].resumable.master
        /\ ctx'[Server(c)].match = TRUE
    <2>1. ctx'[Server(c)] \in Contexts
      BY ONLY <1>0, <1>1, <1>3, Zenon DEF Contexts, States
    <2>2. DOMAIN ctx[Server(c)] = {"state", "resumable", "id", "master", "match"}
      BY <1>1, Zenon DEF Contexts
    <2> QED  BY <1>3, <2>1, <2>2, Zenon
  <1>5. /\ flight' \in [Points -> Flights \cup {None}]
        /\ \A q \in Points : q[2] # c => flight'[q] = flight[q]
        /\ flight'[Server(c)] = None
        /\ flight'[Client(c)] = Flight("serverHello", flight[Server(c)].id,
                                       ctx[Server(c)].resumable.master)
    BY <1>0, <1>1 DEF ServerResumes, Send, Flight, Flights, Resumes
  <1>6. TypeOK'
    <2>1. ctx' \in [Points -> Contexts]
      BY <1>1, <1>2, <1>3, <1>4, Zenon
    <2> QED  BY <1>2, <1>5, <2>1, Zenon DEF IInv, TypeOK
  <1>7. \A x : Known(x) => Known(x)'
    BY ONLY <1>0, <1>1, <1>3, <1>4, NoneFacts, KnownStep, Zenon
  <1>8. Good(ctx[Server(c)].resumable)'
    <2>1. Good(ctx[Server(c)].resumable)
      BY <1>1, Zenon DEF IInv, SessionInv
    <2> QED  BY <1>4, <1>7, <2>1, Zenon DEF Good
  <1>9. /\ (ctx[Server(c)].master # None => ctx[Server(c)].master = ctx[Server(c)].id)'
        /\ (ctx[Server(c)].match => Known(ctx[Server(c)].id))'
    BY <1>0, <1>1, <1>2, <1>4, <1>7 DEF IInv, SessionInv
  <1>10. LocalInv(c)'
    <2>1. ctx'[Client(c)] = ctx[Client(c)]
      BY <1>1, <1>3, Zenon
    <2> USE <1>0, <1>1, <1>2, <1>4, <1>5, <2>1
    <2>2. ClientInv(c)'
      BY Zenon DEF LocalInv, ClientInv, ToClientInv
    <2>3. ServerInv(c)'
      BY DEF LocalInv, ServerInv, ToServerInv
    <2>4. SameInv(c)'
      BY Zenon DEF LocalInv, ClientInv, ServerInv, SameInv, ToServerInv, ToClientInv
    <2>5. ToServerInv(c)'
      BY Zenon DEF LocalInv, ClientInv, ServerInv, ToServerInv, ToClientInv, Flight
    <2>6. ToClientInv(c)'
      BY DEF LocalInv, ClientInv, ServerInv, ToServerInv, ToClientInv, Flight, IDOf
    <2> QED  BY <2>2, <2>3, <2>4, <2>5, <2>6, Zenon DEF LocalInv
  <1>11. Server(c)[2] = c
    BY Zenon
  <1> QED  BY ONLY IInv, c \in Conns, NoneFacts, <1>0, <1>1, <1>2, <1>3, <1>4, <1>5, <1>6, <1>8,
              <1>9, <1>10,
              <1>11, PointStep

LEMMA ServerStartsStep ==
  ASSUME IInv, NEW c \in Conns, ServerStarts(c)
  PROVE  IInv'
  <1> USE PointFacts, NoneFacts
  <1>1. /\ Server(c) \in Points /\ Client(c) \in Points /\ ctx[Server(c)] \in Contexts
        /\ ctx \in [Points -> Contexts] /\ flight \in [Points -> Flights \cup {None}]
        /\ flight[Server(c)] \in Flights /\ flight[Server(c)] # None
        /\ flight[Server(c)].id \in Secrets \cup {None}
        /\ flight[Server(c)].master \in Secrets \cup {None}
        /\ LocalInv(c)
    BY DEF IInv, TypeOK, ServerStarts, Reads, Flights
  <1>0. c \in Secrets
    BY Zenon
  <1>2. /\ ctx[Server(c)].state = "hello" /\ flight[Server(c)].type = "clientHello"
        /\ ctx' = [ctx EXCEPT ![Server(c)] =
                     [@ EXCEPT !.state = "keyExchange", !.id = c]]
        /\ UNCHANGED <<alert, faults, dead>>
    BY Zenon DEF ServerStarts, Reads
  <1>3. /\ \A q \in Points : q # Server(c) => ctx'[q] = ctx[q]
        /\ ctx'[Server(c)] =
             [ctx[Server(c)] EXCEPT !.state = "keyExchange", !.id = c]
    BY <1>1, <1>2
  <1>4. /\ ctx'[Server(c)] \in Contexts
        /\ ctx'[Server(c)].state = "keyExchange"
        /\ ctx'[Server(c)].resumable = ctx[Server(c)].resumable
        /\ ctx'[Server(c)].id = c
        /\ ctx'[Server(c)].master = ctx[Server(c)].master
        /\ ctx'[Server(c)].match = ctx[Server(c)].match
    <2>1. ctx'[Server(c)] \in Contexts
      BY ONLY <1>0, <1>1, <1>3, Zenon DEF Contexts, States
    <2>2. DOMAIN ctx[Server(c)] = {"state", "resumable", "id", "master", "match"}
      BY <1>1, Zenon DEF Contexts
    <2> QED  BY <1>3, <2>1, <2>2, Zenon
  <1>5. /\ flight' \in [Points -> Flights \cup {None}]
        /\ \A q \in Points : q[2] # c => flight'[q] = flight[q]
        /\ flight'[Server(c)] = None
        /\ flight'[Client(c)] = Flight("serverHello", c, None)
    BY <1>0, <1>1 DEF ServerStarts, Send, Flight, Flights
  <1>12. /\ cache' \in [Ends -> Sessions \cup {None}]
         /\ \A e \in Ends : cache'[e] = cache[e] \/ Good(cache[e])'
    BY DEF ServerStarts, IInv, TypeOK, Good
  <1>6. TypeOK'
    <2>1. ctx' \in [Points -> Contexts]
      BY <1>1, <1>2, <1>3, <1>4, Zenon
    <2> QED  BY <1>2, <1>5, <2>1, <1>12, Zenon DEF IInv, TypeOK
  <1>7. \A x : Known(x) => Known(x)'
    BY ONLY <1>0, <1>1, <1>3, <1>4, NoneFacts, KnownStep, Zenon
  <1>8. Good(ctx[Server(c)].resumable)'
    <2>1. Good(ctx[Server(c)].resumable)
      BY <1>1, Zenon DEF IInv, SessionInv
    <2> QED  BY <1>4, <1>7, <2>1, Zenon DEF Good
  <1>9. /\ (ctx[Server(c)].master # None => ctx[Server(c)].master = ctx[Server(c)].id)'
        /\ (ctx[Server(c)].match => Known(ctx[Server(c)].id))'
    BY <1>0, <1>1, <1>2, <1>4, <1>7, Zenon DEF IInv, SessionInv, LocalInv, ServerInv
  <1>10. LocalInv(c)'
    <2>1. ctx'[Client(c)] = ctx[Client(c)]
      BY <1>1, <1>3, Zenon
    <2> USE <1>0, <1>1, <1>2, <1>4, <1>5, <2>1
    <2>2. ClientInv(c)'
      BY Zenon DEF LocalInv, ClientInv, ToClientInv
    <2>3. ServerInv(c)'
      BY DEF LocalInv, ServerInv, ToServerInv
    <2>4. SameInv(c)'
      BY Zenon DEF LocalInv, ClientInv, ServerInv, SameInv, ToServerInv, ToClientInv
    <2>5. ToServerInv(c)'
      BY Zenon DEF LocalInv, ClientInv, ServerInv, ToServerInv, ToClientInv, Flight
    <2>6. ToClientInv(c)'
      BY DEF LocalInv, ClientInv, ServerInv, ToServerInv, ToClientInv, Flight, IDOf
    <2> QED  BY <2>2, <2>3, <2>4, <2>5, <2>6, Zenon DEF LocalInv
  <1>11. Server(c)[2] = c
    BY Zenon
  <1> QED  BY ONLY IInv, c \in Conns, NoneFacts, <1>0, <1>1, <1>2, <1>3, <1>4, <1>5, <1>6, <1>8,
              <1>9, <1>10,
              <1>11, <1>12, PointStep, Zenon

LEMMA ClientResumesStep ==
  ASSUME IInv, NEW c \in Conns, ClientResumes(c)
  PROVE  IInv'
  <1> USE PointFacts, NoneFacts
  <1>1. /\ Client(c) \in Points /\ Server(c) \in Points /\ ctx[Client(c)] \in Contexts
        /\ ctx \in [Points -> Contexts] /\ flight \in [Points -> Flights \cup {None}]
        /\ flight[Client(c)] \in Flights /\ flight[Client(c)] # None
        /\ flight[Client(c)].id \in Secrets \cup {None}
        /\ flight[Client(c)].master \in Secrets \cup {None}
        /\ LocalInv(c)
    BY DEF IInv, TypeOK, ClientResumes, Reads, Flights
  <1>0. /\ ctx[Client(c)].resumable # None /\ ctx[Client(c)].resumable \in Sessions
        /\ flight[Client(c)].id = ctx[Client(c)].resumable.id
        /\ ctx[Client(c)].resumable.id \in Secrets
        /\ ctx[Client(c)].resumable.master \in Secrets
        /\ ctx[Client(c)].resumable.id = ctx[Client(c)].resumable.master
        /\ Known(ctx[Client(c)].resumable.id)
        /\ flight[Client(c)].master # None /\ ctx[Server(c)].match
    <2>1. /\ ctx[Client(c)].resumable # None /\ ctx[Client(c)].resumable \in Sessions
          /\ flight[Client(c)].id = ctx[Client(c)].resumable.id
      BY <1>1, Zenon DEF ClientResumes, Resumes, IDOf, Contexts
    <2>2. /\ ctx[Client(c)].resumable.id \in Secrets
          /\ ctx[Client(c)].resumable.master \in Secrets
          /\ ctx[Client(c)].resumable.id = ctx[Client(c)].resumable.master
          /\ Known(ctx[Client(c)].resumable.id)
      BY <1>1, <2>1, Zenon DEF IInv, SessionInv, Good, Sessions
    <2>3. /\ flight[Client(c)].id = ctx[Server(c)].id /\ ctx[Client(c)].id = None
          /\ ctx[Client(c)].master = None
          /\ ctx[Server(c)].id # None
          /\ (flight[Client(c)].master # None) <=> ctx[Server(c)].match
      BY <1>1, Zenon DEF ClientResumes, Reads, LocalInv, ToClientInv, ClientInv
    <2>4. ctx[Client(c)].resumable.id # c
      BY <2>2, <2>3, NoneAssumption DEF Known
    <2>5. ctx[Server(c)].match
      BY <1>1, <2>1, <2>3, <2>4, Zenon DEF LocalInv, ServerInv
    <2> QED  BY <2>1, <2>2, <2>3, <2>5, Zenon
  <1>2. /\ ctx[Client(c)].state = "hello" /\ flight[Client(c)].type = "serverHello"
        /\ ctx' = [ctx EXCEPT ![Client(c)] =
                     [@ EXCEPT !.state = "finished", !.id = flight[Client(c)].id,
                               !.master = ctx[Client(c)].resumable.master, !.match = TRUE]]
        /\ UNCHANGED <<cache, alert, faults, dead>>
    BY Zenon DEF ClientResumes, Reads, Resumes
  <1>3. /\ \A q \in Points : q # Client(c) => ctx'[q] = ctx[q]
        /\ ctx'[Client(c)] =
             [ctx[Client(c)] EXCEPT !.state = "finished", !.id = flight[Client(c)].id,
                                    !.master = ctx[Client(c)].resumable.master, !.match = TRUE]
    BY <1>1, <1>2
  <1>4. /\ ctx'[Client(c)] \in Contexts
        /\ ctx'[Client(c)].state = "finished"
        /\ ctx'[Client(c)].resumable = ctx[Client(c)].resumable
        /\ ctx'[Client(c)].id = flight[Client(c)].id
        /\ ctx'[Client(c)].master = ctx[Client(c)].resumable.master
        /\ ctx'[Client(c)].match = TRUE
    <2>1. ctx'[Client(c)] \in Contexts
      BY ONLY <1>0, <1>1, <1>3, ZenonT(40) DEF Contexts, States
    <2>2. DOMAIN ctx[Client(c)] = {"state", "resumable", "id", "master", "match"}
      BY <1>1, Zenon DEF Contexts
    <2> QED  BY <1>3, <2>1, <2>2, Zenon
  <1>5. /\ flight' \in [Points -> Flights \cup {None}]
        /\ \A q \in Points : q[2] # c => flight'[q] = flight[q]
        /\ flight'[Client(c)] = Flight("finished", None, flight[Client(c)].master)
        /\ flight'[Server(c)] = flight[Server(c)]
    BY <1>0, <1>1 DEF ClientResumes, Send, Flight, Flights, Resumes
  <1>6. TypeOK'
    <2>1. ctx' \in [Points -> Contexts]
      BY <1>1, <1>2, <1>3, <1>4, Zenon
    <2> QED  BY <1>2, <1>5, <2>1, Zenon DEF IInv, TypeOK
  <1>7. \A x : Known(x) => Known(x)'
    BY ONLY <1>0, <1>1, <1>3, <1>4, NoneFacts, KnownStep, Zenon
  <1>8. Good(ctx[Client(c)].resumable)'
    <2>1. Good(ctx[Client(c)].resumable)
      BY <1>1, Zenon DEF IInv, SessionInv
    <2> QED  BY <1>4, <1>7, <2>1, Zenon DEF Good
  <1>9. /\ (ctx[Client(c)].master # None => ctx[Client(c)].master = ctx[Client(c)].id)'
        /\ (ctx[Client(c)].match => Known(ctx[Client(c)].id))'
    BY <1>0, <1>1, <1>2, <1>4, <1>7 DEF IInv, SessionInv
  <1>10. LocalInv(c)'
    <2>1. ctx'[Server(c)] = ctx[Server(c)]
      BY <1>1, <1>3, Zenon
    <2> USE <1>0, <1>1, <1>2, <1>4, <1>5, <2>1
    <2>2. ClientInv(c)'
      BY DEF LocalInv, ClientInv, ToClientInv
    <2>3. ServerInv(c)'
      BY Zenon DEF LocalInv, ServerInv, ToServerInv
    <2>4. SameInv(c)'
      BY Zenon DEF LocalInv, ClientInv, ServerInv, SameInv, ToServerInv, ToClientInv
    <2>5. ToServerInv(c)'
      BY Zenon DEF LocalInv, ClientInv, ServerInv, ToServerInv, ToClientInv, Flight
    <2>6. ToClientInv(c)'
      BY DEF LocalInv, ClientInv, ServerInv, ToServerInv, ToClientInv, Flight, IDOf
    <2> QED  BY <2>2, <2>3, <2>4, <2>5, <2>6, Zenon DEF LocalInv
  <1>11. Client(c)[2] = c
    BY Zenon
  <1> QED  BY ONLY IInv, c \in Conns, NoneFacts, <1>0, <1>1, <1>2, <1>3, <1>4, <1>5, <1>6, <1>8,
              <1>9, <1>10,
              <1>11, PointStep

LEMMA ClientExchangesStep ==
  ASSUME IInv, NEW c \in Conns, ClientExchanges(c)
  PROVE  IInv'
  <1> USE PointFacts, NoneFacts
  <1>1. /\ Client(c) \in Points /\ Server(c) \in Points /\ ctx[Client(c)] \in Contexts
        /\ ctx \in [Points -> Contexts] /\ flight \in [Points -> Flights \cup {None}]
        /\ flight[Client(c)] \in Flights /\ flight[Client(c)] # None
        /\ flight[Client(c)].id \in Secrets \cup {None}
        /\ flight[Client(c)].master \in Secrets \cup {None}
        /\ LocalInv(c)
    BY DEF IInv, TypeOK, ClientExchanges, Reads, Flights
  <1>0. /\ flight[Client(c)].id = c /\ c \in Secrets /\ ctx[Client(c)].id = None
        /\ ctx[Client(c)].match = FALSE /\ ctx[Server(c)].match = FALSE
    <2>1. /\ flight[Client(c)].id = ctx[Server(c)].id /\ ctx[Client(c)].id = None
          /\ ctx[Server(c)].id # None /\ ~ctx[Client(c)].match
          /\ (flight[Client(c)].master # None) <=> ctx[Server(c)].match
          /\ flight[Client(c)].master # None
               => flight[Client(c)].id = IDOf(ctx[Client(c)].resumable)
      BY <1>1, Zenon DEF ClientExchanges, Reads, LocalInv, ToClientInv, ClientInv
    <2>2. flight[Client(c)].id # IDOf(ctx[Client(c)].resumable)
      BY <2>1, Zenon DEF ClientExchanges, Resumes
    <2>3. ctx[Server(c)].match = FALSE /\ ctx[Client(c)].match = FALSE
      BY <1>1, <2>1, <2>2 DEF IInv, TypeOK, Contexts
    <2> QED  BY <1>1, <2>1, <2>3, Zenon DEF LocalInv, ServerInv
  <1>2. /\ ctx[Client(c)].state = "hello" /\ flight[Client(c)].type = "serverHello"
        /\ ctx' = [ctx EXCEPT ![Client(c)] =
                     [@ EXCEPT !.state = "finished", !.id = flight[Client(c)].id, !.master = c]]
        /\ UNCHANGED <<cache, alert, faults, dead>>
    BY Zenon DEF ClientExchanges, Reads
  <1>3. /\ \A q \in Points : q # Client(c) => ctx'[q] = ctx[q]
        /\ ctx'[Client(c)] =
             [ctx[Client(c)] EXCEPT !.state = "finished", !.id = flight[Client(c)].id, !.master = c]
    BY <1>1, <1>2
  <1>4. /\ ctx'[Client(c)] \in Contexts
        /\ ctx'[Client(c)].state = "finished"
        /\ ctx'[Client(c)].resumable = ctx[Client(c)].resumable
        /\ ctx'[Client(c)].id = flight[Client(c)].id
        /\ ctx'[Client(c)].master = c
        /\ ctx'[Client(c)].match = ctx[Client(c)].match
    <2>1. ctx'[Client(c)] \in Contexts
      BY ONLY <1>0, <1>1, <1>3, Zenon DEF Contexts, States
    <2>2. DOMAIN ctx[Client(c)] = {"state", "resumable", "id", "master", "match"}
      BY <1>1, Zenon DEF Contexts
    <2> QED  BY <1>3, <2>1, <2>2, Zenon
  <1>5. /\ flight' \in [Points -> Flights \cup {None}]
        /\ \A q \in Points : q[2] # c => flight'[q] = flight[q]
        /\ flight'[Client(c)] = None
        /\ flight'[Server(c)] = Flight("keyExchange", None, c)
    BY <1>0, <1>1 DEF ClientExchanges, Send, Flight, Flights
  <1>6. TypeOK'
    <2>1. ctx' \in [Points -> Contexts]
      BY <1>1, <1>2, <1>3, <1>4, Zenon
    <2> QED  BY <1>2, <1>5, <2>1, Zenon DEF IInv, TypeOK
  <1>7. \A x : Known(x) => Known(x)'
    BY ONLY <1>0, <1>1, <1>3, <1>4, NoneFacts, KnownStep, Zenon
  <1>8. Good(ctx[Client(c)].resumable)'
    <2>1. Good(ctx[Client(c)].resumable)
      BY <1>1, Zenon DEF IInv, SessionInv
    <2> QED  BY <1>4, <1>7, <2>1, Zenon DEF Good
  <1>9. /\ (ctx[Client(c)].master # None => ctx[Client(c)].master = ctx[Client(c)].id)'
        /\ (ctx[Client(c)].match => Known(ctx[Client(c)].id))'
    BY <1>0, <1>1, <1>2, <1>4, <1>7, Zenon DEF IInv, SessionInv, LocalInv, ClientInv
  <1>10. LocalInv(c)'
    <2>1. ctx'[Server(c)] = ctx[Server(c)]
      BY <1>1, <1>3, Zenon
    <2> USE <1>0, <1>1, <1>2, <1>4, <1>5, <2>1
    <2>2. ClientInv(c)'
      BY DEF LocalInv, ClientInv, ToClientInv
    <2>3. ServerInv(c)'
      BY Zenon DEF LocalInv, ServerInv, ToServerInv
    <2>4. SameInv(c)'
      BY Zenon DEF LocalInv, ClientInv, ServerInv, SameInv, ToServerInv, ToClientInv
    <2>5. ToServerInv(c)'
      BY DEF LocalInv, ClientInv, ServerInv, ToServerInv, ToClientInv, Flight
    <2>6. ToClientInv(c)'
      BY Zenon DEF LocalInv, ClientInv, ServerInv, ToServerInv, ToClientInv, Flight, IDOf
    <2> QED  BY <2>2, <2>3, <2>4, <2>5, <2>6, Zenon DEF LocalInv
  <1>11. Client(c)[2] = c
    BY Zenon
  <1> QED  BY ONLY IInv, c \in Conns, NoneFacts, <1>0, <1>1, <1>2, <1>3, <1>4, <1>5, <1>6, <1>8,
              <1>9, <1>10,
              <1>11, PointStep, Zenon

LEMMA ServerKeyExchangeStep ==
  ASSUME IInv, NEW c \in Conns, ServerKeyExchange(c)
  PROVE  IInv'
  <1> USE PointFacts, NoneFacts
  <1>1. /\ Server(c) \in Points /\ Client(c) \in Points /\ ctx[Server(c)] \in Contexts
        /\ ctx \in [Points -> Contexts] /\ flight \in [Points -> Flights \cup {None}]
        /\ flight[Server(c)] \in Flights /\ flight[Server(c)] # None
        /\ flight[Server(c)].id \in Secrets \cup {None}
        /\ flight[Server(c)].master \in Secrets \cup {None}
        /\ LocalInv(c)
    BY DEF IInv, TypeOK, ServerKeyExchange, Reads, Flights
  <1>0. /\ c \in Secrets /\ ctx[Server(c)].id = c
        /\ flight[Server(c)].master # None
    BY <1>1, Zenon DEF ServerKeyExchange, Reads, LocalInv, ServerInv, ToServerInv
  <1>2. /\ ctx[Server(c)].state = "keyExchange" /\ flight[Server(c)].type = "keyExchange"
        /\ ctx' = [ctx EXCEPT ![Server(c)] =
                     [@ EXCEPT !.state = "finished", !.master = c]]
        /\ UNCHANGED <<cache, alert, faults, dead>>
    BY Zenon DEF ServerKeyExchange, Reads
  <1>3. /\ \A q \in Points : q # Server(c) => ctx'[q] = ctx[q]
        /\ ctx'[Server(c)] =
             [ctx[Server(c)] EXCEPT !.state = "finished", !.master = c]
    BY <1>1, <1>2
  <1>4. /\ ctx'[Server(c)] \in Contexts
        /\ ctx'[Server(c)].state = "finished"
        /\ ctx'[Server(c)].resumable = ctx[Server(c)].resumable
        /\ ctx'[Server(c)].id = ctx[Server(c)].id
        /\ ctx'[Server(c)].master = c
        /\ ctx'[Server(c)].match = ctx[Server(c)].match
    <2>1. ctx'[Server(c)] \in Contexts
      BY ONLY <1>0, <1>1, <1>3, Zenon DEF Contexts, States
    <2>2. DOMAIN ctx[Server(c)] = {"state", "resumable", "id", "master", "match"}
      BY <1>1, Zenon DEF Contexts
    <2> QED  BY <1>3, <2>1, <2>2, Zenon
  <1>5. /\ flight' \in [Points -> Flights \cup {None}]
        /\ \A q \in Points : q[2] # c => flight'[q] = flight[q]
        /\ flight'[Server(c)] = Flight("finished", None, flight[Server(c)].master)
        /\ flight'[Client(c)] = flight[Client(c)]
    BY <1>0, <1>1 DEF ServerKeyExchange, Send, Flight, Flights
  <1>6. TypeOK'
    <2>1. ctx' \in [Points -> Contexts]
      BY <1>1, <1>2, <1>3, <1>4, Zenon
    <2> QED  BY <1>2, <1>5, <2>1, Zenon DEF IInv, TypeOK
  <1>7. \A x : Known(x) => Known(x)'
    BY ONLY <1>0, <1>1, <1>3, <1>4, NoneFacts, KnownStep, Zenon
  <1>8. Good(ctx[Server(c)].resumable)'
    <2>1. Good(ctx[Server(c)].resumable)
      BY <1>1, Zenon DEF IInv, SessionInv
    <2> QED  BY <1>4, <1>7, <2>1, Zenon DEF Good
  <1>9. /\ (ctx[Server(c)].master # None => ctx[Server(c)].master = ctx[Server(c)].id)'
        /\ (ctx[Server(c)].match => Known(ctx[Server(c)].id))'
    BY <1>0, <1>1, <1>2, <1>4, <1>7, Zenon DEF IInv, SessionInv
  <1>10. LocalInv(c)'
    <2>1. ctx'[Client(c)] = ctx[Client(c)]
      BY <1>1, <1>3, Zenon
    <2> USE <1>0, <1>1, <1>2, <1>4, <1>5, <2>1
    <2>2. ClientInv(c)'
      BY Zenon DEF LocalInv, ClientInv, ToClientInv
    <2>3. ServerInv(c)'
      BY DEF LocalInv, ServerInv, ToServerInv
    <2>4. SameInv(c)'
      BY Zenon DEF LocalInv, ClientInv, ServerInv, SameInv, ToServerInv, ToClientInv
    <2>5. ToServerInv(c)'
      BY DEF LocalInv, ClientInv, ServerInv, ToServerInv, ToClientInv, Flight
    <2>6. ToClientInv(c)'
      BY Zenon DEF LocalInv, ClientInv, ServerInv, ToServerInv, ToClientInv, Flight, IDOf
    <2> QED  BY <2>2, <2>3, <2>4, <2>5, <2>6, Zenon DEF LocalInv
  <1>11. Server(c)[2] = c
    BY Zenon
  <1> QED  BY ONLY IInv, c \in Conns, NoneFacts, <1>0, <1>1, <1>2, <1>3, <1>4, <1>5, <1>6, <1>8,
              <1>9, <1>10,
              <1>11, PointStep, Zenon

(* Of two ends with a secret, both have the same. *)
LEMMA SecretsMeet ==
  ASSUME IInv, NEW p \in Points, Reads(p, "finished", "finished")
  PROVE  flight[p].master = ctx[p].master
  <1> USE PointFacts, NoneFacts
  <1> DEFINE c == p[2]
  <1>1. c \in Conns /\ LocalInv(c) /\ flight[p] # None
    BY Zenon DEF IInv, Reads
  <1>2. \A q \in Points : ctx[q].master # None => ctx[q].master = ctx[q].id
    BY Zenon DEF IInv, SessionInv
  <1>3. CASE p = Client(c)
    BY <1>1, <1>2, <1>3 DEF LocalInv, ClientInv, ServerInv, SameInv, ToClientInv, Reads
  <1>4. CASE p = Server(c)
    BY <1>1, <1>2, <1>4, SMTT(30) DEF LocalInv, ClientInv, ServerInv, SameInv, ToServerInv, Reads
  <1> QED  BY <1>3, <1>4, Zenon

(* A context that only changes its state to ready or error keeps the local   *)
(* invariant, whatever of its connection's flights it consumes.              *)
LEMMA StateStep ==
  ASSUME NEW c \in Conns, LocalInv(c), NEW p \in Points, p[2] = c,
         \A q \in Points : q # p => ctx'[q] = ctx[q],
         ctx'[p].id = ctx[p].id, ctx'[p].master = ctx[p].master,
         ctx'[p].match = ctx[p].match, ctx'[p].resumable = ctx[p].resumable,
         ctx'[p].state = "error" \/ (ctx'[p].state = "ready" /\ ctx[p].state = "finished"),
         \A q \in Points :
            q[2] = c => \/ flight'[q] \in {flight[q], None}
                        \/ /\ q # p /\ ctx[p].state = "finished"
                           /\ flight'[q] = Flight("finished", None, ctx[p].master)
  PROVE  LocalInv(c)'
  <1> USE PointFacts
  <1>1. /\ ctx'[Client(c)].id = ctx[Client(c)].id /\ ctx'[Client(c)].master = ctx[Client(c)].master
        /\ ctx'[Client(c)].match = ctx[Client(c)].match
        /\ ctx'[Client(c)].resumable = ctx[Client(c)].resumable
        /\ ctx'[Server(c)].id = ctx[Server(c)].id /\ ctx'[Server(c)].master = ctx[Server(c)].master
        /\ ctx'[Server(c)].match = ctx[Server(c)].match
        /\ ctx'[Server(c)].resumable = ctx[Server(c)].resumable
    OBVIOUS
  <1>2. /\ \/ ctx'[Client(c)].state = ctx[Client(c)].state
           \/ ctx'[Client(c)].state = "error"
           \/ ctx'[Client(c)].state = "ready" /\ ctx[Client(c)].state = "finished"
        /\ \/ ctx'[Server(c)].state = ctx[Server(c)].state
           \/ ctx'[Server(c)].state = "error"
           \/ ctx'[Server(c)].state = "ready" /\ ctx[Server(c)].state = "finished"
    BY Zenon
  <1>3. ClientInv(c)'
    BY <1>1, <1>2, Zenon DEF LocalInv, ClientInv
  <1>4. ServerInv(c)'
    BY <1>1, <1>2 DEF LocalInv, ServerInv
  <1>5. SameInv(c)'
    BY <1>1, Zenon DEF LocalInv, SameInv
  <1>6. ToServerInv(c)'
    <2>1. CASE flight'[Server(c)] \in {flight[Server(c)], None}
      BY <1>1, <1>2, <2>1, SMTT(30) DEF LocalInv, ToServerInv
    <2>2. CASE /\ p = Client(c) /\ ctx[p].state = "finished"
               /\ flight'[Server(c)] = Flight("finished", None, ctx[p].master)
      BY <1>1, <2>2, SMTT(30) DEF LocalInv, ClientInv, ToServerInv, Flight
    <2> QED  BY <2>1, <2>2, Zenon
  <1>7. ToClientInv(c)'
    <2>1. CASE flight'[Client(c)] \in {flight[Client(c)], None}
      BY <1>1, <2>1, Zenon DEF LocalInv, ToClientInv
    <2>2. CASE /\ p = Server(c) /\ ctx[p].state = "finished"
               /\ flight'[Client(c)] = Flight("finished", None, ctx[p].master)
      BY <1>1, <2>2 DEF LocalInv, ServerInv, ToClientInv, Flight
    <2> QED  BY <2>1, <2>2, Zenon
  <1> QED  BY <1>3, <1>4, <1>5, <1>6, <1>7, Zenon DEF LocalInv

(* The part that Finished, ProcessAlert and Break have in common. *)
LEMMA EndStep ==
  ASSUME IInv, NEW c \in Conns, NEW p \in Points, p[2] = c,
         NEW s \in {"ready", "error"},
         ctx' = [ctx EXCEPT ![p] = [@ EXCEPT !.state = s]],
         s = "ready" => ctx[p].state = "finished",
         flight' \in [Points -> Flights \cup {None}],
         \A q \in Points : q[2] # c => flight'[q] = flight[q],
         \A q \in Points :
            q[2] = c => \/ flight'[q] \in {flight[q], None}
                        \/ /\ q # p /\ ctx[p].state = "finished"
                           /\ flight'[q] = Flight("finished", None, ctx[p].master),
         cache' \in [Ends -> Sessions \cup {None}],
         \A e \in Ends : \/ cache'[e] \in {cache[e], None}
                         \/ /\ ctx[p].master # None /\ Known(ctx[p].id)
                            /\ cache'[e] = Session(ctx[p].id, ctx[p].master),
         alert' \in [Points -> BOOLEAN], dead' \in [Ends -> SUBSET Secrets],
         faults \subseteq faults', faults' \subseteq Conns,
         \A q \in Points : alert'[q] => alert[q] \/ q[2] \in faults',
         s = "error" => c \in faults'
  PROVE  IInv'
  <1> USE PointFacts
  <1>1. /\ ctx[p] \in Contexts /\ ctx \in [Points -> Contexts] /\ LocalInv(c)
        /\ \A q \in Points : q # p => ctx'[q] = ctx[q]
        /\ ctx'[p] = [ctx[p] EXCEPT !.state = s]
    BY DEF IInv, TypeOK
  <1>2. /\ ctx'[p] \in Contexts /\ ctx'[p].state = s
        /\ ctx'[p].id = ctx[p].id /\ ctx'[p].master = ctx[p].master
        /\ ctx'[p].match = ctx[p].match /\ ctx'[p].resumable = ctx[p].resumable
    BY <1>1, SMTT(30) DEF Contexts, States
  <1>3. TypeOK'
    <2>1. ctx' \in [Points -> Contexts]
      BY <1>1, <1>2
    <2> QED  BY <2>1, Zenon DEF TypeOK
  <1>4. LocalInv(c)'
    BY <1>1, <1>2, StateStep
  <1>5. \A x : Known(x) => Known(x)'
    BY ONLY p \in Points, <1>1, <1>2, KnownStep, Zenon
  <1>6. /\ Good(ctx[p].resumable)'
        /\ (ctx[p].master # None => ctx[p].master = ctx[p].id)'
        /\ (ctx[p].match => Known(ctx[p].id))'
    BY <1>2, <1>5 DEF IInv, SessionInv, Good
  <1>7. \A e \in Ends : cache'[e] = cache[e] \/ Good(cache[e])'
    BY <1>5 DEF IInv, SessionInv, Good, Session
  <1>8. /\ ctx[p].master # None => ctx'[p].master # None
        /\ ctx'[p].state = "error" => c \in faults'
    BY <1>2, Zenon
  <1>9. SessionInv'
    BY ONLY IInv, p \in Points, <1>1, <1>6, <1>7, <1>8, SessionStep, Zenon DEF IInv
  <1>10. \A q \in Points : q[2] # c => ctx'[q] = ctx[q] /\ flight'[q] = flight[q]
    BY <1>1, Zenon
  <1>11. \A d \in Conns : LocalInv(d)'
    BY ONLY IInv, c \in Conns, <1>4, <1>10, LocalOthers, Zenon DEF IInv
  <1>12. FaultInv'
    BY <1>1, <1>8 DEF IInv, FaultInv
  <1> QED  BY <1>3, <1>9, <1>11, <1>12, Zenon DEF IInv

LEMMA FinishedStep ==
  ASSUME IInv, NEW p \in Points, Finished(p)
  PROVE  IInv'
  <1> USE PointFacts, NoneFacts
  <1>1. /\ flight[p].master = ctx[p].master /\ ctx[p].state = "finished" /\ flight[p] # None
        /\ flight[p].type = "finished"
    BY SecretsMeet, Zenon DEF Finished, Reads
  <1>2. /\ ctx' = [ctx EXCEPT ![p] = [@ EXCEPT !.state = "ready"]]
        /\ cache' = [cache EXCEPT ![p[1]] = Session(ctx[p].id, ctx[p].master)]
        /\ UNCHANGED <<alert, dead, faults>>
        /\ Consume(p) \/ Send(p, Flight("finished", None, ctx[p].master))
    BY <1>1, Zenon DEF Finished
  <1>3. /\ ctx[p] \in Contexts /\ p[2] \in Conns /\ LocalInv(p[2])
        /\ ctx[p].master \in Secrets /\ ctx[p].id = ctx[p].master
    <2>1. ctx[p] \in Contexts /\ p[2] \in Conns /\ LocalInv(p[2])
      BY Zenon DEF IInv, TypeOK
    <2>2. ctx[p].master # None
      BY <1>1, <2>1, Zenon DEF LocalInv, ClientInv, ServerInv
    <2>3. ctx[p].id = ctx[p].master
      BY <2>2, Zenon DEF IInv, SessionInv
    <2> QED  BY <2>1, <2>2, <2>3, Zenon DEF Contexts
  <1>4. Known(ctx[p].id)
    <2>1. CASE ctx[p].match
      BY <2>1, Zenon DEF IInv, SessionInv
    <2>2. CASE ~ctx[p].match /\ p = Client(p[2])
      BY <1>1, <1>3, <2>2, SMTT(30) DEF Known, LocalInv, ClientInv
    <2>3. CASE ~ctx[p].match /\ p = Server(p[2])
      BY <1>1, <1>3, <2>3 DEF Known, LocalInv, ServerInv, ToServerInv
    <2> QED  BY <1>3, <2>1, <2>2, <2>3, Zenon
  <1>5. /\ flight' \in [Points -> Flights \cup {None}]
        /\ \A q \in Points : q[2] # p[2] => flight'[q] = flight[q]
        /\ \A q \in Points :
            q[2] = p[2] => \/ flight'[q] \in {flight[q], None}
                           \/ /\ q # p /\ ctx[p].state = "finished"
                              /\ flight'[q] = Flight("finished", None, ctx[p].master)
    <2>1. CASE Consume(p)
      BY <2>1 DEF Consume, IInv, TypeOK
    <2>2. CASE Send(p, Flight("finished", None, ctx[p].master))
      <3>1. Flight("finished", None, ctx[p].master) \in Flights
        BY <1>3, Zenon DEF Flight, Flights
      <3> QED  BY <1>1, <2>2, <3>1 DEF Send, IInv, TypeOK
    <2> QED  BY <1>2, <2>1, <2>2, Zenon
  <1>6. /\ cache' \in [Ends -> Sessions \cup {None}]
        /\ \A e \in Ends : \/ cache'[e] \in {cache[e], None}
                           \/ /\ ctx[p].master # None /\ Known(ctx[p].id)
                              /\ cache'[e] = Session(ctx[p].id, ctx[p].master)
    BY <1>2, <1>3, <1>4 DEF IInv, TypeOK, Session, Sessions
  <1>7. /\ alert' \in [Points -> BOOLEAN] /\ dead' \in [Ends -> SUBSET Secrets]
        /\ faults' = faults /\ faults' \subseteq Conns /\ alert' = alert
    BY <1>2, Zenon DEF IInv, TypeOK
  <1>8. /\ faults \subseteq faults'
        /\ \A q \in Points : alert'[q] => alert[q] \/ q[2] \in faults'
    BY <1>7, Zenon
  <1> QED  BY ONLY IInv, p \in Points, <1>1, <1>2, <1>3, <1>5, <1>6, <1>7, <1>8, EndStep, ZenonT(40)

(* ProcessAlert and FatalSessionAlert delete the session and end the connection. *)
LEMMA DeleteFacts ==
  ASSUME IInv, NEW p \in Points,
         cache' = [cache EXCEPT ![p[1]] = None],
         dead' = [dead EXCEPT ![p[1]] = @ \cup ({ctx[p].id} \ {None})]
  PROVE  /\ cache' \in [Ends -> Sessions \cup {None}]
         /\ \A e \in Ends : cache'[e] \in {cache[e], None}
         /\ dead' \in [Ends -> SUBSET Secrets]
  BY PointFacts DEF IInv, TypeOK, Contexts

LEMMA ProcessAlertStep ==
  ASSUME IInv, NEW p \in Points, ProcessAlert(p)
  PROVE  IInv'
  <1>1. /\ ctx' = [ctx EXCEPT ![p] = [@ EXCEPT !.state = "error"]]
        /\ cache' = [cache EXCEPT ![p[1]] = None]
        /\ dead' = [dead EXCEPT ![p[1]] = @ \cup ({ctx[p].id} \ {None})]
        /\ flight' = flight /\ faults' = faults /\ alert[p]
        /\ alert' = [alert EXCEPT ![p] = FALSE]
    BY Zenon DEF ProcessAlert
  <1>2. /\ cache' \in [Ends -> Sessions \cup {None}]
        /\ \A e \in Ends : cache'[e] \in {cache[e], None}
        /\ dead' \in [Ends -> SUBSET Secrets]
    BY <1>1, DeleteFacts, Zenon
  <1>3. /\ alert' \in [Points -> BOOLEAN] /\ p[2] \in Conns /\ p[2] \in faults'
        /\ faults' \subseteq Conns /\ faults \subseteq faults'
        /\ \A q \in Points : alert'[q] => alert[q] \/ q[2] \in faults'
        /\ flight' \in [Points -> Flights \cup {None}]
    BY <1>1, PointFacts DEF IInv, TypeOK, FaultInv
  <1> QED  BY ONLY IInv, p \in Points, <1>1, <1>2, <1>3, EndStep, Zenon

(* A fatal alert of a connection that the environment broke, sent or not. *)
LEMMA FatalStep ==
  ASSUME IInv, NEW p \in Points, FatalSessionAlert(p), flight' = flight,
         faults' = faults \cup {p[2]}
  PROVE  IInv'
  <1>1. /\ ctx' = [ctx EXCEPT ![p] = [@ EXCEPT !.state = "error"]]
        /\ cache' = [cache EXCEPT ![p[1]] = None]
        /\ dead' = [dead EXCEPT ![p[1]] = @ \cup ({ctx[p].id} \ {None})]
        /\ alert' = alert \/ alert' = [alert EXCEPT ![Peer(p)] = TRUE]
    BY Zenon DEF FatalSessionAlert
  <1>2. /\ cache' \in [Ends -> Sessions \cup {None}]
        /\ \A e \in Ends : cache'[e] \in {cache[e], None}
        /\ dead' \in [Ends -> SUBSET Secrets]
    BY <1>1, DeleteFacts, Zenon
  <1>3. /\ alert' \in [Points -> BOOLEAN] /\ p[2] \in Conns /\ p[2] \in faults'
        /\ faults' \subseteq Conns /\ faults \subseteq faults'
        /\ \A q \in Points : alert'[q] => alert[q] \/ q[2] \in faults'
        /\ flight' \in [Points -> Flights \cup {None}]
    <2>1. p[2] \in Conns /\ Peer(p) \in Points /\ Peer(p)[2] = p[2] /\ alert \in [Points -> BOOLEAN]
      BY PointFacts, Zenon DEF IInv, TypeOK
    <2>2. /\ p[2] \in faults' /\ faults' \subseteq Conns /\ faults \subseteq faults'
          /\ flight' \in [Points -> Flights \cup {None}]
      BY <2>1, Zenon DEF IInv, TypeOK
    <2>3. CASE alert' = alert
      BY <2>1, <2>2, <2>3, Zenon
    <2>4. CASE alert' = [alert EXCEPT ![Peer(p)] = TRUE]
      BY <2>1, <2>2, <2>4
    <2> QED  BY <1>1, <2>3, <2>4, Zenon
  <1> QED  BY ONLY IInv, p \in Points, <1>1, <1>2, <1>3, flight' = flight, EndStep, Zenon

LEMMA BreakStep ==
  ASSUME IInv, NEW p \in Points, Break(p)
  PROVE  IInv'
  BY FatalStep, Zenon DEF Break

LEMMA DisconnectedStep ==
  ASSUME IInv, NEW p \in Points, Disconnected(p)
  PROVE  IInv'
  <1>1. Peer(p) \in Points /\ Peer(p)[2] = p[2] /\ p[2] \in Conns
    BY PointFacts DEF Peer
  <1>2. p[2] \in faults /\ flight' = flight /\ faults' = faults
    BY <1>1, Zenon DEF Disconnected, IInv, FaultInv
  <1>3. CASE FatalSessionAlert(p)
    <2>1. faults' = faults \cup {p[2]}
      BY <1>2
    <2> QED  BY <1>2, <1>3, <2>1, FatalStep, Zenon
  <1>4. CASE /\ ctx' = [ctx EXCEPT ![p] = [@ EXCEPT !.state = "error"]]
             /\ UNCHANGED <<cache, dead, alert>>
    <2>1. /\ cache' \in [Ends -> Sessions \cup {None}]
          /\ \A e \in Ends : cache'[e] \in {cache[e], None}
          /\ dead' \in [Ends -> SUBSET Secrets]
          /\ alert' \in [Points -> BOOLEAN] /\ p[2] \in faults'
          /\ faults' \subseteq Conns /\ faults \subseteq faults'
          /\ \A q \in Points : alert'[q] => alert[q] \/ q[2] \in faults'
          /\ flight' \in [Points -> Flights \cup {None}]
      BY <1>2, <1>4, Zenon DEF IInv, TypeOK
    <2> QED  BY ONLY IInv, p \in Points, <1>1, <1>2, <1>4, <2>1, EndStep, Zenon
  <1> QED  BY <1>3, <1>4, Zenon DEF Disconnected

LEMMA ExpireStep ==
  ASSUME IInv, NEW e \in Ends, Expire(e)
  PROVE  IInv'
  <1>1. /\ cache' = [cache EXCEPT ![e] = None]
        /\ UNCHANGED <<ctx, flight, alert, faults, dead>>
    BY Zenon DEF Expire
  <1>2. TypeOK'
    BY <1>1, Zenon DEF IInv, TypeOK
  <1>3. SessionInv'
    BY <1>1, Zenon DEF IInv, TypeOK, SessionInv, Good, Known
  <1>4. \A d \in Conns : LocalInv(d)'
    BY <1>1, LocalFrame, Zenon DEF IInv
  <1>5. FaultInv'
    BY <1>1, Zenon DEF IInv, FaultInv
  <1> QED  BY <1>2, <1>3, <1>4, <1>5, Zenon DEF IInv

-----------------------------------------------------------------------------
LEMMA InitInv == Init => IInv
  <1> SUFFICES ASSUME Init PROVE IInv
    BY Zenon
  <1> USE PointFacts, NoneFacts
  <1>1. TypeOK
    BY SMTT(30) DEF Init, TypeOK, Fresh, Contexts, States, Sessions, Session
  <1>2. SessionInv
    BY SMTT(30) DEF Init, SessionInv, Good, Known, Fresh, Session
  <1>3. \A c \in Conns : LocalInv(c)
    BY Zenon DEF Init, LocalInv, ClientInv, ServerInv, SameInv, ToServerInv, ToClientInv, Fresh
  <1>4. FaultInv
    BY Zenon DEF Init, FaultInv, Fresh
  <1> QED  BY <1>1, <1>2, <1>3, <1>4, Zenon DEF IInv

LEMMA StutterInv ==
  ASSUME IInv, UNCHANGED vars
  PROVE  IInv'
  <1>1. UNCHANGED <<ctx, cache, flight, alert, faults, dead>>
    BY Zenon DEF vars
  <1>2. TypeOK' /\ FaultInv'
    BY <1>1, Zenon DEF IInv, TypeOK, FaultInv
  <1>3. SessionInv'
    BY <1>1, Zenon DEF IInv, SessionInv, Good, Known
  <1>4. \A d \in Conns : LocalInv(d)'
    BY <1>1, LocalFrame, Zenon DEF IInv
  <1> QED  BY <1>2, <1>3, <1>4, Zenon DEF IInv

(* The inductive invariant holds in every state. *)
THEOREM Invariant == Spec => []IInv
  <1>1. IInv /\ [Next]_vars => IInv'
    <2> SUFFICES ASSUME IInv, [Next]_vars PROVE IInv'
      BY Zenon
    <2>1. ASSUME NEW c \in Conns, Progress(c) PROVE IInv'
      <3>1. \A e \in Ends : <<e, c>> \in Points
        BY Zenon DEF Points
      <3> QED  BY <2>1, <3>1, ClientInitStep, ServerInitStep, ServerResumesStep, ServerStartsStep,
                  ClientResumesStep, ClientExchangesStep, ServerKeyExchangeStep, FinishedStep,
                  ProcessAlertStep, DisconnectedStep, Zenon DEF Progress
    <2>2. ASSUME NEW p \in Points, Break(p) PROVE IInv'
      BY <2>2, BreakStep, Zenon
    <2>3. ASSUME NEW e \in Ends, Expire(e) PROVE IInv'
      BY <2>3, ExpireStep, Zenon
    <2>4. CASE UNCHANGED vars
      BY <2>4, StutterInv, Zenon
    <2> QED  BY <2>1, <2>2, <2>3, <2>4, Zenon DEF Next
  <1> QED  BY InitInv, <1>1, PTL DEF Spec

(* For any number of connections, the two ends of each agree whether a session *)
(* is resumed, which one, and on its secret, whatever happens to the caches.   *)
THEOREM EndsAgree == Spec => []SameCourse
  <1>1. IInv => SameCourse
    <2> SUFFICES ASSUME IInv, NEW c \in Conns, ctx[Client(c)].id # None
                 PROVE  /\ ctx[Client(c)].id = ctx[Server(c)].id
                        /\ ctx[Client(c)].match = ctx[Server(c)].match
                        /\ ctx[Server(c)].master # None
                             => ctx[Client(c)].master = ctx[Server(c)].master
      BY Zenon DEF SameCourse
    <2>1. LocalInv(c) /\ Client(c) \in Points /\ Server(c) \in Points
      BY PointFacts, Zenon DEF IInv
    <2> QED  BY <2>1, Zenon DEF IInv, SessionInv, LocalInv, SameInv, ClientInv
  <1> QED  BY Invariant, <1>1, PTL

(* For any number of connections, only one the environment broke ends in an *)
(* error: no fatal alert, deletion or replacement of a cached session on    *)
(* one connection makes another one fail.                                   *)
THEOREM NoFailureSpreads == Spec => []FailuresExplained
  <1>1. IInv => FailuresExplained
    BY Zenon DEF IInv, FaultInv, FailuresExplained
  <1> QED  BY Invariant, <1>1, PTL

=============================================================================
