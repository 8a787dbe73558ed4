# TLA+ models of the TLS 1.2 SecureTransport rebuild

This directory specifies the TLS engine of the repository, the rebuilt
`libsecurity_ssl-55002/lib` (SSL 3.0 and TLS 1.0 to 1.2 for Mac OS X 10.6), in
TLA+. TLC checks the modules on small instances and TLAPS proves the main safety
properties for every value of the constants. Paths below are relative to `src/`,
and file names without a directory are in `libsecurity_ssl-55002/lib`.

## The system and its parts

An application creates an `SSLContext`, sets its options, and calls `SSLHandshake`
until it returns success, then `SSLRead` and `SSLWrite`, then `SSLClose`. All calls
on one context are made by one thread at a time. I/O is by callbacks that may block,
so each call may return `errSSLWouldBlock` at any record and is called again.

| Part | Source | Here |
|---|---|---|
| API calls and their loops | `sslTransport.c` | `Handshake` |
| Handshake state machine | `sslHandshake.c`, `sslHandshakeHello.c`, `sslHandshakeFinish.c`, `sslChangeCipher.c` | `Handshake` |
| Certificates, client authentication | `sslCert.c` | `Handshake` |
| Alerts | `sslAlertMessage.c` | `Handshake` |
| Session save and install | `sslSession.c` | `Handshake` |
| Handshake message reassembly | `sslHandshake.c` (`SSLProcessHandshakeRecord`) | `Reassembly` |
| Resumable-session cache, shared by all contexts of the process | `appleSession.c` | `SessionMap`, `SessionCache` |
| Key exchange | `sslKeyExchange.c` | order of messages and pending ciphers in `Handshake` |
| Version negotiation, cipher suites, context setters | `sslUtils.c`, `sslContext.c`, `cipherSpecs.c` | outcomes only, as configurations of `Handshake` |
| Record layer, write queue, partial I/O | `sslRecord.c`, `ssl3Callouts.c`, `sslTransport.c` | byte by byte in `Transport`, which implements `ByteStream`; whole records in `Handshake` |
| A client and a server together | the above | `Connection` |
| Resumption by several connections at once | `sslSession.c`, `sslHandshake.c`, `sslAlertMessage.c`, `appleSession.c` | `Resumption` |
| Set-up of libcrypto, shared by all threads of the process | `src/tls12_chainverify.c` | `LibcryptoInit` |
| TLS 1.2 records, AES-GCM | `tls12Callouts.c`, `sslGcm*.c` | effect on queue and stream in `Transport`; the bytes are not modelled |
| SSL 3.0 / TLS 1.0 MACs and records | `ssl3Callouts.c`, `tls1Callouts.c`, `tls_hmac.c` | likewise |
| Chain evaluation | `tls12_chainverify.c`, `tls12_trust.c`, `appleCdsa.c` | either outcome, in `Handshake` |
| SSL 2.0 | `ssl2*.c` | not modelled |
| Digests, memory, BER, keychain glue, C++ wrapper | `sslDigests.c`, `sslMemory.c`, ... | no protocol state; not modelled |
| Runtime patcher, build and install scripts, securityd, other vendored components, test programs | top level | not modelled |

`PROJECT.json` has the full list with a status for each part, and the hazards of
the code at the lines where they bite.

How the parts meet: `SSLHandshake`, `SSLRead` and `SSLWrite` loop over
`SSLHandshakeProceed` while a cipher is not ready. It first returns a pending
server-authentication signal, then lets `SSLAdvanceHandshake` send the next flight,
then reads a record. Handshake records go through reassembly to
`SSLProcessHandshakeMessage` and on to `SSLAdvanceHandshake`. A completed handshake
stores its session in the cache under the context's `peerID`. The next connection
with that `peerID` installs it, and a fatal alert deletes it. Once both ciphers are
ready, `SSLWrite` cuts data into records, which `SSLServiceWriteQueue` hands to the
transport, and `SSLRead` puts records together with `SSLReadRecord`. AES-GCM and chain
evaluation get libcrypto from `tls12_libcrypto_handle`.

The modules meet as the parts do. `Connection` has two instances of `Handshake`.
`Resumption` takes a cache access as one step, which the refinement of `SessionMap` by
`SessionCache` justifies, and a connection's messages in the order that `Handshake`
has. `Handshake` and `Connection` take a record as sent and received whole, which the
refinement of `ByteStream` by `Transport` justifies.

## Modules

### Session cache: `SessionCacheOps`, `SessionMap`, `SessionCache`

`SessionCacheOps` has the interface of `appleSession.c`: arguments, lifetimes,
staleness. `SessionMap` is the abstract specification. It is a map from keys to data
with an expiration, on which each of `sslAddSession`, `sslGetSession`,
`sslDeleteSession` and `sslCleanupSession` takes effect at one instant between call
and return.

`SessionCache` is the code: a linked list created on first use, one process-wide
mutex, and loops that take a step per node. The clock may move between any two
steps. Each thread has a program counter, a cursor and, in a cleanup, its reading of
the clock. `AddHit` keeps the old expiration, `LookupStale` deletes the entry it
meets, and a cleanup unlinks while it walks, as in the code.

The refinement mapping (`Abstract`) is not the identity on the list. A cleanup takes
effect when it reads the clock, so the stale entries it has yet to reach (`Doomed`)
are already absent from the abstract map. Nobody can tell while the mutex is held.

### One context with an arbitrary peer: `Handshake`

The variables are the fields of `SSLContext` that decide what happens: `state`, the
negotiated version, the four ciphers with the two `ready` flags, the session, the
certificate flags, `signalServerAuth`, `sentFatalAlert`. There is also the API call
in progress and whether the record being processed holds more messages. Three
history variables serve the properties only: `peerVerified`, `authReported`,
`possession`.

There is one action per message of `SSLProcessHandshakeMessage`, each including the
`SSLAdvanceHandshake` call that follows it, and one per API step: call, block,
signal, send, return, close, disconnect. An action covers the whole handler. For
instance `ServerHelloDone` sends the client's flight, switches the write cipher and
sends Finished, unless the client must break for server authentication. The error
exits differ by call: `SSLRead` and `SSLWrite` close the context and `SSLHandshake`
does not (`Shut`).

The peer may send any message, well formed or not, in any order and in any packing,
under the current keys or in the clear, and may disconnect. So the safety properties
do not depend on the other end being this library.

Data is abstracted as follows.

* Keys are named by the master secret they derive from; the handshake hash is the
  sequence of messages; a session ID, a certificate chain and a premaster secret are
  opaque. A signature or a chain is accepted or refused (`Bad`).
* Alert descriptions are grouped by effect. A record carries one alert
  (`SSLProcessAlert` loops over several). A fatal-level `no_certificate` is left
  out. Fatal alerts of unknown description are grouped with the failures.
* The type of client authentication is one the client's key signs for, one of fixed
  ECDH (`sslContext.c:68`), which sends no CertificateVerify, or none. The client sends
  its CertificateVerify in every version: the assertion at `sslCert.c:543` that names
  SSL 3.0 and TLS 1.0 is compiled out of release builds.
* The options are fixed before the first call (`cfg`), and an application's first
  call is `SSLHandshake`. Allocation failures, local failures of the crypto library,
  session tickets and SSL 2.0 hellos are left out.

A `close_notify` of the peer does not always end a call. `SSLProcessAlert` answers it
through `SSLClose` and reports no error (`sslAlertMessage.c:198`, 'the clean "we're done"
case'). `SSLRead` then looks at the state before it reads on, but the loops that wait for
a cipher, in all three calls, look at the ready flags only. So a peer that goes on is
still read, and since a HelloRequest is legal in every state of a client
(`sslHandshake.c:157`), one that follows the `close_notify` starts a new handshake in the
closed context. From then on `SSLSendAlert` sends nothing, as the last alert was sent, and
errors go to the caller alone (`Unanswered`). No line of the repository says that
this must not happen. `SilentAfterClose` and `ClosedIsFinal` are stated so that they allow
exactly this case, and hold in all others.

### Reassembly: `Reassembly`

`SSLProcessHandshakeRecord` at the level of bytes, with `fragmentedMessageCache`
and the return to the application that ends the loop early. The peer's messages are one
stream of bytes (`Stream`, with the ends of the messages in `Bounds`); the three length bytes
of a message are one. `setup` says how the peer cuts the stream into records and after
which messages `SSLHandshake` returns. It returns inside a record, at ServerHelloDone, only
while the server's certificate is still to be reported (`signal`, the code's
`signalServerAuth`). If the certificate came in an earlier record, `SSLHandshakeProceed` has
reported it between the two (`SignalServerAuth`). `processed` is a history of the bytes of the
messages handed to `SSLProcessHandshakeMessage`.

### After the handshake: `Transport` and `ByteStream`

`Transport` has one endpoint in the ready state and every byte that passes it.
`SSLRead`, `SSLWrite` and `SSLClose` are split where they call the transport or the
queue. `call.at` is that place. The write callback may take any part of a record and
block, fail, or say that the connection was closed (`errSSLClosedGraceful`, which
`SSLRead` and `SSLWrite` pass on without closing the context). The read callback may deliver any part of what it is asked for and
block, fail, or find the connection closed, in a header or a payload as well as
between two records. The stream the transport presents may repeat or drop records, or
hold a record of a bad type or length.

A byte is its position, so an observer (`Take`) can tell whether the byte that arrives
is the next one; it turns `Garbled` and stays so otherwise. A record's MAC is modelled
by what it vouches for: these bytes, with this sequence number (`Verifies`). A call that
blocks returns, and the application calls again with any length. `had` remembers what `SSLGetBufferedReadSize` would have
said when the call began.

`ByteStream` is the abstract specification: bytes accepted, bytes transmitted, bytes
received, closed or not. The mapping takes `peerGot` for what was transmitted: the data
of the records that are wholly on the wire.

Left out: renegotiation during the transfer (`Handshake` has it, at the level of
records, for a client and an arbitrary peer), the one byte read ahead while the version is undetermined, SSL 2.0
records, an `SSLWrite` of no bytes, and allocation failure.

### Two endpoints: `Connection`

Two copies of the whole of `Handshake` (`INSTANCE ... WITH` for the server's variables).
Each record one of them puts out is received by the other in order. A call that reads
may return `errSSLWouldBlock` at any time. Once a side is closed and all it sent was
read, the other finds the connection closed. A pair is set up so that version and key
exchange match. Each side may have a session of an earlier connection, the same one,
another one or none. There is one handshake: a server of this library never sends a
HelloRequest, so data that meets a renegotiation is outside this module.

### Connections that share a session: `Resumption`

Any number of connections from one client process to one server process, with one
`peerID`. A step is what an end does between two accesses to the cache of its process:
the lookup in `SSLInitConnection`, the comparison with the ID in the hello, the delete
of a server that was offered another session, `SSLAddSessionData` at Finished, and the
deletes of `SSLFatalSessionAlert` and `SSLProcessAlert`. Entries expire at any time and
any connection may be broken at any time (`Break`). An end that fails before it has read
the peer's hello sends no alert, since its version is undetermined (`SSLSendAlert`). The
other end then finds the connection closed (`Disconnected`). A session is named by the
connection that made it, since a server takes its ID from random bytes. All
connections have the same version here.

### The set-up of libcrypto: `LibcryptoInit`

`tls12_libcrypto_handle` for several threads at once: `pthread_once`, then the steps of
`tls12_init_libcrypto_once`, each of which may fail, then the work in libcrypto, which
takes its locks through whatever callback is in force. Another library of the process
may set its own callback at any time. If it does so while a thread is inside libcrypto
(`disturbed`), that thread holds a lock the next one does not ask for, and nothing in the
code can prevent it; `Exclusive` holds up to that moment. The other three properties do not
depend on it. Left out are `tls12ExtractRSAPubKey` (`src/tls12_chainverify.c:864`), which opens
libcrypto by itself and whose calls are therefore not covered, the threads of the other
library, and one that takes its callback away again.

## Runs

Every property of a passing run comes with a changed definition, recorded under
`mutants` in `PROJECT.json`, that breaks it: a dropped guard, a missing reset, a
skipped node.

| Run | Distinct states | What it shows |
|---|---|---|
| `cache` | 157,775 | No key is cached twice, a delete leaves no entry of its key, a cleanup skips no stale entry, a re-added session keeps its expiration, the list implements the map (`Linearizable`), and a thread that holds the mutex releases it (`LockReleased`). |
| `endpoint` | 258,411 | In its first handshake a client resumes only what the ServerHello named; a client that breaks on server authentication sends its key exchange only after its caller was told of the certificate; a ready server has proof of possession for any client certificate, and a certificate when it insists on one. |
| `renegotiation` | 52,578 | With HelloRequests at any moment: ready implies verified, with both directions under the same keys; the assertion in `SSLHandshakeProceed` holds; data never leaves under the null cipher; the cache holds the session in use; a fatal alert is the last record, no alert follows a `close_notify`, and only a new handshake does (`SilentAfterClose`); a context closed when a call returns never opens again (`ClosedIsFinal`). |
| `reassembly` | 166 | No byte is lost or processed twice, and every message arrives. |
| `transport` | 66,886 | Every byte comes out in its place in both directions (`InOrder`, `ImplementsByteStream`); an honest peer is never refused, however its records are cut; `SSLGetBufferedReadSize` keeps its promise; `SSLRead` returns data or an error; with a transport that makes progress everything is delivered, transmitted and, after a close, drained. |
| `connection` | 18,305 | Two endpoints agree on secret, version, course, session and certificates when they are ready, never refuse each other unless their set-up cannot work, never meet data with a handshake, both become ready or close, and neither is left behind by the other's close. |
| `resumption` | 38,156 | Whatever other connections do to the caches, the two ends of a connection agree on the session, on resuming it and on its secret; a connection fails only if it was broken itself; every handshake ends. |
| `libcrypto_init` | 43,763 | Who has the handle finds a callback in force and the registrations over; no two threads work on the same tables, unless another library changed the callback under a thread at work; a set-up that fails leaves nothing behind; every call returns. |

`resumption` bears on the known open issue of the repository's README
("TLS 1.2 session resumption fails intermittently under concurrent load",
`README.md:147`): the caches and the order of the messages are not its cause. What
`Resumption` abstracts from is where it may still lie: the stored bytes, the key
derivation, or one context used by two threads.

Four runs end in a counterexample and show where the code and a line of its own
documentation part (see `findings`):

* `sent_cert_is_proved`: a client whose certificate is of no type the server offered
  sends it and then no CertificateVerify, against the comment at `sslCert.c:94`.
* `tail_is_leaf`: `peerCert` is not emptied when a handshake starts over. Its tail,
  which `sslKeyExchange.c:306` takes for the leaf, stays the first handshake's leaf.
* `reassembly_after_break`: if ServerHelloDone was put together in the cache,
  `SSLHandshake` returns for server authentication without emptying it. The next
  record is appended behind messages that were processed before.
  `SecureTransport.h:859` says the client may continue by calling again.
* `unresumable`: the comment at `sslAlertMessage.c:329` has a fatal alert "make session
  unresumable". A second connection that resumed the same session stores it again when
  its handshake completes.

A further disagreement shows in `connection` and has no run of its own: a server sends a
CertificateRequest in TLS 1.2 as well, in the form of TLS 1.0, where the assertion at
`sslCert.c:351` (compiled out of release builds) allows SSL 3.0 and TLS 1.0 only. The
library's own client cannot parse it. `CannotWork` lists the case.

One more case is visible in `Reassembly` and is not a run, since no line of the
repository says what should happen. It needs `Setups <- CutAnywhere`: a record that
ends one message and begins another. The remainder is then copied from the start of
the record (`sslHandshake.c:136`), or a cache in use keeps what was processed.
`NothingLost` fails there, so `reassembly` is about peers that do not cut records so.

### Bounds

* Cache: two threads, two keys, two blobs, the default lifetime 1, clock to 2. Two
  threads give every pair of operations; two keys give a list in which an entry has a
  neighbour; the clock outlives the lifetime of an entry made at its start and not of
  one made later.
* `Handshake`: at most two messages of a type in a handshake (`MaxRepeat`), one or
  two hellos sent (`MaxStarts`), at most one data record (`MaxWrites`). Two of a
  type show what a repetition does; two hellos give one renegotiation. `endpoint` has
  clients and servers of SSL 3.0 and TLS 1.2 with the key exchanges RSA, DHE and
  anonymous: what is modelled tells SSL 3.0 from TLS, and TLS 1.2 from the others
  only in how a CertificateRequest is encoded. DHE is in TLS 1.2 only, since what SSL 3.0
  does differently, a client's answer to a CertificateRequest, is the same for RSA and
  DHE. So is a client's anonymous exchange, in which it refuses a CertificateRequest.
  `renegotiation` has two secrets and the anonymous exchange, whose messages are the
  fewest; the others are in the proofs. `endpoint` has one hello and so no HelloRequest:
  that `ServerAuthReported` holds in a renegotiation with certificates is shown by its
  proof alone, and so is what happens to a certificate in a reopened context
  (`Unanswered`). The sessions in the cache include one of a version that is not enabled.
  `endpoint` uses symmetry on two session IDs that occur nowhere else; it checks no
  liveness.
* `Reassembly`: two flights of six messages with bodies of zero to three bytes, cut
  at every byte.
* `Transport`: records of at most one byte of data are written (`MaxRecord`), so that a
  write of two is fragmented; the peer's records hold up to three, so that reads of two
  leave data over. Streams: alerts and an empty record before a close_notify, two data
  records, one repeated, one dropped, a fatal alert, a bad type, a bad length. Every cut
  of every record and every partial write happens.
* `Connection`: thirteen pairs with every kind of client authentication, a session that
  both have, one the server has replaced or lost, and none; one handshake, one data
  record from each side.
* `Resumption`: two connections and one earlier session: one connection to look a
  session up and one to delete, replace or restore it meanwhile.
* `LibcryptoInit`: three threads and two locks: one runs the set-up, one waits, one works;
  one lock is the registry's and one is not.

Deadlock is checked for the cache, `Transport`, `Connection` and `LibcryptoInit`, where an
application can always make another call. It is not for `Handshake`, `Reassembly` and
`Resumption`, where a connection really ends.

### Fairness

* `LockReleased`: weak fairness of the steps of the thread that holds the mutex. The
  code under the lock makes no blocking call, so a scheduled thread goes on. Nothing is
  assumed of the mutex, so nothing is claimed about a waiting thread.
* `AllDelivered`: weak fairness of `Next`. The peer sends what it has, and the application
  calls again after an early return.
* `Transport`: the application keeps calling `SSLRead` and, once closed, `SSLClose`. The
  library's own steps are taken (weak fairness). A transport that is asked again and
  again takes or delivers all it was asked for in the end (strong fairness, since a call
  that blocked returns and the request is withdrawn until the next call). Without it a
  transport may block for ever, and the API promises nothing then.
* `Connection`: the same for both ends, with calls of `SSLHandshake` until it is ready.
* `Resumption`: weak fairness of each connection's progress; its steps stay enabled until
  they are taken, as nothing but the connection itself consumes its messages.
* `LibcryptoInit`: weak fairness of each thread. A thread that waits for a lock others take
  again and again may starve, so `Served` is about `tls12_libcrypto_handle` alone: the
  registrations run before anyone else is let in.
* `Handshake` states no liveness. With an arbitrary peer there is none.

## Proofs

`SessionCacheProofs`, from `CacheAssumption` and `LockAssumption` (lifetimes are
natural numbers, the marks for no data and no holder are neither data nor thread):

* `TypeCorrect`, `KeysUnique`, `DeletesTakeEffect`, `CleanupsComplete` and
  `ExpirationNeverMoves`: the safety properties of `cache`, for any number of threads,
  keys and entries.
* `CacheImplementsMap`: the refinement.

The properties are not inductive. `CacheInv` adds that exactly the holder of the
mutex is inside a walk or about to unlock; that a walk has met no entry of its key in
front of its cursor (`Searched`), without which a miss could add a second entry; that
a cleanup has left nothing stale behind its cursor (`Swept`); and that a cache not
yet created is empty. The refinement is proved action by action: adds, lookups and
deletes take effect at the node they hit or at the end of the list, a cleanup at the
start, and every other step is a stutter. Lemmas say what `Unlink` and `Push` do to
the list and to its set of entries.

`HandshakeLemmas` (its first half) and `HandshakeProofs`, from `ConstantsAssumption` (the marks for no
key and no session are neither, the cache holds sessions, a configuration is a client or
a server of one version), for any number of IDs, secrets, certificates, configurations, cached
sessions and any bounds:

* `Invariant`: the inductive invariant `Inv`, in four layers. The first half of
  `HandshakeLemmas` has all but the third, which the proofs about `Connection` do not need.
  * `DataInv`: types, and in which states version and master secret are settled.
  * `KeyInv`: for each state, which of the current and pending ciphers hold the
    master secret's keys and whether they are ready. `ReadyMeansVerified` is its
    instance at the two ready states; it is needed in full because the keys are
    switched over three messages and a renegotiation may start in between.
  * `AuthInv`: which states only one side reaches, where a breaking client has
    reported or is about to, and that a server past CertificateVerify has its proof.
  * `ClosedInv`: in a closed context only a call that was shaking hands when the
    peer's `close_notify` came may still read.
* `TypeCorrect`, `ReadyVerified`, `ProceedWhileNotReady`,
  `ServerAuthenticationReported`, `ClientAuthentication` and
  `CacheFollowsHandshakes` follow from it. The properties have the same definitions
  as in the runs.

The second half of `HandshakeProofs` is about the whole history of messages:

* `DataUnderKeys`, `SilenceAfterClose`: every step adds to `out` a sequence (`Addition`)
  whose data is under keys and in which only the last message closes, and adds no alert
  once a closing one was sent. The invariant `OutInv` says of each closing record
  (`Closes`) that it is the last one and the context is closed, for good after a fatal
  alert, or that it is a `close_notify` with a ClientHello behind it; and that only a client
  is ever open after its last alert.
* `ClosedForever`: a context that is closed with no call that could still shake hands
  (`Over`) stays so in every step.
* `ResumesWhatWasNamed`: `AgreedInv` follows a client from its hello to the ServerHello.
  Before it the client has no session ID, and afterwards the transcript names what it
  resumes. The transcript only grows within one handshake. A context that is open after
  its last alert is in a later one (`Twice`).

`ConnectionProofs` and the second half of `HandshakeLemmas`, from `ConstantsAssumption` and
`PairsAssumption` (each end is on its side and may have a certificate, both were set up
for one version, and a session that a client authenticating its server has cached came
with that server's certificate), for any configurations, earlier sessions, IDs, secrets
and certificates:

* `ConnectionAgreement` and `ConnectionDataMeetsReader`: `Agreement` and
  `DataMeetsReader` of the run `connection`, with the same definitions.

`Agreement` says nothing of the messages on their way, so it is not inductive. The
argument does not follow the two ends in lockstep. It is the one the protocol rests on:
a Finished vouches for a secret and a transcript, and a ready end has compared one.

* `EndInv` is about one end. It takes `DataInv`, `KeyInv` and `ClosedInv` from above and
  adds what the transcript tells of the course (`CourseInv`: its second message is the
  ServerHello that names the session, and its third is a Finished exactly in a resumed
  handshake). The Finished that was sent is about the secret and the transcript the
  end still has, and data follows it under that secret's keys (`SentInv`). The
  certificates are the other end's (`CertInv`).
* `SideInv` relates an end to the records its peer has written. It is ready because of a
  Finished among them whose verify data it computed itself (`Heard`), and having read a
  Finished it is ready or closed (`Took`). The second fact gives `DataMeetsReader`: data
  comes after the Finished of its sender.
* `ConnInv` has `SideInv` for both ends. That the two transcripts agree up to the last
  Finished, hence the session and the course, is derived (`Transcripts`, `SideReady`).
* The lemmas about an end are proved once. `ConnectionProofs` uses them for the client
  as they are and for the server through an instance (`SP`), whose actions it shows
  to be those of `Connection` (`SameSteps`).

Two ends set up for different versions are outside `PairsAssumption`, as they are
outside the run.

`TransportProofs`, from `StreamsAssumption` (records lie end to end, and the data of a
record begins where that of the one before ends) and `SizesAssumption`, for any streams,
record sizes and sizes of calls:

* `StreamsInOrder`, `ReadsReturnData`, `BufferedPromiseKept`, `TypeCorrect`, from the
  invariant `Inv`: where a call can be and what it has processed there (`CallInv`); the
  records of the queue follow each other from the byte the transport has reached to where
  the next record will start, in bytes and in data (`QueueInv`); delivered and buffered data
  end where the next expected record begins (`ReadInv`); what a call owes of what was
  buffered (`PromiseInv`).
* `HonestAccepted`: with an honest peer the partial buffer is a prefix of the next record
  and the transport stands right behind it (`AlignedInv`).
* `Refinement`: `Transport` implements `ByteStream`.

`ReassemblyProofs`, from `StreamAssumption` (the ends of the messages are where their length
fields say, and a message after which `SSLHandshake` returns ends a flight), for any
messages, flights and cuts:

* `NoByteLost` (`NothingLost`) and `ProcessedInOrder` (`ContinuesInOrder`), for the peers the
  code can handle (`Handled`): every record holds whole messages, or messages are cut into
  records of their own and `SSLHandshake` does not return in the middle. Without `Handled`
  both fail, as the paragraph above "Bounds" and `reassembly_after_break` show. The
  invariant is that the bytes processed end at a bound, that
  the bytes behind it are a slice of the stream which is in the cache or the record, and that
  a remainder is only saved by a loop that has processed nothing (`Held`). That last fact is
  why the copy from `startingP` is the right one for these peers.

`ResumptionProofs`, from `NoneAssumption`, for any number of connections:

* `EndsAgree`, `NoFailureSpreads`. The invariant says that a session in a cache or a context is
  one whose ID goes with its secret (`SessionInv`), so that it does not matter which
  connection stored it or when; that a message on its way is true of its sender, who
  waits (`ToServerInv`, `ToClientInv`); and that alerts come from broken connections only.

`LibcryptoInitProofs`, from `LocksAssumption`, for any number of threads and locks:

* `ReadyHandle`, `ExclusiveUse`, `CompleteSetup`. The invariant has one thread in the set-up at
  most (`RunnerInv`), what is set up at each of its steps (`StageInv`), and that who is
  inside libcrypto holds the lock under the callback in force, until the callback was changed
  under it (`LockInv`).

Only model-checked:

* the liveness properties (`LockReleased`, `AllDelivered`, `EverythingDelivered`,
  `EverythingTransmitted`, `ClosedDrains`, `BothReady`, `BothClose`, `Completes`,
  `Served`), since fairness is beyond the prover;
* `NoFalseAlarm`. A refusal can come from any message, so its invariant has to say at
  every state of both ends which records are on their way and that each is legal where
  it will arrive. The invariant above looks at the Finished alone.

## Not modelled

Most of what is under `src/` is not this repository's own work: thirty-odd components of
Mac OS X 10.6 (securityd, CDSA, keychain, ASN.1, the CSP and their headers), vendored to be
rebuilt. The models cover a small share of all those lines, and most of the protocol
logic of `libsecurity_ssl-55002/lib`, which is where the repository changes what the
system does.

* Arithmetic on bytes: AES, GHASH, MACs, padding, key derivation, ASN.1. Their results are
  accepted or refused nondeterministically.
* Calls into CSSM, SecTrust and the keychain, and what libcrypto computes.
* Tables without state: the version ladder (`sslVerifyProtVersion`), the filtering of
  cipher suites, the context setters. A configuration of `Handshake` is their outcome.
* SSL 2.0: the rebuilt client never sends its hello.
* The runtime patcher (machine code and the loader), the build and install scripts
  (sequential commands) and the vendored components.
* `sslGcmAes.c:43`: a flag that two threads may read and set without synchronisation.
  What they may see depends on the compiler and the processor.

## What could come next

1. A renegotiation in `Connection`, with data on its way when the hello leaves.
2. `NoFalseAlarm` as a theorem, from an invariant of both ends in lockstep.
3. Lengths and padding of TLS 1.2 records as functions, against the RFC's definition.
