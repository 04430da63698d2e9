# Merino: specifications, model checking and proofs

Merino is a SOCKS5 proxy. It accepts TCP clients on one or more listeners under
a global and a per-source cap, negotiates the SOCKS5 version, authentication and
request with each, and then relays bytes (CONNECT, BIND) or datagrams (UDP
ASSOCIATE) between the client and its target. A statistics registry is shared by
every connection and rendered by a small HTTP service.

This directory holds TLA+ models of the server, the TLC runs that check them and
TLAPS proofs of their safety properties. `PROJECT.json` lists the components, the
runs, the mutants each property is shown to catch, the source lines behind every
definition, the hazards and the findings.

    tlc -workers 2 -config <run>.cfg <module>     # module: see "Runs"
    tlapm <component>Proofs.tla                   # see "Proofs"

Line numbers below are those of `src/src/lib.rs` unless another file is named.

## 1. Inventory

| Component | State | Operations | Interacts with | Module |
|---|---|---|---|---|
| Accept loops (551-638), both backends (`serve` 440-478, `actors.rs`) | permit in hand, connection in hand | acquire, accept, refuse, hand over | semaphore, limiter, registry | `Admission` |
| Connection cap (398-403) | semaphore permits | acquire, drop | every loop and connection | `Admission` |
| Per-IP limiter (492-549) | map address to count | `try_acquire`, `IpSlot::drop` | every loop and connection | `Admission` |
| Live registry (`stats.rs` 22-75, 215-245) | rows, active gauge, per-IP gauge, next id | `begin_client`, guard's drop | HTTP readers | `Admission` |
| Session (768-1342) | await point, `replied`, client socket, counters | negotiate, authenticate, dispatch, fail | relay, connect, resolver, registry | `Session` |
| Relay (683-766) | two open flags, chunk, running counts | read, write, end of stream, publish, finish | both sockets, row, totals | `Relay` |
| Resolver and DNS cache (1593-1795) | entries, counters | `get`, `insert`, lookup | all sessions | `DnsCache` |
| Outbound connect (1486-1585, 1230-1236) | attempt tasks, channel, last error | start, finish, send, receive, abort, time out | network | `ConnectAny` |
| UDP association (1349-1464) | pinned client, datagram in hand | receive, resolve, forward, reply, tear down | control connection, UDP network | `UdpAssociate` |
| Wire parsers and encoders (96-183, 1863-2082), credential check (961-985, 1970-2004) | none | parse, encode, compare | session, association | `Wire` |
| Stream readers (1020-1160, 1466-1477, 2086-2174) | bytes read, frame being assembled | `read_exact` field by field | wire parsers, client socket | `Negotiation` |
| Command line and start-up (`main.rs`), listener binding (296-352), server set-up (`actors.rs` 100-211) | options, users, listeners, setters' values | parse, load, bind, set, start, stop | everything | `Startup`, `Server` |
| Statistics HTTP service (`stats/http.rs`), snapshots (`stats.rs` 247-313) | socket budget, request in hand, document | accept, read head, authorise, snapshot, respond, time out | registry, counters, start-up | `StatsHttp`, `Server` |
| Dashboard page | none | polls the service from a browser | statistics service | no |

What is hard here is what a test hardly schedules: several accept loops and
sessions on several threads sharing permits, slots and registry; RAII guards
that must fire once on every path, in two different drop orders; timeouts that
fall between a decision and its answer; partial writes, half-closes and resets
during a relay; lookups that overlap; connect attempts that succeed while they
are being cancelled; messages that arrive in pieces or two at a time; a snapshot
taken while it changes; a start-up that fails half-way. The `hazards` of
`PROJECT.json` list these at their lines.

What makes each component correct:

* admission: neither cap is exceeded, nothing leaks, no one is refused or left
  waiting without cause, statistics never contradict the registry;
* session: only admitted clients are served, failures are told once and last,
  every session is counted once and ends;
* relay: a lossless, ordered duplex pipe with honest counts;
* DNS cache: bounded, never stale, evicting the dead first;
* connect: a reachable address wins, the earliest one; no socket leaks;
* UDP association: it serves one client, in order, until the client leaves;
* wire formats: how bytes are cut into segments does not matter, parsers and
  readers agree, and what is left over is left untouched;
* start-up: the process serves as its command line says, or not at all;
* statistics service: bounded, guarded by its token, never blocked by a client,
  and showing what is true.

## 2. Modules

### Admission, with ConnectionBudget

Each listener's loop is a `pc` and a connection in hand; each connection attempt
has a `stage` from `idle` over `backlog`, `accepted`, `admitted` and the steps
of `begin_client` to `serving`, and back through the steps of the guard's drop
to `done`. A step is one critical section or one atomic operation, so another
thread, or a reader of the statistics, may come in between any two.
`counts` and `perIp` are the two hash maps, as functions on the keys they hold.
`Backend` chooses the order in which the last two guards are dropped: a Tokio
task drops slot, then permit (reverse order of declaration), the actor permit,
then slot (order of fields).

`ConnectionBudget` says what admission promises with no loops and guards: a
connection is served, or refused because its source occupies its whole share.
`ImplementsBudget` is the refinement. A connection is open there from the
reservation of its slot until its stream is closed; between that and the drop of
its slot it is `draining`: it weighs on its source though it is closed.

### Session

A place of `pc` is an await point of `run_client` and the functions it calls; an
action is what runs from one await to the next, with its error path. The client
is `peer` (open, half-closed, reset or unreachable) and may change at any time;
what it sends is a choice at each read. `out` is what it has been sent, message
by message. The relay and the association appear in outline; their own modules
have the detail. `ends` are the two open flags of the relay; `full` says that a
client which does not read has let relayed bytes fill its send buffer, so that
the next write waits. `methods` is chosen among all configurations, and `credsOk`
is a history variable.

A session waits for its client under a timeout, in a relay, or in one more place:
the error reply of `run_client` (806) is awaited under none. What is written
before a relay is a few dozen bytes and fits any send buffer, but after a relay
has failed the reply queues behind relayed bytes, and a client that stays
connected without reading them holds session, permit and slot there.
`EveryClientIsServedOrReleased` states this exception and shows that it is the
only one.

### Relay, with DuplexPipe

Bytes are numbered per direction. Each socket direction is a bounded buffer.
The one task of `copy_bidirectional_counted` reads a chunk of either side,
writes it out piece by piece, counts it and returns to `select!`; the ticker
publishes the counts whenever the task waits. `ImplementsPipe` shows that the
two directions are independent first-in first-out pipes.

`Finish` joins the end of `copy_bidirectional_counted` and the caller's
`note_relay`: no await separates them.

### DnsCache, ConnectAny, UdpAssociate

`DnsCache` has a clock; an entry records when it was inserted, when it expires
and when the resolver took the answer. Each task is one session in
`addr_to_socket`. `ConnectAny` draws an outcome and a latency for each address
in its initial state and then runs the attempt tasks, the channel of capacity
one and the receiving loop; time advances only when nothing is ready to run.
`UdpAssociate` runs the association's select loop against arbitrary senders
and a control connection. Its traffic comes in two kinds of behaviour, chosen
initially by `followed`: either `MaxSent` datagrams with serial numbers, each
recorded on its way and counted, or datagrams without end and without a record,
whose states are finite although the socket may be busy for ever.

### Wire and Negotiation

`Wire` has the pure parsers, the encoders and the credential check as operators
on sequences of bytes; the error of a short message is a value, and `Try` is the
`?` operator. `Negotiation` is the same negotiation that `Session` models, seen
from its bytes: `negotiate`, `auth`, `get_avalible_methods` and `from_stream`
fill one buffer after the other with `read_exact` while the client's bytes
arrive one by one and may end anywhere. It then answers the request and frames
the datagrams of an association. Replies, timeouts and counters of the
negotiation are in `Session`, name resolution in `UdpAssociate`.

### Startup, StatsHttp and Server

`Startup` is `main` with a step wherever it can fail or wait, over a set of
invocations (options and the users file they name). `Deduplicated` says of the
resolved addresses what the loop of `bind_all` with its `contains` test
establishes: each once, in the order of first occurrence. Binding happens address
by address, and the actor may be polled first at any time after `server.start()`.

`StatsHttp` is `serve_stats`: its loop with permit and accept as `Admission` has
them, and a task per connection. Each client is slow in that none of its reads
and writes need ever happen; the timeout may strike wherever `handle_conn`
waits. A head is a sequence of lines, and sizes are counted in lines.
`snapshot` reads one counter per step while sessions move, `clients` reads the
rows in one; `held` is a history variable of the values a counter had since the
request was parsed. The tag of a document is the document: the model assumes
that a 64-bit hash tells the documents of one client apart.

`Server` composes the two: start-up hands listener and token to the service, the
accept loops' sessions move the counters it reads, and the end of the process,
by a signal or by an error, ends all of it. The binary's runtime is
single-threaded; sessions that move in the middle of a snapshot arise when
`serve_stats` and the server run as a library on Tokio's multi-threaded runtime.
The model allows both.

## 3. Runs

| Run | Module | Shows |
|---|---|---|
| `admission_tokio` | MCAdmission | both caps, permits, statistics and registry; 2 loops, 2 permits, 1 slot per source, 4 connections of 3 sources |
| `admission_actix` | MCAdmission | the limiter and the refinement of the budget under the actor's drop order, where a slot outlives its permit, 3 connections of one source with 2 slots; backlogs are served, and permits, slots, gauges and rows are all back after the last connection, with as many permits as listeners |
| `session` | MCSession | admission policy, finality of failures, accounting, the stalled client's reply; every session relays or ends, with the exception named in section 2 |
| `relay` | MCRelay | nothing lost or reordered, honest counts, complete at the end, refinement of the pipe; delivery of bytes and of half-closes |
| `dns_cache` | MCDnsCache | bound, lifetime, counters, order of eviction |
| `connect_any` | MCConnectAny | who wins, what is reported, what stays open; every connect settles and its tasks end |
| `udp_associate` | MCUdpAssociate | one client, order, counters; the association ends with its control connection while traffic goes on for ever |
| `negotiation` | MCNegotiation | stream readers and slice parsers agree on every prefix; a login is granted exactly to a configured user; replies and datagrams are framed faithfully |
| `server` | MCServer | start-up serves as configured; the service's permits come back, its token guards every page, its documents are current; slow clients are cut |

Three runs are expected to fail; each refutes a sentence of the code's comments
(quoted in `findings`):

| Run | The code |
|---|---|
| `admission_starved` | with fewer permits than listeners (a cap of 0, clamped to 1) an idle listener holds the permit that another needs |
| `session_injected_reply` | a relay that fails has a SOCKS reply written behind the relayed bytes |
| `relay_deadlock` | an end that writes before it reads blocks both directions |

Every module with a long-lived state also states its type invariant; the proofs
below start from them.

Known divergences that no run is kept for, as they do not touch the properties
above:

* a relay that ends with an error adds nothing to the aggregate totals (the `?`
  at 755 passes `note_relay`), where `stats.rs` 44-45 says they "still land once
  relay finishes";
* inserting a name into a full DNS cache that another session has inserted in
  the meantime evicts a third name, although no room is needed (1693);
* `MAX_HEAD` may be exceeded by the last chunk of a head that then ends
  (`stats/http.rs` 194-199 tests for the end first);
* with a token configured, a request that is malformed or not a GET is answered
  400 or 405 before the token is looked at, where `stats/http.rs` 31-32 says
  that "every request must present that bearer token or it receives `401`";
* a "point-in-time snapshot" (`stats.rs` 271) may combine moments, see `held`.

Every property of a passing run has a mutant: an operator of the same module,
marked `MUTANT`, that changes one modelled definition as a plausible bug would
and under which TLC finds the property violated.

### Bounds

* Admission: with two permits, one slot per source and attempts a, a, b, c, the
  limiter alone would let three connections open, so the cap binds; the second
  attempt of a is refused, so the limiter binds too. The actix instance has
  counts of two and refusals on account of a slot whose permit is already free.
  The two attempts of a, and the listeners, are interchangeable; runs with
  liveness use no symmetry.
* Session: unbounded but for one `Data` message that stands for the relayed
  bytes, however many; a client leaves in at most two steps, and stops and
  resumes reading any number of times.
* Relay: 3 and 2 bytes through sockets and chunks of 2, so chunks are cut,
  writes are partial and buffers fill. The deadlock needs as many bytes as the
  buffers on the way hold, hence 4 and capacity 1.
* DnsCache: three names for two entries, a lifetime of 2 in a clock of 4, five
  lookups by two sessions: enough for overlapping lookups, expiry and eviction.
  `MaxTime` and `MaxGets` end the behaviours, so deadlock is not checked.
* ConnectAny: up to three addresses with offsets 0, 2 and 4 and latencies 0, 1
  and 3 around a budget of 5, so answers fall before, on and after it and ties
  between attempts occur.
* UdpAssociate: three datagrams of any of three sockets, two of them on the
  client's host, in a buffer of two; or any number of them, without a record
  (`EndsWithControl` is about these).
* Negotiation: greetings with no, unknown, one and several methods, logins that
  are right, nearly right, of two users mixed, empty, zero-padded, and requests
  of each command and address type, valid or not, all concatenated without
  waiting for answers, with three bytes behind them. Every point of arrival and
  of ending is explored. Datagrams: every truncation of six.
* Server: one socket for two clients, so the budget binds; heads within and over
  a limit of three lines read in chunks of two, so a head may end in the chunk
  that exceeds the limit; two requests in all, so one client may ask twice, the
  second time conditionally. 50 invocations: every mixture of authentication
  options and users files on a name with a duplicate address, and the service
  with and without a token. One session gives every counter both values.

### Fairness

* `Admission`: Tokio's semaphore is first in, first out, so a waiting loop gets
  a permit if permits keep coming back (strong fairness of `Acquire`); an accept
  may fail any number of times but not for ever. `Finish` is fair by assumption
  on clients and targets: the code puts no bound on an idle relay.
* `Session`: the scheduler and the timers; neither the client's input nor the
  relay is fair, and no client need ever read: a write is fair because it fits
  the send buffer, and the one that may not (`SendError` after a relay) is not
  enabled while the buffer is full. The resolver is assumed to answer:
  `addr_to_socket` runs under no timeout of this program.
* `Relay`: `select!` polls its branches in random order, so a side that stays
  readable is read (strong fairness). The ends are assumed to send what they
  have and to read what arrives, but never to close.
* `ConnectAny`: ready tasks run and time passes.
* `UdpAssociate`: as for `select!` above, so that an end of file is read in the
  end although the socket is readable whenever the loop waits; lookups and sends
  are assumed to return.
* `Server`: the scheduler runs what is ready and timers expire; an accept may
  fail but not for ever, and the kernel's backlog is first in, first out (strong
  fairness of `AcceptPoll`). Nothing is assumed of the clients: that is the
  point of `SlowClientsAreCut`.

## 4. Proofs

Every safety property that a passing run checks, invariant or action property,
is proved for all values of the constants. Each component has a module of
proofs that extends its specification:

| Module | For every | Theorems |
|---|---|---|
| `AdmissionProofs` | number of listeners, connections and sources, limits, drop order | `TypeCorrect`, `PermitsAreConserved`, `CapHolds`, `LimiterIsExact`, `PerIpCapHolds`, `RegistryIsExact`, `StatisticsAlwaysAgree`, `AdmissionImplementsBudget` |
| `SessionProofs` | set of configurations, client | `SessionTypeCorrect`, `ServesOnlyTheAdmitted`, `FailureIsTheLastWord`, `SessionsAreAccountedOnce`, `StalledClientsAreTold` |
| `RelayProofs` | amount of data, socket and relay buffer | `RelayTypeCorrect`, `RelayKeepsEveryByte`, `RelayCountsHonestly`, `RelayImplementsPipe` |
| `DnsCacheProofs` | number of names and sessions, lifetime, capacity | `DnsTypeCorrect`, `CacheIsBounded`, `CacheServesWithinTtl`, `CacheCountersBalance`, `CacheEvictsOldestLive` |
| `ConnectAnyProofs` | number of addresses, outcomes, latencies, delay, budget | `RaceTypeCorrect`, `TimeoutIsFair`, `FirstAcceptedWins`, `FailureIsOfTheLatest`, `OnlyTheWinnerIsOpen` |
| `UdpAssociateProofs` | hosts, sockets, declared address, buffer, number of datagrams | `UdpTypeCorrect`, `AssociationServesOneClient`, `AssociationRelaysInOrder` |
| `ServerProofs` | command lines, clients, sessions, sizes | `ServerServesAsConfigured`, `SocketBudgetIsKept`, `TokenGuardsDocuments`, `ServedDocumentsAreCurrent` |
| `NegotiationProofs` | streams, users, configurations, datagrams, sources | `CredentialsAreExact`, `FramesCanBeReadBack`, `ReadersAndParsersAgree` |

### Assumptions

Each theorem rests on the named ASSUME of its specification, which TLC evaluates
on every run: sets of listeners, connections, names, tasks and clients are
finite, limits and latencies are natural numbers, buffers have room for
something, bytes are `0..255` and ports two of them, addresses have 4 or 16
octets, a users file's rows are users or malformed, a header line has a name and
a value. "Nothing" (`None`, `NoConn`, `NoName`, `AnyHost`) is none of the things
it stands for the absence of. No bound on time or requests is assumed beyond
being a number: the bounds of the runs are constants of the theorems.

### Inductive invariants

None of the properties is inductive as it stands. What each needs, and why:

* Admission, `PermitInv` (`TypeOK`, `InHand`, `ActiveExact`,
  `PermitsConserved`): a hand-over moves a permit from a loop to a connection,
  so it matters which connection the loop has and at which stage; that `active`
  stays natural needs to know what it counts. Every action moves one connection
  to another stage, one loop to another place, or both: `Moved` says what that
  does to the cardinality of "those in S", and each action is then arithmetic.
  `RegistryInv` adds that ids handed out are below the next one and distinct,
  also between `TakeId` and `InsertRow`. The limiter's map is exact per source,
  a slot being taken only below the limit, from which the per-IP cap follows; the
  statistics follow from what each gauge counts, stage by stage. The refinement
  maps each move of the life cycle to a step of the budget.
* Session: `AdmissionByPlace` says what the client was sent and presented at each
  place, up to the request; `QuietAfterFailure`, that a session with a failure
  on the wire is shut or cannot write; `Accounts`, what the counters are at each
  phase; `StalledInv`, that the write half is open as long as nothing was shut.
* Relay, `RelayInv`: bytes are numbered and whole per direction (`StreamsWhole`),
  the counts lag by the part of the chunk that was written (`Counted`), and a
  direction is closed only after its end was seen and its chunk written
  (`Closing`).
* DNS cache, `DnsInv`: an entry's times are in order and in the past
  (`EntriesAged`, `AnswersAged`), a task at the resolver has asked for a name
  (`NamesAsked`), and the sums of the counters. Expired entries go before the
  capacity is tested, so what is evicted is the oldest of the live.
* Connect race, `RaceInv`: an outcome is with its task, in the channel or with the
  loop, never at two places (`Handover`); every open socket has an owner
  (`SocketsOwned`); answers come when the script says (`OnTime`); and the loop
  has seen all answers up to now but those in the channel or being sent
  (`LoopSoFar`). With these, a timeout, a winner and a last error are what the
  script makes them.
* UDP association, `UdpInv`: ids in the queue and out of it ascend, the one in hand
  between them (`Numbered`; without a record there is nothing to order); what
  left before a client was pinned is nothing (`ClientFirst`).
* Server, `ServerInv`: `StartupInv` says what `main` has established by the place it
  stands at, caps included; `HttpInv`, per connection, that nothing is answered before it is
  decided (`Unanswered`), that past authorisation the token was in the head
  (`Guarded`), and that what a snapshot has read, or will, was true since the
  request (`Current`). The service runs only in a process that spawned it.
* Negotiation, `NegInv`: the frame being read has the length its fields say
  (`FrameLayout`), so that `parse_userpass` cuts the login where the reader did.
  That padding both sides to the width of the longest credential decides equality
  (`PaddedEquality`, `AuthedIsMembership`) and that encoded headers parse back
  (`Framed`, `HeaderParsed`) are lemmas on the operators of `Wire`, for
  sequences of any length.
* Negotiation, `AgreeInv` beside `NegInv`, for `ReadersAgree`. The property speaks
  only of the end, so the invariant has to say what the parsers will conclude
  while the readers are still under way. `Ahead` does, for every prefix of the
  client's stream from the point reached on: that the verdict will be that of the
  login or the request beginning there (`ToLogin`, `ToRequest`), that it is this
  request and the bytes after it (`Settled`), or this error (`Refused`). Only
  "bytes are missing" (`Cut`) can be revised by more bytes, and the readers report
  it only once the client has ended its stream. `ReadSoFar` says that greeting,
  login and frame, joined, are the bytes read, so none is lost or read twice;
  `FieldsRead`, which fields a frame has at each place. The rest are lemmas on
  the parsers: each message's verdict depends on its own bytes alone
  (`GreetingRead`, `LoginRead`, `RequestRead`) and every shorter piece of it is
  too short (`GreetingCut`, `LoginCut`, `RequestCut`). The invariant was checked by
  TLC on the instance of the `negotiation` run before it was proved.

### Only model-checked

* Liveness (`AcceptNeverDeadlocks`, `EverythingReturned`,
  `EveryClientIsServedOrReleased`, `EverythingDelivered`, `HalfCloseDelivered`,
  `Settles`, `EndsWithControl`, `SlowClientsAreCut`): fairness and `ENABLED` are
  out of the prover's reach. The abstract specifications are safety
  specifications, so the refinements are proved whole.
* What a recursive definition computes (induction over data) cannot be proved
  here; no module uses a RECURSIVE operator.

## 5. Not modelled

* Time taken: that credential and token comparisons take constant time.
* Rendering of statistics (JSON, sorting, top list, uptime), logging, the
  dashboard's HTML and JavaScript, benchmarks and fuzz drivers.
* The syntax of options, users file and HTTP headers below the level of records
  and lines: it belongs to `clap`, `csv` and the standard library.
* Poisoned locks: the code recovers the data and goes on.
* Panics and process crashes: nothing is persistent.
* Counter overflow: 64-bit counters of events.

## 6. Plan

Done: every part of the server is modelled, in `Admission` with its abstract
specification, `Session`, `Relay` with its abstract specification, `DnsCache`,
`ConnectAny`, `UdpAssociate`, `Wire` with `Negotiation`, and `Startup` with
`StatsHttp` in `Server`; all safety properties are proved.

Next: a composition of `Session` with `Relay` and `ConnectAny`, so that the
session's outline of both becomes a checked abstraction.
