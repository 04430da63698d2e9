----------------------------- MODULE StatsHttp -----------------------------
(***************************************************************************)
(* The statistics service (stats/http.rs) and the documents it renders     *)
(* (stats.rs snapshot and clients): the accept loop of serve_stats with    *)
(* its socket budget, one task per connection under the request timeout,   *)
(* the bounded read of a request head, the order of its checks, the        *)
(* snapshot that is read counter by counter beside running sessions, and   *)
(* conditional requests.                                                   *)
(*                                                                         *)
(* A request head is a sequence of lines.  The slow part of a client is    *)
(* that a read or a write of its connection need not happen.               *)
(***************************************************************************)
EXTENDS Integers, Sequences, FiniteSets, FiniteSetsExt

CONSTANTS
  Pollers,     \* clients of the statistics service, one connection at a time
  Heads,       \* what they may send
  Sessions,    \* proxied connections beside them
  MaxSockets,  \* MAX_STATS_SOCKETS
  MaxHead,     \* MAX_HEAD, in lines
  Chunk,       \* the size of the read buffer, in lines
  MaxPolls,    \* bound: requests of all clients together
  None         \* nothing: no token, no header, no document

Line(k, v) == [k |-> k, v |-> v]

\* The status lines of handle_conn, route and serve_json
Statuses ==
  {"200 OK", "304 Not Modified", "400 Bad Request", "401 Unauthorized",
   "404 Not Found", "405 Method Not Allowed"}

ASSUME StatsHttpAssumption ==
  /\ {MaxSockets, MaxHead, Chunk, MaxPolls} \subseteq Nat \ {0}
  /\ IsFiniteSet(Pollers)
  /\ \A h \in Heads : /\ h \in Seq({h[i] : i \in DOMAIN h})
                       /\ \A i \in DOMAIN h : h[i] = Line(h[i].k, h[i].v)
  /\ None \notin Statuses

VARIABLES
  service,  \* where serve_stats stands, "off" before it is spawned
  token,    \* the token it was given
  budget,   \* available permits of its semaphore
  sock,     \* where the connection of each client stands
  head,     \* the head a client is sending
  buf,      \* how many lines of it have been read
  resp,     \* the status decided on
  doc,      \* the counters read so far, the document in the end
  copy,     \* the document a client holds
  held,     \* history: the values counters had since the request was parsed
  polls,    \* bound: requests made
  life      \* how far each session has got in begin_client and the guard's drop

httpVars == <<service, token, budget, sock, head, buf, resp, doc, copy, held, polls, life>>

-----------------------------------------------------------------------------
(* The registry, as Admission proves it to be: each gauge counts the       *)
(* sessions between its two updates.                                       *)
(*   1 note_accepted   2 row in   3 active + 1   4 active - 1   5 row out  *)
(* (the per-source gauge moves as active does, one step later)             *)

CountIn(S) == Cardinality({s \in Sessions : life[s] \in S})

Counters == {"active", "accepted_total"}

Now ==
  [rows           |-> {s \in Sessions : life[s] \in 2..4},
   active         |-> CountIn({3}),
   accepted_total |-> CountIn(1..5)]

\* A session goes on; whoever is in the middle of a snapshot may see it.
SessionStep(s) ==
  /\ life[s] < 5
  /\ life' = [life EXCEPT ![s] = @ + 1]
  /\ held' = [p \in Pollers |->
                IF sock[p] = "snapshot"
                  THEN [f \in DOMAIN Now |-> held[p][f] \cup {Now'[f]}]
                  ELSE held[p]]
  /\ UNCHANGED <<service, token, budget, sock, head, buf, resp, doc, copy, polls>>

-----------------------------------------------------------------------------
(* serve_stats                                                             *)

NothingHeld == [f \in {"rows"} \cup Counters |-> {}]

HttpInit ==
  /\ service = "off" /\ token = None /\ budget = MaxSockets
  /\ sock = [p \in Pollers |-> "idle"]
  /\ head = [p \in Pollers |-> << >>] /\ buf = [p \in Pollers |-> 0]
  /\ resp = [p \in Pollers |-> None] /\ doc = [p \in Pollers |-> None]
  /\ copy = [p \in Pollers |-> None]
  /\ held = [p \in Pollers |-> NothingHeld]
  /\ polls = 0
  /\ life = [s \in Sessions |-> 0]

\* serve_stats is spawned on a bound listener.
ServeStats(given) ==
  /\ service' = "acquire" /\ token' = given
  /\ UNCHANGED <<budget, sock, head, buf, resp, doc, copy, held, polls, life>>

\* The process ends, and with it every connection.
HttpGone ==
  /\ service' = "off" /\ token' = None /\ budget' = MaxSockets
  /\ sock' = [p \in Pollers |-> "idle"]
  /\ head' = [p \in Pollers |-> << >>] /\ buf' = [p \in Pollers |-> 0]
  /\ resp' = [p \in Pollers |-> None] /\ doc' = [p \in Pollers |-> None]
  /\ copy' = [p \in Pollers |-> None]
  /\ held' = [p \in Pollers |-> NothingHeld]
  /\ polls' = 0
  /\ life' = [s \in Sessions |-> 0]

\* A client connects: the kernel queues it.
Poll(p) ==
  /\ service # "off"
  /\ sock[p] = "idle" /\ polls < MaxPolls
  /\ sock' = [sock EXCEPT ![p] = "backlog"]
  /\ polls' = polls + 1
  /\ UNCHANGED <<service, token, budget, head, buf, resp, doc, copy, held, life>>

AcquireSocket ==
  /\ service = "acquire" /\ budget > 0
  /\ budget' = budget - 1
  /\ service' = "accept"
  /\ UNCHANGED <<token, sock, head, buf, resp, doc, copy, held, polls, life>>

\* accept returns a connection, whose task owns the permit from now on; its
\* client sends h
AcceptPoll(p, h) ==
  /\ service = "accept" /\ sock[p] = "backlog"
  /\ sock' = [sock EXCEPT ![p] = "head"]
  /\ head' = [head EXCEPT ![p] = h]
  /\ service' = "acquire"
  /\ UNCHANGED <<token, budget, buf, resp, doc, copy, held, polls, life>>

\* MUTANT of AcceptPollErr: the permit is not dropped.
AcceptPollErrLeaky ==
  /\ service = "accept"
  /\ service' = "acquire"
  /\ UNCHANGED <<token, budget, sock, head, buf, resp, doc, copy, held, polls, life>>

AcceptPollErr ==
  /\ service = "accept"
  /\ budget' = budget + 1
  /\ service' = "acquire"
  /\ UNCHANGED <<token, sock, head, buf, resp, doc, copy, held, polls, life>>

\* The task ends: stream and permit are dropped.
TaskEnds(p) ==
  /\ sock' = [sock EXCEPT ![p] = "idle"]
  /\ head' = [head EXCEPT ![p] = << >>] /\ buf' = [buf EXCEPT ![p] = 0]
  /\ resp' = [resp EXCEPT ![p] = None] /\ doc' = [doc EXCEPT ![p] = None]
  /\ held' = [held EXCEPT ![p] = NothingHeld]
  /\ budget' = budget + 1
  /\ UNCHANGED <<service, token, polls, life>>

\* MUTANT of RequestTimeout: the budget covers the head only, as its comment
\* says.
RequestTimeoutHead(p) ==
  /\ sock[p] = "head"
  /\ TaskEnds(p) /\ UNCHANGED copy

\* timeout(REQUEST_TIMEOUT, handle_conn(..)) expires at an await of handle_conn
RequestTimeout(p) ==
  /\ sock[p] \in {"head", "respond", "body"}
  /\ TaskEnds(p) /\ UNCHANGED copy

-----------------------------------------------------------------------------
(* read_head                                                               *)

End == Line("end", "")

\* The head is complete in what was read of it.
has_header_end(lines) == \E i \in DOMAIN lines : lines[i] = End

Respond(p, status) ==
  /\ sock' = [sock EXCEPT ![p] = "respond"]
  /\ resp' = [resp EXCEPT ![p] = status]

\* A read returns up to a chunk.  The end of the head is looked for before
\* the size is tested, so the last chunk may exceed MaxHead.
ReadHead(p, n) ==
  /\ sock[p] = "head"
  /\ buf[p] + n <= Len(head[p])
  /\ buf' = [buf EXCEPT ![p] = @ + n]
  /\ IF has_header_end(SubSeq(head[p], 1, buf[p] + n))
       THEN sock' = [sock EXCEPT ![p] = "handle"] /\ UNCHANGED resp
     ELSE IF buf[p] + n > MaxHead
       THEN Respond(p, "400 Bad Request")
     ELSE UNCHANGED <<sock, resp>>
  /\ UNCHANGED <<service, token, budget, head, doc, copy, held, polls, life>>

\* The client ended its stream: what has come is taken for the head.
ReadEof(p) ==
  /\ sock[p] = "head"
  /\ IF buf[p] = 0
       THEN Respond(p, "400 Bad Request")
       ELSE sock' = [sock EXCEPT ![p] = "handle"] /\ UNCHANGED resp
  /\ UNCHANGED <<service, token, budget, head, buf, doc, copy, held, polls, life>>

\* A read fails: handle_conn returns without an answer.
ReadFails(p) ==
  /\ sock[p] = "head"
  /\ TaskEnds(p) /\ UNCHANGED copy

-----------------------------------------------------------------------------
(* handle_conn, route, serve_json                                          *)

\* header_bytes: the lines before the end, or all that were read
header_bytes(lines) ==
  LET ends == {i \in DOMAIN lines : lines[i] = End} IN
    IF ends = {} THEN lines ELSE SubSeq(lines, 1, Min(ends) - 1)

\* The value of the last header of kind k.
LastHeader(lines, k) ==
  LET at == {i \in 2..Len(lines) : lines[i].k = k} IN
    IF at = {} THEN None ELSE lines[Max(at)].v

\* parse_head: method and path of a well-formed request line, and the headers
ParsedHead(lines) ==
  IF lines = << >> \/ lines[1].k \notin {"GET", "POST"} THEN None
  ELSE [method |-> lines[1].k, path |-> lines[1].v,
        bearer |-> LastHeader(lines, "bearer"),
        if_none_match |-> LastHeader(lines, "if-none-match")]

Request(p) == ParsedHead(header_bytes(SubSeq(head[p], 1, buf[p])))

\* MUTANT of Authorized: a request without a token passes.
AuthorizedWithout(r) == token = None \/ r.bearer \in {None, token}

\* No token is configured, or the request presents it.
Authorized(r) == token = None \/ (r.bearer # None /\ r.bearer = token)

\* What handle_conn answers before it routes, in the order of its tests.
RejectStatus(r) ==
  IF r = None             THEN "400 Bad Request"
  ELSE IF r.method # "GET" THEN "405 Method Not Allowed"
  ELSE IF ~Authorized(r)   THEN "401 Unauthorized"
  ELSE None

\* The paths whose answer depends on the statistics.
StatsPaths == {"/stats", "/clients", "/healthz"}

\* The answer to a request that needs no statistics.
FixedStatus(r) ==
  IF RejectStatus(r) # None THEN RejectStatus(r)
  ELSE CASE r.path = "/"          -> "200 OK"
         [] r.path \in StatsPaths -> None
         [] OTHER                 -> "404 Not Found"

\* A content hash, taken to tell documents apart.
etag_of(body) == body

\* MUTANT of JsonStatus: any tag will do.
JsonStatusAnyTag(p, body) ==
  IF Request(p).if_none_match # None /\ copy[p] # None
  THEN "304 Not Modified" ELSE "200 OK"

\* serve_json: 304 to a client whose tag is the document's
JsonStatus(p, body) ==
  IF /\ Request(p).if_none_match # None /\ copy[p] # None
     /\ etag_of(copy[p]) = etag_of(body)
  THEN "304 Not Modified" ELSE "200 OK"

\* The answer does not depend on the statistics.
HandleFixed(p) ==
  /\ sock[p] = "handle"
  /\ FixedStatus(Request(p)) # None
  /\ Respond(p, FixedStatus(Request(p)))
  /\ UNCHANGED <<service, token, budget, head, buf, doc, copy, held, polls, life>>

\* /clients: Stats::clients is one critical section
HandleClients(p) ==
  /\ sock[p] = "handle"
  /\ FixedStatus(Request(p)) = None /\ Request(p).path = "/clients"
  /\ LET body == [rows |-> Now.rows] IN
       /\ doc' = [doc EXCEPT ![p] = body]
       /\ Respond(p, JsonStatus(p, body))
  /\ held' = [held EXCEPT ![p] = [f \in DOMAIN Now |-> {Now[f]}]]
  /\ UNCHANGED <<service, token, budget, head, buf, copy, polls, life>>

\* /stats and /healthz: Stats::snapshot begins
HandleStats(p) ==
  /\ sock[p] = "handle"
  /\ FixedStatus(Request(p)) = None /\ Request(p).path \in {"/stats", "/healthz"}
  /\ sock' = [sock EXCEPT ![p] = "snapshot"]
  /\ doc' = [doc EXCEPT ![p] = [f \in {} |-> 0]]
  /\ held' = [held EXCEPT ![p] = [f \in DOMAIN Now |-> {Now[f]}]]
  /\ UNCHANGED <<service, token, budget, head, buf, resp, copy, polls, life>>

\* snapshot reads one counter; the loads are relaxed, so in any order
ReadCounter(p, f) ==
  /\ sock[p] = "snapshot" /\ f \notin DOMAIN doc[p]
  /\ doc' = [doc EXCEPT ![p] =
               [g \in DOMAIN @ \cup {f} |-> IF g = f THEN Now[f] ELSE @[g]]]
  /\ UNCHANGED <<service, token, budget, sock, head, buf, resp, copy, held, polls, life>>

\* The snapshot is complete: /stats renders it, /healthz only its uptime
SnapshotDone(p) ==
  /\ sock[p] = "snapshot" /\ DOMAIN doc[p] = Counters
  /\ IF Request(p).path = "/stats"
       THEN Respond(p, JsonStatus(p, doc[p])) /\ UNCHANGED doc
       ELSE Respond(p, "200 OK") /\ doc' = [doc EXCEPT ![p] = None]
  /\ UNCHANGED <<service, token, budget, head, buf, copy, held, polls, life>>

-----------------------------------------------------------------------------
(* respond                                                                 *)

\* write_all of status line and headers
WriteHead(p) ==
  /\ sock[p] = "respond"
  /\ sock' = [sock EXCEPT ![p] = "body"]
  /\ UNCHANGED <<service, token, budget, head, buf, resp, doc, copy, held, polls, life>>

\* write_all of the body and shutdown: the client has the whole response, and
\* keeps the document it came with
WriteBody(p) ==
  /\ sock[p] = "body"
  /\ copy' = IF resp[p] = "200 OK" /\ doc[p] # None
               THEN [copy EXCEPT ![p] = doc[p]] ELSE copy
  /\ TaskEnds(p)

\* The client is gone, or went in the middle of the response.
WriteFails(p) ==
  /\ sock[p] \in {"respond", "body"}
  /\ TaskEnds(p) /\ UNCHANGED copy

-----------------------------------------------------------------------------
\* What the client's connection lets happen.
ClientIo(p) ==
  \/ \E n \in 1..Chunk : ReadHead(p, n)
  \/ ReadEof(p) \/ ReadFails(p) \/ WriteHead(p) \/ WriteBody(p) \/ WriteFails(p)

\* What the task does by itself.
Handle(p) ==
  \/ HandleFixed(p) \/ HandleClients(p) \/ HandleStats(p)
  \/ \E f \in Counters : ReadCounter(p, f)
  \/ SnapshotDone(p)

HttpStep ==
  \/ AcquireSocket \/ AcceptPollErr
  \/ \E p \in Pollers :
       \/ \E h \in Heads : AcceptPoll(p, h)
       \/ Poll(p) \/ ClientIo(p) \/ Handle(p) \/ RequestTimeout(p)

-----------------------------------------------------------------------------
(* Properties                                                              *)

\* "a separate connection budget": every permit is available, with the loop,
\* or with an open connection, whatever ended the connections before.
SocketBudgetHolds ==
  budget + (IF service = "accept" THEN 1 ELSE 0)
         + Cardinality({p \in Pollers : sock[p] \notin {"idle", "backlog"}})
    = MaxSockets

\* With a token configured, whatever a client that did not send it is told,
\* it learns nothing: no document, no page, not even which paths exist.  Not
\* in an unterminated head, and not behind the end of the head.
NoDocumentWithoutToken ==
  \A p \in Pollers :
    token # None /\ resp[p] \in {"200 OK", "304 Not Modified", "404 Not Found"}
      => \E i \in 1..buf[p] : /\ head[p][i] = Line("bearer", token)
                              /\ \A j \in 1..i : head[p][j] # End

\* Every value of the document a client is left with, a new one or on "304"
\* the one it has, was true at some moment of the request.  (The values of one
\* snapshot need not have been true together.)
DocumentsAreCurrent ==
  \A p \in Pollers :
    /\ resp[p] = "200 OK" /\ doc[p] # None =>
         \A f \in DOMAIN doc[p] : doc[p][f] \in held[p][f]
    /\ resp[p] = "304 Not Modified" =>
         \A f \in DOMAIN copy[p] : copy[p][f] \in held[p][f]
=============================================================================
