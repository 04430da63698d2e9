---------------------------- MODULE ServerProofs ----------------------------
(***************************************************************************)
(* What holds of the merino process for every command line, every number   *)
(* of statistics clients and sessions, and every size of the bounds: that  *)
(* connections are served as configured, and what the statistics service   *)
(* guards: its socket budget, its token, and the currency of its           *)
(* documents.                                                              *)
(***************************************************************************)
EXTENDS Server, FiniteSetTheorems, SequenceTheorems, TLAPS

-----------------------------------------------------------------------------
(* Least and greatest elements                                             *)

\* A set of natural numbers has a least element, and Min is it.
LEMMA LeastOf ==
  ASSUME NEW S \in SUBSET Nat, S # {}
  PROVE  Min(S) \in S /\ \A x \in S : Min(S) <= x
<1>1. PICK m \in S : \A y \in S : ~ (<<y, m>> \in OpToRel(<, Nat))
  BY NatLessThanWellFounded, WFMin
<1>2. \A y \in S : m <= y
  <2> SUFFICES ASSUME NEW y \in S PROVE m <= y
    OBVIOUS
  <2>1. ~ (y < m)
    <3> SUFFICES ASSUME y < m PROVE FALSE
      OBVIOUS
    <3>1. <<y, m>> \in Nat \X Nat
      OBVIOUS
    <3>2. <<y, m>> \in OpToRel(<, Nat)
      BY <3>1, Zenon DEF OpToRel
    <3>3. QED BY <1>1, <3>2, Zenon
  <2>2. QED BY <2>1
<1>3. QED BY <1>2 DEF Min

\* A bounded one has a greatest element, and Max is it.
LEMMA GreatestOf ==
  ASSUME NEW n \in Nat, NEW S \in SUBSET (0..n), S # {}
  PROVE  Max(S) \in S /\ \A x \in S : x <= Max(S)
<1> DEFINE T == {n - x : x \in S}
<1>1. T \in SUBSET Nat /\ T # {}
  <2>1. \A x \in S : x \in 0..n
    OBVIOUS
  <2>2. \A x \in S : n - x \in Nat
    BY <2>1
  <2>3. QED BY <2>2
<1>2. PICK m \in S : n - m = Min(T)
  BY <1>1, LeastOf
<1>3. \A x \in S : n - m <= n - x
  BY <1>1, <1>2, LeastOf
<1>4. \A x \in S : m >= x
  BY <1>3
<1>5. QED BY <1>4 DEF Max

\* A sequence has finitely many elements.
LEMMA FiniteRange ==
  ASSUME NEW s, s \in Seq(ToSet(s))
  PROVE  Cardinality(ToSet(s)) \in Nat
<1>1. s \in Surjection(1..Len(s), ToSet(s)) /\ Len(s) \in Nat
  <2>1. s \in [1..Len(s) -> ToSet(s)] /\ Len(s) \in Nat /\ DOMAIN s = 1..Len(s)
    BY LenProperties
  <2>2. QED BY <2>1 DEF Surjection, ToSet
<1>2. IsFiniteSet(1..Len(s))
  BY <1>1, FS_Interval
<1>3. IsFiniteSet(ToSet(s))
  BY <1>1, <1>2, FS_Surjection
<1>4. QED BY <1>3, FS_CardinalityType

-----------------------------------------------------------------------------
(* Start-up: what main has established by the time it stands where it does *)

\* Where main may stand.
Stages ==
  {"args", "users", "lookup", "bind", "stats", "dns", "start", "bind_stats",
   "signals", "run", "exited"}

\* What has not happened yet, by where main stands.
BeforeBound == {"args", "users", "lookup", "bind"}
BeforeShared == BeforeBound \cup {"stats"}
BeforeDns == BeforeShared \cup {"dns"}

\* The command line says which file, and it was good.
UsersAsConfigured ==
  cmd.users => /\ users = cmd.rows /\ ToSet(users) = {"user"}
               /\ cmd.shared_file => cmd.allow_insecure

\* The caps are those of the command line, a cap of zero raised to one.
CapsAsConfigured ==
  /\ caps.max >= 1 /\ caps.perIp = cmd.max_connections_per_ip
  /\ cmd.max_connections >= 1 => caps.max = cmd.max_connections

\* Each setting is made at its stage, and kept until the process ends.
StartupInv ==
  /\ cmd \in Invocations /\ boot \in Stages /\ loops \in BOOLEAN
  /\ todo \in Seq(ToSet(cmd.ip)) /\ bound \subseteq ToSet(cmd.ip)
  /\ Alive /\ boot # "args" =>
       methods = {IF cmd.users THEN "UserPass" ELSE "NoAuth"}
  /\ Alive /\ boot \notin {"args", "users"} => UsersAsConfigured
  /\ Alive /\ boot \notin BeforeBound => bound # {} /\ CapsAsConfigured
  /\ Alive /\ boot \notin BeforeShared => statsOf = "shared" /\ noted = bound
  /\ Alive /\ boot \in BeforeDns => dnsIn = "none"
  /\ Alive /\ boot \notin BeforeDns =>
       dnsIn = (IF cmd.dns_cache_ttl > 0 THEN "shared" ELSE "none")
  /\ loops => boot \in {"bind_stats", "signals", "run"}

\* Before the command line is read nothing is established.
LEMMA InitStartupInv == StartupInit => StartupInv
BY EmptySeq DEF StartupInit, StartupInv, Alive, Stages, BeforeBound, BeforeShared,
                BeforeDns

\* An exit leaves nothing to establish.
LEMMA ExitKeepsInv == StartupInv /\ Exit => StartupInv'
BY EmptySeq DEF Exit, StartupInv, Alive, Stages, BeforeBound, BeforeShared, BeforeDns

\* The options of a command line that is not refused name one method.
LEMMA OneMethod ==
  ASSUME cmd \in Invocations, ~(cmd.no_auth /\ cmd.users)
  PROVE  select_auth_methods(cmd.no_auth, cmd.users)
           = {IF cmd.users THEN "UserPass" ELSE "NoAuth"}
BY StartupAssumption DEF select_auth_methods

\* A loadable file lists users and nothing else.
LEMMA LoadableFile ==
  ASSUME cmd \in Invocations, Loadable
  PROVE  /\ ToSet(cmd.rows) = {"user"}
         /\ cmd.shared_file => cmd.allow_insecure
<1>1. cmd.rows \in Seq({"user", "malformed"}) /\ cmd.rows # << >>
  BY StartupAssumption DEF Loadable
<1>2. /\ 1 \in DOMAIN cmd.rows
      /\ \A i \in DOMAIN cmd.rows : cmd.rows[i] \in {"user", "malformed"}
  BY <1>1
<1>3. QED BY <1>2 DEF Loadable, ToSet

\* Every step of main establishes what its stage asks for.
LEMMA MainKeepsInv ==
  ASSUME StartupInv, StartupStep \/ BindStats
  PROVE  StartupInv'
<1> USE DEF StartupInv, Alive, Stages, BeforeBound, BeforeShared, BeforeDns
<1>1. CASE Exit
  BY <1>1, ExitKeepsInv
<1>2. CASE ParseArgs
  BY <1>2, OneMethod DEF ParseArgs
<1>3. CASE LoadUsers
  <2>1. cmd.users => /\ users' = cmd.rows /\ ToSet(cmd.rows) = {"user"}
                     /\ cmd.shared_file => cmd.allow_insecure
    BY <1>3, LoadableFile DEF LoadUsers
  <2>2. UsersAsConfigured'
    BY <1>3, <2>1 DEF UsersAsConfigured, LoadUsers
  <2>3. QED BY <1>3, <2>2 DEF LoadUsers
<1>4. CASE LookupHost
  <2>1. Cardinality(ToSet(cmd.ip)) \in Nat
    BY StartupAssumption, FiniteRange
  <2>2. todo' \in Seq(ToSet(cmd.ip))
    BY <1>4, <2>1, SeqDef DEF LookupHost
  <2>3. QED BY <1>4, <2>2 DEF LookupHost, UsersAsConfigured
<1>5. CASE BindAddress
  <2>1. Head(todo) \in ToSet(cmd.ip) /\ Tail(todo) \in Seq(ToSet(cmd.ip))
    BY <1>5, HeadTailProperties DEF BindAddress
  <2>2. bound' \subseteq ToSet(cmd.ip)
    BY <1>5, <2>1 DEF BindAddress
  <2>3. QED BY <1>5, <2>1, <2>2 DEF BindAddress, UsersAsConfigured
<1>6. CASE ServerBound
  <2>1. /\ caps'.max >= 1 /\ caps'.perIp = cmd.max_connections_per_ip
        /\ cmd.max_connections >= 1 => caps'.max = cmd.max_connections
    BY <1>6, StartupAssumption DEF ServerBound
  <2>2. CapsAsConfigured'
    BY <1>6, <2>1 DEF ServerBound, CapsAsConfigured
  <2>3. QED BY <1>6, <2>2 DEF ServerBound, UsersAsConfigured
<1>7. CASE ShareStats
  BY <1>7 DEF ShareStats, UsersAsConfigured, CapsAsConfigured
<1>8. CASE EnableDns
  BY <1>8 DEF EnableDns, UsersAsConfigured, CapsAsConfigured
<1>9. CASE StartServer
  BY <1>9 DEF StartServer, UsersAsConfigured, CapsAsConfigured
<1>10. CASE ActorStarted
  BY <1>10 DEF ActorStarted, UsersAsConfigured, CapsAsConfigured
<1>11. CASE BindStats
  BY <1>11 DEF BindStats, UsersAsConfigured, CapsAsConfigured
<1>12. CASE InstallSignals
  BY <1>12 DEF InstallSignals, UsersAsConfigured, CapsAsConfigured
<1>13. QED
  BY <1>1, <1>2, <1>3, <1>4, <1>5, <1>6, <1>7, <1>8, <1>9, <1>10, <1>11, <1>12
     DEF StartupStep, UsageError, LoadUsersFails, LookupFails, NoListener,
         ResolveStatsFails, BindStatsFails, Signalled

-----------------------------------------------------------------------------
(* What a request head says                                                *)

\* The header whose value LastHeader returns is among the lines.
LEMMA LastHeaderSent ==
  ASSUME NEW S, NEW lines \in Seq(S), NEW k, LastHeader(lines, k) # None
  PROVE  \E i \in 2..Len(lines) : /\ lines[i].k = k
                                  /\ lines[i].v = LastHeader(lines, k)
<1> DEFINE at == {i \in 2..Len(lines) : lines[i].k = k}
<1>1. at # {} /\ LastHeader(lines, k) = lines[Max(at)].v
  BY DEF LastHeader
<1>2. Len(lines) \in Nat
  OBVIOUS
<1>3. at \in SUBSET (0..Len(lines))
  BY <1>2
<1>4. Max(at) \in at
  BY <1>1, <1>2, <1>3, GreatestOf
<1>5. QED BY <1>1, <1>4

\* What is parsed is a prefix of the lines that does not reach the end of the
\* head.
LEMMA HeaderBytesArePrefix ==
  ASSUME NEW S, NEW lines \in Seq(S)
  PROVE  \E m \in 0..Len(lines) : /\ header_bytes(lines) = SubSeq(lines, 1, m)
                                  /\ \A j \in 1..m : lines[j] # End
<1> DEFINE ends == {i \in DOMAIN lines : lines[i] = End}
<1>1. Len(lines) \in Nat /\ DOMAIN lines = 1..Len(lines)
  OBVIOUS
<1>2. CASE ends = {}
  <2>1. header_bytes(lines) = lines
    BY <1>2 DEF header_bytes
  <2>2. lines = SubSeq(lines, 1, Len(lines))
    OBVIOUS
  <2>3. \A j \in 1..Len(lines) : lines[j] # End
    BY <1>1, <1>2
  <2>4. Len(lines) \in 0..Len(lines)
    BY <1>1
  <2>5. header_bytes(lines) = SubSeq(lines, 1, Len(lines))
    BY <2>1, <2>2
  <2>6. QED BY <2>3, <2>4, <2>5, Zenon
<1>3. CASE ends # {}
  <2>1. header_bytes(lines) = SubSeq(lines, 1, Min(ends) - 1)
    BY <1>3 DEF header_bytes
  <2>2. ends \in SUBSET Nat
    BY <1>1
  <2>3. Min(ends) \in ends /\ \A x \in ends : Min(ends) <= x
    BY <1>3, <2>2, LeastOf
  <2>4. Min(ends) \in 1..Len(lines)
    BY <1>1, <2>3
  <2> HIDE DEF ends
  <2>5. Min(ends) - 1 \in 0..Len(lines)
    BY <1>1, <2>4
  <2>6. \A j \in 1..(Min(ends) - 1) : j \in DOMAIN lines /\ j \notin ends
    BY <1>1, <2>3, <2>4
  <2>7. \A j \in 1..(Min(ends) - 1) : lines[j] # End
    BY <2>6 DEF ends
  <2>8. QED BY <2>1, <2>5, <2>7
<1>4. QED BY <1>2, <1>3

\* The lines a client may send are lines.
WellFormedHead(h) ==
  /\ h \in Seq({h[i] : i \in DOMAIN h})
  /\ \A i \in DOMAIN h : h[i] = Line(h[i].k, h[i].v)

\* The client sent the token, in its head and before the end of it.
TokenSent(p) ==
  \E i \in 1..buf[p] : /\ head[p][i] = Line("bearer", token)
                       /\ \A j \in 1..i : head[p][j] # End

\* A request that is not rejected carried the token, if there is one.
LEMMA OnlyTheTokenPasses ==
  ASSUME NEW p, WellFormedHead(head[p]), buf[p] \in 0..Len(head[p]),
         token # None, RejectStatus(Request(p)) = None
  PROVE  TokenSent(p)
<1> DEFINE h == head[p]
           n == buf[p]
           lines == SubSeq(h, 1, n)
           S == {h[i] : i \in DOMAIN h}
           parsed == header_bytes(lines)
<1>1. /\ Request(p) # None
      /\ Authorized(Request(p))
  BY StatsHttpAssumption DEF RejectStatus, Statuses
<1>2. Request(p) = ParsedHead(parsed)
  BY DEF Request
<1>3. ParsedHead(parsed).bearer = LastHeader(parsed, "bearer")
  BY <1>1, <1>2 DEF ParsedHead
<1>4. LastHeader(parsed, "bearer") = token
  BY <1>1, <1>2, <1>3 DEF Authorized
<1>5. /\ h \in Seq(S) /\ Len(h) \in Nat /\ n \in 0..Len(h) /\ DOMAIN h = 1..Len(h)
  BY DEF WellFormedHead
<1> HIDE DEF h, n, S
<1>6. /\ lines \in Seq(S) /\ Len(lines) = n
      /\ \A i \in 1..n : lines[i] = h[i]
  BY <1>5
<1>7. PICK m \in 0..n : /\ parsed = SubSeq(lines, 1, m)
                        /\ \A j \in 1..m : lines[j] # End
  BY <1>6, HeaderBytesArePrefix
<1> HIDE DEF lines
<1>8. /\ parsed \in Seq(S) /\ Len(parsed) = m
      /\ \A i \in 1..m : parsed[i] = lines[i]
  BY <1>5, <1>6, <1>7
<1> HIDE DEF parsed
<1>9. PICK i \in 2..m : parsed[i].k = "bearer" /\ parsed[i].v = token
  BY <1>4, <1>8, LastHeaderSent
<1>10. i \in 1..n /\ i \in 1..m /\ n \in Nat /\ m \in Nat
  BY <1>5, <1>9
<1>11. h[i] = parsed[i]
  BY <1>6, <1>8, <1>10
<1>12. h[i] = Line("bearer", token)
  <2>1. i \in DOMAIN h
    BY <1>5, <1>10
  <2>2. h[i] = Line(h[i].k, h[i].v)
    BY <2>1 DEF WellFormedHead, h
  <2>3. QED BY <1>9, <1>11, <2>2
<1>13. \A j \in 1..i : h[j] # End
  <2> SUFFICES ASSUME NEW j \in 1..i PROVE h[j] # End
    OBVIOUS
  <2>1. j \in 1..m /\ j \in 1..n
    BY <1>10
  <2>2. QED BY <1>6, <1>7, <2>1
<1>14. QED BY <1>10, <1>12, <1>13 DEF TokenSent, h, n

-----------------------------------------------------------------------------
(* The statistics service                                                  *)

\* Where the connection of a client may stand.
SocketStates == {"idle", "backlog", "head", "handle", "snapshot", "respond", "body"}

\* What tells a client more than that its request was refused.
Telling == {"200 OK", "304 Not Modified", "404 Not Found"}

\* One value of each kind for every client.
HttpShape ==
  /\ service \in {"off", "acquire", "accept"} /\ budget \in Int
  /\ DOMAIN sock = Pollers /\ DOMAIN head = Pollers /\ DOMAIN buf = Pollers
  /\ DOMAIN resp = Pollers /\ DOMAIN doc = Pollers /\ DOMAIN copy = Pollers
  /\ DOMAIN held = Pollers

\* What a client has sent and been answered fits where its connection stands.
ConnTypes(p) ==
  /\ sock[p] \in SocketStates
  /\ resp[p] \in Statuses \cup {None}
  /\ WellFormedHead(head[p]) /\ buf[p] \in 0..Len(head[p])
  /\ sock[p] \in {"idle", "backlog"} => buf[p] = 0

\* Nothing is decided before it is answered, and no document left over.
Unanswered(p) ==
  /\ sock[p] \notin {"respond", "body"} => resp[p] = None
  /\ sock[p] \in {"idle", "backlog", "head", "handle"} => doc[p] = None

\* From the first look at the statistics on, the token was there.
Guarded(p) ==
  token # None /\ (sock[p] = "snapshot" \/ resp[p] \in Telling) => TokenSent(p)

\* What has been read of a snapshot was true during the request, and what
\* may still be read is; so is what the client is left with.
Current(p) ==
  /\ sock[p] = "snapshot" =>
       /\ \A f \in DOMAIN doc[p] : f \in DOMAIN Now /\ doc[p][f] \in held[p][f]
       /\ \A f \in DOMAIN Now : Now[f] \in held[p][f]
  /\ resp[p] = "200 OK" /\ doc[p] # None =>
       \A f \in DOMAIN doc[p] : doc[p][f] \in held[p][f]
  /\ resp[p] = "304 Not Modified" =>
       \A f \in DOMAIN copy[p] : copy[p][f] \in held[p][f]

\* What holds of the connection of one client.
Connection(p) == ConnTypes(p) /\ Unanswered(p) /\ Guarded(p) /\ Current(p)

\* The connections that hold a permit.
Open == {p \in Pollers : sock[p] \notin {"idle", "backlog"}}

\* The service: every connection, and the permits they hold.
HttpInv ==
  /\ HttpShape
  /\ \A p \in Pollers : Connection(p)
  /\ SocketBudgetHolds
  /\ service = "off" => \A p \in Pollers : sock[p] = "idle"

\* The service runs only in a process that spawned it.
ServerInv ==
  /\ StartupInv /\ HttpInv
  /\ boot \notin {"signals", "run"} => service = "off"

-----------------------------------------------------------------------------
(* Steps that leave a connection alone                                     *)

\* A step of somebody else.
Kept(q) ==
  /\ sock'[q] = sock[q] /\ head'[q] = head[q] /\ buf'[q] = buf[q]
  /\ resp'[q] = resp[q] /\ doc'[q] = doc[q] /\ copy'[q] = copy[q]
  /\ held'[q] = held[q]

\* The statistics change only with the connections served.
LEMMA NowKept == life' = life => Now' = Now
BY DEF Now, CountIn

\* The parts that do not depend on the statistics
LEMMA KeptStatic ==
  ASSUME NEW q, Connection(q), Kept(q), token' = token
  PROVE  (ConnTypes(q) /\ Unanswered(q) /\ Guarded(q))'
<1>1. ConnTypes(q)' /\ Unanswered(q)'
  BY DEF Connection, Kept, ConnTypes, Unanswered, WellFormedHead
<1>2. TokenSent(q)' = TokenSent(q)
  BY DEF TokenSent, Kept
<1>3. Guarded(q)'
  BY <1>2 DEF Connection, Kept, Guarded
<1>4. QED BY <1>1, <1>3

\* and the ones that do.
LEMMA KeptConnection ==
  ASSUME NEW q, Connection(q), Kept(q), token' = token, life' = life
  PROVE  Connection(q)'
<1>1. Current(q)'
  BY NowKept DEF Connection, Kept, Current
<1>2. QED BY <1>1, KeptStatic DEF Connection

\* A step of one connection keeps the invariant of the others.
LEMMA OthersKept ==
  ASSUME HttpInv, NEW p \in Pollers, token' = token, life' = life,
         \A q \in Pollers \ {p} : Kept(q), Connection(p)'
  PROVE  \A q \in Pollers : Connection(q)'
BY KeptConnection DEF HttpInv

\* Opening and closing one connection moves one permit.
LEMMA OneConnection ==
  ASSUME NEW p \in Pollers
  PROVE  /\ IsFiniteSet(Open) /\ Cardinality(Open) \in Nat
         /\ p \notin Open => Cardinality(Open \cup {p}) = Cardinality(Open) + 1
         /\ p \in Open => Cardinality(Open \ {p}) = Cardinality(Open) - 1
<1>1. IsFiniteSet(Open)
  BY StatsHttpAssumption, FS_Subset DEF Open
<1>2. QED BY <1>1, FS_CardinalityType, FS_AddElement, FS_RemoveElement

\* The budget, in terms of the open connections.
LEMMA BudgetOfOpen ==
  SocketBudgetHolds =
    (budget + (IF service = "accept" THEN 1 ELSE 0) + Cardinality(Open) = MaxSockets)
BY DEF SocketBudgetHolds, Open

-----------------------------------------------------------------------------
(* The steps of one connection                                             *)

\* A step of an open connection that leaves it open.
LEMMA OpenStaysOpen ==
  ASSUME HttpInv, NEW p \in Pollers, p \in Open,
         sock'[p] \notin {"idle", "backlog"},
         \A q \in Pollers \ {p} : Kept(q),
         Connection(p)', HttpShape',
         UNCHANGED <<service, token, budget, life>>
  PROVE  HttpInv'
<1>1. \A q \in Pollers : Connection(q)'
  BY OthersKept
<1>2. Open' = Open
  BY DEF Open, Kept
<1>3. SocketBudgetHolds'
  BY <1>2, BudgetOfOpen DEF HttpInv, SocketBudgetHolds, Open
<1>4. service # "off"
  BY DEF HttpInv, Open
<1>5. QED BY <1>1, <1>3, <1>4 DEF HttpInv

\* The end of a task gives its permit back and leaves nothing behind.
LEMMA TaskEndsKeepsInv ==
  ASSUME HttpInv, NEW p \in Pollers, p \in Open, TaskEnds(p),
         DOMAIN copy' = Pollers, \A q \in Pollers \ {p} : copy'[q] = copy[q]
  PROVE  HttpInv'
<1>1. HttpShape'
  BY DEF HttpInv, HttpShape, TaskEnds
<1>2. \A q \in Pollers \ {p} : Kept(q)
  BY DEF HttpInv, HttpShape, TaskEnds, Kept
<1>3. /\ sock'[p] = "idle" /\ head'[p] = << >> /\ buf'[p] = 0
      /\ resp'[p] = None /\ doc'[p] = None
  BY DEF HttpInv, HttpShape, TaskEnds
<1>4. ConnTypes(p)' /\ Unanswered(p)'
  <2>1. WellFormedHead(<< >>)
    BY EmptySeq DEF WellFormedHead
  <2>2. WellFormedHead(head[p])'
    BY <1>3, <2>1 DEF WellFormedHead
  <2>3. QED BY <1>3, <2>2, EmptySeq DEF ConnTypes, Unanswered, SocketStates
<1>5. Guarded(p)' /\ Current(p)'
  BY <1>3, StatsHttpAssumption DEF Guarded, Current, Telling, Statuses
<1>6. token' = token /\ life' = life /\ service' = service /\ budget' = budget + 1
  BY DEF TaskEnds
<1>7. \A q \in Pollers : Connection(q)'
  BY <1>2, <1>4, <1>5, <1>6, OthersKept DEF Connection
<1>8. Open' = Open \ {p}
  BY <1>2, <1>3 DEF Open, Kept
<1>9. SocketBudgetHolds'
  <2>1. /\ Cardinality(Open') = Cardinality(Open) - 1
        /\ Cardinality(Open) \in Nat /\ budget \in Int
    BY <1>8, OneConnection DEF HttpInv, HttpShape
  <2>2. budget + (IF service = "accept" THEN 1 ELSE 0) + Cardinality(Open) = MaxSockets
    BY BudgetOfOpen DEF HttpInv
  <2>3. (budget + (IF service = "accept" THEN 1 ELSE 0) + Cardinality(Open) = MaxSockets)'
    BY <1>6, <2>1, <2>2
  <2>4. QED BY <2>3 DEF SocketBudgetHolds, Open
<1>10. service # "off"
  BY DEF HttpInv, Open
<1>11. QED BY <1>1, <1>6, <1>7, <1>9, <1>10 DEF HttpInv

\* A status is decided on that tells nothing, or the token was sent.
LEMMA AnswerFixed ==
  ASSUME HttpInv, NEW p \in Pollers, sock[p] \in {"head", "handle"},
         NEW st \in Statuses \ {"304 Not Modified"}, Respond(p, st),
         token # None /\ st \in Telling => TokenSent(p),
         buf'[p] \in 0..Len(head[p]), DOMAIN buf' = Pollers,
         sock[p] = "head" \/ buf' = buf,
         \A q \in Pollers \ {p} : buf'[q] = buf[q],
         sock[p] = "head" => st \notin Telling,
         UNCHANGED <<service, token, budget, head, doc, copy, held, polls, life>>
  PROVE  HttpInv'
<1>1. /\ HttpShape' /\ \A q \in Pollers \ {p} : Kept(q)
      /\ sock'[p] = "respond" /\ resp'[p] = st
  BY DEF HttpInv, HttpShape, Respond, Kept
<1>2. Connection(p)
  BY DEF HttpInv
<1>3. ConnTypes(p)' /\ Unanswered(p)'
  BY <1>1, <1>2 DEF Connection, ConnTypes, Unanswered, SocketStates, WellFormedHead
<1>4. Guarded(p)'
  <2>1. CASE st \notin Telling
    BY <1>1, <2>1 DEF Guarded
  <2>2. CASE st \in Telling
    BY <1>1, <2>2 DEF Guarded, TokenSent
  <2>3. QED BY <2>1, <2>2
<1>5. doc'[p] = None
  BY <1>2 DEF Connection, Unanswered
<1>6. Current(p)'
  BY <1>1, <1>5 DEF Current
<1>7. p \in Open
  BY DEF Open
<1>8. QED BY <1>1, <1>3, <1>4, <1>6, <1>7, OpenStaysOpen DEF Connection

\* More of the head is read, and the connection goes on without an answer.
LEMMA ReadOn ==
  ASSUME HttpInv, NEW p \in Pollers, sock[p] = "head",
         UNCHANGED sock \/ sock' = [sock EXCEPT ![p] = "handle"],
         buf'[p] \in 0..Len(head[p]), DOMAIN buf' = Pollers,
         \A q \in Pollers \ {p} : buf'[q] = buf[q],
         UNCHANGED <<service, token, budget, head, resp, doc, copy, held, polls, life>>
  PROVE  HttpInv'
<1>1. /\ HttpShape' /\ \A q \in Pollers \ {p} : Kept(q)
      /\ sock'[p] \in {"head", "handle"}
  BY DEF HttpInv, HttpShape, Kept
<1>2. Connection(p)
  BY DEF HttpInv
<1>3. ConnTypes(p)' /\ Unanswered(p)'
  BY <1>1, <1>2 DEF Connection, ConnTypes, Unanswered, SocketStates, WellFormedHead
<1>4. resp'[p] = None
  BY <1>2 DEF Connection, Unanswered
<1>5. Guarded(p)' /\ Current(p)'
  BY <1>1, <1>4, StatsHttpAssumption DEF Guarded, Current, Telling, Statuses
<1>6. p \in Open
  BY DEF Open
<1>7. QED BY <1>1, <1>3, <1>5, <1>6, OpenStaysOpen DEF Connection

\* read_head: some more lines
LEMMA ReadHeadKeepsInv ==
  ASSUME HttpInv, NEW p \in Pollers, NEW n \in 1..Chunk, ReadHead(p, n)
  PROVE  HttpInv'
<1>1. Connection(p) /\ HttpShape
  BY DEF HttpInv
<1>2. /\ buf'[p] \in 0..Len(head[p]) /\ DOMAIN buf' = Pollers
      /\ \A q \in Pollers \ {p} : buf'[q] = buf[q]
  <2>1. buf[p] \in Nat /\ Len(head[p]) \in Nat /\ n \in Nat
    BY <1>1, StatsHttpAssumption DEF Connection, ConnTypes, WellFormedHead
  <2>2. buf'[p] = buf[p] + n /\ buf[p] + n <= Len(head[p])
    BY <1>1 DEF HttpShape, ReadHead
  <2>3. buf'[p] \in 0..Len(head[p])
    BY <2>1, <2>2
  <2>4. QED BY <1>1, <2>3 DEF HttpShape, ReadHead
<1>3. CASE Respond(p, "400 Bad Request")
  BY <1>2, <1>3, AnswerFixed DEF ReadHead, Statuses, Telling
<1>4. CASE sock' = [sock EXCEPT ![p] = "handle"] /\ UNCHANGED resp
  BY <1>2, <1>4, ReadOn DEF ReadHead
<1>5. CASE UNCHANGED <<sock, resp>>
  BY <1>2, <1>5, ReadOn DEF ReadHead
<1>6. QED BY <1>3, <1>4, <1>5 DEF ReadHead

\* read_head: the end of the stream, and what was read is handled
LEMMA ReadEofKeepsInv ==
  ASSUME HttpInv, NEW p \in Pollers, ReadEof(p)
  PROVE  HttpInv'
<1>1. Connection(p) /\ HttpShape
  BY DEF HttpInv
<1>2. buf'[p] \in 0..Len(head[p]) /\ DOMAIN buf' = Pollers /\ buf' = buf
  BY <1>1 DEF ReadEof, Connection, ConnTypes, HttpShape
<1>3. CASE Respond(p, "400 Bad Request")
  BY <1>2, <1>3, AnswerFixed DEF ReadEof, Statuses, Telling
<1>4. CASE sock' = [sock EXCEPT ![p] = "handle"] /\ UNCHANGED resp
  BY <1>2, <1>4, ReadOn DEF ReadEof
<1>5. QED BY <1>3, <1>4 DEF ReadEof

\* The statuses that need no statistics are statuses; one that tells
\* anything is not a rejection.
LEMMA FixedStatuses ==
  ASSUME NEW r, FixedStatus(r) # None
  PROVE  /\ FixedStatus(r) \in Statuses \ {"304 Not Modified"}
         /\ FixedStatus(r) \in Telling => RejectStatus(r) = None
<1>1. RejectStatus(r) \in {None, "400 Bad Request", "405 Method Not Allowed",
                           "401 Unauthorized"}
  BY DEF RejectStatus
<1>2. CASE RejectStatus(r) # None
  BY <1>1, <1>2 DEF FixedStatus, Statuses, Telling
<1>3. CASE RejectStatus(r) = None
  <2>1. \/ FixedStatus(r) = "200 OK"
        \/ FixedStatus(r) = None
        \/ FixedStatus(r) = "404 Not Found"
    <3>1. CASE r.path = "/"
      BY <1>3, <3>1 DEF FixedStatus, StatsPaths
    <3>2. CASE r.path \in StatsPaths
      BY <1>3, <3>2 DEF FixedStatus, StatsPaths
    <3>3. CASE r.path # "/" /\ r.path \notin StatsPaths
      BY <1>3, <3>3 DEF FixedStatus
    <3>4. QED BY <3>1, <3>2, <3>3
  <2>2. QED BY <1>3, <2>1 DEF Statuses, Telling
<1>4. QED BY <1>2, <1>3

\* No answer yet: not rejected.
LEMMA NotRejected ==
  ASSUME NEW r, FixedStatus(r) = None
  PROVE  RejectStatus(r) = None
BY DEF FixedStatus

\* route: what is answered without a look at the statistics
LEMMA HandleFixedKeepsInv ==
  ASSUME HttpInv, NEW p \in Pollers, HandleFixed(p)
  PROVE  HttpInv'
<1> DEFINE st == FixedStatus(Request(p))
<1>1. Connection(p) /\ HttpShape
  BY DEF HttpInv
<1>2. st \in Statuses \ {"304 Not Modified"}
  BY FixedStatuses DEF HandleFixed
<1>3. token # None /\ st \in Telling => TokenSent(p)
  BY <1>1, FixedStatuses, OnlyTheTokenPasses DEF HandleFixed, Connection, ConnTypes
<1>4. /\ sock[p] = "handle" /\ Respond(p, st) /\ buf' = buf
      /\ UNCHANGED <<service, token, budget, head, doc, copy, held, polls, life>>
  BY DEF HandleFixed
<1>5. buf'[p] \in 0..Len(head[p]) /\ DOMAIN buf' = Pollers
  BY <1>1, <1>4 DEF Connection, ConnTypes, HttpShape
<1> HIDE DEF st
<1>6. QED BY <1>2, <1>3, <1>4, <1>5, AnswerFixed

-----------------------------------------------------------------------------
(* Documents                                                               *)

\* A document all of whose values were true is served, or found to be the
\* one the client has.
LEMMA AnswerJson ==
  ASSUME HttpInv, NEW p \in Pollers, sock[p] \in {"handle", "snapshot"},
         token # None => TokenSent(p),
         NEW body, \A f \in DOMAIN body : body[f] \in held'[p][f],
         Respond(p, JsonStatus(p, body)), doc'[p] = body,
         DOMAIN doc' = Pollers, DOMAIN held' = Pollers,
         \A q \in Pollers \ {p} : doc'[q] = doc[q] /\ held'[q] = held[q],
         UNCHANGED <<service, token, budget, head, buf, copy, polls, life>>
  PROVE  HttpInv'
<1>1. /\ HttpShape' /\ \A q \in Pollers \ {p} : Kept(q)
      /\ sock'[p] = "respond" /\ resp'[p] = JsonStatus(p, body)
  BY DEF HttpInv, HttpShape, Respond, Kept
<1>2. Connection(p)
  BY DEF HttpInv
<1>3. /\ JsonStatus(p, body) \in {"200 OK", "304 Not Modified"}
      /\ JsonStatus(p, body) = "304 Not Modified" => copy[p] = body
  BY DEF JsonStatus, etag_of
<1>4. ConnTypes(p)' /\ Unanswered(p)'
  BY <1>1, <1>2, <1>3
     DEF Connection, ConnTypes, Unanswered, SocketStates, WellFormedHead, Statuses
<1>5. Guarded(p)'
  BY DEF Guarded, TokenSent
<1>6. Current(p)'
  BY <1>1, <1>3 DEF Current
<1>7. p \in Open
  BY DEF Open
<1>8. QED BY <1>1, <1>4, <1>5, <1>6, <1>7, OpenStaysOpen DEF Connection

\* Before the statistics are looked at, the token was sent.
LEMMA LookedAtWithToken ==
  ASSUME HttpInv, NEW p \in Pollers, FixedStatus(Request(p)) = None
  PROVE  token # None => TokenSent(p)
BY NotRejected, OnlyTheTokenPasses DEF HttpInv, Connection, ConnTypes

\* route: the rows, read under one lock
LEMMA HandleClientsKeepsInv ==
  ASSUME HttpInv, NEW p \in Pollers, HandleClients(p)
  PROVE  HttpInv'
<1> DEFINE body == [rows |-> Now.rows]
<1>1. /\ sock[p] = "handle" /\ Respond(p, JsonStatus(p, body))
      /\ doc' = [doc EXCEPT ![p] = body]
      /\ held' = [held EXCEPT ![p] = [f \in DOMAIN Now |-> {Now[f]}]]
      /\ UNCHANGED <<service, token, budget, head, buf, copy, polls, life>>
  BY DEF HandleClients
<1>2. "rows" \in DOMAIN Now /\ Now.rows = Now["rows"]
  BY DEF Now
<1>3. \A f \in DOMAIN body : body[f] \in held'[p][f]
  <2>1. held'[p] = [f \in DOMAIN Now |-> {Now[f]}]
    BY <1>1 DEF HttpInv, HttpShape
  <2>2. DOMAIN body = {"rows"} /\ body["rows"] = Now["rows"]
    BY <1>2
  <2>3. held'[p]["rows"] = {Now["rows"]}
    BY <1>2, <2>1
  <2>4. QED BY <2>2, <2>3
<1> HIDE DEF body
<1>4. /\ doc'[p] = body /\ DOMAIN doc' = Pollers /\ DOMAIN held' = Pollers
      /\ \A q \in Pollers \ {p} : doc'[q] = doc[q] /\ held'[q] = held[q]
  BY <1>1 DEF HttpInv, HttpShape
<1>5. token # None => TokenSent(p)
  BY LookedAtWithToken DEF HandleClients
<1>6. QED BY <1>1, <1>3, <1>4, <1>5, AnswerJson

\* route: a snapshot begins
LEMMA HandleStatsKeepsInv ==
  ASSUME HttpInv, NEW p \in Pollers, HandleStats(p)
  PROVE  HttpInv'
<1>1. /\ HttpShape' /\ \A q \in Pollers \ {p} : Kept(q)
      /\ sock'[p] = "snapshot" /\ doc'[p] = [f \in {} |-> 0]
      /\ held'[p] = [f \in DOMAIN Now |-> {Now[f]}]
      /\ UNCHANGED <<service, token, budget, head, buf, resp, copy, life>>
  BY DEF HttpInv, HttpShape, HandleStats, Kept
<1>2. Connection(p)
  BY DEF HttpInv
<1>3. resp[p] = None
  BY <1>2 DEF Connection, Unanswered, HandleStats
<1>4. ConnTypes(p)' /\ Unanswered(p)'
  BY <1>1, <1>2, <1>3 DEF Connection, ConnTypes, Unanswered, SocketStates, WellFormedHead
<1>5. Guarded(p)'
  <2>1. token # None => TokenSent(p)
    BY LookedAtWithToken DEF HandleStats
  <2>2. QED BY <1>1, <2>1 DEF Guarded, TokenSent
<1>6. Current(p)'
  <2>1. Now' = Now
    BY <1>1, NowKept
  <2>2. \A f \in DOMAIN Now : Now[f] \in held'[p][f]
    BY <1>1
  <2>3. DOMAIN doc'[p] = {}
    BY <1>1
  <2>4. resp'[p] \notin {"200 OK", "304 Not Modified"}
    BY <1>1, <1>3, StatsHttpAssumption DEF Statuses
  <2>5. QED BY <2>1, <2>2, <2>3, <2>4 DEF Current
<1>7. p \in Open
  BY DEF Open, HandleStats
<1>8. QED BY <1>1, <1>4, <1>5, <1>6, <1>7, OpenStaysOpen DEF Connection

\* Stats::snapshot reads one counter after the other
LEMMA ReadCounterKeepsInv ==
  ASSUME HttpInv, NEW p \in Pollers, NEW f \in Counters, ReadCounter(p, f)
  PROVE  HttpInv'
<1>1. /\ HttpShape' /\ \A q \in Pollers \ {p} : Kept(q)
      /\ sock'[p] = "snapshot" /\ sock[p] = "snapshot"
      /\ doc'[p] = [g \in DOMAIN doc[p] \cup {f} |-> IF g = f THEN Now[f] ELSE doc[p][g]]
      /\ UNCHANGED <<service, token, budget, sock, head, buf, resp, copy, held, life>>
  BY DEF HttpInv, HttpShape, ReadCounter, Kept
<1>2. Connection(p)
  BY DEF HttpInv
<1>3. ConnTypes(p)' /\ Unanswered(p)' /\ Guarded(p)'
  BY <1>1, <1>2
     DEF Connection, ConnTypes, Unanswered, Guarded, TokenSent, WellFormedHead
<1>4. resp'[p] \notin {"200 OK", "304 Not Modified"}
  BY <1>1, <1>2, StatsHttpAssumption DEF Connection, Unanswered, Statuses
<1>5. Current(p)'
  <2>1. Now' = Now /\ f \in DOMAIN Now
    BY <1>1, NowKept DEF Now, Counters
  <2>2. /\ \A g \in DOMAIN doc[p] : g \in DOMAIN Now /\ doc[p][g] \in held[p][g]
        /\ \A g \in DOMAIN Now : Now[g] \in held[p][g]
    BY <1>1, <1>2 DEF Connection, Current
  <2>3. \A g \in DOMAIN doc'[p] : g \in DOMAIN Now /\ doc'[p][g] \in held[p][g]
    BY <1>1, <2>1, <2>2
  <2>4. QED BY <1>1, <1>4, <2>1, <2>2, <2>3 DEF Current
<1>6. p \in Open
  BY <1>1 DEF Open
<1>7. QED BY <1>1, <1>3, <1>5, <1>6, OpenStaysOpen DEF Connection

\* and serve_json answers with what was read.
LEMMA SnapshotDoneKeepsInv ==
  ASSUME HttpInv, NEW p \in Pollers, SnapshotDone(p)
  PROVE  HttpInv'
<1>1. /\ sock[p] = "snapshot" /\ Connection(p) /\ HttpShape
      /\ UNCHANGED <<service, token, budget, head, buf, copy, held, polls, life>>
  BY DEF HttpInv, SnapshotDone
<1>2. token # None => TokenSent(p)
  BY <1>1 DEF Connection, Guarded
<1>3. \A f \in DOMAIN doc[p] : doc[p][f] \in held[p][f]
  BY <1>1 DEF Connection, Current
<1>4. CASE Respond(p, JsonStatus(p, doc[p])) /\ UNCHANGED doc
  BY <1>1, <1>2, <1>3, <1>4, AnswerJson DEF HttpShape
<1>5. CASE Respond(p, "200 OK") /\ doc' = [doc EXCEPT ![p] = None]
  <2>1. /\ HttpShape' /\ \A q \in Pollers \ {p} : Kept(q)
        /\ sock'[p] = "respond" /\ resp'[p] = "200 OK" /\ doc'[p] = None
    BY <1>1, <1>5 DEF HttpShape, Respond, Kept
  <2>2. ConnTypes(p)' /\ Unanswered(p)'
    BY <1>1, <2>1
       DEF Connection, ConnTypes, Unanswered, SocketStates, WellFormedHead, Statuses
  <2>3. Guarded(p)' /\ Current(p)'
    BY <1>1, <1>2, <2>1 DEF Guarded, TokenSent, Current
  <2>4. p \in Open
    BY <1>1 DEF Open
  <2>5. QED BY <1>1, <2>1, <2>2, <2>3, <2>4, OpenStaysOpen DEF Connection
<1>6. QED BY <1>4, <1>5 DEF SnapshotDone

-----------------------------------------------------------------------------
(* Answers                                                                 *)

\* The head of a response is written.
LEMMA WriteHeadKeepsInv ==
  ASSUME HttpInv, NEW p \in Pollers, WriteHead(p)
  PROVE  HttpInv'
<1>1. /\ HttpShape' /\ \A q \in Pollers \ {p} : Kept(q)
      /\ sock[p] = "respond" /\ sock'[p] = "body"
      /\ UNCHANGED <<service, token, budget, head, buf, resp, doc, copy, held, life>>
  BY DEF HttpInv, HttpShape, WriteHead, Kept
<1>2. Connection(p)
  BY DEF HttpInv
<1>3. Connection(p)'
  BY <1>1, <1>2 DEF Connection, ConnTypes, Unanswered, Guarded, TokenSent,
                    WellFormedHead, Current, SocketStates
<1>4. p \in Open
  BY <1>1 DEF Open
<1>5. QED BY <1>1, <1>3, <1>4, OpenStaysOpen

\* Every way in which a task ends.
LEMMA EndKeepsInv ==
  ASSUME HttpInv, NEW p \in Pollers,
         ReadFails(p) \/ WriteBody(p) \/ WriteFails(p) \/ RequestTimeout(p)
  PROVE  HttpInv'
<1>1. TaskEnds(p) /\ p \in Open
  BY DEF ReadFails, WriteBody, WriteFails, RequestTimeout, Open
<1>2. DOMAIN copy' = Pollers /\ \A q \in Pollers \ {p} : copy'[q] = copy[q]
  BY DEF HttpInv, HttpShape, ReadFails, WriteBody, WriteFails, RequestTimeout
<1>3. QED BY <1>1, <1>2, TaskEndsKeepsInv

-----------------------------------------------------------------------------
(* The accept loop                                                         *)

\* The loop takes a permit, or gives back the one it holds.
LEMMA LoopKeepsInv ==
  ASSUME HttpInv, AcquireSocket \/ AcceptPollErr
  PROVE  HttpInv'
<1>1. /\ UNCHANGED <<token, sock, head, buf, resp, doc, copy, held, life>>
      /\ \/ service = "acquire" /\ service' = "accept" /\ budget' = budget - 1
         \/ service = "accept" /\ service' = "acquire" /\ budget' = budget + 1
  BY DEF AcquireSocket, AcceptPollErr
<1>2. HttpShape'
  BY <1>1 DEF HttpInv, HttpShape
<1>3. \A q \in Pollers : Connection(q)'
  BY <1>1, KeptConnection DEF HttpInv, Kept
<1>4. SocketBudgetHolds'
  <2>1. Open' = Open /\ Cardinality(Open) \in Nat /\ budget \in Int
    <3>1. IsFiniteSet(Open)
      BY StatsHttpAssumption, FS_Subset DEF Open
    <3>2. QED BY <1>1, <3>1, FS_CardinalityType DEF Open, HttpInv, HttpShape
  <2>2. budget + (IF service = "accept" THEN 1 ELSE 0) + Cardinality(Open) = MaxSockets
    BY BudgetOfOpen DEF HttpInv
  <2>3. (budget + (IF service = "accept" THEN 1 ELSE 0) + Cardinality(Open) = MaxSockets)'
    BY <1>1, <2>1, <2>2
  <2>4. QED BY <2>3 DEF SocketBudgetHolds, Open
<1>5. QED BY <1>1, <1>2, <1>3, <1>4 DEF HttpInv

\* A client connects.
LEMMA PollKeepsInv ==
  ASSUME HttpInv, NEW p \in Pollers, Poll(p)
  PROVE  HttpInv'
<1>1. /\ HttpShape' /\ \A q \in Pollers \ {p} : Kept(q)
      /\ sock[p] = "idle" /\ sock'[p] = "backlog" /\ service # "off"
      /\ UNCHANGED <<service, token, budget, head, buf, resp, doc, copy, held, life>>
  BY DEF HttpInv, HttpShape, Poll, Kept
<1>2. Connection(p)
  BY DEF HttpInv
<1>3. Connection(p)'
  BY <1>1, <1>2 DEF Connection, ConnTypes, Unanswered, Guarded, TokenSent,
                    WellFormedHead, Current, SocketStates
<1>4. \A q \in Pollers : Connection(q)'
  BY <1>1, <1>3, OthersKept
<1>5. Open' = Open
  BY <1>1 DEF Open, Kept
<1>6. SocketBudgetHolds'
  BY <1>1, <1>5 DEF HttpInv, SocketBudgetHolds, Open
<1>7. QED BY <1>1, <1>4, <1>6 DEF HttpInv

\* The service accepts it under a permit.
LEMMA AcceptPollKeepsInv ==
  ASSUME HttpInv, NEW p \in Pollers, NEW h \in Heads, AcceptPoll(p, h)
  PROVE  HttpInv'
<1>1. /\ HttpShape' /\ \A q \in Pollers \ {p} : Kept(q)
      /\ service = "accept" /\ service' = "acquire"
      /\ sock[p] = "backlog" /\ sock'[p] = "head" /\ head'[p] = h
      /\ UNCHANGED <<token, budget, buf, resp, doc, copy, held, life>>
  BY DEF HttpInv, HttpShape, AcceptPoll, Kept
<1>2. Connection(p)
  BY DEF HttpInv
<1>3. buf'[p] = 0 /\ resp'[p] = None /\ doc'[p] = None
  BY <1>1, <1>2 DEF Connection, ConnTypes, Unanswered
<1>4. ConnTypes(p)' /\ Unanswered(p)'
  <2>1. WellFormedHead(h)
    BY StatsHttpAssumption DEF WellFormedHead
  <2>2. WellFormedHead(head[p])' /\ Len(h) \in Nat
    BY <1>1, <2>1 DEF WellFormedHead
  <2>3. QED BY <1>1, <1>3, <2>2 DEF ConnTypes, Unanswered, SocketStates
<1>5. Guarded(p)' /\ Current(p)'
  BY <1>1, <1>3, StatsHttpAssumption DEF Guarded, Current, Telling, Statuses
<1>6. \A q \in Pollers : Connection(q)'
  BY <1>1, <1>4, <1>5, OthersKept DEF Connection
<1>7. Open' = Open \cup {p} /\ p \notin Open
  BY <1>1 DEF Open, Kept
<1>8. SocketBudgetHolds'
  <2>1. /\ Cardinality(Open') = Cardinality(Open) + 1
        /\ Cardinality(Open) \in Nat /\ budget \in Int
    BY <1>7, OneConnection DEF HttpInv, HttpShape
  <2>2. budget + (IF service = "accept" THEN 1 ELSE 0) + Cardinality(Open) = MaxSockets
    BY BudgetOfOpen DEF HttpInv
  <2>3. (budget + (IF service = "accept" THEN 1 ELSE 0) + Cardinality(Open) = MaxSockets)'
    BY <1>1, <2>1, <2>2
  <2>4. QED BY <2>3 DEF SocketBudgetHolds, Open
<1>9. QED BY <1>1, <1>6, <1>8 DEF HttpInv

-----------------------------------------------------------------------------
(* The service as a whole, and what happens beside it                      *)

\* Every step of the service keeps its invariant,
LEMMA ServiceKeepsInv ==
  ASSUME HttpInv, HttpStep
  PROVE  HttpInv'
<1>1. CASE AcquireSocket \/ AcceptPollErr
  BY <1>1, LoopKeepsInv
<1>2. ASSUME NEW p \in Pollers, \E h \in Heads : AcceptPoll(p, h)
      PROVE  HttpInv'
  BY <1>2, AcceptPollKeepsInv
<1>3. ASSUME NEW p \in Pollers, Poll(p)
      PROVE  HttpInv'
  BY <1>3, PollKeepsInv
<1>4. ASSUME NEW p \in Pollers, ClientIo(p)
      PROVE  HttpInv'
  BY <1>4, ReadHeadKeepsInv, ReadEofKeepsInv, WriteHeadKeepsInv, EndKeepsInv
     DEF ClientIo
<1>5. ASSUME NEW p \in Pollers, Handle(p)
      PROVE  HttpInv'
  BY <1>5, HandleFixedKeepsInv, HandleClientsKeepsInv, HandleStatsKeepsInv,
     ReadCounterKeepsInv, SnapshotDoneKeepsInv
     DEF Handle
<1>6. ASSUME NEW p \in Pollers, RequestTimeout(p)
      PROVE  HttpInv'
  BY <1>6, EndKeepsInv
<1>7. QED BY <1>1, <1>2, <1>3, <1>4, <1>5, <1>6 DEF HttpStep

\* A session moves a counter: every snapshot that is being taken may see the
\* old value or the new one, and no answer that was decided on changes.
LEMMA SessionKeepsInv ==
  ASSUME HttpInv, NEW s \in Sessions, SessionStep(s)
  PROVE  HttpInv'
<1>1. /\ UNCHANGED <<service, token, budget, sock, head, buf, resp, doc, copy>>
      /\ held' = [p \in Pollers |->
                    IF sock[p] = "snapshot"
                      THEN [f \in DOMAIN Now |-> held[p][f] \cup {Now'[f]}]
                      ELSE held[p]]
  BY DEF SessionStep
<1>2. HttpShape'
  BY <1>1 DEF HttpInv, HttpShape
<1>3. DOMAIN Now' = DOMAIN Now
  BY DEF Now
<1>4. ASSUME NEW p \in Pollers
      PROVE  Connection(p)'
  <2>1. Connection(p)
    BY DEF HttpInv
  <2>2. ConnTypes(p)' /\ Unanswered(p)' /\ Guarded(p)'
    BY <1>1, <2>1
       DEF Connection, ConnTypes, Unanswered, Guarded, TokenSent, WellFormedHead
  <2>3. CASE sock[p] = "snapshot"
    <3>1. held'[p] = [f \in DOMAIN Now |-> held[p][f] \cup {Now'[f]}]
      BY <1>1, <2>3
    <3>2. \A f \in DOMAIN Now' : Now'[f] \in held'[p][f]
      BY <1>3, <3>1
    <3>3. \A f \in DOMAIN doc[p] : f \in DOMAIN Now' /\ doc[p][f] \in held'[p][f]
      BY <1>3, <2>1, <2>3, <3>1 DEF Connection, Current
    <3>4. resp'[p] \notin {"200 OK", "304 Not Modified"}
      BY <1>1, <2>1, <2>3, StatsHttpAssumption DEF Connection, Unanswered, Statuses
    <3>5. Current(p)'
      BY <1>1, <3>2, <3>3, <3>4 DEF Current
    <3>6. QED BY <2>2, <3>5 DEF Connection
  <2>4. CASE sock[p] # "snapshot"
    <3>1. held'[p] = held[p]
      BY <1>1, <2>4
    <3>2. Current(p)'
      BY <1>1, <2>1, <2>4, <3>1 DEF Connection, Current
    <3>3. QED BY <2>2, <3>2 DEF Connection
  <2>5. QED BY <2>3, <2>4
<1>5. SocketBudgetHolds'
  BY <1>1 DEF HttpInv, SocketBudgetHolds
<1>6. QED BY <1>1, <1>2, <1>4, <1>5 DEF HttpInv

\* Before the service is spawned, and after the process has gone.
Cleared ==
  /\ service = "off" /\ token = None /\ budget = MaxSockets
  /\ sock = [p \in Pollers |-> "idle"]
  /\ head = [p \in Pollers |-> << >>] /\ buf = [p \in Pollers |-> 0]
  /\ resp = [p \in Pollers |-> None] /\ doc = [p \in Pollers |-> None]
  /\ copy = [p \in Pollers |-> None]
  /\ held = [p \in Pollers |-> NothingHeld]

\* it holds when nothing has been served,
LEMMA ClearedHasInv == Cleared => HttpInv
<1> SUFFICES ASSUME Cleared PROVE HttpInv
  OBVIOUS
<1>1. HttpShape
  BY StatsHttpAssumption DEF Cleared, HttpShape
<1>2. ASSUME NEW p \in Pollers
      PROVE  Connection(p)
  <2>1. /\ sock[p] = "idle" /\ head[p] = << >> /\ buf[p] = 0
        /\ resp[p] = None /\ doc[p] = None
    BY DEF Cleared
  <2>2. WellFormedHead(head[p])
    BY <2>1, EmptySeq DEF WellFormedHead
  <2>3. ConnTypes(p) /\ Unanswered(p)
    BY <2>1, <2>2, EmptySeq DEF ConnTypes, Unanswered, SocketStates
  <2>4. Guarded(p) /\ Current(p)
    BY <2>1, StatsHttpAssumption DEF Guarded, Current, Telling, Statuses
  <2>5. QED BY <2>3, <2>4 DEF Connection
<1>3. SocketBudgetHolds
  <2>1. Open = {}
    BY DEF Open, Cleared
  <2>2. Cardinality(Open) = 0
    BY <2>1, FS_EmptySet
  <2>3. budget + (IF service = "accept" THEN 1 ELSE 0) + Cardinality(Open) = MaxSockets
    BY <2>2, StatsHttpAssumption DEF Cleared
  <2>4. QED BY <2>3, BudgetOfOpen
<1>4. QED BY <1>1, <1>2, <1>3 DEF HttpInv, Cleared

\* A service that is spawned finds no connection and takes the token.
LEMMA SpawnKeepsInv ==
  ASSUME HttpInv, service = "off", NEW given, ServeStats(given)
  PROVE  HttpInv'
<1>1. /\ service' = "acquire"
      /\ UNCHANGED <<budget, sock, head, buf, resp, doc, copy, held, life>>
  BY DEF ServeStats
<1>2. HttpShape'
  BY <1>1 DEF HttpInv, HttpShape
<1>3. ASSUME NEW p \in Pollers
      PROVE  Connection(p)'
  <2>1. Connection(p) /\ sock[p] = "idle"
    BY DEF HttpInv
  <2>2. ConnTypes(p)' /\ Unanswered(p)'
    BY <1>1, <2>1 DEF Connection, ConnTypes, Unanswered, WellFormedHead
  <2>3. resp'[p] = None /\ sock'[p] = "idle"
    BY <1>1, <2>1 DEF Connection, Unanswered
  <2>4. Guarded(p)' /\ Current(p)'
    BY <2>3, StatsHttpAssumption DEF Guarded, Current, Telling, Statuses
  <2>5. QED BY <2>2, <2>4 DEF Connection
<1>4. SocketBudgetHolds'
  BY <1>1 DEF HttpInv, SocketBudgetHolds
<1>5. QED BY <1>1, <1>2, <1>3, <1>4 DEF HttpInv

\* and while nothing of it changes.
LEMMA UnchangedKeepsHttpInv == HttpInv /\ UNCHANGED httpVars => HttpInv'
<1> SUFFICES ASSUME HttpInv, UNCHANGED httpVars PROVE HttpInv'
  OBVIOUS
<1>1. \A p \in Pollers : Connection(p)'
  BY KeptConnection DEF HttpInv, Kept, httpVars
<1>2. QED BY <1>1 DEF HttpInv, httpVars, HttpShape, SocketBudgetHolds

-----------------------------------------------------------------------------
(* The process                                                             *)

\* The server begins so,
LEMMA InitServerInv == Init => ServerInv
<1> SUFFICES ASSUME Init PROVE ServerInv
  OBVIOUS
<1>1. Cleared
  BY DEF Init, HttpInit, Cleared
<1>2. QED
  BY <1>1, InitStartupInv, ClearedHasInv DEF Init, ServerInv, Cleared

\* main does not spawn the service, and takes it down when it ends.
LEMMA MainKeepsServerInv ==
  ASSUME ServerInv, StartupStep,
         IF boot' = "exited" THEN HttpGone ELSE UNCHANGED httpVars
  PROVE  ServerInv'
<1>1. StartupInv'
  BY MainKeepsInv DEF ServerInv
<1>2. CASE boot' = "exited"
  <2>1. Cleared'
    BY <1>2 DEF HttpGone, Cleared
  <2>2. HttpInv'
    BY <2>1, ClearedHasInv, PTL
  <2>3. QED BY <1>1, <2>1, <2>2 DEF ServerInv, Cleared
<1>3. CASE boot' # "exited"
  <2>1. HttpInv' /\ service' = service
    BY <1>3, UnchangedKeepsHttpInv DEF ServerInv, httpVars
  <2>2. boot \in {"signals", "run"} => boot' \in {"signals", "run"}
    BY <1>3 DEF StartupStep, UsageError, ParseArgs, LoadUsers, LoadUsersFails,
       LookupHost, LookupFails, BindAddress, NoListener, ServerBound,
       ResolveStatsFails, ShareStats, EnableDns, StartServer, ActorStarted,
       BindStatsFails, InstallSignals, Signalled, Exit
  <2>3. QED BY <1>1, <2>1, <2>2 DEF ServerInv
<1>4. QED BY <1>2, <1>3

\* Only main spawns the service.
LEMMA ServiceNeedsSpawning ==
  ASSUME HttpInv, HttpStep, service = "off"
  PROVE  service' = "off"
<1>1. ~AcquireSocket /\ ~AcceptPollErr
  BY DEF AcquireSocket, AcceptPollErr
<1>2. \A p \in Pollers : sock[p] = "idle"
  BY DEF HttpInv
<1>3. ASSUME NEW p \in Pollers
      PROVE  /\ ~Poll(p) /\ ~ClientIo(p) /\ ~Handle(p) /\ ~RequestTimeout(p)
             /\ \A h \in Heads : ~AcceptPoll(p, h)
  BY <1>2 DEF Poll, ClientIo, Handle, RequestTimeout, AcceptPoll, ReadHead, ReadEof,
     ReadFails, WriteHead, WriteBody, WriteFails, HandleFixed, HandleClients,
     HandleStats, ReadCounter, SnapshotDone
<1>4. QED BY <1>1, <1>3 DEF HttpStep

\* what main has established stays while it serves,
LEMMA UnchangedKeepsStartupInv == StartupInv /\ UNCHANGED startupVars => StartupInv'
BY DEF StartupInv, startupVars, Alive, UsersAsConfigured, CapsAsConfigured

\* and every step of main, of the service or beside it keeps the invariant.
LEMMA ServerInvHolds == Spec => []ServerInv
<1>1. ASSUME ServerInv, [Next]_vars
      PROVE  ServerInv'
  <2>1. CASE StartupStep /\ IF boot' = "exited" THEN HttpGone ELSE UNCHANGED httpVars
    BY <1>1, <2>1, MainKeepsServerInv
  <2>2. CASE SpawnStats
    <3>1. StartupInv' /\ boot = "bind_stats" /\ boot' = "signals"
      BY <1>1, <2>2, MainKeepsInv DEF SpawnStats, BindStats, ServerInv
    <3>2. HttpInv'
      BY <1>1, <2>2, <3>1, SpawnKeepsInv DEF SpawnStats, ServerInv
    <3>3. QED BY <3>1, <3>2 DEF ServerInv
  <2>3. CASE WithoutStats
    <3>1. StartupInv' /\ boot = "bind_stats" /\ boot' = "signals"
      BY <1>1, <2>3, MainKeepsInv DEF WithoutStats, BindStats, ServerInv
    <3>2. HttpInv'
      BY <1>1, <2>3, UnchangedKeepsHttpInv DEF WithoutStats, ServerInv
    <3>3. QED BY <3>1, <3>2 DEF ServerInv
  <2>4. CASE Alive /\ HttpStep /\ UNCHANGED startupVars
    <3>1. StartupInv' /\ HttpInv'
      BY <1>1, <2>4, UnchangedKeepsStartupInv, ServiceKeepsInv DEF ServerInv
    <3>2. service = "off" => service' = "off"
      BY <1>1, <2>4, ServiceNeedsSpawning DEF ServerInv
    <3>3. QED BY <1>1, <2>4, <3>1, <3>2 DEF ServerInv, startupVars
  <2>5. ASSUME NEW s \in Sessions, SessionStep(s), UNCHANGED startupVars
        PROVE  ServerInv'
    <3>1. StartupInv' /\ HttpInv'
      BY <1>1, <2>5, UnchangedKeepsStartupInv, SessionKeepsInv DEF ServerInv
    <3>2. QED BY <1>1, <2>5, <3>1 DEF ServerInv, startupVars, SessionStep
  <2>6. CASE UNCHANGED vars
    <3>1. StartupInv' /\ HttpInv'
      BY <1>1, <2>6, UnchangedKeepsStartupInv, UnchangedKeepsHttpInv DEF ServerInv, vars
    <3>2. QED BY <1>1, <2>6, <3>1 DEF ServerInv, vars, startupVars, httpVars
  <2>7. QED BY <1>1, <2>1, <2>2, <2>3, <2>4, <2>5, <2>6 DEF Next
<1>2. QED BY <1>1, InitServerInv, PTL DEF Spec

-----------------------------------------------------------------------------
(* The theorems                                                            *)

\* Whatever the command line, the name service and the port table do, accept
\* loops run only as the command line says: SocksServer::started comes after
\* every setting of main, and no failure leaves them behind.
THEOREM ServerServesAsConfigured == Spec => []ServesAsConfigured
<1>1. ServerInv => ServesAsConfigured
  BY DEF ServerInv, StartupInv, ServesAsConfigured, UsersAsConfigured, CapsAsConfigured,
         Alive, BeforeBound, BeforeShared, BeforeDns
<1>2. QED BY <1>1, ServerInvHolds, PTL

\* serve_stats accounts for every permit of its semaphore, for any number of
\* clients and sockets and however their connections end.
THEOREM SocketBudgetIsKept == Spec => []SocketBudgetHolds
<1>1. ServerInv => SocketBudgetHolds
  BY DEF ServerInv, HttpInv
<1>2. QED BY <1>1, ServerInvHolds, PTL

\* handle_conn answers nothing but a refusal to a head without the token,
\* whatever the head, wherever its reads cut it, and wherever it ends.
THEOREM TokenGuardsDocuments == Spec => []NoDocumentWithoutToken
<1>1. ServerInv => NoDocumentWithoutToken
  BY DEF ServerInv, HttpInv, Connection, Guarded, TokenSent, Telling,
         NoDocumentWithoutToken
<1>2. QED BY <1>1, ServerInvHolds, PTL

\* Every value of a document that serve_json sends, or lets the client keep,
\* was true during the request, for any number of sessions at work beside it.
THEOREM ServedDocumentsAreCurrent == Spec => []DocumentsAreCurrent
<1>1. ServerInv => DocumentsAreCurrent
  BY DEF ServerInv, HttpInv, Connection, Current, DocumentsAreCurrent
<1>2. QED BY <1>1, ServerInvHolds, PTL
=============================================================================
