----------------------------- MODULE Admission -----------------------------
(***************************************************************************)
(* Admission of client connections: the accept loops of both backends      *)
(* (lib.rs accept_loop, run as Tokio tasks by Merino::serve and as actix   *)
(* futures by SocksServer::started), the connection-cap semaphore they     *)
(* share, the per-IP limiter, and the live-connection registry of Stats    *)
(* that run_client fills and its ActiveGuard empties.                      *)
(*                                                                         *)
(* Every listener runs its own loop, every admitted connection its own     *)
(* task; the runtime has several threads.  One action is one critical      *)
(* section or one atomic operation: what the code does under one lock, or  *)
(* with one fetch_add, is one step, and another thread may run between any *)
(* two of them.                                                            *)
(***************************************************************************)
EXTENDS Integers, FiniteSets

CONSTANTS
  Listeners,       \* one accept loop each
  Conns,           \* the connection attempts clients make
  Ips,             \* source addresses
  IpOf,            \* the source address of each attempt
  MaxConnections,  \* the argument of set_max_connections
  PerIpLimit,      \* the argument of set_max_connections_per_ip
  Backend,         \* "tokio" (Merino) or "actix" (SocksServer)
  NoConn           \* a loop has no connection in hand

ASSUME AdmissionAssumption ==
  /\ IsFiniteSet(Listeners) /\ IsFiniteSet(Conns)
  /\ IpOf \in [Conns -> Ips]
  /\ MaxConnections \in Nat
  /\ PerIpLimit \in Nat
  /\ Backend \in {"tokio", "actix"}
  /\ NoConn \notin Conns

VARIABLES
  pc,        \* where each accept loop stands
  cur,       \* the connection an accept loop has in hand
  permits,   \* available permits of the connection-cap semaphore
  counts,    \* PerIpLimiter.counts, a map with the held addresses as keys
  stage,     \* the life of each connection attempt
  listener,  \* the listener whose backlog an attempt joined
  active,    \* Stats.active
  perIp,     \* Stats.active_per_ip
  clients,   \* the keys of Stats.clients
  rowId,     \* ActiveGuard.id of each connection
  nextId,    \* Stats.next_client_id
  accepted,  \* Stats.accepted_total
  refused    \* Stats.refused_per_ip_total

loopVars  == <<pc, cur>>
limitVars == <<permits, counts>>
statVars  == <<active, perIp, clients, rowId, nextId>>
totalVars == <<accepted, refused>>
vars == <<pc, cur, permits, counts, stage, listener, active, perIp, clients,
          rowId, nextId, accepted, refused>>

-----------------------------------------------------------------------------
(* Configuration.                                                          *)

\* set_max_connections clamps zero to one.
EffectiveMax == IF MaxConnections >= 1 THEN MaxConnections ELSE 1

\* set_max_connections_per_ip(0) leaves the limiter out.
Limited == PerIpLimit > 0

-----------------------------------------------------------------------------
(* Counter maps.  A HashMap is a function on the keys it holds.            *)

Held(map, ip) == IF ip \in DOMAIN map THEN map[ip] ELSE 0

Bump(map, ip) ==
  [x \in DOMAIN map \cup {ip} |-> IF x = ip THEN Held(map, ip) + 1 ELSE map[x]]

\* MUTANT of Unbump: the key is left behind when its count reaches zero.
UnbumpKeepingKey(map, ip) ==
  IF ip \in DOMAIN map THEN [map EXCEPT ![ip] = @ - 1] ELSE map

\* Decrement, forgetting the key at zero; a missing key is ignored.
Unbump(map, ip) ==
  IF ip \notin DOMAIN map THEN map
  ELSE IF map[ip] <= 1
       THEN [x \in DOMAIN map \ {ip} |-> map[x]]
       ELSE [map EXCEPT ![ip] = @ - 1]

-----------------------------------------------------------------------------
(* The life of a connection attempt.                                       *)
(*   idle      the client has not connected                                *)
(*   backlog   in the kernel backlog of its listener                       *)
(*   accepted  accept returned it to the loop                              *)
(*   refusing  over its per-IP limit, the loop is about to drop it         *)
(*   refused   dropped                                                     *)
(*   admitted  the loop holds its per-IP slot, note_accepted not yet done  *)
(*   spawned   task or actor created, run_client not started               *)
(*   numbered, row, counted, serving   begin_client's four updates         *)
(*   finished  init returned, error reply and shutdown done                *)
(*   uncounted, unlisted, unrowed   the three updates of the guard's drop  *)
(*   closed    the client stream is dropped                                *)
(*   half      one of permit and slot is dropped                           *)
(*   done      both are                                                    *)

BeginStages  == {"spawned", "numbered"}
RowStages    == {"row", "counted", "serving", "finished", "uncounted", "unlisted"}
NumberedStages == {"numbered"} \cup RowStages
ActiveStages == {"counted", "serving", "finished"}
PerIpStages  == {"serving", "finished", "uncounted"}
EndStages    == {"unrowed", "closed"}

\* The last two drops: a Tokio task drops its locals in reverse order of
\* declaration, slot then permit; the actor drops its fields in order of
\* declaration, permit then slot.
HalfHoldsPermit == Backend = "tokio"

\* Stages in which the connection itself owns a semaphore permit.
PermitStages ==
  BeginStages \cup RowStages \cup EndStages
    \cup (IF HalfHoldsPermit THEN {"half"} ELSE {})

\* Stages in which a per-IP slot is reserved for the connection.
SlotStages ==
  IF Limited
  THEN {"admitted"} \cup BeginStages \cup RowStages \cup EndStages
         \cup (IF HalfHoldsPermit THEN {} ELSE {"half"})
  ELSE {}

Stages ==
  {"idle", "backlog", "accepted", "refusing", "refused", "admitted", "half",
   "done"} \cup BeginStages \cup RowStages \cup EndStages

LoopStates == {"acquire", "accept", "decide", "refuse", "handover"}

\* A loop owns a permit from acquire_owned until it drops or hands it over.
LoopsWithPermit == {l \in Listeners : pc[l] # "acquire"}
ConnsIn(S) == {d \in Conns : stage[d] \in S}
ConnsOfIn(ip, S) == {d \in Conns : IpOf[d] = ip /\ stage[d] \in S}

-----------------------------------------------------------------------------
Init ==
  /\ pc = [l \in Listeners |-> "acquire"]
  /\ cur = [l \in Listeners |-> NoConn]
  /\ permits = EffectiveMax
  /\ counts = [x \in {} |-> 0]
  /\ stage = [c \in Conns |-> "idle"]
  /\ listener \in [Conns -> Listeners]
  /\ active = 0
  /\ perIp = [x \in {} |-> 0]
  /\ clients = {}
  /\ rowId = [c \in Conns |-> 0]
  /\ nextId = 0
  /\ accepted = 0
  /\ refused = 0

\* A client completes the TCP handshake; the kernel queues it.
Arrive(c) ==
  /\ stage[c] = "idle"
  /\ stage' = [stage EXCEPT ![c] = "backlog"]
  /\ UNCHANGED <<loopVars, limitVars, listener, statVars, totalVars>>

-----------------------------------------------------------------------------
(* accept_loop                                                             *)

\* semaphore.acquire_owned().await
Acquire(l) ==
  /\ pc[l] = "acquire"
  /\ permits > 0
  /\ permits' = permits - 1
  /\ pc' = [pc EXCEPT ![l] = "accept"]
  /\ UNCHANGED <<cur, counts, stage, listener, statVars, totalVars>>

\* listener.accept() returned a connection
AcceptOk(l, c) ==
  /\ pc[l] = "accept"
  /\ stage[c] = "backlog" /\ listener[c] = l
  /\ stage' = [stage EXCEPT ![c] = "accepted"]
  /\ cur' = [cur EXCEPT ![l] = c]
  /\ pc' = [pc EXCEPT ![l] = "decide"]
  /\ UNCHANGED <<limitVars, listener, statVars, totalVars>>

\* MUTANT of AcceptErr: the slot of a failed accept is not given back.
AcceptErrLeaky(l) ==
  /\ pc[l] = "accept"
  /\ pc' = [pc EXCEPT ![l] = "acquire"]
  /\ UNCHANGED <<cur, limitVars, stage, listener, statVars, totalVars>>

\* listener.accept() failed: the permit is dropped, the loop goes on
AcceptErr(l) ==
  /\ pc[l] = "accept"
  /\ permits' = permits + 1
  /\ pc' = [pc EXCEPT ![l] = "acquire"]
  /\ UNCHANGED <<cur, counts, stage, listener, statVars, totalVars>>

\* MUTANT of HasSlot: the limit is off by one.
HasSlotOffByOne(ip) == Held(counts, ip) <= PerIpLimit

\* PerIpLimiter::try_acquire has a slot for ip
HasSlot(ip) == Held(counts, ip) < PerIpLimit

\* try_acquire reserved a slot, or there is no limiter
TryAcquireOk(l) ==
  /\ pc[l] = "decide"
  /\ LET ip == IpOf[cur[l]] IN
       /\ Limited => HasSlot(ip)
       /\ counts' = IF Limited THEN Bump(counts, ip) ELSE counts
  /\ stage' = [stage EXCEPT ![cur[l]] = "admitted"]
  /\ pc' = [pc EXCEPT ![l] = "handover"]
  /\ UNCHANGED <<cur, permits, listener, statVars, totalVars>>

\* try_acquire returned None: note_refused_per_ip
TryAcquireNone(l) ==
  /\ pc[l] = "decide"
  /\ Limited /\ ~HasSlot(IpOf[cur[l]])
  /\ stage' = [stage EXCEPT ![cur[l]] = "refusing"]
  /\ refused' = refused + 1
  /\ pc' = [pc EXCEPT ![l] = "refuse"]
  /\ UNCHANGED <<cur, limitVars, listener, statVars, accepted>>

\* drop(permit); drop(stream); continue
DropRefused(l) ==
  /\ pc[l] = "refuse"
  /\ permits' = permits + 1
  /\ stage' = [stage EXCEPT ![cur[l]] = "refused"]
  /\ cur' = [cur EXCEPT ![l] = NoConn]
  /\ pc' = [pc EXCEPT ![l] = "acquire"]
  /\ UNCHANGED <<counts, listener, statVars, totalVars>>

\* MUTANT of HandOver: the permit dies with the loop iteration instead of
\* moving into the spawned task.
HandOverWithoutPermit(l) ==
  /\ pc[l] = "handover"
  /\ permits' = permits + 1
  /\ accepted' = accepted + 1
  /\ stage' = [stage EXCEPT ![cur[l]] = "spawned"]
  /\ cur' = [cur EXCEPT ![l] = NoConn]
  /\ pc' = [pc EXCEPT ![l] = "acquire"]
  /\ UNCHANGED <<counts, listener, statVars, refused>>

\* note_accepted, then on_accept moves client, permit and slot into a task
HandOver(l) ==
  /\ pc[l] = "handover"
  /\ accepted' = accepted + 1
  /\ stage' = [stage EXCEPT ![cur[l]] = "spawned"]
  /\ cur' = [cur EXCEPT ![l] = NoConn]
  /\ pc' = [pc EXCEPT ![l] = "acquire"]
  /\ UNCHANGED <<limitVars, listener, statVars, refused>>

-----------------------------------------------------------------------------
(* run_client: begin_client, the session, the guard's drop                 *)

\* MUTANT of TakeId: the id is read and not advanced.
TakeIdSame(c) ==
  /\ stage[c] = "spawned"
  /\ rowId' = [rowId EXCEPT ![c] = nextId]
  /\ stage' = [stage EXCEPT ![c] = "numbered"]
  /\ UNCHANGED <<loopVars, limitVars, listener, active, perIp, clients, nextId,
                 totalVars>>

\* next_client_id.fetch_add
TakeId(c) ==
  /\ stage[c] = "spawned"
  /\ rowId' = [rowId EXCEPT ![c] = nextId]
  /\ nextId' = nextId + 1
  /\ stage' = [stage EXCEPT ![c] = "numbered"]
  /\ UNCHANGED <<loopVars, limitVars, listener, active, perIp, clients, totalVars>>

\* MUTANT of InsertRow: the row is not inserted.
InsertRowForgotten(c) ==
  /\ stage[c] = "numbered"
  /\ stage' = [stage EXCEPT ![c] = "row"]
  /\ UNCHANGED <<loopVars, limitVars, listener, statVars, totalVars>>

\* clients.insert(id, ..)
InsertRow(c) ==
  /\ stage[c] = "numbered"
  /\ clients' = clients \cup {rowId[c]}
  /\ stage' = [stage EXCEPT ![c] = "row"]
  /\ UNCHANGED <<loopVars, limitVars, listener, active, perIp, rowId, nextId,
                 totalVars>>

\* active.fetch_add
CountActive(c) ==
  /\ stage[c] = "row"
  /\ active' = active + 1
  /\ stage' = [stage EXCEPT ![c] = "counted"]
  /\ UNCHANGED <<loopVars, limitVars, listener, perIp, clients, rowId, nextId,
                 totalVars>>

\* active_per_ip.entry(ip) += 1
CountPerIp(c) ==
  /\ stage[c] = "counted"
  /\ perIp' = Bump(perIp, IpOf[c])
  /\ stage' = [stage EXCEPT ![c] = "serving"]
  /\ UNCHANGED <<loopVars, limitVars, listener, active, clients, rowId, nextId,
                 totalVars>>

\* client.init() returned; a failed session was answered and shut down
Finish(c) ==
  /\ stage[c] = "serving"
  /\ stage' = [stage EXCEPT ![c] = "finished"]
  /\ UNCHANGED <<loopVars, limitVars, listener, statVars, totalVars>>

\* MUTANT of UncountActive: the gauge is lowered by hand and by the guard.
UncountActiveTwice(c) ==
  /\ stage[c] = "finished"
  /\ active' = active - 2
  /\ stage' = [stage EXCEPT ![c] = "uncounted"]
  /\ UNCHANGED <<loopVars, limitVars, listener, perIp, clients, rowId, nextId,
                 totalVars>>

\* ActiveGuard::drop: active.fetch_sub
UncountActive(c) ==
  /\ stage[c] = "finished"
  /\ active' = active - 1
  /\ stage' = [stage EXCEPT ![c] = "uncounted"]
  /\ UNCHANGED <<loopVars, limitVars, listener, perIp, clients, rowId, nextId,
                 totalVars>>

\* ActiveGuard::drop: active_per_ip
UncountPerIp(c) ==
  /\ stage[c] = "uncounted"
  /\ perIp' = Unbump(perIp, IpOf[c])
  /\ stage' = [stage EXCEPT ![c] = "unlisted"]
  /\ UNCHANGED <<loopVars, limitVars, listener, active, clients, rowId, nextId,
                 totalVars>>

\* ActiveGuard::drop: clients.remove(&id)
RemoveRow(c) ==
  /\ stage[c] = "unlisted"
  /\ clients' = clients \ {rowId[c]}
  /\ stage' = [stage EXCEPT ![c] = "unrowed"]
  /\ UNCHANGED <<loopVars, limitVars, listener, active, perIp, rowId, nextId,
                 totalVars>>

\* run_client's client parameter is dropped after its guard
CloseStream(c) ==
  /\ stage[c] = "unrowed"
  /\ stage' = [stage EXCEPT ![c] = "closed"]
  /\ UNCHANGED <<loopVars, limitVars, listener, statVars, totalVars>>

\* The task's (actor's) OwnedSemaphorePermit is dropped
DropPermit(c) ==
  /\ stage[c] = (IF HalfHoldsPermit THEN "half" ELSE "closed")
  /\ permits' = permits + 1
  /\ stage' = [stage EXCEPT ![c] = IF HalfHoldsPermit THEN "done" ELSE "half"]
  /\ UNCHANGED <<loopVars, counts, listener, statVars, totalVars>>

\* MUTANT of DropIpSlot: the slot is never given back.
DropIpSlotForgotten(c) ==
  /\ stage[c] = (IF HalfHoldsPermit THEN "closed" ELSE "half")
  /\ stage' = [stage EXCEPT ![c] = IF HalfHoldsPermit THEN "half" ELSE "done"]
  /\ UNCHANGED <<loopVars, limitVars, listener, statVars, totalVars>>

\* IpSlot::drop, when there is a slot
DropIpSlot(c) ==
  /\ stage[c] = (IF HalfHoldsPermit THEN "closed" ELSE "half")
  /\ counts' = IF Limited THEN Unbump(counts, IpOf[c]) ELSE counts
  /\ stage' = [stage EXCEPT ![c] = IF HalfHoldsPermit THEN "half" ELSE "done"]
  /\ UNCHANGED <<loopVars, permits, listener, statVars, totalVars>>

-----------------------------------------------------------------------------
LoopStep(l) ==
  \/ Acquire(l)
  \/ \E c \in Conns : AcceptOk(l, c)
  \/ AcceptErr(l)
  \/ TryAcquireOk(l)
  \/ TryAcquireNone(l)
  \/ DropRefused(l)
  \/ HandOver(l)

ConnStep(c) ==
  \/ TakeId(c) \/ InsertRow(c) \/ CountActive(c)   \/ CountPerIp(c)   \/ Finish(c)
  \/ UncountActive(c) \/ UncountPerIp(c) \/ RemoveRow(c)   \/ CloseStream(c)
  \/ DropPermit(c)  \/ DropIpSlot(c)

Next ==
  \/ \E c \in Conns : Arrive(c)
  \/ \E l \in Listeners : LoopStep(l)
  \/ \E c \in Conns : ConnStep(c)

Spec == Init /\ [][Next]_vars

\* The semaphore queues its waiters first in, first out, so a loop that waits
\* gets a permit if permits keep coming back (strong fairness of Acquire).  An
\* accept on a non-empty backlog returns a connection unless it fails every
\* time, and every other step of a task is run by the scheduler.  That Finish
\* is fair is an assumption on clients and targets: nothing in the code ends a
\* relay that both of its ends keep open.
Fairness ==
  /\ \A l \in Listeners :
       /\ SF_vars(Acquire(l))
       /\ SF_vars(\E c \in Conns : AcceptOk(l, c))
       /\ WF_vars(TryAcquireOk(l) \/ TryAcquireNone(l)
                    \/ DropRefused(l) \/ HandOver(l))
  /\ \A c \in Conns : WF_vars(ConnStep(c))

FairSpec == Spec /\ Fairness

-----------------------------------------------------------------------------
(* Properties                                                              *)

\* Stages in which the connection's stream is open and in the server's hands.
OpenStages == {"admitted"} \cup BeginStages \cup RowStages \cup {"unrowed"}

\* The state has the shape the code's types give it; the gauges and permit
\* count never go below zero (they are unsigned, and would wrap).
TypeOK ==
  /\ pc \in [Listeners -> LoopStates]
  /\ cur \in [Listeners -> Conns \cup {NoConn}]
  /\ permits \in Nat
  /\ DOMAIN counts \subseteq Ips /\ \A ip \in DOMAIN counts : counts[ip] \in Nat
  /\ stage \in [Conns -> Stages]
  /\ listener \in [Conns -> Listeners]
  /\ active \in Nat
  /\ DOMAIN perIp \subseteq Ips /\ \A ip \in DOMAIN perIp : perIp[ip] \in Nat
  /\ clients \subseteq Nat
  /\ rowId \in [Conns -> Nat]
  /\ nextId \in Nat
  /\ accepted \in Nat
  /\ refused \in Nat

\* Every permit of the semaphore is available, held by a loop or owned by a
\* connection, on every path through accept_loop and both drop orders.
PermitsConserved ==
  permits + Cardinality(LoopsWithPermit) + Cardinality(ConnsIn(PermitStages))
    = EffectiveMax

\* The connection cap: never more than max_connections connections run at
\* once, and the live registry the stats service renders is bounded by it.
CapRespected ==
  /\ Cardinality(ConnsIn(OpenStages)) <= EffectiveMax
  /\ Cardinality(clients) <= EffectiveMax

\* The per-IP cap: no source has more than its limit of connections open.
PerIpCapRespected ==
  Limited => \A ip \in Ips :
               Cardinality(ConnsOfIn(ip, OpenStages)) <= PerIpLimit

\* The limiter's map counts exactly the slots that are held, and has no key
\* for a source that holds none: it cannot grow with the sources ever seen.
LimiterExact ==
  \A ip \in Ips :
    /\ Held(counts, ip) = Cardinality(ConnsOfIn(ip, SlotStages))
    /\ ip \in DOMAIN counts => counts[ip] > 0

\* What a reader of the statistics can see between any two updates: the
\* active gauge never exceeds the rows of the registry, no source is listed
\* with more connections than the registry holds for it, every source listed
\* has one, and every attempt taken off the backlog is in exactly one of the
\* totals unless a loop still has it in hand.
StatisticsAgree ==
  /\ active <= Cardinality(clients)
  /\ \A ip \in DOMAIN perIp :
       /\ perIp[ip] > 0
       /\ perIp[ip] <= Cardinality(ConnsOfIn(ip, RowStages))
  /\ accepted + refused =
       Cardinality({c \in Conns :
         stage[c] \notin {"idle", "backlog", "accepted", "admitted"}})

\* Registry keys are never shared: a live connection's row is there until its
\* own guard removes it, whatever the other connections do.
RowsBelongToConnections ==
  /\ clients = {rowId[c] : c \in ConnsIn(RowStages)}
  /\ \A c, d \in ConnsIn(RowStages) : rowId[c] = rowId[d] => c = d

\* A connection in a backlog is eventually taken off it: the accept loops
\* never deadlock.
AcceptNeverDeadlocks ==
  \A c \in Conns : (stage[c] = "backlog") ~> (stage[c] # "backlog")

\* Nothing is lost for good: after a burst of connections, refused or served,
\* every permit is back in the semaphore or with a waiting loop, every slot with
\* the limiter, the gauges are at zero and the registry is empty.
EverythingReturned ==
  <>[](/\ permits + Cardinality(LoopsWithPermit) = EffectiveMax
       /\ DOMAIN counts = {}
       /\ active = 0 /\ DOMAIN perIp = {} /\ clients = {})

\* Admission implements the connection budget.  A connection is open from
\* the moment its slot is reserved until its stream is closed.
Budget == INSTANCE ConnectionBudget WITH
  MaxOpen   <- EffectiveMax,
  PerSource <- PerIpLimit,
  open      <- ConnsIn(OpenStages),
  draining  <- ConnsIn({"closed"} \cup ({"half"} \cap SlotStages)),
  refused   <- ConnsIn({"refusing", "refused"})

\* accept_loop, the limiter and the two drop orders implement the budget:
\* nothing is refused that has a share left, nothing admitted that has none.
ImplementsBudget == Budget!Spec

-----------------------------------------------------------------------------
(* The inductive invariant behind the properties                           *)

\* Loop l has a connection in hand that is at stage s.
Holds(l, s) == cur[l] \in Conns /\ stage[cur[l]] = s /\ listener[cur[l]] = l

\* A loop between accept and its next acquire has one connection in hand, at
\* the stage its own place implies; a connection at such a stage is in the
\* hand of its listener's loop.  No two loops hold the same connection.
InHand ==
  /\ \A l \in Listeners :
       /\ pc[l] = "decide"   => Holds(l, "accepted")
       /\ pc[l] = "refuse"   => Holds(l, "refusing")
       /\ pc[l] = "handover" => Holds(l, "admitted")
  /\ \A c \in Conns : stage[c] \in {"accepted", "refusing", "admitted"} =>
       /\ cur[listener[c]] = c
       /\ pc[listener[c]] \in {"decide", "refuse", "handover"}

\* The gauge counts the connections between its two updates.
ActiveExact == active = Cardinality(ConnsIn(ActiveStages))

\* Ids handed out are below the next one, and no two are the same.
IdsBelowNext == \A c \in ConnsIn(NumberedStages) : rowId[c] < nextId
IdsDistinct ==
  \A c, d \in ConnsIn(NumberedStages) : rowId[c] = rowId[d] => c = d

\* No source holds more slots than the limiter grants.
SlotsWithinLimit ==
  Limited => \A ip \in Ips :
               Cardinality(ConnsOfIn(ip, SlotStages)) <= PerIpLimit

\* Permits, gauge and hands: what the cap rests on.
PermitInv == TypeOK /\ InHand /\ ActiveExact /\ PermitsConserved

\* The whole of it: the registry and the limiter too.
AdmissionInv ==
  /\ PermitInv
  /\ RowsBelongToConnections /\ IdsBelowNext /\ IdsDistinct
  /\ LimiterExact /\ SlotsWithinLimit
=============================================================================
