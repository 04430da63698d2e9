---------------------------- MODULE UdpAssociate ----------------------------
(***************************************************************************)
(* One UDP association: the select loop of handle_udp_associate over the   *)
(* control connection and the one UDP socket that both the client and the  *)
(* destinations send to.  Any host may send it anything at any time; the   *)
(* socket queues what fits and the kernel drops the rest.  The loop does   *)
(* one thing at a time: while it resolves a name or sends a datagram,      *)
(* neither the socket nor the control connection is read.                  *)
(*                                                                         *)
(* A datagram is its sender, a serial number for its payload, and what     *)
(* parse_udp_header makes of its bytes: a destination, a fragment, or an   *)
(* error.                                                                  *)
(*                                                                         *)
(* Traffic has no end.  In behaviours that are followed, the first MaxSent *)
(* datagrams are numbered, and what becomes of them is recorded and        *)
(* counted; in the others datagrams keep coming, number 0 all of them, and *)
(* the record stays empty, so that the states remain finite.               *)
(***************************************************************************)
EXTENDS Naturals, Sequences, FiniteSets

CONSTANTS
  Addrs,      \* socket addresses of clients and destinations
  Ips,        \* their hosts
  IpOf,       \* the host of each address
  Declared,   \* what a request may declare: hosts, or AnyHost
  AnyHost,        \* a domain or an unspecified address
  QueueCap,   \* bound: datagrams the socket buffer holds
  MaxSent     \* bound: datagrams followed

ASSUME UdpAssumption ==
  /\ IpOf \in [Addrs -> Ips]
  /\ AnyHost \notin Ips /\ Declared \subseteq Ips \cup {AnyHost}
  /\ QueueCap \in Nat \ {0} /\ MaxSent \in Nat

VARIABLES
  followed,    \* datagrams are numbered, and at most MaxSent
  expected,    \* expected_client
  clientAddr,  \* client_addr, as a set of at most one address
  control,     \* the control connection: unread data, closed by the client
  sent,        \* numbered datagrams sent to the socket so far
  queue,       \* the socket's receive buffer
  pc,          \* select, resolve, forward, reply or done
  cur,         \* the datagram in hand, a sequence of at most one
  out,         \* what send_to has sent, in order
  failed,      \* how many send_to calls failed
  stats        \* udp_datagrams, and the replies note_udp_reply counted

vars == <<followed, expected, clientAddr, control, sent, queue, pc, cur, out, failed,
          stats>>
taskVars == <<followed, expected, clientAddr, pc, cur, out, failed, stats>>

BadHeaders == {"malformed", "fragment"}
Datagram == [src : Addrs, id : 0..MaxSent, hdr : Addrs \cup BadHeaders]

Init ==
  /\ followed \in BOOLEAN
  /\ expected \in Declared
  /\ clientAddr = {}
  /\ control = [data |-> FALSE, closed |-> FALSE]
  /\ sent = 0
  /\ queue = << >>
  /\ pc = "select"
  /\ cur = << >>
  /\ out = << >>
  /\ failed = 0
  /\ stats = [datagrams |-> 0, replies |-> 0]

-----------------------------------------------------------------------------
(* The network and the client's control connection                         *)

\* A host sends a datagram to the association's socket.
HostSends(a, h) ==
  /\ pc # "done" /\ (followed => sent < MaxSent)
  /\ sent' = IF followed THEN sent + 1 ELSE 0
  /\ queue' = IF Len(queue) < QueueCap
              THEN Append(queue, [src |-> a, id |-> sent', hdr |-> h])
              ELSE queue
  /\ UNCHANGED <<control, taskVars>>

\* The client writes to the control connection, half-closes it behind what
\* it wrote, or resets it, which discards what it wrote.
ControlChanges ==
  /\ pc # "done" /\ ~control.closed
  /\ \/ control' = [control EXCEPT !.data = TRUE]
     \/ control' = [control EXCEPT !.closed = TRUE]
     \/ control' = [data |-> FALSE, closed |-> TRUE]
  /\ UNCHANGED <<sent, queue, taskVars>>

-----------------------------------------------------------------------------
(* The select loop                                                         *)

\* Ok(_): data on the control channel is ignored
ReadControlData ==
  /\ pc = "select" /\ control.data
  /\ control' = [control EXCEPT !.data = FALSE]
  /\ UNCHANGED <<sent, queue, taskVars>>

\* MUTANT of ReadControlEof: a biased select!, which looks at the control
\* connection only when the socket has nothing.
ReadControlEofBiased ==
  /\ pc = "select" /\ control.closed /\ ~control.data
  /\ queue = << >>
  /\ pc' = "done"
  /\ UNCHANGED <<followed, expected, clientAddr, control, sent, queue, cur, out, failed,
                 stats>>

\* Ok(0) or Err(_): the association is torn down
ReadControlEof ==
  /\ pc = "select" /\ control.closed /\ ~control.data
  /\ pc' = "done"
  /\ UNCHANGED <<followed, expected, clientAddr, control, sent, queue, cur, out, failed,
                 stats>>

\* recv_from failed: torn down too
RecvError ==
  /\ pc = "select"
  /\ pc' = "done"
  /\ UNCHANGED <<followed, expected, clientAddr, control, sent, queue, cur, out, failed,
                 stats>>

\* The datagram recv_from returns
Received == Head(queue)

\* note_udp_datagram, note_udp_reply
Count(k) == stats' = IF followed THEN [stats EXCEPT ![k] = @ + 1] ELSE stats

\* The first datagram may come from src
Expects(src) == expected \in {AnyHost, IpOf[src]}

\* A first datagram that contradicts the declared address is dropped
RecvUnexpected ==
  /\ pc = "select" /\ queue # << >>
  /\ clientAddr = {} /\ ~Expects(Received.src)
  /\ queue' = Tail(queue)
  /\ UNCHANGED <<control, sent, taskVars>>

\* MUTANT of RecvFromClient: every socket of the client's host is the client.
RecvFromClientHost ==
  /\ pc = "select" /\ queue # << >>
  /\ \/ clientAddr = {} /\ Expects(Received.src)
     \/ \E a \in clientAddr : IpOf[a] = IpOf[Received.src]
  /\ clientAddr' = {Received.src}
  /\ queue' = Tail(queue)
  /\ IF Received.hdr \in BadHeaders
       THEN UNCHANGED <<pc, cur>>
       ELSE pc' = "resolve" /\ cur' = <<Received>>
  /\ UNCHANGED <<followed, expected, control, sent, out, failed, stats>>

\* The first datagram pins its sender, whatever its header says; after that,
\* a datagram of the pinned client.  One with a bad header or a fragment goes
\* no further.
RecvFromClient ==
  /\ pc = "select" /\ queue # << >>
  /\ \/ clientAddr = {} /\ Expects(Received.src)
     \/ clientAddr = {Received.src}
  /\ clientAddr' = {Received.src}
  /\ queue' = Tail(queue)
  /\ IF Received.hdr \in BadHeaders
       THEN UNCHANGED <<pc, cur>>
       ELSE pc' = "resolve" /\ cur' = <<Received>>
  /\ UNCHANGED <<followed, expected, control, sent, out, failed, stats>>

\* A datagram of anyone else is a reply: framed, counted, then sent
RecvReply ==
  /\ pc = "select" /\ queue # << >>
  /\ clientAddr # {} /\ Received.src \notin clientAddr
  /\ queue' = Tail(queue)
  /\ cur' = <<Received>>
  /\ Count("replies")
  /\ pc' = "reply"
  /\ UNCHANGED <<followed, expected, clientAddr, control, sent, out, failed>>

\* addr_to_socket answered with an address: count, then send
ResolveOk ==
  /\ pc = "resolve"
  /\ Count("datagrams")
  /\ pc' = "forward"
  /\ UNCHANGED <<followed, expected, clientAddr, control, sent, queue, cur, out, failed>>

\* It failed, or answered with no address: the datagram is dropped
ResolveFails ==
  /\ pc = "resolve"
  /\ cur' = << >> /\ pc' = "select"
  /\ UNCHANGED <<followed, expected, clientAddr, control, sent, queue, out, failed, stats>>

\* What leaves: to whom, from whom it says it is (client: nobody), and the
\* datagram it was made of.
Forwarded(d) == [to |-> {d.hdr}, label |-> {}, of |-> d]

\* encode_udp_header(src) and the data
Framed(d) == [to |-> clientAddr, label |-> {d.src}, of |-> d]

\* What send_to is called with
Outgoing == IF pc = "forward" THEN Forwarded(cur[1]) ELSE Framed(cur[1])

\* MUTANT of SendTo: what was sent is tried once more.
SendToRetries ==
  /\ pc \in {"forward", "reply"}
  /\ \/ out' = Append(out, Outgoing) /\ UNCHANGED <<failed, cur, pc>>
     \/ failed' = failed + 1 /\ UNCHANGED out /\ cur' = << >> /\ pc' = "select"
  /\ Len(out) <= MaxSent
  /\ UNCHANGED <<followed, expected, clientAddr, control, sent, queue, stats>>

\* socket.send_to, a failure only logged
SendTo ==
  /\ pc \in {"forward", "reply"}
  /\ \/ out' = (IF followed THEN Append(out, Outgoing) ELSE out) /\ UNCHANGED failed
     \/ failed' = (IF followed THEN failed + 1 ELSE failed) /\ UNCHANGED out
  /\ cur' = << >> /\ pc' = "select"
  /\ UNCHANGED <<followed, expected, clientAddr, control, sent, queue, stats>>

Done == pc = "done" /\ UNCHANGED vars

-----------------------------------------------------------------------------
Environment ==
  \/ \E a \in Addrs, h \in Addrs \cup BadHeaders : HostSends(a, h)
  \/ ControlChanges

TaskStep ==
  \/ ReadControlData \/ ReadControlEof \/ RecvError
  \/ RecvUnexpected \/ RecvFromClient \/ RecvReply
  \/ ResolveOk \/ ResolveFails \/ SendTo

Next == Environment \/ TaskStep \/ Done

Spec == Init /\ [][Next]_vars

\* select! starts at a random branch, so a control connection that stays
\* readable is read although datagrams keep coming; a lookup and a send end.
Fairness ==
  /\ SF_vars(ReadControlData) /\ SF_vars(ReadControlEof)
  /\ WF_vars(ResolveOk \/ ResolveFails) /\ WF_vars(SendTo)

FairSpec == Spec /\ Fairness

-----------------------------------------------------------------------------
(* Properties                                                              *)

Sent == [to : SUBSET Addrs, label : SUBSET Addrs, of : Datagram]

\* The state has the shape the code's types give it; a client, once pinned,
\* is one address.
TypeOK ==
  /\ followed \in BOOLEAN
  /\ expected \in Declared
  /\ clientAddr \subseteq Addrs /\ Cardinality(clientAddr) <= 1
  /\ control \in [data : BOOLEAN, closed : BOOLEAN]
  /\ sent \in 0..MaxSent
  /\ queue \in Seq(Datagram) /\ Len(queue) <= QueueCap
  /\ pc \in {"select", "resolve", "forward", "reply", "done"}
  /\ cur \in Seq(Datagram) /\ (pc \in {"resolve", "forward", "reply"}) = (Len(cur) = 1)
  /\ out \in Seq(Sent)
  /\ failed \in Nat
  /\ stats \in [datagrams : Nat, replies : Nat]

\* The association serves one client, of the declared host, for good: every
\* datagram that ever left was the client's own, to the destination it named,
\* or someone else's, to the client and labelled with its true sender.
ServesOneClient ==
  \A i \in DOMAIN out :
    LET m == out[i] IN
      /\ \A c \in clientAddr : expected \in {AnyHost, IpOf[c]}
      /\ IF {m.of.src} = clientAddr
           THEN m.label = {} /\ m.to = {m.of.hdr}
           ELSE clientAddr # {} /\ m.to = clientAddr /\ m.label = {m.of.src}

\* Whatever is relayed is relayed once and in the order of arrival: a slow
\* lookup holds later datagrams back and never lets them overtake.  The
\* traffic counters account for every datagram sent and for those whose send
\* failed, each counted before the attempt.
RelayedOnceInOrder ==
  /\ \A i, j \in DOMAIN out : i < j => out[i].of.id < out[j].of.id
  /\ followed => stats.datagrams + stats.replies =
       Len(out) + failed + (IF pc \in {"forward", "reply"} THEN 1 ELSE 0)

\* The association ends with its control connection, even if the socket always
\* has another datagram for it.
EndsWithControl == control.closed ~> (pc = "done")
=============================================================================
