------------------------- MODULE UdpAssociateProofs -------------------------
(***************************************************************************)
(* Proofs about the UDP association, for any hosts and sockets, any        *)
(* declared address, any socket buffer and any number of datagrams.        *)
(***************************************************************************)
EXTENDS UdpAssociate, FiniteSetTheorems, SequenceTheorems, TLAPS

-----------------------------------------------------------------------------
(* The invariant.                                                          *)

\* The loop has a datagram in hand.
Working == pc \in {"resolve", "forward", "reply"}

\* The types, with the two facts that TypeOK states by counting spelled out:
\* there is at most one client, and a datagram is in hand exactly while the
\* loop works on it.
UdpTypes ==
  /\ TypeOK
  /\ clientAddr = {} \/ \E a \in Addrs : clientAddr = {a}
  /\ IF Working THEN \E d \in Datagram : cur = <<d>> ELSE cur = << >>

\* Serial numbers ascend from what was sent, over the datagram in hand, to the
\* end of the socket's queue.
Numbered ==
  /\ \A i, j \in DOMAIN out : i < j => out[i].of.id < out[j].of.id
  /\ \A i, j \in DOMAIN queue : i < j => queue[i].id < queue[j].id
  /\ \A i \in DOMAIN out, j \in DOMAIN queue : out[i].of.id < queue[j].id
  /\ \A i \in DOMAIN out : out[i].of.id <= sent
  /\ \A j \in DOMAIN queue : queue[j].id <= sent
  /\ Working => /\ \A i \in DOMAIN out : out[i].of.id < cur[1].id
                /\ \A j \in DOMAIN queue : cur[1].id < queue[j].id
                /\ cur[1].id <= sent

\* They do in behaviours that are followed; in the others there is no record.
Ascending == IF followed THEN Numbered ELSE out = << >>

\* What may leave, given the client.
ProperlySent(m) ==
  IF {m.of.src} = clientAddr
    THEN m.label = {} /\ m.to = {m.of.hdr}
    ELSE clientAddr # {} /\ m.to = clientAddr /\ m.label = {m.of.src}

\* Nothing leaves and nothing is worked on before a client is pinned; what is
\* resolved and forwarded is the client's, what is framed is not.
ClientFirst ==
  /\ clientAddr = {} => out = << >> /\ ~Working
  /\ \A c \in clientAddr : expected \in {AnyHost, IpOf[c]}
  /\ pc \in {"resolve", "forward"} => clientAddr = {cur[1].src} /\ cur[1].hdr \in Addrs
  /\ pc = "reply" => cur[1].src \notin clientAddr
  /\ \A i \in DOMAIN out : ProperlySent(out[i])

\* Every datagram counted was sent, failed, or is being sent.
CountedUdp ==
  followed => stats.datagrams + stats.replies =
    Len(out) + failed + (IF pc \in {"forward", "reply"} THEN 1 ELSE 0)

\* The inductive invariant
UdpInv == UdpTypes /\ Ascending /\ ClientFirst /\ CountedUdp

\* Counting a reply, or a datagram, leaves the other count alone.
LEMMA ReplyCounted ==
  ASSUME NEW s \in [datagrams : Nat, replies : Nat], NEW t,
         t = [s EXCEPT !["replies"] = @ + 1]
  PROVE  /\ t \in [datagrams : Nat, replies : Nat]
         /\ t.datagrams = s.datagrams /\ t.replies = s.replies + 1
         /\ s.datagrams \in Nat /\ s.replies \in Nat
OBVIOUS

\* The same for a datagram of the client
LEMMA DatagramCounted ==
  ASSUME NEW s \in [datagrams : Nat, replies : Nat], NEW t,
         t = [s EXCEPT !["datagrams"] = @ + 1]
  PROVE  /\ t \in [datagrams : Nat, replies : Nat]
         /\ t.datagrams = s.datagrams + 1 /\ t.replies = s.replies
         /\ s.datagrams \in Nat /\ s.replies \in Nat
OBVIOUS

-----------------------------------------------------------------------------
(* The queue.                                                              *)

\* Taking the first datagram leaves the others in their order.
LEMMA TakenFirst ==
  ASSUME NEW S, NEW q \in Seq(S), q # << >>
  PROVE  /\ Head(q) = q[1] /\ Head(q) \in S /\ 1 \in DOMAIN q
         /\ Tail(q) \in Seq(S) /\ Len(Tail(q)) = Len(q) - 1
         /\ \A i \in DOMAIN Tail(q) : i \in Nat /\ i + 1 \in DOMAIN q /\ Tail(q)[i] = q[i + 1]
<1>1. /\ Head(q) \in S /\ Tail(q) \in Seq(S) /\ Len(Tail(q)) = Len(q) - 1
      /\ \A i \in 1 .. Len(Tail(q)) : Tail(q)[i] = q[i + 1]
  BY HeadTailProperties
<1>2. Len(q) \in Nat \ {0} /\ DOMAIN q = 1 .. Len(q) /\ DOMAIN Tail(q) = 1 .. Len(Tail(q))
  BY <1>1, EmptySeq, LenProperties
<1>3. Head(q) = q[1]
  OBVIOUS
<1>4. QED BY <1>1, <1>2, <1>3

\* Adding a datagram keeps those before it.
LEMMA AddedLast ==
  ASSUME NEW S, NEW q \in Seq(S), NEW d \in S
  PROVE  /\ Append(q, d) \in Seq(S) /\ Len(Append(q, d)) = Len(q) + 1
         /\ Len(q) \in Nat /\ DOMAIN q = 1 .. Len(q)
         /\ DOMAIN Append(q, d) = 1 .. Len(q) + 1
         /\ \A i \in DOMAIN q : Append(q, d)[i] = q[i]
         /\ Append(q, d)[Len(q) + 1] = d
<1>1. Append(q, d) \in Seq(S) /\ Len(Append(q, d)) = Len(q) + 1
  BY AppendProperties
<1>2. /\ Len(q) \in Nat /\ DOMAIN q = 1 .. Len(q)
      /\ DOMAIN Append(q, d) = 1 .. Len(q) + 1
  BY <1>1, LenProperties
<1>3. QED BY <1>1, <1>2, AppendProperties

\* An association that has just begun satisfies the invariant.
LEMMA InitUdpInv == Init => UdpInv
<1> SUFFICES ASSUME Init PROVE UdpInv
  OBVIOUS
<1>1. TypeOK
  BY UdpAssumption, EmptySeq, FS_EmptySet DEF Init, TypeOK
<1>2. UdpTypes
  BY <1>1 DEF Init, UdpTypes, Working
<1>3. DOMAIN out = {} /\ DOMAIN queue = {}
  BY DEF Init
<1>4. Ascending /\ ClientFirst
  BY <1>3 DEF Init, Ascending, Numbered, ClientFirst, Working
<1>5. CountedUdp
  BY EmptySeq DEF Init, CountedUdp
<1>6. QED BY <1>2, <1>4, <1>5 DEF UdpInv

-----------------------------------------------------------------------------
(* The invariant is inductive.                                             *)

\* The serial numbers are numbers.
LEMMA IdTypes ==
  ASSUME UdpTypes
  PROVE  /\ sent \in Nat
         /\ \A i \in DOMAIN out : out[i].of.id \in Nat /\ i \in Nat
         /\ \A j \in DOMAIN queue : queue[j].id \in Nat /\ j \in Nat
         /\ Working => cur[1] \in Datagram /\ cur[1].id \in Nat
<1>1. \A e \in Datagram : e.id \in Nat
  BY UdpAssumption DEF Datagram
<1>2. \A m \in Sent : m.of.id \in Nat
  BY <1>1 DEF Sent
<1>3. \A i \in DOMAIN out : out[i] \in Sent /\ i \in Nat
  BY LenProperties, ElementOfSeq DEF UdpTypes, TypeOK
<1>4. \A j \in DOMAIN queue : queue[j] \in Datagram /\ j \in Nat
  BY LenProperties, ElementOfSeq DEF UdpTypes, TypeOK
<1>5. Working => cur[1] \in Datagram
  BY DEF UdpTypes
<1>6. sent \in Nat
  BY UdpAssumption DEF UdpTypes, TypeOK
<1>7. QED BY <1>1, <1>2, <1>3, <1>4, <1>5, <1>6

\* A datagram that arrives is the latest, whether or not the socket has room.
LEMMA HostKeepsInv ==
  ASSUME UdpInv, NEW a \in Addrs, NEW h \in Addrs \cup BadHeaders, HostSends(a, h)
  PROVE  UdpInv'
<1> USE DEF UdpInv
<1> DEFINE n == IF followed THEN sent + 1 ELSE 0
           d == [src |-> a, id |-> n, hdr |-> h]
<1>1. /\ followed => sent < MaxSent
      /\ sent' = n
      /\ queue' = IF Len(queue) < QueueCap THEN Append(queue, d) ELSE queue
      /\ UNCHANGED <<control, followed, expected, clientAddr, pc, cur, out, failed, stats>>
  BY DEF HostSends, taskVars
<1>2. /\ TypeOK /\ queue \in Seq(Datagram) /\ sent \in Nat /\ out \in Seq(Sent)
      /\ cur \in Seq(Datagram)
  BY UdpAssumption DEF UdpTypes, TypeOK
<1>3. d \in Datagram /\ d.id = n /\ sent' \in 0..MaxSent
  BY <1>1, <1>2, UdpAssumption DEF Datagram
<1>f. followed => n = sent + 1
  OBVIOUS
<1> HIDE DEF d, n
<1>4. /\ Append(queue, d) \in Seq(Datagram) /\ Len(Append(queue, d)) = Len(queue) + 1
      /\ Len(queue) \in Nat /\ DOMAIN queue = 1 .. Len(queue)
      /\ DOMAIN Append(queue, d) = 1 .. Len(queue) + 1
      /\ \A i \in DOMAIN queue : Append(queue, d)[i] = queue[i]
      /\ Append(queue, d)[Len(queue) + 1] = d
  BY <1>2, <1>3, AddedLast
<1>5. UdpTypes'
  <2>1. queue' \in Seq(Datagram) /\ Len(queue') <= QueueCap
    BY <1>1, <1>2, <1>4, UdpAssumption DEF TypeOK
  <2>2. QED BY <1>1, <1>2, <1>3, <2>1 DEF UdpTypes, TypeOK, Working
<1>6. /\ \A i \in DOMAIN out : out[i].of.id \in Nat
      /\ \A j \in DOMAIN queue : queue[j].id \in Nat
      /\ Working => cur[1].id \in Nat
  BY IdTypes
<1>7. ASSUME followed PROVE Numbered'
  <2>0. sent' = sent + 1 /\ Numbered
    BY <1>1, <1>7, <1>f DEF Ascending
  <2>1. CASE queue' = queue
    BY <1>1, <1>2, <1>6, <2>0, <2>1 DEF Numbered, Working
  <2>2. CASE queue' = Append(queue, d)
    <3>1. \A j \in DOMAIN queue' :
            \/ j \in DOMAIN queue /\ queue'[j] = queue[j]
            \/ j = Len(queue) + 1 /\ queue'[j].id = sent + 1
      BY <1>3, <1>7, <1>f, <1>4, <2>2
    <3>2. \A i, j \in DOMAIN queue' : i < j => queue'[i].id < queue'[j].id
      BY <1>2, <1>4, <1>6, <2>0, <3>1 DEF Numbered
    <3>3. /\ \A j \in DOMAIN queue' : queue'[j].id <= sent'
          /\ \A i \in DOMAIN out, j \in DOMAIN queue' : out[i].of.id < queue'[j].id
          /\ \A i \in DOMAIN out : out[i].of.id <= sent'
      BY <1>1, <1>2, <1>6, <2>0, <3>1 DEF Numbered
    <3>4. Working => /\ \A j \in DOMAIN queue' : cur[1].id < queue'[j].id
                     /\ cur[1].id <= sent'
      BY <1>1, <1>2, <1>6, <2>0, <3>1, SMTT(30) DEF Numbered
    <3>5. QED BY <1>1, <2>0, <3>2, <3>3, <3>4 DEF Numbered, Working
  <2>3. QED BY <1>1, <2>1, <2>2
<1>8. ClientFirst' /\ CountedUdp'
  BY <1>1 DEF ClientFirst, CountedUdp, Working, ProperlySent
<1>9. Ascending'
  BY <1>1, <1>7 DEF Ascending
<1>10. QED BY <1>5, <1>8, <1>9

\* Receiving a datagram keeps the invariant, whoever sent it: it is dropped,
\* it pins the client, or it is taken in hand for the client or as a reply.
LEMMA ReceiveKeepsInv ==
  ASSUME UdpInv, RecvUnexpected \/ RecvFromClient \/ RecvReply
  PROVE  UdpInv'
<1> USE DEF UdpInv
<1> DEFINE d == Head(queue)
           q == Tail(queue)
<1>1. /\ pc = "select" /\ queue # << >> /\ queue' = q
      /\ UNCHANGED <<followed, expected, control, sent, out, failed>>
  BY DEF RecvUnexpected, RecvFromClient, RecvReply, taskVars
<1>2. TypeOK /\ queue \in Seq(Datagram)
  BY DEF UdpTypes, TypeOK
<1>3. /\ d = queue[1] /\ d \in Datagram /\ 1 \in DOMAIN queue
      /\ q \in Seq(Datagram) /\ Len(q) = Len(queue) - 1
      /\ \A i \in DOMAIN q : i \in Nat /\ i + 1 \in DOMAIN queue /\ q[i] = queue[i + 1]
  BY <1>1, <1>2, TakenFirst
<1> HIDE DEF d, q
<1>4. d.src \in Addrs /\ d.hdr \in Addrs \cup BadHeaders
  BY <1>3 DEF Datagram
<1>5. /\ cur = << >> /\ ~Working
  BY <1>1 DEF UdpTypes, Working
<1>6. ASSUME followed
      PROVE
      /\ \A j \in DOMAIN q : d.id < q[j].id
      /\ \A i, j \in DOMAIN q : i < j => q[i].id < q[j].id
      /\ \A j \in DOMAIN q : q[j].id <= sent
      /\ \A i \in DOMAIN out, j \in DOMAIN q : out[i].of.id < q[j].id
      /\ \A i \in DOMAIN out : out[i].of.id < d.id
      /\ d.id <= sent
  <2>0. Numbered
    BY <1>6 DEF Ascending
  <2>1. \A j \in DOMAIN q : q[j] = queue[j + 1] /\ j + 1 \in DOMAIN queue /\ 1 < j + 1
    <3>1. \A j \in DOMAIN q : j \in Nat \ {0}
      BY <1>3, LenProperties
    <3>2. QED BY <1>3, <3>1
  <2>2. \A j \in DOMAIN q : d.id < q[j].id
    BY <2>0, <1>3, <2>1 DEF Numbered
  <2>3. \A i, j \in DOMAIN q : i < j => q[i].id < q[j].id
    <3> SUFFICES ASSUME NEW i \in DOMAIN q, NEW j \in DOMAIN q, i < j
                 PROVE  q[i].id < q[j].id
      OBVIOUS
    <3>1. i + 1 < j + 1
      BY <1>3
    <3>2. QED BY <2>0, <2>1, <3>1 DEF Numbered
  <2>4. /\ \A j \in DOMAIN q : q[j].id <= sent
        /\ \A i \in DOMAIN out, j \in DOMAIN q : out[i].of.id < q[j].id
    BY <2>0, <2>1 DEF Numbered
  <2>5. (\A i \in DOMAIN out : out[i].of.id < d.id) /\ d.id <= sent
    BY <2>0, <1>3 DEF Numbered
  <2>6. QED BY <2>2, <2>3, <2>4, <2>5
<1>7. /\ queue' \in Seq(Datagram) /\ Len(queue') <= QueueCap
  BY <1>1, <1>2, <1>3, UdpAssumption, LenProperties DEF TypeOK
<1>8. CASE UNCHANGED <<pc, cur>>
  <2>1. Ascending'
    BY <1>1, <1>5, <1>6, <1>8 DEF Ascending, Numbered, Working
  <2>2. UNCHANGED stats
    BY <1>1, <1>8 DEF RecvUnexpected, RecvFromClient, RecvReply, taskVars
  <2>3. CountedUdp'
    BY <1>1, <1>8, <2>2 DEF CountedUdp
  <2>4. /\ UNCHANGED clientAddr \/ (clientAddr = {} /\ clientAddr' = {d.src}
                                   /\ expected \in {AnyHost, IpOf[d.src]})
    BY <1>1, <1>8
       DEF RecvUnexpected, RecvFromClient, RecvReply, taskVars, Received, Expects, d
  <2>5. /\ clientAddr' \subseteq Addrs /\ Cardinality(clientAddr') <= 1
        /\ clientAddr' = {} \/ \E a \in Addrs : clientAddr' = {a}
    <3>1. CASE UNCHANGED clientAddr
      BY <1>2, <3>1 DEF UdpTypes, TypeOK
    <3>2. CASE clientAddr' = {d.src}
      BY <1>4, <3>2, FS_Singleton
    <3>3. QED BY <2>4, <3>1, <3>2
  <2>6. UdpTypes'
    BY <1>1, <1>2, <1>7, <1>8, <2>2, <2>5 DEF UdpTypes, TypeOK, Working
  <2>7. ClientFirst'
    <3>1. clientAddr = {} => DOMAIN out = {}
      BY DEF ClientFirst
    <3>2. QED BY <1>1, <1>5, <1>8, <2>4, <3>1
             DEF ClientFirst, Working, ProperlySent
  <2>8. QED BY <2>1, <2>3, <2>6, <2>7
<1>9. CASE cur' = <<d>> /\ pc' \in {"resolve", "reply"}
  <2>0. cur'[1] = d /\ Working'
    BY <1>9 DEF Working
  <2>1. Ascending'
    BY <1>1, <1>6, <2>0 DEF Ascending, Numbered
  <2>2. CASE RecvFromClient
    <3>1. /\ pc' = "resolve" /\ UNCHANGED stats /\ clientAddr' = {d.src}
          /\ d.hdr \notin BadHeaders
          /\ UNCHANGED clientAddr \/ (clientAddr = {}
                                      /\ expected \in {AnyHost, IpOf[d.src]})
      BY <1>1, <1>9, <2>2 DEF RecvFromClient, Received, Expects, d
    <3>2. clientAddr' \subseteq Addrs /\ Cardinality(clientAddr') <= 1
      BY <1>4, <3>1, FS_Singleton
    <3>3. UdpTypes'
      <4>1. cur' \in Seq(Datagram) /\ Len(cur') = 1
        BY <1>3, <1>9
      <4>2. TypeOK'
        BY <1>1, <1>2, <1>7, <3>1, <3>2, <4>1 DEF TypeOK
      <4>3. QED BY <1>3, <1>4, <1>9, <2>0, <3>1, <4>2 DEF UdpTypes
    <3>4. CountedUdp'
      BY <1>1, <3>1 DEF CountedUdp
    <3>5. ClientFirst'
      <4>1. clientAddr = {} => DOMAIN out = {}
        BY DEF ClientFirst
      <4>2. d.hdr \in Addrs
        BY <1>4, <3>1
      <4>3. QED BY <1>1, <2>0, <3>1, <4>1, <4>2 DEF ClientFirst, ProperlySent
    <3>6. QED BY <2>1, <3>3, <3>4, <3>5
  <2>3. CASE RecvReply
    <3>1. /\ pc' = "reply" /\ Count("replies")
          /\ UNCHANGED clientAddr /\ clientAddr # {} /\ d.src \notin clientAddr
      BY <2>3 DEF RecvReply, Received, d
    <3>2. /\ stats' \in [datagrams : Nat, replies : Nat]
          /\ followed =>
               stats'.datagrams = stats.datagrams /\ stats'.replies = stats.replies + 1
          /\ stats.datagrams \in Nat /\ stats.replies \in Nat
      <4>1. stats \in [datagrams : Nat, replies : Nat]
        BY <1>2 DEF TypeOK
      <4>2. QED BY <3>1, <4>1, ReplyCounted DEF Count
    <3>3. UdpTypes'
      <4>1. cur' \in Seq(Datagram) /\ Len(cur') = 1
        BY <1>3, <1>9
      <4>2. TypeOK'
        BY <1>1, <1>2, <1>7, <3>1, <3>2, <4>1 DEF TypeOK
      <4>3. QED BY <1>3, <1>9, <2>0, <3>1, <4>2 DEF UdpTypes
    <3>4. CountedUdp'
      <4>1. Len(out) \in Nat /\ failed \in Nat
        BY <1>2, LenProperties DEF TypeOK
      <4>2. followed => stats.datagrams + stats.replies = Len(out) + failed + 0
        BY <1>1 DEF CountedUdp
      <4>3. QED BY <1>1, <3>1, <3>2, <4>1, <4>2 DEF CountedUdp
    <3>5. ClientFirst'
      BY <1>1, <2>0, <3>1 DEF ClientFirst, ProperlySent
    <3>6. QED BY <2>1, <3>3, <3>4, <3>5
  <2>4. CASE RecvUnexpected
    BY <1>1, <1>9, <2>4 DEF RecvUnexpected, taskVars
  <2>5. QED BY <2>2, <2>3, <2>4
<1>10. QED
  BY <1>1, <1>8, <1>9 DEF RecvUnexpected, RecvFromClient, RecvReply, taskVars, Received, d

\* A lookup keeps the invariant: the datagram is counted or dropped.
LEMMA ResolveKeepsInv == ASSUME UdpInv, ResolveOk \/ ResolveFails PROVE UdpInv'
<1> USE DEF UdpInv
<1>1. /\ pc = "resolve" /\ UNCHANGED <<followed, expected, clientAddr, control, sent,
                                       queue, out, failed>>
  BY DEF ResolveOk, ResolveFails
<1>2. TypeOK /\ clientAddr # {} /\ Len(out) \in Nat /\ failed \in Nat
  BY <1>1, LenProperties DEF UdpTypes, TypeOK, ClientFirst, Working
<1>3. CASE ResolveOk
  <2>1. /\ Count("datagrams") /\ pc' = "forward" /\ cur' = cur
    BY <1>3 DEF ResolveOk
  <2>2. /\ stats' \in [datagrams : Nat, replies : Nat]
        /\ followed =>
             stats'.datagrams = stats.datagrams + 1 /\ stats'.replies = stats.replies
        /\ stats.datagrams \in Nat /\ stats.replies \in Nat
    <3>1. stats \in [datagrams : Nat, replies : Nat]
      BY <1>2 DEF TypeOK
    <3>2. QED BY <2>1, <3>1, DatagramCounted DEF Count
  <2>3. TypeOK'
    BY <1>1, <1>2, <2>1, <2>2 DEF TypeOK
  <2>4. UdpTypes'
    BY <1>1, <2>1, <2>3 DEF UdpTypes, Working
  <2>5. Ascending' /\ ClientFirst'
    BY <1>1, <1>2, <2>1 DEF Ascending, Numbered, ClientFirst, Working, ProperlySent
  <2>6. CountedUdp'
    <3>1. followed => stats.datagrams + stats.replies = Len(out) + failed + 0
      BY <1>1 DEF CountedUdp
    <3>2. QED BY <1>1, <1>2, <2>1, <2>2, <3>1 DEF CountedUdp
  <2>7. QED BY <2>4, <2>5, <2>6
<1>4. CASE ResolveFails
  <2>1. cur' = << >> /\ pc' = "select" /\ UNCHANGED stats
    BY <1>4 DEF ResolveFails
  <2>2. TypeOK'
    BY <1>1, <1>2, <2>1, EmptySeq DEF TypeOK
  <2>3. UdpTypes'
    BY <1>1, <2>1, <2>2 DEF UdpTypes, Working
  <2>4. Ascending' /\ ClientFirst'
    BY <1>1, <1>2, <2>1 DEF Ascending, Numbered, ClientFirst, Working, ProperlySent
  <2>5. CountedUdp'
    BY <1>1, <2>1 DEF CountedUdp
  <2>6. QED BY <2>3, <2>4, <2>5
<1>5. QED BY <1>3, <1>4

\* send_to keeps the invariant: what leaves is the client's to the destination
\* it named, or another's to the client under its own name.
LEMMA SendKeepsInv == ASSUME UdpInv, SendTo PROVE UdpInv'
<1> USE DEF UdpInv
<1> DEFINE d == cur[1]
           m == IF pc = "forward" THEN Forwarded(d) ELSE Framed(d)
<1>1. /\ pc \in {"forward", "reply"} /\ cur' = << >> /\ pc' = "select"
      /\ UNCHANGED <<followed, expected, clientAddr, control, sent, queue, stats>>
  BY DEF SendTo
<1>2. IF followed
        THEN \/ out' = Append(out, m) /\ failed' = failed
             \/ out' = out /\ failed' = failed + 1
        ELSE out' = out /\ failed' = failed
  BY DEF SendTo, Outgoing
<1>3. TypeOK /\ out \in Seq(Sent) /\ failed \in Nat /\ Working
  BY <1>1 DEF UdpTypes, TypeOK, Working
<1>4. d \in Datagram /\ d.src \in Addrs
  BY <1>3 DEF UdpTypes, Datagram
<1>5. /\ clientAddr # {} /\ clientAddr \subseteq Addrs
      /\ pc = "forward" => clientAddr = {d.src} /\ d.hdr \in Addrs
      /\ pc = "reply" => d.src \notin clientAddr
  BY <1>3 DEF ClientFirst, TypeOK
<1>6. m \in Sent /\ m.of = d
  <2>1. CASE pc = "forward"
    BY <1>4, <1>5, <2>1 DEF Forwarded, Sent, Datagram
  <2>2. CASE pc # "forward"
    BY <1>4, <1>5, <2>2 DEF Framed, Sent, Datagram
  <2>3. QED BY <2>1, <2>2
<1>7. ProperlySent(m)
  <2>1. CASE pc = "forward"
    BY <1>5, <2>1 DEF ProperlySent, Forwarded
  <2>2. CASE pc = "reply"
    BY <1>1, <1>5, <2>2 DEF ProperlySent, Framed
  <2>3. QED BY <1>1, <2>1, <2>2
<1> HIDE DEF d, m
<1>8. /\ Append(out, m) \in Seq(Sent) /\ Len(Append(out, m)) = Len(out) + 1
      /\ Len(out) \in Nat /\ DOMAIN out = 1 .. Len(out)
      /\ DOMAIN Append(out, m) = 1 .. Len(out) + 1
      /\ \A i \in DOMAIN out : Append(out, m)[i] = out[i]
      /\ Append(out, m)[Len(out) + 1] = m
  BY <1>3, <1>6, AddedLast
<1>9. /\ out' \in Seq(Sent) /\ failed' \in Nat
      /\ \A i \in DOMAIN out' : \/ i \in DOMAIN out /\ out'[i] = out[i]
                                \/ i = Len(out) + 1 /\ out'[i] = m
  BY <1>2, <1>3, <1>8
<1>10. UdpTypes'
  <2>1. TypeOK'
    BY <1>1, <1>3, <1>9, EmptySeq DEF TypeOK
  <2>2. QED BY <1>1, <2>1 DEF UdpTypes, Working
<1>11. ASSUME followed PROVE Numbered'
  <2>0. Numbered
    BY <1>11 DEF Ascending
  <2>1. /\ \A i \in DOMAIN out : out[i].of.id < m.of.id
        /\ \A j \in DOMAIN queue : m.of.id < queue[j].id
        /\ m.of.id <= sent
    BY <2>0, <1>3, <1>6 DEF Numbered, d
  <2>2. \A i, j \in DOMAIN out' : i < j => out'[i].of.id < out'[j].of.id
    <3> SUFFICES ASSUME NEW i \in DOMAIN out', NEW j \in DOMAIN out', i < j
                 PROVE  out'[i].of.id < out'[j].of.id
      OBVIOUS
    <3>1. i \in DOMAIN out /\ out'[i] = out[i]
      BY <1>2, <1>8, <1>9
    <3>2. QED BY <2>0, <1>9, <2>1, <3>1 DEF Numbered
  <2>3. /\ \A i \in DOMAIN out' : out'[i].of.id <= sent
        /\ \A i \in DOMAIN out', j \in DOMAIN queue : out'[i].of.id < queue[j].id
    BY <2>0, <1>9, <2>1 DEF Numbered
  <2>4. QED BY <2>0, <1>1, <2>2, <2>3 DEF Numbered, Working
<1>12. ClientFirst'
  <2>1. \A i \in DOMAIN out' : ProperlySent(out'[i])
    BY <1>7, <1>9 DEF ClientFirst
  <2>2. \A x : ProperlySent(x)' = ProperlySent(x)
    BY <1>1 DEF ProperlySent
  <2>3. \A i \in DOMAIN out' : ProperlySent(out[i])'
    BY <1>1, <2>1 DEF ProperlySent
  <2>4. QED BY <1>1, <1>5, <2>3 DEF ClientFirst, Working
<1>13. ASSUME followed PROVE CountedUdp'
  <2>1. stats.datagrams + stats.replies = Len(out) + failed + 1
    BY <1>1, <1>13 DEF CountedUdp
  <2>2. Len(out') + failed' = Len(out) + failed + 1
    BY <1>2, <1>3, <1>8, <1>13
  <2>3. /\ Len(out') \in Nat
    BY <1>9, LenProperties
  <2>4. QED BY <1>1, <1>9, <2>1, <2>2, <2>3 DEF CountedUdp
<1>14. Ascending' /\ CountedUdp'
  BY <1>1, <1>2, <1>11, <1>13 DEF Ascending, CountedUdp
<1>15. QED BY <1>10, <1>12, <1>14

\* What the control connection may become is a control connection.
LEMMA ControlShapes ==
  ASSUME NEW c \in [data : BOOLEAN, closed : BOOLEAN]
  PROVE  /\ [c EXCEPT !.data = TRUE] \in [data : BOOLEAN, closed : BOOLEAN]
         /\ [c EXCEPT !.data = FALSE] \in [data : BOOLEAN, closed : BOOLEAN]
         /\ [c EXCEPT !.closed = TRUE] \in [data : BOOLEAN, closed : BOOLEAN]
         /\ [data |-> FALSE, closed |-> TRUE] \in [data : BOOLEAN, closed : BOOLEAN]
<1>1. [c EXCEPT !.data = TRUE] \in [data : BOOLEAN, closed : BOOLEAN]
  OBVIOUS
<1>2. [c EXCEPT !.data = FALSE] \in [data : BOOLEAN, closed : BOOLEAN]
  OBVIOUS
<1>3. [c EXCEPT !.closed = TRUE] \in [data : BOOLEAN, closed : BOOLEAN]
  OBVIOUS
<1>4. [data |-> FALSE, closed |-> TRUE] \in [data : BOOLEAN, closed : BOOLEAN]
  OBVIOUS
<1>5. QED BY <1>1, <1>2, <1>3, <1>4

\* The control connection changes nothing of what the association relays.
LEMMA ControlKeepsInv ==
  ASSUME UdpInv, ControlChanges \/ ReadControlData \/ ReadControlEof \/ RecvError
  PROVE  UdpInv'
<1> USE DEF UdpInv
<1>1. /\ UNCHANGED <<followed, expected, clientAddr, sent, queue, cur, out, failed, stats>>
      /\ UNCHANGED pc \/ (pc = "select" /\ pc' = "done")
  BY DEF ControlChanges, ReadControlData, ReadControlEof, RecvError, taskVars
<1>2. control' \in [data : BOOLEAN, closed : BOOLEAN]
  <2>1. control \in [data : BOOLEAN, closed : BOOLEAN]
    BY DEF UdpTypes, TypeOK
  <2>2. \/ control' = control
        \/ control' = [control EXCEPT !.data = TRUE]
        \/ control' = [control EXCEPT !.data = FALSE]
        \/ control' = [control EXCEPT !.closed = TRUE]
        \/ control' = [data |-> FALSE, closed |-> TRUE]
    BY DEF ControlChanges, ReadControlData, ReadControlEof, RecvError
  <2>3. /\ [control EXCEPT !.data = TRUE] \in [data : BOOLEAN, closed : BOOLEAN]
        /\ [control EXCEPT !.data = FALSE] \in [data : BOOLEAN, closed : BOOLEAN]
        /\ [control EXCEPT !.closed = TRUE] \in [data : BOOLEAN, closed : BOOLEAN]
        /\ [data |-> FALSE, closed |-> TRUE] \in [data : BOOLEAN, closed : BOOLEAN]
    BY <2>1, ControlShapes
  <2>4. QED BY ONLY <2>1, <2>2, <2>3, Zenon
<1>3. UdpTypes'
  BY <1>1, <1>2 DEF UdpTypes, TypeOK, Working
<1>4. Ascending' /\ ClientFirst' /\ CountedUdp'
  BY <1>1 DEF Ascending, Numbered, ClientFirst, CountedUdp, Working, ProperlySent
<1>5. QED BY <1>3, <1>4

\* The invariant holds in every reachable state.
LEMMA UdpInvHolds == Spec => []UdpInv
<1>1. UdpInv /\ UNCHANGED vars => UdpInv'
  <2> SUFFICES ASSUME UdpInv, UNCHANGED vars PROVE UdpInv'
    OBVIOUS
  <2>1. UdpTypes'
    BY DEF UdpInv, UdpTypes, TypeOK, Working, vars
  <2>2. Ascending' /\ CountedUdp'
    BY DEF UdpInv, Ascending, Numbered, CountedUdp, Working, vars
  <2>3. ClientFirst'
    BY DEF UdpInv, ClientFirst, Working, ProperlySent, vars
  <2>4. QED BY <2>1, <2>2, <2>3 DEF UdpInv
<1>2. UdpInv /\ [Next]_vars => UdpInv'
  BY <1>1, HostKeepsInv, ReceiveKeepsInv, ResolveKeepsInv, SendKeepsInv,
     ControlKeepsInv
     DEF Next, Environment, TaskStep, Done
<1>3. QED BY <1>2, InitUdpInv, PTL DEF Spec

-----------------------------------------------------------------------------
(* The theorems.                                                           *)

\* The association has the shape its types give it, and never more than one
\* client.
THEOREM UdpTypeCorrect == Spec => []TypeOK
<1>1. UdpInv => TypeOK
  BY DEF UdpInv, UdpTypes
<1>2. QED BY <1>1, UdpInvHolds, PTL

\* handle_udp_associate serves the client it pinned and nobody else, whoever
\* sends to its socket and in whatever order.
THEOREM AssociationServesOneClient == Spec => []ServesOneClient
<1>1. UdpInv => ServesOneClient
  BY DEF UdpInv, ClientFirst, ProperlySent, ServesOneClient
<1>2. QED BY <1>1, UdpInvHolds, PTL

\* handle_udp_associate sends each datagram at most once, in the order of
\* arrival, and its counters account for every send it tried.
THEOREM AssociationRelaysInOrder == Spec => []RelayedOnceInOrder
<1>1. UdpInv => RelayedOnceInOrder
  BY DEF UdpInv, Ascending, Numbered, CountedUdp, RelayedOnceInOrder
<1>2. QED BY <1>1, UdpInvHolds, PTL
=============================================================================
