--------------------------- MODULE SessionProofs ---------------------------
(***************************************************************************)
(* Proofs about one client connection, for every set of configurations,    *)
(* every client and every interleaving of its leaving with the session.    *)
(***************************************************************************)
EXTENDS Session, TLAPS

-----------------------------------------------------------------------------
(* The kinds of steps.  Most of the session's steps are of three kinds,    *)
(* and an invariant need not look at them one by one.                      *)

\* Await points passed without a word: the next one, or the end of a relay.
Moves ==
  {<<"header", "methods">>, <<"header", "shut">>, <<"resolve", "connect">>,
   <<"connect", "send_success">>, <<"bind", "send_bound">>,
   <<"bind_accept", "send_peer">>, <<"udp_bind", "send_udp">>,
   <<"relay", "done">>, <<"udp", "done">>}

\* Writes: where from, what, where to.
Writes ==
  {<<"send_userpass", Method("UserPass"), "creds">>,
   <<"send_noauth", Method("NoAuth"), "request">>,
   <<"send_nomethods", Method("NoMethods"), "shut">>,
   <<"send_granted", Status("ok"), "request">>,
   <<"send_denied", Status("failure"), "shut">>,
   <<"send_success", Reply("Success"), "relay">>,
   <<"send_bound", Reply("Success"), "bind_accept">>,
   <<"send_peer", Reply("Success"), "relay">>,
   <<"send_udp", Reply("Success"), "udp">>,
   <<"relay", Data, "relay">>}

\* All but the state of the send buffer and of the relay's two directions, which
\* no invariant below looks at.
sessionVars ==
  <<methods, pc, peer, wopen, out, err, replied, command, credsOk, stats>>

\* Only the place changes.
Moved(p, q) ==
  /\ pc = p /\ pc' = q
  /\ UNCHANGED <<methods, peer, wopen, out, err, replied, command, credsOk, stats>>

\* A read or write failed, or negotiation gave up.
Broken(p) ==
  /\ pc = p /\ pc' = "failed" /\ err' \in IoErrors \cup Codes
  /\ UNCHANGED <<methods, peer, wopen, out, replied, command, credsOk, stats>>

\* One message went out.
Wrote(p, m, q) ==
  /\ pc = p /\ pc' = q /\ CanWrite /\ out' = Append(out, m)
  /\ UNCHANGED <<methods, peer, wopen, err, replied, command, credsOk, stats>>

\* The steps that are of no such kind: they count, shut, or read what decides.
Special ==
  \/ ReadMethods \/ ReadCredentials \/ ReadRequest \/ HandshakeTimeout
  \/ ShutThenFail \/ RelayTargetEof \/ RelayOk \/ ClassifyError \/ SendError
  \/ FinalShutdown

\* A write that may fail, on the way from p to q, is of the second or the
\* third kind.
LEMMA SendKind ==
  ASSUME NEW p \in Negotiating \cup Serving, NEW m, NEW q, <<p, m, q>> \in Writes,
         Send(p, m, q),
         UNCHANGED <<clientVars, wopen, replied, command, credsOk, stats>>
  PROVE  \/ \E w \in Writes : Wrote(w[1], w[2], w[3])
         \/ \E x \in Negotiating \cup Serving : Broken(x)
<1>1. CASE CanWrite
  <2>1. Wrote(p, m, q)
    BY <1>1 DEF Send, Wrote, clientVars
  <2>2. QED BY <2>1
<1>2. CASE ~CanWrite
  <2>1. Broken(p)
    BY <1>2 DEF Send, Broken, Fail, WriteError, IoErrors, clientVars
  <2>2. QED BY <2>1
<1>3. QED BY <1>1, <1>2

\* Every step leaves the session as it is, is the client's leaving, of one of
\* the three kinds, or special.
LEMMA StepKinds ==
  ASSUME [Next]_vars
  PROVE  \/ UNCHANGED sessionVars
         \/ ClientLeaves
         \/ \E e \in Moves : Moved(e[1], e[2])
         \/ \E p \in Negotiating \cup Serving : Broken(p)
         \/ \E w \in Writes : Wrote(w[1], w[2], w[3])
         \/ Special
<1> DEFINE Kind == \/ \E e \in Moves : Moved(e[1], e[2])
                   \/ \E p \in Negotiating \cup Serving : Broken(p)
                   \/ \E w \in Writes : Wrote(w[1], w[2], w[3])
<1>m. ASSUME NEW p, NEW q, Moved(p, q), <<p, q>> \in Moves PROVE Kind
  BY <1>m
<1>b. ASSUME NEW p \in Negotiating \cup Serving, Broken(p) PROVE Kind
  BY <1>b
<1>w. ASSUME NEW p \in Negotiating \cup Serving, NEW m, NEW q, <<p, m, q>> \in Writes,
             Send(p, m, q),
             UNCHANGED <<clientVars, wopen, replied, command, credsOk, stats>>
      PROVE  Kind
  BY <1>w, SendKind
<1> HIDE DEF Kind
<1>1. SendUserPass \/ SendNoAuth \/ SendNoMethods \/ SendGranted \/ SendDenied => Kind
  <2>1. {"send_userpass", "send_noauth", "send_nomethods", "send_granted",
         "send_denied"} \subseteq Negotiating \cup Serving
    BY DEF Negotiating
  <2>2. QED
    BY <1>w, <2>1
       DEF SendUserPass, SendNoAuth, SendNoMethods, SendGranted, SendDenied, Writes
<1>2. SendSuccess \/ SendBound \/ SendPeer \/ SendUdp => Kind
  <2>1. {"send_success", "send_bound", "send_peer", "send_udp"}
          \subseteq Negotiating \cup Serving
    BY DEF Serving
  <2>2. QED BY <1>w, <2>1 DEF SendSuccess, SendBound, SendPeer, SendUdp, Writes
<1>3. RelayData => Kind \/ UNCHANGED sessionVars
  <2> SUFFICES ASSUME RelayData PROVE Kind \/ UNCHANGED sessionVars
    OBVIOUS
  <2>1. CASE out[Len(out)] = Data
    BY <2>1 DEF RelayData, sessionVars
  <2>2. CASE out[Len(out)] # Data
    <3>1. Wrote("relay", Data, "relay") /\ <<"relay", Data, "relay">> \in Writes
      BY <2>2 DEF RelayData, Wrote, Writes
    <3>2. QED BY <3>1 DEF Kind
  <2>3. QED BY <2>1, <2>2
<1>4. ReadHeader => Kind
  <2>1. ReadHeader => Moved("header", "methods") \/ Moved("header", "shut")
    BY DEF ReadHeader, Moved, clientVars
  <2>2. QED BY <1>m, <2>1 DEF Moves
<1>5. ReadFails \/ RejectRequest \/ RelayFails => Kind
  <2>1. {"header", "methods", "creds", "request", "relay"} \subseteq Negotiating \cup Serving
    BY DEF Negotiating, Serving
  <2>2. ReadFails \/ RejectRequest \/ RelayFails =>
          \E p \in {"header", "methods", "creds", "request", "relay"} : Broken(p)
    BY DEF ReadFails, RejectRequest, RelayFails, Fail, ReadError, Quietly, Broken,
           IoErrors, Codes, clientVars
  <2>3. QED BY <1>b, <2>1, <2>2
<1>6. Resolve \/ Connect \/ BindListener \/ BindAccept \/ BindUdp => Kind
  <2>1. {"resolve", "connect", "bind", "bind_accept", "udp_bind"}
          \subseteq Negotiating \cup Serving
    BY DEF Serving
  <2>2. Resolve => Moved("resolve", "connect") \/ Broken("resolve")
    BY DEF Resolve, Fail, Quietly, Moved, Broken, IoErrors, Codes, clientVars
  <2>3. Connect => Moved("connect", "send_success") \/ Broken("connect")
    BY DEF Connect, ConnectErrors, Fail, Quietly, Moved, Broken, IoErrors, Codes,
           clientVars
  <2>4. BindListener => Moved("bind", "send_bound") \/ Broken("bind")
    BY DEF BindListener, Fail, Quietly, Moved, Broken, IoErrors, Codes, clientVars
  <2>5. BindAccept => Moved("bind_accept", "send_peer") \/ Broken("bind_accept")
    BY DEF BindAccept, Fail, Quietly, Moved, Broken, IoErrors, Codes, clientVars
  <2>6. BindUdp => Moved("udp_bind", "send_udp") \/ Broken("udp_bind")
    BY DEF BindUdp, Fail, Quietly, Moved, Broken, IoErrors, Codes, clientVars
  <2>7. QED BY <1>m, <1>b, <2>1, <2>2, <2>3, <2>4, <2>5, <2>6 DEF Moves
<1>7. RelayNotConnected \/ UdpEnds => Kind
  <2>1. RelayNotConnected => Moved("relay", "done")
    BY DEF RelayNotConnected, Quietly, Moved, clientVars
  <2>2. UdpEnds => Moved("udp", "done")
    BY DEF UdpEnds, Quietly, Moved, clientVars
  <2>3. QED BY <1>m, <2>1, <2>2 DEF Moves
<1>8. Done \/ ClientReads \/ RelayClientEof \/ UNCHANGED vars => UNCHANGED sessionVars
  BY DEF Done, ClientReads, RelayClientEof, sessionVars, vars
<1>9. QED
  BY <1>1, <1>2, <1>3, <1>4, <1>5, <1>6, <1>7, <1>8
  DEF Kind, Next, ClientInput, ServerStep, RelayStep, Special

-----------------------------------------------------------------------------
(* Types                                                                   *)

\* The initial state has its types.
LEMMA InitType == Init => TypeOK
<1> SUFFICES ASSUME Init PROVE TypeOK
  OBVIOUS
<1>1. out \in Seq(Messages)
  BY DEF Init
<1>2. stats \in [Counters -> Nat]
  BY DEF Init
<1>3. QED BY <1>1, <1>2 DEF Init, TypeOK, Places, Negotiating, IoErrors

\* Only messages of the protocol are written.
LEMMA WritesType ==
  ASSUME NEW w \in Writes
  PROVE  w[1] \in Places /\ w[2] \in Messages /\ w[3] \in Places
  BY DEF Writes, Messages, Method, Status, Reply, Data, Places, Negotiating, Serving

\* The send buffer is full or not, and at most two ends have ended: only a relay
\* and a client that reads touch either.
LEMMA RelayStateType ==
  ASSUME TypeOK, [Next]_vars
  PROVE  full' \in BOOLEAN /\ ends' \subseteq {"client", "target"}
<1>1. CASE UNCHANGED <<full, ends>>
  BY <1>1 DEF TypeOK
<1>2. CASE ClientReads \/ RelayData \/ RelayClientEof \/ RelayTargetEof
  BY <1>2 DEF ClientReads, RelayData, RelayClientEof, RelayTargetEof, TypeOK
<1>3. CASE ClientLeaves \/ ClientInput \/ HandshakeTimeout \/ Done \/ UNCHANGED vars
  BY <1>1, <1>3
     DEF ClientLeaves, ClientInput, ReadHeader, ReadMethods, ReadCredentials,
         RejectRequest, ReadRequest, HandshakeTimeout, Done, vars, clientVars
<1>4. CASE ServerStep
  BY <1>1, <1>4
     DEF ServerStep, ReadFails, SendUserPass, SendNoAuth, SendNoMethods, SendGranted,
         SendDenied, ShutThenFail, Resolve, Connect, SendSuccess, BindListener,
         SendBound, BindAccept, SendPeer, BindUdp, SendUdp, ClassifyError, SendError,
         FinalShutdown, Quietly, clientVars
<1>5. CASE RelayOk \/ RelayFails \/ RelayNotConnected \/ UdpEnds
  BY <1>1, <1>5 DEF RelayOk, RelayFails, RelayNotConnected, UdpEnds, Quietly, clientVars
<1>6. QED BY <1>2, <1>3, <1>4, <1>5 DEF Next, RelayStep

\* Every step keeps the types.
LEMMA NextType == TypeOK /\ [Next]_vars => TypeOK'
<1> SUFFICES ASSUME TypeOK, [Next]_vars PROVE TypeOK'
  OBVIOUS
<1>0. full' \in BOOLEAN /\ ends' \subseteq {"client", "target"}
  BY RelayStateType
<1>1. CASE UNCHANGED sessionVars
  BY <1>0, <1>1 DEF sessionVars, TypeOK
<1>2. CASE ClientLeaves
  BY <1>0, <1>2 DEF ClientLeaves, TypeOK
<1>3. CASE \E e \in Moves : Moved(e[1], e[2])
  <2>1. pc' \in Places
    BY <1>3 DEF Moved, Moves, Places, Negotiating, Serving
  <2>2. QED BY <1>0, <1>3, <2>1 DEF Moved, TypeOK
<1>4. CASE \E p \in Negotiating \cup Serving : Broken(p)
  BY <1>0, <1>4 DEF Broken, TypeOK, Places
<1>5. CASE \E w \in Writes : Wrote(w[1], w[2], w[3])
  <2> PICK w \in Writes : Wrote(w[1], w[2], w[3])
    BY <1>5
  <2>1. pc' \in Places /\ w[2] \in Messages /\ out' = Append(out, w[2])
    BY WritesType DEF Wrote
  <2>2. out' \in Seq(Messages)
    BY <2>1 DEF TypeOK
  <2>3. QED BY <1>0, <2>1, <2>2 DEF Wrote, TypeOK
<1>6. CASE Special
  <2>1. ASSUME NEW k \in Counters, Count(k) PROVE stats' \in [Counters -> Nat]
    BY <2>1 DEF Count, TypeOK
  <2>2. {"auth_failures", "handshake_timeouts", "disconnects", "errors", "requests",
         "relays"} \subseteq Counters
    BY DEF Counters
  <2>3. CASE ReadMethods
    <3>1. stats' \in [Counters -> Nat]
      BY <2>1, <2>2, <2>3 DEF ReadMethods, TypeOK
    <3>2. pc' \in Places
      BY <2>3 DEF ReadMethods, Preferred, Places, Negotiating
    <3>3. QED BY <1>0, <2>3, <3>1, <3>2 DEF ReadMethods, TypeOK, clientVars
  <2>4. CASE ReadCredentials
    <3>1. stats' \in [Counters -> Nat]
      BY <2>1, <2>2, <2>4 DEF ReadCredentials, TypeOK
    <3>2. pc' \in Places /\ replied' \in BOOLEAN /\ credsOk' \in BOOLEAN
      BY <2>4 DEF ReadCredentials, Places, Negotiating, TypeOK
    <3>3. QED BY <1>0, <2>4, <3>1, <3>2 DEF ReadCredentials, TypeOK, clientVars
  <2>5. CASE ReadRequest
    <3>1. stats' \in [Counters -> Nat]
      BY <2>1, <2>2, <2>5 DEF ReadRequest
    <3>2. pc' \in Places
      BY <2>5 DEF ReadRequest, Commands, Places, Serving
    <3>3. QED BY <1>0, <2>5, <3>1, <3>2 DEF ReadRequest, TypeOK, clientVars
  <2>6. CASE HandshakeTimeout
    <3>1. stats' \in [Counters -> Nat]
      BY <2>1, <2>2, <2>6 DEF HandshakeTimeout
    <3>2. QED BY <1>0, <2>6, <3>1 DEF HandshakeTimeout, Fail, TypeOK, Places, Codes, clientVars
  <2>7. CASE ShutThenFail
    BY <1>0, <2>7 DEF ShutThenFail, Fail, TypeOK, Places, Codes, IoErrors, clientVars
  <2>8. CASE RelayTargetEof
    BY <1>0, <2>8 DEF RelayTargetEof, TypeOK, clientVars
  <2>9. CASE RelayOk
    <3>1. stats' \in [Counters -> Nat]
      BY <2>1, <2>2, <2>9 DEF RelayOk
    <3>2. QED BY <1>0, <2>9, <3>1 DEF RelayOk, TypeOK, Places, clientVars
  <2>10. CASE ClassifyError
    <3>1. stats' \in [Counters -> Nat]
      BY <2>1, <2>2, <2>10 DEF ClassifyError
    <3>2. QED BY <1>0, <2>10, <3>1 DEF ClassifyError, TypeOK, Places, clientVars
  <2>11. CASE SendError
    <3>1. Reply(CodeOf(err)) \in Messages
      BY DEF Messages, CodeOf, TypeOK, IoErrors, Codes
    <3>2. out' \in Seq(Messages)
      BY <2>11, <3>1 DEF SendError, TypeOK
    <3>3. QED BY <1>0, <2>11, <3>2 DEF SendError, TypeOK, Places, clientVars
  <2>12. CASE FinalShutdown
    BY <1>0, <2>12 DEF FinalShutdown, TypeOK, Places, clientVars
  <2>13. QED
    BY <1>6, <2>3, <2>4, <2>5, <2>6, <2>7, <2>8, <2>9, <2>10, <2>11, <2>12
    DEF Special
<1>7. QED BY <1>1, <1>2, <1>3, <1>4, <1>5, <1>6, StepKinds

\* The session's state keeps its types, and only codes of ResponseCode go over
\* the wire.
THEOREM SessionTypeCorrect == Spec => []TypeOK
  BY InitType, NextType, PTL DEF Spec

-----------------------------------------------------------------------------
(* Who is served                                                           *)

\* The places before a method is agreed on.
Greeting == {"header", "methods", "send_userpass", "send_noauth", "send_nomethods"}

\* The client has been sent m.
Told(m) == \E i \in DOMAIN out : out[i] = m

\* What the client has been sent and has presented, place by place, up to the
\* request; from there on it is admitted for good.
AdmissionByPlace ==
  /\ pc \in Greeting => out = << >>
  /\ pc = "send_userpass" => "UserPass" \in methods
  /\ pc = "send_noauth" => "NoAuth" \in methods
  /\ pc \in {"creds", "send_granted", "send_denied"} =>
       out = <<Method("UserPass")>> /\ "UserPass" \in methods
  /\ pc = "send_granted" => credsOk
  /\ pc \in Serving \cup {"request"} => Admitted
  /\ stats["requests"] > 0 \/ Told(Reply("Success")) => Admitted

\* What is appended stays behind what was there.
LEMMA Appended ==
  ASSUME TypeOK, NEW m, out' = Append(out, m)
  PROVE  /\ Len(out') = Len(out) + 1 /\ out'[Len(out')] = m
         /\ \A i \in DOMAIN out : i \in DOMAIN out' /\ out'[i] = out[i]
         /\ \A i \in DOMAIN out' : i = Len(out') \/ i \in DOMAIN out
         /\ Len(out) \in Nat /\ DOMAIN out = 1..Len(out)
  BY DEF TypeOK

\* Admission is never taken back: messages are only added, and neither the
\* configuration nor the credentials change.
LEMMA AdmittedForGood ==
  ASSUME TypeOK, Admitted, UNCHANGED <<methods, credsOk>>,
         out' = out \/ (\E m : out' = Append(out, m))
  PROVE  Admitted'
<1>1. CASE out' = out
  BY <1>1 DEF Admitted
<1>2. CASE \E m : out' = Append(out, m)
  <2>1. PICK m : out' = Append(out, m)
    BY <1>2
  <2>2. /\ Len(out') = Len(out) + 1 /\ Len(out) \in Nat /\ DOMAIN out = 1..Len(out)
        /\ \A i \in DOMAIN out : out'[i] = out[i]
    BY <2>1, Appended
  <2>3. /\ Len(out) >= 1 => Len(out') >= 1 /\ out'[1] = out[1]
        /\ Len(out) >= 2 => Len(out') >= 2 /\ out'[2] = out[2]
    BY <2>2
  <2>4. QED BY <2>3 DEF Admitted
<1>3. QED BY <1>1, <1>2

\* The places of a session that is being wound up.
Closing == {"shut", "failed", "send_error", "final_shutdown", "done"}

\* A step within the service of a request, or into the winding up, changes
\* nothing about admission.
LEMMA AdmissionSettled ==
  ASSUME TypeOK, AdmissionByPlace, UNCHANGED <<methods, credsOk>>,
         stats'["requests"] = stats["requests"],
         (pc \in Serving /\ pc' \in Serving) \/ pc' \in Closing,
         \/ out' = out
         \/ \E m : out' = Append(out, m) /\ (m # Reply("Success") \/ pc \in Serving)
  PROVE  AdmissionByPlace'
<1>1. Admitted => Admitted'
  BY AdmittedForGood
<1>2. Told(Reply("Success"))' => Told(Reply("Success")) \/ pc \in Serving
  <2>1. CASE out' = out
    BY <2>1 DEF Told
  <2>2. CASE \E m : out' = Append(out, m) /\ (m # Reply("Success") \/ pc \in Serving)
    <3> PICK m : out' = Append(out, m) /\ (m # Reply("Success") \/ pc \in Serving)
      BY <2>2
    <3>1. /\ out'[Len(out')] = m
          /\ \A i \in DOMAIN out : out'[i] = out[i]
          /\ \A i \in DOMAIN out' : i = Len(out') \/ i \in DOMAIN out
      BY Appended
    <3>2. QED BY <3>1 DEF Told, Reply
  <2>3. QED BY <2>1, <2>2
<1>3. pc' \notin Greeting \cup {"creds", "send_granted", "send_denied", "request"}
  BY DEF Greeting, Serving, Closing
<1>4. pc' \in Serving => pc \in Serving
  BY DEF Serving, Closing
<1>5. QED BY <1>1, <1>2, <1>3, <1>4 DEF AdmissionByPlace, Greeting

\* Every step keeps the path to admission: a place of Serving is reached only
\* through a method the server is configured with.
LEMMA NextAdmission ==
  ASSUME TypeOK, AdmissionByPlace, [Next]_vars
  PROVE  AdmissionByPlace'
<1>1. CASE UNCHANGED sessionVars
  BY <1>1 DEF sessionVars, AdmissionByPlace, Admitted, Told
<1>2. CASE ClientLeaves
  BY <1>2 DEF ClientLeaves, AdmissionByPlace, Admitted, Told
<1>3. CASE \E e \in Moves : Moved(e[1], e[2])
  <2>1. /\ UNCHANGED <<methods, out, credsOk, stats>>
        /\ \/ pc = "header" /\ pc' = "methods"
           \/ pc \in Serving /\ pc' \in Serving
           \/ pc' \in Closing
    BY <1>3 DEF Moved, Moves, Serving, Closing
  <2>2. CASE pc = "header" /\ pc' = "methods"
    BY <2>1, <2>2 DEF AdmissionByPlace, Admitted, Told, Greeting, Serving
  <2>3. QED BY <2>1, <2>2, AdmissionSettled
<1>4. CASE \E p \in Negotiating \cup Serving : Broken(p)
  BY <1>4, AdmissionSettled DEF Broken, Closing
<1>5. CASE \E w \in Writes : Wrote(w[1], w[2], w[3])
  <2> PICK w \in Writes : Wrote(w[1], w[2], w[3])
    BY <1>5
  <2>1. /\ UNCHANGED <<methods, credsOk, stats>>
        /\ pc = w[1] /\ pc' = w[3] /\ out' = Append(out, w[2])
    BY DEF Wrote
  <2>2. CASE w[3] \in {"creds", "request"}
    <3>1. \/ w = <<"send_userpass", Method("UserPass"), "creds">>
          \/ w = <<"send_noauth", Method("NoAuth"), "request">>
          \/ w = <<"send_granted", Status("ok"), "request">>
      BY <2>2 DEF Writes
    <3>2. CASE w = <<"send_userpass", Method("UserPass"), "creds">>
      <4>1. out = << >> /\ pc' = "creds" /\ "UserPass" \in methods /\ stats' = stats
        BY <2>1, <3>2 DEF AdmissionByPlace, Greeting
      <4>2. out' = <<Method("UserPass")>>
        BY <2>1, <3>2, <4>1
      <4>3. ~Admitted
        BY <4>1 DEF Admitted
      <4>4. ~(stats["requests"] > 0) /\ ~Told(Reply("Success"))'
        BY <4>2, <4>3 DEF AdmissionByPlace, Told, Reply, Method
      <4>5. QED BY <2>1, <4>1, <4>2, <4>4 DEF AdmissionByPlace, Greeting, Serving
    <3>3. CASE w = <<"send_noauth", Method("NoAuth"), "request">>
      <4>1. out = << >> /\ pc' = "request" /\ "NoAuth" \in methods
        BY <2>1, <3>3 DEF AdmissionByPlace, Greeting
      <4>2. out' = <<Method("NoAuth")>>
        BY <2>1, <3>3, <4>1
      <4>3. Admitted'
        BY <2>1, <4>1, <4>2 DEF Admitted
      <4>4. QED BY <4>1, <4>3 DEF AdmissionByPlace, Greeting
    <3>4. CASE w = <<"send_granted", Status("ok"), "request">>
      <4>1. out = <<Method("UserPass")>> /\ pc' = "request" /\ "UserPass" \in methods
            /\ credsOk
        BY <2>1, <3>4 DEF AdmissionByPlace
      <4>2. Len(out') = 2 /\ out'[1] = Method("UserPass") /\ out'[2] = Status("ok")
        <5>1. /\ Len(out) = 1 /\ 1 \in DOMAIN out /\ out[1] = Method("UserPass")
              /\ w[2] = Status("ok")
          BY <3>4, <4>1
        <5>2. /\ Len(out') = Len(out) + 1 /\ out'[Len(out')] = w[2]
              /\ \A i \in DOMAIN out : out'[i] = out[i]
          BY <2>1, Appended
        <5>3. QED BY <5>1, <5>2
      <4>3. Admitted'
        BY <2>1, <4>1, <4>2 DEF Admitted
      <4>4. QED BY <4>1, <4>3 DEF AdmissionByPlace, Greeting
    <3>5. QED BY <3>1, <3>2, <3>3, <3>4
  <2>3. CASE w[3] \notin {"creds", "request"}
    <3>1. /\ (pc \in Serving /\ pc' \in Serving) \/ pc' \in Closing
          /\ w[2] # Reply("Success") \/ pc \in Serving
      BY <2>1, <2>3 DEF Writes, Serving, Closing, Reply, Method, Status
    <3>2. QED BY <2>1, <3>1, AdmissionSettled
  <2>4. QED BY <2>2, <2>3
<1>6. CASE Special
  <2>1. CASE ReadMethods
    <3>1. /\ pc = "methods" /\ UNCHANGED <<methods, out, credsOk>>
          /\ stats'["requests"] = stats["requests"]
          /\ pc' \in {"send_userpass", "send_noauth", "send_nomethods"}
          /\ pc' = "send_userpass" => "UserPass" \in methods
          /\ pc' = "send_noauth" => "NoAuth" \in methods
      BY <2>1 DEF ReadMethods, Preferred, Count, TypeOK, Counters, clientVars
    <3>2. QED BY <3>1 DEF AdmissionByPlace, Admitted, Told, Greeting, Serving
  <2>2. CASE ReadCredentials
    <3>1. /\ pc = "creds" /\ UNCHANGED <<methods, out>>
          /\ stats'["requests"] = stats["requests"]
          /\ \/ pc' = "send_granted" /\ credsOk'
             \/ pc' = "send_denied" /\ credsOk' = credsOk
      BY <2>2 DEF ReadCredentials, Count, TypeOK, Counters, clientVars
    <3>2. Admitted => Admitted'
      BY <3>1 DEF Admitted, TypeOK
    <3>3. QED BY <3>1, <3>2 DEF AdmissionByPlace, Told, Greeting, Serving
  <2>3. CASE ReadRequest
    <3>1. pc = "request" /\ UNCHANGED <<methods, out, credsOk>> /\ pc' \in Serving
      BY <2>3 DEF ReadRequest, Commands, Serving, clientVars
    <3>2. Admitted'
      BY <3>1 DEF AdmissionByPlace, Admitted
    <3>3. QED BY <3>1, <3>2 DEF AdmissionByPlace, Greeting, Serving
  <2>4. CASE HandshakeTimeout
    <3>1. stats'["requests"] = stats["requests"]
      BY <2>4 DEF HandshakeTimeout, Count, TypeOK, Counters
    <3>2. QED BY <2>4, <3>1, AdmissionSettled
              DEF HandshakeTimeout, Fail, Closing, clientVars
  <2>5. CASE ShutThenFail
    BY <2>5, AdmissionSettled DEF ShutThenFail, Fail, Closing, clientVars
  <2>6. CASE RelayTargetEof
    BY <2>6, AdmissionSettled DEF RelayTargetEof, Serving, clientVars
  <2>7. CASE RelayOk
    <3>1. stats'["requests"] = stats["requests"]
      BY <2>7 DEF RelayOk, Count, TypeOK, Counters
    <3>2. QED BY <2>7, <3>1, AdmissionSettled DEF RelayOk, Closing, clientVars
  <2>8. CASE ClassifyError
    <3>1. stats'["requests"] = stats["requests"]
      BY <2>8 DEF ClassifyError, Count, TypeOK, Counters
    <3>2. QED BY <2>8, <3>1, AdmissionSettled DEF ClassifyError, Closing, clientVars
  <2>9. CASE SendError
    <3>1. Reply(CodeOf(err)) # Reply("Success")
      BY DEF Reply, CodeOf, TypeOK, IoErrors, Codes
    <3>2. /\ UNCHANGED <<methods, credsOk, stats>> /\ pc' \in Closing
          /\ out' = out \/ out' = Append(out, Reply(CodeOf(err)))
      BY <2>9 DEF SendError, Closing, clientVars
    <3>3. QED BY <3>1, <3>2, AdmissionSettled
  <2>10. CASE FinalShutdown
    BY <2>10, AdmissionSettled DEF FinalShutdown, Closing, clientVars
  <2>11. QED
    BY <1>6, <2>1, <2>2, <2>3, <2>4, <2>5, <2>6, <2>7, <2>8, <2>9, <2>10 DEF Special
<1>7. QED BY <1>1, <1>2, <1>3, <1>4, <1>5, <1>6, StepKinds

\* For every set of configurations, no request is served, and no success is
\* reported, to a client the configured methods do not admit: on no path does
\* a denied, refused or timed-out client reach a command.
THEOREM ServesOnlyTheAdmitted == Spec => []ServedOnlyIfAdmitted
<1>1. Init => AdmissionByPlace
  BY DEF Init, AdmissionByPlace, Greeting, Serving, Told, Counters
<1>2. TypeOK /\ AdmissionByPlace /\ [Next]_vars => AdmissionByPlace'
  BY NextAdmission
<1>3. AdmissionByPlace => ServedOnlyIfAdmitted
  BY DEF AdmissionByPlace, ServedOnlyIfAdmitted, Told
<1>4. QED BY <1>1, <1>2, <1>3, SessionTypeCorrect, PTL DEF Spec

-----------------------------------------------------------------------------
(* A failure is the last word                                              *)

\* The client has been sent a failure.
Refused == \E i \in DOMAIN out : IsFailure(out[i])

\* Once a failure is on the wire the session is shut, or can write no more.
QuietAfterFailure ==
  Refused =>
    \/ pc \in {"shut", "final_shutdown", "done"}
    \/ pc \in {"failed", "send_error"} /\ ~CanWrite

\* The two together are inductive.
FailureInv == FailureIsFinal /\ QuietAfterFailure

\* A message sent while nothing but good news was on the wire is the last
\* failure if it is one.
LEMMA FirstFailureIsLast ==
  ASSUME TypeOK, ~Refused, NEW m, out' = Append(out, m)
  PROVE  FailureIsFinal' /\ (Refused' => IsFailure(m))
<1>1. /\ out'[Len(out')] = m
      /\ \A i \in DOMAIN out : out'[i] = out[i]
      /\ \A i \in DOMAIN out' : i = Len(out') \/ i \in DOMAIN out
  BY Appended
<1>2. \A i \in DOMAIN out' : IsFailure(out'[i]) => i = Len(out') /\ IsFailure(m)
  BY <1>1 DEF Refused
<1>3. FailureIsFinal'
  BY <1>2 DEF FailureIsFinal, IsFailure
<1>4. Refused' => IsFailure(m)
  BY <1>2 DEF Refused, IsFailure
<1>5. QED BY <1>3, <1>4

\* A step that says nothing keeps the invariant if it stays among the quiet
\* places, or ends where nothing can be written.
LEMMA SilenceKeepsFailureInv ==
  ASSUME FailureInv, out' = out,
         Refused => \/ pc' \in {"shut", "final_shutdown", "done"}
                    \/ pc' \in {"failed", "send_error"} /\ ~CanWrite'
  PROVE  FailureInv'
  BY DEF FailureInv, FailureIsFinal, QuietAfterFailure, Refused, IsFailure

\* No step adds a word to a failure.
LEMMA NextFailure ==
  ASSUME TypeOK, FailureInv, [Next]_vars
  PROVE  FailureInv'
<1> USE SilenceKeepsFailureInv
<1>0. pc \in Negotiating \cup Serving => ~Refused
  BY DEF FailureInv, QuietAfterFailure, Negotiating, Serving
<1>1. CASE UNCHANGED sessionVars
  BY <1>1 DEF sessionVars, FailureInv, QuietAfterFailure, CanWrite
<1>2. CASE ClientLeaves
  BY <1>2 DEF ClientLeaves, FailureInv, QuietAfterFailure, CanWrite
<1>3. CASE \E e \in Moves : Moved(e[1], e[2])
  <2>1. pc \in Negotiating \cup Serving /\ out' = out
    BY <1>3 DEF Moved, Moves, Negotiating, Serving
  <2>2. QED BY <1>0, <2>1
<1>4. CASE \E p \in Negotiating \cup Serving : Broken(p)
  <2>1. pc \in Negotiating \cup Serving /\ out' = out
    BY <1>4 DEF Broken
  <2>2. QED BY <1>0, <2>1
<1>5. CASE \E w \in Writes : Wrote(w[1], w[2], w[3])
  <2>1. PICK w \in Writes : Wrote(w[1], w[2], w[3])
    BY <1>5
  <2>2. pc = w[1] /\ pc' = w[3] /\ out' = Append(out, w[2])
    BY <2>1 DEF Wrote
  <2>3. w[1] \in Negotiating \cup Serving
    BY DEF Writes, Negotiating, Serving
  <2>4. IsFailure(w[2]) => w[3] = "shut"
    BY DEF Writes, IsFailure, Method, Status, Reply, Data, Codes
  <2>5. FailureIsFinal' /\ (Refused' => IsFailure(w[2]))
    BY <1>0, <2>2, <2>3, FirstFailureIsLast
  <2>6. QED BY <2>2, <2>4, <2>5 DEF FailureInv, QuietAfterFailure
<1>6. CASE Special
  <2>1. CASE ReadMethods
    BY <1>0, <2>1 DEF ReadMethods, Negotiating
  <2>2. CASE ReadCredentials
    BY <1>0, <2>2 DEF ReadCredentials, Negotiating
  <2>3. CASE ReadRequest
    BY <1>0, <2>3 DEF ReadRequest, Negotiating
  <2>4. CASE HandshakeTimeout
    BY <1>0, <2>4 DEF HandshakeTimeout
  <2>5. CASE ShutThenFail
    BY <2>5 DEF ShutThenFail, Fail, CanWrite, clientVars
  <2>6. CASE RelayTargetEof
    BY <1>0, <2>6 DEF RelayTargetEof, Serving
  <2>7. CASE RelayOk
    BY <1>0, <2>7 DEF RelayOk, Serving
  <2>8. CASE ClassifyError
    BY <2>8 DEF ClassifyError, FailureInv, QuietAfterFailure, CanWrite, clientVars
  <2>9. CASE SendError
    <3>1. CASE CanWrite
      <4>1. ~Refused /\ out' = Append(out, Reply(CodeOf(err)))
        BY <2>9, <3>1 DEF SendError, FailureInv, QuietAfterFailure
      <4>2. FailureIsFinal'
        BY <4>1, FirstFailureIsLast
      <4>3. QED BY <2>9, <4>2 DEF SendError, FailureInv, QuietAfterFailure
    <3>2. CASE ~CanWrite
      BY <2>9, <3>2 DEF SendError
    <3>3. QED BY <3>1, <3>2
  <2>10. CASE FinalShutdown
    BY <2>10 DEF FinalShutdown
  <2>11. QED
    BY <1>6, <2>1, <2>2, <2>3, <2>4, <2>5, <2>6, <2>7, <2>8, <2>9, <2>10 DEF Special
<1>7. QED BY <1>1, <1>2, <1>3, <1>4, <1>5, <1>6, StepKinds

\* A refused method, a denied login or an error reply is the last thing a
\* client hears, however timeouts, resets and shutdowns fall: no second reply
\* follows it, and no service.
THEOREM FailureIsTheLastWord == Spec => []FailureIsFinal
<1>1. Init => FailureInv
  BY DEF Init, FailureInv, FailureIsFinal, QuietAfterFailure, Refused
<1>2. TypeOK /\ FailureInv /\ [Next]_vars => FailureInv'
  BY NextFailure
<1>3. FailureInv => FailureIsFinal
  BY DEF FailureInv
<1>4. QED BY <1>1, <1>2, <1>3, SessionTypeCorrect, PTL DEF Spec

-----------------------------------------------------------------------------
(* The accounts                                                            *)

\* As far as the counters go, a session is negotiating with a client that may
\* still be admitted, turning one away, serving, at the start of its error
\* path, past the counting of the error, or over.
Phase(p) ==
  CASE p \in Negotiating \ {"send_denied", "send_nomethods"} -> "asking"
    [] p \in {"send_denied", "send_nomethods", "shut"} -> "refusing"
    [] p \in Serving -> "serving"
    [] p = "failed" -> "failed"
    [] p \in {"send_error", "final_shutdown"} -> "answering"
    [] OTHER -> "done"

\* The counters, phase by phase: d disconnects, e errors, a failed
\* authentications, r requests, h handshake timeouts, y relays.
Accounts(ph, d, e, a, r, h, y) ==
  /\ ph \in {"asking", "refusing", "serving", "failed"} => d = 0 /\ e = 0
  /\ ph = "answering" => d + e = 1
  /\ d + e <= 1
  /\ ph = "asking" => a = 0
  /\ ph \in {"asking", "refusing"} => r = 0
  /\ ph = "serving" => r = 1 /\ a = 0
  /\ a + r <= 1
  /\ ph \in {"asking", "refusing", "serving"} => h = 0
  /\ ph # "done" => y = 0
  /\ h + y <= 1
  /\ ph \in {"answering", "done"} /\ h = 1 => e = 1
  /\ ph = "done" /\ r = 0 => d + e = 1

\* The counters fit the place, and a timeout is what it is reported as.
AccountsInv ==
  /\ Accounts(Phase(pc), stats["disconnects"], stats["errors"],
              stats["auth_failures"], stats["requests"],
              stats["handshake_timeouts"], stats["relays"])
  /\ pc = "failed" /\ stats["handshake_timeouts"] = 1 => err = "TtlExpired"

\* The phases that a step which counts nothing may lead from and to.
QuietPhases ==
  {<<"asking", "asking">>, <<"asking", "refusing">>, <<"asking", "failed">>,
   <<"refusing", "refusing">>, <<"refusing", "failed">>, <<"serving", "serving">>,
   <<"serving", "failed">>, <<"serving", "done">>, <<"answering", "answering">>,
   <<"answering", "done">>}

\* A step that counts nothing keeps the accounts.
LEMMA QuietStepKeepsAccounts ==
  ASSUME AccountsInv, stats' = stats, <<Phase(pc), Phase(pc')>> \in QuietPhases
  PROVE  AccountsInv'
<1> DEFINE A(p) == Accounts(Phase(p), stats["disconnects"], stats["errors"],
                            stats["auth_failures"], stats["requests"],
                            stats["handshake_timeouts"], stats["relays"])
<1>1. A(pc)
  BY DEF AccountsInv
<1>2. A(pc')
  BY <1>1 DEF Accounts, QuietPhases
<1>3. pc' = "failed" => stats["handshake_timeouts"] = 0
  BY <1>1 DEF Accounts, QuietPhases, Phase, Negotiating, Serving
<1>4. QED BY <1>2, <1>3 DEF AccountsInv

\* The counters of a session, and what one more does to them.
LEMMA Counted ==
  ASSUME TypeOK, NEW k \in Counters, Count(k)
  PROVE  \A x \in Counters : stats'[x] = IF x = k THEN stats[x] + 1 ELSE stats[x]
  BY DEF TypeOK, Count

\* Each outcome is counted once, at the one step that decides it.
LEMMA NextAccounts ==
  ASSUME TypeOK, AccountsInv, [Next]_vars
  PROVE  AccountsInv'
<1>0. \A k \in Counters : stats[k] \in Nat
  BY DEF TypeOK
<1>a. Accounts(Phase(pc), stats["disconnects"], stats["errors"],
               stats["auth_failures"], stats["requests"],
               stats["handshake_timeouts"], stats["relays"])
  BY DEF AccountsInv
<1>1. CASE UNCHANGED sessionVars
  BY <1>1 DEF sessionVars, AccountsInv, Accounts, Phase
<1>2. CASE ClientLeaves
  BY <1>2 DEF ClientLeaves, AccountsInv, Accounts, Phase
<1>3. CASE \E e \in Moves : Moved(e[1], e[2])
  <2>1. stats' = stats /\ <<Phase(pc), Phase(pc')>> \in QuietPhases
    BY <1>3 DEF Moved, Moves, Phase, QuietPhases, Negotiating, Serving
  <2>2. QED BY <2>1, QuietStepKeepsAccounts
<1>4. CASE \E p \in Negotiating \cup Serving : Broken(p)
  <2>1. stats' = stats /\ <<Phase(pc), Phase(pc')>> \in QuietPhases
    BY <1>4 DEF Broken, Phase, QuietPhases, Negotiating, Serving
  <2>2. QED BY <2>1, QuietStepKeepsAccounts
<1>5. CASE \E w \in Writes : Wrote(w[1], w[2], w[3])
  <2>1. PICK w \in Writes : Wrote(w[1], w[2], w[3])
    BY <1>5
  <2>2. <<Phase(w[1]), Phase(w[3])>> \in QuietPhases
    BY DEF Writes, Phase, QuietPhases, Negotiating, Serving
  <2>3. QED BY <2>1, <2>2, QuietStepKeepsAccounts DEF Wrote
<1>6. CASE Special
  <2>0. {"auth_failures", "handshake_timeouts", "disconnects", "errors", "requests",
         "relays"} \subseteq Counters
    BY DEF Counters
  <2>1. CASE ReadMethods
    <3>1. Phase(pc) = "asking"
      BY <2>1 DEF ReadMethods, Phase, Negotiating, Serving
    <3>2. CASE stats' = stats
      <4>1. Phase(pc') \in {"asking", "refusing"}
        BY <2>1 DEF ReadMethods, Preferred, Phase, Negotiating, Serving
      <4>2. QED BY <3>1, <3>2, <4>1, QuietStepKeepsAccounts DEF QuietPhases
    <3>3. CASE Count("auth_failures") /\ pc' = "send_nomethods"
      <4>1. Phase(pc') = "refusing"
        BY <3>3 DEF Phase, Negotiating, Serving
      <4>2. QED BY <1>0, <1>a, <2>0, <3>1, <3>3, <4>1, Counted DEF AccountsInv, Accounts
    <3>4. QED BY <2>1, <3>2, <3>3 DEF ReadMethods, Preferred
  <2>2. CASE ReadCredentials
    <3>1. Phase(pc) = "asking"
      BY <2>2 DEF ReadCredentials, Phase, Negotiating, Serving
    <3>2. CASE stats' = stats /\ pc' = "send_granted"
      <4>1. Phase(pc') = "asking"
        BY <3>2 DEF Phase, Negotiating, Serving
      <4>2. QED BY <3>1, <3>2, <4>1, QuietStepKeepsAccounts DEF QuietPhases
    <3>3. CASE Count("auth_failures") /\ pc' = "send_denied"
      <4>1. Phase(pc') = "refusing"
        BY <3>3 DEF Phase, Negotiating, Serving
      <4>2. QED BY <1>0, <1>a, <2>0, <3>1, <3>3, <4>1, Counted DEF AccountsInv, Accounts
    <3>4. QED BY <2>2, <3>2, <3>3 DEF ReadCredentials
  <2>3. CASE ReadRequest
    <3>1. Phase(pc) = "asking" /\ Phase(pc') = "serving" /\ Count("requests")
          /\ pc' # "failed"
      BY <2>3 DEF ReadRequest, Commands, Phase, Negotiating, Serving
    <3>2. QED BY <1>0, <1>a, <2>0, <3>1, Counted DEF AccountsInv, Accounts
  <2>4. CASE HandshakeTimeout
    <3>1. Phase(pc) \in {"asking", "refusing"}
      BY <2>4 DEF HandshakeTimeout, Phase, Negotiating, Serving
    <3>2. Phase(pc') = "failed" /\ err' = "TtlExpired" /\ Count("handshake_timeouts")
      BY <2>4 DEF HandshakeTimeout, Fail, Phase, Negotiating, Serving
    <3>3. QED BY <1>0, <1>a, <2>0, <3>1, <3>2, Counted DEF AccountsInv, Accounts
  <2>5. CASE ShutThenFail
    <3>1. stats' = stats /\ <<Phase(pc), Phase(pc')>> \in QuietPhases
      BY <2>5 DEF ShutThenFail, Fail, Phase, QuietPhases, Negotiating, Serving
    <3>2. QED BY <3>1, QuietStepKeepsAccounts
  <2>6. CASE RelayTargetEof
    <3>1. stats' = stats /\ <<Phase(pc), Phase(pc')>> \in QuietPhases
      BY <2>6 DEF RelayTargetEof, Phase, QuietPhases, Negotiating, Serving
    <3>2. QED BY <3>1, QuietStepKeepsAccounts
  <2>7. CASE RelayOk
    <3>1. Phase(pc) = "serving" /\ Phase(pc') = "done" /\ Count("relays")
          /\ pc' # "failed"
      BY <2>7 DEF RelayOk, Phase, Negotiating, Serving
    <3>2. QED BY <1>0, <1>a, <2>0, <3>1, Counted DEF AccountsInv, Accounts
  <2>8. CASE ClassifyError
    <3>1. Phase(pc) = "failed" /\ Phase(pc') = "answering" /\ pc = "failed"
          /\ pc' # "failed"
      BY <2>8 DEF ClassifyError, Phase, Negotiating, Serving
    <3>2. CASE err = "disconnect"
      <4>1. Count("disconnects") /\ stats["handshake_timeouts"] # 1
        BY <2>8, <3>1, <3>2 DEF ClassifyError, AccountsInv
      <4>2. QED BY <1>0, <1>a, <2>0, <3>1, <4>1, Counted DEF AccountsInv, Accounts
    <3>3. CASE err # "disconnect"
      <4>1. Count("errors")
        BY <2>8, <3>3 DEF ClassifyError
      <4>2. QED BY <1>0, <1>a, <2>0, <3>1, <4>1, Counted DEF AccountsInv, Accounts
    <3>4. QED BY <3>2, <3>3
  <2>9. CASE SendError
    <3>1. stats' = stats /\ <<Phase(pc), Phase(pc')>> \in QuietPhases
      BY <2>9 DEF SendError, Phase, QuietPhases, Negotiating, Serving
    <3>2. QED BY <3>1, QuietStepKeepsAccounts
  <2>10. CASE FinalShutdown
    <3>1. stats' = stats /\ <<Phase(pc), Phase(pc')>> \in QuietPhases
      BY <2>10 DEF FinalShutdown, Phase, QuietPhases, Negotiating, Serving
    <3>2. QED BY <3>1, QuietStepKeepsAccounts
  <2>11. QED
    BY <1>6, <2>1, <2>2, <2>3, <2>4, <2>5, <2>6, <2>7, <2>8, <2>9, <2>10 DEF Special
<1>7. QED BY <1>1, <1>2, <1>3, <1>4, <1>5, <1>6, StepKinds

\* The accounts hold in every reachable state.
LEMMA AccountsInvHolds == Spec => []AccountsInv
<1>1. Init => AccountsInv
  BY DEF Init, AccountsInv, Accounts, Counters, Phase, Negotiating, Serving
<1>2. TypeOK /\ AccountsInv /\ [Next]_vars => AccountsInv'
  BY NextAccounts
<1>3. QED BY <1>1, <1>2, SessionTypeCorrect, PTL DEF Spec

\* A session is counted once, as a disconnect, as an error or as neither, on
\* every path to its end: a timed-out handshake is always an error, whatever
\* became of the client, and a refused client never has a request.
THEOREM SessionsAreAccountedOnce == Spec => []AccountedOnce
<1>1. TypeOK /\ AccountsInv => AccountedOnce
  BY DEF TypeOK, Counters, AccountsInv, Accounts, AccountedOnce, Phase,
         Negotiating, Serving
<1>2. QED BY <1>1, AccountsInvHolds, SessionTypeCorrect, PTL

-----------------------------------------------------------------------------
(* The stalled client                                                      *)

\* The handshake timed out.
TimedOut == stats["handshake_timeouts"] = 1

\* From the timeout to the end: the write half is open as long as nothing was
\* shut, so that a client who is still there gets its reply, and only a denied
\* one is past replying.
StalledInv ==
  /\ pc \in Negotiating \cup {"shut"} => wopen
  /\ replied => stats["auth_failures"] = 1
  /\ TimedOut /\ pc \in {"failed", "send_error"} => err = "TtlExpired" /\ wopen
  /\ TimedOut /\ pc \in {"final_shutdown", "done"}
       /\ peer \in {"open", "eof"} /\ stats["auth_failures"] = 0 =>
       /\ out # << >> /\ out[Len(out)] = Reply("TtlExpired")
       /\ pc = "done" => ~wopen

\* Before the end of a session that has not timed out there is nothing to show.
LEMMA NotStalled ==
  ASSUME ~TimedOut', replied' => stats'["auth_failures"] = 1,
         pc' \in Negotiating \cup {"shut"} => wopen'
  PROVE  StalledInv'
  BY DEF StalledInv, TimedOut

\* A handshake times out only while it is under way.
LEMMA TimeoutsComeEarly ==
  ASSUME AccountsInv, TypeOK
  PROVE  pc \in Negotiating \cup Serving \cup {"shut"} =>
           stats["handshake_timeouts"] = 0
  BY DEF AccountsInv, Accounts, Phase, Negotiating, Serving

\* No step lets go of a stalled client without a word.
LEMMA NextStalled ==
  ASSUME TypeOK, AccountsInv, StalledInv, [Next]_vars
  PROVE  StalledInv'
<1>0. pc \in Negotiating \cup Serving \cup {"shut"} => ~TimedOut
  BY TimeoutsComeEarly DEF TimedOut
<1>1. CASE UNCHANGED sessionVars
  BY <1>1 DEF sessionVars, StalledInv, TimedOut
<1>2. CASE ClientLeaves
  BY <1>2 DEF ClientLeaves, StalledInv, TimedOut
<1>3. CASE \E e \in Moves : Moved(e[1], e[2])
  <2>1. /\ pc \in Negotiating \cup Serving
        /\ UNCHANGED <<stats, replied, wopen>>
        /\ pc' \in Negotiating \cup {"shut"} => pc \in Negotiating
    BY <1>3 DEF Moved, Moves, Negotiating, Serving
  <2>2. QED BY <1>0, <2>1, NotStalled DEF StalledInv, TimedOut
<1>4. CASE \E p \in Negotiating \cup Serving : Broken(p)
  <2>1. pc \in Negotiating \cup Serving /\ UNCHANGED <<stats, replied>> /\ pc' = "failed"
    BY <1>4 DEF Broken
  <2>2. pc' \notin Negotiating \cup {"shut"}
    BY <2>1 DEF Negotiating
  <2>3. QED BY <1>0, <2>1, <2>2, NotStalled DEF StalledInv, TimedOut
<1>5. CASE \E w \in Writes : Wrote(w[1], w[2], w[3])
  <2>1. PICK w \in Writes : Wrote(w[1], w[2], w[3])
    BY <1>5
  <2>2. /\ w[1] \in Negotiating \cup Serving
        /\ w[3] \in Negotiating \cup {"shut"} => w[1] \in Negotiating
    BY DEF Writes, Negotiating, Serving
  <2>3. QED BY <1>0, <2>1, <2>2, NotStalled DEF Wrote, StalledInv, TimedOut
<1>6. CASE Special
  <2>0. {"auth_failures", "handshake_timeouts", "disconnects", "errors", "requests",
         "relays"} \subseteq Counters
    BY DEF Counters
  <2>1. CASE ReadMethods
    <3>1. /\ pc \in Negotiating /\ UNCHANGED <<replied, wopen>>
          /\ stats'["handshake_timeouts"] = stats["handshake_timeouts"]
          /\ stats'["auth_failures"] \in {stats["auth_failures"], stats["auth_failures"] + 1}
      BY <2>0, <2>1, Counted DEF ReadMethods, Negotiating
    <3>2. stats["auth_failures"] = 0
      BY <2>1 DEF ReadMethods, AccountsInv, Accounts, Phase, Negotiating, Serving
    <3>3. QED BY <1>0, <3>1, <3>2, NotStalled DEF StalledInv, TimedOut
  <2>2. CASE ReadCredentials
    <3>1. stats["auth_failures"] = 0
      BY <2>2 DEF ReadCredentials, AccountsInv, Accounts, Phase, Negotiating, Serving
    <3>2. /\ pc \in Negotiating /\ wopen' = wopen
          /\ stats'["handshake_timeouts"] = stats["handshake_timeouts"]
          /\ \/ stats' = stats /\ replied' = replied
             \/ stats'["auth_failures"] = stats["auth_failures"] + 1
      BY <2>0, <2>2, Counted DEF ReadCredentials, Negotiating
    <3>3. QED BY <1>0, <3>1, <3>2, NotStalled DEF StalledInv, TimedOut
  <2>3. CASE ReadRequest
    <3>1. /\ pc \in Negotiating /\ UNCHANGED <<replied, wopen>>
          /\ stats'["handshake_timeouts"] = stats["handshake_timeouts"]
          /\ stats'["auth_failures"] = stats["auth_failures"]
      BY <2>0, <2>3, Counted DEF ReadRequest, Negotiating
    <3>2. QED BY <1>0, <3>1, NotStalled DEF StalledInv, TimedOut
  <2>4. CASE HandshakeTimeout
    <3>1. /\ pc \in Negotiating /\ pc' = "failed" /\ err' = "TtlExpired"
          /\ UNCHANGED <<replied, wopen>>
          /\ stats'["auth_failures"] = stats["auth_failures"]
      BY <2>0, <2>4, Counted DEF HandshakeTimeout, Fail
    <3>2. QED BY <3>1 DEF StalledInv, TimedOut, Negotiating
  <2>5. CASE ShutThenFail
    <3>1. pc = "shut" /\ pc' = "failed" /\ UNCHANGED <<stats, replied>>
      BY <2>5 DEF ShutThenFail, Fail
    <3>2. pc' \notin Negotiating \cup {"shut"}
      BY <3>1 DEF Negotiating
    <3>3. QED BY <1>0, <3>1, <3>2, NotStalled DEF StalledInv, TimedOut
  <2>6. CASE RelayTargetEof
    <3>1. pc = "relay" /\ pc' = "relay" /\ UNCHANGED <<stats, replied>>
      BY <2>6 DEF RelayTargetEof
    <3>2. pc \in Serving /\ pc' \notin Negotiating \cup {"shut"}
      BY <3>1 DEF Negotiating, Serving
    <3>3. QED BY <1>0, <3>1, <3>2, NotStalled DEF StalledInv, TimedOut
  <2>7. CASE RelayOk
    <3>1. /\ pc = "relay" /\ pc' = "done" /\ replied' = replied
          /\ stats'["handshake_timeouts"] = stats["handshake_timeouts"]
          /\ stats'["auth_failures"] = stats["auth_failures"]
      BY <2>0, <2>7, Counted DEF RelayOk
    <3>2. pc \in Serving /\ pc' \notin Negotiating \cup {"shut"}
      BY <3>1 DEF Negotiating, Serving
    <3>3. QED BY <1>0, <3>1, <3>2, NotStalled DEF StalledInv, TimedOut
  <2>8. CASE ClassifyError
    <3>1. /\ pc = "failed" /\ pc' = IF replied THEN "final_shutdown" ELSE "send_error"
          /\ UNCHANGED <<replied, err, wopen, peer, out>>
          /\ stats'["handshake_timeouts"] = stats["handshake_timeouts"]
          /\ stats'["auth_failures"] = stats["auth_failures"]
      BY <2>0, <2>8, Counted DEF ClassifyError, clientVars
    <3>2. QED BY <3>1 DEF StalledInv, TimedOut, Negotiating
  <2>9. CASE SendError
    <3>1. /\ pc = "send_error" /\ pc' = "final_shutdown"
          /\ out' = IF CanWrite THEN Append(out, Reply(CodeOf(err))) ELSE out
          /\ UNCHANGED <<replied, err, wopen, peer, stats>>
      BY <2>9 DEF SendError, clientVars
    <3>2. TimedOut /\ peer \in {"open", "eof"} =>
            out' # << >> /\ out'[Len(out')] = Reply("TtlExpired")
      <4> SUFFICES ASSUME TimedOut, peer \in {"open", "eof"}
                   PROVE  out' # << >> /\ out'[Len(out')] = Reply("TtlExpired")
        OBVIOUS
      <4>1. out' = Append(out, Reply("TtlExpired"))
        BY <3>1 DEF StalledInv, CanWrite, CodeOf, IoErrors
      <4>2. out' # << >>
        BY <4>1 DEF TypeOK
      <4>3. QED BY <4>1, <4>2, Appended
    <3>3. QED BY <3>1, <3>2 DEF StalledInv, TimedOut, Negotiating
  <2>10. CASE FinalShutdown
    <3>1. /\ pc = "final_shutdown" /\ pc' = "done"
          /\ wopen' = (wopen /\ peer \in {"reset", "dead"})
          /\ UNCHANGED <<replied, err, out, peer, stats>>
      BY <2>10 DEF FinalShutdown, clientVars
    <3>2. QED BY <3>1 DEF StalledInv, TimedOut, Negotiating
  <2>11. QED
    BY <1>6, <2>1, <2>2, <2>3, <2>4, <2>5, <2>6, <2>7, <2>8, <2>9, <2>10 DEF Special
<1>7. QED BY <1>1, <1>2, <1>3, <1>4, <1>5, <1>6, StepKinds

\* A client that stalls and is still there gets its TTL-expired reply and then
\* the end of the stream, wherever in the negotiation the budget ran out; the
\* one exception is a client that was just being denied.
THEOREM StalledClientsAreTold == Spec => []StalledClientIsTold
<1>1. Init => StalledInv
  BY DEF Init, StalledInv, TimedOut, Counters
<1>2. TypeOK /\ AccountsInv /\ StalledInv /\ [Next]_vars => StalledInv'
  BY NextStalled
<1>3. StalledInv => StalledClientIsTold
  BY DEF StalledInv, StalledClientIsTold, TimedOut
<1>4. QED BY <1>1, <1>2, <1>3, SessionTypeCorrect, AccountsInvHolds, PTL DEF Spec
=============================================================================
