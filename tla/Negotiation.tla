---------------------------- MODULE Negotiation ----------------------------
(***************************************************************************)
(* The negotiation at the level of bytes: SOCKClient::negotiate, auth and  *)
(* SOCKSReq::from_stream reading, field by field with read_exact, from a   *)
(* client whose bytes arrive one at a time and may end anywhere, and the   *)
(* framing of the datagrams of a UDP association.  What is answered and    *)
(* when is the business of Session; here it is which bytes are read, what  *)
(* they are taken for, and what is left for the relay.                     *)
(***************************************************************************)
EXTENDS Wire, SequencesExt

CONSTANTS
  Inputs,       \* byte streams a client may send
  AuthConfigs,  \* the sets of methods a server may be configured with
  Users,        \* its users
  Datagrams,    \* datagrams a client may send
  Sources,      \* addresses bound for it, and addresses that answer it
  None          \* nothing yet

Byte == 0..255
Port == 0..(256 * 256 - 1)

\* What is sent to the requester, to a target, or back to the client.
Message == [to : {"requester", "target", "client"}, addr : Seq(Byte), port : Port,
            payload : Seq(Byte)]

ASSUME NegotiationAssumption ==
  /\ \A c \in AuthConfigs : c \subseteq {NoAuth, UserPass}
  /\ Inputs \cup Datagrams \subseteq Seq(Byte)
  /\ Users \in Seq([username : Seq(Byte), password : Seq(Byte)])
  /\ Sources \subseteq [ip : Seq(Byte), port : Port]
  /\ \A s \in Sources : Len(s.ip) \in {4, 16}
  /\ None \notin Message

VARIABLES
  auth_methods,  \* the server's methods
  input,         \* what the client sends
  avail,         \* how many bytes of it have arrived
  fin,           \* the client has ended its stream
  pos,           \* how many bytes have been read
  pc,            \* the field being read
  frame,         \* the message being assembled
  greeting,      \* the greeting read
  login,         \* the login frame read
  granted,       \* what authed answered
  req,           \* the request
  err,           \* the error negotiate returned
  dgram,         \* the datagram received
  sent           \* the answer, then what became of the datagram

clientVars == <<auth_methods, input, avail, fin>>
udpVars == <<dgram, sent>>
readVars == <<pos, pc, frame, greeting, login, granted, req, err>>
vars == <<clientVars, readVars, udpVars>>

Init ==
  /\ auth_methods \in AuthConfigs
  /\ input \in Inputs
  /\ avail = 0 /\ fin = FALSE
  /\ pos = 0 /\ pc = "greeting" /\ frame = << >>
  /\ greeting = << >> /\ login = << >> /\ granted = FALSE
  /\ req = None /\ err = None
  /\ dgram = None /\ sent = None

-----------------------------------------------------------------------------
(* The client                                                              *)

Deliver ==
  /\ ~fin /\ avail < Len(input)
  /\ avail' = avail + 1
  /\ UNCHANGED <<auth_methods, input, fin, readVars, udpVars>>

\* Bytes that have not arrived by now never will.
CloseInput ==
  /\ ~fin
  /\ fin' = TRUE
  /\ UNCHANGED <<auth_methods, input, avail, readVars, udpVars>>

-----------------------------------------------------------------------------
(* read_exact                                                              *)

\* The size of the buffer that is being filled.
Need ==
  CASE pc \in {"greeting", "login", "port"} -> 2
    [] pc = "method"   -> 1
    [] pc = "username" -> frame[2]
    [] pc = "plen"     -> 1
    [] pc = "password" -> Last(frame)
    [] pc = "request"  -> 4
    [] pc = "addr4"    -> 4
    [] pc = "addr16"   -> 16
    [] pc = "dlen"     -> 1
    [] pc = "domain"   -> Last(frame)

Reading ==
  {"greeting", "method", "login", "username", "plen", "password", "request",
   "addr4", "addr16", "dlen", "domain", "port"}

\* read_exact succeeds on the next Need bytes.
Filled == pc \in Reading /\ avail - pos >= Need
Bytes == SubSeq(input, pos + 1, pos + Need)

Fail(code) == pc' = "failed" /\ err' = code

ReadEof ==
  /\ pc \in Reading /\ fin /\ avail - pos < Need
  /\ Fail("UnexpectedEof")
  /\ UNCHANGED <<pos, frame, greeting, login, granted, req, clientVars, udpVars>>

-----------------------------------------------------------------------------
(* negotiate and auth                                                      *)

\* The greeting's header; another version is turned away.
ReadGreeting ==
  /\ pc = "greeting" /\ Filled
  /\ pos' = pos + 2 /\ frame' = Bytes
  /\ IF Bytes[1] = SOCKS_VERSION
       THEN pc' = (IF Bytes[2] = 0 THEN "select" ELSE "method") /\ UNCHANGED err
       ELSE Fail("Failure")
  /\ UNCHANGED <<greeting, login, granted, req, clientVars, udpVars>>

\* MUTANT of ReadMethod: methods are read while there are any bytes.
ReadMethodGreedy ==
  /\ pc = "method" /\ Filled
  /\ pos' = pos + 1 /\ frame' = frame \o Bytes
  /\ pc' = IF Len(frame) + 1 >= frame[2] + 2 /\ avail - pos = 1
             THEN "select" ELSE "method"
  /\ UNCHANGED <<greeting, login, granted, req, err, clientVars, udpVars>>

\* get_avalible_methods: byte by byte
ReadMethod ==
  /\ pc = "method" /\ Filled
  /\ pos' = pos + 1 /\ frame' = frame \o Bytes
  /\ pc' = IF Len(frame) + 1 = frame[2] + 2 THEN "select" ELSE "method"
  /\ UNCHANGED <<greeting, login, granted, req, err, clientVars, udpVars>>

\* The methods of a greeting that the server has.
Available(offered) == ToSet(offered) \cap auth_methods

\* auth's choice: USERPASS before NOAUTH
SelectMethod ==
  /\ pc = "select"
  /\ greeting' = frame /\ frame' = << >>
  /\ LET methods == Available(Skip(frame, 2)) IN
       IF UserPass \in methods    THEN pc' = "login" /\ UNCHANGED err
       ELSE IF NoAuth \in methods THEN pc' = "request" /\ UNCHANGED err
       ELSE Fail("Failure")
  /\ UNCHANGED <<pos, login, granted, req, clientVars, udpVars>>

\* The field that follows in a login or a request.
Following ==
  CASE pc = "login"    -> "username"
    [] pc = "username" -> "plen"
    [] pc = "plen"     -> "password"
    [] pc = "password" -> "verdict"
    [] pc = "dlen"     -> "domain"
    [] pc \in {"addr4", "addr16", "domain"} -> "port"
    [] pc = "port"     -> "parse"

\* A field is read and appended to the frame.
ReadField ==
  /\ pc \in Reading \ {"greeting", "method", "request"} /\ Filled
  /\ pos' = pos + Need /\ frame' = frame \o Bytes
  /\ pc' = Following
  /\ UNCHANGED <<greeting, login, granted, req, err, clientVars, udpVars>>

\* The assembled login is parsed and checked.
Verdict ==
  /\ pc = "verdict"
  /\ LET parsed == parse_userpass(frame).val
         ok == parsed.version = 1 /\ authed(Users, parsed.username, parsed.password)
     IN /\ granted' = ok
        /\ IF ok THEN pc' = "request" /\ UNCHANGED err ELSE Fail("Failure")
  /\ login' = frame /\ frame' = << >>
  /\ UNCHANGED <<pos, greeting, req, clientVars, udpVars>>

-----------------------------------------------------------------------------
(* SOCKSReq::from_stream                                                   *)

\* The fixed header; what the server does not support is turned away before
\* the rest is read.
ReadRequest ==
  /\ pc = "request" /\ Filled
  /\ pos' = pos + 4 /\ frame' = Bytes
  /\ IF Bytes[1] # SOCKS_VERSION        THEN Fail("Failure")
     ELSE IF Bytes[2] \notin SockCommands THEN Fail("CommandNotSupported")
     ELSE IF Bytes[4] \notin AddrTypes    THEN Fail("AddrTypeNotSupported")
     ELSE /\ pc' = CASE Bytes[4] = V4     -> "addr4"
                     [] Bytes[4] = V6     -> "addr16"
                     [] Bytes[4] = Domain -> "dlen"
          /\ UNCHANGED err
  /\ UNCHANGED <<greeting, login, granted, req, clientVars, udpVars>>

\* The assembled request is parsed.
ParseRequest ==
  /\ pc = "parse"
  /\ LET parsed == parse_request(frame) IN
       IF parsed.ok THEN pc' = "ready" /\ req' = parsed.val /\ UNCHANGED err
                    ELSE Fail(parsed.err) /\ UNCHANGED req
  /\ UNCHANGED <<pos, frame, greeting, login, granted, clientVars, udpVars>>

-----------------------------------------------------------------------------
(* The answer, and the datagrams of handle_udp_associate                   *)

\* The success reply: CONNECT names no address, BIND and UDP ASSOCIATE theirs.
AnswerRequest(bound) ==
  /\ pc = "ready" /\ sent = None /\ dgram = None
  /\ LET shown == IF req.command = Connect THEN Unbound ELSE bound IN
       sent' = [to |-> "requester", addr |-> shown.ip, port |-> shown.port,
                payload |-> SocksReply(0, shown)]
  /\ UNCHANGED <<dgram, clientVars, readVars>>

Associated ==
  /\ pc = "ready" /\ req.command = UdpAssociate
  /\ sent # None /\ dgram = None

\* One of the client: the payload behind the header goes to the destination,
\* unless the header is malformed or the datagram a fragment.  (That a name
\* may not resolve is in UdpAssociate.)
ForwardDatagram(d) ==
  /\ Associated
  /\ dgram' = d
  /\ LET parsed == parse_udp_header(d) IN
       sent' = IF parsed.ok /\ parsed.val.frag = 0
                 THEN [to |-> "target", addr |-> parsed.val.addr,
                       port |-> parsed.val.port, payload |-> parsed.rest]
                 ELSE None
  /\ UNCHANGED <<clientVars, readVars>>

\* One of a destination, framed for the client.
ReturnDatagram(src, d) ==
  /\ Associated
  /\ dgram' = d
  /\ sent' = [to |-> "client", addr |-> src.ip, port |-> src.port,
              payload |-> encode_udp_header(src) \o d]
  /\ UNCHANGED <<clientVars, readVars>>

-----------------------------------------------------------------------------
ReaderStep ==
  \/ ReadEof \/ ReadGreeting \/ ReadMethod \/ SelectMethod \/ ReadField \/ Verdict
  \/ ReadRequest \/ ParseRequest

Next ==
  \/ Deliver \/ CloseInput \/ ReaderStep
  \/ \E bound \in Sources : AnswerRequest(bound)
  \/ \E d \in Datagrams : ForwardDatagram(d)
  \/ \E d \in Datagrams, src \in Sources : ReturnDatagram(src, d)

Spec == Init /\ [][Next]_vars

-----------------------------------------------------------------------------
(* Properties                                                              *)

\* The login frame of a user, and the frame of a request.
LoginFrame(u) ==
  <<1, Len(u.username)>> \o u.username \o <<Len(u.password)>> \o u.password
RequestFrame(r, rsv) ==
  <<SOCKS_VERSION, r.command, rsv, r.addr_type>>
    \o (IF r.addr_type = Domain THEN <<Len(r.addr)>> ELSE << >>)
    \o r.addr \o ToBytes(r.port)

\* What the slice parsers make of the same bytes, one after the other.
Parsed(bytes) ==
  LET Checked(version, expected, r) == IF version = expected THEN r ELSE Err("Failure")
      Request(b) ==
        IF Len(b) >= 4 /\ b[1] # SOCKS_VERSION THEN Err("Failure") ELSE parse_request(b)
  IN IF Len(bytes) >= 2 /\ bytes[1] # SOCKS_VERSION THEN Err("Failure") ELSE
     Try(parse_greeting(bytes), LAMBDA g, afterGreeting :
       LET methods == Available(g.methods) IN
       IF UserPass \in methods
       THEN Try(parse_userpass(afterGreeting), LAMBDA u, afterLogin :
              Checked(u.version, 1,
                IF authed(Users, u.username, u.password)
                  THEN Request(afterLogin) ELSE Err("Failure")))
       ELSE IF NoAuth \in methods THEN Request(afterGreeting)
       ELSE Err("Failure"))

\* from_stream: "Keeping the wire format in one place".  However the bytes
\* arrive, the stream readers reach the verdict the slice parsers reach on
\* what has arrived, later bytes do not change it, and what follows the
\* request is left for the relay to the byte.
ReadersAgree ==
  LET arrived == SubSeq(input, 1, avail) IN
    /\ pc = "ready" =>
         /\ Parsed(arrived) = Ok(req, SubSeq(input, pos + 1, avail))
         /\ Parsed(input) = Ok(req, Skip(input, pos))
         /\ SubSeq(input, 1, pos) = greeting \o login \o RequestFrame(req, frame[3])
    /\ pc = "failed" =>
         /\ Parsed(arrived) = Err(err)
         /\ err # "UnexpectedEof" => Parsed(input) = Err(err)

\* A login is granted exactly when it is, byte for byte, the frame of a
\* configured user: padding the comparison to a common width neither lets a
\* longer nor a different credential through.
CredentialsExact ==
  /\ login # << >> => granted = (\E i \in DOMAIN Users : login = LoginFrame(Users[i]))
  /\ pc \in {"request", "ready"} /\ NoAuth \notin auth_methods => granted

\* Where the header of a datagram ends, by its address type.
HeaderEnd(d) ==
  CASE d[4] = V4     -> 10
    [] d[4] = V6     -> 22
    [] d[4] = Domain -> IF Len(d) < 5 THEN 7 ELSE 7 + d[5]
WellFormed(d) ==
  Len(d) >= 4 /\ d[3] = 0 /\ d[4] \in AddrTypes /\ Len(d) >= HeaderEnd(d)

\* A destination receives exactly the payload of every well-formed datagram,
\* at the port the client wrote in network order, and nothing of any other;
\* the client can read back from what it is sent who answered, and what, as it
\* can the bound address from the reply to its request.
FramesAreFaithful ==
  /\ sent # None /\ sent.to = "requester" =>
       /\ SubSeq(sent.payload, 1, 3) = <<SOCKS_VERSION, 0, RESERVED>>
       /\ TakeTarget(Skip(sent.payload, 4), sent.payload[4], LAMBDA a, p : <<a, p>>)
            = Ok(<<sent.addr, sent.port>>, << >>)
  /\ dgram # None =>
       IF sent # None /\ sent.to = "client"
       THEN LET back == parse_udp_header(sent.payload) IN
              /\ back.ok /\ back.rest = dgram
              /\ back.val.frag = 0
              /\ back.val.addr = sent.addr /\ back.val.port = sent.port
       ELSE /\ (sent # None) = WellFormed(dgram)
            /\ sent # None =>
                 /\ sent.payload = Skip(dgram, HeaderEnd(dgram))
                 /\ SubSeq(dgram, 1, HeaderEnd(dgram)) =
                      SubSeq(dgram, 1, HeaderEnd(dgram) - Len(sent.addr) - 2)
                        \o sent.addr \o ToBytes(sent.port)
=============================================================================
