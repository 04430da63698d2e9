-------------------------------- MODULE Wire --------------------------------
(***************************************************************************)
(* The wire formats of lib.rs as operators on sequences of bytes: the pure *)
(* parsers of greeting, login, request and UDP header, the encoders of UDP *)
(* header and reply, and the credential check.  A parser returns what it   *)
(* read and the bytes that follow, or an error.                            *)
(***************************************************************************)
EXTENDS Integers, Sequences, FiniteSetsExt

SOCKS_VERSION == 5
RESERVED == 0

\* AddrType and SockCommand, by their bytes
V4 == 1
Domain == 3
V6 == 4
AddrTypes == {V4, Domain, V6}
SockCommands == 1..3
Connect == 1
UdpAssociate == 3

\* AuthMethods
NoAuth == 0
UserPass == 2

Ok(val, rest) == [ok |-> TRUE, val |-> val, rest |-> rest]
Err(code) == [ok |-> FALSE, err |-> code]
truncated == Err("UnexpectedEof")

\* The `?` operator: go on with what was read, or return the error.
Try(r, Then(_, _)) == IF r.ok THEN Then(r.val, r.rest) ELSE r

\* All but the first n bytes.
Skip(bytes, n) == SubSeq(bytes, n + 1, Len(bytes))

-----------------------------------------------------------------------------
(* The parsers                                                             *)

take(bytes, len) ==
  IF Len(bytes) < len THEN truncated
  ELSE Ok(SubSeq(bytes, 1, len), Skip(bytes, len))

take_addr(bytes, addr_type) ==
  CASE addr_type = V4     -> take(bytes, 4)
    [] addr_type = V6     -> take(bytes, 16)
    [] addr_type = Domain -> IF bytes = << >> THEN truncated
                             ELSE take(Tail(bytes), Head(bytes))

\* MUTANT of take_port: the bytes are taken in host order.
take_portSwapped(bytes) ==
  IF Len(bytes) < 2 THEN truncated
  ELSE Ok(bytes[2] * 256 + bytes[1], Skip(bytes, 2))

take_port(bytes) ==
  IF Len(bytes) < 2 THEN truncated
  ELSE Ok(bytes[1] * 256 + bytes[2], Skip(bytes, 2))

parse_greeting(bytes) ==
  IF Len(bytes) < 2 THEN truncated
  ELSE Try(take(Skip(bytes, 2), bytes[2]), LAMBDA methods, rest :
         Ok([version |-> bytes[1], methods |-> methods], rest))

parse_userpass(bytes) ==
  IF Len(bytes) < 2 THEN truncated
  ELSE Try(take(Skip(bytes, 2), bytes[2]), LAMBDA username, rest :
         IF rest = << >> THEN truncated
         ELSE Try(take(Tail(rest), Head(rest)), LAMBDA password, left :
                Ok([version |-> bytes[1], username |-> username,
                    password |-> password], left)))

\* Address and port, as requests and UDP headers end.
TakeTarget(bytes, addr_type, Build(_, _)) ==
  Try(take_addr(bytes, addr_type), LAMBDA addr, rest :
    Try(take_port(rest), LAMBDA port, left : Ok(Build(addr, port), left)))

parse_request(bytes) ==
  IF Len(bytes) < 4 THEN truncated
  ELSE IF bytes[2] \notin SockCommands THEN Err("CommandNotSupported")
  ELSE IF bytes[4] \notin AddrTypes THEN Err("AddrTypeNotSupported")
  ELSE TakeTarget(Skip(bytes, 4), bytes[4], LAMBDA addr, port :
         [version |-> bytes[1], command |-> bytes[2], addr_type |-> bytes[4],
          addr |-> addr, port |-> port])

parse_udp_header(bytes) ==
  IF Len(bytes) < 4 THEN truncated
  ELSE IF bytes[4] \notin AddrTypes THEN Err("AddrTypeNotSupported")
  ELSE TakeTarget(Skip(bytes, 4), bytes[4], LAMBDA addr, port :
         [frag |-> bytes[3], addr_type |-> bytes[4], addr |-> addr, port |-> port])

-----------------------------------------------------------------------------
(* The encoders.  A socket address is its octets and a port.               *)

ToBytes(port) == <<port \div 256, port % 256>>

AddrBlock(a) ==
  <<IF Len(a.ip) = 4 THEN V4 ELSE V6>> \o a.ip \o ToBytes(a.port)

encode_udp_header(a) == <<RESERVED, RESERVED, 0>> \o AddrBlock(a)

\* SocksReply::with_addr; SocksReply::new has the all-zero address
SocksReply(status, bound) == <<SOCKS_VERSION, status, RESERVED>> \o AddrBlock(bound)

Unbound == [ip |-> <<0, 0, 0, 0>>, port |-> 0]

-----------------------------------------------------------------------------
(* Credentials                                                             *)

\* MUTANT of credential_width: only the usernames are measured.
credential_widthOfNames(users) ==
  Max({0} \cup {Len(users[i].username) : i \in DOMAIN users})

\* The longest username or password.
credential_width(users) ==
  Max({0} \cup UNION {{Len(users[i].username), Len(users[i].password)} :
                        i \in DOMAIN users})

\* The i-th byte, or zero past the end.
ByteAt(a, i) == IF i <= Len(a) THEN a[i] ELSE 0

\* The lengths and the first width bytes, padded with zeros, are the same.
ct_eq(a, b, width) ==
  Len(a) = Len(b) /\ \A i \in 1..width : ByteAt(a, i) = ByteAt(b, i)

authed(users, username, password) ==
  LET width == credential_width(users) IN
    \E i \in DOMAIN users : /\ ct_eq(username, users[i].username, width)
                            /\ ct_eq(password, users[i].password, width)
=============================================================================
