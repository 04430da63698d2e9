------------------------------ MODULE Session ------------------------------
(***************************************************************************)
(* One client connection, as run_client drives it: negotiation under the   *)
(* handshake timeout (init, negotiate, auth, SOCKSReq::from_stream), the   *)
(* three commands (handle_request, handle_bind, handle_udp_associate), and *)
(* run_client's error path.  A place of pc is an await point; a step runs  *)
(* from one to the next.  What the client sends is a free choice at each   *)
(* read, and it may stop sending, reset or vanish at any time.             *)
(*                                                                         *)
(* The connection is a TCP stream: a write after shutdown fails with a     *)
(* broken pipe, a shutdown fails once the peer has reset.  All that is     *)
(* written before a relay fits the send buffer; relayed payload may fill   *)
(* it when the client does not read, and a write then waits.  Payload      *)
(* bytes are one message, and the relay is the outline of module Relay.    *)
(***************************************************************************)
EXTENDS Naturals, Sequences, FiniteSets

CONSTANT Configs   \* the auth_methods a server may be configured with

ASSUME ConfigsAssumption == Configs \subseteq SUBSET {"NoAuth", "UserPass"}

VARIABLES
  methods,   \* auth_methods of this server
  pc,        \* the await point run_client stands at
  peer,      \* the client: open, eof (half-closed), reset, dead (times out)
  wopen,     \* our write half is open
  full,      \* the send buffer is full: the client does not read
  ends,      \* the ends whose end of stream the relay has read
  out,       \* what the client was sent, as a sequence of messages
  err,       \* the MerinoError run_client is handling
  replied,   \* SOCKClient.replied
  command,   \* the command of the request
  credsOk,   \* the client presented a configured user (history)
  stats      \* the counters of Stats this connection has raised

vars == <<methods, pc, peer, wopen, full, ends, out, err, replied, command,
          credsOk, stats>>

\* What no step of the program changes but those of a relay.
clientVars == <<methods, peer, full, ends>>

-----------------------------------------------------------------------------
(* Messages and errors                                                     *)

Method(m) == <<"method", m>>        \* two bytes: the chosen method
Status(s) == <<"userpass", s>>      \* two bytes: the sub-negotiation result
Reply(code) == <<"reply", code>>    \* a SocksReply
Data == <<"data", "bytes">>         \* relayed payload

Commands == {"Connect", "Bind", "UdpAssosiate"}

\* MerinoError: an I/O error of a disconnect kind, any other I/O error, or a
\* ResponseCode.
IoErrors == {"disconnect", "io"}
Codes == {"Failure", "RuleFailure", "NetworkUnreachable", "HostUnreachable",
          "ConnectionRefused", "TtlExpired", "CommandNotSupported",
          "AddrTypeNotSupported"}

\* ResponseCode::from(MerinoError)
CodeOf(e) == IF e \in IoErrors THEN "Failure" ELSE e

\* The negotiation, all of it inside the handshake timeout; poll_shutdown
\* never waits, so the budget cannot run out at "shut".
Negotiating == {"header", "methods", "send_userpass", "creds", "send_granted",
                "send_denied", "send_noauth", "send_nomethods", "request"}

Serving == {"resolve", "connect", "send_success", "bind", "send_bound",
            "bind_accept", "send_peer", "relay", "udp_bind", "send_udp", "udp"}

Places == Negotiating \cup Serving
            \cup {"shut", "failed", "send_error", "final_shutdown", "done"}

Counters == {"auth_failures", "handshake_timeouts", "disconnects", "errors",
             "requests", "relays"}

Count(k) == stats' = [stats EXCEPT ![k] = @ + 1]

Fail(e) == pc' = "failed" /\ err' = e

-----------------------------------------------------------------------------
(* The client's end of the connection                                      *)

CanWrite == wopen /\ peer \in {"open", "eof"}

\* The error of a write: broken pipe after our shutdown, reset by the peer,
\* or a retransmission timeout.
WriteError == IF wopen /\ peer = "dead" THEN "io" ELSE "disconnect"

\* The error of a read_exact: unexpected end, reset, or a timeout.
ReadError == IF peer = "dead" THEN "io" ELSE "disconnect"

\* stream.write_all(msg).await? on the way from place p to place q
Send(p, msg, q) ==
  /\ pc = p
  /\ \/ /\ CanWrite
        /\ out' = Append(out, msg)
        /\ pc' = q
        /\ UNCHANGED err
     \/ /\ ~CanWrite
        /\ Fail(WriteError)
        /\ UNCHANGED out

Init ==
  /\ methods \in Configs
  /\ pc = "header"
  /\ peer = "open"
  /\ wopen = TRUE
  /\ full = FALSE
  /\ ends = {}
  /\ out = << >>
  /\ err = "io"
  /\ replied = FALSE
  /\ command = "none"
  /\ credsOk = FALSE
  /\ stats = [k \in Counters |-> 0]

\* The client half-closes, resets, or stops answering.
ClientLeaves ==
  /\ pc # "done"
  /\ \/ peer = "open" /\ peer' \in {"eof", "reset", "dead"}
     \/ peer = "eof" /\ peer' \in {"reset", "dead"}
  /\ UNCHANGED <<methods, pc, wopen, full, ends, out, err, replied, command,
                 credsOk, stats>>

\* The client reads, and there is room in the send buffer again.
ClientReads ==
  /\ pc # "done"
  /\ full /\ peer \in {"open", "eof"}
  /\ full' = FALSE
  /\ UNCHANGED <<methods, pc, peer, wopen, ends, out, err, replied, command,
                 credsOk, stats>>

-----------------------------------------------------------------------------
(* negotiate                                                               *)

\* A read of the negotiation fails: `?` hands the I/O error to run_client.
ReadFails ==
  /\ pc \in {"header", "methods", "creds", "request"}
  /\ peer # "open"
  /\ Fail(ReadError)
  /\ UNCHANGED <<clientVars, wopen, out, replied, command, credsOk, stats>>

\* Version and number of methods; another version shuts the stream first.
ReadHeader ==
  /\ pc = "header" /\ peer = "open"
  /\ pc' \in {"methods", "shut"}
  /\ UNCHANGED <<clientVars, wopen, out, err, replied, command, credsOk, stats>>

\* auth: username and password win over no-auth
Preferred(usable) ==
  IF "UserPass" \in usable THEN "send_userpass"
  ELSE IF "NoAuth" \in usable THEN "send_noauth"
  ELSE "send_nomethods"

\* get_avalible_methods, and the choice among them
ReadMethods ==
  /\ pc = "methods" /\ peer = "open"
  /\ \E offered \in SUBSET {"NoAuth", "UserPass"} :
       LET usable == offered \cap methods IN
         /\ pc' = Preferred(usable)
         /\ IF usable = {} THEN Count("auth_failures") ELSE UNCHANGED stats
  /\ UNCHANGED <<clientVars, wopen, out, err, replied, command, credsOk>>

SendUserPass ==
  /\ Send("send_userpass", Method("UserPass"), "creds")
  /\ UNCHANGED <<clientVars, wopen, replied, command, credsOk, stats>>

SendNoAuth ==
  /\ Send("send_noauth", Method("NoAuth"), "request")
  /\ UNCHANGED <<clientVars, wopen, replied, command, credsOk, stats>>

SendNoMethods ==
  /\ Send("send_nomethods", Method("NoMethods"), "shut")
  /\ UNCHANGED <<clientVars, wopen, replied, command, credsOk, stats>>

\* The sub-negotiation frame: a configured user, or one that is not (or a
\* frame of another version), which is counted and marked as answered before
\* the answer is written.
ReadCredentials ==
  /\ pc = "creds" /\ peer = "open"
  /\ \/ /\ credsOk' = TRUE
        /\ pc' = "send_granted"
        /\ UNCHANGED <<replied, stats>>
     \/ /\ pc' = "send_denied"
        /\ replied' = TRUE
        /\ Count("auth_failures")
        /\ UNCHANGED credsOk
  /\ UNCHANGED <<clientVars, wopen, out, err, command>>

SendGranted ==
  /\ Send("send_granted", Status("ok"), "request")
  /\ UNCHANGED <<clientVars, wopen, replied, command, credsOk, stats>>

\* MUTANT of SendDenied: the denied client is told so, and then its request
\* is read all the same.
SendDeniedThenServe ==
  /\ Send("send_denied", Status("failure"), "request")
  /\ UNCHANGED <<clientVars, wopen, replied, command, credsOk, stats>>

SendDenied ==
  /\ Send("send_denied", Status("failure"), "shut")
  /\ UNCHANGED <<clientVars, wopen, replied, command, credsOk, stats>>

\* MUTANT of ShutThenFail: the stream is left open.
FailWithoutShut ==
  /\ pc = "shut"
  /\ Fail("Failure")
  /\ UNCHANGED <<clientVars, wopen, out, replied, command, credsOk, stats>>

\* self.shutdown().await?, then Err(Failure)
ShutThenFail ==
  /\ pc = "shut"
  /\ \/ peer \in {"open", "eof"} /\ wopen' = FALSE /\ Fail("Failure")
     \/ peer \in {"reset", "dead"} /\ Fail("io") /\ UNCHANGED wopen
  /\ UNCHANGED <<clientVars, out, replied, command, credsOk, stats>>

\* The request is malformed, or asks for what is not supported.
RejectRequest ==
  /\ pc = "request" /\ peer = "open"
  /\ \E e \in {"Failure", "CommandNotSupported", "AddrTypeNotSupported"} : Fail(e)
  /\ UNCHANGED <<clientVars, wopen, out, replied, command, credsOk, stats>>

\* A request, handed from negotiate to handle_request: note_request, dispatch
ReadRequest ==
  /\ pc = "request" /\ peer = "open"
  /\ Count("requests")
  /\ command' \in Commands
  /\ pc' = CASE command' = "Connect" -> "resolve"
             [] command' = "Bind" -> "bind"
             [] command' = "UdpAssosiate" -> "udp_bind"
  /\ UNCHANGED <<clientVars, wopen, out, err, replied, credsOk>>

\* MUTANT of HandshakeTimeout: a stalled client counts as one that left.
HandshakeTimeoutAsDisconnect ==
  /\ pc \in Negotiating
  /\ Count("handshake_timeouts")
  /\ Fail("disconnect")
  /\ UNCHANGED <<clientVars, wopen, out, replied, command, credsOk>>

\* init: the handshake budget runs out at one of negotiate's awaits
HandshakeTimeout ==
  /\ pc \in Negotiating
  /\ Count("handshake_timeouts")
  /\ Fail("TtlExpired")
  /\ UNCHANGED <<clientVars, wopen, out, replied, command, credsOk>>

-----------------------------------------------------------------------------
(* handle_request, CONNECT                                                 *)

\* A step of a command that touches neither wire nor counters
Quietly == UNCHANGED <<clientVars, wopen, out, replied, command, credsOk, stats>>

\* addr_to_socket: resolved, a malformed address, or a name that fails.  It
\* runs under no timeout of this program.
Resolve ==
  /\ pc = "resolve"
  /\ \/ pc' = "connect" /\ UNCHANGED err
     \/ \E e \in {"io", "HostUnreachable"} : Fail(e)
  /\ Quietly

\* The errors connect_any leaves after connect_error: its I/O errors include
\* a target that resets, which has a disconnect kind.
ConnectErrors == {"ConnectionRefused", "NetworkUnreachable", "HostUnreachable"}
                   \cup IoErrors

\* timeout(connect_any(..)): connected, timed out, or failed
Connect ==
  /\ pc = "connect"
  /\ \/ pc' = "send_success" /\ UNCHANGED err
     \/ \E e \in ConnectErrors \cup {"TtlExpired"} : Fail(e)
  /\ Quietly

SendSuccess ==
  /\ Send("send_success", Reply("Success"), "relay")
  /\ UNCHANGED <<clientVars, wopen, replied, command, credsOk, stats>>

-----------------------------------------------------------------------------
(* handle_bind                                                             *)

BindListener ==
  /\ pc = "bind"
  /\ \/ pc' = "send_bound" /\ UNCHANGED err
     \/ Fail("io")
  /\ Quietly

\* First reply: the address the listener is bound to
SendBound ==
  /\ Send("send_bound", Reply("Success"), "bind_accept")
  /\ UNCHANGED <<clientVars, wopen, replied, command, credsOk, stats>>

\* MUTANT of BindAccept: no timeout.
BindAcceptUnbounded == pc = "bind_accept" /\ UNCHANGED vars

\* timeout(listener.accept()): the expected peer, another one, an error (an
\* aborted connection has a disconnect kind), or no one in time
BindAccept ==
  /\ pc = "bind_accept"
  /\ \/ pc' = "send_peer" /\ UNCHANGED err
     \/ \E e \in {"RuleFailure", "TtlExpired"} \cup IoErrors : Fail(e)
  /\ Quietly

\* Second reply: the address of the peer
SendPeer ==
  /\ Send("send_peer", Reply("Success"), "relay")
  /\ UNCHANGED <<clientVars, wopen, replied, command, credsOk, stats>>

-----------------------------------------------------------------------------
(* The relay of CONNECT and BIND, in outline                               *)

\* Payload from the target goes to the client, one message for all of it, and
\* may fill the send buffer.  While it is full the relay waits in write_all.
RelayData ==
  /\ pc = "relay" /\ "target" \notin ends
  /\ CanWrite /\ ~full
  /\ out' = IF out[Len(out)] = Data THEN out ELSE Append(out, Data)
  /\ full' \in BOOLEAN
  /\ UNCHANGED <<methods, peer, ends, pc, wopen, err, replied, command, credsOk, stats>>

\* The client's end of stream: a_open = false
RelayClientEof ==
  /\ pc = "relay" /\ "client" \notin ends
  /\ peer = "eof"
  /\ ends' = ends \cup {"client"}
  /\ UNCHANGED <<methods, peer, full, pc, wopen, out, err, replied, command, credsOk, stats>>

\* The target's end of stream is passed on with a.shutdown(), whose result is
\* ignored: b_open = false
RelayTargetEof ==
  /\ pc = "relay" /\ "target" \notin ends
  /\ ends' = ends \cup {"target"}
  /\ wopen' = (wopen /\ peer \in {"reset", "dead"})
  /\ UNCHANGED <<methods, peer, full, pc, out, err, replied, command, credsOk, stats>>

BothEnded == ends = {"client", "target"}

\* Both directions ended: note_relay, Ok
RelayOk ==
  /\ pc = "relay" /\ BothEnded
  /\ Count("relays")
  /\ pc' = "done"
  /\ UNCHANGED <<clientVars, wopen, out, err, replied, command, credsOk>>

\* A read or write of either socket failed: the target's at any time, the
\* client's once it is gone.
RelayFails ==
  /\ pc = "relay" /\ ~BothEnded
  /\ \E e \in IoErrors : Fail(e)
  /\ Quietly

\* NotConnected is taken for a relay that is over.
RelayNotConnected ==
  /\ pc = "relay" /\ ~BothEnded
  /\ pc' = "done"
  /\ UNCHANGED err
  /\ Quietly

-----------------------------------------------------------------------------
(* handle_udp_associate, as seen from the control connection               *)

BindUdp ==
  /\ pc = "udp_bind"
  /\ \/ pc' = "send_udp" /\ UNCHANGED err
     \/ Fail("io")
  /\ Quietly

SendUdp ==
  /\ Send("send_udp", Reply("Success"), "udp")
  /\ UNCHANGED <<clientVars, wopen, replied, command, credsOk, stats>>

\* The control connection ends or fails, or recv_from fails: Ok either way
UdpEnds ==
  /\ pc = "udp"
  /\ pc' = "done"
  /\ UNCHANGED err
  /\ Quietly

-----------------------------------------------------------------------------
(* run_client, when init failed                                            *)

\* Count the failure; answer it unless authentication already did.
ClassifyError ==
  /\ pc = "failed"
  /\ Count(IF err = "disconnect" THEN "disconnects" ELSE "errors")
  /\ pc' = IF replied THEN "final_shutdown" ELSE "send_error"
  /\ UNCHANGED <<clientVars, wopen, out, err, replied, command, credsOk>>

\* MUTANT of SendError: the error is not answered.
SendErrorSkipped ==
  /\ pc = "send_error"
  /\ pc' = "final_shutdown"
  /\ UNCHANGED <<clientVars, wopen, out, err, replied, command, credsOk, stats>>

\* SocksReply::new(code).send(..), a failure only logged.  It is awaited under
\* no timeout, behind whatever a relay has left in the send buffer.
SendError ==
  /\ pc = "send_error"
  /\ CanWrite => ~full
  /\ out' = IF CanWrite THEN Append(out, Reply(CodeOf(err))) ELSE out
  /\ pc' = "final_shutdown"
  /\ UNCHANGED <<clientVars, wopen, err, replied, command, credsOk, stats>>

\* client.shutdown(), a failure only logged; then the stream is dropped
FinalShutdown ==
  /\ pc = "final_shutdown"
  /\ wopen' = (wopen /\ peer \in {"reset", "dead"})
  /\ pc' = "done"
  /\ UNCHANGED <<clientVars, out, err, replied, command, credsOk, stats>>

-----------------------------------------------------------------------------
\* What the program does without the client's help: writes that fit the send
\* buffer, shutdowns, outbound work bounded by a timeout or by the resolver,
\* its error path.
ServerStep ==
  \/ ReadFails \/ SendUserPass \/ SendNoAuth \/ SendNoMethods \/ SendGranted
  \/ SendDenied \/ ShutThenFail \/ Resolve \/ Connect \/ SendSuccess
  \/ BindListener \/ SendBound \/ BindAccept \/ SendPeer \/ BindUdp \/ SendUdp
  \/ ClassifyError \/ SendError \/ FinalShutdown

ClientInput ==
  \/ ReadHeader \/ ReadMethods \/ ReadCredentials \/ RejectRequest \/ ReadRequest

RelayStep ==
  \/ RelayData \/ RelayClientEof \/ RelayTargetEof \/ RelayOk \/ RelayFails
  \/ RelayNotConnected \/ UdpEnds

\* The connection is over; run_client has returned.
Done == pc = "done" /\ UNCHANGED vars

Next ==
  \/ ClientLeaves \/ ClientReads \/ ClientInput \/ HandshakeTimeout \/ ServerStep
  \/ RelayStep \/ Done

Spec == Init /\ [][Next]_vars

\* The scheduler runs a ready task and the timer fires; the client owes the
\* server nothing, so no read and no relay step is fair.
Fairness == WF_vars(ServerStep) /\ WF_vars(HandshakeTimeout)

FairSpec == Spec /\ Fairness

-----------------------------------------------------------------------------
(* Properties                                                              *)

IsFailure(m) == m \in {Method("NoMethods"), Status("failure")} \cup {Reply(c) : c \in Codes}
IsErrorReply(m) == m \in {Reply(c) : c \in Codes}

Messages ==
  {Method(m) : m \in {"NoAuth", "UserPass", "NoMethods"}}
    \cup {Status(s) : s \in {"ok", "failure"}}
    \cup {Reply(c) : c \in Codes \cup {"Success"}} \cup {Data}

\* The state has the shape the code's types give it, and only codes of
\* ResponseCode go over the wire.
TypeOK ==
  /\ methods \in Configs
  /\ pc \in Places
  /\ peer \in {"open", "eof", "reset", "dead"}
  /\ wopen \in BOOLEAN
  /\ full \in BOOLEAN
  /\ ends \subseteq {"client", "target"}
  /\ out \in Seq(Messages)
  /\ err \in IoErrors \cup Codes
  /\ replied \in BOOLEAN
  /\ command \in Commands \cup {"none"}
  /\ credsOk \in BOOLEAN
  /\ stats \in [Counters -> Nat]

\* What the server's policy admits: either no-auth is configured and was the
\* method agreed on, or the client presented a configured user and was told so.
Admitted ==
  \/ "NoAuth" \in methods /\ Len(out) >= 1 /\ out[1] = Method("NoAuth")
  \/ /\ credsOk
     /\ "UserPass" \in methods /\ Len(out) >= 2
     /\ out[1] = Method("UserPass") /\ out[2] = Status("ok")

\* No request is served, counted or answered with success for a client that the
\* server's policy does not admit.
ServedOnlyIfAdmitted ==
  pc \in Serving \/ stats["requests"] > 0 \/ (\E i \in DOMAIN out : out[i] = Reply("Success"))
    => Admitted

\* A failure is the last thing the client is told: nothing follows a refused
\* method, a denied login or an error reply, on any interleaving of timeouts,
\* resets and shutdowns.
FailureIsFinal ==
  \A i \in DOMAIN out : IsFailure(out[i]) => i = Len(out)

\* When the session is over it has been counted once: it succeeded, or it was
\* one disconnect, or one error.  A handshake timeout is always an error, and
\* a client that failed authentication has no request.
AccountedOnce ==
  /\ stats["disconnects"] + stats["errors"] <= 1
  /\ stats["auth_failures"] + stats["requests"] <= 1
  /\ stats["handshake_timeouts"] + stats["relays"] <= 1
  /\ pc = "done" /\ stats["handshake_timeouts"] = 1 => stats["errors"] = 1
  /\ pc = "done" /\ stats["requests"] = 0 =>
       stats["disconnects"] + stats["errors"] = 1

\* init: "A stalled client is disconnected with a TTL expired reply", unless
\* it is gone, or it was being denied when the budget ran out.
StalledClientIsTold ==
  pc = "done" /\ stats["handshake_timeouts"] = 1
      /\ peer \in {"open", "eof"} /\ stats["auth_failures"] = 0
    => out # << >> /\ out[Len(out)] = Reply("TtlExpired") /\ ~wopen

\* Every client is relayed or let go: no session hangs between the two, whatever
\* the client does or leaves undone, but for one place.  The error reply after a
\* failed relay is awaited under no timeout (run_client), so a client that stays
\* connected and never again reads what was relayed keeps its session there.
EveryClientIsServedOrReleased ==
  \/ []<>(pc \in {"relay", "udp", "done"})
  \/ <>[](pc = "send_error" /\ full /\ CanWrite)

\* run_client: an error code is sent when the SOCKS negotiation fails, so
\* never into a stream that carries the target's bytes.
NoReplyIntoRelayedStream ==
  \A i, j \in DOMAIN out : out[i] = Data /\ i < j => ~IsErrorReply(out[j])
=============================================================================
