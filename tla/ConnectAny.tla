----------------------------- MODULE ConnectAny -----------------------------
(***************************************************************************)
(* The outbound connect of a CONNECT request: connect_any races one task   *)
(* per resolved address, each a fixed offset later than the one before,    *)
(* and collects their outcomes over a channel of capacity one, under the   *)
(* connect timeout of handle_request.                                      *)
(*                                                                         *)
(* What the network will do is drawn up front: an outcome and a latency    *)
(* per address.  Time is a counter that advances only when no task is      *)
(* ready to run: scheduling takes no time next to 250 ms.  The tasks run   *)
(* on several threads, so ready steps interleave freely, also with the     *)
(* expiry of the budget, and an abort takes effect some time after it was  *)
(* asked for.                                                              *)
(***************************************************************************)
EXTENDS Naturals, FiniteSets

CONSTANTS
  MaxAddrs,    \* bound: addresses in an answer
  Outcomes,    \* what may become of an attempt
  Latencies,   \* how long that may take
  Delay,       \* CONNECT_ATTEMPT_DELAY
  Budget,      \* the connect timeout
  None         \* an empty channel, no winner, no error

Kinds == {"ConnectionRefused", "NetworkUnreachable", "NetworkDown",
          "HostUnreachable", "AddrNotAvailable", "other"}

ASSUME ConnectAnyAssumption ==
  /\ MaxAddrs \in Nat
  /\ Outcomes \subseteq Kinds \cup {"ok", "hang"}
  /\ Latencies \subseteq Nat
  /\ Delay \in Nat \ {0} /\ Budget \in Nat \ {0}
  /\ None \notin Nat

VARIABLES
  script,     \* outcome and latency of each address
  now,        \* time since connect_any was called
  att,        \* the attempt tasks
  chan,       \* the outcome in the channel, by attempt
  pc,         \* recv, ending (locals being dropped) or settled
  lastError,  \* the attempt last_error came from
  winner,     \* the attempt whose stream is returned
  result,     \* what handle_request makes of it: Success or an error
  open        \* attempts whose socket is open

vars == <<script, now, att, chan, pc, lastError, winner, result, open>>

Addrs == DOMAIN script

\* MUTANT of Offset: each attempt sleeps after the one before has slept.
OffsetBackToBack(i) == Delay * ((i * (i - 1)) \div 2)

\* CONNECT_ATTEMPT_DELAY * index
Offset(i) == Delay * (i - 1)

\* connect_error
connect_error(kind) ==
  CASE kind = "ConnectionRefused" -> "ConnectionRefused"
    [] kind \in {"NetworkUnreachable", "NetworkDown"} -> "NetworkUnreachable"
    [] kind \in {"HostUnreachable", "AddrNotAvailable"} -> "HostUnreachable"
    [] OTHER -> "Io"

Init ==
  /\ \E n \in 0..MaxAddrs :
       script \in [1..n -> [outcome : Outcomes, latency : Latencies]]
  /\ now = 0
  /\ att = [i \in Addrs |-> [at |-> "sleeping", due |-> Offset(i)]]
  /\ chan = None
  /\ pc = "recv"
  /\ lastError = None
  /\ winner = None
  /\ result = "none"
  /\ open = {}

-----------------------------------------------------------------------------
(* An attempt                                                              *)

\* The sleep is over: TcpStream::connect opens a socket
StartConnect(i) ==
  /\ att[i].at = "sleeping" /\ now >= att[i].due
  /\ att' = [att EXCEPT ![i] =
       [at |-> "connecting", due |-> now + script[i].latency]]
  /\ open' = open \cup {i}
  /\ UNCHANGED <<script, now, chan, pc, lastError, winner, result>>

\* connect returned; a failed one leaves no socket.  A blackholed address
\* answers nothing.
FinishConnect(i) ==
  /\ att[i].at = "connecting" /\ now >= att[i].due
  /\ script[i].outcome # "hang"
  /\ att' = [att EXCEPT ![i].at = "sending"]
  /\ open' = IF script[i].outcome = "ok" THEN open ELSE open \ {i}
  /\ UNCHANGED <<script, now, chan, pc, lastError, winner, result>>

\* tx.send waits for room in the channel
SendOutcome(i) ==
  /\ att[i].at = "sending" /\ pc # "settled" /\ chan = None
  /\ chan' = i
  /\ att' = [att EXCEPT ![i].at = "sent"]
  /\ UNCHANGED <<script, now, pc, lastError, winner, result, open>>

\* MUTANT of SendClosed: the refused stream is kept somewhere.
SendClosedLeaks(i) ==
  /\ att[i].at = "sending" /\ pc = "settled"
  /\ att' = [att EXCEPT ![i].at = "gone"]
  /\ UNCHANGED <<script, now, chan, pc, lastError, winner, result, open>>

\* The receiver is gone: send gives the outcome back, and it is dropped
SendClosed(i) ==
  /\ att[i].at = "sending" /\ pc = "settled"
  /\ att' = [att EXCEPT ![i].at = "gone"]
  /\ open' = open \ {i}
  /\ UNCHANGED <<script, now, chan, pc, lastError, winner, result>>

\* abort_all, or the JoinSet's drop, reaches a task at one of its awaits
Abort(i) ==
  /\ pc # "recv"
  /\ att[i].at \in {"sleeping", "connecting", "sending"}
  /\ att' = [att EXCEPT ![i].at = "gone"]
  /\ open' = open \ {i}
  /\ UNCHANGED <<script, now, chan, pc, lastError, winner, result>>

-----------------------------------------------------------------------------
(* The receiving loop                                                      *)

\* Some(Ok(stream)): the race is decided
RecvOk ==
  /\ pc = "recv" /\ chan # None /\ script[chan].outcome = "ok"
  /\ winner' = chan /\ chan' = None
  /\ result' = "Success"
  /\ pc' = "ending"
  /\ UNCHANGED <<script, now, att, lastError, open>>

\* MUTANT of RecvErr: the first error is kept.
RecvErrKeepsFirst ==
  /\ pc = "recv" /\ chan # None /\ script[chan].outcome # "ok"
  /\ lastError' = IF lastError = None THEN chan ELSE lastError
  /\ chan' = None
  /\ UNCHANGED <<script, now, att, pc, winner, result, open>>

\* Some(Err(error)): remember it and go on
RecvErr ==
  /\ pc = "recv" /\ chan # None /\ script[chan].outcome # "ok"
  /\ lastError' = chan /\ chan' = None
  /\ UNCHANGED <<script, now, att, pc, winner, result, open>>

\* MUTANT of ChannelClosed: the sender of the enclosing scope is not dropped.
ChannelClosedNever == FALSE

\* Every sender is gone, the one of the enclosing scope included
ChannelClosed == chan = None /\ \A i \in Addrs : att[i].at = "sent"

\* None: the last error, or AddrNotAvailable for an empty list
RecvNone ==
  /\ pc = "recv" /\ ChannelClosed
  /\ result' = connect_error(IF lastError = None THEN "AddrNotAvailable"
                             ELSE script[lastError].outcome)
  /\ pc' = "ending"
  /\ UNCHANGED <<script, now, att, chan, lastError, winner, open>>

\* MUTANT of Timeout: no budget.
TimeoutNever == pc = "recv" /\ now >= Budget /\ UNCHANGED vars

\* timeout(..) elapses and drops the future: connect_timeout_error
Timeout ==
  /\ pc = "recv" /\ now >= Budget
  /\ result' = "TtlExpired"
  /\ pc' = "ending"
  /\ UNCHANGED <<script, now, att, chan, lastError, winner, open>>

\* The locals are dropped: the channel with an outcome that came too late
DropLocals ==
  /\ pc = "ending"
  /\ chan' = None
  /\ open' = open \ {chan}
  /\ pc' = "settled"
  /\ UNCHANGED <<script, now, att, lastError, winner, result>>

-----------------------------------------------------------------------------
\* Some task could run now.
Busy ==
  \/ chan # None \/ ChannelClosed
  \/ \E i \in Addrs :
       \/ att[i].at = "sleeping" /\ now >= att[i].due
       \/ /\ att[i].at = "connecting" /\ now >= att[i].due
          /\ script[i].outcome # "hang"
       \/ att[i].at = "sending"

Tick ==
  /\ pc = "recv" /\ now < Budget /\ ~Busy
  /\ now' = now + 1
  /\ UNCHANGED <<script, att, chan, pc, lastError, winner, result, open>>

\* Nothing is left to run.
Idle ==
  /\ pc = "settled" /\ \A i \in Addrs : att[i].at \in {"sent", "gone"}
  /\ UNCHANGED vars

AttemptStep(i) ==
  \/ StartConnect(i) \/ FinishConnect(i) \/ SendOutcome(i) \/ SendClosed(i)
  \/ Abort(i)

LoopStep == RecvOk \/ RecvErr \/ RecvNone \/ Timeout \/ DropLocals

Next == (\E i \in Addrs : AttemptStep(i)) \/ LoopStep \/ Tick \/ Idle

Spec == Init /\ [][Next]_vars

\* Ready tasks run and the clock advances.
Fairness ==
  /\ WF_vars(LoopStep) /\ WF_vars(Tick)
  /\ \A i \in 1..MaxAddrs : WF_vars(i \in Addrs /\ AttemptStep(i))

FairSpec == Spec /\ Fairness

-----------------------------------------------------------------------------
(* Properties                                                              *)

\* The state has the shape the code's types give it.
TypeOK ==
  /\ script \in [Addrs -> [outcome : Outcomes, latency : Latencies]]
  /\ now \in 0..Budget
  /\ att \in [Addrs -> [at : {"sleeping", "connecting", "sending", "sent", "gone"},
                        due : Nat]]
  /\ chan \in Addrs \cup {None}
  /\ pc \in {"recv", "ending", "settled"}
  /\ lastError \in Addrs \cup {None} /\ winner \in Addrs \cup {None}
  /\ result \in {"none", "Success", "ConnectionRefused", "NetworkUnreachable",
                 "HostUnreachable", "Io", "TtlExpired"}
  /\ open \subseteq Addrs

Finished == pc # "recv"

\* When an attempt that starts 250 ms after the one before it is answered.
AnsweredAt(i) == Delay * (i - 1) + script[i].latency
Reachable == {i \in Addrs : script[i].outcome = "ok"}
Answering == {i \in Addrs : script[i].outcome # "hang"}

\* "Racing the remaining addresses lets a reachable path win while the broken
\* one is still retrying": the budget runs out only if no address accepts
\* within it and not every address has failed within it.
TimeoutOnlyIfUndecided ==
  Finished /\ result = "TtlExpired" =>
    /\ \A i \in Reachable : AnsweredAt(i) >= Budget
    /\ \E i \in Addrs : i \in Answering => AnsweredAt(i) >= Budget

\* "The first successful connection wins": no other address accepted earlier
\* than the one that is returned.
FastestWins ==
  Finished /\ result = "Success" =>
    /\ winner \in Reachable
    /\ \A i \in Reachable : AnsweredAt(winner) <= AnsweredAt(i)

\* "When every attempt fails, the last observed error is returned": a failure
\* means that every address failed, and the client gets the code of one that
\* failed last.
FailureIsTheLatest ==
  Finished /\ result \notin {"Success", "TtlExpired"} =>
    /\ \A i \in Addrs : script[i].outcome \notin {"ok", "hang"}
    /\ Addrs # {} => \E i \in Addrs :
         /\ result = connect_error(script[i].outcome)
         /\ \A j \in Addrs : AnsweredAt(j) <= AnsweredAt(i)

\* No outcome leaks a socket: when the tasks are gone, the winner's is the
\* only one open, however the losers' successes raced with the abort.
OnlyTheWinnerSurvives ==
  pc = "settled" /\ (\A i \in Addrs : att[i].at \in {"sent", "gone"})
    => open = {winner} \ {None}

\* Every call settles, and no attempt outlives it for good.
Settles ==
  <>(pc = "settled" /\ \A i \in Addrs : att[i].at \in {"sent", "gone"})
=============================================================================
