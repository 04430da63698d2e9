-------------------------- MODULE ConnectAnyProofs --------------------------
(***************************************************************************)
(* Proofs about the outbound connect race, for any number of addresses,    *)
(* any outcomes and latencies, any attempt delay and any budget.           *)
(***************************************************************************)
EXTENDS ConnectAny, TLAPS

-----------------------------------------------------------------------------
(* The invariant.                                                          *)

\* Addresses are numbered from one.
Indexed == Addrs \subseteq Nat \ {0}

\* The task has its outcome ready, or handed over; the loop has taken it.
Handed(i) == att[i].at \in {"sending", "sent"}
Received(i) == att[i].at = "sent" /\ chan # i

\* The channel and the winner hold outcomes of attempts that have sent them,
\* never the same one; a blackholed address answers nothing; a receiver that is
\* gone left no outcome behind.
Handover ==
  /\ chan # None => att[chan].at = "sent"
  /\ winner # None => /\ Received(winner) /\ winner \in open
                      /\ script[winner].outcome = "ok"
  /\ lastError # None => Received(lastError)
  /\ pc = "settled" => chan = None
  /\ \A i \in Addrs : Handed(i) => script[i].outcome # "hang"

\* A socket is open while its attempt connects or holds an accepted stream;
\* once that is sent, it is in the channel or it is the winner's.
SocketsOwned ==
  /\ \A i \in open :
       /\ att[i].at \in {"connecting", "sending", "sent"}
       /\ Handed(i) => script[i].outcome = "ok"
       /\ att[i].at = "sent" => i \in {chan, winner}
  /\ \A i \in Addrs :
       /\ att[i].at = "connecting" => i \in open
       /\ script[i].outcome = "ok" /\ (att[i].at = "sending" \/ chan = i) => i \in open

\* No attempt is late: the clock waits for whoever is ready, so attempt i wakes
\* at its offset, is answered at AnsweredAt(i), and its outcome reaches the
\* channel at that time.
OnTime ==
  \A i \in Addrs :
    /\ att[i].at = "sleeping" => att[i].due = Offset(i) /\ now <= Offset(i)
    /\ att[i].at = "connecting" =>
         /\ att[i].due = AnsweredAt(i)
         /\ script[i].outcome # "hang" => now <= AnsweredAt(i)
    /\ att[i].at = "sending" => now = AnsweredAt(i)
    /\ att[i].at = "sent" => AnsweredAt(i) <= now
    /\ chan = i => now = AnsweredAt(i)

\* While the loop receives, nobody has been aborted, every outcome received was
\* an error, and last_error is the latest of them; if it is the last there can
\* be, no time has passed since.
LoopSoFar ==
  pc = "recv" =>
    /\ winner = None
    /\ \A i \in Addrs : att[i].at # "gone"
    /\ \A i \in Addrs : Received(i) =>
         /\ script[i].outcome # "ok"
         /\ lastError # None /\ AnsweredAt(i) <= AnsweredAt(lastError)
    /\ ChannelClosed => IF lastError = None THEN now = 0
                                            ELSE AnsweredAt(lastError) = now

\* The inductive invariant
RaceInv ==
  /\ TypeOK /\ Indexed /\ Handover /\ SocketsOwned /\ OnTime /\ LoopSoFar
  /\ TimeoutOnlyIfUndecided /\ FastestWins /\ FailureIsTheLatest

-----------------------------------------------------------------------------
(* Times.                                                                  *)

\* An attempt wakes and is answered at a moment, the one its latency after
\* the other.
LEMMA Times ==
  ASSUME TypeOK, Indexed, NEW i \in Addrs
  PROVE  /\ Offset(i) \in Nat /\ script[i].latency \in Nat /\ AnsweredAt(i) \in Nat
         /\ AnsweredAt(i) = Offset(i) + script[i].latency
<1>1. script[i].latency \in Nat
  BY ConnectAnyAssumption DEF TypeOK
<1>2. i - 1 \in Nat
  BY DEF Indexed
<1>3. Offset(i) \in Nat
  BY <1>2, ConnectAnyAssumption DEF Offset
<1>4. AnsweredAt(i) = Offset(i) + script[i].latency
  BY DEF AnsweredAt, Offset
<1>5. QED BY <1>1, <1>3, <1>4

\* The network's script never changes, and with it when attempts are answered.
LEMMA TimesStay ==
  ASSUME UNCHANGED script
  PROVE  /\ Addrs' = Addrs /\ \A i : AnsweredAt(i)' = AnsweredAt(i)
         /\ Reachable' = Reachable /\ Answering' = Answering
  BY DEF Addrs, AnsweredAt, Reachable, Answering

\* None is not an address.
LEMMA NoneIsNoAddress == ASSUME Indexed PROVE None \notin Addrs
  BY ConnectAnyAssumption DEF Indexed

\* What was decided stays decided.
LEMMA DecidedStays ==
  ASSUME TimeoutOnlyIfUndecided, FastestWins, FailureIsTheLatest,
         UNCHANGED <<script, result, winner>>, pc' = "recv" \/ pc # "recv"
  PROVE  TimeoutOnlyIfUndecided' /\ FastestWins' /\ FailureIsTheLatest'
<1>1. CASE pc' = "recv"
  BY <1>1 DEF TimeoutOnlyIfUndecided, FastestWins, FailureIsTheLatest, Finished
<1>2. CASE pc # "recv" /\ pc' # "recv"
  BY <1>2, TimesStay
     DEF TimeoutOnlyIfUndecided, FastestWins, FailureIsTheLatest, Finished
<1>3. QED BY <1>1, <1>2

-----------------------------------------------------------------------------
(* The invariant is inductive.                                             *)

\* The call begins: every task sleeps.
LEMMA InitRaceInv == Init => RaceInv
<1> SUFFICES ASSUME Init PROVE RaceInv
  OBVIOUS
<1>1. PICK n \in 0..MaxAddrs :
        script \in [1..n -> [outcome : Outcomes, latency : Latencies]]
  BY DEF Init
<1>2. Addrs = 1..n /\ Indexed
  BY <1>1, ConnectAnyAssumption DEF Addrs, Indexed
<1>3. \A i \in Addrs : Offset(i) \in Nat
  <2> SUFFICES ASSUME NEW i \in Addrs PROVE Offset(i) \in Nat
    OBVIOUS
  <2>1. i - 1 \in Nat
    BY <1>2 DEF Indexed
  <2>2. QED BY <2>1, ConnectAnyAssumption DEF Offset
<1>4. TypeOK
  <2>1. script \in [Addrs -> [outcome : Outcomes, latency : Latencies]]
    BY <1>1, <1>2
  <2>2. att \in [Addrs -> [at : {"sleeping", "connecting", "sending", "sent", "gone"},
                           due : Nat]]
    BY <1>3 DEF Init
  <2>3. QED BY <2>1, <2>2, ConnectAnyAssumption DEF Init, TypeOK
<1>5. \A i \in Addrs : att[i].at = "sleeping" /\ att[i].due = Offset(i)
  BY DEF Init
<1>6. Handover /\ SocketsOwned
  BY <1>2, <1>5, NoneIsNoAddress DEF Init, Handover, SocketsOwned, Handed
<1>7. OnTime
  BY <1>2, <1>3, <1>5, NoneIsNoAddress DEF Init, OnTime
<1>8. LoopSoFar
  BY <1>5 DEF Init, LoopSoFar, Received
<1>9. TimeoutOnlyIfUndecided /\ FastestWins /\ FailureIsTheLatest
  BY DEF Init, TimeoutOnlyIfUndecided, FastestWins, FailureIsTheLatest, Finished
<1>10. QED BY <1>2, <1>4, <1>6, <1>7, <1>8, <1>9 DEF RaceInv

\* A task that wakes, connects, sends or is aborted keeps the invariant.
LEMMA AttemptKeepsInv ==
  ASSUME RaceInv, NEW i \in Addrs, AttemptStep(i)
  PROVE  RaceInv'
<1> USE DEF RaceInv
<1>0. UNCHANGED <<script, now, pc, lastError, winner, result>>
  BY DEF AttemptStep, StartConnect, FinishConnect, SendOutcome, SendClosed, Abort
<1>1. Indexed' /\ TimeoutOnlyIfUndecided' /\ FastestWins' /\ FailureIsTheLatest'
  BY <1>0, DecidedStays DEF Indexed, Addrs
<1>2. /\ Addrs' = Addrs /\ \A j : AnsweredAt(j)' = AnsweredAt(j)
      /\ \A j : Offset(j)' = Offset(j)
  BY <1>0, TimesStay DEF Offset
<1>3. None \notin Addrs /\ now \in Nat
  BY NoneIsNoAddress, ConnectAnyAssumption DEF TypeOK
<1>4. CASE StartConnect(i)
  <2>1. /\ att[i].at = "sleeping" /\ now >= att[i].due
        /\ att' = [att EXCEPT ![i] =
             [at |-> "connecting", due |-> now + script[i].latency]]
        /\ open' = open \cup {i} /\ UNCHANGED chan
    BY <1>4 DEF StartConnect
  <2>2. att[i].due = Offset(i) /\ now = Offset(i)
    BY <1>3, <2>1, Times DEF OnTime
  <2>3. /\ \A j \in Addrs : j # i => att'[j] = att[j]
        /\ att'[i].at = "connecting" /\ att'[i].due = AnsweredAt(i)
        /\ now <= AnsweredAt(i)
    BY <2>1, <2>2, Times DEF TypeOK
  <2>4. TypeOK'
    BY <1>0, <1>2, <2>1, <2>2, Times DEF TypeOK
  <2>5. Handover'
    BY <1>0, <1>2, <2>1, <2>3 DEF Handover, Handed, Received, TypeOK
  <2>6. SocketsOwned'
    BY <1>0, <1>2, <1>3, <2>1, <2>3 DEF SocketsOwned, Handed, Handover, TypeOK
  <2>7. OnTime'
    BY <1>0, <1>2, <2>1, <2>3 DEF OnTime, Handover
  <2>8. LoopSoFar'
    BY <1>0, <1>2, <1>3, <2>1, <2>3 DEF LoopSoFar, Received, ChannelClosed
  <2>9. QED BY <1>1, <2>4, <2>5, <2>6, <2>7, <2>8
<1>5. CASE FinishConnect(i)
  <2>1. /\ att[i].at = "connecting" /\ now >= att[i].due
        /\ script[i].outcome # "hang"
        /\ att' = [att EXCEPT ![i].at = "sending"]
        /\ open' = IF script[i].outcome = "ok" THEN open ELSE open \ {i}
        /\ UNCHANGED chan
    BY <1>5 DEF FinishConnect
  <2>2. now = AnsweredAt(i)
    BY <1>3, <2>1, Times DEF OnTime
  <2>3. /\ \A j \in Addrs : j # i => att'[j] = att[j]
        /\ att'[i].at = "sending"
    BY <2>1 DEF TypeOK
  <2>4. TypeOK'
    BY <1>0, <1>2, <2>1 DEF TypeOK
  <2>5. Handover'
    BY <1>0, <1>2, <2>1, <2>3 DEF Handover, Handed, Received, TypeOK
  <2>6. SocketsOwned'
    BY <1>0, <1>2, <1>3, <2>1, <2>3 DEF SocketsOwned, Handed, Handover, TypeOK
  <2>7. OnTime'
    BY <1>0, <1>2, <2>1, <2>2, <2>3 DEF OnTime
  <2>8. LoopSoFar'
    BY <1>0, <1>2, <1>3, <2>1, <2>3 DEF LoopSoFar, Received, ChannelClosed
  <2>9. QED BY <1>1, <2>4, <2>5, <2>6, <2>7, <2>8
<1>6. CASE SendOutcome(i)
  <2>1. /\ att[i].at = "sending" /\ pc # "settled" /\ chan = None /\ chan' = i
        /\ att' = [att EXCEPT ![i].at = "sent"] /\ UNCHANGED open
    BY <1>6 DEF SendOutcome
  <2>2. now = AnsweredAt(i)
    BY <2>1 DEF OnTime
  <2>3. /\ \A j \in Addrs : j # i => att'[j] = att[j]
        /\ att'[i].at = "sent"
    BY <2>1 DEF TypeOK
  <2>4. TypeOK'
    BY <1>0, <1>2, <2>1 DEF TypeOK
  <2>5. Handover'
    BY <1>0, <1>2, <1>3, <2>1, <2>3 DEF Handover, Handed, Received, TypeOK
  <2>6. SocketsOwned'
    BY <1>0, <1>2, <1>3, <2>1, <2>3 DEF SocketsOwned, Handed, Handover, TypeOK
  <2>7. OnTime'
    BY <1>0, <1>2, <1>3, <2>1, <2>2, <2>3 DEF OnTime
  <2>8. LoopSoFar'
    BY <1>0, <1>2, <1>3, <2>1, <2>3 DEF LoopSoFar, Received, ChannelClosed
  <2>9. QED BY <1>1, <2>4, <2>5, <2>6, <2>7, <2>8
<1>7. CASE SendClosed(i) \/ Abort(i)
  <2>1. /\ att[i].at \in {"sleeping", "connecting", "sending"} /\ pc # "recv"
        /\ att' = [att EXCEPT ![i].at = "gone"]
        /\ open' = open \ {i} /\ UNCHANGED chan
    BY <1>7 DEF SendClosed, Abort
  <2>2. /\ \A j \in Addrs : j # i => att'[j] = att[j]
        /\ att'[i].at = "gone"
    BY <2>1 DEF TypeOK
  <2>3. TypeOK'
    BY <1>0, <1>2, <2>1 DEF TypeOK
  <2>4. Handover'
    BY <1>0, <1>2, <2>1, <2>2 DEF Handover, Handed, Received, TypeOK
  <2>5. SocketsOwned'
    BY <1>0, <1>2, <1>3, <2>1, <2>2 DEF SocketsOwned, Handed, Handover, TypeOK
  <2>6. OnTime'
    BY <1>0, <1>2, <2>1, <2>2 DEF OnTime
  <2>7. LoopSoFar'
    BY <1>0, <2>1 DEF LoopSoFar
  <2>8. QED BY <1>1, <2>3, <2>4, <2>5, <2>6, <2>7
<1>8. QED BY <1>4, <1>5, <1>6, <1>7 DEF AttemptStep

\* While the loop receives, an address that accepts has not been answered
\* before now.
LEMMA NoneAcceptedBefore ==
  ASSUME TypeOK, Indexed, OnTime, LoopSoFar, pc = "recv", NEW i \in Reachable
  PROVE  now <= AnsweredAt(i)
<1>1. i \in Addrs /\ script[i].outcome = "ok" /\ now \in Nat
  BY ConnectAnyAssumption DEF Reachable, TypeOK
<1>2. att[i].at = "sent" => chan = i
  BY <1>1 DEF LoopSoFar, Received
<1>3. att[i].at \in {"sleeping", "connecting", "sending", "sent"}
  BY <1>1 DEF LoopSoFar, TypeOK
<1>4. QED BY <1>1, <1>2, <1>3, Times DEF OnTime

\* The code of an error is one of the codes handle_request knows, none of them
\* Success or TtlExpired.
LEMMA ErrorCodes ==
  ASSUME NEW kind
  PROVE  connect_error(kind) \in {"ConnectionRefused", "NetworkUnreachable",
                                  "HostUnreachable", "Io"}
  BY DEF connect_error

\* The receiving loop keeps the invariant, and what it decides is right.
LEMMA LoopKeepsInv == ASSUME RaceInv, LoopStep PROVE RaceInv'
<1> USE DEF RaceInv
<1>0. UNCHANGED <<script, now, att>>
  BY DEF LoopStep, RecvOk, RecvErr, RecvNone, Timeout, DropLocals
<1>1. /\ Indexed' /\ Addrs' = Addrs /\ \A j : AnsweredAt(j)' = AnsweredAt(j)
      /\ \A j : Offset(j)' = Offset(j)
      /\ Reachable' = Reachable /\ Answering' = Answering
  BY <1>0, TimesStay DEF Indexed, Offset
<1>2. None \notin Addrs /\ now \in Nat
  BY NoneIsNoAddress, ConnectAnyAssumption DEF TypeOK
<1>3. CASE RecvOk
  <2>1. /\ pc = "recv" /\ chan \in Addrs /\ script[chan].outcome = "ok"
        /\ winner' = chan /\ chan' = None /\ result' = "Success" /\ pc' = "ending"
        /\ UNCHANGED <<lastError, open>>
    BY <1>3 DEF RecvOk, TypeOK
  <2>2. TypeOK'
    BY <1>0, <1>1, <2>1 DEF TypeOK
  <2>3. Handover'
    BY <1>0, <1>1, <1>2, <2>1 DEF Handover, SocketsOwned, Handed, Received, TypeOK
  <2>4. SocketsOwned'
    BY <1>0, <1>1, <1>2, <2>1 DEF SocketsOwned, LoopSoFar, Handed, TypeOK
  <2>5. OnTime' /\ LoopSoFar'
    BY <1>0, <1>1, <1>2, <2>1 DEF OnTime, LoopSoFar
  <2>6. FastestWins'
    <3>1. chan \in Reachable /\ now = AnsweredAt(chan)
      BY <2>1 DEF Reachable, OnTime
    <3>2. \A i \in Reachable : AnsweredAt(chan) <= AnsweredAt(i)
      BY <2>1, <3>1, NoneAcceptedBefore
    <3>3. QED BY <1>1, <2>1, <3>1, <3>2 DEF FastestWins
  <2>7. TimeoutOnlyIfUndecided' /\ FailureIsTheLatest'
    BY <2>1 DEF TimeoutOnlyIfUndecided, FailureIsTheLatest
  <2>8. QED BY <1>1, <2>2, <2>3, <2>4, <2>5, <2>6, <2>7
<1>4. CASE RecvErr
  <2>1. /\ pc = "recv" /\ chan \in Addrs /\ script[chan].outcome # "ok"
        /\ lastError' = chan /\ chan' = None
        /\ UNCHANGED <<pc, winner, result, open>>
    BY <1>4 DEF RecvErr, TypeOK
  <2>2. TypeOK'
    BY <1>0, <1>1, <2>1 DEF TypeOK
  <2>3. Handover'
    BY <1>0, <1>1, <1>2, <2>1 DEF Handover, Handed, Received, LoopSoFar, TypeOK
  <2>4. SocketsOwned'
    BY <1>0, <1>1, <1>2, <2>1
       DEF SocketsOwned, Handover, LoopSoFar, Handed, TypeOK
  <2>5. OnTime'
    BY <1>0, <1>1, <1>2, <2>1 DEF OnTime
  <2>6. LoopSoFar'
    <3>1. now = AnsweredAt(chan)
      BY <2>1 DEF OnTime
    <3>2. \A i \in Addrs : att[i].at = "sent" =>
            script[i].outcome # "ok" /\ AnsweredAt(i) <= AnsweredAt(chan)
      BY <2>1, <3>1 DEF OnTime, LoopSoFar, Received
    <3>3. QED
      BY <1>0, <1>1, <1>2, <2>1, <3>1, <3>2 DEF LoopSoFar, Received, ChannelClosed
  <2>7. TimeoutOnlyIfUndecided' /\ FastestWins' /\ FailureIsTheLatest'
    BY <1>0, <2>1, DecidedStays
  <2>8. QED BY <1>1, <2>2, <2>3, <2>4, <2>5, <2>6, <2>7
<1>5. ASSUME RecvNone \/ Timeout
      PROVE  TypeOK' /\ Handover' /\ SocketsOwned' /\ OnTime' /\ LoopSoFar'
  <2>1. pc' = "ending" /\ UNCHANGED <<chan, lastError, winner, open>>
    BY <1>5 DEF RecvNone, Timeout
  <2>2. result' \in {"ConnectionRefused", "NetworkUnreachable", "HostUnreachable",
                     "Io", "TtlExpired"}
    BY <1>5, ErrorCodes DEF RecvNone, Timeout
  <2>3. TypeOK'
    BY <1>0, <1>1, <2>1, <2>2 DEF TypeOK
  <2>4. Handover' /\ SocketsOwned'
    BY <1>0, <1>1, <2>1 DEF Handover, SocketsOwned, Handed, Received
  <2>5. OnTime' /\ LoopSoFar'
    BY <1>0, <1>1, <2>1 DEF OnTime, LoopSoFar
  <2>6. QED BY <2>3, <2>4, <2>5
<1>6. CASE RecvNone
  <2>1. /\ pc = "recv" /\ chan = None /\ pc' = "ending" /\ UNCHANGED winner
        /\ \A i \in Addrs : att[i].at = "sent"
        /\ result' = connect_error(IF lastError = None THEN "AddrNotAvailable"
                                   ELSE script[lastError].outcome)
    BY <1>6 DEF RecvNone, ChannelClosed
  <2>2. \A i \in Addrs :
          /\ script[i].outcome \notin {"ok", "hang"}
          /\ lastError # None /\ AnsweredAt(i) <= AnsweredAt(lastError)
    BY <1>2, <2>1 DEF LoopSoFar, Received, Handover, Handed
  <2>3. FailureIsTheLatest'
    <3>1. ASSUME Addrs # {}
          PROVE  \E i \in Addrs : /\ result' = connect_error(script[i].outcome)
                                  /\ \A j \in Addrs : AnsweredAt(j) <= AnsweredAt(i)
      <4>1. lastError \in Addrs
        BY <2>2, <3>1 DEF TypeOK
      <4>2. QED BY <2>1, <2>2, <4>1
    <3>2. QED BY <1>0, <1>1, <2>2, <3>1 DEF FailureIsTheLatest
  <2>4. TimeoutOnlyIfUndecided' /\ FastestWins'
    BY <2>1, ErrorCodes DEF TimeoutOnlyIfUndecided, FastestWins
  <2>5. QED BY <1>1, <1>5, <1>6, <2>3, <2>4
<1>7. CASE Timeout
  <2>1. /\ pc = "recv" /\ now >= Budget /\ result' = "TtlExpired"
        /\ pc' = "ending" /\ UNCHANGED winner
    BY <1>7 DEF Timeout
  <2>2. now = Budget /\ now # 0
    BY <2>1, ConnectAnyAssumption DEF TypeOK
  <2>3. \A i \in Reachable : AnsweredAt(i) >= Budget
    BY <2>1, <2>2, NoneAcceptedBefore, Times DEF Reachable
  <2>4. \E i \in Addrs : i \in Answering => AnsweredAt(i) >= Budget
    <3>1. CASE chan \in Addrs
      <4>1. AnsweredAt(chan) = Budget
        BY <2>2, <3>1 DEF OnTime
      <4>2. QED BY <2>2, <3>1, <4>1, <1>2
    <3>2. CASE chan = None /\ \A i \in Addrs : att[i].at = "sent"
      <4>1. lastError \in Addrs /\ AnsweredAt(lastError) = Budget
        BY <2>1, <2>2, <3>2 DEF LoopSoFar, ChannelClosed, TypeOK
      <4>2. QED BY <2>2, <4>1, <1>2
    <3>3. ASSUME NEW i \in Addrs, att[i].at # "sent"
          PROVE  i \in Answering => AnsweredAt(i) >= Budget
      <4>1. att[i].at \in {"sleeping", "connecting", "sending"}
        BY <2>1, <3>3 DEF LoopSoFar, TypeOK
      <4>2. QED BY <1>2, <2>2, <3>3, <4>1, Times DEF OnTime, Answering
    <3>4. QED BY <3>1, <3>2, <3>3 DEF TypeOK
  <2>5. TimeoutOnlyIfUndecided'
    BY <1>1, <2>3, <2>4 DEF TimeoutOnlyIfUndecided
  <2>6. FastestWins' /\ FailureIsTheLatest'
    BY <2>1 DEF FastestWins, FailureIsTheLatest
  <2>7. QED BY <1>1, <1>5, <1>7, <2>5, <2>6
<1>8. CASE DropLocals
  <2>1. /\ pc = "ending" /\ chan' = None /\ open' = open \ {chan} /\ pc' = "settled"
        /\ UNCHANGED <<lastError, winner, result>>
    BY <1>8 DEF DropLocals
  <2>2. TypeOK'
    BY <1>0, <1>1, <2>1 DEF TypeOK
  <2>3. Handover'
    BY <1>0, <1>1, <1>2, <2>1 DEF Handover, Handed, Received, TypeOK
  <2>4. SocketsOwned'
    BY <1>0, <1>1, <1>2, <2>1 DEF SocketsOwned, Handover, Handed, TypeOK
  <2>5. OnTime' /\ LoopSoFar'
    BY <1>0, <1>1, <1>2, <2>1 DEF OnTime, LoopSoFar
  <2>6. TimeoutOnlyIfUndecided' /\ FastestWins' /\ FailureIsTheLatest'
    BY <1>0, <2>1, DecidedStays
  <2>7. QED BY <1>1, <2>2, <2>3, <2>4, <2>5, <2>6
<1>9. QED BY <1>3, <1>4, <1>6, <1>7, <1>8 DEF LoopStep

\* The clock advances only when nobody is ready, so nobody becomes late.
LEMMA TickKeepsInv == ASSUME RaceInv, Tick PROVE RaceInv'
<1> USE DEF RaceInv
<1>1. /\ pc = "recv" /\ now < Budget /\ ~Busy /\ now' = now + 1
      /\ UNCHANGED <<script, att, chan, pc, lastError, winner, result, open>>
  BY DEF Tick
<1>2. /\ Indexed' /\ Addrs' = Addrs /\ \A j : AnsweredAt(j)' = AnsweredAt(j)
      /\ \A j : Offset(j)' = Offset(j)
  BY <1>1, TimesStay DEF Indexed, Offset
<1>3. None \notin Addrs /\ now \in Nat /\ now' \in 0..Budget
  BY <1>1, NoneIsNoAddress, ConnectAnyAssumption DEF TypeOK
<1>4. TypeOK' /\ Handover' /\ SocketsOwned'
  BY <1>1, <1>2, <1>3 DEF TypeOK, Handover, SocketsOwned, Handed, Received
<1>5. OnTime'
  <2> SUFFICES ASSUME NEW i \in Addrs
               PROVE  /\ att[i].at = "sleeping" =>
                           att[i].due = Offset(i) /\ now + 1 <= Offset(i)
                      /\ att[i].at = "connecting" =>
                           /\ att[i].due = AnsweredAt(i)
                           /\ script[i].outcome # "hang" => now + 1 <= AnsweredAt(i)
                      /\ att[i].at # "sending"
                      /\ att[i].at = "sent" => AnsweredAt(i) <= now + 1
                      /\ chan # i
    BY <1>1, <1>2 DEF OnTime
  <2>1. /\ chan # i /\ att[i].at # "sending"
        /\ att[i].at = "sleeping" => ~(now >= att[i].due)
        /\ att[i].at = "connecting" /\ script[i].outcome # "hang" =>
             ~(now >= att[i].due)
    BY <1>1, <1>3 DEF Busy
  <2>2. QED BY <1>3, <2>1, Times DEF OnTime
<1>6. LoopSoFar'
  BY <1>1, <1>2 DEF LoopSoFar, Received, ChannelClosed, Busy
<1>7. TimeoutOnlyIfUndecided' /\ FastestWins' /\ FailureIsTheLatest'
  BY <1>1, DecidedStays
<1>8. QED BY <1>2, <1>4, <1>5, <1>6, <1>7

\* The invariant holds in every reachable state.
LEMMA RaceInvHolds == Spec => []RaceInv
<1>1. RaceInv /\ UNCHANGED vars => RaceInv'
  <2> SUFFICES ASSUME RaceInv, UNCHANGED vars PROVE RaceInv'
    OBVIOUS
  <2> USE DEF RaceInv, vars
  <2>1. /\ TypeOK' /\ Indexed' /\ Handover' /\ SocketsOwned'
    BY DEF TypeOK, Indexed, Handover, SocketsOwned, Handed, Received, Addrs
  <2>2. OnTime' /\ LoopSoFar'
    BY TimesStay DEF OnTime, LoopSoFar, Received, ChannelClosed, Offset
  <2>3. TimeoutOnlyIfUndecided' /\ FastestWins' /\ FailureIsTheLatest'
    BY DecidedStays
  <2>4. QED BY <2>1, <2>2, <2>3
<1>2. RaceInv /\ [Next]_vars => RaceInv'
  BY <1>1, AttemptKeepsInv, LoopKeepsInv, TickKeepsInv DEF Next, Idle
<1>3. QED BY <1>2, InitRaceInv, PTL DEF Spec

-----------------------------------------------------------------------------
(* The theorems.                                                           *)

\* connect_any has the shape its types give it.
THEOREM RaceTypeCorrect == Spec => []TypeOK
<1>1. RaceInv => TypeOK
  BY DEF RaceInv
<1>2. QED BY <1>1, RaceInvHolds, PTL

\* The connect timeout of handle_request elapses only when no address would
\* have accepted within it and not every address had failed within it.
THEOREM TimeoutIsFair == Spec => []TimeoutOnlyIfUndecided
<1>1. RaceInv => TimeoutOnlyIfUndecided
  BY DEF RaceInv
<1>2. QED BY <1>1, RaceInvHolds, PTL

\* connect_any returns the connection that was accepted first, whatever order
\* the tasks run in.
THEOREM FirstAcceptedWins == Spec => []FastestWins
<1>1. RaceInv => FastestWins
  BY DEF RaceInv
<1>2. QED BY <1>1, RaceInvHolds, PTL

\* connect_any fails only when every address failed, with the error of one
\* that failed last.
THEOREM FailureIsOfTheLatest == Spec => []FailureIsTheLatest
<1>1. RaceInv => FailureIsTheLatest
  BY DEF RaceInv
<1>2. QED BY <1>1, RaceInvHolds, PTL

\* Once every attempt task has ended, the only socket open is the one
\* connect_any returned: a success that lost the race, that sat in the channel
\* or that met a closed channel is dropped.
THEOREM OnlyTheWinnerIsOpen == Spec => []OnlyTheWinnerSurvives
<1>1. ASSUME RaceInv PROVE OnlyTheWinnerSurvives
  <2> SUFFICES ASSUME pc = "settled", \A i \in Addrs : att[i].at \in {"sent", "gone"}
               PROVE  open = {winner} \ {None}
    BY DEF OnlyTheWinnerSurvives
  <2>1. chan = None /\ None \notin Addrs /\ open \subseteq Addrs
    BY <1>1, NoneIsNoAddress DEF RaceInv, Handover, TypeOK
  <2>2. \A i \in open : i = winner
    BY <1>1, <2>1 DEF RaceInv, SocketsOwned
  <2>3. winner # None => winner \in open
    BY <1>1 DEF RaceInv, Handover
  <2>4. QED BY <2>1, <2>2, <2>3
<1>2. QED BY <1>1, RaceInvHolds, PTL
=============================================================================
