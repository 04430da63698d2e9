------------------------------- MODULE Relay -------------------------------
(***************************************************************************)
(* copy_bidirectional_counted: one task relays both directions between the *)
(* client (end "a") and the target (end "b"), counting as it goes, while a *)
(* ticker of the same task publishes the counts to the connection's row.   *)
(*                                                                         *)
(* A byte is its number in its direction.  Each TCP connection is a        *)
(* bounded buffer per direction; an end may half-close or reset.  The task *)
(* waits in select! for either side to be readable; once it has read, it   *)
(* awaits write_all to the other side before it selects again.             *)
(***************************************************************************)
EXTENDS Integers, Sequences, FiniteSets

CONSTANTS
  Limit,       \* bytes each end sends, by direction
  SockCap,     \* capacity of a socket buffer
  BufSize,     \* RELAY_BUF_SIZE
  WriteFirst   \* ends that read nothing until they have sent all they have

Directions == {"up", "down"}
Ends == {"a", "b"}
Src(d) == IF d = "up" THEN "a" ELSE "b"
Dst(d) == IF d = "up" THEN "b" ELSE "a"
Back(d) == IF d = "up" THEN "down" ELSE "up"

ASSUME RelayAssumption ==
  /\ Limit \in [Directions -> Nat]
  /\ SockCap \in Nat \ {0}
  /\ BufSize \in Nat \ {0}
  /\ WriteFirst \subseteq Ends

VARIABLES
  \* the ends
  sent,      \* bytes the source of a direction has sent
  fin,       \* the source has half-closed
  got,       \* what the destination has received
  eof,       \* the destination has seen the end of the direction
  broken,    \* ends that have reset their connection
  \* the kernel
  inSock,    \* received from the source, not yet read by the relay
  outSock,   \* written by the relay, not yet received by the destination
  shut,      \* the relay has shut down its write half to the destination
  \* the task
  pc,        \* select, write, finish, done or failed
  dir,       \* the direction of the chunk in hand
  buf,       \* what is left of the chunk
  chunk,     \* its length n
  open,      \* a_open and b_open
  progress,  \* running counts
  row,       \* the counters of the connection's row
  totals     \* what note_relay has added to the totals

endVars  == <<sent, fin, got, eof, broken>>
sockVars == <<inSock, outSock, shut>>
taskVars == <<pc, dir, buf, chunk, open>>
countVars == <<progress, row, totals>>
vars == <<sent, fin, got, eof, broken, inSock, outSock, shut, pc, dir, buf,
          chunk, open, progress, row, totals>>

Init ==
  /\ sent = [d \in Directions |-> 0]
  /\ fin = [d \in Directions |-> FALSE]
  /\ got = [d \in Directions |-> << >>]
  /\ eof = [d \in Directions |-> FALSE]
  /\ broken = {}
  /\ inSock = [d \in Directions |-> << >>]
  /\ outSock = [d \in Directions |-> << >>]
  /\ shut = [d \in Directions |-> FALSE]
  /\ pc = "select" /\ dir = "up" /\ buf = << >> /\ chunk = 0
  /\ open = [d \in Directions |-> TRUE]
  /\ progress = [d \in Directions |-> 0]
  /\ row = [d \in Directions |-> 0]
  /\ totals = [d \in Directions |-> 0]

Running == pc \in {"select", "write"}
Least(m, n) == IF m <= n THEN m ELSE n

-----------------------------------------------------------------------------
(* The two ends                                                            *)

EndSends(d) ==
  /\ Src(d) \notin broken /\ ~fin[d]
  /\ sent[d] < Limit[d]
  /\ Len(inSock[d]) < SockCap
  /\ sent' = [sent EXCEPT ![d] = @ + 1]
  /\ inSock' = [inSock EXCEPT ![d] = Append(@, sent[d] + 1)]
  /\ UNCHANGED <<fin, got, eof, broken, outSock, shut, taskVars, countVars>>

EndHalfCloses(d) ==
  /\ Src(d) \notin broken /\ ~fin[d]
  /\ fin' = [fin EXCEPT ![d] = TRUE]
  /\ UNCHANGED <<sent, got, eof, broken, sockVars, taskVars, countVars>>

\* An end that writes first turns to reading when it has nothing to send.
Reads(e, d) ==
  /\ e = Dst(d) /\ e \notin broken
  /\ e \in WriteFirst => fin[Back(d)] \/ sent[Back(d)] = Limit[Back(d)]

EndReceives(d) ==
  /\ Reads(Dst(d), d)
  /\ outSock[d] # << >>
  /\ got' = [got EXCEPT ![d] = Append(@, Head(outSock[d]))]
  /\ outSock' = [outSock EXCEPT ![d] = Tail(@)]
  /\ UNCHANGED <<sent, fin, eof, broken, inSock, shut, taskVars, countVars>>

EndSeesEof(d) ==
  /\ Reads(Dst(d), d)
  /\ outSock[d] = << >> /\ shut[d] /\ ~eof[d]
  /\ eof' = [eof EXCEPT ![d] = TRUE]
  /\ UNCHANGED <<sent, fin, got, broken, sockVars, taskVars, countVars>>

EndResets(e) ==
  /\ Running /\ e \notin broken
  /\ broken' = broken \cup {e}
  /\ UNCHANGED <<sent, fin, got, eof, sockVars, taskVars, countVars>>

-----------------------------------------------------------------------------
(* The relay task                                                          *)

\* A branch of select!: read returned n > 0 bytes
Read(d) ==
  /\ pc = "select" /\ open[d]
  /\ inSock[d] # << >>
  /\ LET n == Least(BufSize, Len(inSock[d])) IN
       /\ buf' = SubSeq(inSock[d], 1, n)
       /\ chunk' = n
       /\ inSock' = [inSock EXCEPT ![d] = SubSeq(@, n + 1, Len(@))]
  /\ dir' = d
  /\ pc' = "write"
  /\ UNCHANGED <<endVars, outSock, shut, open, countVars>>

\* MUTANT of ReadEof: the end of one direction ends the relay.
ReadEofEndsRelay(d) ==
  /\ pc = "select" /\ open[d]
  /\ inSock[d] = << >> /\ fin[d] /\ Src(d) \notin broken
  /\ open' = [open EXCEPT ![d] = FALSE]
  /\ shut' = [x \in Directions |-> TRUE]
  /\ pc' = "finish"
  /\ UNCHANGED <<endVars, inSock, outSock, dir, buf, chunk, countVars>>

\* MUTANT of ReadEof: the other side is not told.
ReadEofNotPassedOn(d) ==
  /\ pc = "select" /\ open[d]
  /\ inSock[d] = << >> /\ fin[d] /\ Src(d) \notin broken
  /\ open' = [open EXCEPT ![d] = FALSE]
  /\ pc' = IF open[Back(d)] THEN "select" ELSE "finish"
  /\ UNCHANGED <<endVars, sockVars, dir, buf, chunk, countVars>>

\* A branch of select!: read returned 0.  The end is passed on with shutdown,
\* whose result is ignored, and the loop ends with the second direction.
ReadEof(d) ==
  /\ pc = "select" /\ open[d]
  /\ inSock[d] = << >> /\ fin[d] /\ Src(d) \notin broken
  /\ open' = [open EXCEPT ![d] = FALSE]
  /\ shut' = [shut EXCEPT ![d] = TRUE]
  /\ pc' = IF open[Back(d)] THEN "select" ELSE "finish"
  /\ UNCHANGED <<endVars, inSock, outSock, dir, buf, chunk, countVars>>

\* A branch of select!: the read failed, `?` leaves the relay
ReadError(d) ==
  /\ pc = "select" /\ open[d]
  /\ Src(d) \in broken
  /\ pc' = "failed"
  /\ UNCHANGED <<endVars, sockVars, dir, buf, chunk, open, countVars>>

\* MUTANT of Write: write instead of write_all, the rest of the chunk is lost.
WriteOnce ==
  /\ pc = "write" /\ Dst(dir) \notin broken
  /\ Len(outSock[dir]) < SockCap
  /\ LET k == Least(SockCap - Len(outSock[dir]), Len(buf)) IN
       outSock' = [outSock EXCEPT ![dir] = @ \o SubSeq(buf, 1, k)]
  /\ progress' = [progress EXCEPT ![dir] = @ + chunk]
  /\ buf' = << >> /\ chunk' = 0 /\ pc' = "select"
  /\ UNCHANGED <<endVars, inSock, shut, dir, open, row, totals>>

\* MUTANT of Write: the count is added before the chunk is written out.
WriteCountedEarly ==
  /\ pc = "write" /\ Dst(dir) \notin broken
  /\ Len(outSock[dir]) < SockCap
  /\ LET k == Least(SockCap - Len(outSock[dir]), Len(buf)) IN
       /\ outSock' = [outSock EXCEPT ![dir] = @ \o SubSeq(buf, 1, k)]
       /\ buf' = SubSeq(buf, k + 1, Len(buf))
  /\ progress' = [progress EXCEPT ![dir] = @ + chunk]
  /\ chunk' = 0
  /\ pc' = IF buf' = << >> THEN "select" ELSE "write"
  /\ UNCHANGED <<endVars, inSock, shut, dir, open, row, totals>>

\* write_all moves what the socket takes; when the chunk is out, flush and
\* progress.fetch_add(n) follow without another await
Write ==
  /\ pc = "write" /\ Dst(dir) \notin broken
  /\ Len(outSock[dir]) < SockCap
  /\ LET k == Least(SockCap - Len(outSock[dir]), Len(buf)) IN
       /\ outSock' = [outSock EXCEPT ![dir] = @ \o SubSeq(buf, 1, k)]
       /\ buf' = SubSeq(buf, k + 1, Len(buf))
  /\ IF buf' = << >>
       THEN /\ progress' = [progress EXCEPT ![dir] = @ + chunk]
            /\ chunk' = 0
            /\ pc' = "select"
       ELSE UNCHANGED <<progress, chunk, pc>>
  /\ UNCHANGED <<endVars, inSock, shut, dir, open, row, totals>>

\* write_all failed, `?` leaves the relay with the rest of the chunk
WriteError ==
  /\ pc = "write" /\ Dst(dir) \in broken
  /\ pc' = "failed"
  /\ UNCHANGED <<endVars, sockVars, dir, buf, chunk, open, countVars>>

\* The ticker, polled whenever the relay waits
Publish ==
  /\ Running
  /\ row' = progress
  /\ UNCHANGED <<endVars, sockVars, taskVars, progress, totals>>

\* Final counts to the row, then note_relay
Finish ==
  /\ pc = "finish"
  /\ row' = progress
  /\ totals' = progress
  /\ pc' = "done"
  /\ UNCHANGED <<endVars, sockVars, dir, buf, chunk, open, progress>>

Done == pc \in {"done", "failed"} /\ UNCHANGED vars

-----------------------------------------------------------------------------
EndStep ==
  \/ \E d \in Directions : EndSends(d) \/ EndHalfCloses(d) \/ EndReceives(d)
                             \/ EndSeesEof(d)
  \/ \E e \in Ends : EndResets(e)

TaskStep ==
  \/ \E d \in Directions : Read(d) \/ ReadEof(d) \/ ReadError(d)
  \/ Write \/ WriteError \/ Publish \/ Finish

Next == EndStep \/ TaskStep \/ Done

Spec == Init /\ [][Next]_vars

\* select! polls its branches in random order, so a side that stays readable
\* is read in the end (strong fairness); the scheduler runs the task.  Of the
\* ends it is assumed that they send what they have and read what arrives,
\* each in the order WriteFirst says; never that they close.
Fairness ==
  /\ \A d \in Directions :
       /\ SF_vars(Read(d)) /\ SF_vars(ReadEof(d))
       /\ WF_vars(EndSends(d)) /\ WF_vars(EndReceives(d)) /\ WF_vars(EndSeesEof(d))
  /\ WF_vars(Write) /\ WF_vars(Finish)

FairSpec == Spec /\ Fairness

-----------------------------------------------------------------------------
(* Properties                                                              *)

InHand(d) == IF pc \in {"write", "failed"} /\ dir = d THEN buf ELSE << >>

\* The state has the shape the code's types give it; no buffer overflows, and
\* a chunk is in hand only while it is being written (or its write failed).
TypeOK ==
  /\ sent \in [Directions -> Nat]
  /\ fin \in [Directions -> BOOLEAN]
  /\ got \in [Directions -> Seq(Nat)]
  /\ eof \in [Directions -> BOOLEAN]
  /\ broken \subseteq Ends
  /\ inSock \in [Directions -> Seq(Nat)] /\ outSock \in [Directions -> Seq(Nat)]
  /\ shut \in [Directions -> BOOLEAN]
  /\ pc \in {"select", "write", "finish", "done", "failed"}
  /\ dir \in Directions /\ buf \in Seq(Nat) /\ chunk \in Nat
  /\ pc \in {"select", "finish", "done"} => buf = << >> /\ chunk = 0
  /\ Len(buf) <= chunk /\ chunk <= BufSize
  /\ \A d \in Directions : Len(inSock[d]) <= SockCap /\ Len(outSock[d]) <= SockCap
  /\ open \in [Directions -> BOOLEAN]
  /\ progress \in [Directions -> Nat]
  /\ row \in [Directions -> Nat]
  /\ totals \in [Directions -> Nat]

\* Every byte sent is at exactly one place of its direction, in order, even
\* when the relay failed half-way through a chunk.
NothingLostOrReordered ==
  \A d \in Directions :
    got[d] \o outSock[d] \o InHand(d) \o inSock[d] = [i \in 1..sent[d] |-> i]

\* The counts never run ahead of what was handed to the destination, and the
\* row never runs ahead of the counts; between chunks they are exact.  A relay
\* that ended well has counted every byte either end ever sent, in the row and
\* in the totals.
CountsAreHonest ==
  \A d \in Directions :
    LET handed == Len(got[d]) + Len(outSock[d]) IN
      /\ row[d] <= progress[d]
      /\ progress[d] <= handed
      /\ pc = "select" => progress[d] = handed
      /\ pc = "done" => totals[d] = sent[d] /\ row[d] = sent[d]

\* The relay is two independent pipes: the end of one direction is passed on
\* after its last byte and leaves the other direction open.
Pipe == INSTANCE DuplexPipe

ImplementsPipe == Pipe!Spec

\* What one end sends reaches the other, unless one of them resets.
EverythingDelivered ==
  \A d \in Directions : []<>(broken # {} \/ Len(got[d]) = sent[d])

\* A half-close reaches the other end although that end keeps its own
\* direction open.
HalfCloseDelivered ==
  \A d \in Directions : fin[d] ~> (broken # {} \/ eof[d])
=============================================================================
