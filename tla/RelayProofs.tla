---------------------------- MODULE RelayProofs ----------------------------
(***************************************************************************)
(* Proofs about the byte relay, for any amount of data in either           *)
(* direction, any socket buffer and any relay buffer, however the ends and *)
(* the task interleave and whichever end resets.                           *)
(***************************************************************************)
EXTENDS Relay, SequenceTheorems, TLAPS

-----------------------------------------------------------------------------
(* Sequences.                                                              *)

\* Concatenation of byte sequences is associative.
LEMMA Regroup == \A s, t, u \in Seq(Nat) : (s \o t) \o u = s \o (t \o u)
  BY ConcatAssociative, SMTT(30)

\* Handing the first byte of a buffer on keeps the stream.
LEMMA HeadMoves ==
  ASSUME NEW s \in Seq(Nat), NEW t \in Seq(Nat), t # << >>
  PROVE  /\ Head(t) = t[1] /\ Len(t) \in Nat \ {0}
         /\ Append(s, Head(t)) \in Seq(Nat) /\ Tail(t) \in Seq(Nat)
         /\ Append(s, Head(t)) \o Tail(t) = s \o t
         /\ Len(Append(s, Head(t))) = Len(s) + 1 /\ Len(Tail(t)) = Len(t) - 1
         /\ Len(Append(s, Head(t))) + Len(Tail(t)) = Len(s) + Len(t)
<1>1. Head(t) \in Nat /\ Tail(t) \in Seq(Nat) /\ Len(Tail(t)) = Len(t) - 1
  BY HeadTailProperties
<1>2. Head(t) = t[1] /\ Len(t) \in Nat \ {0}
  BY EmptySeq
<1>3. t = <<Head(t)>> \o Tail(t) /\ <<Head(t)>> \in Seq(Nat)
  OBVIOUS
<1>4. Append(s, Head(t)) = s \o <<Head(t)>>
  BY <1>1, AppendIsConcat
<1>5. Append(s, Head(t)) \in Seq(Nat) /\ Len(Append(s, Head(t))) = Len(s) + 1
  BY <1>1, AppendProperties
<1> DEFINE h == <<Head(t)>>
           r == Tail(t)
<1> HIDE DEF h, r
<1>6. (s \o h) \o r = s \o (h \o r)
  BY <1>1, <1>3, Regroup DEF h, r
<1>7. Len(Append(s, Head(t))) + Len(Tail(t)) = Len(s) + Len(t)
  BY <1>1, <1>2, <1>5, LenProperties
<1>8. QED BY <1>1, <1>2, <1>3, <1>4, <1>5, <1>6, <1>7 DEF h, r

\* Cutting a sequence in two keeps all of it.
LEMMA CutInTwo ==
  ASSUME NEW s \in Seq(Nat), NEW k \in 0 .. Len(s)
  PROVE  /\ SubSeq(s, 1, k) \in Seq(Nat) /\ Len(SubSeq(s, 1, k)) = k
         /\ SubSeq(s, k + 1, Len(s)) \in Seq(Nat)
         /\ Len(SubSeq(s, k + 1, Len(s))) = Len(s) - k
         /\ SubSeq(s, 1, k) \o SubSeq(s, k + 1, Len(s)) = s
<1>1. Len(s) \in Nat /\ \A i \in 1 .. Len(s) : s[i] \in Nat
  BY LenProperties, ElementOfSeq
<1>2. SubSeq(s, 1, k) \in Seq(Nat) /\ Len(SubSeq(s, 1, k)) = k
  BY <1>1, SubSeqProperties
<1>3. /\ SubSeq(s, k + 1, Len(s)) \in Seq(Nat)
      /\ Len(SubSeq(s, k + 1, Len(s))) = Len(s) - k
  BY <1>1, SubSeqProperties
<1>4. SubSeq(s, 1, k) \o SubSeq(s, k + 1, Len(s)) = SubSeq(s, 1, Len(s))
  <2>1. 1 \in 1 .. Len(s) + 1 /\ k \in 1 - 1 .. Len(s) /\ Len(s) \in k .. Len(s)
    BY <1>1
  <2>2. QED BY <2>1, ConcatAdjacentSubSeq, Zenon
<1>5. QED BY <1>2, <1>3, <1>4, SubSeqFull

\* The bytes of a direction, from the destination back to the source: what
\* arrived, what the relay wrote, what it has in hand, what it has not read.
Stream(g, o, h, i) == ((g \o o) \o h) \o i

\* A stream has the length of its parts.
LEMMA StreamLength ==
  ASSUME NEW g \in Seq(Nat), NEW o \in Seq(Nat), NEW h \in Seq(Nat), NEW i \in Seq(Nat)
  PROVE  /\ Stream(g, o, h, i) \in Seq(Nat)
         /\ Len(Stream(g, o, h, i)) = Len(g) + Len(o) + Len(h) + Len(i)
<1>1. g \o o \in Seq(Nat) /\ Len(g \o o) = Len(g) + Len(o)
  BY ConcatProperties
<1>2. (g \o o) \o h \in Seq(Nat) /\ Len((g \o o) \o h) = Len(g \o o) + Len(h)
  BY <1>1, ConcatProperties
<1>3. QED BY <1>1, <1>2, ConcatProperties DEF Stream

\* A stream begins with what arrived and what is next.
LEMMA StreamNext ==
  ASSUME NEW g \in Seq(Nat), NEW o \in Seq(Nat), NEW h \in Seq(Nat), NEW i \in Seq(Nat),
         o # << >>
  PROVE  Stream(g, o, h, i)[Len(g) + 1] = Head(o)
<1>1. /\ Len(o) \in Nat \ {0} /\ Len(g) \in Nat /\ Len(h) \in Nat /\ Len(i) \in Nat
      /\ Head(o) = o[1]
  BY HeadMoves, LenProperties
<1>2. /\ g \o o \in Seq(Nat) /\ Len(g \o o) = Len(g) + Len(o)
      /\ (g \o o)[Len(g) + 1] = o[1]
  BY <1>1, ConcatProperties
<1>3. /\ (g \o o) \o h \in Seq(Nat)
      /\ Len((g \o o) \o h) = (Len(g) + Len(o)) + Len(h)
      /\ ((g \o o) \o h)[Len(g) + 1] = o[1]
  BY <1>1, <1>2, ConcatProperties
<1>4. (((g \o o) \o h) \o i)[Len(g) + 1] = o[1]
  BY <1>1, <1>3, ConcatProperties
<1>5. QED BY <1>1, <1>4 DEF Stream

\* The destination takes a byte.
LEMMA StreamReceives ==
  ASSUME NEW g \in Seq(Nat), NEW o \in Seq(Nat), NEW h, NEW i, o # << >>
  PROVE  Stream(Append(g, Head(o)), Tail(o), h, i) = Stream(g, o, h, i)
  BY HeadMoves DEF Stream

\* The relay takes the first k bytes it has not read in hand.
LEMMA StreamReads ==
  ASSUME NEW g \in Seq(Nat), NEW o \in Seq(Nat), NEW i \in Seq(Nat),
         NEW k \in 0 .. Len(i)
  PROVE  Stream(g, o, SubSeq(i, 1, k), SubSeq(i, k + 1, Len(i)))
           = Stream(g, o, << >>, i)
<1> DEFINE h == SubSeq(i, 1, k)
           r == SubSeq(i, k + 1, Len(i))
<1>1. h \in Seq(Nat) /\ r \in Seq(Nat) /\ h \o r = i
  BY CutInTwo
<1> HIDE DEF h, r
<1> DEFINE p == g \o o
<1>2. p \in Seq(Nat)
  BY ConcatProperties
<1> HIDE DEF p
<1>3. p \o << >> = p
  BY <1>2, ConcatEmptySeq
<1>4. (p \o h) \o r = p \o (h \o r)
  BY <1>1, <1>2, Regroup, ZenonT(60)
<1>5. QED BY <1>1, <1>3, <1>4 DEF Stream, p, h, r

\* The relay writes the first k bytes it has in hand.
LEMMA StreamWrites ==
  ASSUME NEW g \in Seq(Nat), NEW o \in Seq(Nat), NEW h \in Seq(Nat), NEW i,
         NEW k \in 0 .. Len(h)
  PROVE  Stream(g, o \o SubSeq(h, 1, k), SubSeq(h, k + 1, Len(h)), i)
           = Stream(g, o, h, i)
<1> DEFINE w == SubSeq(h, 1, k)
           r == SubSeq(h, k + 1, Len(h))
<1>1. w \in Seq(Nat) /\ r \in Seq(Nat) /\ w \o r = h
  BY CutInTwo
<1> HIDE DEF w, r
<1>2. g \o (o \o w) = (g \o o) \o w
  BY <1>1, Regroup, ZenonT(60)
<1> DEFINE p == g \o o
<1>3. p \in Seq(Nat)
  BY ConcatProperties
<1> HIDE DEF p
<1>4. (p \o w) \o r = p \o (w \o r)
  BY <1>1, <1>3, Regroup, ZenonT(60)
<1>5. QED BY <1>1, <1>2, <1>4 DEF Stream, p, w, r

\* The bytes of a direction are numbered as they are sent.
Numbered(n) == [i \in 1 .. n |-> i]

\* Numbered bytes are as many as their last number says, each in its place.
LEMMA NumberedFacts ==
  ASSUME NEW n \in Nat
  PROVE  /\ Numbered(n) \in Seq(Nat) /\ Len(Numbered(n)) = n
         /\ \A i \in 1 .. n : Numbered(n)[i] = i
         /\ Append(Numbered(n), n + 1) = Numbered(n + 1)
<1>1. /\ Numbered(n) \in Seq(Nat) /\ Len(Numbered(n)) = n
      /\ \A i \in 1 .. n : Numbered(n)[i] = i
  BY DEF Numbered
<1> DEFINE s == Numbered(n)
           t == Append(s, n + 1)
<1>2. /\ t \in Seq(Nat) /\ Len(t) = n + 1 /\ t[n + 1] = n + 1
      /\ \A i \in 1 .. n : t[i] = s[i]
  BY <1>1, AppendProperties
<1> HIDE DEF s, t
<1>3. /\ DOMAIN t = 1 .. n + 1 /\ t = [i \in DOMAIN t |-> t[i]]
  BY <1>2, LenProperties
<1>4. \A i \in 1 .. n + 1 : t[i] = i
  BY <1>1, <1>2 DEF s
<1>5. t = [i \in 1 .. n + 1 |-> i]
  BY <1>3, <1>4
<1>6. QED BY <1>1, <1>5 DEF Numbered, s, t

\* The parts of a stream add up to what was sent.
LEMMA StreamCounts ==
  ASSUME NEW g \in Seq(Nat), NEW o \in Seq(Nat), NEW h \in Seq(Nat), NEW i \in Seq(Nat),
         NEW n \in Nat, Stream(g, o, h, i) = Numbered(n)
  PROVE  Len(g) + Len(o) + Len(h) + Len(i) = n
<1>1. Len(Stream(g, o, h, i)) = Len(g) + Len(o) + Len(h) + Len(i)
  BY StreamLength
<1>2. Len(Numbered(n)) = n
  BY NumberedFacts
<1>3. QED BY <1>1, <1>2

\* The source sends the next byte.
LEMMA StreamSends ==
  ASSUME NEW g \in Seq(Nat), NEW o \in Seq(Nat), NEW h \in Seq(Nat), NEW i \in Seq(Nat),
         NEW n \in Nat, Stream(g, o, h, i) = Numbered(n)
  PROVE  Stream(g, o, h, Append(i, n + 1)) = Numbered(n + 1)
<1> DEFINE p == (g \o o) \o h
           m == n + 1
           b == <<m>>
           s == Numbered(n)
<1>1. p \in Seq(Nat) /\ m \in Nat /\ b \in Seq(Nat)
  BY ConcatProperties
<1>2. s \in Seq(Nat) /\ Append(s, m) = Numbered(m)
  BY NumberedFacts
<1>3. p \o i = s
  BY DEF Stream
<1> HIDE DEF p, m, s
<1>4. Append(i, m) = i \o b /\ Append(s, m) = s \o b
  BY <1>1, <1>2, AppendIsConcat
<1> HIDE DEF b
<1>5. (p \o i) \o b = p \o (i \o b)
  BY <1>1, ConcatAssociative, SMTT(30)
<1>6. p \o Append(i, m) = Numbered(m)
  BY <1>2, <1>3, <1>4, <1>5
<1>7. QED BY <1>6 DEF Stream, p, m

-----------------------------------------------------------------------------
(* The invariant.                                                          *)

\* What is left of the chunk in hand, by direction: between chunks buf is
\* empty, so the place of the task need not be asked.
Hand(d) == IF dir = d THEN buf ELSE << >>

\* Every byte a source sent is in its stream, in order.
StreamsWhole ==
  \A d \in Directions :
    Stream(got[d], outSock[d], Hand(d), inSock[d]) = Numbered(sent[d])

\* The running count lags what was written by the part of the chunk that is
\* out already, the row lags the count, and both are final at the end.
Counted ==
  /\ \A d \in Directions :
       /\ progress[d] + (IF dir = d THEN chunk ELSE 0)
            = Len(got[d]) + Len(outSock[d]) + Len(Hand(d))
       /\ row[d] <= progress[d]
  /\ pc = "done" => row = progress /\ totals = progress

\* A direction that the relay has closed was ended by its source and has been
\* read to its end; what the destination sees as the end is really the end.
\* The relay finishes when both directions are closed.
Closing ==
  /\ \A d \in Directions :
       /\ shut[d] => ~open[d]
       /\ ~open[d] => fin[d] /\ inSock[d] = << >>
       /\ eof[d] => shut[d] /\ outSock[d] = << >>
  /\ buf # << >> => open[dir]
  /\ pc \in {"finish", "done"} => \A d \in Directions : ~open[d]

\* The inductive invariant
RelayInv == TypeOK /\ StreamsWhole /\ Counted /\ Closing

\* The socket buffers and the relay buffer hold something.
LEMMA Sizes == SockCap \in Nat /\ SockCap >= 1 /\ BufSize \in Nat /\ BufSize >= 1
  BY RelayAssumption

\* A relay that has just begun satisfies the invariant.
LEMMA InitRelayInv == Init => RelayInv
<1> SUFFICES ASSUME Init PROVE RelayInv
  OBVIOUS
<1>1. TypeOK
  BY EmptySeq, Sizes DEF Init, TypeOK, Directions, Ends
<1>2. \A d \in Directions :
        /\ got[d] = << >> /\ outSock[d] = << >> /\ Hand(d) = << >>
        /\ inSock[d] = << >> /\ sent[d] = 0 /\ progress[d] = 0 /\ row[d] = 0
  BY DEF Init, Hand
<1>3. Stream(<< >>, << >>, << >>, << >>) = << >>
  BY EmptySeq, ConcatEmptySeq DEF Stream
<1>4. Numbered(0) = << >>
  BY NumberedFacts, EmptySeq
<1>5. StreamsWhole
  BY <1>2, <1>3, <1>4 DEF StreamsWhole
<1>6. Counted
  BY <1>2, EmptySeq DEF Init, Counted
<1>7. Closing
  BY DEF Init, Closing
<1>8. QED BY <1>1, <1>5, <1>6, <1>7 DEF RelayInv

\* A step that moves no byte keeps the streams whole.
LEMMA StreamsStill ==
  ASSUME StreamsWhole, UNCHANGED <<sent, got, inSock, outSock, dir, buf>>
  PROVE  StreamsWhole'
  BY DEF StreamsWhole, Hand

\* The types of what the invariant says of a direction.
LEMMA DirectionTypes ==
  ASSUME TypeOK, NEW d \in Directions
  PROVE  /\ sent[d] \in Nat /\ got[d] \in Seq(Nat) /\ inSock[d] \in Seq(Nat)
         /\ outSock[d] \in Seq(Nat) /\ Hand(d) \in Seq(Nat) /\ buf \in Seq(Nat)
         /\ Len(got[d]) \in Nat /\ Len(inSock[d]) \in Nat /\ Len(outSock[d]) \in Nat
         /\ Len(Hand(d)) \in Nat /\ Len(buf) \in Nat
         /\ chunk \in Nat /\ progress[d] \in Nat /\ row[d] \in Nat
  BY EmptySeq, LenProperties DEF TypeOK, Hand

\* The ends keep the invariant: they send, close, receive and reset.
LEMMA EndKeepsInv == ASSUME RelayInv, EndStep PROVE RelayInv'
<1> USE DEF RelayInv
<1>1. ASSUME NEW d \in Directions, EndSends(d) PROVE RelayInv'
  <2>1. /\ sent' = [sent EXCEPT ![d] = @ + 1]
        /\ inSock' = [inSock EXCEPT ![d] = Append(@, sent[d] + 1)]
        /\ ~fin[d] /\ Len(inSock[d]) < SockCap
        /\ UNCHANGED <<fin, got, eof, broken, outSock, shut, taskVars, countVars>>
    BY <1>1 DEF EndSends
  <2>2. /\ Append(inSock[d], sent[d] + 1) \in Seq(Nat)
        /\ Len(Append(inSock[d], sent[d] + 1)) = Len(inSock[d]) + 1
    BY DirectionTypes, AppendProperties
  <2>3. TypeOK'
    <3>1. \A x \in Directions : /\ inSock'[x] \in Seq(Nat)
                                /\ Len(inSock'[x]) <= SockCap
      BY <2>1, <2>2, DirectionTypes, Sizes DEF TypeOK
    <3>2. inSock' \in [Directions -> Seq(Nat)] /\ sent' \in [Directions -> Nat]
      <4>1. inSock' \in [Directions -> Seq(Nat)]
        BY <2>1, <2>2 DEF TypeOK
      <4>2. sent' \in [Directions -> Nat]
        <5>1. sent \in [Directions -> Nat] /\ sent' = [sent EXCEPT ![d] = sent[d] + 1]
          BY <2>1 DEF TypeOK
        <5>2. QED BY <5>1
      <4>3. QED BY <4>1, <4>2
    <3>3. QED BY <2>1, <3>1, <3>2 DEF TypeOK, taskVars, countVars
  <2>4. StreamsWhole'
    <3> SUFFICES ASSUME NEW x \in Directions
                 PROVE  Stream(got'[x], outSock'[x], Hand(x)', inSock'[x])
                          = Numbered(sent'[x])
      BY DEF StreamsWhole
    <3>1. UNCHANGED <<got, outSock>> /\ Hand(x)' = Hand(x)
      BY <2>1 DEF taskVars, Hand
    <3>2. CASE x = d
      <4>1. inSock'[d] = Append(inSock[d], sent[d] + 1) /\ sent'[d] = sent[d] + 1
        BY <2>1 DEF TypeOK
      <4>2. Stream(got[d], outSock[d], Hand(d), inSock[d]) = Numbered(sent[d])
        BY DEF StreamsWhole
      <4>3. /\ got[d] \in Seq(Nat) /\ outSock[d] \in Seq(Nat)
            /\ Hand(d) \in Seq(Nat) /\ inSock[d] \in Seq(Nat) /\ sent[d] \in Nat
        BY DirectionTypes
      <4>4. Stream(got[d], outSock[d], Hand(d), Append(inSock[d], sent[d] + 1))
              = Numbered(sent[d] + 1)
        BY <4>2, <4>3, StreamSends
      <4>5. QED BY <3>1, <3>2, <4>1, <4>4
    <3>3. CASE x # d
      <4>1. inSock'[x] = inSock[x] /\ sent'[x] = sent[x]
        BY <2>1, <3>3 DEF TypeOK
      <4>2. QED BY <3>1, <4>1 DEF StreamsWhole
    <3>4. QED BY <3>2, <3>3
  <2>5. Counted'
    BY <2>1 DEF Counted, Hand, taskVars, countVars
  <2>6. Closing'
    BY <2>1 DEF Closing, TypeOK, taskVars
  <2>7. QED BY <2>3, <2>4, <2>5, <2>6
<1>2. ASSUME NEW d \in Directions, EndHalfCloses(d) PROVE RelayInv'
  <2>1. /\ fin' = [fin EXCEPT ![d] = TRUE]
        /\ UNCHANGED <<sent, got, eof, broken, sockVars, taskVars, countVars>>
    BY <1>2 DEF EndHalfCloses
  <2> USE <2>1 DEF sockVars, taskVars, countVars
  <2>2. TypeOK' /\ Closing'
    BY DEF TypeOK, Closing
  <2>3. StreamsWhole' /\ Counted'
    BY StreamsStill DEF Counted, Hand
  <2>4. QED BY <2>2, <2>3
<1>3. ASSUME NEW d \in Directions, EndReceives(d) PROVE RelayInv'
  <2>1. /\ got' = [got EXCEPT ![d] = Append(@, Head(outSock[d]))]
        /\ outSock' = [outSock EXCEPT ![d] = Tail(@)]
        /\ outSock[d] # << >>
        /\ UNCHANGED <<sent, fin, eof, broken, inSock, shut, taskVars, countVars>>
    BY <1>3 DEF EndReceives
  <2> DEFINE g == Append(got[d], Head(outSock[d]))
             o == Tail(outSock[d])
  <2>2. /\ g \in Seq(Nat) /\ Len(g) = Len(got[d]) + 1
        /\ o \in Seq(Nat) /\ Len(o) = Len(outSock[d]) - 1
        /\ Len(g) + Len(o) = Len(got[d]) + Len(outSock[d])
        /\ Stream(g, o, Hand(d), inSock[d])
             = Stream(got[d], outSock[d], Hand(d), inSock[d])
    <3> DEFINE s == got[d]
               t == outSock[d]
    <3>1. s \in Seq(Nat) /\ t \in Seq(Nat) /\ t # << >>
      BY <2>1, DirectionTypes
    <3> HIDE DEF s, t
    <3>2. /\ Append(s, Head(t)) \in Seq(Nat) /\ Tail(t) \in Seq(Nat)
          /\ Len(Append(s, Head(t))) = Len(s) + 1 /\ Len(Tail(t)) = Len(t) - 1
          /\ Len(Append(s, Head(t))) + Len(Tail(t)) = Len(s) + Len(t)
      BY <3>1, HeadMoves
    <3>3. Stream(Append(s, Head(t)), Tail(t), Hand(d), inSock[d])
            = Stream(s, t, Hand(d), inSock[d])
      BY <3>1, StreamReceives
    <3>4. QED BY <3>2, <3>3 DEF s, t
  <2>3. /\ got' = [got EXCEPT ![d] = g] /\ outSock' = [outSock EXCEPT ![d] = o]
    BY <2>1
  <2> HIDE DEF g, o
  <2>4. \A x \in Directions :
          /\ got'[x] = IF x = d THEN g ELSE got[x]
          /\ outSock'[x] = IF x = d THEN o ELSE outSock[x]
          /\ Hand(x)' = Hand(x)
    BY <2>1, <2>3 DEF TypeOK, Hand, taskVars
  <2>5. TypeOK'
    <3>1. Len(o) <= SockCap
      BY <2>2, DirectionTypes, Sizes DEF TypeOK
    <3>2. /\ got' \in [Directions -> Seq(Nat)] /\ outSock' \in [Directions -> Seq(Nat)]
      BY <2>2, <2>3 DEF TypeOK
    <3>3. \A x \in Directions : Len(outSock'[x]) <= SockCap
      BY <2>4, <3>1 DEF TypeOK
    <3>4. QED BY <2>1, <3>2, <3>3 DEF TypeOK, taskVars, countVars
  <2>6. StreamsWhole'
    BY <2>1, <2>2, <2>4 DEF StreamsWhole
  <2>7. Counted'
    <3>1. \A x \in Directions :
            Len(got'[x]) + Len(outSock'[x]) = Len(got[x]) + Len(outSock[x])
      <4> SUFFICES ASSUME NEW x \in Directions
                   PROVE  Len(got'[x]) + Len(outSock'[x]) = Len(got[x]) + Len(outSock[x])
        OBVIOUS
      <4>1. CASE x = d
        BY <2>2, <2>4, <4>1
      <4>2. CASE x # d
        BY <2>4, <4>2
      <4>3. QED BY <4>1, <4>2
    <3>2. UNCHANGED <<progress, row, totals, dir, chunk, pc>>
      BY <2>1 DEF taskVars, countVars
    <3>3. QED BY <2>4, <3>1, <3>2 DEF Counted
  <2>8. Closing'
    BY <2>1, <2>4 DEF Closing, taskVars
  <2>9. QED BY <2>5, <2>6, <2>7, <2>8
<1>4. ASSUME NEW d \in Directions, EndSeesEof(d) PROVE RelayInv'
  <2>1. /\ outSock[d] = << >> /\ shut[d]
        /\ eof' = [eof EXCEPT ![d] = TRUE]
        /\ UNCHANGED <<sent, fin, got, broken, sockVars, taskVars, countVars>>
    BY <1>4 DEF EndSeesEof
  <2> USE <2>1 DEF sockVars, taskVars, countVars
  <2>2. TypeOK' /\ Closing'
    BY DEF TypeOK, Closing
  <2>3. StreamsWhole' /\ Counted'
    BY StreamsStill DEF Counted, Hand
  <2>4. QED BY <2>2, <2>3
<1>5. ASSUME NEW e \in Ends, EndResets(e) PROVE RelayInv'
  <2>1. /\ broken' = broken \cup {e}
        /\ UNCHANGED <<sent, fin, got, eof, sockVars, taskVars, countVars>>
    BY <1>5 DEF EndResets
  <2> USE <2>1 DEF sockVars, taskVars, countVars
  <2>2. TypeOK' /\ Closing'
    BY DEF TypeOK, Closing
  <2>3. StreamsWhole' /\ Counted'
    BY StreamsStill DEF Counted, Hand
  <2>4. QED BY <2>2, <2>3
<1>6. QED BY <1>1, <1>2, <1>3, <1>4, <1>5 DEF EndStep

\* Least is the least.
LEMMA LeastFacts ==
  ASSUME NEW m \in Nat, NEW n \in Nat
  PROVE  /\ Least(m, n) \in Nat /\ Least(m, n) <= m /\ Least(m, n) <= n
         /\ m >= 1 /\ n >= 1 => Least(m, n) >= 1
  BY DEF Least

\* A branch of select! that reads keeps the invariant: the chunk moves from
\* the socket into the task's hand.
LEMMA ReadKeepsInv ==
  ASSUME RelayInv, NEW d \in Directions, Read(d)
  PROVE  RelayInv'
<1> USE DEF RelayInv
<1> DEFINE i == inSock[d]
           n == Least(BufSize, Len(i))
           h == SubSeq(i, 1, n)
           r == SubSeq(i, n + 1, Len(i))
<1>1. /\ pc = "select" /\ open[d] /\ i # << >>
      /\ buf' = h /\ chunk' = n
      /\ inSock' = [inSock EXCEPT ![d] = r]
      /\ dir' = d /\ pc' = "write"
      /\ UNCHANGED <<sent, fin, got, eof, broken, outSock, shut, open,
                     progress, row, totals>>
  BY DEF Read, endVars, countVars
<1>2. i \in Seq(Nat) /\ Len(i) \in Nat /\ Len(i) <= SockCap
  BY DirectionTypes DEF TypeOK
<1> HIDE DEF i
<1>3. n \in Nat /\ n <= BufSize /\ n <= Len(i)
  BY <1>2, Sizes, LeastFacts
<1> HIDE DEF n
<1>4. n \in 0 .. Len(i)
  BY <1>2, <1>3
<1>5. /\ h \in Seq(Nat) /\ Len(h) = n /\ r \in Seq(Nat) /\ Len(r) = Len(i) - n
  BY <1>2, <1>4, CutInTwo
<1>6. /\ Stream(got[d], outSock[d], h, r) = Stream(got[d], outSock[d], << >>, i)
  <2> DEFINE g == got[d]
             o == outSock[d]
  <2>1. g \in Seq(Nat) /\ o \in Seq(Nat)
    BY DirectionTypes
  <2> HIDE DEF g, o
  <2>2. Stream(g, o, h, r) = Stream(g, o, << >>, i)
    BY <1>2, <1>4, <2>1, StreamReads
  <2>3. QED BY <2>2 DEF g, o
<1> HIDE DEF h, r
<1>7. buf = << >> /\ chunk = 0 /\ \A x \in Directions : Hand(x) = << >>
  BY <1>1 DEF TypeOK, Hand
<1>8. \A x \in Directions : /\ inSock'[x] = IF x = d THEN r ELSE inSock[x]
                            /\ Hand(x)' = IF x = d THEN h ELSE << >>
  BY <1>1 DEF TypeOK, Hand
<1>9. TypeOK'
  <2>1. \A x \in Directions : Len(inSock'[x]) <= SockCap
    <3>1. Len(r) <= SockCap
      BY <1>2, <1>3, <1>5, Sizes
    <3>2. QED BY <1>8, <3>1 DEF TypeOK
  <2>2. inSock' \in [Directions -> Seq(Nat)]
    BY <1>1, <1>5 DEF TypeOK
  <2>3. /\ buf' \in Seq(Nat) /\ chunk' \in Nat /\ Len(buf') <= chunk'
        /\ chunk' <= BufSize
    BY <1>1, <1>3, <1>5
  <2>4. QED BY <1>1, <2>1, <2>2, <2>3 DEF TypeOK
<1>10. StreamsWhole'
  BY <1>1, <1>6, <1>7, <1>8 DEF StreamsWhole, i
<1>11. Counted'
  <2> SUFFICES ASSUME NEW x \in Directions
               PROVE  /\ progress[x] + (IF d = x THEN n ELSE 0)
                           = Len(got[x]) + Len(outSock[x]) + Len(Hand(x)')
                      /\ row[x] <= progress[x]
    BY <1>1 DEF Counted
  <2>1. row[x] <= progress[x]
    BY DEF Counted
  <2>2. progress[x] + 0 = Len(got[x]) + Len(outSock[x]) + Len(<< >>)
    BY <1>7 DEF Counted
  <2>3. Len(Hand(x)') = IF d = x THEN n ELSE 0
    BY <1>5, <1>8, EmptySeq
  <2> DEFINE p == progress[x]
             g == Len(got[x])
             o == Len(outSock[x])
             c == IF d = x THEN n ELSE 0
  <2>4. p \in Nat /\ g \in Nat /\ o \in Nat /\ c \in Nat /\ p + 0 = g + o + 0
    BY <1>3, <2>2, DirectionTypes, EmptySeq
  <2> HIDE DEF p, g, o, c
  <2>5. p + c = g + o + c
    BY <2>4
  <2>6. QED BY <2>1, <2>3, <2>5 DEF p, g, o, c
<1>12. Closing'
  BY <1>1, <1>8 DEF Closing
<1>13. QED BY <1>9, <1>10, <1>11, <1>12

\* write_all keeps the invariant: bytes move from the task's hand into the
\* socket, and with the last of them the whole chunk is counted.
LEMMA WriteKeepsInv ==
  ASSUME RelayInv, Write
  PROVE  RelayInv'
<1> USE DEF RelayInv
<1> DEFINE o == outSock[dir]
           k == Least(SockCap - Len(o), Len(buf))
           w == SubSeq(buf, 1, k)
           r == SubSeq(buf, k + 1, Len(buf))
<1>1. /\ pc = "write" /\ Len(o) < SockCap
      /\ outSock' = [outSock EXCEPT ![dir] = o \o w] /\ buf' = r
      /\ UNCHANGED <<sent, fin, got, eof, broken, inSock, shut, dir, open, row, totals>>
  BY DEF Write, endVars
<1>2. \/ /\ buf' = << >> /\ progress' = [progress EXCEPT ![dir] = @ + chunk]
         /\ chunk' = 0 /\ pc' = "select"
      \/ buf' # << >> /\ UNCHANGED <<progress, chunk, pc>>
  BY DEF Write
<1>3. /\ dir \in Directions /\ buf \in Seq(Nat) /\ Len(buf) \in Nat
      /\ o \in Seq(Nat) /\ Len(o) \in Nat
  BY DirectionTypes DEF TypeOK
<1> HIDE DEF o
<1>4. k \in Nat /\ k <= Len(buf) /\ k <= SockCap - Len(o)
  BY <1>1, <1>3, Sizes, LeastFacts
<1> HIDE DEF k
<1>5. k \in 0 .. Len(buf)
  BY <1>3, <1>4
<1>6. w \in Seq(Nat) /\ Len(w) = k /\ r \in Seq(Nat) /\ Len(r) = Len(buf) - k
  BY <1>3, <1>5, CutInTwo
<1>7. o \o w \in Seq(Nat) /\ Len(o \o w) = Len(o) + k
  BY <1>3, <1>6, ConcatProperties
<1>8. Stream(got[dir], o \o w, r, inSock[dir]) = Stream(got[dir], o, buf, inSock[dir])
  <2> DEFINE g == got[dir]
  <2>1. g \in Seq(Nat)
    BY <1>3, DirectionTypes
  <2> HIDE DEF g
  <2>2. Stream(g, o \o w, r, inSock[dir]) = Stream(g, o, buf, inSock[dir])
    BY <1>3, <1>5, <2>1, StreamWrites
  <2>3. QED BY <2>2 DEF g
<1> HIDE DEF w, r
<1>9. \A x \in Directions :
        /\ outSock'[x] = IF x = dir THEN o \o w ELSE outSock[x]
        /\ Hand(x)' = IF x = dir THEN r ELSE Hand(x)
        /\ x = dir => Hand(x) = buf
        /\ x # dir => Hand(x) = << >>
  BY <1>1, <1>3 DEF TypeOK, Hand
<1>10. TypeOK'
  <2>1. \A x \in Directions : Len(outSock'[x]) <= SockCap
    <3>1. Len(o \o w) <= SockCap
      BY <1>1, <1>3, <1>4, <1>7, Sizes
    <3>2. QED BY <1>9, <3>1 DEF TypeOK
  <2>2. outSock' \in [Directions -> Seq(Nat)]
    BY <1>1, <1>3, <1>7 DEF TypeOK
  <2>3. /\ buf' \in Seq(Nat) /\ Len(buf') \in Nat /\ Len(buf') <= Len(buf)
        /\ buf' = << >> => Len(buf') = 0
    BY <1>1, <1>3, <1>4, <1>6, EmptySeq
  <2>4. CASE /\ buf' = << >> /\ progress' = [progress EXCEPT ![dir] = @ + chunk]
             /\ chunk' = 0 /\ pc' = "select"
    <3>1. progress' \in [Directions -> Nat]
      BY <2>4, <1>3 DEF TypeOK
    <3>2. Len(buf') <= chunk' /\ chunk' <= BufSize /\ chunk' \in Nat
      BY <2>3, <2>4, Sizes
    <3>3. QED BY <1>1, <2>1, <2>2, <2>3, <2>4, <3>1, <3>2 DEF TypeOK
  <2>5. CASE buf' # << >> /\ UNCHANGED <<progress, chunk, pc>>
    <3>1. Len(buf') <= chunk
      BY <1>3, <2>3 DEF TypeOK
    <3>2. QED BY <1>1, <2>1, <2>2, <2>3, <2>5, <3>1 DEF TypeOK
  <2>6. QED BY <1>2, <2>4, <2>5
<1>11. StreamsWhole'
  BY <1>1, <1>8, <1>9 DEF StreamsWhole, o
<1>12. Counted'
  <2> SUFFICES ASSUME NEW x \in Directions
               PROVE  /\ progress'[x] + (IF dir = x THEN chunk' ELSE 0)
                           = Len(got[x]) + Len(outSock'[x]) + Len(Hand(x)')
                      /\ row[x] <= progress'[x]
    BY <1>1, <1>2 DEF Counted
  <2>1. /\ progress[x] + (IF dir = x THEN chunk ELSE 0)
             = Len(got[x]) + Len(outSock[x]) + Len(Hand(x))
        /\ row[x] <= progress[x]
    BY DEF Counted
  <2>2. CASE x # dir
    <3>1. progress'[x] = progress[x]
      BY <1>2, <2>2 DEF TypeOK
    <3>2. QED BY <1>9, <2>1, <2>2, <3>1
  <2>3. CASE x = dir
    <3> DEFINE p == progress[x]
               q == progress'[x]
               c == chunk
               e == chunk'
               g == Len(got[x])
               b == Len(buf)
               l == Len(o)
    <3>1. /\ p \in Nat /\ c \in Nat /\ g \in Nat /\ b \in Nat /\ l \in Nat
          /\ row[x] \in Nat
      BY <1>3, DirectionTypes
    <3>2. p + c = g + l + b
      BY <1>9, <2>1, <2>3 DEF o
    <3>3. Len(outSock'[x]) = l + k /\ Len(Hand(x)') = b - k
      BY <1>6, <1>7, <1>9, <2>3
    <3>4. q + e = p + c /\ row[x] <= q
      <4>1. CASE progress' = [progress EXCEPT ![dir] = @ + chunk] /\ chunk' = 0
        <5>1. q = p + c /\ e = 0
          BY <1>3, <2>3, <4>1 DEF TypeOK
        <5>2. row[x] <= p
          BY <2>1
        <5> HIDE DEF p, q, c, e
        <5>3. QED BY <3>1, <5>1, <5>2
      <4>2. CASE UNCHANGED <<progress, chunk, pc>>
        BY <2>1, <4>2
      <4>3. QED BY <1>2, <4>1, <4>2
    <3> HIDE DEF p, q, c, e, g, b, l
    <3>5. q + e = g + (l + k) + (b - k)
      BY <1>4, <3>1, <3>2, <3>4
    <3>6. QED BY <2>3, <3>3, <3>4, <3>5 DEF p, q, c, e, g, b, l
  <2>4. QED BY <2>2, <2>3
<1>13. Closing'
  <2>1. /\ eof[dir] => shut[dir] /\ ~open[dir] /\ buf = << >> /\ o = << >>
    BY <1>3 DEF Closing, o
  <2>2. buf = << >> => r = << >> /\ w = << >>
    BY <1>3, <1>4, <1>6, EmptySeq
  <2>3. eof[dir] => o \o w = << >>
    BY <2>1, <2>2, EmptySeq, ConcatEmptySeq
  <2>4. \A x \in Directions : eof[x] => shut[x] /\ outSock'[x] = << >>
    BY <1>9, <2>1, <2>3 DEF Closing
  <2>5. buf' # << >> => open[dir]
    BY <1>1, <2>2 DEF Closing
  <2>6. pc' \in {"select", "write"}
    BY <1>1, <1>2
  <2>7. QED BY <1>1, <2>4, <2>5, <2>6 DEF Closing
<1>14. QED BY <1>10, <1>11, <1>12, <1>13

\* Every step of the task keeps the invariant.
LEMMA TaskKeepsInv == ASSUME RelayInv, TaskStep PROVE RelayInv'
<1> USE DEF RelayInv
<1>1. ASSUME NEW d \in Directions, Read(d) PROVE RelayInv'
  BY <1>1, ReadKeepsInv
<1>2. ASSUME NEW d \in Directions, ReadEof(d) PROVE RelayInv'
  <2>1. /\ pc = "select" /\ inSock[d] = << >> /\ fin[d]
        /\ open' = [open EXCEPT ![d] = FALSE]
        /\ shut' = [shut EXCEPT ![d] = TRUE]
        /\ pc' = IF open[Back(d)] THEN "select" ELSE "finish"
        /\ UNCHANGED <<endVars, inSock, outSock, dir, buf, chunk, countVars>>
    BY <1>2 DEF ReadEof
  <2> USE <2>1 DEF endVars, countVars
  <2>2. TypeOK'
    BY DEF TypeOK
  <2>3. StreamsWhole' /\ Counted'
    BY StreamsStill DEF Counted, Hand
  <2>4. Closing'
    <3>1. buf = << >>
      BY DEF TypeOK
    <3>2. \A x \in Directions : x = d \/ x = Back(d)
      BY DEF Directions, Back
    <3>3. QED BY <3>1, <3>2 DEF Closing, TypeOK
  <2>5. QED BY <2>2, <2>3, <2>4
<1>3. ASSUME NEW d \in Directions, ReadError(d) \/ WriteError PROVE RelayInv'
  <2>1. /\ pc' = "failed"
        /\ UNCHANGED <<endVars, sockVars, dir, buf, chunk, open, countVars>>
    BY <1>3 DEF ReadError, WriteError
  <2> USE <2>1 DEF endVars, sockVars, countVars
  <2>2. TypeOK' /\ Closing'
    BY DEF TypeOK, Closing
  <2>3. StreamsWhole' /\ Counted'
    BY StreamsStill DEF Counted, Hand
  <2>4. QED BY <2>2, <2>3
<1>4. CASE Write
  BY <1>4, WriteKeepsInv
<1>5. CASE Publish
  <2>1. /\ Running /\ row' = progress
        /\ UNCHANGED <<endVars, sockVars, taskVars, progress, totals>>
    BY <1>5 DEF Publish
  <2> USE <2>1 DEF endVars, sockVars, taskVars
  <2>2. TypeOK' /\ Closing'
    BY DEF TypeOK, Closing
  <2>3. StreamsWhole'
    BY StreamsStill
  <2>4. Counted'
    <3>1. \A d \in Directions : progress[d] <= progress[d]
      BY DEF TypeOK
    <3>2. QED BY <3>1 DEF Counted, Hand, Running
  <2>5. QED BY <2>2, <2>3, <2>4
<1>6. CASE Finish
  <2>1. /\ pc = "finish" /\ row' = progress /\ totals' = progress /\ pc' = "done"
        /\ UNCHANGED <<endVars, sockVars, dir, buf, chunk, open, progress>>
    BY <1>6 DEF Finish
  <2> USE <2>1 DEF endVars, sockVars
  <2>2. TypeOK' /\ Closing'
    BY DEF TypeOK, Closing
  <2>3. StreamsWhole'
    BY StreamsStill
  <2>4. Counted'
    <3>1. \A d \in Directions : progress[d] <= progress[d]
      BY DEF TypeOK
    <3>2. QED BY <3>1 DEF Counted, Hand
  <2>5. QED BY <2>2, <2>3, <2>4
<1>7. CASE WriteError
  BY <1>3, <1>7 DEF Directions
<1>8. QED BY <1>1, <1>2, <1>3, <1>4, <1>5, <1>6, <1>7 DEF TaskStep

\* The invariant holds in every reachable state.
LEMMA RelayInvHolds == Spec => []RelayInv
<1>1. RelayInv /\ UNCHANGED vars => RelayInv'
  BY DEF RelayInv, TypeOK, StreamsWhole, Counted, Closing, Hand, vars
<1>2. RelayInv /\ [Next]_vars => RelayInv'
  BY <1>1, EndKeepsInv, TaskKeepsInv DEF Next, Done
<1>3. QED BY <1>2, InitRelayInv, PTL DEF Spec

-----------------------------------------------------------------------------
(* The theorems.                                                           *)

\* The relay has the shape its types give it; no buffer of
\* copy_bidirectional_counted overflows.
THEOREM RelayTypeCorrect == Spec => []TypeOK
<1>1. RelayInv => TypeOK
  BY DEF RelayInv
<1>2. QED BY <1>1, RelayInvHolds, PTL

\* copy_bidirectional_counted loses, repeats and reorders nothing: in every
\* state the bytes a source has sent are, in order, the ones that arrived,
\* those the relay wrote, those it has in hand and those it has not read.
THEOREM RelayKeepsEveryByte == Spec => []NothingLostOrReordered
<1>1. ASSUME RelayInv PROVE NothingLostOrReordered
  <2>1. \A d \in Directions : InHand(d) = Hand(d)
    BY <1>1 DEF RelayInv, TypeOK, InHand, Hand
  <2>2. QED
    BY <1>1, <2>1
       DEF RelayInv, StreamsWhole, Stream, Numbered, NothingLostOrReordered
<1>2. QED BY <1>1, RelayInvHolds, PTL

\* The counts that copy_bidirectional_counted publishes and adds to the totals
\* never exceed what was handed on; they are exact between chunks, and at a
\* good end they are all that was ever sent.
THEOREM RelayCountsHonestly == Spec => []CountsAreHonest
<1>1. ASSUME RelayInv PROVE CountsAreHonest
  <2> USE <1>1 DEF RelayInv
  <2> SUFFICES ASSUME NEW d \in Directions
               PROVE  LET handed == Len(got[d]) + Len(outSock[d]) IN
                        /\ row[d] <= progress[d]
                        /\ progress[d] <= handed
                        /\ pc = "select" => progress[d] = handed
                        /\ pc = "done" => totals[d] = sent[d] /\ row[d] = sent[d]
    BY DEF CountsAreHonest
  <2> DEFINE p == progress[d]
             g == Len(got[d])
             o == Len(outSock[d])
             h == Len(Hand(d))
             i == Len(inSock[d])
             c == IF dir = d THEN chunk ELSE 0
  <2>1. /\ p \in Nat /\ g \in Nat /\ o \in Nat /\ h \in Nat /\ i \in Nat
        /\ c \in Nat /\ sent[d] \in Nat
    BY DirectionTypes
  <2>2. p + c = g + o + h /\ row[d] <= p
    BY DEF Counted
  <2>3. h <= c
    BY EmptySeq DEF TypeOK, Hand
  <2>4. pc \in {"select", "done"} => c = 0 /\ h = 0
    BY EmptySeq DEF TypeOK, Hand
  <2>5. g + o + h + i = sent[d]
    <3>1. Stream(got[d], outSock[d], Hand(d), inSock[d]) = Numbered(sent[d])
      BY DEF StreamsWhole
    <3>2. /\ got[d] \in Seq(Nat) /\ outSock[d] \in Seq(Nat)
          /\ Hand(d) \in Seq(Nat) /\ inSock[d] \in Seq(Nat) /\ sent[d] \in Nat
      BY DirectionTypes
    <3>3. QED BY <3>1, <3>2, StreamCounts
  <2>6. pc = "done" => i = 0 /\ totals[d] = p /\ row[d] = p
    BY EmptySeq DEF Closing, Counted
  <2> HIDE DEF p, g, o, h, i, c
  <2>7. /\ row[d] <= p /\ p <= g + o
        /\ pc = "select" => p = g + o
        /\ pc = "done" => totals[d] = sent[d] /\ row[d] = sent[d]
    BY <2>1, <2>2, <2>3, <2>4, <2>5, <2>6
  <2>8. QED BY <2>7 DEF p, g, o
<1>2. QED BY <1>1, RelayInvHolds, PTL

-----------------------------------------------------------------------------
(* The relay implements two independent pipes.                             *)

\* What arrives next is the byte after the last that arrived, and the end is
\* seen when all has arrived.
LEMMA ArrivesInOrder ==
  ASSUME RelayInv, NEW d \in Directions
  PROVE  /\ outSock[d] # << >> =>
              ~eof[d] /\ Head(outSock[d]) = Len(got[d]) + 1 /\ Len(got[d]) < sent[d]
         /\ shut[d] /\ outSock[d] = << >> => fin[d] /\ Len(got[d]) = sent[d]
<1> USE DEF RelayInv
<1> DEFINE g == got[d]
           o == outSock[d]
           h == Hand(d)
           i == inSock[d]
           n == sent[d]
<1>1. /\ g \in Seq(Nat) /\ o \in Seq(Nat) /\ h \in Seq(Nat) /\ i \in Seq(Nat)
      /\ n \in Nat /\ Stream(g, o, h, i) = Numbered(n)
  BY DirectionTypes DEF StreamsWhole
<1>2. o # << >> => ~eof[d]
  BY DEF Closing
<1>3. shut[d] => fin[d] /\ i = << >> /\ h = << >>
  BY DEF Closing, Hand
<1> HIDE DEF g, o, h, i, n
<1>4. /\ Len(g) \in Nat /\ Len(o) \in Nat /\ Len(h) \in Nat /\ Len(i) \in Nat
      /\ Len(g) + Len(o) + Len(h) + Len(i) = n
  BY <1>1, StreamCounts, LenProperties
<1>5. ASSUME o # << >> PROVE Head(o) = Len(g) + 1 /\ Len(g) < n
  <2>1. Len(o) \in Nat \ {0}
    BY <1>1, <1>5, EmptySeq
  <2>2. Len(g) < n
    BY <1>4, <2>1
  <2>3. Numbered(n)[Len(g) + 1] = Len(g) + 1
    <3>1. Len(g) + 1 \in 1 .. n
      BY <1>1, <1>4, <2>2
    <3>2. \A x \in 1 .. n : Numbered(n)[x] = x
      BY <1>1, NumberedFacts
    <3>3. QED BY <3>1, <3>2
  <2>4. Stream(g, o, h, i)[Len(g) + 1] = Head(o)
    BY <1>1, <1>5, StreamNext
  <2>5. QED BY <1>1, <2>2, <2>3, <2>4
<1>6. ASSUME shut[d], o = << >> PROVE fin[d] /\ Len(g) = n
  <2>1. Len(o) = 0 /\ Len(h) = 0 /\ Len(i) = 0
    BY <1>3, <1>6, EmptySeq
  <2>2. QED BY <1>3, <1>4, <1>6, <2>1
<1>7. QED BY <1>2, <1>5, <1>6 DEF g, o, n

\* Every step of an end is a step of the pipes, and a step of the task is
\* none: copy_bidirectional_counted, as far as the two ends can tell, is two
\* first-in first-out pipes that end independently.
THEOREM RelayImplementsPipe == Spec => ImplementsPipe
<1>1. Init => Pipe!Init
  BY DEF Init, Pipe!Init
<1>2. ASSUME RelayInv, [Next]_vars PROVE [Pipe!Next]_(Pipe!vars)
  <2> USE DEF Pipe!vars
  <2>1. ASSUME NEW d \in Directions, EndSends(d) PROVE Pipe!Next
    BY <2>1 DEF EndSends, Pipe!Next, Pipe!Send
  <2>2. ASSUME NEW d \in Directions, EndHalfCloses(d) PROVE Pipe!Next
    BY <2>2 DEF EndHalfCloses, Pipe!Next, Pipe!Fin
  <2>3. ASSUME NEW d \in Directions, EndReceives(d) PROVE Pipe!Next
    <3>1. /\ outSock[d] # << >>
          /\ got' = [got EXCEPT ![d] = Append(@, Head(outSock[d]))]
          /\ UNCHANGED <<sent, fin, eof>>
      BY <2>3 DEF EndReceives
    <3>2. ~eof[d] /\ Head(outSock[d]) = Len(got[d]) + 1 /\ Len(got[d]) < sent[d]
      BY <1>2, <3>1, ArrivesInOrder
    <3>3. QED BY <3>1, <3>2 DEF Pipe!Next, Pipe!Deliver
  <2>4. ASSUME NEW d \in Directions, EndSeesEof(d) PROVE Pipe!Next
    <3>1. /\ outSock[d] = << >> /\ shut[d] /\ ~eof[d]
          /\ eof' = [eof EXCEPT ![d] = TRUE]
          /\ UNCHANGED <<sent, fin, got>>
      BY <2>4 DEF EndSeesEof
    <3>2. fin[d] /\ Len(got[d]) = sent[d]
      BY <1>2, <3>1, ArrivesInOrder
    <3>3. QED BY <3>1, <3>2 DEF Pipe!Next, Pipe!Eof
  <2>5. CASE UNCHANGED <<sent, fin, got, eof>>
    BY <2>5
  <2>6. QED
    BY <1>2, <2>1, <2>2, <2>3, <2>4, <2>5
       DEF Next, EndStep, TaskStep, Done, vars, endVars, EndResets, Read, ReadEof,
           ReadError, Write, WriteError, Publish, Finish
<1>3. QED BY <1>1, <1>2, RelayInvHolds, PTL DEF Spec, ImplementsPipe, Pipe!Spec
=============================================================================
