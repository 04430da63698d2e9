-------------------------- MODULE AdmissionProofs --------------------------
(***************************************************************************)
(* Proofs about admission, for any finite number of listeners and          *)
(* connections, any limits and both backends.                              *)
(***************************************************************************)
EXTENDS Admission, FiniteSetTheorems, TLAPS

-----------------------------------------------------------------------------
(* Counting.                                                               *)

\* When one member of a finite set changes its place, the number of members
\* in a given set of places changes by at most one: every permit, slot and
\* gauge of the admission code counts connections this way.
LEMMA Moved ==
  ASSUME NEW A, IsFiniteSet(A), NEW B, NEW c,
         \A d : d # c => (d \in A <=> d \in B)
  PROVE  /\ Cardinality(A) \in Nat /\ Cardinality(B) \in Nat
         /\ c \in A /\ c \notin B => Cardinality(B) = Cardinality(A) - 1
         /\ c \notin A /\ c \in B => Cardinality(B) = Cardinality(A) + 1
         /\ (c \in A <=> c \in B) => Cardinality(B) = Cardinality(A)
<1>1. Cardinality(A) \in Nat
  BY FS_CardinalityType
<1>2. CASE c \in A /\ c \notin B
  <2>1. B = A \ {c}
    BY <1>2
  <2>2. QED BY <2>1, <1>1, <1>2, FS_RemoveElement, FS_CardinalityType
<1>3. CASE c \notin A /\ c \in B
  <2>1. B = A \cup {c}
    BY <1>3
  <2>2. QED BY <2>1, <1>1, <1>3, FS_AddElement, FS_CardinalityType
<1>4. CASE c \in A <=> c \in B
  <2>1. B = A
    BY <1>4
  <2>2. QED BY <2>1, <1>1, <1>4
<1>5. QED BY <1>2, <1>3, <1>4

\* The same for the stage of a connection.
LEMMA StageMoved ==
  ASSUME TypeOK, NEW c \in Conns, NEW t, NEW S,
         stage' = [stage EXCEPT ![c] = t]
  PROVE  /\ Cardinality(ConnsIn(S)) \in Nat /\ Cardinality(ConnsIn(S)') \in Nat
         /\ stage[c] \in S /\ t \notin S =>
              Cardinality(ConnsIn(S)') = Cardinality(ConnsIn(S)) - 1
         /\ stage[c] \notin S /\ t \in S =>
              Cardinality(ConnsIn(S)') = Cardinality(ConnsIn(S)) + 1
         /\ (stage[c] \in S <=> t \in S) =>
              Cardinality(ConnsIn(S)') = Cardinality(ConnsIn(S))
<1> DEFINE A == ConnsIn(S)
           B == ConnsIn(S)'
<1>1. IsFiniteSet(A)
  BY FS_Subset, AdmissionAssumption DEF ConnsIn
<1>2. \A d : d # c => (d \in A <=> d \in B)
  BY DEF TypeOK, ConnsIn
<1>3. (c \in A <=> stage[c] \in S) /\ (c \in B <=> t \in S)
  BY DEF TypeOK, ConnsIn
<1> HIDE DEF A, B
<1>4. QED BY <1>1, <1>2, <1>3, Moved DEF A, B

\* The same for the place of an accept loop.
LEMMA LoopMoved ==
  ASSUME TypeOK, NEW l \in Listeners, NEW t,
         pc' = [pc EXCEPT ![l] = t]
  PROVE  /\ Cardinality(LoopsWithPermit) \in Nat
         /\ pc[l] = "acquire" /\ t # "acquire" =>
              Cardinality(LoopsWithPermit') = Cardinality(LoopsWithPermit) + 1
         /\ pc[l] # "acquire" /\ t = "acquire" =>
              Cardinality(LoopsWithPermit') = Cardinality(LoopsWithPermit) - 1
         /\ pc[l] # "acquire" /\ t # "acquire" =>
              Cardinality(LoopsWithPermit') = Cardinality(LoopsWithPermit)
<1> DEFINE A == LoopsWithPermit
           B == LoopsWithPermit'
<1>1. IsFiniteSet(A)
  BY FS_Subset, AdmissionAssumption DEF LoopsWithPermit
<1>2. \A d : d # l => (d \in A <=> d \in B)
  BY DEF TypeOK, LoopsWithPermit
<1>3. (l \in A <=> pc[l] # "acquire") /\ (l \in B <=> t # "acquire")
  BY DEF TypeOK, LoopsWithPermit
<1> HIDE DEF A, B
<1>4. QED BY <1>1, <1>2, <1>3, Moved DEF A, B

-----------------------------------------------------------------------------
(* Permits                                                                 *)

\* The stages the permit, gauge and hand invariants tell apart.
LEMMA StageFacts ==
  /\ \A s \in {"idle", "backlog", "accepted", "refusing", "refused", "admitted",
               "done"} :
       s \notin PermitStages /\ s \notin ActiveStages
  /\ \A s \in {"spawned", "numbered", "row", "counted", "serving", "finished",
               "uncounted", "unlisted", "unrowed", "closed"} : s \in PermitStages
  /\ "half" \in PermitStages <=> HalfHoldsPermit
  /\ \A s \in {"counted", "serving", "finished"} : s \in ActiveStages
  /\ \A s \in {"spawned", "numbered", "row", "uncounted", "unlisted", "unrowed",
               "closed", "half"} : s \notin ActiveStages
  BY DEF PermitStages, ActiveStages, BeginStages, RowStages, EndStages

\* set_max_connections leaves at least one permit.
LEMMA EffectiveMaxType == EffectiveMax \in Nat /\ EffectiveMax >= 1
  BY AdmissionAssumption DEF EffectiveMax

\* The permit invariant holds before any listener runs.
LEMMA InitPermitInv == Init => PermitInv
<1> SUFFICES ASSUME Init PROVE PermitInv
  OBVIOUS
<1>1. TypeOK
  BY EffectiveMaxType DEF Init, TypeOK, LoopStates, Stages
<1>2. InHand
  BY DEF Init, InHand
<1>3. ConnsIn(ActiveStages) = {} /\ ConnsIn(PermitStages) = {}
  BY StageFacts DEF Init, ConnsIn
<1>4. LoopsWithPermit = {}
  BY DEF Init, LoopsWithPermit
<1>5. ActiveExact
  BY <1>3, FS_EmptySet DEF Init, ActiveExact
<1>6. PermitsConserved
  BY <1>3, <1>4, FS_EmptySet, EffectiveMaxType
  DEF Init, PermitsConserved
<1>7. QED BY <1>1, <1>2, <1>5, <1>6 DEF PermitInv

\* InHand is kept by a connection that moves between stages no loop watches.
LEMMA FreeMoveKeepsHands ==
  ASSUME TypeOK, InHand, NEW c \in Conns, NEW t,
         stage' = [stage EXCEPT ![c] = t],
         stage[c] \notin {"accepted", "refusing", "admitted"},
         t \notin {"accepted", "refusing", "admitted"},
         UNCHANGED <<pc, cur, listener>>
  PROVE  InHand'
  BY DEF TypeOK, InHand, Holds

\* What a connection does on its own, moving from its stage to stage t: it
\* returns its permit when it leaves the stages that own one, it is counted
\* exactly while it is at the active stages, and no loop is involved.
LEMMA ConnMoveKeepsPermitInv ==
  ASSUME PermitInv, NEW c \in Conns, NEW t \in Stages,
         stage' = [stage EXCEPT ![c] = t],
         stage[c] \notin {"accepted", "refusing", "admitted"},
         t \notin {"accepted", "refusing", "admitted"},
         UNCHANGED <<pc, cur, listener>>,
         stage[c] \in PermitStages /\ t \notin PermitStages
           => permits' = permits + 1,
         (stage[c] \in PermitStages <=> t \in PermitStages)
           => permits' = permits,
         stage[c] \in PermitStages \/ t \notin PermitStages,
         stage[c] \notin ActiveStages /\ t \in ActiveStages
           => active' = active + 1,
         stage[c] \in ActiveStages /\ t \notin ActiveStages
           => active' = active - 1,
         (stage[c] \in ActiveStages <=> t \in ActiveStages)
           => active' = active
  PROVE  InHand' /\ PermitsConserved' /\ ActiveExact' /\ active' \in Nat
<1>1. InHand'
  BY FreeMoveKeepsHands DEF PermitInv
<1>2. LoopsWithPermit' = LoopsWithPermit
  BY DEF LoopsWithPermit
<1>3. Cardinality(LoopsWithPermit) \in Nat
  BY FS_Subset, FS_CardinalityType, AdmissionAssumption DEF LoopsWithPermit
<1>4. PermitsConserved'
  <2> DEFINE P == ConnsIn(PermitStages)
  <2>1. /\ Cardinality(P) \in Nat
        /\ stage[c] \in PermitStages /\ t \notin PermitStages =>
             Cardinality(P') = Cardinality(P) - 1
        /\ (stage[c] \in PermitStages <=> t \in PermitStages) =>
             Cardinality(P') = Cardinality(P)
    BY StageMoved DEF PermitInv
  <2>2. permits \in Nat
    BY DEF PermitInv, TypeOK
  <2>3. permits + Cardinality(LoopsWithPermit) + Cardinality(P) = EffectiveMax
    BY DEF PermitInv, PermitsConserved
  <2> HIDE DEF P
  <2>4. permits' + Cardinality(LoopsWithPermit') + Cardinality(P') = EffectiveMax
    BY <1>2, <1>3, <2>1, <2>2, <2>3, EffectiveMaxType
  <2>5. QED BY <2>4 DEF PermitsConserved, P
<1>5. ActiveExact' /\ active' \in Nat
  <2> DEFINE A == ConnsIn(ActiveStages)
  <2>1. /\ Cardinality(A) \in Nat /\ Cardinality(A') \in Nat
        /\ stage[c] \in ActiveStages /\ t \notin ActiveStages =>
             Cardinality(A') = Cardinality(A) - 1
        /\ stage[c] \notin ActiveStages /\ t \in ActiveStages =>
             Cardinality(A') = Cardinality(A) + 1
        /\ (stage[c] \in ActiveStages <=> t \in ActiveStages) =>
             Cardinality(A') = Cardinality(A)
    BY StageMoved DEF PermitInv
  <2>2. active = Cardinality(A)
    BY DEF PermitInv, ActiveExact
  <2> HIDE DEF A
  <2>3. active' = Cardinality(A')
    BY <2>1, <2>2
  <2>4. QED BY <2>1, <2>3 DEF ActiveExact, A
<1>6. QED BY <1>1, <1>4, <1>5

\* Maps of counters stay maps of counters.
LEMMA BumpType ==
  ASSUME NEW map, NEW ip \in Ips, DOMAIN map \subseteq Ips,
         \A x \in DOMAIN map : map[x] \in Nat
  PROVE  /\ DOMAIN Bump(map, ip) \subseteq Ips
         /\ \A x \in DOMAIN Bump(map, ip) : Bump(map, ip)[x] \in Nat
  BY DEF Bump, Held

\* The same for a decrement, which forgets a key rather than leave a zero.
LEMMA UnbumpType ==
  ASSUME NEW map, NEW ip \in Ips, DOMAIN map \subseteq Ips,
         \A x \in DOMAIN map : map[x] \in Nat
  PROVE  /\ DOMAIN Unbump(map, ip) \subseteq Ips
         /\ \A x \in DOMAIN Unbump(map, ip) : Unbump(map, ip)[x] \in Nat
  BY DEF Unbump

\* A connection's own step moves it as ConnMoveKeepsPermitInv describes.
LEMMA ConnMoves ==
  ASSUME TypeOK, NEW c \in Conns, Arrive(c) \/ ConnStep(c)
  PROVE  \E t \in Stages :
           /\ stage' = [stage EXCEPT ![c] = t]
           /\ stage[c] \notin {"accepted", "refusing", "admitted"}
           /\ t \notin {"accepted", "refusing", "admitted"}
           /\ UNCHANGED <<pc, cur, listener>>
           /\ stage[c] \in PermitStages /\ t \notin PermitStages
                => permits' = permits + 1
           /\ (stage[c] \in PermitStages <=> t \in PermitStages)
                => permits' = permits
           /\ stage[c] \in PermitStages \/ t \notin PermitStages
           /\ stage[c] \notin ActiveStages /\ t \in ActiveStages
                => active' = active + 1
           /\ stage[c] \in ActiveStages /\ t \notin ActiveStages
                => active' = active - 1
           /\ (stage[c] \in ActiveStages <=> t \in ActiveStages)
                => active' = active
<1> USE StageFacts DEF loopVars, limitVars, statVars, totalVars
<1>0. {"backlog", "numbered", "row", "counted", "serving", "finished", "uncounted",
       "unlisted", "unrowed", "closed", "half", "done"} \subseteq Stages
  BY DEF Stages, BeginStages, RowStages, EndStages
<1> USE <1>0
<1>1. CASE Arrive(c)
  <2> WITNESS "backlog" \in Stages
  <2>1. QED BY <1>1 DEF Arrive
<1>2. CASE InsertRow(c)
  <2> WITNESS "row" \in Stages
  <2>1. QED BY <1>2 DEF InsertRow
<1>3. CASE CountActive(c)
  <2> WITNESS "counted" \in Stages
  <2>1. QED BY <1>3 DEF CountActive
<1>4. CASE CountPerIp(c)
  <2> WITNESS "serving" \in Stages
  <2>1. QED BY <1>4 DEF CountPerIp
<1>5. CASE Finish(c)
  <2> WITNESS "finished" \in Stages
  <2>1. QED BY <1>5 DEF Finish
<1>6. CASE UncountActive(c)
  <2> WITNESS "uncounted" \in Stages
  <2>1. QED BY <1>6 DEF UncountActive
<1>7. CASE UncountPerIp(c)
  <2> WITNESS "unlisted" \in Stages
  <2>1. QED BY <1>7 DEF UncountPerIp
<1>8. CASE RemoveRow(c)
  <2> WITNESS "unrowed" \in Stages
  <2>1. QED BY <1>8 DEF RemoveRow
<1>9. CASE CloseStream(c)
  <2> WITNESS "closed" \in Stages
  <2>1. QED BY <1>9 DEF CloseStream
<1>10. CASE DropPermit(c)
  <2> WITNESS (IF HalfHoldsPermit THEN "done" ELSE "half") \in Stages
  <2>1. QED BY <1>10 DEF DropPermit
<1>11. CASE DropIpSlot(c)
  <2> WITNESS (IF HalfHoldsPermit THEN "half" ELSE "done") \in Stages
  <2>1. QED BY <1>11 DEF DropIpSlot
<1>12. CASE TakeId(c)
  <2> WITNESS "numbered" \in Stages
  <2>1. QED BY <1>12 DEF TakeId
<1>13. QED
  BY <1>1, <1>2, <1>3, <1>4, <1>5, <1>6, <1>7, <1>8, <1>9, <1>10, <1>11, <1>12
  DEF ConnStep

\* Every step of a connection's own task, and its arrival, keeps the types.
LEMMA ConnStepType ==
  ASSUME TypeOK, NEW c \in Conns, Arrive(c) \/ ConnStep(c), active' \in Nat
  PROVE  TypeOK'
<1> USE DEF loopVars, limitVars, statVars, totalVars,
            Stages, BeginStages, RowStages, EndStages
<1>0. IpOf[c] \in Ips
  BY AdmissionAssumption
<1>1. CASE Arrive(c)
  BY <1>1 DEF Arrive, TypeOK
<1>2. CASE InsertRow(c)
  BY <1>2 DEF InsertRow, TypeOK
<1>3. CASE CountActive(c)
  BY <1>3 DEF CountActive, TypeOK
<1>4. CASE CountPerIp(c)
  BY <1>4, BumpType, <1>0 DEF CountPerIp, TypeOK
<1>5. CASE Finish(c)
  BY <1>5 DEF Finish, TypeOK
<1>6. CASE UncountActive(c)
  BY <1>6 DEF UncountActive, TypeOK
<1>7. CASE UncountPerIp(c)
  BY <1>7, UnbumpType, <1>0 DEF UncountPerIp, TypeOK
<1>8. CASE RemoveRow(c)
  BY <1>8 DEF RemoveRow, TypeOK
<1>9. CASE CloseStream(c)
  BY <1>9 DEF CloseStream, TypeOK
<1>10. CASE DropPermit(c)
  BY <1>10 DEF DropPermit, TypeOK
<1>11. CASE DropIpSlot(c)
  BY <1>11, UnbumpType, <1>0 DEF DropIpSlot, TypeOK
<1>12. CASE TakeId(c)
  BY <1>12 DEF TakeId, TypeOK
<1>13. QED
  BY <1>1, <1>2, <1>3, <1>4, <1>5, <1>6, <1>7, <1>8, <1>9, <1>10, <1>11, <1>12
  DEF ConnStep

\* Every step of a connection's own task, and its arrival, keeps the invariant.
LEMMA ConnStepPermitInv ==
  ASSUME PermitInv, NEW c \in Conns, Arrive(c) \/ ConnStep(c)
  PROVE  PermitInv'
<1>1. TypeOK
  BY DEF PermitInv
<1>2. InHand' /\ PermitsConserved' /\ ActiveExact' /\ active' \in Nat
  BY <1>1, ConnMoves, ConnMoveKeepsPermitInv
<1>3. TypeOK'
  BY <1>1, <1>2, ConnStepType
<1>4. QED BY <1>2, <1>3 DEF PermitInv

\* A loop moves to place p, taking, keeping or giving up its permit, and no
\* connection moves.
LEMMA LoopMoveKeepsCounts ==
  ASSUME PermitInv, NEW l \in Listeners, NEW p,
         pc' = [pc EXCEPT ![l] = p], UNCHANGED <<stage, active>>,
         pc[l] = "acquire" /\ p # "acquire" => permits' = permits - 1,
         pc[l] # "acquire" /\ p = "acquire" => permits' = permits + 1,
         pc[l] = "acquire" <=> p # "acquire"
  PROVE  PermitsConserved' /\ ActiveExact'
<1>1. ConnsIn(PermitStages)' = ConnsIn(PermitStages)
      /\ ConnsIn(ActiveStages)' = ConnsIn(ActiveStages)
  BY DEF ConnsIn
<1>2. IsFiniteSet(ConnsIn(PermitStages))
  BY FS_Subset, AdmissionAssumption DEF ConnsIn
<1>3. Cardinality(ConnsIn(PermitStages)) \in Nat
  BY <1>2, FS_CardinalityType
<1>4. ActiveExact'
  BY <1>1 DEF PermitInv, ActiveExact
<1>5. PermitsConserved'
  <2>1. TypeOK /\ permits \in Nat
    BY DEF PermitInv, TypeOK
  <2>2. permits + Cardinality(LoopsWithPermit) + Cardinality(ConnsIn(PermitStages))
          = EffectiveMax
    BY DEF PermitInv, PermitsConserved
  <2>3. /\ Cardinality(LoopsWithPermit) \in Nat
        /\ pc[l] = "acquire" =>
             Cardinality(LoopsWithPermit') = Cardinality(LoopsWithPermit) + 1
        /\ pc[l] # "acquire" =>
             Cardinality(LoopsWithPermit') = Cardinality(LoopsWithPermit) - 1
    BY <2>1, LoopMoved
  <2>4. permits' + Cardinality(LoopsWithPermit') + Cardinality(ConnsIn(PermitStages))
          = EffectiveMax
    BY <1>3, <2>1, <2>2, <2>3, EffectiveMaxType
  <2>5. QED BY <1>1, <2>4 DEF PermitsConserved
<1>6. QED BY <1>4, <1>5

\* A loop moves to place p and the connection c in its hand to stage s.  The
\* loop gives up its permit when it returns to acquire: into the semaphore, or
\* into the connection's task.
LEMMA LoopHandMoveKeepsCounts ==
  ASSUME PermitInv, NEW l \in Listeners, NEW p, NEW c \in Conns, NEW s,
         pc' = [pc EXCEPT ![l] = p], stage' = [stage EXCEPT ![c] = s],
         UNCHANGED active, pc[l] # "acquire",
         stage[c] \notin ActiveStages, s \notin ActiveStages,
         stage[c] \notin PermitStages,
         p # "acquire" => s \notin PermitStages /\ permits' = permits,
         p = "acquire" /\ s \in PermitStages => permits' = permits,
         p = "acquire" /\ s \notin PermitStages => permits' = permits + 1
  PROVE  PermitsConserved' /\ ActiveExact'
<1> DEFINE P == ConnsIn(PermitStages)
           A == ConnsIn(ActiveStages)
<1>1. TypeOK /\ permits \in Nat
  BY DEF PermitInv, TypeOK
<1>2. /\ Cardinality(P) \in Nat
      /\ s \in PermitStages => Cardinality(P') = Cardinality(P) + 1
      /\ s \notin PermitStages => Cardinality(P') = Cardinality(P)
  BY <1>1, StageMoved
<1>3. Cardinality(A') = Cardinality(A)
  BY <1>1, StageMoved
<1>4. /\ Cardinality(LoopsWithPermit) \in Nat
      /\ p = "acquire" =>
           Cardinality(LoopsWithPermit') = Cardinality(LoopsWithPermit) - 1
      /\ p # "acquire" =>
           Cardinality(LoopsWithPermit') = Cardinality(LoopsWithPermit)
  BY <1>1, LoopMoved
<1>5. permits + Cardinality(LoopsWithPermit) + Cardinality(P) = EffectiveMax
  BY DEF PermitInv, PermitsConserved
<1>6. ActiveExact'
  BY <1>3 DEF PermitInv, ActiveExact
<1> HIDE DEF P, A
<1>7. permits' + Cardinality(LoopsWithPermit') + Cardinality(P') = EffectiveMax
  BY <1>1, <1>2, <1>4, <1>5, EffectiveMaxType
<1>8. QED BY <1>6, <1>7 DEF PermitsConserved, P

\* Every step of an accept loop keeps the invariant.
LEMMA LoopStepPermitInv ==
  ASSUME PermitInv, NEW l \in Listeners, LoopStep(l)
  PROVE  PermitInv'
<1>0. TypeOK /\ InHand
  BY DEF PermitInv
<1> USE DEF loopVars, limitVars, statVars, totalVars
<1>1. CASE Acquire(l)
  <2>1. PermitsConserved' /\ ActiveExact'
    BY <1>1, LoopMoveKeepsCounts DEF Acquire
  <2>2. TypeOK'
    BY <1>0, <1>1 DEF Acquire, TypeOK, LoopStates
  <2>3. InHand'
    BY <1>0, <1>1 DEF Acquire, TypeOK, InHand, Holds
  <2>4. QED BY <2>1, <2>2, <2>3 DEF PermitInv
<1>2. CASE \E c \in Conns : AcceptOk(l, c)
  <2> PICK c \in Conns : AcceptOk(l, c)
    BY <1>2
  <2>1. PermitsConserved' /\ ActiveExact'
    BY LoopHandMoveKeepsCounts, StageFacts DEF AcceptOk
  <2>2. TypeOK'
    BY <1>0 DEF AcceptOk, TypeOK, LoopStates, Stages
  <2>3. InHand'
    BY <1>0 DEF AcceptOk, TypeOK, InHand, Holds
  <2>4. QED BY <2>1, <2>2, <2>3 DEF PermitInv
<1>3. CASE AcceptErr(l)
  <2>1. PermitsConserved' /\ ActiveExact'
    BY <1>3, LoopMoveKeepsCounts DEF AcceptErr
  <2>2. TypeOK'
    BY <1>0, <1>3 DEF AcceptErr, TypeOK, LoopStates
  <2>3. InHand'
    BY <1>0, <1>3 DEF AcceptErr, TypeOK, InHand, Holds
  <2>4. QED BY <2>1, <2>2, <2>3 DEF PermitInv
<1>4. CASE TryAcquireOk(l)
  <2>0. cur[l] \in Conns /\ stage[cur[l]] = "accepted" /\ listener[cur[l]] = l
    BY <1>0, <1>4 DEF TryAcquireOk, InHand, Holds
  <2>1. PermitsConserved' /\ ActiveExact'
    BY <1>4, <2>0, LoopHandMoveKeepsCounts, StageFacts DEF TryAcquireOk
  <2>2. TypeOK'
    BY <1>0, <1>4, <2>0, BumpType, AdmissionAssumption
    DEF TryAcquireOk, TypeOK, LoopStates, Stages, BeginStages
  <2>3. InHand'
    BY <1>0, <1>4, <2>0 DEF TryAcquireOk, TypeOK, InHand, Holds
  <2>4. QED BY <2>1, <2>2, <2>3 DEF PermitInv
<1>5. CASE TryAcquireNone(l)
  <2>0. cur[l] \in Conns /\ stage[cur[l]] = "accepted" /\ listener[cur[l]] = l
    BY <1>0, <1>5 DEF TryAcquireNone, InHand, Holds
  <2>1. PermitsConserved' /\ ActiveExact'
    BY <1>5, <2>0, LoopHandMoveKeepsCounts, StageFacts DEF TryAcquireNone
  <2>2. TypeOK'
    BY <1>0, <1>5, <2>0
    DEF TryAcquireNone, TypeOK, LoopStates, Stages, BeginStages
  <2>3. InHand'
    BY <1>0, <1>5, <2>0 DEF TryAcquireNone, TypeOK, InHand, Holds
  <2>4. QED BY <2>1, <2>2, <2>3 DEF PermitInv
<1>6. CASE DropRefused(l)
  <2>0. cur[l] \in Conns /\ stage[cur[l]] = "refusing" /\ listener[cur[l]] = l
    BY <1>0, <1>6 DEF DropRefused, InHand, Holds
  <2>1. PermitsConserved' /\ ActiveExact'
    BY <1>6, <2>0, LoopHandMoveKeepsCounts, StageFacts DEF DropRefused
  <2>2. TypeOK'
    BY <1>0, <1>6, <2>0
    DEF DropRefused, TypeOK, LoopStates, Stages, BeginStages
  <2>3. InHand'
    BY <1>0, <1>6, <2>0 DEF DropRefused, TypeOK, InHand, Holds
  <2>4. QED BY <2>1, <2>2, <2>3 DEF PermitInv
<1>7. CASE HandOver(l)
  <2>0. cur[l] \in Conns /\ stage[cur[l]] = "admitted" /\ listener[cur[l]] = l
    BY <1>0, <1>7 DEF HandOver, InHand, Holds
  <2>1. PermitsConserved' /\ ActiveExact'
    BY <1>7, <2>0, LoopHandMoveKeepsCounts, StageFacts DEF HandOver
  <2>2. TypeOK'
    BY <1>0, <1>7, <2>0
    DEF HandOver, TypeOK, LoopStates, Stages, BeginStages
  <2>3. InHand'
    BY <1>0, <1>7, <2>0 DEF HandOver, TypeOK, InHand, Holds
  <2>4. QED BY <2>1, <2>2, <2>3 DEF PermitInv
<1>8. QED
  BY <1>1, <1>2, <1>3, <1>4, <1>5, <1>6, <1>7 DEF LoopStep

\* The permit invariant is inductive.
LEMMA NextPermitInv == PermitInv /\ [Next]_vars => PermitInv'
<1> SUFFICES ASSUME PermitInv, [Next]_vars PROVE PermitInv'
  OBVIOUS
<1>1. CASE \E c \in Conns : Arrive(c) \/ ConnStep(c)
  BY <1>1, ConnStepPermitInv
<1>2. CASE \E l \in Listeners : LoopStep(l)
  BY <1>2, LoopStepPermitInv
<1>3. CASE UNCHANGED vars
  BY <1>3 DEF vars, PermitInv, TypeOK, InHand, Holds, ActiveExact,
              PermitsConserved, ConnsIn, LoopsWithPermit
<1>4. QED BY <1>1, <1>2, <1>3 DEF Next

\* The permit invariant holds in every reachable state.
LEMMA PermitInvHolds == Spec => []PermitInv
  BY InitPermitInv, NextPermitInv, PTL DEF Spec

\* No path through accept_loop, begin_client or the guards' drops makes a
\* counter leave its type: the active gauge and the semaphore never go below
\* zero, whatever the number of listeners and connections.
THEOREM TypeCorrect == Spec => []TypeOK
<1>1. PermitInv => TypeOK
  BY DEF PermitInv
<1>2. QED BY <1>1, PermitInvHolds, PTL

\* Every permit of the connection cap is accounted for in every state: none is
\* lost when accept fails or a source is refused, none returned twice.
THEOREM PermitsAreConserved == Spec => []PermitsConserved
<1>1. PermitInv => PermitsConserved
  BY DEF PermitInv
<1>2. QED BY <1>1, PermitInvHolds, PTL

-----------------------------------------------------------------------------
(* The registry and the cap                                                *)

\* Rows and ids, apart from the permits.
RegistryInv == RowsBelongToConnections /\ IdsBelowNext /\ IdsDistinct

\* The connections the registry is about, as it has them before its step.
SameConnections ==
  /\ ConnsIn(RowStages)' = ConnsIn(RowStages)
  /\ ConnsIn(NumberedStages)' = ConnsIn(NumberedStages)

\* An empty registry belongs to no connection.
LEMMA InitRegistryInv == Init => RegistryInv
  BY DEF Init, RegistryInv, RowsBelongToConnections, IdsBelowNext, IdsDistinct,
         ConnsIn, RowStages, NumberedStages

\* A step that moves no connection in or out of the registry keeps it.
LEMMA RegistryUntouched ==
  ASSUME RegistryInv, SameConnections, UNCHANGED <<clients, rowId, nextId>>
  PROVE  RegistryInv'
  BY DEF RegistryInv, RowsBelongToConnections, IdsBelowNext, IdsDistinct,
         SameConnections

\* Every step keeps rows and ids in order: an id is handed out once, the row
\* goes in under it and out with it, and nothing else touches either.
LEMMA NextRegistryInv ==
  ASSUME TypeOK, InHand, RegistryInv, [Next]_vars
  PROVE  RegistryInv'
<1> USE DEF loopVars, limitVars, statVars, totalVars
<1>0. ASSUME NEW c \in Conns, TakeId(c) PROVE RegistryInv'
  <2>1. /\ ConnsIn(RowStages)' = ConnsIn(RowStages)
        /\ ConnsIn(NumberedStages)' = ConnsIn(NumberedStages) \cup {c}
        /\ c \notin ConnsIn(NumberedStages)
        /\ ConnsIn(RowStages) \subseteq ConnsIn(NumberedStages)
    BY <1>0 DEF TakeId, TypeOK, ConnsIn, RowStages, NumberedStages
  <2>2. /\ rowId'[c] = nextId
        /\ \A d \in ConnsIn(NumberedStages) : d # c /\ rowId'[d] = rowId[d]
    BY <1>0, <2>1 DEF TakeId, TypeOK, ConnsIn
  <2>3. \A d \in ConnsIn(NumberedStages) : rowId[d] \in Nat /\ rowId[d] < nextId
    BY DEF TypeOK, RegistryInv, IdsBelowNext, ConnsIn
  <2>4. nextId \in Nat /\ nextId' = nextId + 1 /\ clients' = clients
    BY <1>0 DEF TakeId, TypeOK
  <2>5. IdsBelowNext'
    BY <2>1, <2>2, <2>3, <2>4 DEF IdsBelowNext
  <2>6. IdsDistinct'
    BY <2>1, <2>2, <2>3, <2>4 DEF RegistryInv, IdsDistinct
  <2>7. RowsBelongToConnections'
    BY <2>1, <2>2, <2>4 DEF RegistryInv, RowsBelongToConnections
  <2>8. QED BY <2>5, <2>6, <2>7 DEF RegistryInv
<1>1. ASSUME NEW c \in Conns, InsertRow(c) PROVE RegistryInv'
  <2>1. /\ ConnsIn(RowStages)' = ConnsIn(RowStages) \cup {c}
        /\ ConnsIn(NumberedStages)' = ConnsIn(NumberedStages)
        /\ ConnsIn(RowStages)' \subseteq ConnsIn(NumberedStages)
    BY <1>1 DEF InsertRow, TypeOK, ConnsIn, RowStages, NumberedStages
  <2>2. UNCHANGED <<rowId, nextId>> /\ clients' = clients \cup {rowId[c]}
    BY <1>1 DEF InsertRow
  <2>3. IdsBelowNext' /\ IdsDistinct'
    BY <2>1, <2>2 DEF RegistryInv, IdsBelowNext, IdsDistinct
  <2>4. RowsBelongToConnections'
    BY <2>1, <2>2 DEF RegistryInv, RowsBelongToConnections, IdsDistinct
  <2>5. QED BY <2>3, <2>4 DEF RegistryInv
<1>2. ASSUME NEW c \in Conns, RemoveRow(c) PROVE RegistryInv'
  <2>1. /\ ConnsIn(RowStages)' = ConnsIn(RowStages) \ {c}
        /\ ConnsIn(NumberedStages)' = ConnsIn(NumberedStages) \ {c}
        /\ c \in ConnsIn(RowStages)
    BY <1>2 DEF RemoveRow, TypeOK, ConnsIn, RowStages, NumberedStages
  <2>2. UNCHANGED <<rowId, nextId>> /\ clients' = clients \ {rowId[c]}
    BY <1>2 DEF RemoveRow
  <2>3. IdsBelowNext' /\ IdsDistinct'
    BY <2>1, <2>2 DEF RegistryInv, IdsBelowNext, IdsDistinct
  <2>4. RowsBelongToConnections'
    BY <2>1, <2>2 DEF RegistryInv, RowsBelongToConnections
  <2>5. QED BY <2>3, <2>4 DEF RegistryInv
<1>3. ASSUME NEW c \in Conns, Arrive(c) PROVE RegistryInv'
  <2>1. SameConnections /\ UNCHANGED <<clients, rowId, nextId>>
    BY <1>3 DEF Arrive, TypeOK, ConnsIn, RowStages, NumberedStages, SameConnections
  <2>2. QED BY <2>1, RegistryUntouched
<1>4. ASSUME NEW c \in Conns, CountActive(c) PROVE RegistryInv'
  <2>1. SameConnections /\ UNCHANGED <<clients, rowId, nextId>>
    BY <1>4 DEF CountActive, TypeOK, ConnsIn, RowStages, NumberedStages, SameConnections
  <2>2. QED BY <2>1, RegistryUntouched
<1>5. ASSUME NEW c \in Conns, CountPerIp(c) PROVE RegistryInv'
  <2>1. SameConnections /\ UNCHANGED <<clients, rowId, nextId>>
    BY <1>5 DEF CountPerIp, TypeOK, ConnsIn, RowStages, NumberedStages, SameConnections
  <2>2. QED BY <2>1, RegistryUntouched
<1>6. ASSUME NEW c \in Conns, Finish(c) PROVE RegistryInv'
  <2>1. SameConnections /\ UNCHANGED <<clients, rowId, nextId>>
    BY <1>6 DEF Finish, TypeOK, ConnsIn, RowStages, NumberedStages, SameConnections
  <2>2. QED BY <2>1, RegistryUntouched
<1>7. ASSUME NEW c \in Conns, UncountActive(c) PROVE RegistryInv'
  <2>1. SameConnections /\ UNCHANGED <<clients, rowId, nextId>>
    BY <1>7 DEF UncountActive, TypeOK, ConnsIn, RowStages, NumberedStages, SameConnections
  <2>2. QED BY <2>1, RegistryUntouched
<1>8. ASSUME NEW c \in Conns, UncountPerIp(c) PROVE RegistryInv'
  <2>1. SameConnections /\ UNCHANGED <<clients, rowId, nextId>>
    BY <1>8 DEF UncountPerIp, TypeOK, ConnsIn, RowStages, NumberedStages, SameConnections
  <2>2. QED BY <2>1, RegistryUntouched
<1>9. ASSUME NEW c \in Conns, CloseStream(c) PROVE RegistryInv'
  <2>1. SameConnections /\ UNCHANGED <<clients, rowId, nextId>>
    BY <1>9 DEF CloseStream, TypeOK, ConnsIn, RowStages, NumberedStages, SameConnections
  <2>2. QED BY <2>1, RegistryUntouched
<1>10. ASSUME NEW c \in Conns, DropPermit(c) PROVE RegistryInv'
  <2>1. SameConnections /\ UNCHANGED <<clients, rowId, nextId>>
    BY <1>10 DEF DropPermit, TypeOK, ConnsIn, RowStages, NumberedStages, SameConnections
  <2>2. QED BY <2>1, RegistryUntouched
<1>11. ASSUME NEW c \in Conns, DropIpSlot(c) PROVE RegistryInv'
  <2>1. SameConnections /\ UNCHANGED <<clients, rowId, nextId>>
    BY <1>11 DEF DropIpSlot, TypeOK, ConnsIn, RowStages, NumberedStages, SameConnections
  <2>2. QED BY <2>1, RegistryUntouched
<1>12. ASSUME NEW l \in Listeners, LoopStep(l) PROVE RegistryInv'
  <2>1. SameConnections /\ UNCHANGED <<clients, rowId, nextId>>
    BY <1>12 DEF LoopStep, Acquire, AcceptOk, AcceptErr, TryAcquireOk, TryAcquireNone,
      DropRefused, HandOver, TypeOK, InHand, Holds, ConnsIn, RowStages,
      NumberedStages, SameConnections
  <2>2. QED BY <2>1, RegistryUntouched
<1>13. CASE UNCHANGED vars
  BY <1>13, RegistryUntouched DEF vars, ConnsIn, SameConnections
<1>14. QED
  BY <1>0, <1>1, <1>2, <1>3, <1>4, <1>5, <1>6, <1>7, <1>8, <1>9, <1>10, <1>11,
     <1>12, <1>13
  DEF Next, ConnStep

\* Rows and ids are in order in every reachable state.
LEMMA RegistryInvHolds == Spec => []RegistryInv
<1>1. PermitInv /\ RegistryInv /\ [Next]_vars => RegistryInv'
  BY NextRegistryInv DEF PermitInv
<1>2. QED BY <1>1, InitRegistryInv, PermitInvHolds, PTL DEF Spec

\* The live registry is exact for any number of connections, however their
\* begin_client and their guards' drops interleave: it holds one row for each
\* connection between the two, under an id no other connection has.
THEOREM RegistryIsExact == Spec => []RowsBelongToConnections
<1>1. RegistryInv => RowsBelongToConnections
  BY DEF RegistryInv
<1>2. QED BY <1>1, RegistryInvHolds, PTL

\* Each connection between its slot and its task is in the hand of a loop of
\* its own, which holds a permit for it.
LEMMA AdmittedAreBackedByLoops ==
  ASSUME TypeOK, InHand
  PROVE  /\ IsFiniteSet(ConnsIn({"admitted"}))
         /\ Cardinality(ConnsIn({"admitted"})) <= Cardinality(LoopsWithPermit)
<1> DEFINE f == [c \in ConnsIn({"admitted"}) |-> listener[c]]
<1>1. IsFiniteSet(LoopsWithPermit)
  BY FS_Subset, AdmissionAssumption DEF LoopsWithPermit
<1>2. f \in [ConnsIn({"admitted"}) -> LoopsWithPermit]
  BY DEF TypeOK, InHand, ConnsIn, LoopsWithPermit
<1>3. \A c, d \in ConnsIn({"admitted"}) : f[c] = f[d] => c = d
  BY DEF TypeOK, InHand, ConnsIn
<1>4. f \in Injection(ConnsIn({"admitted"}), LoopsWithPermit)
  BY <1>2, <1>3 DEF Injection, IsInjective
<1>5. QED BY <1>1, <1>4, FS_Injection

\* The registry has at most one row for each connection at a row stage.
LEMMA RowsAreBackedByConnections ==
  ASSUME RegistryInv
  PROVE  /\ Cardinality(clients) \in Nat
         /\ Cardinality(clients) <= Cardinality(ConnsIn(RowStages))
<1> DEFINE f == [c \in ConnsIn(RowStages) |-> rowId[c]]
<1>1. IsFiniteSet(ConnsIn(RowStages))
  BY FS_Subset, AdmissionAssumption DEF ConnsIn
<1>2. f \in Surjection(ConnsIn(RowStages), clients)
  BY DEF Surjection, RegistryInv, RowsBelongToConnections
<1>3. QED BY <1>1, <1>2, FS_Surjection, FS_CardinalityType

\* The connection cap holds for every max_connections and every number of
\* listeners: at most max_connections (at least one) connections are open at
\* once, and the registry the stats service renders never has more rows.
THEOREM CapHolds == Spec => []CapRespected
<1>1. ASSUME PermitInv, RegistryInv PROVE CapRespected
  <2> DEFINE A == ConnsIn({"admitted"})
             P == ConnsIn(PermitStages)
             O == ConnsIn(OpenStages)
             R == ConnsIn(RowStages)
  <2>1. IsFiniteSet(P) /\ IsFiniteSet(LoopsWithPermit)
    BY FS_Subset, AdmissionAssumption DEF ConnsIn, LoopsWithPermit
  <2>2. IsFiniteSet(A) /\ Cardinality(A) <= Cardinality(LoopsWithPermit)
    BY <1>1, AdmittedAreBackedByLoops DEF PermitInv
  <2>3. O \subseteq A \cup P /\ R \subseteq P
    BY DEF ConnsIn, OpenStages, PermitStages, RowStages, EndStages
  <2>4. permits \in Nat
        /\ permits + Cardinality(LoopsWithPermit) + Cardinality(P) = EffectiveMax
    BY <1>1 DEF PermitInv, TypeOK, PermitsConserved
  <2>5. Cardinality(clients) \in Nat /\ Cardinality(clients) <= Cardinality(R)
    BY <1>1, RowsAreBackedByConnections
  <2> HIDE DEF A, P, O, R
  <2>6. /\ Cardinality(A) \in Nat /\ Cardinality(P) \in Nat
        /\ Cardinality(LoopsWithPermit) \in Nat
    BY <2>1, <2>2, FS_CardinalityType
  <2>7. /\ IsFiniteSet(A \cup P) /\ Cardinality(A \cup P) \in Nat
        /\ Cardinality(A \cup P) <= Cardinality(A) + Cardinality(P)
    <3>1. IsFiniteSet(A \cap P) /\ Cardinality(A \cap P) \in Nat
      BY <2>1, FS_Intersection, FS_CardinalityType
    <3>2. /\ IsFiniteSet(A \cup P)
          /\ Cardinality(A \cup P)
               = Cardinality(A) + Cardinality(P) - Cardinality(A \cap P)
      BY <2>1, <2>2, FS_Union
    <3>3. Cardinality(A \cup P) \in Nat
      BY <3>2, FS_CardinalityType
    <3>4. QED BY <2>6, <3>1, <3>2, <3>3
  <2>8. /\ Cardinality(O) \in Nat /\ Cardinality(O) <= Cardinality(A \cup P)
        /\ Cardinality(R) \in Nat /\ Cardinality(R) <= Cardinality(P)
    BY <2>1, <2>3, <2>7, FS_Subset, FS_CardinalityType
  <2>9. Cardinality(O) <= EffectiveMax
    BY <2>2, <2>4, <2>6, <2>7, <2>8, EffectiveMaxType
  <2>10. Cardinality(clients) <= EffectiveMax
    BY <2>4, <2>5, <2>6, <2>8, EffectiveMaxType
  <2>11. QED BY <2>9, <2>10 DEF CapRespected, O
<1>2. QED BY <1>1, PermitInvHolds, RegistryInvHolds, PTL

-----------------------------------------------------------------------------
(* The life of a connection, as the limiter and the statistics see it      *)

\* What a step does to a map of counters when a connection of source ip goes
\* from stage s to stage t, if the map counts the connections in S.
Recount(map, ip, s, t, S) ==
  IF s \notin S /\ t \in S THEN Bump(map, ip)
  ELSE IF s \in S /\ t \notin S THEN Unbump(map, ip)
  ELSE map

\* The transitions of a connection attempt.
LifeCycle ==
  {<<"idle", "backlog">>, <<"backlog", "accepted">>, <<"accepted", "admitted">>,
   <<"accepted", "refusing">>, <<"refusing", "refused">>,
   <<"admitted", "spawned">>, <<"spawned", "numbered">>, <<"numbered", "row">>,
   <<"row", "counted">>, <<"counted", "serving">>, <<"serving", "finished">>,
   <<"finished", "uncounted">>, <<"uncounted", "unlisted">>,
   <<"unlisted", "unrowed">>, <<"unrowed", "closed">>, <<"closed", "half">>,
   <<"half", "done">>}

\* The stages in which an attempt is in one of the two totals.
TotalledStages == Stages \ {"idle", "backlog", "accepted", "admitted"}

\* Connection c goes from its stage to t, and the limiter, the per-source
\* gauge and the totals follow.
Goes(c, t) ==
  /\ stage' = [stage EXCEPT ![c] = t]
  /\ <<stage[c], t>> \in LifeCycle
  /\ counts' = Recount(counts, IpOf[c], stage[c], t, SlotStages)
  /\ perIp' = Recount(perIp, IpOf[c], stage[c], t, PerIpStages)
  /\ accepted' + refused' =
       accepted + refused + (IF t \in {"refusing", "spawned"} THEN 1 ELSE 0)
  /\ t = "admitted" /\ Limited => HasSlot(IpOf[c])
  /\ t = "refusing" => Limited /\ ~HasSlot(IpOf[c])

\* Which stages of the limiter, of the per-source gauge and of the totals a
\* transition enters or leaves.
LEMMA LifeCycleFacts ==
  ASSUME NEW s, NEW t, <<s, t>> \in LifeCycle
  PROVE  /\ s \in Stages /\ t \in Stages
         /\ s \notin SlotStages /\ t \in SlotStages <=> t = "admitted" /\ Limited
         /\ s \in SlotStages /\ t \notin SlotStages <=>
              Limited /\ t = (IF HalfHoldsPermit THEN "half" ELSE "done")
         /\ s \notin PerIpStages /\ t \in PerIpStages <=> t = "serving"
         /\ s \in PerIpStages /\ t \notin PerIpStages <=> t = "unlisted"
         /\ s \notin TotalledStages /\ t \in TotalledStages <=>
              t \in {"refusing", "spawned"}
         /\ ~(s \in TotalledStages /\ t \notin TotalledStages)
  BY DEF LifeCycle, Stages, SlotStages, PerIpStages, TotalledStages, BeginStages,
         RowStages, EndStages, HalfHoldsPermit

\* Every step takes at most one connection one stage further, and what the
\* code changes along with it is what Goes says.
LEMMA EveryStepGoes ==
  ASSUME TypeOK, InHand, [Next]_vars
  PROVE  \/ UNCHANGED <<stage, counts, perIp, accepted, refused>>
         \/ \E c \in Conns, t \in Stages : Goes(c, t)
<1> USE DEF loopVars, limitVars, statVars, totalVars
<1>0. ASSUME NEW c \in Conns, NEW t,
             <<stage[c], t>> \in LifeCycle, stage' = [stage EXCEPT ![c] = t],
             t \notin {"admitted", "refusing", "spawned"},
             UNCHANGED <<accepted, refused>>,
             counts' = IF Limited /\ t = (IF HalfHoldsPermit THEN "half" ELSE "done")
                         THEN Unbump(counts, IpOf[c]) ELSE counts,
             perIp' = IF t = "serving" THEN Bump(perIp, IpOf[c])
                      ELSE IF t = "unlisted" THEN Unbump(perIp, IpOf[c]) ELSE perIp
      PROVE  \E d \in Conns, u \in Stages : Goes(d, u)
  <2>1. t \in Stages /\ Goes(c, t)
    BY <1>0, LifeCycleFacts DEF Goes, Recount, TypeOK
  <2>2. QED BY <2>1
<1>1. ASSUME NEW c \in Conns, Arrive(c) PROVE \E d \in Conns, u \in Stages : Goes(d, u)
  <2>1. <<stage[c], "backlog">> \in LifeCycle
    BY <1>1 DEF Arrive, LifeCycle
  <2>2. QED BY <1>0, <1>1, <2>1 DEF Arrive
<1>2. ASSUME NEW c \in Conns, TakeId(c) PROVE \E d \in Conns, u \in Stages : Goes(d, u)
  <2>1. <<stage[c], "numbered">> \in LifeCycle
    BY <1>2 DEF TakeId, LifeCycle
  <2>2. QED BY <1>0, <1>2, <2>1 DEF TakeId
<1>3. ASSUME NEW c \in Conns, InsertRow(c) PROVE \E d \in Conns, u \in Stages : Goes(d, u)
  <2>1. <<stage[c], "row">> \in LifeCycle
    BY <1>3 DEF InsertRow, LifeCycle
  <2>2. QED BY <1>0, <1>3, <2>1 DEF InsertRow
<1>4. ASSUME NEW c \in Conns, CountActive(c) PROVE \E d \in Conns, u \in Stages : Goes(d, u)
  <2>1. <<stage[c], "counted">> \in LifeCycle
    BY <1>4 DEF CountActive, LifeCycle
  <2>2. QED BY <1>0, <1>4, <2>1 DEF CountActive
<1>5. ASSUME NEW c \in Conns, CountPerIp(c) PROVE \E d \in Conns, u \in Stages : Goes(d, u)
  <2>1. <<stage[c], "serving">> \in LifeCycle
    BY <1>5 DEF CountPerIp, LifeCycle
  <2>2. QED BY <1>0, <1>5, <2>1 DEF CountPerIp
<1>6. ASSUME NEW c \in Conns, Finish(c) PROVE \E d \in Conns, u \in Stages : Goes(d, u)
  <2>1. <<stage[c], "finished">> \in LifeCycle
    BY <1>6 DEF Finish, LifeCycle
  <2>2. QED BY <1>0, <1>6, <2>1 DEF Finish
<1>7. ASSUME NEW c \in Conns, UncountActive(c)
      PROVE  \E d \in Conns, u \in Stages : Goes(d, u)
  <2>1. <<stage[c], "uncounted">> \in LifeCycle
    BY <1>7 DEF UncountActive, LifeCycle
  <2>2. QED BY <1>0, <1>7, <2>1 DEF UncountActive
<1>8. ASSUME NEW c \in Conns, UncountPerIp(c)
      PROVE  \E d \in Conns, u \in Stages : Goes(d, u)
  <2>1. <<stage[c], "unlisted">> \in LifeCycle
    BY <1>8 DEF UncountPerIp, LifeCycle
  <2>2. QED BY <1>0, <1>8, <2>1 DEF UncountPerIp
<1>9. ASSUME NEW c \in Conns, RemoveRow(c) PROVE \E d \in Conns, u \in Stages : Goes(d, u)
  <2>1. <<stage[c], "unrowed">> \in LifeCycle
    BY <1>9 DEF RemoveRow, LifeCycle
  <2>2. QED BY <1>0, <1>9, <2>1 DEF RemoveRow
<1>10. ASSUME NEW c \in Conns, CloseStream(c)
       PROVE  \E d \in Conns, u \in Stages : Goes(d, u)
  <2>1. <<stage[c], "closed">> \in LifeCycle
    BY <1>10 DEF CloseStream, LifeCycle
  <2>2. QED BY <1>0, <1>10, <2>1 DEF CloseStream
<1>11. ASSUME NEW c \in Conns, DropPermit(c) PROVE \E d \in Conns, u \in Stages : Goes(d, u)
  <2> DEFINE u == IF HalfHoldsPermit THEN "done" ELSE "half"
  <2>1. <<stage[c], u>> \in LifeCycle /\ stage' = [stage EXCEPT ![c] = u]
    BY <1>11 DEF DropPermit, LifeCycle
  <2>2. counts' = IF Limited /\ u = (IF HalfHoldsPermit THEN "half" ELSE "done")
                    THEN Unbump(counts, IpOf[c]) ELSE counts
    BY <1>11 DEF DropPermit
  <2>3. u \in {"half", "done"} /\ UNCHANGED <<perIp, accepted, refused>>
    BY <1>11 DEF DropPermit
  <2> HIDE DEF u
  <2>4. QED BY <1>0, <2>1, <2>2, <2>3
<1>12. ASSUME NEW c \in Conns, DropIpSlot(c) PROVE \E d \in Conns, u \in Stages : Goes(d, u)
  <2> DEFINE u == IF HalfHoldsPermit THEN "half" ELSE "done"
  <2>1. <<stage[c], u>> \in LifeCycle /\ stage' = [stage EXCEPT ![c] = u]
    BY <1>12 DEF DropIpSlot, LifeCycle
  <2>2. counts' = IF Limited /\ u = (IF HalfHoldsPermit THEN "half" ELSE "done")
                    THEN Unbump(counts, IpOf[c]) ELSE counts
    BY <1>12 DEF DropIpSlot
  <2>3. u \in {"half", "done"} /\ UNCHANGED <<perIp, accepted, refused>>
    BY <1>12 DEF DropIpSlot
  <2> HIDE DEF u
  <2>4. QED BY <1>0, <2>1, <2>2, <2>3
<1>13. ASSUME NEW l \in Listeners, NEW c \in Conns, AcceptOk(l, c)
      PROVE  \E d \in Conns, u \in Stages : Goes(d, u)
  <2>1. <<stage[c], "accepted">> \in LifeCycle
    BY <1>13 DEF AcceptOk, LifeCycle
  <2>2. QED BY <1>0, <1>13, <2>1 DEF AcceptOk
<1>14. ASSUME NEW l \in Listeners, DropRefused(l)
      PROVE  \E d \in Conns, u \in Stages : Goes(d, u)
  <2>1. PICK c \in Conns : c = cur[l] /\ stage[c] = "refusing"
    BY <1>14 DEF DropRefused, InHand, Holds
  <2>2. <<stage[c], "refused">> \in LifeCycle
    BY <2>1 DEF LifeCycle
  <2>3. stage' = [stage EXCEPT ![c] = "refused"]
        /\ UNCHANGED <<counts, perIp, accepted, refused>>
    BY <1>14, <2>1 DEF DropRefused
  <2>4. QED BY <1>0, <2>2, <2>3
<1>15. ASSUME NEW l \in Listeners, TryAcquireOk(l)
      PROVE  \E d \in Conns, u \in Stages : Goes(d, u)
  <2>1. cur[l] \in Conns /\ stage[cur[l]] = "accepted"
    BY <1>15 DEF TryAcquireOk, InHand, Holds
  <2>2. <<stage[cur[l]], "admitted">> \in LifeCycle
    BY <2>1 DEF LifeCycle
  <2>3. "admitted" \in Stages /\ Goes(cur[l], "admitted")
    BY <1>15, <2>1, <2>2, LifeCycleFacts DEF TryAcquireOk, Goes, Recount, TypeOK
  <2>4. QED BY <2>1, <2>3
<1>16. ASSUME NEW l \in Listeners, TryAcquireNone(l)
      PROVE  \E d \in Conns, u \in Stages : Goes(d, u)
  <2>1. cur[l] \in Conns /\ stage[cur[l]] = "accepted"
    BY <1>16 DEF TryAcquireNone, InHand, Holds
  <2>2. <<stage[cur[l]], "refusing">> \in LifeCycle
    BY <2>1 DEF LifeCycle
  <2>3. "refusing" \in Stages /\ Goes(cur[l], "refusing")
    BY <1>16, <2>1, <2>2, LifeCycleFacts DEF TryAcquireNone, Goes, Recount, TypeOK
  <2>4. QED BY <2>1, <2>3
<1>17. ASSUME NEW l \in Listeners, HandOver(l)
      PROVE  \E d \in Conns, u \in Stages : Goes(d, u)
  <2>1. cur[l] \in Conns /\ stage[cur[l]] = "admitted"
    BY <1>17 DEF HandOver, InHand, Holds
  <2>2. <<stage[cur[l]], "spawned">> \in LifeCycle
    BY <2>1 DEF LifeCycle
  <2>3. "spawned" \in Stages /\ Goes(cur[l], "spawned")
    BY <1>17, <2>1, <2>2, LifeCycleFacts DEF HandOver, Goes, Recount, TypeOK
  <2>4. QED BY <2>1, <2>3
<1>18. ASSUME NEW l \in Listeners, Acquire(l) \/ AcceptErr(l)
      PROVE  UNCHANGED <<stage, counts, perIp, accepted, refused>>
  BY <1>18 DEF Acquire, AcceptErr
<1>19. CASE UNCHANGED vars
  BY <1>19 DEF vars
<1>20. QED
  BY <1>1, <1>2, <1>3, <1>4, <1>5, <1>6, <1>7, <1>8, <1>9, <1>10,
     <1>11, <1>12, <1>13, <1>14, <1>15, <1>16, <1>17, <1>18, <1>19
     DEF Next, LoopStep, ConnStep

-----------------------------------------------------------------------------
(* The limiter                                                             *)

\* The connections of source ip that the map f has at the stages S: what
\* ConnsOfIn is for the map stage, before a step or after it.
At(f, ip, S) == {d \in Conns : IpOf[d] = ip /\ f[d] \in S}

\* From f to g, no connection but c changes its stage.
OnlyMoves(c, f, g) == \A d \in Conns \ {c} : g[d] = f[d]

\* A map counts, source by source, the connections at the stages S, and has a
\* key only for a source that has one.
CountsExactly(map, f, S) ==
  \A ip \in Ips :
    /\ Held(map, ip) = Cardinality(At(f, ip, S))
    /\ ip \in DOMAIN map => map[ip] > 0

\* When a connection changes its stage, only its own source's number of
\* connections at the stages S can change, by at most one.
LEMMA SourceMoved ==
  ASSUME NEW f, NEW g, NEW c \in Conns, NEW S, NEW ip,
         OnlyMoves(c, f, g)
  PROVE  /\ Cardinality(At(f, ip, S)) \in Nat
         /\ ip = IpOf[c] /\ f[c] \in S /\ g[c] \notin S =>
              Cardinality(At(g, ip, S)) = Cardinality(At(f, ip, S)) - 1
         /\ ip = IpOf[c] /\ f[c] \notin S /\ g[c] \in S =>
              Cardinality(At(g, ip, S)) = Cardinality(At(f, ip, S)) + 1
         /\ ip # IpOf[c] \/ (f[c] \in S <=> g[c] \in S) =>
              Cardinality(At(g, ip, S)) = Cardinality(At(f, ip, S))
<1> DEFINE A == At(f, ip, S)
           B == At(g, ip, S)
<1>1. IsFiniteSet(A)
  BY FS_Subset, AdmissionAssumption DEF At
<1>2. \A d : d # c => (d \in A <=> d \in B)
  BY DEF At, OnlyMoves
<1>3. /\ c \in A <=> ip = IpOf[c] /\ f[c] \in S
      /\ c \in B <=> ip = IpOf[c] /\ g[c] \in S
  BY DEF At
<1> HIDE DEF A, B
<1>4. QED BY <1>1, <1>2, <1>3, Moved DEF A, B

\* Bump adds one to a source and leaves the others alone.
LEMMA HeldAfterBump ==
  ASSUME NEW map, NEW ip, NEW x
  PROVE  /\ Held(Bump(map, ip), x) = IF x = ip THEN Held(map, ip) + 1 ELSE Held(map, x)
         /\ x \in DOMAIN Bump(map, ip) <=> x = ip \/ x \in DOMAIN map
         /\ x \in DOMAIN Bump(map, ip) =>
              Bump(map, ip)[x] = IF x = ip THEN Held(map, ip) + 1 ELSE map[x]
  BY DEF Bump, Held

\* Unbump takes one from a source that has some, drops its key with the last,
\* and leaves the others alone.
LEMMA HeldAfterUnbump ==
  ASSUME NEW map, NEW ip \in DOMAIN map, NEW x, map[ip] \in Nat, map[ip] > 0
  PROVE  /\ Held(Unbump(map, ip), x) = IF x = ip THEN Held(map, ip) - 1 ELSE Held(map, x)
         /\ x \in DOMAIN Unbump(map, ip) =>
              /\ x \in DOMAIN map
              /\ x = ip => Unbump(map, ip)[x] = map[ip] - 1 /\ map[ip] > 1
              /\ x # ip => Unbump(map, ip)[x] = map[x]
<1>1. CASE map[ip] <= 1
  BY <1>1 DEF Unbump, Held
<1>2. CASE ~(map[ip] <= 1)
  <2>1. Unbump(map, ip) = [map EXCEPT ![ip] = @ - 1]
    BY <1>2 DEF Unbump
  <2>2. DOMAIN Unbump(map, ip) = DOMAIN map
    BY <2>1
  <2>3. \A y \in DOMAIN map :
          Unbump(map, ip)[y] = IF y = ip THEN map[ip] - 1 ELSE map[y]
    BY <2>1
  <2>4. QED BY <1>2, <2>2, <2>3 DEF Held
<1>3. QED BY <1>1, <1>2

\* A map that follows the moves of a connection keeps counting exactly.
LEMMA RecountIsExact ==
  ASSUME NEW f, NEW g, NEW c \in Conns, NEW S, NEW map,
         OnlyMoves(c, f, g),
         \A ip \in DOMAIN map : map[ip] \in Nat,
         CountsExactly(map, f, S)
  PROVE  CountsExactly(Recount(map, IpOf[c], f[c], g[c], S), g, S)
<1> DEFINE new == Recount(map, IpOf[c], f[c], g[c], S)
<1> SUFFICES ASSUME NEW ip \in Ips
             PROVE  /\ Held(new, ip) = Cardinality(At(g, ip, S))
                    /\ ip \in DOMAIN new => new[ip] > 0
  BY DEF CountsExactly
<1> DEFINE n == Cardinality(At(f, ip, S))
           m == Cardinality(At(g, ip, S))
<1>1. /\ n \in Nat
      /\ ip = IpOf[c] /\ f[c] \in S /\ g[c] \notin S => m = n - 1
      /\ ip = IpOf[c] /\ f[c] \notin S /\ g[c] \in S => m = n + 1
      /\ ip # IpOf[c] \/ (f[c] \in S <=> g[c] \in S) => m = n
  BY SourceMoved
<1>2. Held(map, ip) = n /\ (ip \in DOMAIN map => map[ip] > 0)
  BY DEF CountsExactly
<1>0. new = Recount(map, IpOf[c], f[c], g[c], S)
  OBVIOUS
<1> HIDE DEF n, m, new
<1>3. CASE f[c] \notin S /\ g[c] \in S
  <2>1. new = Bump(map, IpOf[c])
    BY <1>0, <1>3 DEF Recount
  <2>2. Held(new, ip) = IF ip = IpOf[c] THEN n + 1 ELSE n
    BY <2>1, <1>2, HeldAfterBump
  <2>3. ip \in DOMAIN new => new[ip] > 0
    BY <2>1, <1>1, <1>2, HeldAfterBump
  <2>4. QED BY <1>1, <1>3, <2>2, <2>3 DEF m, new
<1>4. CASE f[c] \in S /\ g[c] \notin S
  <2>0. IpOf[c] \in Ips /\ c \in At(f, IpOf[c], S)
    BY <1>4, AdmissionAssumption DEF At
  <2>1. Cardinality(At(f, IpOf[c], S)) # 0
    <3>1. IsFiniteSet(At(f, IpOf[c], S))
      BY FS_Subset, AdmissionAssumption DEF At
    <3>2. QED BY <2>0, <3>1, FS_EmptySet
  <2>2. Held(map, IpOf[c]) # 0
    BY <2>0, <2>1 DEF CountsExactly
  <2>3. IpOf[c] \in DOMAIN map /\ map[IpOf[c]] \in Nat /\ map[IpOf[c]] > 0
    BY <2>0, <2>2 DEF Held, CountsExactly
  <2>4. new = Unbump(map, IpOf[c])
    BY <1>0, <1>4 DEF Recount
  <2>5. Held(new, ip) = IF ip = IpOf[c] THEN n - 1 ELSE n
    BY <2>3, <2>4, <1>2, HeldAfterUnbump
  <2>6. ip \in DOMAIN new => new[ip] > 0
    BY <2>3, <2>4, <1>2, HeldAfterUnbump
  <2>7. QED BY <1>1, <1>4, <2>5, <2>6 DEF m, new
<1>5. CASE f[c] \in S <=> g[c] \in S
  <2>1. new = map
    BY <1>0, <1>5 DEF Recount
  <2>2. m = n
    BY <1>1, <1>5
  <2>3. QED BY <1>2, <2>1, <2>2 DEF m, new
<1>6. QED BY <1>3, <1>4, <1>5 DEF new

\* The limiter's map and the limit it enforces.
LimiterInv == LimiterExact /\ SlotsWithinLimit

\* An empty map is exact: nothing holds a slot yet.
LEMMA InitLimiterInv == Init => LimiterInv
<1> SUFFICES ASSUME Init PROVE LimiterInv
  OBVIOUS
<1>1. \A ip \in Ips : ConnsOfIn(ip, SlotStages) = {}
  BY DEF Init, ConnsOfIn, SlotStages, BeginStages, RowStages, EndStages
<1>2. \A ip \in Ips : Cardinality(ConnsOfIn(ip, SlotStages)) = 0
  BY <1>1, FS_EmptySet
<1>3. DOMAIN counts = {}
  BY DEF Init
<1>4. LimiterExact
  BY <1>2, <1>3 DEF LimiterExact, Held
<1>5. SlotsWithinLimit
  BY <1>2, AdmissionAssumption DEF SlotsWithinLimit
<1>6. QED BY <1>4, <1>5 DEF LimiterInv

\* try_acquire grants a slot only below the limit, and every slot granted is
\* counted until its guard is dropped.
LEMMA NextLimiterInv ==
  ASSUME TypeOK, InHand, LimiterInv, [Next]_vars
  PROVE  LimiterInv'
<1>1. CASE UNCHANGED <<stage, counts, perIp, accepted, refused>>
  BY <1>1 DEF LimiterInv, LimiterExact, SlotsWithinLimit, ConnsOfIn, Held
<1>2. CASE \E c \in Conns, t \in Stages : Goes(c, t)
  <2> PICK c \in Conns, t \in Stages : Goes(c, t)
    BY <1>2
  <2>0. /\ stage \in [Conns -> Stages]
        /\ \A ip \in DOMAIN counts : counts[ip] \in Nat
    BY DEF TypeOK
  <2>1. /\ stage' = [stage EXCEPT ![c] = t]
        /\ <<stage[c], t>> \in LifeCycle
        /\ counts' = Recount(counts, IpOf[c], stage[c], t, SlotStages)
        /\ t = "admitted" /\ Limited => HasSlot(IpOf[c])
    BY DEF Goes
  <2>a. stage'[c] = t /\ OnlyMoves(c, stage, stage')
    BY <2>0, <2>1 DEF OnlyMoves
  <2>2. CountsExactly(counts, stage, SlotStages)
    BY DEF LimiterInv, LimiterExact, CountsExactly, At, ConnsOfIn
  <2>3. CountsExactly(counts', stage', SlotStages)
    BY <2>0, <2>1, <2>a, <2>2, RecountIsExact
  <2>4. LimiterExact'
    BY <2>3 DEF LimiterExact, CountsExactly, At, ConnsOfIn, Held
  <2>5. ASSUME Limited, NEW ip \in Ips
        PROVE  Cardinality(At(stage', ip, SlotStages)) <= PerIpLimit
    <3> DEFINE n == Cardinality(At(stage, ip, SlotStages))
               m == Cardinality(At(stage', ip, SlotStages))
    <3>1. n <= PerIpLimit /\ n = Held(counts, ip)
      BY <2>5, <2>2 DEF LimiterInv, SlotsWithinLimit, CountsExactly, At, ConnsOfIn
    <3>2. /\ n \in Nat
          /\ ip = IpOf[c] /\ stage[c] \in SlotStages /\ stage'[c] \notin SlotStages
               => m = n - 1
          /\ ip = IpOf[c] /\ stage[c] \notin SlotStages /\ stage'[c] \in SlotStages
               => m = n + 1
          /\ ip # IpOf[c] \/ (stage[c] \in SlotStages <=> stage'[c] \in SlotStages)
               => m = n
      BY <2>a, SourceMoved
    <3>3. ip = IpOf[c] /\ stage[c] \notin SlotStages /\ t \in SlotStages =>
            n < PerIpLimit
      BY <2>5, <2>1, <3>1, LifeCycleFacts DEF HasSlot
    <3> HIDE DEF n, m
    <3>4. m <= PerIpLimit
      BY <2>a, <3>1, <3>2, <3>3, AdmissionAssumption
    <3>5. QED BY <3>4 DEF m
  <2>6. SlotsWithinLimit'
    BY <2>5 DEF SlotsWithinLimit, At, ConnsOfIn
  <2>7. QED BY <2>4, <2>6 DEF LimiterInv
<1>3. QED BY <1>1, <1>2, EveryStepGoes

\* The limiter's map is exact in every reachable state.
LEMMA LimiterInvHolds == Spec => []LimiterInv
<1>1. PermitInv /\ LimiterInv /\ [Next]_vars => LimiterInv'
  BY NextLimiterInv DEF PermitInv
<1>2. QED BY <1>1, InitLimiterInv, PermitInvHolds, PTL DEF Spec

\* For any limit, any number of sources and both drop orders, the limiter's
\* map counts exactly the slots in use and has no key for a source without
\* one: it neither leaks a slot nor grows with the sources ever seen.
THEOREM LimiterIsExact == Spec => []LimiterExact
<1>1. LimiterInv => LimiterExact
  BY DEF LimiterInv
<1>2. QED BY <1>1, LimiterInvHolds, PTL

\* No source ever has more connections open than its limit, however many
\* accept loops decide at once: the check and the increment are one critical
\* section, and the slot outlives the stream it was granted for.
THEOREM PerIpCapHolds == Spec => []PerIpCapRespected
<1>1. ASSUME LimiterInv PROVE PerIpCapRespected
  <2> SUFFICES ASSUME Limited, NEW ip \in Ips
               PROVE  Cardinality(ConnsOfIn(ip, OpenStages)) <= PerIpLimit
    BY DEF PerIpCapRespected
  <2> DEFINE O == ConnsOfIn(ip, OpenStages)
             S == ConnsOfIn(ip, SlotStages)
  <2>1. O \subseteq S
    BY DEF ConnsOfIn, OpenStages, SlotStages, EndStages
  <2>2. IsFiniteSet(S)
    BY FS_Subset, AdmissionAssumption DEF ConnsOfIn
  <2>3. Cardinality(S) <= PerIpLimit
    BY <1>1 DEF LimiterInv, SlotsWithinLimit
  <2> HIDE DEF O, S
  <2>4. /\ Cardinality(O) \in Nat /\ Cardinality(S) \in Nat
        /\ Cardinality(O) <= Cardinality(S)
    BY <2>1, <2>2, FS_Subset, FS_CardinalityType
  <2>5. Cardinality(O) <= PerIpLimit
    BY <2>3, <2>4, AdmissionAssumption
  <2>6. QED BY <2>5 DEF O
<1>2. QED BY <1>1, LimiterInvHolds, PTL

-----------------------------------------------------------------------------
(* The statistics                                                          *)

\* The per-source gauge counts the connections between its two updates, and
\* the totals the attempts decided on.
StatisticsInv ==
  /\ CountsExactly(perIp, stage, PerIpStages)
  /\ accepted + refused = Cardinality(ConnsIn(TotalledStages))

\* Nothing is counted before the first connection.
LEMMA InitStatisticsInv == Init => StatisticsInv
<1> SUFFICES ASSUME Init PROVE StatisticsInv
  OBVIOUS
<1>1. ConnsIn(TotalledStages) = {} /\ \A ip \in Ips : At(stage, ip, PerIpStages) = {}
  BY DEF Init, ConnsIn, At, TotalledStages, PerIpStages
<1>2. /\ Cardinality(ConnsIn(TotalledStages)) = 0
      /\ \A ip \in Ips : Cardinality(At(stage, ip, PerIpStages)) = 0
  BY <1>1, FS_EmptySet
<1>3. DOMAIN perIp = {} /\ accepted + refused = 0
  BY DEF Init
<1>4. QED BY <1>2, <1>3 DEF StatisticsInv, CountsExactly, Held

\* Every update of a gauge or a total goes with the stage it counts.
LEMMA NextStatisticsInv ==
  ASSUME TypeOK, InHand, StatisticsInv, [Next]_vars
  PROVE  StatisticsInv'
<1>1. CASE UNCHANGED <<stage, counts, perIp, accepted, refused>>
  BY <1>1 DEF StatisticsInv, CountsExactly, At, ConnsIn, Held
<1>2. CASE \E c \in Conns, t \in Stages : Goes(c, t)
  <2> PICK c \in Conns, t \in Stages : Goes(c, t)
    BY <1>2
  <2>1. /\ stage' = [stage EXCEPT ![c] = t]
        /\ <<stage[c], t>> \in LifeCycle
        /\ perIp' = Recount(perIp, IpOf[c], stage[c], t, PerIpStages)
        /\ accepted' + refused' =
             accepted + refused + (IF t \in {"refusing", "spawned"} THEN 1 ELSE 0)
    BY DEF Goes
  <2>2. /\ \A ip \in DOMAIN perIp : perIp[ip] \in Nat
        /\ stage'[c] = t /\ OnlyMoves(c, stage, stage')
    BY <2>1 DEF OnlyMoves, TypeOK
  <2>3. CountsExactly(perIp', stage', PerIpStages)
    BY <2>1, <2>2, RecountIsExact DEF StatisticsInv
  <2>4. accepted' + refused' = Cardinality(ConnsIn(TotalledStages)')
    <3> DEFINE n == Cardinality(ConnsIn(TotalledStages))
               m == Cardinality(ConnsIn(TotalledStages)')
    <3>1. /\ n \in Nat
          /\ stage[c] \notin TotalledStages /\ t \in TotalledStages => m = n + 1
          /\ (stage[c] \in TotalledStages <=> t \in TotalledStages) => m = n
      BY <2>1, StageMoved
    <3>2. accepted + refused = n
      BY DEF StatisticsInv
    <3>3. /\ stage[c] \notin TotalledStages /\ t \in TotalledStages
               <=> t \in {"refusing", "spawned"}
          /\ ~(stage[c] \in TotalledStages /\ t \notin TotalledStages)
      BY <2>1, LifeCycleFacts
    <3> HIDE DEF n, m
    <3>4. accepted' + refused' = m
      BY <2>1, <3>1, <3>2, <3>3
    <3>5. QED BY <3>4 DEF m
  <2>5. QED BY <2>3, <2>4 DEF StatisticsInv, CountsExactly, At, Held
<1>3. QED BY <1>1, <1>2, EveryStepGoes

\* The gauges are exact in every reachable state.
LEMMA StatisticsInvHolds == Spec => []StatisticsInv
<1>1. PermitInv /\ StatisticsInv /\ [Next]_vars => StatisticsInv'
  BY NextStatisticsInv DEF PermitInv
<1>2. QED BY <1>1, InitStatisticsInv, PermitInvHolds, PTL DEF Spec

\* Between any two updates of begin_client, of a guard's drop and of the accept
\* loops, whatever their number, the statistics agree: the gauge never exceeds
\* the rows, no source is listed with more connections than it has rows, none
\* is listed with zero, and the totals account for every attempt decided on.
THEOREM StatisticsAlwaysAgree == Spec => []StatisticsAgree
<1>1. ASSUME PermitInv, RegistryInv, StatisticsInv PROVE StatisticsAgree
  <2>1. active <= Cardinality(clients)
    <3> DEFINE R == ConnsIn(RowStages)
               A == ConnsIn(ActiveStages)
               f == [c \in R |-> rowId[c]]
    <3>1. IsFiniteSet(R) /\ A \subseteq R
      BY FS_Subset, AdmissionAssumption DEF ConnsIn, ActiveStages, RowStages
    <3>2. f \in Surjection(R, clients)
      BY <1>1 DEF Surjection, RegistryInv, RowsBelongToConnections
    <3>3. f \in Injection(R, clients)
      BY <1>1 DEF Injection, IsInjective, RegistryInv, RowsBelongToConnections
    <3>4. active = Cardinality(A)
      BY <1>1 DEF PermitInv, ActiveExact
    <3> HIDE DEF R, A, f
    <3>5. IsFiniteSet(clients)
      BY <3>1, <3>2, FS_Surjection
    <3>6. Cardinality(R) <= Cardinality(clients)
      BY <3>3, <3>5, FS_Injection
    <3>7. /\ Cardinality(A) \in Nat /\ Cardinality(R) \in Nat
          /\ Cardinality(clients) \in Nat
          /\ Cardinality(A) <= Cardinality(R)
      BY <3>1, <3>5, FS_Subset, FS_CardinalityType
    <3>8. QED BY <3>4, <3>6, <3>7
  <2>2. ASSUME NEW ip \in DOMAIN perIp
        PROVE  perIp[ip] > 0 /\ perIp[ip] <= Cardinality(ConnsOfIn(ip, RowStages))
    <3> DEFINE P == At(stage, ip, PerIpStages)
               R == ConnsOfIn(ip, RowStages)
    <3>1. ip \in Ips
      BY <1>1 DEF PermitInv, TypeOK
    <3>2. perIp[ip] > 0 /\ perIp[ip] = Cardinality(P)
      BY <1>1, <3>1 DEF StatisticsInv, CountsExactly, Held
    <3>3. IsFiniteSet(R) /\ P \subseteq R
      BY FS_Subset, AdmissionAssumption DEF ConnsOfIn, At, PerIpStages, RowStages
    <3> HIDE DEF P, R
    <3>4. Cardinality(P) <= Cardinality(R)
      BY <3>3, FS_Subset
    <3>5. QED BY <3>2, <3>4 DEF R
  <2>3. {c \in Conns : stage[c] \notin {"idle", "backlog", "accepted", "admitted"}}
          = ConnsIn(TotalledStages)
    BY <1>1 DEF PermitInv, TypeOK, ConnsIn, TotalledStages
  <2>4. QED BY <1>1, <2>1, <2>2, <2>3 DEF StatisticsAgree, StatisticsInv
<1>2. QED BY <1>1, PermitInvHolds, RegistryInvHolds, StatisticsInvHolds, PTL

-----------------------------------------------------------------------------
(* The connection budget                                                   *)

\* The stages in which a closed connection still weighs on its source.
DrainStages == {"closed"} \cup ({"half"} \cap SlotStages)

\* The stages in which an attempt has been turned away.
RefusedStages == {"refusing", "refused"}

\* What each transition is to the budget: admission, refusal, the close of a
\* stream, the return of a share, or nothing.
LEMMA LifeCycleOfBudget ==
  ASSUME NEW s, NEW t, <<s, t>> \in LifeCycle
  PROVE  /\ s \notin OpenStages /\ t \in OpenStages <=> t = "admitted"
         /\ s \in OpenStages /\ t \notin OpenStages <=> t = "closed"
         /\ s \notin DrainStages /\ t \in DrainStages <=> t = "closed"
         /\ s \notin RefusedStages /\ t \in RefusedStages <=> t = "refusing"
         /\ ~(s \in RefusedStages /\ t \notin RefusedStages)
         /\ s \in DrainStages /\ t \notin DrainStages => t \in {"half", "done"}
         /\ t \in {"admitted", "refusing"} => s = "accepted"
  BY DEF LifeCycle, OpenStages, DrainStages, RefusedStages, SlotStages, BeginStages,
         RowStages, EndStages

\* A connection that changes its stage enters a set of stages, leaves it, or
\* neither.
LEMMA ConnsMoved ==
  ASSUME TypeOK, NEW c \in Conns, NEW t \in Stages, NEW S,
         stage' = [stage EXCEPT ![c] = t]
  PROVE  /\ stage[c] \in S <=> c \in ConnsIn(S)
         /\ stage[c] \notin S /\ t \in S => ConnsIn(S)' = ConnsIn(S) \cup {c}
         /\ stage[c] \in S /\ t \notin S => ConnsIn(S)' = ConnsIn(S) \ {c}
         /\ (stage[c] \in S <=> t \in S) => ConnsIn(S)' = ConnsIn(S)
  BY DEF TypeOK, ConnsIn

\* Under a limit, what a source has open or draining is what it has slots for.
LEMMA SharesAreSlots ==
  ASSUME Limited, NEW c
  PROVE  Budget!OfSource(ConnsIn(OpenStages) \cup ConnsIn(DrainStages), c)
           = ConnsOfIn(IpOf[c], SlotStages)
  BY DEF Budget!OfSource, ConnsIn, ConnsOfIn, DrainStages, OpenStages, SlotStages,
         BeginStages, RowStages, EndStages

\* The budget counts sets as admission does.
LEMMA SameCardinality == \A S : Budget!Cardinality(S) = Cardinality(S)
  BY DEF Budget!Cardinality, Cardinality

\* One step of admission is one step of the budget, or none.
LEMMA StepOfBudget ==
  ASSUME PermitInv, LimiterInv, CapRespected', [Next]_vars
  PROVE  [Budget!Next]_(Budget!vars)
<1> DEFINE open == ConnsIn(OpenStages)
           draining == ConnsIn(DrainStages)
           turned == ConnsIn(RefusedStages)
<1>0. TypeOK /\ InHand
  BY DEF PermitInv
<1>1. CASE UNCHANGED <<stage, counts, perIp, accepted, refused>>
  BY <1>1 DEF Budget!vars, ConnsIn
<1>2. CASE \E c \in Conns, t \in Stages : Goes(c, t)
  <2> PICK c \in Conns, t \in Stages : Goes(c, t)
    BY <1>2
  <2>1. /\ stage' = [stage EXCEPT ![c] = t]
        /\ <<stage[c], t>> \in LifeCycle
        /\ t = "admitted" /\ Limited => HasSlot(IpOf[c])
        /\ t = "refusing" => Limited /\ ~HasSlot(IpOf[c])
    BY DEF Goes
  <2>2. /\ stage[c] \in OpenStages <=> c \in open
        /\ stage[c] \notin OpenStages /\ t \in OpenStages => open' = open \cup {c}
        /\ stage[c] \in OpenStages /\ t \notin OpenStages => open' = open \ {c}
        /\ (stage[c] \in OpenStages <=> t \in OpenStages) => open' = open
    BY <1>0, <2>1, ConnsMoved
  <2>3. /\ stage[c] \in DrainStages <=> c \in draining
        /\ stage[c] \notin DrainStages /\ t \in DrainStages =>
             draining' = draining \cup {c}
        /\ stage[c] \in DrainStages /\ t \notin DrainStages =>
             draining' = draining \ {c}
        /\ (stage[c] \in DrainStages <=> t \in DrainStages) => draining' = draining
    BY <1>0, <2>1, ConnsMoved
  <2>4. /\ stage[c] \in RefusedStages <=> c \in turned
        /\ stage[c] \notin RefusedStages /\ t \in RefusedStages =>
             turned' = turned \cup {c}
        /\ (stage[c] \in RefusedStages <=> t \in RefusedStages) => turned' = turned
    BY <1>0, <2>1, ConnsMoved
  <2>5. Limited => Held(counts, IpOf[c])
                     = Cardinality(Budget!OfSource(open \cup draining, c))
    BY SharesAreSlots, AdmissionAssumption DEF LimiterInv, LimiterExact
  <2>6. /\ t = "admitted" => stage[c] \notin OpenStages /\ t \in OpenStages
        /\ t = "closed" => stage[c] \in OpenStages /\ t \notin OpenStages
        /\ t \notin {"admitted", "closed"} => (stage[c] \in OpenStages <=> t \in OpenStages)
        /\ t = "closed" => stage[c] \notin DrainStages /\ t \in DrainStages
        /\ t \notin {"closed", "half", "done"} =>
             (stage[c] \in DrainStages <=> t \in DrainStages)
        /\ t # "closed" => stage[c] \in DrainStages \/ t \notin DrainStages
        /\ t = "refusing" => stage[c] \notin RefusedStages /\ t \in RefusedStages
        /\ t # "refusing" => (stage[c] \in RefusedStages <=> t \in RefusedStages)
        /\ t \in {"admitted", "refusing"} =>
             /\ stage[c] \notin OpenStages
             /\ stage[c] \notin DrainStages
             /\ stage[c] \notin RefusedStages
    BY <2>1, LifeCycleOfBudget
    DEF OpenStages, DrainStages, RefusedStages, BeginStages, RowStages
  <2>7. CASE t = "admitted"
    <3>1. open' = open \cup {c} /\ draining' = draining /\ turned' = turned
      BY <2>2, <2>3, <2>4, <2>6, <2>7
    <3>2. c \notin open \cup draining \cup turned
      BY <2>2, <2>3, <2>4, <2>6, <2>7
    <3>3. Cardinality(open) < EffectiveMax
      <4>1. Cardinality(open') <= EffectiveMax
        BY DEF CapRespected
      <4>2. IsFiniteSet(open)
        BY FS_Subset, AdmissionAssumption DEF ConnsIn
      <4> HIDE DEF open
      <4>3. Cardinality(open') = Cardinality(open) + 1 /\ Cardinality(open) \in Nat
        BY <3>1, <3>2, <4>2, FS_AddElement, FS_CardinalityType
      <4>4. QED BY <4>1, <4>3, EffectiveMaxType
    <3>4. PerIpLimit > 0 => Cardinality(Budget!OfSource(open \cup draining, c)) < PerIpLimit
      BY <2>1, <2>5, <2>7 DEF Limited, HasSlot
    <3>5. Budget!Admit(c)
      BY <3>1, <3>2, <3>3, <3>4, SameCardinality
      DEF Budget!Admit, DrainStages, RefusedStages
    <3>6. QED BY <3>5 DEF Budget!Next
  <2>8. CASE t = "refusing"
    <3>1. open' = open /\ draining' = draining /\ turned' = turned \cup {c}
      BY <2>2, <2>3, <2>4, <2>6, <2>8
    <3>2. c \notin open \cup draining \cup turned
      BY <2>2, <2>3, <2>4, <2>6, <2>8
    <3>3. PerIpLimit > 0
      BY <2>1, <2>8 DEF Limited
    <3>4. Cardinality(Budget!OfSource(open \cup draining, c)) >= PerIpLimit
      <4>1. IsFiniteSet(ConnsOfIn(IpOf[c], SlotStages))
        BY FS_Subset, AdmissionAssumption DEF ConnsOfIn
      <4>2. Cardinality(Budget!OfSource(open \cup draining, c)) \in Nat
        BY <2>1, <2>8, <4>1, SharesAreSlots, FS_CardinalityType
      <4>3. QED BY <2>1, <2>5, <2>8, <4>2, AdmissionAssumption DEF HasSlot
    <3>5. Budget!Refuse(c)
      BY <3>1, <3>2, <3>3, <3>4, SameCardinality
      DEF Budget!Refuse, DrainStages, RefusedStages
    <3>6. QED BY <3>5 DEF Budget!Next
  <2>9. CASE t = "closed"
    <3>1. /\ c \in open /\ open' = open \ {c}
          /\ draining' = draining \cup {c} /\ turned' = turned
      BY <2>2, <2>3, <2>4, <2>6, <2>9
    <3>2. Budget!Close(c)
      BY <3>1 DEF Budget!Close, DrainStages, RefusedStages
    <3>3. QED BY <3>2 DEF Budget!Next
  <2>10. CASE t \notin {"admitted", "refusing", "closed"}
    <3>1. open' = open /\ turned' = turned
      BY <2>2, <2>4, <2>6, <2>10
    <3>2. CASE stage[c] \in DrainStages /\ t \notin DrainStages
      <4>1. c \in draining /\ draining' = draining \ {c}
        BY <2>3, <3>2
      <4>2. Budget!Free(c)
        BY <3>1, <4>1 DEF Budget!Free, DrainStages, RefusedStages
      <4>3. QED BY <4>2 DEF Budget!Next
    <3>3. CASE stage[c] \in DrainStages <=> t \in DrainStages
      <4>1. draining' = draining
        BY <2>3, <3>3
      <4>2. QED BY <3>1, <4>1 DEF Budget!vars, DrainStages, RefusedStages
    <3>4. QED BY <2>6, <2>10, <3>2, <3>3
  <2>11. QED BY <2>7, <2>8, <2>9, <2>10
<1>3. QED BY <1>0, <1>1, <1>2, EveryStepGoes

\* The accept loops, the semaphore, the limiter and the two drop orders
\* implement the connection budget: a source is refused only while it occupies
\* its whole share, and admitted only when it and the server have one left.
THEOREM AdmissionImplementsBudget == Spec => ImplementsBudget
<1>1. Init => Budget!Init
  BY DEF Init, Budget!Init, ConnsIn, OpenStages, BeginStages, RowStages
<1>2. PermitInv /\ LimiterInv /\ CapRespected' /\ [Next]_vars =>
        [Budget!Next]_(Budget!vars)
  BY StepOfBudget
<1>3. QED
  BY <1>1, <1>2, PermitInvHolds, LimiterInvHolds, CapHolds, PTL
  DEF Spec, ImplementsBudget, Budget!Spec
=============================================================================
