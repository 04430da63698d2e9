--------------------------- MODULE DnsCacheProofs ---------------------------
(***************************************************************************)
(* Proofs about the DNS cache, for any number of names and sessions, any   *)
(* lifetime and any capacity, 0 included.                                  *)
(***************************************************************************)
EXTENDS DnsCache, FiniteSetTheorems, TLAPS

-----------------------------------------------------------------------------
(* The operators of DnsCache::insert.                                      *)

\* DnsCache::new leaves room for at least one entry.
LEMMA CapacityType == Capacity \in Nat /\ Capacity >= 1
  BY DnsCacheAssumption DEF Capacity

\* The names in the cache are finitely many, so are those retain leaves, and
\* what retain keeps and what it drops add up.
LEMMA RetainSplits ==
  ASSUME TypeOK
  PROVE  /\ IsFiniteSet(DOMAIN entries) /\ IsFiniteSet(Retained)
         /\ Retained \subseteq DOMAIN entries
         /\ Cardinality(DOMAIN entries) \in Nat /\ Cardinality(Retained) \in Nat
         /\ Cardinality(DOMAIN entries \ Retained) \in Nat
         /\ Cardinality(DOMAIN entries) =
              Cardinality(Retained) + Cardinality(DOMAIN entries \ Retained)
<1>1. Retained \subseteq DOMAIN entries
  BY DEF Retained
<1>2. IsFiniteSet(DOMAIN entries)
  BY FS_Subset, DnsCacheAssumption DEF TypeOK
<1>3. IsFiniteSet(Retained)
  BY <1>1, <1>2, FS_Subset
<1> DEFINE D == DOMAIN entries
           R == Retained
<1> HIDE DEF D, R
<1>4. R \subseteq D /\ IsFiniteSet(D) /\ IsFiniteSet(R)
  BY <1>1, <1>2, <1>3 DEF D, R
<1>5. D \cap R = R
  BY <1>4
<1>6. IsFiniteSet(D \ R) /\ Cardinality(D \ R) = Cardinality(D) - Cardinality(R)
  BY <1>4, <1>5, FS_Difference
<1>7. /\ Cardinality(D) \in Nat /\ Cardinality(R) \in Nat
      /\ Cardinality(D \ R) \in Nat
  BY <1>4, <1>6, FS_CardinalityType
<1>8. QED BY <1>4, <1>6, <1>7 DEF D, R

\* insert evicts at most one name, one of those it retained; it evicts from a
\* full cache only, and a full cache is one less full afterwards.
LEMMA VictimFacts ==
  ASSUME TypeOK, NEW evicted \in Victims(Retained)
  PROVE  /\ evicted \subseteq Retained
         /\ Cardinality(evicted) \in Nat
         /\ IsFiniteSet(Retained \ evicted)
         /\ Cardinality(Retained \ evicted) \in Nat
         /\ Cardinality(Retained) =
              Cardinality(Retained \ evicted) + Cardinality(evicted)
         /\ Cardinality(Retained) >= Capacity =>
              Cardinality(Retained \ evicted) = Cardinality(Retained) - 1
         /\ \A n \in evicted : /\ Cardinality(Retained) >= Capacity
                               /\ n \in Oldest(Retained)
<1>1. IsFiniteSet(Retained) /\ Cardinality(Retained) \in Nat
  BY RetainSplits
<1>2. CASE Cardinality(Retained) >= Capacity
  <2>1. PICK n \in Oldest(Retained) : evicted = {n}
    BY <1>2 DEF Victims
  <2>2. n \in Retained
    BY DEF Oldest
  <2>3. Cardinality(evicted) = 1
    BY <2>1, FS_Singleton
  <2>4. /\ IsFiniteSet(Retained \ {n})
        /\ Cardinality(Retained \ {n}) = Cardinality(Retained) - 1
    BY <1>1, <2>2, FS_RemoveElement
  <2>5. Cardinality(Retained \ {n}) \in Nat
    BY <2>4, FS_CardinalityType
  <2>6. QED BY <1>1, <1>2, <2>1, <2>2, <2>3, <2>4, <2>5
<1>3. CASE ~(Cardinality(Retained) >= Capacity)
  <2>1. evicted = {}
    BY <1>3 DEF Victims
  <2>2. Cardinality(evicted) = 0 /\ Retained \ evicted = Retained
    BY <2>1, FS_EmptySet
  <2>3. QED BY <1>1, <1>3, <2>1, <2>2
<1>4. QED BY <1>2, <1>3

-----------------------------------------------------------------------------
(* The invariant.                                                          *)

\* An entry lives for Ttl from its insertion, and its answer is no younger.
EntriesAged ==
  \A n \in DOMAIN entries : /\ entries[n].expires = entries[n].inserted + Ttl
                            /\ entries[n].asOf <= entries[n].inserted

\* An answer on its way into the cache is not from the future.
AnswersAged == \A t \in Tasks : task[t].pc = "answered" => task[t].asOf <= now

\* A session that waits for an answer, or has one to insert, asked for a name.
NamesAsked ==
  \A t \in Tasks : task[t].pc \in {"lookup", "answered"} => task[t].name \in Names

\* The inductive invariant
DnsInv == /\ TypeOK /\ EntriesAged /\ AnswersAged /\ NamesAsked
          /\ Bounded /\ ServedWithinTtl /\ CountersBalance

\* A new cache satisfies the invariant.
LEMMA InitDnsInv == Init => DnsInv
<1> SUFFICES ASSUME Init PROVE DnsInv
  OBVIOUS
<1>1. DOMAIN entries = {} /\ Cardinality(DOMAIN entries) = 0
  BY FS_EmptySet DEF Init
<1>2. TypeOK /\ EntriesAged /\ AnswersAged /\ NamesAsked /\ ServedWithinTtl
  BY <1>1 DEF Init, Idle, TypeOK, EntriesAged, AnswersAged, NamesAsked,
              ServedWithinTtl, Counters
<1>3. Bounded
  BY <1>1, CapacityType DEF Bounded
<1>4. CountersBalance
  BY <1>1 DEF CountersBalance, Init, Counters
<1>5. QED BY <1>2, <1>3, <1>4 DEF DnsInv

\* Every step of a session and of the clock keeps the invariant.
LEMMA NextDnsInv == DnsInv /\ [Next]_vars => DnsInv'
<1> SUFFICES ASSUME DnsInv, [Next]_vars PROVE DnsInv'
  OBVIOUS
<1> USE DnsCacheAssumption
<1> DEFINE Served == EntriesAged /\ AnswersAged /\ NamesAsked /\ ServedWithinTtl
<1>1. CASE Tick
  <2>1. TypeOK' /\ Served'
    BY <1>1 DEF Tick, DnsInv, TypeOK, Entry, EntriesAged, AnswersAged, NamesAsked,
                ServedWithinTtl
  <2>2. Bounded' /\ CountersBalance'
    BY <1>1 DEF Tick, DnsInv, Bounded, CountersBalance
  <2>3. QED BY <2>1, <2>2 DEF DnsInv
<1>2. ASSUME NEW t \in Tasks, NEW n \in Names, GetAbsent(t, n) PROVE DnsInv'
  <2>1. task' = [task EXCEPT ![t] = Asking(n)] /\ UNCHANGED <<now, entries>>
    BY <1>2 DEF GetAbsent
  <2>2. counter' \in [Counters -> Nat]
    BY <1>2 DEF GetAbsent, DnsInv, TypeOK, Counters
  <2>3. TypeOK' /\ Served'
    BY <2>1, <2>2 DEF Asking, DnsInv, TypeOK, EntriesAged, AnswersAged, NamesAsked,
                      ServedWithinTtl
  <2>4. Bounded' /\ CountersBalance'
    BY <1>2 DEF GetAbsent, DnsInv, TypeOK, Bounded, CountersBalance, Counters
  <2>5. QED BY <2>3, <2>4 DEF DnsInv
<1>3. ASSUME NEW t \in Tasks, NEW n \in Names, GetExpired(t, n) PROVE DnsInv'
  <2>1. /\ DOMAIN entries' = DOMAIN entries \ {n}
        /\ \A m \in DOMAIN entries' : entries'[m] = entries[m]
    BY <1>3 DEF GetExpired, Without
  <2>2. task' = [task EXCEPT ![t] = Asking(n)] /\ UNCHANGED now
    BY <1>3 DEF GetExpired
  <2>3. TypeOK'
    <3>1. counter' \in [Counters -> Nat]
      BY <1>3 DEF GetExpired, DnsInv, TypeOK, Counters
    <3>2. QED BY <2>1, <2>2, <3>1 DEF Asking, DnsInv, TypeOK
  <2>4. Served'
    BY <2>1, <2>2 DEF Asking, DnsInv, TypeOK, EntriesAged, AnswersAged, NamesAsked,
                      ServedWithinTtl
  <2>5. /\ Cardinality(DOMAIN entries) \in Nat
        /\ Cardinality(DOMAIN entries') = Cardinality(DOMAIN entries) - 1
        /\ Cardinality(DOMAIN entries') \in Nat
    BY <1>3, <2>1, RetainSplits, FS_RemoveElement, FS_CardinalityType
       DEF GetExpired, DnsInv
  <2>6. Bounded' /\ CountersBalance'
    BY <1>3, <2>5, CapacityType
       DEF GetExpired, DnsInv, TypeOK, Bounded, CountersBalance, Counters, Capacity
  <2>7. QED BY <2>3, <2>4, <2>6 DEF DnsInv
<1>4. ASSUME NEW t \in Tasks, NEW n \in Names, GetHit(t, n) PROVE DnsInv'
  <2>1. TypeOK' /\ EntriesAged' /\ AnswersAged' /\ NamesAsked'
    BY <1>4 DEF GetHit, DnsInv, TypeOK, Entry, EntriesAged, AnswersAged, NamesAsked,
                Counters
  <2>2. /\ entries[n] \in Entry
        /\ now < entries[n].inserted + Ttl /\ entries[n].asOf <= entries[n].inserted
    BY <1>4 DEF GetHit, DnsInv, TypeOK, Entry, EntriesAged, Expired
  <2>3. ServedWithinTtl'
    BY <1>4, <2>2 DEF GetHit, DnsInv, TypeOK, ServedWithinTtl
  <2>4. Bounded' /\ CountersBalance'
    BY <1>4 DEF GetHit, DnsInv, TypeOK, Bounded, CountersBalance, Counters
  <2>5. QED BY <2>1, <2>3, <2>4 DEF DnsInv
<1>5. ASSUME NEW t \in Tasks,
             LookupAnswers(t) \/ LookupFails(t) \/ LookupEmpty(t) \/ Proceed(t)
      PROVE  DnsInv'
  <2>1. TypeOK' /\ Served'
    BY <1>5 DEF LookupAnswers, LookupFails, LookupEmpty, Proceed, Idle, DnsInv, TypeOK,
                EntriesAged, AnswersAged, NamesAsked,
                ServedWithinTtl
  <2>2. UNCHANGED <<entries, counter>>
    BY <1>5 DEF LookupAnswers, LookupFails, LookupEmpty, Proceed
  <2>3. Bounded' /\ CountersBalance'
    BY <2>2 DEF DnsInv, Bounded, CountersBalance
  <2>4. QED BY <2>1, <2>3 DEF DnsInv
<1>6. ASSUME NEW t \in Tasks, Insert(t) PROVE DnsInv'
  <2> DEFINE name == task[t].name
             fresh == Fresh(task[t].asOf)
  <2>1. PICK evicted \in Victims(Retained) :
          /\ entries' = [n \in (Retained \ evicted) \cup {name} |->
                           IF n = name THEN fresh ELSE entries[n]]
          /\ counter' = [counter EXCEPT
               !["inserts"] = @ + 1,
               !["evictions"] = @ + Cardinality(evicted),
               !["expired_dropped"] = @ + Cardinality(DOMAIN entries \ Retained)]
    BY <1>6 DEF Insert
  <2> DEFINE kept == Retained \ evicted
  <2>2. name \in Names
    BY <1>6 DEF Insert, DnsInv, NamesAsked
  <2>3. /\ DOMAIN entries' = kept \cup {name}
        /\ \A m \in DOMAIN entries' :
             entries'[m] = IF m = name THEN fresh ELSE entries[m]
        /\ kept \subseteq DOMAIN entries
    BY <2>1, RetainSplits DEF DnsInv
  <2>4. /\ fresh \in Entry /\ fresh.inserted = now /\ fresh.expires = now + Ttl
        /\ fresh.asOf <= now
    BY <1>6 DEF Insert, Fresh, Entry, DnsInv, TypeOK, AnswersAged
  <2>5. task' = [task EXCEPT ![t].pc = "resolved"] /\ UNCHANGED now
    BY <1>6 DEF Insert
  <2>6. \A m \in DOMAIN entries' :
          /\ m \in Names /\ entries'[m] \in Entry /\ entries'[m].inserted <= now
          /\ entries'[m].expires = entries'[m].inserted + Ttl
          /\ entries'[m].asOf <= entries'[m].inserted
    <3> SUFFICES ASSUME NEW m \in DOMAIN entries'
                 PROVE  /\ m \in Names /\ entries'[m] \in Entry
                        /\ entries'[m].inserted <= now
                        /\ entries'[m].expires = entries'[m].inserted + Ttl
                        /\ entries'[m].asOf <= entries'[m].inserted
      OBVIOUS
    <3> HIDE DEF name, fresh
    <3>1. CASE m = name
      BY <2>2, <2>3, <2>4, <3>1 DEF DnsInv, TypeOK
    <3>2. CASE m # name
      BY <2>3, <3>2 DEF DnsInv, TypeOK, EntriesAged
    <3>3. QED BY <3>1, <3>2
  <2>7. TypeOK'
    <3>1. /\ Cardinality(evicted) \in Nat
          /\ Cardinality(DOMAIN entries \ Retained) \in Nat
      BY RetainSplits, VictimFacts DEF DnsInv
    <3>2. counter' \in [Counters -> Nat]
      BY <2>1, <3>1 DEF DnsInv, TypeOK, Counters
    <3>3. QED BY <2>5, <2>6, <3>2 DEF DnsInv, TypeOK
  <2>8. Served'
    BY <2>5, <2>6 DEF DnsInv, TypeOK, EntriesAged, AnswersAged, NamesAsked,
                      ServedWithinTtl
  <2> HIDE DEF name, fresh
  <2>9. /\ Cardinality(DOMAIN entries') \in Nat
        /\ Cardinality(DOMAIN entries') <= Cardinality(kept) + 1
    <3>1. IsFiniteSet(kept) /\ Cardinality(kept) \in Nat
      BY VictimFacts DEF DnsInv
    <3> HIDE DEF kept
    <3>2. QED BY <2>3, <3>1, FS_AddElement, FS_CardinalityType, SMTT(30)
  <2>10. Bounded'
    <3>1. /\ Cardinality(kept) \in Nat /\ Cardinality(Retained) \in Nat
          /\ Cardinality(Retained) >= Capacity =>
               Cardinality(kept) = Cardinality(Retained) - 1
          /\ Cardinality(Retained) <= Capacity
          /\ Cardinality(kept) <= Cardinality(Retained)
      <4>1. /\ Cardinality(evicted) \in Nat /\ Cardinality(kept) \in Nat
            /\ Cardinality(Retained) = Cardinality(kept) + Cardinality(evicted)
            /\ Cardinality(Retained) >= Capacity =>
                 Cardinality(kept) = Cardinality(Retained) - 1
        BY VictimFacts DEF DnsInv
      <4>2. Cardinality(Retained) \in Nat /\ Cardinality(Retained) <= Capacity
        BY RetainSplits, CapacityType DEF DnsInv, Bounded
      <4> HIDE DEF kept
      <4>3. QED BY <4>1, <4>2
    <3> HIDE DEF kept
    <3>2. Cardinality(kept) + 1 <= Capacity
      BY <3>1, CapacityType
    <3>3. QED BY <2>9, <3>1, <3>2, CapacityType DEF Bounded, Capacity
  <2>11. CountersBalance'
    <3>1. /\ counter'["inserts"] = counter["inserts"] + 1
          /\ counter'["evictions"] = counter["evictions"] + Cardinality(evicted)
          /\ counter'["expired_dropped"] =
               counter["expired_dropped"] + Cardinality(DOMAIN entries \ Retained)
      BY <2>1 DEF DnsInv, TypeOK, Counters
    <3>2. /\ counter["inserts"] \in Nat /\ counter["evictions"] \in Nat
          /\ counter["expired_dropped"] \in Nat
      BY DEF DnsInv, TypeOK, Counters
    <3>3. /\ Cardinality(DOMAIN entries) =
               Cardinality(kept) + Cardinality(evicted)
                 + Cardinality(DOMAIN entries \ Retained)
          /\ Cardinality(kept) \in Nat /\ Cardinality(evicted) \in Nat
          /\ Cardinality(DOMAIN entries \ Retained) \in Nat
      BY VictimFacts, RetainSplits DEF DnsInv
    <3> HIDE DEF kept
    <3>4. QED BY <2>9, <3>1, <3>2, <3>3 DEF CountersBalance, DnsInv
  <2>12. QED BY <2>7, <2>8, <2>10, <2>11 DEF DnsInv
<1>7. CASE UNCHANGED vars
  BY <1>7 DEF vars, DnsInv, TypeOK, EntriesAged, AnswersAged, NamesAsked,
              ServedWithinTtl, Bounded, CountersBalance
<1>8. QED BY <1>1, <1>2, <1>3, <1>4, <1>5, <1>6, <1>7 DEF Next

\* The invariant holds in every reachable state.
LEMMA DnsInvHolds == Spec => []DnsInv
  BY InitDnsInv, NextDnsInv, PTL DEF Spec

-----------------------------------------------------------------------------
(* The theorems.                                                           *)

\* The cache has the shape its types give it.
THEOREM DnsTypeCorrect == Spec => []TypeOK
<1>1. DnsInv => TypeOK
  BY DEF DnsInv
<1>2. QED BY <1>1, DnsInvHolds, PTL

\* insert keeps the number of names within max_entries, however many lookups
\* of however many sessions overlap between their misses and their inserts.
THEOREM CacheIsBounded == Spec => []Bounded
<1>1. DnsInv => Bounded
  BY DEF DnsInv
<1>2. QED BY <1>1, DnsInvHolds, PTL

\* get serves no entry at or past its expiry: what a session connects to was
\* inserted less than dns_cache_ttl ago.
THEOREM CacheServesWithinTtl == Spec => []ServedWithinTtl
<1>1. DnsInv => ServedWithinTtl
  BY DEF DnsInv
<1>2. QED BY <1>1, DnsInvHolds, PTL

\* The counters of the cache balance: entries there, evicted and expired never
\* outnumber the inserts.
THEOREM CacheCountersBalance == Spec => []CountersBalance
<1>1. DnsInv => CountersBalance
  BY DEF DnsInv
<1>2. QED BY <1>1, DnsInvHolds, PTL

\* A live entry leaves the cache only when insert finds it full of live
\* entries, and then it is the oldest of them.
THEOREM CacheEvictsOldestLive == Spec => LiveEntriesGoLast
<1> DEFINE live == {m \in DOMAIN entries : ~Expired(entries[m])}
           GoesLast == \A n \in DOMAIN entries \ DOMAIN entries' :
             ~Expired(entries[n]) =>
               /\ Cardinality(live) >= Capacity
               /\ \A m \in live : entries[n].inserted <= entries[m].inserted
<1>1. ASSUME DnsInv, Next PROVE GoesLast
  <2>1. ASSUME NEW t \in Tasks, NEW n \in Names, GetExpired(t, n) PROVE GoesLast
    BY <2>1 DEF GetExpired, Without
  <2>2. ASSUME NEW t \in Tasks, Insert(t) PROVE GoesLast
    <3>1. PICK evicted \in Victims(Retained) :
            Retained \ evicted \subseteq DOMAIN entries'
      BY <2>2 DEF Insert
    <3> SUFFICES ASSUME NEW n \in DOMAIN entries \ DOMAIN entries',
                        ~Expired(entries[n])
                 PROVE  /\ Cardinality(live) >= Capacity
                        /\ \A m \in live : entries[n].inserted <= entries[m].inserted
      OBVIOUS
    <3>2. n \in Retained
      BY DEF Retained
    <3>3. Cardinality(Retained) >= Capacity /\ n \in Oldest(Retained)
      BY <1>1, <3>1, <3>2, VictimFacts DEF DnsInv
    <3>4. Retained = live
      BY <3>3 DEF Retained
    <3>5. QED BY <3>3, <3>4 DEF Oldest
  <2>3. CASE UNCHANGED entries
    BY <2>3
  <2>4. QED
    BY <1>1, <2>1, <2>2, <2>3
       DEF Next, Tick, GetAbsent, GetHit, LookupAnswers, LookupFails, LookupEmpty,
           Proceed
<1>2. DnsInv /\ [Next]_vars => [GoesLast]_vars
  BY <1>1
<1>3. QED BY <1>2, DnsInvHolds, PTL DEF Spec, LiveEntriesGoLast
=============================================================================
