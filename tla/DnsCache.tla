------------------------------ MODULE DnsCache ------------------------------
(***************************************************************************)
(* The positive DNS cache and its only user, addr_to_socket.  Sessions     *)
(* share the cache; each looks a name up in it, and on a miss awaits       *)
(* lookup_host outside the lock and inserts the answer afterwards, so the  *)
(* lookups of two sessions may overlap and finish in either order.         *)
(*                                                                         *)
(* Time is a counter.  An answer is represented by the time at which the   *)
(* resolver took it from the DNS, which is all its age depends on.         *)
(***************************************************************************)
EXTENDS Naturals, FiniteSets

CONSTANTS
  Names,        \* "domain:port" keys
  Tasks,        \* sessions resolving names
  Ttl,          \* dns_cache_ttl
  MaxEntries,   \* the max_entries argument
  MaxTime,      \* bound: the clock stops here
  MaxGets,      \* bound: lookups made of the cache
  NoName        \* a task that resolves nothing

ASSUME DnsCacheAssumption ==
  /\ IsFiniteSet(Names) /\ IsFiniteSet(Tasks)
  /\ Ttl \in Nat /\ MaxEntries \in Nat
  /\ MaxTime \in Nat /\ MaxGets \in Nat
  /\ NoName \notin Names

VARIABLES
  now,       \* Instant::now()
  entries,   \* DnsCache.entries, a function on the names it holds
  task,      \* what each session is doing
  counter    \* hits, misses, inserts, evictions, expired_dropped

vars == <<now, entries, task, counter>>

\* DnsCache::new clamps max_entries to at least one.
Capacity == IF MaxEntries >= 1 THEN MaxEntries ELSE 1

Counters == {"hits", "misses", "inserts", "evictions", "expired_dropped"}

\* pc: idle, lookup (awaiting lookup_host), answered, hit, resolved, failed.
\* asOf is the age mark of the answer in hand, and inserted and at are when
\* it entered the cache and when it was served from there.
Idle == [pc |-> "idle", name |-> NoName, asOf |-> 0, inserted |-> 0, at |-> 0]
Asking(n) == [pc |-> "lookup", name |-> n, asOf |-> 0, inserted |-> 0, at |-> 0]

Init ==
  /\ now = 0
  /\ entries = [n \in {} |-> 0]
  /\ task = [t \in Tasks |-> Idle]
  /\ counter = [k \in Counters |-> 0]

Tick ==
  /\ now < MaxTime
  /\ now' = now + 1
  /\ UNCHANGED <<entries, task, counter>>

-----------------------------------------------------------------------------
(* DnsCache::get                                                           *)

\* MUTANT of Expired: an entry is still served at the end of its lifetime.
ExpiredLate(e) == e.expires < now

\* expires_at <= now
Expired(e) == e.expires <= now

Without(n) == [m \in DOMAIN entries \ {n} |-> entries[m]]

GetBudget == counter["hits"] + counter["misses"] < MaxGets

\* No entry: a miss, and lookup_host is awaited
GetAbsent(t, n) ==
  /\ task[t].pc = "idle" /\ GetBudget
  /\ n \notin DOMAIN entries
  /\ counter' = [counter EXCEPT !["misses"] = @ + 1]
  /\ task' = [task EXCEPT ![t] = Asking(n)]
  /\ UNCHANGED <<now, entries>>

\* MUTANT of GetExpired: the dead entry is left for later.
GetExpiredKept(t, n) ==
  /\ task[t].pc = "idle" /\ GetBudget
  /\ n \in DOMAIN entries /\ Expired(entries[n])
  /\ counter' = [counter EXCEPT !["misses"] = @ + 1, !["expired_dropped"] = @ + 1]
  /\ task' = [task EXCEPT ![t] = Asking(n)]
  /\ UNCHANGED <<now, entries>>

\* An entry past its lifetime is removed and counts as a miss
GetExpired(t, n) ==
  /\ task[t].pc = "idle" /\ GetBudget
  /\ n \in DOMAIN entries /\ Expired(entries[n])
  /\ entries' = Without(n)
  /\ counter' = [counter EXCEPT !["misses"] = @ + 1, !["expired_dropped"] = @ + 1]
  /\ task' = [task EXCEPT ![t] = Asking(n)]
  /\ UNCHANGED now

\* A live entry is served
GetHit(t, n) ==
  /\ task[t].pc = "idle" /\ GetBudget
  /\ n \in DOMAIN entries /\ ~Expired(entries[n])
  /\ counter' = [counter EXCEPT !["hits"] = @ + 1]
  /\ task' = [task EXCEPT ![t] =
       [pc |-> "hit", name |-> n, asOf |-> entries[n].asOf,
        inserted |-> entries[n].inserted, at |-> now]]
  /\ UNCHANGED <<now, entries>>

-----------------------------------------------------------------------------
(* lookup_host and DnsCache::insert                                        *)

\* The resolver takes its answer from the DNS; the session sees it later
LookupAnswers(t) ==
  /\ task[t].pc = "lookup"
  /\ task' = [task EXCEPT ![t].pc = "answered", ![t].asOf = now]
  /\ UNCHANGED <<now, entries, counter>>

\* The name does not resolve: `?`, and nothing is cached
LookupFails(t) ==
  /\ task[t].pc = "lookup"
  /\ task' = [task EXCEPT ![t].pc = "failed"]
  /\ UNCHANGED <<now, entries, counter>>

\* An empty answer: insert ignores it
LookupEmpty(t) ==
  /\ task[t].pc = "lookup"
  /\ task' = [task EXCEPT ![t].pc = "resolved"]
  /\ UNCHANGED <<now, entries, counter>>

\* What retain leaves of a full cache; a cache with room is left alone
Retained ==
  IF Cardinality(DOMAIN entries) >= Capacity
  THEN {n \in DOMAIN entries : ~Expired(entries[n])}
  ELSE DOMAIN entries

\* The candidates of min_by_key(inserted_at)
Oldest(S) == {n \in S : \A m \in S : entries[n].inserted <= entries[m].inserted}

\* MUTANT of Victims: the newest entry goes.
VictimsNewest(S) ==
  IF Cardinality(S) >= Capacity
  THEN {{n} : n \in {x \in S : \A m \in S : entries[x].inserted >= entries[m].inserted}}
  ELSE {{}}

\* MUTANT of Victims: the cache may overshoot by one.
VictimsTooFew(S) ==
  IF Cardinality(S) > Capacity THEN {{n} : n \in Oldest(S)} ELSE {{}}

\* The sets insert may evict: one oldest entry if the cache is still full
Victims(S) ==
  IF Cardinality(S) >= Capacity THEN {{n} : n \in Oldest(S)} ELSE {{}}

\* CacheEntry of an answer
Fresh(asOf) == [asOf |-> asOf, inserted |-> now, expires |-> now + Ttl]

\* insert, one critical section
Insert(t) ==
  /\ task[t].pc = "answered"
  /\ LET name == task[t].name
         fresh == Fresh(task[t].asOf)
     IN \E evicted \in Victims(Retained) :
          /\ entries' = [n \in (Retained \ evicted) \cup {name} |->
                           IF n = name THEN fresh ELSE entries[n]]
          /\ counter' = [counter EXCEPT
               !["inserts"] = @ + 1,
               !["evictions"] = @ + Cardinality(evicted),
               !["expired_dropped"] = @ + Cardinality(DOMAIN entries \ Retained)]
  /\ task' = [task EXCEPT ![t].pc = "resolved"]
  /\ UNCHANGED now

\* The session goes on with its addresses (or its error) and may resolve again
Proceed(t) ==
  /\ task[t].pc \in {"hit", "resolved", "failed"}
  /\ task' = [task EXCEPT ![t] = Idle]
  /\ UNCHANGED <<now, entries, counter>>

Next ==
  \/ Tick
  \/ \E t \in Tasks :
       \/ \E n \in Names : GetAbsent(t, n) \/ GetExpired(t, n) \/ GetHit(t, n)
       \/ LookupAnswers(t) \/ LookupFails(t) \/ LookupEmpty(t)
       \/ Insert(t) \/ Proceed(t)

Spec == Init /\ [][Next]_vars

-----------------------------------------------------------------------------
(* Properties                                                              *)

Entry == [asOf : Nat, inserted : Nat, expires : Nat]

\* The state has the shape the code's types give it, and no entry is from the
\* future.
TypeOK ==
  /\ now \in Nat
  /\ DOMAIN entries \subseteq Names /\ \A n \in DOMAIN entries : entries[n] \in Entry
  /\ \A n \in DOMAIN entries : entries[n].inserted <= now
  /\ task \in [Tasks -> [pc : {"idle", "lookup", "answered", "hit", "resolved", "failed"},
                         name : Names \cup {NoName}, asOf : Nat, inserted : Nat, at : Nat]]
  /\ counter \in [Counters -> Nat]

\* "Bounded": the cache never holds more names than max_entries, whatever the
\* overlap of lookups.
Bounded == Cardinality(DOMAIN entries) <= Capacity

\* Nothing served from the cache has been there for the configured lifetime,
\* and the answer is no younger than its entry.
ServedWithinTtl ==
  \A t \in Tasks : task[t].pc = "hit" =>
    /\ task[t].at < task[t].inserted + Ttl
    /\ task[t].asOf <= task[t].inserted

\* Every entry that was ever inserted is there, or was counted out as evicted
\* or expired, or was overwritten: never more counted out than came in.
CountersBalance ==
  Cardinality(DOMAIN entries) + counter["evictions"] + counter["expired_dropped"]
    <= counter["inserts"]

\* Live entries go last: a step that drops a live entry is an eviction from a
\* cache full of live entries, and what it drops is the oldest of them.
LiveEntriesGoLast ==
  [][\A n \in DOMAIN entries \ DOMAIN entries' : ~Expired(entries[n]) =>
       LET live == {m \in DOMAIN entries : ~Expired(entries[m])} IN
         /\ Cardinality(live) >= Capacity
         /\ \A m \in live : entries[n].inserted <= entries[m].inserted]_vars
=============================================================================
