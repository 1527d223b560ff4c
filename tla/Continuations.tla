---------------------------- MODULE Continuations ----------------------------
(***************************************************************************)
(* The cache of reasoning continuations shared by all Messages requests:   *)
(* entries expire, and their number and total size are bounded.  A caller  *)
(* reads the clock before it takes the mutex, so the times the critical    *)
(* sections work with need not be in order.                                *)
(***************************************************************************)
EXTENDS Integers, FiniteSets, FiniteSetsExt, Functions

CONSTANTS
  Procs,      \* handler goroutines
  Keys,       \* session, provider, model and content fingerprint
  Sizes,      \* sizes of the continuations the handlers offer
  TTL,        \* continuationTTL
  MaxEntries, \* continuationMaxEntries
  MaxBytes,   \* continuationMaxBytes
  MaxEntry,   \* continuationMaxEntry
  MaxClock    \* bound: the time at which the clock stops

ASSUME CacheAssumption ==
  /\ Sizes \subseteq Nat
  /\ TTL \in Nat \ {0}
  /\ MaxEntries \in Nat \ {0}
  /\ MaxBytes \in Nat
  /\ MaxEntry \in 0 .. MaxBytes
  /\ MaxClock \in Nat

VARIABLES
  clock,   \* time.Now()
  lock,    \* the holder of mu, at most one
  pc,      \* pc[p]: where goroutine p is in Store or Load
  call,    \* call[p]: its arguments and the time it read
  entries, \* the map from keys to entries
  bytes,   \* the accounted size of all entries
  last,    \* last[k]: size and time of the last Store that kept k
  hits     \* what the latest Load returned, until the next Store is done

vars == <<clock, lock, pc, call, entries, bytes, last, hits>>

Times == 0 .. MaxClock
Calls == [key : Keys, size : Nat, now : Times]
Entries == [bytes : Nat, expires : Nat, touched : Times]
Hits == [key : Keys, size : Nat, now : Times]

(* Types, and the mutex: whoever is past its Lock holds it, alone. *)
TypeOK ==
  /\ clock \in Times
  /\ lock = {p \in Procs : pc[p] = "evict"}
  /\ Cardinality(lock) <= 1
  /\ pc \in [Procs -> {"idle", "store", "evict", "load"}]
  /\ call \in [Procs -> Calls \cup {<<>>}]
  /\ \A p \in Procs : pc[p] # "idle" => call[p] \in Calls
  /\ DOMAIN entries \subseteq Keys
  /\ \A k \in DOMAIN entries : entries[k] \in Entries
  /\ bytes \in Int
  /\ DOMAIN last \subseteq Keys
  /\ \A k \in DOMAIN last : last[k] \in [size : Nat, now : Times]
  /\ hits \subseteq Hits

SumBytes(S) == MapThenSumSet(LAMBDA k : entries[k].bytes, S)

Init ==
  /\ clock = 0
  /\ lock = {}
  /\ pc = [p \in Procs |-> "idle"]
  /\ call = [p \in Procs |-> <<>>]
  /\ entries = <<>>
  /\ bytes = 0
  /\ last = <<>>
  /\ hits = {}

Tick ==
  /\ clock < MaxClock
  /\ clock' = clock + 1
  /\ UNCHANGED <<lock, pc, call, entries, bytes, last, hits>>

-----------------------------------------------------------------------------
(* Store returns early for an empty or an oversized continuation. *)
BeginStore(p, k, n) ==
  /\ pc[p] = "idle"
  /\ n \in 1 .. MaxEntry
  /\ pc' = [pc EXCEPT ![p] = "store"]
  /\ call' = [call EXCEPT ![p] = [key |-> k, size |-> n, now |-> clock]]
  /\ UNCHANGED <<clock, lock, entries, bytes, last, hits>>

BeginLoad(p, k) ==
  /\ pc[p] = "idle"
  /\ pc' = [pc EXCEPT ![p] = "load"]
  /\ call' = [call EXCEPT ![p] = [key |-> k, size |-> 0, now |-> clock]]
  /\ UNCHANGED <<clock, lock, entries, bytes, last, hits>>

-----------------------------------------------------------------------------
Expired(now) == {k \in DOMAIN entries : now >= entries[k].expires}

(* Delete entries and subtract their sizes. *)
Drop(S) ==
  /\ entries' = Restrict(entries, DOMAIN entries \ S)
  /\ bytes' = bytes - SumBytes(S)

(* Store: lock, purge what is expired, remove the entry to be replaced. *)
LockForStore(p) ==
  /\ pc[p] = "store"
  /\ lock = {}
  /\ lock' = {p}
  /\ Drop(Expired(call[p].now) \cup ({call[p].key} \cap DOMAIN entries))
  /\ pc' = [pc EXCEPT ![p] = "evict"]
  /\ UNCHANGED <<clock, call, last, hits>>

(* A mutant: the size of the new entry is not counted. *)
NeedsRoomBefore(p) == Cardinality(DOMAIN entries) >= MaxEntries \/ bytes > MaxBytes

NeedsRoom(p) ==
  \/ Cardinality(DOMAIN entries) >= MaxEntries
  \/ bytes + call[p].size > MaxBytes

(* evictOldest: one of the entries that were touched least recently. *)
EvictOldest(p) ==
  /\ pc[p] = "evict"
  /\ NeedsRoom(p)
  /\ \E k \in DOMAIN entries :
       /\ \A j \in DOMAIN entries : entries[k].touched <= entries[j].touched
       /\ Drop({k})
  /\ UNCHANGED <<clock, lock, pc, call, last, hits>>

Return(p) ==
  /\ pc' = [pc EXCEPT ![p] = "idle"]
  /\ call' = [call EXCEPT ![p] = <<>>]

(* Insert the entry, or give up if nothing is left to evict; unlock. *)
FinishStore(p) ==
  /\ pc[p] = "evict"
  /\ NeedsRoom(p) => DOMAIN entries = {}
  /\ LET k == call[p].key
         n == call[p].size
         now == call[p].now IN
       IF NeedsRoom(p)
       THEN UNCHANGED <<entries, bytes, last>>
       ELSE /\ entries' = [j \in DOMAIN entries \cup {k} |->
                 IF j = k THEN [bytes |-> n, expires |-> now + TTL, touched |-> now]
                 ELSE entries[j]]
            /\ bytes' = bytes + n
            /\ last' = [j \in DOMAIN last \cup {k} |->
                 IF j = k THEN [size |-> n, now |-> now] ELSE last[j]]
  /\ lock' = {}
  /\ Return(p)
  /\ hits' = {}
  /\ UNCHANGED clock

(* A mutant: a hit also renews the lifetime of its entry. *)
TouchRenews(e, now) == [e EXCEPT !.touched = now, !.expires = now + TTL]

(* A hit makes its entry recent; its expiry stays. *)
Touch(e, now) == [e EXCEPT !.touched = now]

(* Load: lock, purge, look up, unlock. *)
Load(p) ==
  /\ pc[p] = "load"
  /\ lock = {}
  /\ LET k == call[p].key
         now == call[p].now
         live == DOMAIN entries \ Expired(now) IN
       /\ entries' = [j \in live |-> IF j = k THEN Touch(entries[j], now) ELSE entries[j]]
       /\ bytes' = bytes - SumBytes(Expired(now))
       /\ hits' = IF k \in live
                  THEN {[key |-> k, size |-> entries[k].bytes, now |-> now]}
                  ELSE {}
  /\ Return(p)
  /\ UNCHANGED <<clock, lock, last>>

-----------------------------------------------------------------------------
Proc(p) ==
  \/ \E k \in Keys : BeginLoad(p, k) \/ \E n \in Sizes : BeginStore(p, k, n)
  \/ LockForStore(p)
  \/ EvictOldest(p)
  \/ FinishStore(p)
  \/ Load(p)

Next == Tick \/ \E p \in Procs : Proc(p)

Spec == Init /\ [][Next]_vars

-----------------------------------------------------------------------------
(* Properties.                                                             *)

(* c.bytes is the total size of the entries, through every purge,          *)
(* replacement and eviction: an error here would pile up over the life of  *)
(* the process until the cache takes nothing, or anything.                 *)
Accounted == bytes = SumBytes(DOMAIN entries)

(* The cache never holds more entries or bytes than its limits. *)
Bounded ==
  /\ Cardinality(DOMAIN entries) <= MaxEntries
  /\ SumBytes(DOMAIN entries) <= MaxBytes

(* A continuation of acceptable size is always kept: the early return of   *)
(* Store after a failed eviction is never taken.                           *)
RoomCanBeMade == \A p \in Procs : pc[p] = "evict" /\ DOMAIN entries = {} => ~NeedsRoom(p)

(* The cache inside and outside its critical section. *)
CacheInv == TypeOK /\ Accounted /\ Bounded /\ RoomCanBeMade

(* A hit returns what was last stored under its key, and only within the   *)
(* lifetime of that store: loading an entry never prolongs it, and a       *)
(* goroutine that waited for the lock with an old time cannot revive one.  *)
HitsAreFresh ==
  \A h \in hits :
    /\ h.key \in DOMAIN last
    /\ h.size = last[h.key].size
    /\ h.now < last[h.key].now + TTL
=============================================================================
