--------------------------- MODULE SharedStateProofs ---------------------------
(***************************************************************************)
(* Proofs about the state that requests share: the continuation cache and  *)
(* the configuration store.                                                *)
(*                                                                         *)
(* The cache, for any number of goroutines, keys, sizes and limits: a hit  *)
(* is fresh, the critical sections exclude each other, the byte account is *)
(* the total size of the entries, and both limits are kept.  The store,    *)
(* for any number of requests and of edits: only validated snapshots are   *)
(* served, and a generation identifies its snapshot.                       *)
(***************************************************************************)
EXTENDS Continuations, ConfigReload, FiniteSetTheorems, WellFoundedInduction, TLAPS

(* The part of the state the argument is about: the clock readings the     *)
(* callers hold, and the entries, each of which is as its last Store left  *)
(* it except for the time it was touched.                                  *)
CallsTyped ==
  /\ clock \in Int
  /\ pc \in [Procs -> {"idle", "store", "evict", "load"}]
  /\ DOMAIN call = Procs
  /\ \A p \in Procs : pc[p] # "idle" => call[p] \in [key : Keys, size : Nat, now : Int]

EntriesAsStored ==
  \A k \in DOMAIN entries :
    /\ DOMAIN entries[k] = {"bytes", "expires", "touched"}
    /\ k \in DOMAIN last
    /\ last[k].now \in Int
    /\ entries[k].bytes = last[k].size
    /\ entries[k].expires = last[k].now + TTL

FreshInv == CallsTyped /\ EntriesAsStored /\ HitsAreFresh

(* Restricting the map to fewer keys leaves the entries that stay alone.   *)
LEMMA DropKeepsEntries ==
  ASSUME NEW S, EntriesAsStored, Drop(S), UNCHANGED last
  PROVE  EntriesAsStored'
  BY DEF EntriesAsStored, Drop, Restrict

LEMMA FreshInit == Init => FreshInv
<1> SUFFICES ASSUME Init PROVE FreshInv
  OBVIOUS
<1>1. CallsTyped
  BY DEF Init, CallsTyped
<1>2. EntriesAsStored
  BY DEF Init, EntriesAsStored
<1>3. HitsAreFresh
  BY DEF Init, HitsAreFresh
<1> QED
  BY <1>1, <1>2, <1>3 DEF FreshInv

LEMMA FreshNext == FreshInv /\ [Next]_vars => FreshInv'
<1> SUFFICES ASSUME FreshInv, [Next]_vars PROVE FreshInv'
  OBVIOUS
<1> USE CacheAssumption
<1>1. CASE Tick
  <2>1. CallsTyped'
    BY <1>1 DEF Tick, FreshInv, CallsTyped
  <2> QED
    BY <1>1, <2>1 DEF Tick, FreshInv, EntriesAsStored, HitsAreFresh
<1>2. CASE UNCHANGED vars
  BY <1>2 DEF vars, FreshInv, CallsTyped, EntriesAsStored, HitsAreFresh
<1>3. ASSUME NEW p \in Procs, NEW k \in Keys, BeginLoad(p, k)
      PROVE  FreshInv'
  <2>1. CallsTyped'
    BY <1>3 DEF BeginLoad, FreshInv, CallsTyped
  <2> QED
    BY <1>3, <2>1 DEF BeginLoad, FreshInv, EntriesAsStored, HitsAreFresh
<1>4. ASSUME NEW p \in Procs, NEW k \in Keys, NEW n \in Sizes, BeginStore(p, k, n)
      PROVE  FreshInv'
  <2>1. CallsTyped'
    BY <1>4 DEF BeginStore, FreshInv, CallsTyped
  <2> QED
    BY <1>4, <2>1 DEF BeginStore, FreshInv, EntriesAsStored, HitsAreFresh
<1>5. ASSUME NEW p \in Procs, LockForStore(p)
      PROVE  FreshInv'
  <2>1. CallsTyped'
    BY <1>5 DEF LockForStore, FreshInv, CallsTyped
  <2>2. EntriesAsStored'
    BY <1>5, DropKeepsEntries DEF LockForStore, FreshInv
  <2> QED
    BY <1>5, <2>1, <2>2 DEF LockForStore, FreshInv, HitsAreFresh
<1>6. ASSUME NEW p \in Procs, EvictOldest(p)
      PROVE  FreshInv'
  <2>1. CallsTyped'
    BY <1>6 DEF EvictOldest, FreshInv, CallsTyped
  <2>2. EntriesAsStored'
    BY <1>6, DropKeepsEntries DEF EvictOldest, FreshInv
  <2> QED
    BY <1>6, <2>1, <2>2 DEF EvictOldest, FreshInv, HitsAreFresh
<1>7. ASSUME NEW p \in Procs, FinishStore(p)
      PROVE  FreshInv'
  <2>1. CallsTyped'
    BY <1>7 DEF FinishStore, Return, FreshInv, CallsTyped
  <2>2. EntriesAsStored'
    <3>1. CASE NeedsRoom(p)
      BY <1>7, <3>1 DEF FinishStore, FreshInv, EntriesAsStored
    <3>2. CASE ~NeedsRoom(p)
      <4>1. call[p] \in [key : Keys, size : Nat, now : Int]
        BY <1>7 DEF FinishStore, FreshInv, CallsTyped
      <4> QED
        BY <1>7, <3>2, <4>1 DEF FinishStore, FreshInv, EntriesAsStored
    <3> QED
      BY <3>1, <3>2
  <2>3. HitsAreFresh'
    BY <1>7 DEF FinishStore, HitsAreFresh
  <2> QED
    BY <2>1, <2>2, <2>3 DEF FreshInv
<1>8. ASSUME NEW p \in Procs, Load(p)
      PROVE  FreshInv'
  <2>1. CallsTyped'
    BY <1>8 DEF Load, Return, FreshInv, CallsTyped
  <2>2. EntriesAsStored'
    BY <1>8 DEF Load, FreshInv, EntriesAsStored, Touch, Expired
  <2>3. HitsAreFresh'
    <3> DEFINE k == call[p].key
               live == DOMAIN entries \ Expired(call[p].now)
    <3>1. call[p].now \in Int
      BY <1>8 DEF Load, FreshInv, CallsTyped
    <3>2. ASSUME k \in live
          PROVE  /\ k \in DOMAIN last
                 /\ entries[k].bytes = last[k].size
                 /\ call[p].now < last[k].now + TTL
      BY <3>1, <3>2 DEF FreshInv, EntriesAsStored, Expired
    <3>3. hits' = IF k \in live
                  THEN {[key |-> k, size |-> entries[k].bytes, now |-> call[p].now]}
                  ELSE {}
      BY <1>8 DEF Load
    <3>4. last' = last
      BY <1>8 DEF Load
    <3> HIDE DEF k, live
    <3> QED
      BY <3>2, <3>3, <3>4 DEF HitsAreFresh
  <2> QED
    BY <2>1, <2>2, <2>3 DEF FreshInv
<1> QED
  BY <1>1, <1>2, <1>3, <1>4, <1>5, <1>6, <1>7, <1>8 DEF Next, Proc

(* A load returns what was last stored under its key, and only within the  *)
(* lifetime continuationTTL of that store, however goroutines with older   *)
(* and newer clock readings interleave at the mutex.                       *)
THEOREM LoadsAreFresh == Spec => []HitsAreFresh
<1>1. FreshInv => HitsAreFresh
  BY DEF FreshInv
<1> QED
  BY <1>1, FreshInit, FreshNext, PTL DEF Spec

-----------------------------------------------------------------------------
(* The mutex and the number of entries.                                    *)

(* Whoever is inside Store's critical section holds the lock, alone. *)
Exclusive ==
  /\ pc \in [Procs -> {"idle", "store", "evict", "load"}]
  /\ lock = {p \in Procs : pc[p] = "evict"}
  /\ \A p, q \in lock : p = q

(* There are never more entries than continuationMaxEntries. *)
EntriesLimited ==
  /\ IsFiniteSet(DOMAIN entries)
  /\ Cardinality(DOMAIN entries) <= MaxEntries

LimitInv == Exclusive /\ EntriesLimited

(* Removing entries keeps the limit. *)
LEMMA FewerEntries ==
  ASSUME EntriesLimited, DOMAIN entries' \subseteq DOMAIN entries
  PROVE  EntriesLimited'
<1>1. /\ IsFiniteSet(DOMAIN entries')
      /\ Cardinality(DOMAIN entries') <= Cardinality(DOMAIN entries)
  BY FS_Subset DEF EntriesLimited
<1>2. Cardinality(DOMAIN entries') \in Nat /\ Cardinality(DOMAIN entries) \in Nat
  BY <1>1, FS_CardinalityType DEF EntriesLimited
<1> QED BY <1>1, <1>2, CacheAssumption DEF EntriesLimited

LEMMA DropLimited ==
  ASSUME EntriesLimited, NEW S, Drop(S)
  PROVE  EntriesLimited'
<1>1. DOMAIN entries' \subseteq DOMAIN entries
  BY DEF Drop, Restrict
<1> QED BY <1>1, FewerEntries

LEMMA LimitInit == Init => LimitInv
<1> SUFFICES ASSUME Init PROVE LimitInv
  OBVIOUS
<1>1. pc = [p \in Procs |-> "idle"] /\ lock = {} /\ entries = <<>>
  BY Zenon DEF Init
<1>2. Exclusive
  BY <1>1 DEF Exclusive
<1>3. DOMAIN entries = {}
  BY <1>1
<1>4. EntriesLimited
  BY <1>3, FS_EmptySet, CacheAssumption DEF EntriesLimited
<1> QED BY <1>2, <1>4 DEF LimitInv

LEMMA LimitNext == LimitInv /\ [Next]_vars => LimitInv'
<1> SUFFICES ASSUME LimitInv, [Next]_vars PROVE LimitInv'
  OBVIOUS
<1>0. Exclusive /\ EntriesLimited
  BY DEF LimitInv
<1>1. CASE Tick
  BY <1>0, <1>1 DEF Tick, LimitInv, Exclusive, EntriesLimited
<1>2. CASE UNCHANGED vars
  BY <1>0, <1>2 DEF vars, LimitInv, Exclusive, EntriesLimited
<1>3. ASSUME NEW p \in Procs, NEW k \in Keys,
             BeginLoad(p, k) \/ \E n \in Sizes : BeginStore(p, k, n)
      PROVE  LimitInv'
  <2>1. Exclusive'
    BY <1>0, <1>3 DEF BeginLoad, BeginStore, Exclusive
  <2>2. entries' = entries
    BY <1>3 DEF BeginLoad, BeginStore
  <2> QED BY <1>0, <2>1, <2>2 DEF LimitInv, EntriesLimited
<1>4. ASSUME NEW p \in Procs, LockForStore(p)
      PROVE  LimitInv'
  <2>1. Exclusive'
    BY <1>0, <1>4 DEF LockForStore, Exclusive
  <2>2. EntriesLimited'
    BY <1>0, <1>4, DropLimited DEF LockForStore
  <2> QED BY <2>1, <2>2 DEF LimitInv
<1>5. ASSUME NEW p \in Procs, EvictOldest(p)
      PROVE  LimitInv'
  <2>1. Exclusive'
    BY <1>0, <1>5 DEF EvictOldest, Exclusive
  <2>2. EntriesLimited'
    BY <1>0, <1>5, DropLimited DEF EvictOldest
  <2> QED BY <2>1, <2>2 DEF LimitInv
<1>6. ASSUME NEW p \in Procs, FinishStore(p)
      PROVE  LimitInv'
  <2>1. Exclusive'
    BY <1>0, <1>6 DEF FinishStore, Return, Exclusive
  <2>2. CASE NeedsRoom(p)
    BY <1>0, <1>6, <2>1, <2>2 DEF FinishStore, LimitInv, EntriesLimited
  <2>3. CASE ~NeedsRoom(p)
    <3>1. DOMAIN entries' = DOMAIN entries \cup {call[p].key}
      BY <1>6, <2>3 DEF FinishStore
    <3>2. IsFiniteSet(DOMAIN entries) /\ Cardinality(DOMAIN entries) \in Nat
      BY <1>0, FS_CardinalityType DEF EntriesLimited
    <3>3. Cardinality(DOMAIN entries) < MaxEntries
      BY <2>3, <3>2, CacheAssumption DEF NeedsRoom
    <3>4. /\ IsFiniteSet(DOMAIN entries')
          /\ \/ Cardinality(DOMAIN entries') = Cardinality(DOMAIN entries)
             \/ Cardinality(DOMAIN entries') = Cardinality(DOMAIN entries) + 1
      BY <3>1, <3>2, FS_AddElement
    <3>5. Cardinality(DOMAIN entries') <= MaxEntries
      BY <3>2, <3>3, <3>4, CacheAssumption
    <3> QED BY <2>1, <3>4, <3>5 DEF LimitInv, EntriesLimited
  <2> QED BY <2>2, <2>3
<1>7. ASSUME NEW p \in Procs, Load(p)
      PROVE  LimitInv'
  <2>1. Exclusive'
    BY <1>0, <1>7 DEF Load, Return, Exclusive
  <2>2. DOMAIN entries' \subseteq DOMAIN entries
    BY <1>7 DEF Load
  <2> QED BY <1>0, <2>1, <2>2, FewerEntries DEF LimitInv
<1> QED BY <1>1, <1>2, <1>3, <1>4, <1>5, <1>6, <1>7 DEF Next, Proc

-----------------------------------------------------------------------------
(* Induction.                                                              *)

(* Every set of natural numbers has a least element: the library's order   *)
(* theorem, without the operator that none of the provers can instantiate. *)
LEMMA LeastNumber ==
  ASSUME NEW T \in SUBSET Nat, T # {}
  PROVE  \E n \in T : \A m \in T : n <= m
<1>1. PICK R : IsWellFoundedOn(R, Nat) /\ \A n, m \in Nat : <<m, n>> \in R <=> m < n
  <2>1. IsWellFoundedOn(OpToRel(<, Nat), Nat)
    BY NatLessThanWellFounded
  <2>2. \A n, m \in Nat : <<m, n>> \in OpToRel(<, Nat) <=> m < n
    BY DEF OpToRel
  <2> QED BY <2>1, <2>2, Zenon
<1>2. PICK n \in T : \A m \in T : ~(<<m, n>> \in R)
  BY <1>1, WFMin
<1>3. ASSUME NEW m \in T PROVE n <= m
  <2>1. n \in Nat /\ m \in Nat
    OBVIOUS
  <2>2. ~(m < n)
    BY <1>1, <1>2, <2>1
  <2> QED BY <2>1, <2>2
<1> QED BY <1>3

(* Induction over the subsets of a finite set, with a set F of subsets in  *)
(* the place of the predicate.                                             *)
LEMMA SubsetInduction ==
  ASSUME NEW S, IsFiniteSet(S), NEW F,
         {} \in F,
         \A U \in SUBSET S : U # {} /\ (\A x \in U : U \ {x} \in F) => U \in F
  PROVE  SUBSET S \subseteq F
<1> DEFINE Bad == {U \in SUBSET S : U \notin F}
           Cards == {n \in Nat : \E U \in Bad : Cardinality(U) = n}
<1> SUFFICES ASSUME NEW U0 \in Bad PROVE FALSE
  OBVIOUS
<1>1. \A U \in SUBSET S : IsFiniteSet(U) /\ Cardinality(U) \in Nat
  BY FS_Subset, FS_CardinalityType
<1>2. Cards \in SUBSET Nat /\ Cardinality(U0) \in Cards
  BY <1>1
<1>3. PICK n \in Cards : \A m \in Cards : n <= m
  <2> HIDE DEF Cards
  <2> QED BY <1>2, LeastNumber
<1>4. PICK U \in Bad : Cardinality(U) = n
  OBVIOUS
<1>5. PICK x \in U : U \ {x} \notin F
  BY <1>4
<1>6. Cardinality(U \ {x}) = n - 1 /\ n \in Nat
  BY <1>1, <1>4, <1>5, FS_RemoveElement
<1>7. U \ {x} \in Bad
  BY <1>4, <1>5
<1>8. n - 1 \in Nat
  BY <1>1, <1>6, <1>7
<1>9. n - 1 \in Cards
  BY <1>6, <1>7, <1>8
<1> QED BY <1>3, <1>6, <1>9

-----------------------------------------------------------------------------
(* Sums over the entries.                                                  *)

Total(w, S) == MapThenSumSet(LAMBDA k : w[k].bytes, S)

(* The equation MapThenSumSet picks its table by. *)
Table(w, S, t) ==
  t = [U \in SUBSET S |->
        IF U = {} THEN 0
        ELSE w[CHOOSE x \in U : TRUE].bytes + t[U \ {CHOOSE x \in U : TRUE}]]

LEMMA TotalDef ==
  ASSUME NEW w, NEW S
  PROVE  Total(w, S) = (CHOOSE t : Table(w, S, t))[S]
BY DEF Total, MapThenSumSet, MapThenFoldSet, Table

Sized(w, S) == \A k \in S : w[k].bytes \in Nat

(* A table in which the order of the elements does not matter. *)
Sums(w, S, t) ==
  /\ t \in [SUBSET S -> Nat]
  /\ t[{}] = 0
  /\ \A U \in SUBSET S : \A x \in U : t[U] = w[x].bytes + t[U \ {x}]

LEMMA SumsExist ==
  ASSUME NEW w, NEW S, IsFiniteSet(S), Sized(w, S)
  PROVE  \E t : Sums(w, S, t)
<1> DEFINE F == {V \in SUBSET S : \E t : Sums(w, V, t)}
<1>1. {} \in F
  <2> DEFINE t0 == [U \in SUBSET {} |-> 0]
  <2>1. Sums(w, {}, t0)
    BY DEF Sums
  <2> QED BY <2>1
<1>2. ASSUME NEW V \in SUBSET S, V # {}, \A a \in V : V \ {a} \in F
      PROVE  V \in F
  <2>0. PICK a \in V : TRUE
    BY <1>2
  <2>1. PICK t : Sums(w, V \ {a}, t)
    BY <1>2, <2>0
  <2> DEFINE n == w[a].bytes
             u == [U \in SUBSET V |-> IF a \in U THEN n + t[U \ {a}] ELSE t[U]]
  <2>2. n \in Nat
    BY DEF Sized
  <2>3. \A U \in SUBSET V : U \ {a} \in SUBSET (V \ {a}) /\ t[U \ {a}] \in Nat
    BY <2>1 DEF Sums
  <2>4. \A U \in SUBSET V : u[U] = IF a \in U THEN n + t[U \ {a}] ELSE t[U \ {a}]
    <3> TAKE U \in SUBSET V
    <3>1. a \notin U => U \ {a} = U
      OBVIOUS
    <3> QED BY <3>1
  <2>5. u \in [SUBSET V -> Nat]
    <3>1. ASSUME NEW U \in SUBSET V PROVE u[U] \in Nat
      <4>1. u[U] = IF a \in U THEN n + t[U \ {a}] ELSE t[U \ {a}]
        BY <2>4
      <4>2. t[U \ {a}] \in Nat
        BY <2>3
      <4> HIDE DEF u, n
      <4> QED BY <2>2, <4>1, <4>2
    <3> QED BY <3>1
  <2>6. u[{}] = 0
    BY <2>1, <2>4 DEF Sums
  <2>7. ASSUME NEW U \in SUBSET V, NEW x \in U
        PROVE  u[U] = w[x].bytes + u[U \ {x}]
    <3>1. CASE x = a
      <4>1. a \in U /\ a \notin (U \ {x}) /\ (U \ {x}) \ {a} = U \ {a} /\ U \ {x} \in SUBSET V
        BY <3>1
      <4>2. u[U] = n + t[U \ {a}] /\ u[U \ {x}] = t[U \ {a}]
        BY <2>4, <4>1
      <4> QED BY <3>1, <4>2
    <3>2. CASE x # a
      <4>1. x \in U \ {a} /\ U \ {x} \in SUBSET V /\ a \in U <=> a \in U \ {x}
        BY <3>2
      <4>2. (U \ {x}) \ {a} = (U \ {a}) \ {x}
        OBVIOUS
      <4>3. t[U \ {a}] = w[x].bytes + t[(U \ {a}) \ {x}]
        BY <2>1, <2>3, <4>1, <3>2 DEF Sums
      <4>4. t[(U \ {a}) \ {x}] \in Nat /\ w[x].bytes \in Nat
        BY <2>3, <4>1, <4>2, <3>2 DEF Sized
      <4>5. u[U \ {x}] = IF a \in U THEN n + t[(U \ {a}) \ {x}] ELSE t[(U \ {a}) \ {x}]
        BY <2>4, <4>1, <4>2, <3>2
      <4>6. u[U] = IF a \in U THEN n + t[U \ {a}] ELSE t[U \ {a}]
        BY <2>4
      <4> HIDE DEF u, n
      <4> QED BY <2>2, <4>3, <4>4, <4>5, <4>6
    <3> QED BY <3>1, <3>2
  <2>8. Sums(w, V, u)
    <3> HIDE DEF u
    <3> QED BY <2>5, <2>6, <2>7 DEF Sums
  <2> HIDE DEF u
  <2> QED BY <2>8
<1> HIDE DEF F
<1>3. S \in F
  BY <1>1, <1>2, SubsetInduction
<1> QED BY <1>3 DEF F

LEMMA TotalIs ==
  ASSUME NEW w, NEW S, IsFiniteSet(S), Sized(w, S), NEW t, Sums(w, S, t), NEW T \in SUBSET S
  PROVE  Total(w, T) = t[T]
<1> DEFINE c(U) == CHOOSE x \in U : TRUE
           r == [U \in SUBSET T |-> t[U]]
           q == CHOOSE v : Table(w, T, v)
<1>1. \A U \in SUBSET T : U # {} => c(U) \in U
  OBVIOUS
<1>2. \A U \in SUBSET T : U # {} => t[U] = w[c(U)].bytes + t[U \ {c(U)}]
  BY <1>1 DEF Sums
<1>3. Table(w, T, r)
  <2>1. t[{}] = 0
    BY DEF Sums
  <2>2. \A U \in SUBSET T : r[U] = IF U = {} THEN 0 ELSE w[c(U)].bytes + r[U \ {c(U)}]
    BY <1>2, <2>1
  <2>3. r = [U \in SUBSET T |-> IF U = {} THEN 0 ELSE w[c(U)].bytes + r[U \ {c(U)}]]
    <3>1. r = [U \in SUBSET T |-> r[U]]
      OBVIOUS
    <3> HIDE DEF r
    <3> QED BY <2>2, <3>1
  <2> HIDE DEF r
  <2> QED BY <2>3 DEF Table
<1>4. Table(w, T, q)
  BY <1>3, Zenon
<1> HIDE DEF q, r
<1>5. \A U \in SUBSET T : q[U] = IF U = {} THEN 0 ELSE w[c(U)].bytes + q[U \ {c(U)}]
  BY <1>4 DEF Table
<1> DEFINE F == {U \in SUBSET T : q[U] = t[U]}
<1>6. {} \in F
  BY <1>5 DEF Sums
<1>7. ASSUME NEW U \in SUBSET T, U # {}, \A x \in U : U \ {x} \in F
      PROVE  U \in F
  <2>1. U \ {c(U)} \in SUBSET T /\ q[U \ {c(U)}] = t[U \ {c(U)}]
    BY <1>1, <1>7
  <2>2. q[U] = w[c(U)].bytes + q[U \ {c(U)}]
    BY <1>5, <1>7
  <2>3. t[U] = w[c(U)].bytes + t[U \ {c(U)}]
    BY <1>2, <1>7
  <2> HIDE DEF c
  <2> QED BY <2>1, <2>2, <2>3
<1>8. IsFiniteSet(T)
  BY FS_Subset
<1>9. SUBSET T \subseteq F
  <2> HIDE DEF F
  <2> QED BY <1>6, <1>7, <1>8, SubsetInduction
<1> QED BY <1>9, TotalDef DEF q

(* What the byte account needs to know about sums. *)
LEMMA TotalFacts ==
  ASSUME NEW w, NEW S, IsFiniteSet(S), Sized(w, S)
  PROVE  /\ Total(w, {}) = 0
         /\ Total(w, S) \in Nat
         /\ \A x \in S : Total(w, S) = w[x].bytes + Total(w, S \ {x})
<1>1. PICK t : Sums(w, S, t)
  BY SumsExist
<1>2. \A T \in SUBSET S : Total(w, T) = t[T]
  BY <1>1, TotalIs
<1>3. Total(w, {}) = 0
  BY <1>1, <1>2 DEF Sums
<1>4. Total(w, S) \in Nat
  BY <1>1, <1>2 DEF Sums
<1>5. ASSUME NEW x \in S
      PROVE  Total(w, S) = w[x].bytes + Total(w, S \ {x})
  <2>1. Total(w, S) = t[S] /\ Total(w, S \ {x}) = t[S \ {x}]
    BY <1>2
  <2>2. t[S] = w[x].bytes + t[S \ {x}]
    BY <1>1 DEF Sums
  <2> QED BY <2>1, <2>2
<1> QED BY <1>3, <1>4, <1>5

LEMMA TotalSplit ==
  ASSUME NEW w, NEW S, IsFiniteSet(S), Sized(w, S), NEW T \in SUBSET S
  PROVE  Total(w, S) = Total(w, T) + Total(w, S \ T)
<1>1. PICK t : Sums(w, S, t)
  BY SumsExist
<1>2. \A U \in SUBSET S : Total(w, U) = t[U] /\ t[U] \in Nat
  <2> TAKE U \in SUBSET S
  <2>1. Total(w, U) = t[U]
    BY <1>1, TotalIs
  <2> QED BY <1>1, <2>1 DEF Sums
<1> DEFINE F == {U \in SUBSET T : t[(S \ T) \cup U] = t[U] + t[S \ T]}
<1>3. {} \in F
  <2>1. (S \ T) \cup {} = S \ T /\ S \ T \in SUBSET S
    OBVIOUS
  <2>2. t[S \ T] \in Nat /\ t[{}] = 0
    BY <1>1, <1>2, <2>1 DEF Sums
  <2> QED BY <2>1, <2>2
<1>4. ASSUME NEW U \in SUBSET T, U # {}, \A x \in U : U \ {x} \in F
      PROVE  U \in F
  <2>1. PICK x \in U : U \ {x} \in F
    BY <1>4
  <2>2. /\ (S \ T) \cup U \in SUBSET S /\ x \in (S \ T) \cup U
        /\ ((S \ T) \cup U) \ {x} = (S \ T) \cup (U \ {x})
        /\ U \in SUBSET S /\ U \ {x} \in SUBSET S /\ S \ T \in SUBSET S
    OBVIOUS
  <2>3. t[(S \ T) \cup U] = w[x].bytes + t[(S \ T) \cup (U \ {x})]
    BY <1>1, <2>2 DEF Sums
  <2>4. t[U] = w[x].bytes + t[U \ {x}]
    BY <1>1, <2>2 DEF Sums
  <2>5. t[(S \ T) \cup (U \ {x})] = t[U \ {x}] + t[S \ T]
    BY <2>1
  <2>6. w[x].bytes \in Nat /\ t[U \ {x}] \in Nat /\ t[S \ T] \in Nat
    BY <1>2, <2>2 DEF Sized
  <2>7. t[(S \ T) \cup U] = t[U] + t[S \ T]
    BY <2>3, <2>4, <2>5, <2>6
  <2> QED BY <2>7
<1>5. T \in F
  <2>1. IsFiniteSet(T)
    BY FS_Subset
  <2> HIDE DEF F
  <2> QED BY <1>3, <1>4, <2>1, SubsetInduction
<1>6. (S \ T) \cup T = S
  OBVIOUS
<1> QED BY <1>2, <1>5, <1>6

LEMMA TotalSame ==
  ASSUME NEW w, NEW v, NEW S, IsFiniteSet(S), Sized(w, S),
         \A k \in S : v[k].bytes = w[k].bytes
  PROVE  Total(v, S) = Total(w, S)
<1>1. PICK t : Sums(w, S, t)
  BY SumsExist
<1>2. Sized(v, S) /\ Sums(v, S, t)
  BY <1>1 DEF Sums, Sized
<1> QED BY <1>1, <1>2, TotalIs


-----------------------------------------------------------------------------
(* Types, of the operations one by one.                                    *)

(* Types without the mutex, which is in Exclusive, and the account. *)
StateTyped ==
  /\ clock \in Times
  /\ pc \in [Procs -> {"idle", "store", "evict", "load"}]
  /\ call \in [Procs -> Calls \cup {<<>>}]
  /\ \A p \in Procs : pc[p] # "idle" => call[p] \in Calls
  /\ DOMAIN entries \subseteq Keys
  /\ \A k \in DOMAIN entries : entries[k] \in Entries
  /\ DOMAIN last \subseteq Keys
  /\ \A k \in DOMAIN last : last[k] \in [size : Nat, now : Times]
  /\ hits \subseteq Hits

LEMMA AtMostOne ==
  ASSUME NEW S, \A p, q \in S : p = q
  PROVE  Cardinality(S) <= 1
<1>1. CASE S = {}
  BY <1>1, FS_EmptySet
<1>2. CASE S # {}
  <2>1. PICK p \in S : TRUE
    BY <1>2
  <2>2. S = {p}
    BY <2>1
  <2>3. Cardinality({p}) = 1
    BY FS_Singleton
  <2> QED BY <2>2, <2>3
<1> QED BY <1>1, <1>2

LEMMA TypeParts ==
  /\ TypeOK => StateTyped
  /\ StateTyped /\ Exclusive /\ bytes \in Int => TypeOK
  /\ StateTyped' /\ Exclusive' /\ bytes' \in Int => TypeOK'
<1>1. TypeOK => StateTyped
  BY DEF TypeOK, StateTyped
<1>2. StateTyped /\ Exclusive /\ bytes \in Int => TypeOK
  <2> SUFFICES ASSUME StateTyped, Exclusive, bytes \in Int PROVE TypeOK
    OBVIOUS
  <2>1. Cardinality(lock) <= 1
    BY AtMostOne DEF Exclusive
  <2> QED BY <2>1 DEF TypeOK, StateTyped, Exclusive
<1>3. StateTyped' /\ Exclusive' /\ bytes' \in Int => TypeOK'
  <2> SUFFICES ASSUME StateTyped', Exclusive', bytes' \in Int PROVE TypeOK'
    OBVIOUS
  <2>1. Cardinality(lock') <= 1
    BY AtMostOne DEF Exclusive
  <2> QED BY <2>1 DEF TypeOK, StateTyped, Exclusive
<1> QED BY <1>1, <1>2, <1>3

(* Every step keeps the types. *)
LEMMA TypedNext == StateTyped /\ [Next]_vars => StateTyped'
<1> SUFFICES ASSUME StateTyped, [Next]_vars PROVE StateTyped'
  OBVIOUS
<1> USE CacheAssumption
<1>1. CASE Tick
  BY <1>1 DEF Tick, StateTyped, Times
<1>2. CASE UNCHANGED vars
  BY <1>2 DEF vars, StateTyped
<1>3. ASSUME NEW p \in Procs, NEW k \in Keys, NEW n \in Nat,
             pc' \in [Procs -> {"idle", "store", "evict", "load"}],
             \A q \in Procs \ {p} : pc'[q] = pc[q],
             call' = [call EXCEPT ![p] = [key |-> k, size |-> n, now |-> clock]],
             UNCHANGED <<clock, entries, last, hits>>
      PROVE  StateTyped'
  <2>1. [key |-> k, size |-> n, now |-> clock] \in Calls
    BY DEF StateTyped, Calls
  <2>2. call' \in [Procs -> Calls \cup {<<>>}]
    BY <1>3, <2>1 DEF StateTyped
  <2>3. \A q \in Procs : pc'[q] # "idle" => call'[q] \in Calls
    BY <1>3, <2>1 DEF StateTyped
  <2> QED BY <1>3, <2>2, <2>3 DEF StateTyped
<1>4. ASSUME NEW p \in Procs, NEW k \in Keys, BeginLoad(p, k)
      PROVE  StateTyped'
  BY <1>3, <1>4 DEF BeginLoad, StateTyped
<1>5. ASSUME NEW p \in Procs, NEW k \in Keys, NEW n \in Sizes, BeginStore(p, k, n)
      PROVE  StateTyped'
  BY <1>3, <1>5 DEF BeginStore, StateTyped
<1>6. ASSUME NEW S, Drop(S)
      PROVE  /\ DOMAIN entries' \subseteq Keys
             /\ \A k \in DOMAIN entries' : entries'[k] \in Entries
  BY <1>6 DEF Drop, Restrict, StateTyped
<1>7. ASSUME NEW p \in Procs, LockForStore(p)
      PROVE  StateTyped'
  <2>1. /\ DOMAIN entries' \subseteq Keys
        /\ \A k \in DOMAIN entries' : entries'[k] \in Entries
    BY <1>6, <1>7 DEF LockForStore
  <2> QED BY <1>7, <2>1 DEF LockForStore, StateTyped
<1>8. ASSUME NEW p \in Procs, EvictOldest(p)
      PROVE  StateTyped'
  <2>1. /\ DOMAIN entries' \subseteq Keys
        /\ \A k \in DOMAIN entries' : entries'[k] \in Entries
    BY <1>6, <1>8 DEF EvictOldest
  <2> QED BY <1>8, <2>1 DEF EvictOldest, StateTyped
<1>9. ASSUME NEW p \in Procs, Return(p)
      PROVE  /\ pc' \in [Procs -> {"idle", "store", "evict", "load"}]
             /\ call' \in [Procs -> Calls \cup {<<>>}]
             /\ \A q \in Procs : pc'[q] # "idle" => call'[q] \in Calls
  BY <1>9 DEF Return, StateTyped
<1>10. ASSUME NEW p \in Procs, FinishStore(p)
       PROVE  StateTyped'
  <2>1. call[p] \in Calls
    BY <1>10 DEF FinishStore, StateTyped
  <2>2. call[p].key \in Keys /\ call[p].size \in Nat /\ call[p].now \in Times
    BY <2>1 DEF Calls
  <2>3. [bytes |-> call[p].size, expires |-> call[p].now + TTL, touched |-> call[p].now]
          \in Entries
    BY <2>2 DEF Entries, Times
  <2>4. CASE NeedsRoom(p)
    BY <1>9, <1>10, <2>4 DEF FinishStore, StateTyped
  <2>5. CASE ~NeedsRoom(p)
    <3>1. /\ DOMAIN entries' \subseteq Keys
          /\ \A k \in DOMAIN entries' : entries'[k] \in Entries
      BY <1>10, <2>2, <2>3, <2>5 DEF FinishStore, StateTyped
    <3>2. /\ DOMAIN last' \subseteq Keys
          /\ \A k \in DOMAIN last' : last'[k] \in [size : Nat, now : Times]
      BY <1>10, <2>2, <2>5 DEF FinishStore, StateTyped
    <3> QED BY <1>9, <1>10, <3>1, <3>2 DEF FinishStore, StateTyped
  <2> QED BY <2>4, <2>5
<1>11. ASSUME NEW p \in Procs, Load(p)
       PROVE  StateTyped'
  <2>1. call[p] \in Calls
    BY <1>11 DEF Load, StateTyped
  <2>2. call[p].key \in Keys /\ call[p].size \in Nat /\ call[p].now \in Times
    BY <2>1 DEF Calls
  <2>3. \A k \in DOMAIN entries : Touch(entries[k], call[p].now) \in Entries
    BY <2>2 DEF Touch, Entries, StateTyped
  <2>4. /\ DOMAIN entries' \subseteq Keys
        /\ \A k \in DOMAIN entries' : entries'[k] \in Entries
    BY <1>11, <2>3 DEF Load, StateTyped
  <2>5. \A k \in DOMAIN entries : entries[k].bytes \in Nat
    BY DEF StateTyped, Entries
  <2>6. hits' \subseteq Hits
    BY <1>11, <2>2, <2>5 DEF Load, Hits
  <2> QED BY <1>9, <1>11, <2>4, <2>6 DEF Load, StateTyped
<1> QED BY <1>1, <1>2, <1>4, <1>5, <1>7, <1>8, <1>10, <1>11 DEF Next, Proc

-----------------------------------------------------------------------------
(* The byte account.                                                       *)

(* The size of what a Store offers is acceptable, and while it makes room  *)
(* the entry it replaces is out of the map: counting it twice would be the *)
(* way to lose track.                                                      *)
StoreInv ==
  \A p \in Procs :
    /\ pc[p] \in {"store", "evict"} => call[p].size \in 1 .. MaxEntry
    /\ pc[p] = "evict" => call[p].key \notin DOMAIN entries

AccountInv == CacheInv /\ LimitInv /\ StoreInv

(* SumBytes in terms of Total, in this state and in the next. *)
LEMMA SumIsTotal ==
  ASSUME NEW S
  PROVE  SumBytes(S) = Total(entries, S)
BY DEF SumBytes, Total, MapThenSumSet, MapThenFoldSet

LEMMA AccountIsTotal ==
  /\ Accounted <=> bytes = Total(entries, DOMAIN entries)
  /\ Accounted' <=> bytes' = Total(entries', DOMAIN entries')
  /\ Bounded <=> /\ Cardinality(DOMAIN entries) <= MaxEntries
                 /\ Total(entries, DOMAIN entries) <= MaxBytes
  /\ Bounded' <=> /\ Cardinality(DOMAIN entries') <= MaxEntries
                  /\ Total(entries', DOMAIN entries') <= MaxBytes
BY DEF Accounted, Bounded, SumBytes, Total, MapThenSumSet, MapThenFoldSet

(* Forgetting some entries, and what was accounted for them. *)
LEMMA RemoveAccounted ==
  ASSUME StateTyped, Accounted, Bounded, EntriesLimited, EntriesLimited',
         NEW S \in SUBSET DOMAIN entries,
         DOMAIN entries' = DOMAIN entries \ S,
         \A k \in DOMAIN entries' : entries'[k].bytes = entries[k].bytes,
         bytes' = bytes - SumBytes(S)
  PROVE  Accounted' /\ Bounded'
<1> DEFINE D == DOMAIN entries
<1>1. Sized(entries, D) /\ IsFiniteSet(D)
  BY DEF StateTyped, Entries, Sized, EntriesLimited
<1>2. Sized(entries, S) /\ IsFiniteSet(S) /\ Sized(entries, D \ S) /\ IsFiniteSet(D \ S)
  BY <1>1, FS_Subset DEF Sized
<1>3. Total(entries, D) = Total(entries, S) + Total(entries, D \ S)
  BY <1>1, TotalSplit
<1>4. Total(entries, S) \in Nat /\ Total(entries, D \ S) \in Nat
  BY <1>2, TotalFacts
<1>5. Total(entries', DOMAIN entries') = Total(entries, D \ S)
  BY <1>2, TotalSame
<1>6. bytes' = bytes - Total(entries, S)
  BY SumIsTotal
<1>7. bytes = Total(entries, D) /\ Total(entries, D) <= MaxBytes
  BY AccountIsTotal
<1>8. bytes' = Total(entries', DOMAIN entries') /\ Total(entries', DOMAIN entries') <= MaxBytes
  <2> HIDE DEF D
  <2> QED BY <1>3, <1>4, <1>5, <1>6, <1>7, CacheAssumption
<1> QED BY <1>8, AccountIsTotal DEF EntriesLimited

(* Adding an entry under a new key, and its size to the account. *)
LEMMA InsertAccounted ==
  ASSUME StateTyped, Accounted, EntriesLimited, EntriesLimited',
         NEW k, k \notin DOMAIN entries, NEW n \in Nat,
         DOMAIN entries' = DOMAIN entries \cup {k},
         \A j \in DOMAIN entries : entries'[j] = entries[j],
         entries'[k].bytes = n,
         bytes' = bytes + n,
         bytes + n <= MaxBytes
  PROVE  Accounted' /\ Bounded'
<1> DEFINE D == DOMAIN entries
           E == DOMAIN entries'
<1>1. Sized(entries, D) /\ IsFiniteSet(D)
  BY DEF StateTyped, Entries, Sized, EntriesLimited
<1>2. Sized(entries', E) /\ IsFiniteSet(E)
  BY <1>1 DEF Sized, EntriesLimited
<1>3. Total(entries', E) = entries'[k].bytes + Total(entries', E \ {k})
  BY <1>2, TotalFacts
<1>4. E \ {k} = D
  OBVIOUS
<1>5. Total(entries', D) = Total(entries, D)
  BY <1>1, TotalSame
<1>6. Total(entries, D) \in Nat
  BY <1>1, TotalFacts
<1>7. bytes = Total(entries, D)
  BY AccountIsTotal
<1>8. bytes' = Total(entries', E) /\ Total(entries', E) <= MaxBytes
  <2>1. Total(entries', E) = n + Total(entries, D)
    BY <1>3, <1>4, <1>5
  <2>2. bytes' = Total(entries, D) + n /\ Total(entries, D) + n <= MaxBytes
    BY <1>7
  <2> HIDE DEF D, E
  <2> QED BY <1>6, <2>1, <2>2
<1> QED BY <1>8, AccountIsTotal DEF EntriesLimited

(* A Store that has emptied the cache has room. *)
LEMMA EmptyHasRoom ==
  ASSUME StateTyped, Accounted, StoreInv, EntriesLimited
  PROVE  RoomCanBeMade
<1> SUFFICES ASSUME NEW p \in Procs, pc[p] = "evict", DOMAIN entries = {}
             PROVE  ~NeedsRoom(p)
  BY DEF RoomCanBeMade
<1>1. call[p].size \in 1 .. MaxEntry
  BY DEF StoreInv
<1>2. Sized(entries, {}) /\ IsFiniteSet({}) /\ Cardinality(DOMAIN entries) = 0
  BY FS_EmptySet DEF Sized
<1>3. bytes = 0
  BY <1>2, TotalFacts, AccountIsTotal
<1> QED BY <1>1, <1>2, <1>3, CacheAssumption DEF NeedsRoom

(* What a Store relies on is left alone by all but its own steps. *)
LEMMA StoreNext == StateTyped /\ Exclusive /\ StoreInv /\ [Next]_vars => StoreInv'
<1> SUFFICES ASSUME StateTyped, Exclusive, StoreInv, [Next]_vars PROVE StoreInv'
  OBVIOUS
<1>1. CASE Tick \/ UNCHANGED vars
  BY <1>1 DEF Tick, vars, StoreInv
<1>2. ASSUME NEW p \in Procs, NEW k \in Keys,
             BeginLoad(p, k) \/ \E n \in Sizes : BeginStore(p, k, n)
      PROVE  StoreInv'
  BY <1>2 DEF BeginLoad, BeginStore, StoreInv, StateTyped
<1>3. ASSUME NEW p \in Procs, LockForStore(p)
      PROVE  StoreInv'
  <2>1. \A q \in Procs : pc[q] # "evict"
    BY <1>3 DEF LockForStore, Exclusive
  <2>2. call[p].key \notin DOMAIN entries'
    BY <1>3 DEF LockForStore, Drop, Restrict
  <2> QED BY <1>3, <2>1, <2>2 DEF LockForStore, StoreInv, StateTyped
<1>4. ASSUME NEW p \in Procs, EvictOldest(p)
      PROVE  StoreInv'
  <2>1. DOMAIN entries' \subseteq DOMAIN entries
    BY <1>4 DEF EvictOldest, Drop, Restrict
  <2> QED BY <1>4, <2>1 DEF EvictOldest, StoreInv
<1>5. ASSUME NEW p \in Procs, FinishStore(p)
      PROVE  StoreInv'
  <2>1. p \in lock
    BY <1>5 DEF FinishStore, Exclusive
  <2>2. \A q \in Procs : pc[q] = "evict" => q = p
    BY <2>1 DEF Exclusive
  <2> QED BY <1>5, <2>2 DEF FinishStore, Return, StoreInv, StateTyped
<1>6. ASSUME NEW p \in Procs, Load(p)
      PROVE  StoreInv'
  <2>1. DOMAIN entries' \subseteq DOMAIN entries
    BY <1>6 DEF Load
  <2> QED BY <1>6, <2>1 DEF Load, Return, StoreInv, StateTyped
<1> QED BY <1>1, <1>2, <1>3, <1>4, <1>5, <1>6 DEF Next, Proc

(* Every step keeps the account. *)
LEMMA AccountedNext ==
  ASSUME AccountInv, [Next]_vars, EntriesLimited'
  PROVE  Accounted' /\ Bounded'
<1>0. StateTyped /\ Accounted /\ Bounded /\ EntriesLimited /\ Exclusive /\ StoreInv
  BY TypeParts DEF AccountInv, CacheInv, LimitInv
<1>1. ASSUME UNCHANGED <<entries, bytes>>
      PROVE  Accounted' /\ Bounded'
  BY <1>0, <1>1, AccountIsTotal
<1>2. ASSUME NEW S \in SUBSET DOMAIN entries, Drop(S)
      PROVE  Accounted' /\ Bounded'
  <2>1. DOMAIN entries' = DOMAIN entries \ S /\ bytes' = bytes - SumBytes(S)
    BY <1>2 DEF Drop, Restrict
  <2>2. \A k \in DOMAIN entries' : entries'[k].bytes = entries[k].bytes
    BY <1>2 DEF Drop, Restrict
  <2> QED BY <1>0, <2>1, <2>2, RemoveAccounted
<1>3. CASE Tick \/ UNCHANGED vars
  BY <1>1, <1>3 DEF Tick, vars
<1>4. ASSUME NEW p \in Procs, NEW k \in Keys,
             BeginLoad(p, k) \/ \E n \in Sizes : BeginStore(p, k, n)
      PROVE  Accounted' /\ Bounded'
  BY <1>1, <1>4 DEF BeginLoad, BeginStore
<1>5. ASSUME NEW p \in Procs, LockForStore(p)
      PROVE  Accounted' /\ Bounded'
  BY <1>2, <1>5 DEF LockForStore, Expired
<1>6. ASSUME NEW p \in Procs, EvictOldest(p)
      PROVE  Accounted' /\ Bounded'
  BY <1>2, <1>6 DEF EvictOldest
<1>7. ASSUME NEW p \in Procs, FinishStore(p)
      PROVE  Accounted' /\ Bounded'
  <2>1. CASE NeedsRoom(p)
    BY <1>1, <1>7, <2>1 DEF FinishStore
  <2>2. CASE ~NeedsRoom(p)
    <3> DEFINE k == call[p].key
               n == call[p].size
    <3>1. pc[p] = "evict"
      BY <1>7 DEF FinishStore
    <3>2. k \notin DOMAIN entries /\ n \in Nat
      BY <1>0, <3>1, CacheAssumption DEF StoreInv
    <3>3. /\ DOMAIN entries' = DOMAIN entries \cup {k}
          /\ \A j \in DOMAIN entries : entries'[j] = entries[j]
          /\ entries'[k].bytes = n
          /\ bytes' = bytes + n
      BY <1>7, <2>2, <3>2 DEF FinishStore
    <3>4. bytes \in Nat
      <4>1. Sized(entries, DOMAIN entries) /\ IsFiniteSet(DOMAIN entries)
        BY <1>0 DEF StateTyped, Entries, Sized, EntriesLimited
      <4> QED BY <1>0, <4>1, TotalFacts, AccountIsTotal
    <3>5. bytes + n <= MaxBytes
      BY <2>2, <3>2, <3>4, CacheAssumption DEF NeedsRoom
    <3> HIDE DEF k, n
    <3> QED BY <1>0, <3>2, <3>3, <3>5, InsertAccounted
  <2> QED BY <2>1, <2>2
<1>8. ASSUME NEW p \in Procs, Load(p)
      PROVE  Accounted' /\ Bounded'
  <2> DEFINE S == Expired(call[p].now)
  <2>1. S \in SUBSET DOMAIN entries
    BY DEF Expired
  <2>2. DOMAIN entries' = DOMAIN entries \ S /\ bytes' = bytes - SumBytes(S)
    BY <1>8 DEF Load
  <2>3. \A j \in DOMAIN entries : Touch(entries[j], call[p].now).bytes = entries[j].bytes
    BY <1>0 DEF Touch, StateTyped, Entries
  <2>4. \A j \in DOMAIN entries' : entries'[j].bytes = entries[j].bytes
    BY <1>8, <2>3 DEF Load
  <2> HIDE DEF S
  <2> QED BY <1>0, <2>1, <2>2, <2>4, RemoveAccounted
<1> QED BY <1>3, <1>4, <1>5, <1>6, <1>7, <1>8 DEF Next, Proc

LEMMA AccountInit == Init => AccountInv
<1> SUFFICES ASSUME Init PROVE AccountInv
  OBVIOUS
<1>1. LimitInv
  BY LimitInit
<1>2. clock = 0 /\ pc = [p \in Procs |-> "idle"] /\ bytes = 0 /\ hits = {}
  BY DEF Init
<1>3. entries = <<>> /\ last = <<>> /\ call = [p \in Procs |-> <<>>]
  BY Zenon DEF Init
<1>4. DOMAIN entries = {} /\ DOMAIN last = {}
  BY <1>3
<1>5. StateTyped
  BY <1>2, <1>3, <1>4, CacheAssumption DEF StateTyped, Times
<1>6. TypeOK
  BY <1>1, <1>2, <1>5, TypeParts DEF LimitInv
<1>7. Total(entries, DOMAIN entries) = 0
  <2>1. IsFiniteSet({}) /\ Sized(entries, {})
    BY FS_EmptySet DEF Sized
  <2> QED BY <1>4, <2>1, TotalFacts
<1>8. Accounted /\ Bounded
  BY <1>1, <1>2, <1>7, AccountIsTotal, CacheAssumption DEF LimitInv, EntriesLimited
<1>9. StoreInv /\ RoomCanBeMade
  BY <1>2 DEF StoreInv, RoomCanBeMade
<1> QED BY <1>1, <1>6, <1>8, <1>9 DEF AccountInv, CacheInv

LEMMA AccountNext == AccountInv /\ [Next]_vars => AccountInv'
<1> SUFFICES ASSUME AccountInv, [Next]_vars PROVE AccountInv'
  OBVIOUS
<1>1. StateTyped /\ LimitInv /\ Exclusive /\ StoreInv
  BY TypeParts DEF AccountInv, CacheInv, LimitInv
<1>2. LimitInv' /\ StateTyped' /\ StoreInv'
  BY <1>1, LimitNext, TypedNext, StoreNext
<1>3. Exclusive' /\ EntriesLimited'
  BY <1>2 DEF LimitInv
<1>4. Accounted' /\ Bounded'
  BY <1>3, AccountedNext
<1>5. bytes' \in Int
  <2>1. Sized(entries', DOMAIN entries') /\ IsFiniteSet(DOMAIN entries')
    BY <1>2, <1>3 DEF StateTyped, Entries, Sized, EntriesLimited
  <2>2. Total(entries', DOMAIN entries') \in Nat
    BY <2>1, TotalFacts
  <2> QED BY <1>4, <2>2, AccountIsTotal
<1>6. TypeOK'
  BY <1>2, <1>3, <1>5, TypeParts
<1>7. RoomCanBeMade'
  BY <1>2, <1>3, <1>4, EmptyHasRoom, PTL
<1> QED BY <1>2, <1>4, <1>6, <1>7 DEF AccountInv, CacheInv

(* reasoningContinuations keeps its books: however goroutines interleave   *)
(* in Store and Load, c.bytes is the total size of the entries, neither    *)
(* limit is ever exceeded, and a Store that evicts never gives up, for any *)
(* keys, sizes and limits.                                                 *)
THEOREM CacheStaysSound == Spec => []CacheInv
<1>1. AccountInv => CacheInv
  BY DEF AccountInv
<1> QED BY <1>1, AccountInit, AccountNext, PTL DEF Spec

-----------------------------------------------------------------------------
(* Hot reload: the configuration store of ConfigReload.                    *)

(* At the start of the process nothing is active. *)
LEMMA ReloadStarts == ReloadInit => IInv
<1> SUFFICES ASSUME ReloadInit PROVE IInv
  OBVIOUS
<1>1. cfgFile \in ConfigFiles /\ envFile = 0 /\ 0 \in Versions
  BY ReloadAssumption DEF ReloadInit, ConfigFiles, Versions
<1>2. store = NoSnapshot /\ published = {} /\ gen = 1 /\ server = "dotenv" /\ watch = "off"
  BY Zenon DEF ReloadInit
<1>3. req = [r \in Requests |-> "new"]
  BY DEF ReloadInit
<1>4. /\ debounce \in BOOLEAN /\ pending = 0 /\ envRead = 0 /\ cfgRead = cfgFile
      /\ authSnap = [r \in Requests |-> NoSnapshot] /\ snap = [r \in Requests |-> NoSnapshot]
  BY Zenon DEF ReloadInit
<1>5. ReloadTypeOK
  BY <1>1, <1>2, <1>3, <1>4 DEF ReloadTypeOK
<1>6. StartInv /\ CounterInv /\ GenerationIdentifies /\ OnlyValidServed
  BY <1>2, <1>3 DEF StartInv, CounterInv, GenerationIdentifies, OnlyValidServed, NoSnapshot
<1> QED BY <1>5, <1>6 DEF IInv

(* The generation of the active snapshot is a number, 0 if there is none. *)
LEMMA StoreGen == ReloadTypeOK => store.gen \in Nat /\ gen \in Nat
BY DEF ReloadTypeOK, Snapshots, NoSnapshot

(* Edits and the watcher, up to the swap, publish nothing. *)
LEMMA QuietReload ==
  ASSUME IInv, UNCHANGED storeVars, UNCHANGED reqVars, ReloadTypeOK', StartInv', gen' >= gen,
         watch' = "swap" => gen' > gen,
         server' \in {"watch", "serving"} => server \in {"watch", "serving"}
  PROVE  IInv'
<1>1. gen \in Nat /\ gen' \in Nat /\ store.gen \in Nat
  BY StoreGen DEF IInv, ReloadTypeOK
<1>2. CounterInv'
  BY <1>1 DEF IInv, CounterInv, storeVars
<1> QED BY <1>2 DEF IInv, OnlyValidServed, GenerationIdentifies, storeVars, reqVars

(* The first snapshot is published alone, under generation 1. *)
LEMMA StartKeeps ==
  ASSUME IInv, StartConfig
  PROVE  IInv'
<1> USE DEF fileVars, reqVars, storeVars
<1>0. ReloadTypeOK /\ StartInv /\ CounterInv /\ OnlyValidServed /\ GenerationIdentifies
  BY DEF IInv
<1>1. /\ server = "config" /\ watch = "off" /\ watch' = "off" /\ published = {}
      /\ cfgRead' = cfgFile
      /\ UNCHANGED <<fileVars, debounce, envRead, gen, reqVars>>
  BY <1>0 DEF StartConfig, StartInv
<1>2. CASE Validate(cfgFile)
  <2> DEFINE new == BuildSnapshot(cfgFile, envRead, 1)
  <2>1. new \in Snapshots /\ new.gen = 1 /\ new.cfg.kind = "ok"
    BY <1>0, <1>2 DEF BuildSnapshot, Snapshots, ReloadTypeOK, Validate
  <2>2. store' = new /\ published' = {new} /\ server' = "watch"
    BY <1>2 DEF StartConfig
  <2> HIDE DEF new
  <2>3. ReloadTypeOK'
    BY <1>0, <1>1, <2>1, <2>2 DEF ReloadTypeOK
  <2>4. StartInv' /\ CounterInv' /\ GenerationIdentifies'
    BY <1>0, <1>1, <2>1, <2>2 DEF StartInv, CounterInv, GenerationIdentifies
  <2>5. OnlyValidServed'
    BY <1>0, <1>1, <2>1, <2>2 DEF OnlyValidServed
  <2> QED BY <2>3, <2>4, <2>5 DEF IInv
<1>3. CASE ~Validate(cfgFile)
  <2>1. UNCHANGED storeVars /\ server' = "exited"
    BY <1>3 DEF StartConfig
  <2>2. ReloadTypeOK' /\ StartInv'
    BY <1>0, <1>1, <2>1 DEF ReloadTypeOK, StartInv
  <2>3. gen' >= gen
    BY <1>0, <1>1, StoreGen
  <2> QED BY <1>1, <2>1, <2>2, <2>3, QuietReload
<1> QED BY <1>2, <1>3

(* A swap publishes a validated snapshot under a generation above all others. *)
LEMMA SwapKeeps ==
  ASSUME IInv, TryReload
  PROVE  IInv'
<1> USE DEF fileVars, reqVars, storeVars
<1>0. ReloadTypeOK /\ StartInv /\ CounterInv /\ OnlyValidServed /\ GenerationIdentifies
  BY DEF IInv
<1>1. /\ server = "serving" /\ server' = "serving" /\ watch = "swap" /\ watch' = "select"
      /\ UNCHANGED <<fileVars, debounce, readVars, gen, reqVars>>
  BY <1>0 DEF TryReload, StartInv
<1>2. StartInv'
  BY <1>1 DEF StartInv
<1>3. CASE Validate(cfgRead)
  <2> DEFINE new == BuildSnapshot(cfgRead, envRead, gen)
  <2>1. new \in Snapshots /\ new.gen = gen /\ new.cfg.kind = "ok"
    BY <1>0, <1>3 DEF BuildSnapshot, Snapshots, ReloadTypeOK, Validate
  <2>2. store' = new /\ published' = published \cup {new}
    BY <1>3 DEF TryReload
  <2> HIDE DEF new
  <2>3. ReloadTypeOK'
    BY <1>0, <1>1, <2>1, <2>2 DEF ReloadTypeOK, readVars
  <2>4. gen \in Nat /\ store.gen \in Nat /\ store.gen < gen
    BY <1>0, <1>1, StoreGen DEF CounterInv
  <2>5. CounterInv'
    BY <1>0, <1>1, <2>1, <2>2, <2>4 DEF CounterInv
  <2>6. \A s \in published : s.gen \in Nat /\ s.gen < gen
    <3> TAKE s \in published
    <3>1. s.gen \in Nat /\ s.gen <= store.gen
      BY <1>0 DEF GenerationIdentifies, ReloadTypeOK, Snapshots
    <3> QED BY <2>4, <3>1
  <2>7. OnlyValidServed'
    BY <1>0, <1>1, <2>1, <2>2 DEF OnlyValidServed
  <2>8. GenerationIdentifies'
    <3>1. \A s, t \in published : s.gen = t.gen => s = t
      BY <1>0 DEF GenerationIdentifies
    <3>2. \A s \in published : s.gen \in Nat /\ s.gen # gen /\ s.gen <= gen
      BY <2>4, <2>6
    <3>3. \A s \in published \cup {new} : s.gen <= new.gen
      BY <2>1, <2>4, <3>2
    <3>4. \A s, t \in published \cup {new} : s.gen = t.gen => s = t
      BY <2>1, <3>1, <3>2
    <3> QED BY <2>2, <3>3, <3>4 DEF GenerationIdentifies
  <2> QED BY <1>2, <2>3, <2>5, <2>7, <2>8 DEF IInv
<1>4. CASE ~Validate(cfgRead)
  <2>1. UNCHANGED storeVars
    BY <1>4 DEF TryReload
  <2>2. ReloadTypeOK'
    BY <1>0, <1>1, <2>1 DEF ReloadTypeOK, readVars
  <2>3. gen' >= gen
    BY <1>0, <1>1, StoreGen
  <2> QED BY <1>1, <1>2, <2>1, <2>2, <2>3, QuietReload
<1> QED BY <1>3, <1>4

(* A request only ever reads the active snapshot, which is published. *)
LEMMA RequestKeeps ==
  ASSUME IInv, NEW r \in Requests, Request(r)
  PROVE  IInv'
<1> USE DEF IInv, fileVars, watchVars, readVars, storeVars
<1>1. CASE AuthMiddleware(r)
  <2>1. ReloadTypeOK'
    BY <1>1 DEF AuthMiddleware, ReloadTypeOK
  <2>2. OnlyValidServed'
    BY <1>1 DEF AuthMiddleware, OnlyValidServed, ReloadTypeOK
  <2> QED BY <1>1, <2>1, <2>2 DEF AuthMiddleware, StartInv, CounterInv, GenerationIdentifies
<1>2. CASE HandleRequest(r)
  <2>1. ReloadTypeOK'
    BY <1>2 DEF HandleRequest, ReloadTypeOK
  <2>2. OnlyValidServed'
    BY <1>2 DEF HandleRequest, OnlyValidServed, GenerationIdentifies, ReloadTypeOK
  <2> QED BY <1>2, <2>1, <2>2 DEF HandleRequest, StartInv, CounterInv, GenerationIdentifies
<1>3. CASE FinishRequest(r)
  <2>1. ReloadTypeOK'
    BY <1>3 DEF FinishRequest, ReloadTypeOK
  <2>2. OnlyValidServed'
    BY <1>3 DEF FinishRequest, OnlyValidServed, ReloadTypeOK
  <2> QED BY <1>3, <2>1, <2>2 DEF FinishRequest, StartInv, CounterInv, GenerationIdentifies
<1> QED BY <1>1, <1>2, <1>3 DEF Request

(* Every step preserves the invariant. *)
LEMMA ReloadSteps == IInv /\ [ReloadNext]_reloadVars => IInv'
<1> SUFFICES ASSUME IInv, [ReloadNext]_reloadVars PROVE IInv'
  OBVIOUS
<1> USE DEF fileVars, watchVars, readVars, storeVars, reqVars
<1>a. ReloadTypeOK /\ StartInv /\ CounterInv /\ gen \in Nat /\ pending \in Nat
  BY StoreGen DEF IInv, ReloadTypeOK
<1>1. ASSUME NEW kind \in Kinds, EditConfig(kind) PROVE IInv'
  <2>1. [ver |-> cfgFile.ver + 1, kind |-> kind] \in ConfigFiles
    BY <1>a, <1>1, ReloadAssumption
    DEF EditConfig, Edits, ReloadTypeOK, ConfigFiles, Versions
  <2>2. ReloadTypeOK'
    BY <1>a, <1>1, <2>1 DEF EditConfig, Notify, ReloadTypeOK
  <2> QED BY <1>1, <2>2 DEF EditConfig, IInv, StartInv, CounterInv, OnlyValidServed,
          GenerationIdentifies
<1>2. CASE EditEnv
  <2>1. envFile + 1 \in Versions
    BY <1>a, <1>2, ReloadAssumption DEF EditEnv, Edits, ReloadTypeOK, ConfigFiles, Versions
  <2>2. ReloadTypeOK'
    BY <1>a, <1>2, <2>1 DEF EditEnv, Notify, ReloadTypeOK
  <2> QED BY <1>2, <2>2 DEF EditEnv, IInv, StartInv, CounterInv, OnlyValidServed,
          GenerationIdentifies
<1>3. CASE Trigger
  <2>1. ReloadTypeOK'
    BY <1>a, <1>3 DEF Trigger, ReloadTypeOK
  <2> QED BY <1>3, <2>1 DEF Trigger, IInv, StartInv, CounterInv, OnlyValidServed,
          GenerationIdentifies
<1>4. CASE StartDotenv \/ StartWatch \/ StopServer \/ StartReload \/ LoadDotenv \/ ReadConfig
  <2>1. ReloadTypeOK'
    <3>1. CASE StartDotenv BY <1>a, <3>1 DEF StartDotenv, ReloadTypeOK
    <3>2. CASE StartWatch BY <1>a, <3>2 DEF StartWatch, ReloadTypeOK
    <3>3. CASE StopServer BY <1>a, <3>3 DEF StopServer, ReloadTypeOK
    <3>4. CASE StartReload BY <1>a, <3>4 DEF StartReload, ReloadTypeOK
    <3>5. CASE LoadDotenv BY <1>a, <3>5 DEF LoadDotenv, ReloadTypeOK
    <3>6. CASE ReadConfig BY <1>a, <3>6 DEF ReadConfig, ReloadTypeOK
    <3> QED BY <1>4, <3>1, <3>2, <3>3, <3>4, <3>5, <3>6
  <2>2. /\ gen' >= gen
        /\ watch' = "swap" => gen' > gen
        /\ server' \in {"watch", "serving"} => server \in {"watch", "serving"}
        /\ UNCHANGED storeVars /\ UNCHANGED reqVars
    BY <1>a, <1>4 DEF StartDotenv, StartWatch, StopServer, StartReload, LoadDotenv, ReadConfig,
                      StartInv
  <2>3. StartInv'
    BY <1>a, <1>4 DEF StartDotenv, StartWatch, StopServer, StartReload, LoadDotenv, ReadConfig,
                      StartInv
  <2> QED BY <2>1, <2>2, <2>3, QuietReload
<1>5. CASE StartConfig BY <1>5, StartKeeps
<1>6. CASE TryReload BY <1>6, SwapKeeps
<1>7. CASE \E r \in Requests : Request(r) BY <1>7, RequestKeeps
<1>8. CASE UNCHANGED reloadVars
  BY <1>8 DEF reloadVars, IInv, ReloadTypeOK, StartInv, CounterInv, OnlyValidServed,
              GenerationIdentifies
<1> QED BY <1>1, <1>2, <1>3, <1>4, <1>5, <1>6, <1>7, <1>8
        DEF ReloadNext, Edit, StartUp, Reload, Idle

(* The invariant of hot reload holds in every reachable state. *)
THEOREM ReloadInvariant == ReloadSpec => []IInv
BY ReloadStarts, ReloadSteps, PTL DEF ReloadSpec

(* No snapshot that failed validation is ever served from, whatever is     *)
(* written to config.toml and whenever it is read.                         *)
THEOREM InvalidReloadKeepsConfig == ReloadSpec => []OnlyValidServed
<1>1. IInv => OnlyValidServed
  BY DEF IInv
<1> QED BY <1>1, ReloadInvariant, PTL

(* A config generation identifies one snapshot. *)
THEOREM GenerationsAreUnique == ReloadSpec => []GenerationIdentifies
<1>1. IInv => GenerationIdentifies
  BY DEF IInv
<1> QED BY <1>1, ReloadInvariant, PTL
=============================================================================
